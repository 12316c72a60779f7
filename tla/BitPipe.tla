------------------------------ MODULE BitPipe ------------------------------
(***************************************************************************)
(* What is written through an OutputBits is read back through an           *)
(* InputBits: once the former is closed, the latter opens what the         *)
(* io.Writer got.                                                          *)
(***************************************************************************)
EXTENDS OutputBits

CONSTANTS
  InBufferBytes, InBitCounts, InArraySizes,  \* those of InputBits
  ShortReads, ReadErrors, AsksAtLastByte

VARIABLES
  opened,   \* the reading has started
  \* The variables of InputBits
  iClosed, iReadCount, iPosition, iAvailBits, iMaxPosition, iCurrent, iBuffer,
  iSrcPos, iPc, iRemaining, iR, iA, iOut, iDelivered, iPanicked, iWanted, iHasMore,
  iIoError

In == INSTANCE InputBits WITH
        BufferBytes <- InBufferBytes, BitCounts <- InBitCounts,
        ArraySizes <- InArraySizes, Sizes <- {},
        source <- sink, closed <- iClosed, readCount <- iReadCount,
        position <- iPosition, availBits <- iAvailBits, maxPosition <- iMaxPosition,
        current <- iCurrent, buffer <- iBuffer, srcPos <- iSrcPos, pc <- iPc,
        remaining <- iRemaining, r <- iR, a <- iA, out <- iOut,
        delivered <- iDelivered, panicked <- iPanicked, wanted <- iWanted,
        hasMore <- iHasMore, ioError <- iIoError

ASSUME BitPipeAssumption ==
  /\ InBufferBytes \in Nat \ {0} /\ InBufferBytes % WordBytes = 0
  /\ InBitCounts \subseteq 1 .. W /\ InArraySizes \subseteq Nat \ {0}
  /\ {ShortReads, ReadErrors, AsksAtLastByte} \subseteq BOOLEAN

iVars == <<iClosed, iReadCount, iPosition, iAvailBits, iMaxPosition, iCurrent, iBuffer,
           iSrcPos, iPc, iRemaining, iR, iA, iOut, iDelivered, iPanicked, iWanted,
           iHasMore, iIoError>>

PipeInit == Init /\ opened = FALSE /\ In!NewStream

Open ==
  /\ closed /\ ~panicked /\ ~opened /\ opened' = TRUE
  /\ UNCHANGED <<vars, iVars>>

PipeNext ==
  \/ Next /\ UNCHANGED <<opened, iVars>>
  \/ Open
  \/ opened /\ UNCHANGED <<opened, vars>> /\ In!Next

PipeSpec == PipeInit /\ [][PipeNext]_<<vars, opened, iVars>>

-----------------------------------------------------------------------------
(* Every variable of the two streams has its type. *)
PipeTypeOK == TypeOK /\ In!TypeOK

(* Every bit that was accepted comes back, in its place: whatever the      *)
(* calls, the buffers and the alignments on either side; behind the last   *)
(* one there is nothing but the padding of its byte.                       *)
PipeInOrder ==
  \A i \in 1 .. Len(iDelivered) : iDelivered[i] = IF i <= accepted THEN i ELSE 0

(* A call panics for lack of data only when it asks for more than what was *)
(* written and its padding, or the io.Reader returned an error.            *)
EndIsReal == In!EndIsReal

=============================================================================
