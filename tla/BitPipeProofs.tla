---------------------------- MODULE BitPipeProofs ----------------------------
(***************************************************************************)
(* Proofs about the two bitstreams together: what is written is read back, *)
(* for every size of the byte, of the word and of the two buffers and for  *)
(* every client on either side.                                            *)
(***************************************************************************)
EXTENDS BitPipe, OutputBitsProofs

(* The reader once more, with what is proved about it.                     *)
IP == INSTANCE InputBitsProofs WITH
        BufferBytes <- InBufferBytes, BitCounts <- InBitCounts,
        ArraySizes <- InArraySizes, Sizes <- {},
        source <- sink, closed <- iClosed, readCount <- iReadCount,
        position <- iPosition, availBits <- iAvailBits, maxPosition <- iMaxPosition,
        current <- iCurrent, buffer <- iBuffer, srcPos <- iSrcPos, pc <- iPc,
        remaining <- iRemaining, r <- iR, a <- iA, out <- iOut,
        delivered <- iDelivered, panicked <- iPanicked, wanted <- iWanted,
        hasMore <- iHasMore, ioError <- iIoError

(* The premises of InputBitsProofs: reads may be short if the client reads *)
(* no arrays, and HasMoreToRead is not called at the last byte of a buffer.*)
Regular == (ShortReads => InArraySizes = {}) /\ AsksAtLastByte = FALSE

-----------------------------------------------------------------------------
(* The reader of BitPipe is the one that the lemmas are about. *)

LEMMA SameWords == IP!WordsAssumption
  BY WordsAssumption DEF IP!WordsAssumption

LEMMA SameFits == Regular => IP!Fits
  BY BitPipeAssumption DEF Regular, IP!Fits, W, IP!W

LEMMA SameNewStream == In!NewStream <=> IP!NewStream
  BY DEF In!NewStream, IP!NewStream, In!Zero, IP!Zero, In!W, IP!W

LEMMA SameTypes ==
  /\ In!TypeOK <=> IP!TypeOK
  /\ In!EndIsReal <=> IP!EndIsReal
  BY DEF In!TypeOK, IP!TypeOK, In!W, IP!W, In!size, IP!size, In!EndIsReal, IP!EndIsReal,
         In!BitsOf, IP!BitsOf

LEMMA SameFillBuffer == In!FillBuffer <=> IP!FillBuffer
  BY DEF In!FillBuffer, IP!FillBuffer, In!NeedsBytes, IP!NeedsBytes, In!InBuffer, IP!InBuffer,
         In!Returns, IP!Returns, In!Refill, IP!Refill, In!NoRefill, IP!NoRefill,
         In!SourceEnds, IP!SourceEnds, In!RefillFails, IP!RefillFails,
         In!Panic, IP!Panic, In!LeftInSource, IP!LeftInSource, In!size, IP!size,
         In!CountConsumed, IP!CountConsumed, In!LastIndex, IP!LastIndex,
         In!BitsOf, IP!BitsOf, In!MinOf, IP!MinOf, In!W, IP!W

LEMMA SameReading ==
  /\ \A n : In!ReadBits(n) <=> IP!ReadBits(n)
  /\ In!ReadBit <=> IP!ReadBit
  /\ \A n : In!ReadArray(n) <=> IP!ReadArray(n)
  BY DEF In!ReadBits, IP!ReadBits, In!ReadBit, IP!ReadBit, In!ReadArray, IP!ReadArray,
         In!Call, IP!Call, In!Ready, IP!Ready, In!Aligned, IP!Aligned, In!fields, IP!fields,
         In!W, IP!W

LEMMA SameWordLoops ==
  /\ In!TakeLast <=> IP!TakeLast
  /\ In!TakeAndPull <=> IP!TakeAndPull
  /\ In!PullForArray <=> IP!PullForArray
  /\ In!EmptyWord <=> IP!EmptyWord
  BY DEF In!TakeLast, IP!TakeLast, In!TakeAndPull, IP!TakeAndPull, In!PullForArray,
         IP!PullForArray, In!EmptyWord, IP!EmptyWord, In!Return, IP!Return, In!TakeBits,
         IP!TakeBits, In!refilled, IP!refilled, In!Pull, IP!Pull, In!Pulled, IP!Pulled,
         In!PulledBytes, IP!PulledBytes, In!InBuffer, IP!InBuffer, In!hist, IP!hist,
         In!MinOf, IP!MinOf, In!BitsOf, IP!BitsOf, In!W, IP!W

LEMMA SameCopyBytes == In!CopyBytes <=> IP!CopyBytes
  BY DEF In!CopyBytes, IP!CopyBytes, In!WordsOf, IP!WordsOf, In!InBuffer, IP!InBuffer,
         In!NeedsBytes, IP!NeedsBytes, In!BytesAt, IP!BytesAt, In!BitsOf, IP!BitsOf,
         In!hist, IP!hist, In!W, IP!W

LEMMA SameOneWord == In!OneWord <=> IP!OneWord
  BY DEF In!OneWord, IP!OneWord, In!Pull, IP!Pull, In!Pulled, IP!Pulled, In!PulledBytes,
         IP!PulledBytes, In!InBuffer, IP!InBuffer, In!Panic, IP!Panic, In!MinOf, IP!MinOf,
         In!BitsOf, IP!BitsOf, In!Flat, IP!Flat, In!Or, IP!Or, In!Merge, IP!Merge,
         In!Clash, IP!Clash, In!ShiftLeft, IP!ShiftLeft, In!ShiftRight, IP!ShiftRight,
         In!W, IP!W

LEMMA SameFourWords == In!FourWords <=> IP!FourWords
  BY DEF In!FourWords, IP!FourWords, In!BytesAt, IP!BytesAt, In!BitsOf, IP!BitsOf,
         In!Flat, IP!Flat, In!Or, IP!Or, In!Merge, IP!Merge, In!Clash, IP!Clash,
         In!ShiftLeft, IP!ShiftLeft, In!ShiftRight, IP!ShiftRight, In!hist, IP!hist,
         In!W, IP!W

LEMMA SameSplitLoops ==
  /\ In!QuadWords <=> IP!QuadWords
  /\ In!SingleWords <=> IP!SingleWords
  BY SameOneWord, SameFourWords
  DEF In!QuadWords, IP!QuadWords, In!SingleWords, IP!SingleWords, In!InBuffer, IP!InBuffer,
      In!fields, IP!fields, In!hist, IP!hist, In!W, IP!W

LEMMA SameEnds ==
  /\ In!AtLastByte <=> IP!AtLastByte
  /\ In!HasMoreToRead <=> IP!HasMoreToRead
  /\ In!Close <=> IP!Close
  BY DEF In!AtLastByte, IP!AtLastByte, In!HasMoreToRead, IP!HasMoreToRead, In!Ready,
         IP!Ready, In!MoreInHand, IP!MoreInHand, In!refilled, IP!refilled, In!Returns,
         IP!Returns, In!Refill, IP!Refill, In!NoRefill, IP!NoRefill, In!SourceEnds,
         IP!SourceEnds, In!RefillFails, IP!RefillFails, In!LeftInSource,
         IP!LeftInSource, In!size, IP!size, In!CountConsumed, IP!CountConsumed,
         In!LastIndex, IP!LastIndex, In!BitsOf, IP!BitsOf, In!MinOf, IP!MinOf,
         In!Close, IP!Close, In!hist, IP!hist

LEMMA SameNext == In!Next => IP!Next
  BY SameFillBuffer, SameReading, SameWordLoops, SameCopyBytes, SameSplitLoops, SameEnds
  DEF In!Next, IP!Next

-----------------------------------------------------------------------------
(* The inductive invariant: the reader starts when the writer is closed    *)
(* without a panic, on what the writer has written by then.                *)
PipeInv ==
  /\ IInv /\ opened \in BOOLEAN
  /\ ~opened => In!NewStream
  /\ opened => closed /\ ~panicked /\ IP!IInv

(* What the writer has written are whole bytes.                            *)
LEMMA SinkIsBytes == IInv => IP!WholeBytes
<1> SUFFICES ASSUME IInv PROVE IP!WholeBytes
  OBVIOUS
<1>1. PICK k \in Nat : Len(sink) = BitsOf(k)
  BY DEF IInv, Aligns
<1>2. sink \in Seq(Nat)
  <2>1. Bits \subseteq Nat /\ sink \in Seq(Bits)
    BY BufferSize DEF Bits, IInv, Types
  <2>2. Len(sink) \in Nat /\ sink \in [1 .. Len(sink) -> Bits]
    BY <2>1, LenProperties
  <2>3. sink \in [1 .. Len(sink) -> Nat]
    BY <2>1, <2>2
  <2> QED
    BY <2>2, <2>3, SequenceIs
<1>3. IP!size = k
  <2>1. Len(sink) = k * ByteBits /\ ByteBits \in Nat \ {0}
    BY <1>1, ByteSize DEF BitsOf
  <2> QED
    BY <2>1, WholeQuotient DEF IP!size
<1> QED
  BY <1>1, <1>2, <1>3 DEF IP!WholeBytes, IP!BitsOf, BitsOf

LEMMA ReaderIInv ==
  ASSUME PipeInv
  PROVE  IP!IInv
<1>1. CASE opened
  BY <1>1 DEF PipeInv
<1>2. CASE ~opened
  <2>1. IP!NewStream /\ IP!WholeBytes /\ InBufferBytes \in Nat
    BY <1>2, SameNewStream, SinkIsBytes, BitPipeAssumption DEF PipeInv
  <2> QED
    BY <2>1, SameWords, IP!NewStreamIInv
<1> QED
  BY <1>1, <1>2

LEMMA InitPipeInv == PipeInit => PipeInv
  BY InitIInv DEF PipeInit, PipeInv

(* The writer stops for good when it is closed.                            *)
LEMMA ClosedStops ==
  ASSUME IInv, closed, Next
  PROVE  FALSE
<1>1. pc = "idle"
  BY DEF IInv, Loops
<1> QED
  BY <1>1 DEF Next, WriteBits, WriteBit, WriteArray, Ready, FillWord, CopyBytes, QuadWords,
              SingleWords, TailBits, Close

LEMMA WriterStep ==
  ASSUME PipeInv, Next, UNCHANGED <<opened, iVars>>
  PROVE  PipeInv'
<1>1. IInv'
  BY NextIInv DEF PipeInv
<1>2. ~opened
  BY ClosedStops DEF PipeInv
<1>3. In!NewStream'
  BY <1>2 DEF PipeInv, In!NewStream, In!Zero, In!W, iVars
<1> QED
  BY <1>1, <1>2, <1>3 DEF PipeInv

LEMMA OpenStep ==
  ASSUME PipeInv, Open
  PROVE  PipeInv'
<1>1. closed /\ ~panicked /\ opened' = TRUE /\ UNCHANGED vars /\ UNCHANGED iVars
  BY DEF Open
<1>2. IInv'
  BY <1>1, NextIInv DEF PipeInv
<1>3. IP!IInv'
  <2>1. UNCHANGED IP!vars
    BY <1>1 DEF IP!vars, IP!fields, IP!hist, iVars, vars, fields
  <2> QED
    BY <2>1, SameWords, ReaderIInv, IP!StutterIInv
<1>4. closed' /\ ~panicked'
  BY <1>1 DEF vars, fields, hist
<1> QED
  BY <1>1, <1>2, <1>3, <1>4 DEF PipeInv

LEMMA ReaderStep ==
  ASSUME Regular, PipeInv, opened, UNCHANGED <<opened, vars>>, In!Next
  PROVE  PipeInv'
<1>1. IInv' /\ closed' /\ ~panicked'
  BY NextIInv DEF PipeInv, vars, fields, hist
<1>2. IP!IInv'
  <2>1. IP!Fits /\ IP!IInv /\ IP!Next
    BY SameFits, SameNext, ReaderIInv
  <2> QED
    BY <2>1, SameWords, IP!NextIInv
<1> QED
  BY <1>1, <1>2 DEF PipeInv

LEMMA StutterStep ==
  ASSUME PipeInv, UNCHANGED <<vars, opened, iVars>>
  PROVE  PipeInv'
<1>1. IInv'
  BY NextIInv DEF PipeInv
<1>2. UNCHANGED <<closed, panicked>>
  BY DEF vars, fields, hist
<1>3. CASE opened
  <2>1. UNCHANGED IP!vars
    BY DEF IP!vars, IP!fields, IP!hist, iVars, vars, fields
  <2>2. IP!IInv'
    BY <2>1, SameWords, ReaderIInv, IP!StutterIInv
  <2> QED
    BY <1>1, <1>2, <1>3, <2>2 DEF PipeInv
<1>4. CASE ~opened
  <2>1. In!NewStream'
    BY <1>4 DEF PipeInv, In!NewStream, In!Zero, In!W, iVars
  <2> QED
    BY <1>1, <1>4, <2>1 DEF PipeInv
<1> QED
  BY <1>3, <1>4

LEMMA PipeInvariance ==
  ASSUME Regular
  PROVE  PipeSpec => []PipeInv
<1>1. PipeInit => PipeInv
  BY InitPipeInv
<1>2. PipeInv /\ [PipeNext]_<<vars, opened, iVars>> => PipeInv'
  BY WriterStep, OpenStep, ReaderStep, StutterStep DEF PipeNext
<1> QED
  BY <1>1, <1>2, PTL DEF PipeSpec

-----------------------------------------------------------------------------
(* Both streams keep their types, whatever the other one does. *)
THEOREM PipeTypeCorrect ==
  ASSUME Regular
  PROVE  PipeSpec => []PipeTypeOK
<1>1. PipeInv => PipeTypeOK
  BY ReaderIInv, SameTypes DEF PipeInv, PipeTypeOK, IInv, Types, IP!IInv, IP!Types
<1> QED
  BY <1>1, PipeInvariance, PTL

(* Every bit that was accepted comes back in its place, and nothing but    *)
(* padding behind the last one: WriteBit, WriteBits and WriteArray on one  *)
(* side, ReadBit, ReadBits and ReadArray on the other, in any mixture and  *)
(* at any alignment (DefaultOutputBitStream.go, DefaultInputBitStream.go). *)
THEOREM ComesBack ==
  ASSUME Regular
  PROVE  PipeSpec => []PipeInOrder
<1>1. ASSUME PipeInv PROVE PipeInOrder
  <2>1. CASE ~opened
    <3>1. iDelivered = <<>>
      BY <1>1, <2>1 DEF PipeInv, In!NewStream
    <3> QED
      BY <3>1 DEF PipeInOrder
  <2>2. CASE opened
    <3> DEFINE n == Len(iDelivered)
               k == Len(sink)
    <3>1. IP!IInv /\ ClosedIsComplete /\ closed /\ ~panicked /\ Types
      BY <1>1, <2>2 DEF PipeInv, IInv
    <3>2. n <= k /\ \A i \in 1 .. n : iDelivered[i] = sink[0 + i]
      BY <3>1 DEF IP!IInv, IP!Delivered, IP!Holds
    <3>3. iDelivered \in Seq(Nat) /\ sink \in Seq(Bits) /\ accepted \in Nat
          /\ n \in Nat /\ k \in Nat
      BY <3>1, BufferSize DEF IP!IInv, IP!Types, Types, TypeOK, Bits
    <3>4. /\ k \in accepted .. accepted + ByteBits - 1
          /\ SubSeq(sink, 1, accepted) = BitRange(1, accepted)
          /\ \A i \in accepted + 1 .. k : sink[i] = 0
      BY <3>1 DEF ClosedIsComplete
    <3>5. \A i \in 1 .. accepted : sink[i] = i
      <4> TAKE i \in 1 .. accepted
      <4>1. \A j \in 1 .. accepted : sink[j] \in Bits
        <5>1. \A j \in 1 .. accepted : j \in 1 .. Len(sink)
          BY <3>3, <3>4, ByteSize
        <5> QED
          BY <3>3, <5>1
      <4>2. SubSeq(sink, 1, accepted)[i] = sink[1 + i - 1]
        <5>1. i \in 1 .. accepted - 1 + 1 /\ accepted \in Int
          BY <3>3
        <5> QED
          BY <4>1, <5>1, SubSeqProperties
      <4>3. BitRange(1, accepted)[i] = i
        <5>1. i \in 1 .. accepted - 1 + 1 /\ 1 + i - 1 = i
          BY <3>3
        <5> QED
          BY <5>1 DEF BitRange
      <4> QED
        BY <3>3, <3>4, <4>2, <4>3
    <3> HIDE DEF n, k
    <3>6. ASSUME NEW i \in 1 .. n
          PROVE  iDelivered[i] = IF i <= accepted THEN i ELSE 0
      <4>1. i \in 1 .. k /\ iDelivered[i] = sink[i]
        BY <3>2, <3>3
      <4>2. CASE i <= accepted
        BY <3>3, <3>5, <4>1, <4>2
      <4>3. CASE ~(i <= accepted)
        BY <3>3, <3>4, <4>1, <4>3
      <4> QED
        BY <4>2, <4>3
    <3> QED
      BY <3>6 DEF PipeInOrder, n
  <2> QED
    BY <2>1, <2>2
<1> QED
  BY <1>1, PipeInvariance, PTL

(* A call panics only for bits that were never written, nor padded.        *)
THEOREM EndIsTheEnd ==
  ASSUME Regular
  PROVE  PipeSpec => []EndIsReal
<1>1. PipeInv => EndIsReal
  BY ReaderIInv, SameTypes DEF EndIsReal, IP!IInv
<1> QED
  BY <1>1, PipeInvariance, PTL

=============================================================================
