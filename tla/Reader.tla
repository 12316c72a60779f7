------------------------------- MODULE Reader -------------------------------
(***************************************************************************)
(* The decompressing stream of v2/io/CompressedStream.go: a Reader decodes *)
(* a batch of blocks with one goroutine (decodingTask) per block and hands *)
(* the decoded units out through Read.  The tasks take turns to read the   *)
(* shared InputBitStream: processedBlockID (the Reader's blockID field)    *)
(* holds k-1 when the task of block k may read; the task stores k as soon  *)
(* as it has read its block, and decodes it concurrently with the others.  *)
(* A task that fails, finds the end mark or sees the cancellation stores   *)
(* CancelTasks.                                                            *)
(*                                                                         *)
(* Unit i of the original input is the number i; the same unit out of a    *)
(* block whose checksum does not match is -i, and 0 is scratch.            *)
(***************************************************************************)
EXTENDS Integers, Sequences, FiniteSets

CONSTANTS
  Jobs,          \* number of decoding goroutines of a full batch
  BlockSize,     \* units in a block
  MaxBlocks,     \* bound: blocks in the stream
  MaxDamaged,    \* bound: damaged blocks in the stream
  Kinds, Ends,   \* which kinds of blocks and of ends of stream there are
  ReadSizes,     \* the lengths of the slices the client passes to Read
  Headers,       \* which kinds of headers there are
  Contexts,      \* which ways of opening a stream there are: a set of ContextSet
  StopOnError    \* TRUE: the client only calls Close after an error

(***************************************************************************)
(* "bad": the block cannot be decoded; "crc": it decodes to something that *)
(* does not match its checksum; "big": to more than BlockSize units (only  *)
(* the caller notices, if there is no checksum).  "end": the stream ends with its end mark; *)
(* "cut": it is cut between two blocks; "torn": inside a block.            *)
(***************************************************************************)
BlockKinds == {"ok", "bad", "crc", "big"}
EndKinds == {"end", "cut", "torn"}

(***************************************************************************)
(* "mismatch": the last field of the header, its checksum, is not the one  *)
(* expected; "absent": the stream was written without a header.            *)
(***************************************************************************)
HeaderKinds == {"valid", "mismatch", "absent"}

(***************************************************************************)
(* "headerless ctx": NewReaderWithCtx with ctx["headerless"] = true and    *)
(* the parameters of the stream.                                           *)
(***************************************************************************)
Constructors == {"NewReader", "NewHeaderlessReader", "headerless ctx"}

(***************************************************************************)
(* How a Reader is made: its constructor; ctx["from"] and ctx["to"] (the   *)
(* blocks to keep are from .. to-1, 0 means no bound); the number of       *)
(* blocks computed from the size in the header, 0 if it is not there.      *)
(***************************************************************************)
ContextSet == [constructor : Constructors, from : Nat, to : Nat, nbInputBlocks : Nat]

ASSUME ReaderAssumption ==
  /\ Jobs \in Nat \ {0} /\ BlockSize \in Nat \ {0}
  /\ MaxBlocks \in Nat /\ MaxDamaged \in Nat
  /\ Kinds \subseteq BlockKinds /\ Ends \subseteq EndKinds
  /\ Headers \subseteq HeaderKinds /\ Contexts \subseteq ContextSet
  /\ ReadSizes \subseteq Nat \ {0} /\ StopOnError \in BOOLEAN

VARIABLES
  \* The compressed stream, which does not change: the kinds of its blocks,
  \* the length of the last one, how it ends, whether its header is valid
  kinds, lastLen, ending, header,
  \* How the Reader was made, which does not change either
  ctx,
  \* The fields of the Reader (sized: blockSize and the rest are known)
  closed, initialized, sized, blockID, available, consumed, buffers,
  \* The shared bitstream: the item that comes next
  ibsPos,
  \* The goroutine of the caller: where it is, and the locals of its calls;
  \* in the loop over the results of a batch: which one comes next, how
  \* many were kept (the n of the code), how many units they sum up to
  mainPc, remaining, firstID, result, kept, sum,
  \* The decoding tasks of the current batch, by taskID (held: which block
  \* of the stream the task has read)
  pc, held, decoded, skipped, err,
  \* History: the units handed out, how many before the current call; what
  \* the last call returned; whether any call returned an error
  delivered, callStart, ret, failed

theStream  == <<kinds, lastLen, ending, header, ctx>>
streamVars == <<closed, initialized, sized>>
dataVars   == <<available, consumed, buffers>>
resultVars == <<result, kept, sum>>
mainVars   == <<mainPc, remaining, firstID, resultVars>>
taskVars   == <<pc, held, decoded, skipped, err>>
histVars   == <<delivered, callStart, ret, failed>>
vars == <<theStream, streamVars, dataVars, blockID, ibsPos, mainVars, taskVars,
          histVars>>

-----------------------------------------------------------------------------
CancelTasks == -1                       \* _CANCEL_TASKS_ID

TaskIDs == 0 .. Jobs - 1
BufferIDs == 0 .. 2 * Jobs - 1          \* the upper half is for the tasks

MinOf(a, b) == IF a <= b THEN a ELSE b

NbInputBlocks == ctx.nbInputBlocks
From == ctx.from
To == ctx.to

NbTasks ==
  IF Jobs > 1 /\ NbInputBlocks > 0 THEN MinOf(Jobs, NbInputBlocks) ELSE Jobs
Batch == 0 .. NbTasks - 1

(* The block a task of the current batch decodes. *)
CurrentBlockID(t) == firstID + t + 1

(* It is the turn of task t.  Mutant: any value but "cancelled" will do.   *)
MyTurnOrAny(t) == blockID # CancelTasks
MyTurn(t) == blockID = CurrentBlockID(t) - 1

(* Block k must be skipped.  Mutant: To is the last block to keep.         *)
MustSkipAfterTo(k) == (From > 0 /\ k < From) \/ (To > 0 /\ k > To)
MustSkip(k) == (From > 0 /\ k < From) \/ (To > 0 /\ k >= To)

(* The units of block k of the stream, as the encoder saw them. *)
BlockLen(k) == IF k = Len(kinds) THEN lastLen ELSE BlockSize
BlockUnits(k) == [j \in 1 .. BlockLen(k) |-> (k - 1) * BlockSize + j]

EmptyBuffer == [j \in 1 .. BlockSize |-> 0]

(* What task t leaves in its buffer when block k is there: the block, or   *)
(* the block with a wrong checksum, over what the buffer held before.      *)
DecodedInto(buf, k) ==
  [j \in 1 .. BlockSize |->
     IF j > BlockLen(k) THEN buf[j]
     ELSE IF kinds[k] = "ok" THEN BlockUnits(k)[j] ELSE -BlockUnits(k)[j]]

NoResults == result' = 0 /\ kept' = 0 /\ sum' = 0
NoTasks ==
  /\ pc' = [t \in TaskIDs |-> "none"]
  /\ held' = [t \in TaskIDs |-> 0] /\ decoded' = [t \in TaskIDs |-> 0]
  /\ skipped' = [t \in TaskIDs |-> FALSE]
  /\ err' = [t \in TaskIDs |-> FALSE]

(* The context makes the Reader headless; NewHeaderlessReader fills in the *)
(* parameters of the stream but not ctx["headerless"].                     *)
headless == ctx.constructor = "headerless ctx"

(* A stream with at most MaxDamaged damaged blocks, and a new Reader. *)
Init ==
  /\ \E n \in 0 .. MaxBlocks : kinds \in [1 .. n -> Kinds]
  /\ Cardinality({k \in DOMAIN kinds : kinds[k] # "ok"}) <= MaxDamaged
  /\ lastLen \in 1 .. BlockSize /\ ending \in Ends
  /\ header \in Headers /\ ctx \in Contexts
  /\ closed = FALSE /\ initialized = FALSE /\ sized = headless
  /\ blockID = 0 /\ available = 0 /\ consumed = 0
  /\ buffers = [b \in BufferIDs |-> EmptyBuffer]
  /\ ibsPos = 1
  /\ mainPc = "idle" /\ remaining = 0 /\ firstID = 0
  /\ result = 0 /\ kept = 0 /\ sum = 0
  /\ pc = [t \in TaskIDs |-> "none"]
  /\ held = [t \in TaskIDs |-> 0] /\ decoded = [t \in TaskIDs |-> 0]
  /\ skipped = [t \in TaskIDs |-> FALSE]
  /\ err = [t \in TaskIDs |-> FALSE]
  /\ delivered = <<>> /\ callStart = 0 /\ ret = "none" /\ failed = FALSE

-----------------------------------------------------------------------------
(* The goroutine of the caller. *)

(* readHeader, the first thing Read does: the header is read by the first  *)
(* call only, and what was read of it stays when it is refused.            *)
HeaderRead == headless \/ initialized
HeaderRefused == ~HeaderRead /\ header # "valid"
ReadHeader ==
  /\ initialized' = (initialized \/ ~headless)
  /\ sized' = (sized \/ (~HeaderRead /\ header # "absent"))
  /\ UNCHANGED closed

(* A call to Read with a slice of n bytes on an open stream.  (On a closed *)
(* stream Read returns an error and changes nothing.)  Without a block     *)
(* size the first division of the loop panics.                             *)
Read(n) ==
  /\ mainPc = "idle" /\ ~closed
  /\ ~(StopOnError /\ failed)
  /\ ReadHeader
  /\ callStart' = Len(delivered) /\ remaining' = n
  /\ \/ /\ HeaderRefused
        /\ mainPc' = "idle" /\ ret' = "error" /\ failed' = TRUE
     \/ /\ ~HeaderRefused
        /\ mainPc' = IF sized' THEN "copy" ELSE "panic"
        /\ ret' = "none" /\ UNCHANGED failed
  /\ UNCHANGED <<theStream, dataVars, blockID, ibsPos, firstID, resultVars,
                 taskVars, delivered>>

(* One turn of the loop of Read: hand out what the current buffer holds.   *)
Copy ==
  LET bufOff   == consumed % BlockSize
      bufID    == consumed \div BlockSize
      lenChunk == MinOf(remaining, MinOf(available, BlockSize - bufOff))
  IN /\ mainPc = "copy"
     /\ delivered' = IF lenChunk = 0 THEN delivered
                     ELSE delivered \o SubSeq(buffers[bufID], bufOff + 1, bufOff + lenChunk)
     /\ available' = available - lenChunk
     /\ consumed' = consumed + lenChunk
     /\ remaining' = remaining - lenChunk
     /\ mainPc' = CASE remaining' = 0 -> "idle"
                    [] remaining' > 0 /\ available' > 0 -> "copy"
                    [] OTHER -> "process"
     /\ ret' = IF remaining' = 0 THEN "ok" ELSE ret
     /\ UNCHANGED <<theStream, streamVars, buffers, blockID, ibsPos, firstID,
                    resultVars, taskVars, callStart, failed>>

(* What Read returns when there is nothing left to decode. *)
EndOfStream == IF Len(delivered) = callStart THEN "eof" ELSE "ok"

(* processBlock on a cancelled stream, ...                                 *)
ProcessCancelled ==
  /\ mainPc = "process" /\ blockID = CancelTasks
  /\ available' = 0 /\ mainPc' = "idle" /\ ret' = EndOfStream
  /\ UNCHANGED <<theStream, streamVars, consumed, buffers, blockID, ibsPos,
                 remaining, firstID, resultVars, taskVars, delivered, callStart,
                 failed>>

(* ... and on another: it starts the tasks.  (A started task and one still *)
(* to be started differ in nothing another task can see.)                  *)
StartBatch ==
  /\ mainPc = "process" /\ blockID # CancelTasks
  /\ mainPc' = "batch" /\ firstID' = blockID
  /\ pc' = [t \in TaskIDs |-> IF t \in Batch THEN "turn" ELSE "none"]
  /\ UNCHANGED <<theStream, streamVars, dataVars, blockID, ibsPos, remaining,
                 resultVars, held, decoded, skipped, err, histVars>>

(* wg.Wait() returns when every task is done; the results are processed    *)
(* one by one, in the order of the tasks.                                  *)
(* Mutant: the size is not checked.                                        *)
Waited == mainPc = "batch" /\ \A t \in Batch : pc[t] = "done"
TooBigNever(t) == FALSE
TooBig(t) == decoded[t] > BlockSize
Failed(t) == err[t] \/ TooBig(t)

(* A block that was skipped takes no buffer, ...                           *)
SkipResult ==
  /\ Waited /\ result < NbTasks /\ skipped[result]
  /\ result' = result + 1
  /\ UNCHANGED <<theStream, streamVars, dataVars, blockID, ibsPos, mainPc, remaining,
                 firstID, kept, sum, taskVars, histVars>>

(* ... another one moves down to the first free buffer.                    *)
(* Mutant: a skipped block takes a buffer.                                 *)
SameBuffer == result
NextBuffer == kept
KeepResult ==
  /\ Waited /\ result < NbTasks /\ ~skipped[result] /\ ~Failed(result)
  /\ buffers' = [buffers EXCEPT ![NextBuffer] =
                   [j \in 1 .. BlockSize |->
                      IF j <= decoded[result] THEN buffers[result][j] ELSE @[j]]]
  /\ sum' = sum + decoded[result]
  /\ result' = result + 1 /\ kept' = kept + 1
  /\ UNCHANGED <<theStream, streamVars, available, consumed, blockID, ibsPos,
                 mainPc, remaining, firstID, taskVars, histVars>>

(* The first error ends the call.  What was decoded before it is available *)
(* (a block with a wrong checksum counts, one that is too big does not),   *)
(* but consumed keeps its value.                                           *)
FailBatch ==
  /\ Waited /\ result < NbTasks /\ ~skipped[result] /\ Failed(result)
  /\ available' = IF TooBig(result) THEN sum ELSE sum + decoded[result]
  /\ mainPc' = "idle" /\ ret' = "error" /\ failed' = TRUE
  /\ NoTasks /\ NoResults
  /\ UNCHANGED <<theStream, streamVars, consumed, buffers, blockID, ibsPos,
                 remaining, firstID, delivered, callStart>>

(* All results are processed: unless all blocks were skipped, the units    *)
(* are there for the client.                                               *)
EndBatch ==
  /\ Waited /\ result = NbTasks
  /\ \/ /\ kept = 0
        /\ mainPc' = "process"
        /\ UNCHANGED <<available, consumed, ret>>
     \/ /\ kept > 0
        /\ available' = sum /\ consumed' = 0
        /\ mainPc' = IF available' = 0 THEN "idle" ELSE "copy"
        /\ ret' = IF available' = 0 THEN EndOfStream ELSE ret
  /\ NoTasks /\ NoResults
  /\ UNCHANGED <<theStream, streamVars, buffers, blockID, ibsPos, remaining,
                 firstID, delivered, callStart, failed>>

(* A call to Close: the first one closes the bitstream and drops what was  *)
(* decoded, the others return at once.  (The Close of the bitstream that   *)
(* the Reader makes never returns an error.)                               *)
Close ==
  /\ mainPc = "idle"
  /\ \/ closed /\ UNCHANGED <<closed, available, buffers>>
     \/ /\ ~closed /\ closed' = TRUE /\ available' = 0
        /\ buffers' = [b \in BufferIDs |-> EmptyBuffer]
  /\ UNCHANGED <<theStream, initialized, sized, consumed, blockID, ibsPos,
                 mainVars, taskVars, histVars>>

-----------------------------------------------------------------------------
(* The decoding tasks: decodingTask.decode and its deferred function. *)

Move(t, to) == pc' = [pc EXCEPT ![t] = to]
Fail(t) == err' = [err EXCEPT ![t] = TRUE] /\ Move(t, "defer")

(* The loop that loads processedBlockID until it says "cancelled" or "your *)
(* turn"; otherwise the task keeps spinning.                               *)
AwaitTurn(t) ==
  /\ pc[t] = "turn"
  /\ \/ blockID = CancelTasks /\ Move(t, "defer")
     \/ blockID # CancelTasks /\ MyTurn(t) /\ Move(t, "size")
  /\ UNCHANGED <<theStream, streamVars, dataVars, blockID, ibsPos, mainVars,
                 held, decoded, skipped, err, histVars>>

(* The size of the next block; 0 is the end mark.  Past the last item the  *)
(* bitstream panics.  A size above 2^34, refused with an error before the  *)
(* turn is passed on, is one more stream that is cut between two blocks:   *)
(* nobody reads what follows it.                                           *)
AtBlock == ibsPos <= Len(kinds)
AtEndMark == ibsPos = Len(kinds) + 1 /\ ending = "end"
AtTornBlock == ibsPos = Len(kinds) + 1 /\ ending = "torn"
ReadSize(t) ==
  /\ pc[t] = "size"
  /\ \/ (AtBlock \/ AtTornBlock) /\ Move(t, "data") /\ UNCHANGED <<ibsPos, err>>
     \/ AtEndMark /\ Move(t, "defer") /\ ibsPos' = ibsPos + 1 /\ UNCHANGED err
     \/ ~(AtBlock \/ AtTornBlock \/ AtEndMark) /\ Fail(t) /\ UNCHANGED ibsPos
  /\ UNCHANGED <<theStream, streamVars, dataVars, blockID, mainVars, held,
                 decoded, skipped, histVars>>

(* The data of the block, into the task's own buffer. *)
ReadData(t) ==
  /\ pc[t] = "data" /\ ibsPos' = ibsPos + 1
  /\ held' = [held EXCEPT ![t] = ibsPos]
  /\ \/ AtBlock /\ Move(t, "pass") /\ UNCHANGED err
     \/ ~AtBlock /\ Fail(t)
  /\ buffers' = [buffers EXCEPT ![t] = EmptyBuffer]
  /\ UNCHANGED <<theStream, streamVars, available, consumed, blockID, mainVars,
                 decoded, skipped, histVars>>

(* The turn goes to the next task, whatever the counter holds by now; then *)
(* the block may have to be skipped.                                       *)
(* Mutant: the turn is passed by the deferred function only.               *)
PassTurnLate(t) ==
  /\ pc[t] = "pass"
  /\ skipped' = [skipped EXCEPT ![t] = MustSkip(CurrentBlockID(t))]
  /\ Move(t, IF MustSkip(CurrentBlockID(t)) THEN "defer" ELSE "decode")
  /\ UNCHANGED <<theStream, streamVars, dataVars, blockID, ibsPos, mainVars, held,
                 decoded, err, histVars>>
PassTurn(t) ==
  /\ pc[t] = "pass"
  /\ blockID' = CurrentBlockID(t)
  /\ skipped' = [skipped EXCEPT ![t] = MustSkip(CurrentBlockID(t))]
  /\ Move(t, IF MustSkip(CurrentBlockID(t)) THEN "defer" ELSE "decode")
  /\ UNCHANGED <<theStream, streamVars, dataVars, ibsPos, mainVars, held, decoded,
                 err, histVars>>

(* The block is decoded, in the task's own buffers, and its checksum       *)
(* verified.                                                               *)
DecodedLen(k) == IF kinds[k] = "big" THEN BlockSize + 1 ELSE BlockLen(k)
Decode(t) ==
  LET k == held[t]
  IN /\ pc[t] = "decode"
     /\ \/ /\ kinds[k] = "bad" /\ Fail(t) /\ UNCHANGED <<decoded, buffers>>
        \/ /\ kinds[k] # "bad"
           /\ decoded' = [decoded EXCEPT ![t] = DecodedLen(k)]
           /\ buffers' = [buffers EXCEPT ![t] = DecodedInto(@, k)]
           /\ IF kinds[k] = "crc" THEN Fail(t) ELSE Move(t, "defer") /\ UNCHANGED err
     /\ UNCHANGED <<theStream, streamVars, available, consumed, blockID, ibsPos,
                    mainVars, held, skipped, histVars>>

(* The deferred function.  A task with an error or without a block cancels *)
(* the other tasks; another one would pass the turn on if it still had it  *)
(* (it never has: PassedOn below, so that the load and the store of the    *)
(* code need no separate steps here).                                      *)
(* Mutants: only an error cancels the other tasks; a task that should      *)
(* cancel them leaves the counter alone.                                   *)
NothingToShow(t) == decoded[t] = 0 /\ ~skipped[t]
CancelsOthersOnError(t) == err[t]
CancelsOthers(t) == err[t] \/ NothingToShow(t)
DeferSilently(t) ==
  /\ pc[t] = "defer" /\ Move(t, "done")
  /\ blockID' = IF ~CancelsOthers(t) /\ MyTurn(t) THEN CurrentBlockID(t) ELSE blockID
  /\ UNCHANGED <<theStream, streamVars, dataVars, ibsPos, mainVars, held, decoded,
                 skipped, err, histVars>>
Defer(t) ==
  /\ pc[t] = "defer" /\ Move(t, "done")
  /\ blockID' = IF CancelsOthers(t) THEN CancelTasks
                ELSE IF MyTurn(t) THEN CurrentBlockID(t) ELSE blockID
  /\ UNCHANGED <<theStream, streamVars, dataVars, ibsPos, mainVars, held, decoded,
                 skipped, err, histVars>>

-----------------------------------------------------------------------------
Client == Close \/ \E n \in ReadSizes : Read(n)

MainStep ==
  \/ Copy \/ ProcessCancelled \/ StartBatch
  \/ SkipResult \/ KeepResult \/ FailBatch \/ EndBatch

TaskStep(t) ==
  AwaitTurn(t) \/ ReadSize(t) \/ ReadData(t) \/ PassTurn(t) \/ Decode(t) \/ Defer(t)

Next == Client \/ MainStep \/ \E t \in TaskIDs : TaskStep(t)

(* The Go scheduler runs every runnable goroutine; the client is free. *)
Fairness ==
  /\ WF_vars(MainStep)
  /\ \A t \in TaskIDs : WF_vars(TaskStep(t))

Spec == Init /\ [][Next]_vars
FairSpec == Spec /\ Fairness

-----------------------------------------------------------------------------
(* What the stream promises. *)

MaxUnits == MaxBlocks * BlockSize
Units == -MaxUnits .. MaxUnits

(* Every variable has its type: what is decoded never exceeds the buffers. *)
(* (After an error, consumed keeps growing from where it was: with one     *)
(* damaged block it may leave the decoded buffers for those that the tasks *)
(* use as scratch, the upper half.  A client that reads on after the       *)
(* errors of two batches makes it leave them all, a panic; with            *)
(* StopOnError it never does, see TypesHold in ReaderProofs.)              *)
TypeOK ==
  /\ closed \in BOOLEAN /\ initialized \in BOOLEAN /\ sized \in BOOLEAN
  /\ blockID \in Nat \cup {CancelTasks}
  /\ available \in 0 .. Jobs * BlockSize /\ consumed \in 0 .. 2 * Jobs * BlockSize
  /\ buffers \in [BufferIDs -> [1 .. BlockSize -> Units]]
  /\ ibsPos \in 1 .. Len(kinds) + 2
  /\ mainPc \in {"idle", "copy", "process", "batch", "panic"}
  /\ remaining \in Nat /\ firstID \in Nat
  /\ result \in 0 .. NbTasks /\ kept \in 0 .. result /\ sum \in 0 .. kept * BlockSize
  /\ pc \in [TaskIDs -> {"none", "turn", "size", "data", "pass", "decode", "defer",
                         "done"}]
  /\ held \in [TaskIDs -> 0 .. Len(kinds) + 1]
  /\ decoded \in [TaskIDs -> 0 .. BlockSize + 1]
  /\ skipped \in [TaskIDs -> BOOLEAN] /\ err \in [TaskIDs -> BOOLEAN]
  /\ delivered \in Seq(Units) /\ callStart \in 0 .. Len(delivered)
  /\ ret \in {"none", "ok", "eof", "error"} /\ failed \in BOOLEAN

(* The units the client must get: those of the blocks it asked for. *)
Total == IF kinds = <<>> THEN 0 ELSE (Len(kinds) - 1) * BlockSize + lastLen
Wanted ==
  LET first == IF From > 1 THEN (From - 1) * BlockSize + 1 ELSE 1
      last  == IF To > 0 THEN MinOf(Total, (To - 1) * BlockSize) ELSE Total
  IN [i \in 1 .. last - first + 1 |-> first + i - 1]

(* The tasks take turns: no two of them read from the shared bitstream,    *)
(* which has no lock of its own ("Read shared bitstream sequentially").    *)
ReadsIbs(t) == pc[t] \in {"size", "data"}
TurnExclusion ==
  \A t, u \in TaskIDs : ReadsIbs(t) /\ ReadsIbs(u) => t = u

(* A task has the block its identifier says - which is what from and to,   *)
(* the order of the results and the events go by.                          *)
RightBlock ==
  \A t \in TaskIDs : pc[t] \in {"pass", "decode"} => held[t] = CurrentBlockID(t)

(* A task that got its block has passed the turn on for good: no task      *)
(* behind it is waiting for the value that the deferred function could     *)
(* still store.                                                            *)
PassedOn ==
  \A t \in TaskIDs : pc[t] = "defer" /\ ~CancelsOthers(t) => ~MyTurn(t)

(* Until a call has failed, what the client got is the beginning of what   *)
(* it wanted: no block is lost, repeated, out of order or unverified,      *)
(* whatever the interleaving of the tasks.                                 *)
DeliveredIsPrefix ==
  ~failed => /\ Len(delivered) <= Len(Wanted)
             /\ \A i \in 1 .. Len(delivered) : delivered[i] = Wanted[i]

(* io.EOF is returned, with no error before, only when the client has      *)
(* everything and the stream was there to its end mark: a cut stream never *)
(* looks like a shorter one.                                               *)
EOFIsComplete ==
  ret = "eof" /\ ~failed => delivered = Wanted /\ ending = "end"

(* An undamaged stream, opened with the constructor that is meant for it,  *)
(* is read without an error.                                               *)
Undamaged ==
  /\ \A k \in DOMAIN kinds : kinds[k] = "ok"
  /\ ending = "end"
  /\ header = IF ctx.constructor = "NewReader" THEN "valid" ELSE "absent"
UndamagedIsRead == Undamaged => ~failed /\ mainPc # "panic"

(* Two statements about a client that reads on after an error, which the   *)
(* code does not keep (see the README).  No unit is handed out from a      *)
(* block whose checksum was found wrong; after an error in the header the  *)
(* stream yields nothing.                                                  *)
OnlyVerified == \A i \in 1 .. Len(delivered) : delivered[i] > 0
RefusedHeaderYieldsNothing ==
  header # "valid" /\ ~headless => delivered = <<>> /\ mainPc # "panic"

(* Every call returns: no task waits for ever for its turn.                *)
CallsReturn == (mainPc # "idle") ~> (mainPc \in {"idle", "panic"})

=============================================================================
