------------------------------- MODULE Writer -------------------------------
(***************************************************************************)
(* The compressing stream of v2/io/CompressedStream.go: a Writer buffers   *)
(* what its client hands over, cuts it into blocks, and encodes a batch of *)
(* blocks with one goroutine (encodingTask) per block.  The goroutines     *)
(* take turns on the shared OutputBitStream through one atomic counter,    *)
(* processedBlockID (the Writer's blockID field): the task of block k may  *)
(* write when the counter holds k-1, and stores k when it is done.  A task *)
(* that fails stores CancelTasks instead, to release the waiting tasks.    *)
(*                                                                         *)
(* A unit of input is named by its position in the sequence of units the   *)
(* client handed over, so the content of a buffer or of a block says where *)
(* each of its units comes from.  Transforms and entropy codecs are        *)
(* abstracted to "the block is encoded, or its task fails".                *)
(***************************************************************************)
EXTENDS Integers, Sequences

CONSTANTS
  Jobs,            \* number of encoding goroutines of a full batch
  BlockSize,       \* units in a block
  MaxConcurrency,  \* _MAX_CONCURRENCY (64 in the code)
  FileSize,        \* the size announced in ctx["fileSize"], 0 if unknown
  MaxInput,        \* bound: units the client hands over in total
  Faults,          \* which of FaultKinds may happen
  StopOnError      \* TRUE: the client only calls Close after an error

(***************************************************************************)
(* "encode": a transform or an entropy codec returns an error or panics;   *)
(* "emit": the shared bitstream panics (I/O error) while a block is being  *)
(* written; "end": it panics while Close writes the end mark; "flush":     *)
(* its Close returns an error.                                             *)
(***************************************************************************)
FaultKinds == {"encode", "emit", "end", "flush"}

ASSUME WriterAssumption ==
  /\ MaxConcurrency \in Nat \ {0}
  /\ Jobs \in 1 .. MaxConcurrency
  /\ BlockSize \in Nat \ {0}
  /\ FileSize \in Nat
  /\ MaxInput \in Nat
  /\ Faults \subseteq FaultKinds
  /\ StopOnError \in BOOLEAN

VARIABLES
  \* The fields of the Writer
  closed, initialized, blockID, available, buffers,
  \* The shared bitstream: what was written to it, and whether it is closed
  obs, obsClosed,
  \* The goroutine of the caller: where it is, and the locals of its call
  mainPc, caller, remaining, firstID, spawned,
  \* The encoding tasks of the current batch, by taskID
  pc, blockLen, encoded, err,
  \* History: units accepted so far, and before the current (or last) call;
  \* what that call returned; whether any call returned an error
  accepted, callStart, ret, failed

streamVars == <<closed, initialized, available, buffers>>
obsVars    == <<obs, obsClosed>>
mainVars   == <<mainPc, caller, remaining, firstID, spawned>>
taskVars   == <<pc, blockLen, encoded, err>>
histVars   == <<accepted, callStart, ret, failed>>
vars == <<streamVars, blockID, obsVars, mainVars, taskVars, histVars>>

-----------------------------------------------------------------------------
CancelTasks == -1                       \* _CANCEL_TASKS_ID
Scratch == 0                            \* a unit that is not client data

TaskIDs == 0 .. Jobs - 1
Units == 0 .. MaxInput                  \* positions in the input, or Scratch

MinOf(a, b) == IF a <= b THEN a ELSE b
CeilDiv(a, b) == (a + b - 1) \div b

(* The hint computed at construction from the announced size.              *)
NbInputBlocks == MinOf(CeilDiv(FileSize, BlockSize), MaxConcurrency - 1)

(* How many tasks a batch may start.                                       *)
(* Mutant: one task short of the number of buffers.                        *)
NbTasksOneShort == IF Jobs > 1 THEN Jobs - 1 ELSE Jobs
NbTasks ==
  IF Jobs > 1 /\ NbInputBlocks > 0 THEN MinOf(Jobs, NbInputBlocks) ELSE Jobs

(* The block a task of the current batch encodes. *)
CurrentBlockID(t) == firstID + t + 1

(* The counter says that it is the turn of task t.                         *)
(* Mutant: any value but "cancelled" will do.                              *)
MyTurnOrAny(t) == blockID # CancelTasks
MyTurn(t) == blockID = CurrentBlockID(t) - 1

(* The block of task t, encoded: the part of the buffer that the batch     *)
(* gave to the task.  Mutant: the whole buffer, stale tail included.       *)
EncodedWholeBuffer(t) == buffers[t]
EncodedBlock(t) == SubSeq(buffers[t], 1, blockLen[t])

(* All buffers are full once bufEnd units are in buffer bufID.             *)
(* Mutant: off by one, past the last buffer.                               *)
BatchFullLate(bufID, bufEnd) == bufEnd >= BlockSize /\ bufID >= Jobs
BatchFull(bufID, bufEnd) == bufEnd >= BlockSize /\ bufID + 1 >= Jobs

(* processBlock has nothing to encode.  Mutant: a partial block is nothing *)
NothingBufferedButTail == available < BlockSize
NothingBuffered == available = 0

(* What is written to the shared bitstream, in order. *)
Header      == [kind |-> "header", id |-> 0, data |-> <<>>]
Size(id)    == [kind |-> "size",   id |-> id, data |-> <<>>]
Data(id, s) == [kind |-> "data",   id |-> id, data |-> s]
EndMark     == [kind |-> "end",    id |-> 0, data |-> <<>>]

EmptyBuffer == [j \in 1 .. BlockSize |-> Scratch]

NoTasks ==
  /\ pc' = [t \in TaskIDs |-> "none"]
  /\ blockLen' = [t \in TaskIDs |-> 0]
  /\ encoded' = [t \in TaskIDs |-> <<>>]
  /\ err' = [t \in TaskIDs |-> FALSE]

Init ==
  /\ closed = FALSE /\ initialized = FALSE
  /\ blockID = 0 /\ available = 0
  /\ buffers = [b \in TaskIDs |-> EmptyBuffer]
  /\ obs = <<>> /\ obsClosed = FALSE
  /\ mainPc = "idle" /\ caller = "none" /\ remaining = 0
  /\ firstID = 0 /\ spawned = 0
  /\ pc = [t \in TaskIDs |-> "none"]
  /\ blockLen = [t \in TaskIDs |-> 0]
  /\ encoded = [t \in TaskIDs |-> <<>>]
  /\ err = [t \in TaskIDs |-> FALSE]
  /\ accepted = 0 /\ callStart = 0 /\ ret = "none" /\ failed = FALSE

-----------------------------------------------------------------------------
(* The goroutine of the caller. *)

(* A call to Write with n units on an open stream.  (On a closed stream    *)
(* Write returns an error and changes nothing.)                            *)
Write(n) ==
  /\ mainPc = "idle" /\ ~closed
  /\ ~(StopOnError /\ failed)
  /\ mainPc' = "fill" /\ caller' = "write" /\ remaining' = n
  /\ callStart' = accepted /\ ret' = "none"
  /\ UNCHANGED <<streamVars, blockID, obsVars, firstID, spawned, taskVars,
                 accepted, failed>>

(* Write returns when nothing of its input remains. *)
NextOfWrite(left) == IF left = 0 THEN "idle" ELSE "fill"

(* One turn of the loop of Write: copy a chunk into the current buffer;    *)
(* encode when the last buffer is full.                                    *)
Fill ==
  LET bufOff   == available % BlockSize
      bufID    == available \div BlockSize
      lenChunk == MinOf(remaining, BlockSize - bufOff)
      full     == BatchFull(bufID, bufOff + lenChunk)
  IN /\ mainPc = "fill"
     /\ buffers' = [buffers EXCEPT ![bufID] =
          [j \in 1 .. BlockSize |->
             IF j \in bufOff + 1 .. bufOff + lenChunk
             THEN accepted + j - bufOff ELSE @[j]]]
     /\ available' = available + lenChunk
     /\ accepted' = accepted + lenChunk
     /\ remaining' = remaining - lenChunk
     /\ mainPc' = IF full THEN "process" ELSE NextOfWrite(remaining')
     /\ ret' = IF ~full /\ remaining' = 0 THEN "ok" ELSE ret
     /\ UNCHANGED <<closed, initialized, blockID, obsVars, caller, firstID,
                    spawned, taskVars, callStart, failed>>

(* A call to Close: the first one encodes what is buffered, the others     *)
(* return at once.                                                         *)
Close ==
  /\ mainPc = "idle"
  /\ IF closed
     THEN UNCHANGED vars
     ELSE /\ closed' = TRUE
          /\ mainPc' = "process" /\ caller' = "close"
          /\ callStart' = accepted /\ ret' = "none"
          /\ UNCHANGED <<initialized, available, buffers, blockID, obsVars,
                         remaining, firstID, spawned, taskVars, accepted,
                         failed>>

(* processBlock up to its loop: the header is written once; nothing else   *)
(* happens if no data is buffered (then the caller is Close).              *)
ProcessBlock ==
  /\ mainPc = "process"
  /\ initialized' = TRUE
  /\ obs' = IF initialized THEN obs ELSE Append(obs, Header)
  /\ IF NothingBuffered
     THEN mainPc' = "finish" /\ UNCHANGED <<firstID, spawned>>
     ELSE mainPc' = "batch" /\ firstID' = blockID /\ spawned' = 0
  /\ UNCHANGED <<closed, available, buffers, blockID, obsClosed, caller,
                 remaining, taskVars, histVars>>

(* One turn of the loop of processBlock: start the next task. *)
Spawn ==
  LET dataLength == MinOf(available, BlockSize)
  IN /\ mainPc = "batch" /\ spawned < NbTasks /\ dataLength > 0
     /\ pc' = [pc EXCEPT ![spawned] = "encode"]
     /\ blockLen' = [blockLen EXCEPT ![spawned] = dataLength]
     /\ available' = available - dataLength
     /\ spawned' = spawned + 1
     /\ UNCHANGED <<closed, initialized, buffers, blockID, obsVars, mainPc,
                    caller, remaining, firstID, encoded, err, histVars>>

(* wg.Wait() returns when every started task is done; the first error, if  *)
(* any, goes to the caller.  Otherwise Close goes on to its end mark, and  *)
(* Write to the rest of its input, or returns.                             *)
Join ==
  LET batchFailed == \E t \in TaskIDs : err[t]
  IN /\ mainPc = "batch" /\ (spawned = NbTasks \/ available = 0)
     /\ \A t \in TaskIDs : t < spawned => pc[t] = "done"
     /\ \/ /\ batchFailed
           /\ mainPc' = "idle" /\ ret' = "error" /\ failed' = TRUE
        \/ /\ ~batchFailed /\ caller = "close"
           /\ mainPc' = "finish" /\ UNCHANGED <<ret, failed>>
        \/ /\ ~batchFailed /\ caller = "write"
           /\ mainPc' = NextOfWrite(remaining)
           /\ ret' = IF remaining = 0 THEN "ok" ELSE ret
           /\ UNCHANGED failed
     /\ NoTasks
     /\ UNCHANGED <<streamVars, blockID, obsVars, caller, remaining, firstID,
                    spawned, accepted, callStart>>

(* The end of Close: the end mark, the Close of the bitstream, the release *)
(* of the buffers.  An I/O error while the end mark is written is a panic  *)
(* nobody recovers; one in the Close of the bitstream is returned.         *)
Finish ==
  /\ mainPc = "finish"
  /\ \/ /\ obs' = Append(obs, EndMark) /\ obsClosed' = TRUE
        /\ buffers' = [b \in TaskIDs |-> EmptyBuffer]
        /\ mainPc' = "idle" /\ ret' = "ok" /\ UNCHANGED failed
     \/ /\ "flush" \in Faults
        /\ obs' = Append(obs, EndMark)
        /\ mainPc' = "idle" /\ ret' = "error" /\ failed' = TRUE
        /\ UNCHANGED <<obsClosed, buffers>>
     \/ /\ "end" \in Faults
        /\ mainPc' = "panic"
        /\ UNCHANGED <<obs, obsClosed, buffers, ret, failed>>
  /\ UNCHANGED <<closed, initialized, available, blockID, caller, remaining,
                 firstID, spawned, taskVars, accepted, callStart>>

-----------------------------------------------------------------------------
(* The encoding tasks: encodingTask.encode and its deferred function. *)

Fail(t) ==
  /\ err' = [err EXCEPT ![t] = TRUE]
  /\ pc' = [pc EXCEPT ![t] = "cancel"]

(* Everything encode does before its turn: it reads and writes only the    *)
(* task's own two buffers.  The input buffer is also the scratch space and *)
(* the output of the local bitstream, so its content is lost.              *)
Encode(t) ==
  /\ pc[t] = "encode"
  /\ \/ /\ encoded' = [encoded EXCEPT ![t] = EncodedBlock(t)]
        /\ pc' = [pc EXCEPT ![t] = "turn"]
        /\ UNCHANGED err
     \/ "encode" \in Faults /\ Fail(t) /\ UNCHANGED encoded
  /\ buffers' = [buffers EXCEPT ![t] = EmptyBuffer]
  /\ UNCHANGED <<closed, initialized, available, blockID, obsVars, mainVars,
                 blockLen, histVars>>

(* The loop that loads processedBlockID until it says "cancelled" or "your *)
(* turn"; otherwise the task keeps spinning.                               *)
AwaitTurn(t) ==
  /\ pc[t] = "turn"
  /\ \/ blockID = CancelTasks /\ pc' = [pc EXCEPT ![t] = "defer"]
     \/ /\ blockID # CancelTasks /\ MyTurn(t)
        /\ pc' = [pc EXCEPT ![t] = "size"]
  /\ UNCHANGED <<streamVars, blockID, obsVars, mainVars, blockLen, encoded,
                 err, histVars>>

(* The size of the block, then its data, go to the shared bitstream. *)
EmitSize(t) ==
  /\ pc[t] = "size"
  /\ \/ /\ obs' = Append(obs, Size(CurrentBlockID(t)))
        /\ pc' = [pc EXCEPT ![t] = "data"]
        /\ UNCHANGED err
     \/ "emit" \in Faults /\ Fail(t) /\ UNCHANGED obs
  /\ UNCHANGED <<streamVars, blockID, obsClosed, mainVars, blockLen, encoded,
                 histVars>>

EmitData(t) ==
  /\ pc[t] = "data"
  /\ \/ /\ obs' = Append(obs, Data(CurrentBlockID(t), encoded[t]))
        /\ pc' = [pc EXCEPT ![t] = "defer"]
        /\ UNCHANGED err
     \/ "emit" \in Faults /\ Fail(t) /\ UNCHANGED obs
  /\ UNCHANGED <<streamVars, blockID, obsClosed, mainVars, blockLen, encoded,
                 histVars>>

(* The deferred function of a task without error: it loads the counter ... *)
(* Mutant: it does not look whether the turn is its own.                   *)
CheckTurnBlindly(t) ==
  /\ pc[t] = "defer" /\ pc' = [pc EXCEPT ![t] = "store"]
  /\ UNCHANGED <<streamVars, blockID, obsVars, mainVars, blockLen, encoded,
                 err, histVars>>
CheckTurn(t) ==
  /\ pc[t] = "defer"
  /\ pc' = [pc EXCEPT ![t] =
              IF MyTurn(t) THEN "store" ELSE "done"]
  /\ UNCHANGED <<streamVars, blockID, obsVars, mainVars, blockLen, encoded,
                 err, histVars>>

(* ... and, as a second atomic operation, passes the turn on. *)
StoreTurn(t) ==
  /\ pc[t] = "store"
  /\ blockID' = CurrentBlockID(t)
  /\ pc' = [pc EXCEPT ![t] = "done"]
  /\ UNCHANGED <<streamVars, obsVars, mainVars, blockLen, encoded, err, histVars>>

(* The deferred function of a task that failed: cancel the other tasks.    *)
(* Mutant: it leaves the counter alone.                                    *)
CancelNobody(t) ==
  /\ pc[t] = "cancel" /\ pc' = [pc EXCEPT ![t] = "done"]
  /\ UNCHANGED <<blockID, streamVars, obsVars, mainVars, blockLen, encoded, err,
                 histVars>>
Cancel(t) ==
  /\ pc[t] = "cancel"
  /\ blockID' = CancelTasks
  /\ pc' = [pc EXCEPT ![t] = "done"]
  /\ UNCHANGED <<streamVars, obsVars, mainVars, blockLen, encoded, err, histVars>>

-----------------------------------------------------------------------------
Client == Close \/ \E n \in 1 .. MaxInput - accepted : Write(n)

MainStep == Fill \/ ProcessBlock \/ Spawn \/ Join \/ Finish

TaskStep(t) ==
  \/ Encode(t) \/ AwaitTurn(t) \/ EmitSize(t) \/ EmitData(t)
  \/ CheckTurn(t) \/ StoreTurn(t) \/ Cancel(t)

Next == Client \/ MainStep \/ \E t \in TaskIDs : TaskStep(t)

(* The Go scheduler runs every runnable goroutine; the client is free. *)
Fairness ==
  /\ WF_vars(MainStep)
  /\ \A t \in TaskIDs : WF_vars(TaskStep(t))

Spec == Init /\ [][Next]_vars
FairSpec == Spec /\ Fairness

-----------------------------------------------------------------------------
(* What the stream promises. *)

Items == [kind : {"header", "size", "data", "end"},
          id : Nat \cup {CancelTasks}, data : Seq(Units)]

FlagTypes ==
  /\ closed \in BOOLEAN /\ initialized \in BOOLEAN /\ obsClosed \in BOOLEAN
  /\ failed \in BOOLEAN

StreamTypes ==
  /\ blockID \in Nat \cup {CancelTasks}
  /\ available \in 0 .. Jobs * BlockSize
  /\ buffers \in [TaskIDs -> [1 .. BlockSize -> Units]]
  /\ obs \in Seq(Items)

CallerTypes ==
  /\ mainPc \in {"idle", "fill", "process", "batch", "finish", "panic"}
  /\ caller \in {"none", "write", "close"}
  /\ remaining \in Nat /\ accepted + remaining <= MaxInput
  /\ firstID \in Nat \cup {CancelTasks} /\ spawned \in 0 .. Jobs
  /\ accepted \in Nat /\ callStart \in 0 .. accepted
  /\ ret \in {"none", "ok", "error"}

TaskTypes ==
  /\ pc \in [TaskIDs -> {"none", "encode", "turn", "size", "data", "defer",
                         "store", "cancel", "done"}]
  /\ blockLen \in [TaskIDs -> 0 .. BlockSize]
  /\ encoded \in [TaskIDs -> Seq(Units)]
  /\ err \in [TaskIDs -> BOOLEAN]

(* Every variable has its type.  In particular the buffers never hold more *)
(* than they can (available), so Write never indexes a buffer that does    *)
(* not exist, and no more units are accepted than were handed over.        *)
TypeOK == FlagTypes /\ StreamTypes /\ CallerTypes /\ TaskTypes

(* Block k of an input of n units, and the stream an input of n units must *)
(* become: the header, size and data of every block in order, the end mark *)
NbBlocks(n) == CeilDiv(n, BlockSize)
Block(k, n) ==
  [j \in 1 .. MinOf(BlockSize, n - (k - 1) * BlockSize) |->
     (k - 1) * BlockSize + j]
StreamOf(n) ==
  [i \in 1 .. 2 * NbBlocks(n) + 2 |->
     CASE i = 1 -> Header
       [] i = 2 * NbBlocks(n) + 2 -> EndMark
       [] i \in 2 .. 2 * NbBlocks(n) + 1 /\ i % 2 = 0 -> Size(i \div 2)
       [] OTHER -> Data(i \div 2, Block(i \div 2, n))]

(* The tasks take turns: no two of them are writing to the shared          *)
(* bitstream, which has no lock of its own (encode, "Lock free             *)
(* synchronization").                                                      *)
WritesToObs(t) == pc[t] \in {"size", "data"}
TurnExclusion ==
  \A t, u \in TaskIDs : WritesToObs(t) /\ WritesToObs(u) => t = u

(* What is on the bitstream is the start of the stream of the input: no    *)
(* block is lost, repeated, out of order, torn or filled from a stale      *)
(* buffer, whatever the interleaving of the tasks.  (For a client that     *)
(* stops at the first error, and not if a block can fail before its turn:  *)
(* StoreTurn may then replace the cancellation, and with four tasks one of *)
(* them may write behind a block that is missing, before the call fails.)  *)
OrderedPrefix ==
  LET ideal == StreamOf(accepted)
      torn  == IF obs # <<>> /\ obs[Len(obs)].kind = "end" THEN 1 ELSE 0
  IN \A i \in 1 .. Len(obs) - torn : i \in DOMAIN ideal /\ obs[i] = ideal[i]

(* Between two batches every accepted unit is on the bitstream or in the   *)
(* buffers, at its place: the tail of the input is what is buffered.       *)
BufferedUnit(j) == buffers[(j - 1) \div BlockSize][1 + ((j - 1) % BlockSize)]
Conservation ==
  mainPc \in {"idle", "fill", "process"} /\ ~closed /\ ~failed =>
    /\ (accepted - available) % (Jobs * BlockSize) = 0
    /\ \A j \in 1 .. available : BufferedUnit(j) = accepted - available + j

(* A Close that returned nil, with no error reported before, has put the   *)
(* stream of everything that was accepted on the bitstream.                *)
ClosedIsComplete == obsClosed /\ ~failed => obs = StreamOf(accepted)

(* The units of a call to Write that returned nil are on the bitstream or  *)
(* in the buffers ("Write writes len(block) bytes from block to the        *)
(* underlying data stream").                                               *)
AckedIsKept ==
  ret = "ok" /\ caller = "write" /\ mainPc = "idle" =>
    \A u \in callStart + 1 .. accepted :
      \/ \E i \in 1 .. Len(obs) : \E j \in 1 .. Len(obs[i].data) : obs[i].data[j] = u
      \/ \E j \in 1 .. available : BufferedUnit(j) = u

(* A cancellation stands until the batch is over, but for one case, which  *)
(* the load and the store of the deferred function leave open: a task that *)
(* looked at the counter before may store its value over it.  Then every   *)
(* block before that task's was passed on without an error, and every task *)
(* that failed is behind it and failed before its own turn: a failure of   *)
(* the bitstream is never covered up, and the call will report the error.  *)
(* ("Unblock other tasks": a task that comes to its turn later may still   *)
(* be left waiting, see CallsReturn.)                                      *)
StaleStore(t) ==
  /\ pc[t] = "store" /\ blockID' = CurrentBlockID(t)
  /\ \A u \in TaskIDs : u < t => pc[u] = "done" /\ ~err[u]
  /\ \E u \in TaskIDs : err[u]
  /\ \A u \in TaskIDs : err[u] => u > t /\ encoded[u] = <<>>
CancelStands ==
  [][firstID # CancelTasks /\ blockID = CancelTasks =>
       blockID' = CancelTasks \/ \E t \in TaskIDs : StaleStore(t)]_blockID

(* Every call returns (or panics): no task waits for ever for its turn     *)
(* ("Unblock other tasks").                                                *)
CallsReturn == (mainPc # "idle") ~> (mainPc \in {"idle", "panic"})

=============================================================================
