---------------------------- MODULE WriterProofs ----------------------------
(***************************************************************************)
(* Proofs about the Writer, for every number of jobs, block size, hint,    *)
(* amount of input, set of faults, client and interleaving: first the      *)
(* types, the turns and the cancellation, then what it puts on the         *)
(* bitstream, then that it implements BlockLog.                            *)
(***************************************************************************)
EXTENDS WriterRefinement, TLAPS

-----------------------------------------------------------------------------
(* Arithmetic of the buffers. *)

LEMMA ConstantTypes ==
  /\ Jobs \in Nat \ {0} /\ BlockSize \in Nat \ {0} /\ MaxInput \in Nat
  /\ TaskIDs \subseteq Nat
  BY WriterAssumption DEF TaskIDs

(* Euclidean division, as the indices bufID and bufOff of Write use it. *)
LEMMA DivMod ==
  ASSUME NEW a \in Nat, NEW b \in Nat \ {0}
  PROVE  /\ a \div b \in Nat /\ a % b \in 0 .. b - 1
         /\ a = b * (a \div b) + (a % b)
  OBVIOUS

(* A product of naturals is monotonic. *)
LEMMA TimesMonotonic ==
  ASSUME NEW a \in Nat, NEW b \in Nat, NEW c \in Nat, a <= b
  PROVE  c * a <= c * b
  OBVIOUS

(* If fewer units are buffered than the buffers can hold, the buffer that  *)
(* Write fills next exists and has room.                                   *)
LEMMA BufferInRange ==
  ASSUME NEW a \in Nat, NEW b \in Nat \ {0}, NEW n \in Nat, a < n * b
  PROVE  a \div b \in 0 .. n - 1
<1>1. a = b * (a \div b) + (a % b) /\ a \div b \in Nat /\ a % b \in Nat
  BY DivMod
<1>2. ASSUME n <= a \div b PROVE FALSE
  <2>1. b * n <= b * (a \div b)
    BY <1>1, <1>2, TimesMonotonic
  <2> QED
    BY <2>1, <1>1
<1> QED
  BY <1>1, <1>2

(* The number of tasks of a batch is at least one and at most Jobs. *)
LEMMA NbTasksInRange == NbTasks \in 1 .. Jobs
<1>1. CeilDiv(FileSize, BlockSize) \in Nat
  <2>1. FileSize + BlockSize - 1 \in Nat
    BY WriterAssumption
  <2> QED
    BY <2>1, DivMod, WriterAssumption DEF CeilDiv
<1>2. NbInputBlocks \in Nat
  BY <1>1, WriterAssumption DEF NbInputBlocks, MinOf
<1> QED
  BY <1>2, WriterAssumption DEF NbTasks, MinOf

-----------------------------------------------------------------------------
(* The inductive invariant. *)

(* Outside a batch there is room in the buffers for at least one unit,     *)
(* unless processBlock is about to run; a batch makes room with its first  *)
(* task.                                                                   *)
Room ==
  \/ available < Jobs * BlockSize
  \/ mainPc = "process"
  \/ mainPc = "batch" /\ spawned = 0

(* Tasks exist only during a batch, and only those that were started. *)
BatchShape ==
  \A t \in TaskIDs : (mainPc = "batch" /\ t < spawned) <=> pc[t] # "none"

(* A task that has the turn: it was its turn when it looked, and it has    *)
(* neither given the turn up nor passed it on.                             *)
HasTurn(t) == pc[t] \in {"size", "data", "store"}

(* Behind a task that has the turn there is no one left, and the counter   *)
(* of a batch stands for tasks that are done - also the stale value that   *)
(* StoreTurn may put over a cancellation.                                  *)
TurnOrder ==
  /\ \A t, u \in TaskIDs : HasTurn(t) /\ u < t => pc[u] = "done"
  /\ mainPc = "batch" /\ blockID # CancelTasks =>
       \A u \in TaskIDs : u < blockID - firstID => pc[u] = "done"

IInv == TypeOK /\ Room /\ BatchShape /\ TurnOrder

-----------------------------------------------------------------------------
(* What the actions put on the bitstream and in the buffers has its type.  *)

LEMMA ItemTypes ==
  /\ Header \in Items /\ EndMark \in Items
  /\ \A id \in Nat \cup {CancelTasks} : Size(id) \in Items
  /\ \A id \in Nat \cup {CancelTasks} : \A s \in Seq(Units) : Data(id, s) \in Items
<1>1. <<>> \in Seq(Units) /\ 0 \in Nat
  OBVIOUS
<1> QED
  BY <1>1 DEF Items, Header, EndMark, Size, Data

LEMMA EmptyBufferType == EmptyBuffer \in [1 .. BlockSize -> Units]
  BY WriterAssumption DEF EmptyBuffer, Units, Scratch

LEMMA InitIInv == Init => IInv
<1> SUFFICES ASSUME Init PROVE IInv
  OBVIOUS
<1> USE DEF Init
<1>1. TypeOK
  <2>1. 0 <= Jobs * BlockSize
    BY WriterAssumption
  <2>2. obs \in Seq(Items) /\ encoded \in [TaskIDs -> Seq(Units)]
    OBVIOUS
  <2>3. /\ buffers \in [TaskIDs -> [1 .. BlockSize -> Units]]
        /\ blockLen \in [TaskIDs -> 0 .. BlockSize]
        /\ pc \in [TaskIDs -> {"none", "encode", "turn", "size", "data", "defer",
                               "store", "cancel", "done"}]
        /\ err \in [TaskIDs -> BOOLEAN]
    BY EmptyBufferType, ConstantTypes
  <2>4. FlagTypes
    BY DEF FlagTypes
  <2>5. CallerTypes
    BY ConstantTypes DEF CallerTypes
  <2>6. StreamTypes /\ TaskTypes
    BY <2>1, <2>2, <2>3, ConstantTypes DEF StreamTypes, TaskTypes
  <2> QED
    BY <2>4, <2>5, <2>6 DEF TypeOK
<1>2. Room
  <2>1. 0 < Jobs * BlockSize
    BY WriterAssumption
  <2> QED
    BY <2>1 DEF Room
<1>3. BatchShape /\ TurnOrder
  BY DEF BatchShape, TurnOrder, HasTurn, TaskIDs
<1> QED
  BY <1>1, <1>2, <1>3 DEF IInv

LEMMA StutterIInv == IInv /\ UNCHANGED vars => IInv'
<1> SUFFICES ASSUME IInv, UNCHANGED vars PROVE IInv'
  OBVIOUS
<1> USE DEF IInv, vars, streamVars, obsVars, mainVars, taskVars, histVars
<1>1. FlagTypes' /\ TaskTypes' /\ Room'
  BY DEF TypeOK, FlagTypes, TaskTypes, Room
<1>2. StreamTypes' /\ CallerTypes'
  BY DEF TypeOK, StreamTypes, CallerTypes
<1>3. BatchShape' /\ TurnOrder'
  BY DEF BatchShape, TurnOrder, HasTurn
<1> QED
  BY <1>1, <1>2, <1>3 DEF TypeOK

-----------------------------------------------------------------------------
(* The steps of the caller's goroutine. *)

LEMMA FillIInv == IInv /\ Fill => IInv'
<1> SUFFICES ASSUME IInv, Fill PROVE IInv'
  OBVIOUS
<1> DEFINE bufOff   == available % BlockSize
           bufID    == available \div BlockSize
           lenChunk == MinOf(remaining, BlockSize - bufOff)
<1> USE ConstantTypes
<1>1. /\ available < Jobs * BlockSize
      /\ mainPc = "fill" /\ available \in Nat
  BY DEF IInv, TypeOK, StreamTypes, Room, Fill
<1>2. /\ bufID \in TaskIDs
      /\ bufOff \in 0 .. BlockSize - 1
      /\ available = BlockSize * bufID + bufOff
  <2>1. bufID \in 0 .. Jobs - 1
    BY <1>1, ConstantTypes, BufferInRange
  <2>2. bufOff \in 0 .. BlockSize - 1 /\ available = BlockSize * bufID + bufOff
    BY <1>1, ConstantTypes, DivMod
  <2> QED
    BY <2>1, <2>2 DEF TaskIDs
<1>3. /\ lenChunk \in 0 .. remaining
      /\ lenChunk <= BlockSize - bufOff
  BY <1>2 DEF IInv, TypeOK, CallerTypes, MinOf
<1>4. /\ available' = available + lenChunk
      /\ accepted' = accepted + lenChunk
      /\ remaining' = remaining - lenChunk
  BY DEF Fill
<1>5. BlockSize * (bufID + 1) <= BlockSize * Jobs
  BY <1>2, TimesMonotonic DEF TaskIDs
<1>6. available' \in 0 .. Jobs * BlockSize
  BY <1>1, <1>2, <1>3, <1>4, <1>5
<1>7. buffers' \in [TaskIDs -> [1 .. BlockSize -> Units]]
  <2> DEFINE new == [j \in 1 .. BlockSize |->
                       IF j \in bufOff + 1 .. bufOff + lenChunk
                       THEN accepted + j - bufOff ELSE buffers[bufID][j]]
  <2>1. buffers' = [buffers EXCEPT ![bufID] = new]
    BY DEF Fill
  <2>2. new \in [1 .. BlockSize -> Units]
    BY <1>2, <1>3 DEF IInv, TypeOK, StreamTypes, CallerTypes, Units
  <2> HIDE DEF new
  <2> QED
    BY <1>2, <2>1, <2>2 DEF IInv, TypeOK, StreamTypes
<1>8. mainPc' \in {"process", "idle", "fill"}
  BY DEF Fill, NextOfWrite
<1>9. ret' \in {"none", "ok", "error"}
  <2>1. ret' = "ok" \/ ret' = ret
    BY DEF Fill
  <2> QED
    BY <2>1 DEF IInv, TypeOK, CallerTypes
<1>10. TypeOK'
  <2>1. FlagTypes' /\ TaskTypes'
    BY DEF IInv, TypeOK, FlagTypes, TaskTypes, Fill, obsVars, taskVars
  <2>2. StreamTypes'
    BY <1>6, <1>7 DEF IInv, TypeOK, StreamTypes, Fill, obsVars
  <2>3. CallerTypes'
    BY <1>3, <1>4, <1>8, <1>9 DEF IInv, TypeOK, CallerTypes, Fill
  <2> QED
    BY <2>1, <2>2, <2>3 DEF TypeOK
<1>11. Room'
  <2>1. CASE BatchFull(bufID, bufOff + lenChunk)
    BY <2>1 DEF Fill, Room
  <2>2. CASE bufOff + lenChunk < BlockSize
    <3> HIDE DEF bufOff, bufID, lenChunk
    <3>1. available' < BlockSize * bufID + BlockSize
      BY <2>2, <1>2, <1>3, <1>4 DEF TaskIDs
    <3>2. BlockSize * (bufID + 1) = BlockSize * bufID + BlockSize
      BY <1>2 DEF TaskIDs
    <3>3. available' < Jobs * BlockSize
      BY <3>1, <3>2, <1>2, <1>5, <1>6 DEF TaskIDs
    <3> QED
      BY <3>3 DEF Room
  <2>3. CASE bufOff + lenChunk >= BlockSize /\ bufID + 1 < Jobs
    <3> HIDE DEF bufOff, bufID, lenChunk
    <3>1. BlockSize * (bufID + 2) <= BlockSize * Jobs
      BY <2>3, <1>2, TimesMonotonic DEF TaskIDs
    <3>2. BlockSize * (bufID + 2) = BlockSize * bufID + BlockSize + BlockSize
      BY <1>2 DEF TaskIDs
    <3>3. available' <= BlockSize * bufID + BlockSize
      BY <1>2, <1>3, <1>4 DEF TaskIDs
    <3>4. available' < Jobs * BlockSize
      BY <3>1, <3>2, <3>3, <1>2, <1>6 DEF TaskIDs
    <3> QED
      BY <3>4 DEF Room
  <2> QED
    BY <2>1, <2>2, <2>3, <1>2, <1>3 DEF BatchFull, TaskIDs
<1>12. BatchShape' /\ TurnOrder'
  BY <1>1, <1>8 DEF IInv, BatchShape, TurnOrder, HasTurn, Fill, taskVars
<1> QED
  BY <1>10, <1>11, <1>12 DEF IInv

LEMMA ClientIInv == IInv /\ Client => IInv'
<1> SUFFICES ASSUME IInv, Client PROVE IInv'
  OBVIOUS
<1> USE DEF IInv
<1>1. ASSUME NEW n \in 1 .. MaxInput - accepted, Write(n) PROVE IInv'
  <2> USE <1>1 DEF Write, streamVars, obsVars, taskVars
  <2>1. FlagTypes' /\ TaskTypes'
    BY DEF TypeOK, FlagTypes, TaskTypes
  <2>2. StreamTypes'
    BY DEF TypeOK, StreamTypes
  <2>3. CallerTypes'
    BY ConstantTypes DEF TypeOK, CallerTypes
  <2>4. Room'
    BY DEF Room
  <2>5. BatchShape' /\ TurnOrder'
    BY DEF BatchShape, TurnOrder, HasTurn
  <2> QED
    BY <2>1, <2>2, <2>3, <2>4, <2>5 DEF TypeOK
<1>2. CASE Close /\ closed
  <2>1. UNCHANGED vars
    BY <1>2 DEF Close
  <2> QED
    BY <2>1, StutterIInv
<1>3. CASE Close /\ ~closed
  <2> USE <1>3 DEF Close, obsVars, taskVars
  <2>1. FlagTypes' /\ TaskTypes'
    BY DEF TypeOK, FlagTypes, TaskTypes
  <2>2. StreamTypes'
    BY DEF TypeOK, StreamTypes
  <2>3. CallerTypes'
    BY DEF TypeOK, CallerTypes
  <2>4. Room'
    BY DEF Room
  <2>5. BatchShape' /\ TurnOrder'
    BY DEF BatchShape, TurnOrder, HasTurn
  <2> QED
    BY <2>1, <2>2, <2>3, <2>4, <2>5 DEF TypeOK
<1> QED
  BY <1>1, <1>2, <1>3 DEF Client

LEMMA ProcessBlockIInv == IInv /\ ProcessBlock => IInv'
<1> SUFFICES ASSUME IInv, ProcessBlock PROVE IInv'
  OBVIOUS
<1> USE DEF IInv, ProcessBlock, taskVars, histVars
<1>1. FlagTypes' /\ TaskTypes'
  BY DEF TypeOK, FlagTypes, TaskTypes
<1>2. obs' \in Seq(Items)
  BY ItemTypes DEF TypeOK, StreamTypes
<1>3. StreamTypes'
  BY <1>2 DEF TypeOK, StreamTypes
<1>4. CallerTypes'
  BY ConstantTypes DEF TypeOK, CallerTypes, StreamTypes
<1>5. Room'
  <2>1. available = 0 => available < Jobs * BlockSize
    BY ConstantTypes
  <2> QED
    BY <2>1 DEF Room, NothingBuffered
<1>6. BatchShape'
  BY ConstantTypes DEF BatchShape, TaskIDs
<1>7. TurnOrder'
  <2>1. \A t \in TaskIDs : pc[t] = "none"
    BY DEF BatchShape
  <2>2. mainPc' = "batch" => blockID' - firstID' = 0
    BY DEF TypeOK, StreamTypes, CancelTasks
  <2> QED
    BY <2>1, <2>2, ConstantTypes DEF TurnOrder, HasTurn
<1> QED
  BY <1>1, <1>3, <1>4, <1>5, <1>6, <1>7 DEF TypeOK

LEMMA SpawnIInv == IInv /\ Spawn => IInv'
<1> SUFFICES ASSUME IInv, Spawn PROVE IInv'
  OBVIOUS
<1> DEFINE dataLength == MinOf(available, BlockSize)
<1> USE DEF IInv, Spawn
<1>1. spawned \in TaskIDs /\ spawned + 1 \in 0 .. Jobs
  BY NbTasksInRange, ConstantTypes DEF TypeOK, CallerTypes, TaskIDs
<1>2. dataLength \in 1 .. BlockSize /\ dataLength <= available
  BY ConstantTypes DEF TypeOK, StreamTypes, MinOf
<1>3. FlagTypes'
  BY DEF TypeOK, FlagTypes, obsVars, histVars
<1>4. TaskTypes'
  BY <1>1, <1>2, ConstantTypes DEF TypeOK, TaskTypes
<1>5. StreamTypes'
  BY <1>2, ConstantTypes DEF TypeOK, StreamTypes, obsVars
<1>6. CallerTypes'
  BY <1>1 DEF TypeOK, CallerTypes, histVars
<1>7. Room'
  BY <1>2, ConstantTypes DEF Room, TypeOK, StreamTypes
<1>8. \A t \in TaskIDs : pc'[t] = IF t = spawned THEN "encode" ELSE pc[t]
  BY DEF TypeOK, TaskTypes
<1>9. BatchShape'
  BY <1>1, <1>8, ConstantTypes DEF BatchShape
<1>10. TurnOrder'
  <2>1. pc[spawned] = "none"
    BY <1>1, ConstantTypes DEF BatchShape
  <2> QED
    BY <1>1, <1>8, <2>1 DEF TurnOrder, HasTurn
<1> QED
  BY <1>3, <1>4, <1>5, <1>6, <1>7, <1>9, <1>10 DEF TypeOK

LEMMA JoinIInv == IInv /\ Join => IInv'
<1> SUFFICES ASSUME IInv, Join PROVE IInv'
  OBVIOUS
<1> USE DEF IInv, Join, NextOfWrite, NoTasks
<1>1. FlagTypes'
  BY DEF TypeOK, FlagTypes, obsVars, streamVars
<1>2. TaskTypes'
  BY ConstantTypes DEF TypeOK, TaskTypes
<1>3. StreamTypes'
  BY DEF TypeOK, StreamTypes, obsVars, streamVars
<1>4. mainPc' \in {"idle", "fill", "finish"} /\ ret' \in {"ok", "error", ret}
  OBVIOUS
<1>5. CallerTypes'
  BY <1>4 DEF TypeOK, CallerTypes
<1>6. Room'
  <2>1. available = 0 => available < Jobs * BlockSize
    BY ConstantTypes
  <2>2. spawned # 0 \/ available = 0
    BY NbTasksInRange
  <2> QED
    BY <2>1, <2>2 DEF Room, streamVars
<1>7. BatchShape' /\ TurnOrder'
  BY <1>4 DEF BatchShape, TurnOrder, HasTurn
<1> QED
  BY <1>1, <1>2, <1>3, <1>5, <1>6, <1>7 DEF TypeOK

LEMMA FinishIInv == IInv /\ Finish => IInv'
<1> SUFFICES ASSUME IInv, Finish PROVE IInv'
  OBVIOUS
<1> USE DEF IInv, Finish, taskVars
<1>1. FlagTypes' /\ TaskTypes'
  BY DEF TypeOK, FlagTypes, TaskTypes
<1>2. obs' \in Seq(Items) /\ buffers' \in [TaskIDs -> [1 .. BlockSize -> Units]]
  <2>1. obs' = obs \/ obs' = Append(obs, EndMark)
    OBVIOUS
  <2>2. buffers' = buffers \/ buffers' = [b \in TaskIDs |-> EmptyBuffer]
    OBVIOUS
  <2>3. obs' \in Seq(Items)
    BY <2>1, ItemTypes DEF TypeOK, StreamTypes
  <2>4. buffers' \in [TaskIDs -> [1 .. BlockSize -> Units]]
    BY <2>2, EmptyBufferType DEF TypeOK, StreamTypes
  <2> QED
    BY <2>3, <2>4
<1>3. StreamTypes'
  BY <1>2 DEF TypeOK, StreamTypes
<1>4. mainPc' \in {"idle", "panic"} /\ ret' \in {"ok", "error", ret}
  OBVIOUS
<1>5. CallerTypes'
  BY <1>4 DEF TypeOK, CallerTypes
<1>6. Room' /\ BatchShape' /\ TurnOrder'
  BY <1>4 DEF Room, BatchShape, TurnOrder, HasTurn
<1> QED
  BY <1>1, <1>3, <1>5, <1>6 DEF TypeOK

-----------------------------------------------------------------------------
(* The steps of the encoding tasks. *)

(* A step of task t during a batch that only moves t keeps the shape of    *)
(* the batch.                                                              *)
LEMMA TaskStepShape ==
  ASSUME IInv, NEW t \in TaskIDs, pc[t] # "none",
         NEW to \in {"turn", "size", "data", "defer", "store", "cancel", "done"},
         pc' = [pc EXCEPT ![t] = to], UNCHANGED mainVars, UNCHANGED available
  PROVE  /\ mainPc = "batch" /\ Room' /\ BatchShape'
         /\ pc' \in [TaskIDs -> {"none", "encode", "turn", "size", "data", "defer",
                                 "store", "cancel", "done"}]
         /\ \A u \in TaskIDs : pc'[u] = IF u = t THEN to ELSE pc[u]
<1> USE DEF IInv, mainVars
<1>1. /\ pc' \in [TaskIDs -> {"none", "encode", "turn", "size", "data", "defer",
                              "store", "cancel", "done"}]
      /\ \A u \in TaskIDs : pc'[u] = IF u = t THEN to ELSE pc[u]
  BY DEF TypeOK, TaskTypes
<1>2. mainPc = "batch" /\ Room'
  BY DEF BatchShape, Room
<1>3. BatchShape'
  BY <1>1 DEF BatchShape
<1> QED
  BY <1>1, <1>2, <1>3

(* The order of the turns survives a step of task t that does not move the *)
(* counter and does not start a turn.                                      *)
LEMMA TaskStepOrder ==
  ASSUME IInv, NEW t \in TaskIDs, pc[t] # "done",
         NEW to, to \in {"size", "data", "store"} => HasTurn(t),
         \A u \in TaskIDs : pc'[u] = IF u = t THEN to ELSE pc[u],
         UNCHANGED <<mainPc, firstID, blockID>>
  PROVE  TurnOrder'
  BY DEF IInv, TurnOrder, HasTurn

(* In a batch the identifier of a task's block is a natural number. *)
LEMMA CurrentBlockIDType ==
  ASSUME IInv, NEW t \in TaskIDs
  PROVE  CurrentBlockID(t) \in Nat
  BY ConstantTypes DEF IInv, TypeOK, CallerTypes, CurrentBlockID, CancelTasks

LEMMA EncodeIInv == ASSUME IInv, NEW t \in TaskIDs, Encode(t) PROVE IInv'
<1> USE DEF Encode
<1>1. PICK to \in {"turn", "cancel"} : pc' = [pc EXCEPT ![t] = to]
  BY DEF Fail
<1>2. UNCHANGED <<mainPc, firstID, blockID, mainVars, available>>
  BY DEF mainVars
<1>3. /\ Room' /\ BatchShape'
      /\ pc' \in [TaskIDs -> {"none", "encode", "turn", "size", "data", "defer",
                              "store", "cancel", "done"}]
      /\ \A u \in TaskIDs : pc'[u] = IF u = t THEN to ELSE pc[u]
  BY <1>1, <1>2, TaskStepShape
<1>4. TurnOrder'
  BY <1>2, <1>3, TaskStepOrder DEF HasTurn
<1>5. FlagTypes' /\ CallerTypes'
  BY DEF IInv, TypeOK, FlagTypes, CallerTypes, obsVars, mainVars, histVars
<1>6. StreamTypes'
  BY EmptyBufferType DEF IInv, TypeOK, StreamTypes, obsVars
<1>7. EncodedBlock(t) \in Seq(Units)
  <2>1. buffers[t] \in [1 .. BlockSize -> Units] /\ blockLen[t] \in 0 .. BlockSize
    BY DEF IInv, TypeOK, StreamTypes, TaskTypes
  <2> QED
    BY <2>1, ConstantTypes DEF EncodedBlock
<1>8. TaskTypes'
  <2>1. encoded' \in [TaskIDs -> Seq(Units)]
    BY <1>7 DEF IInv, TypeOK, TaskTypes
  <2>2. err' \in [TaskIDs -> BOOLEAN]
    BY DEF IInv, TypeOK, TaskTypes, Fail
  <2> QED
    BY <1>3, <2>1, <2>2 DEF IInv, TypeOK, TaskTypes
<1> QED
  BY <1>3, <1>4, <1>5, <1>6, <1>8 DEF IInv, TypeOK

LEMMA AwaitTurnIInv == ASSUME IInv, NEW t \in TaskIDs, AwaitTurn(t) PROVE IInv'
<1> USE DEF AwaitTurn
<1>1. PICK to \in {"defer", "size"} : pc' = [pc EXCEPT ![t] = to]
  OBVIOUS
<1>2. UNCHANGED <<mainPc, firstID, blockID, mainVars, available>>
  BY DEF mainVars, streamVars
<1>3. /\ mainPc = "batch" /\ Room' /\ BatchShape'
      /\ pc' \in [TaskIDs -> {"none", "encode", "turn", "size", "data", "defer",
                              "store", "cancel", "done"}]
      /\ \A u \in TaskIDs : pc'[u] = IF u = t THEN to ELSE pc[u]
  BY <1>1, <1>2, TaskStepShape
<1>4. TurnOrder'
  <2>1. CASE pc' = [pc EXCEPT ![t] = "defer"]
    <3>1. \A u \in TaskIDs : pc'[u] = IF u = t THEN "defer" ELSE pc[u]
      BY <2>1 DEF IInv, TypeOK, TaskTypes
    <3> QED
      BY <1>2, <3>1, TaskStepOrder
  <2>2. CASE blockID # CancelTasks /\ MyTurn(t)
    <3>1. blockID - firstID = t
      BY <2>2, ConstantTypes
         DEF MyTurn, CurrentBlockID, IInv, TypeOK, CallerTypes, CancelTasks
    <3>2. \A u \in TaskIDs : u < t => pc[u] = "done"
      BY <1>3, <2>2, <3>1 DEF IInv, TurnOrder
    <3> QED
      BY <1>2, <1>3, <3>2, ConstantTypes DEF IInv, TurnOrder, HasTurn
  <2> QED
    BY <2>1, <2>2
<1>5. FlagTypes' /\ CallerTypes'
  BY DEF IInv, TypeOK, FlagTypes, CallerTypes, streamVars, obsVars, mainVars, histVars
<1>6. StreamTypes' /\ TaskTypes'
  BY <1>3 DEF IInv, TypeOK, StreamTypes, TaskTypes, streamVars, obsVars
<1> QED
  BY <1>3, <1>4, <1>5, <1>6 DEF IInv, TypeOK

(* A step that writes at most one item to the bitstream and does nothing   *)
(* to the counter; to is where the task goes next.                         *)
LEMMA EmitIInv ==
  ASSUME IInv, NEW t \in TaskIDs, HasTurn(t),
         NEW to \in {"data", "defer", "cancel"}, pc' = [pc EXCEPT ![t] = to],
         obs' \in Seq(Items), err' \in [TaskIDs -> BOOLEAN],
         UNCHANGED <<streamVars, blockID, obsClosed, mainVars, blockLen, encoded,
                     histVars>>
  PROVE  IInv'
<1>1. UNCHANGED <<mainPc, firstID, blockID, available>>
  BY DEF mainVars, streamVars
<1>2. pc[t] # "none" /\ pc[t] # "done"
  BY DEF HasTurn
<1>3. /\ Room' /\ BatchShape'
      /\ pc' \in [TaskIDs -> {"none", "encode", "turn", "size", "data", "defer",
                              "store", "cancel", "done"}]
      /\ \A u \in TaskIDs : pc'[u] = IF u = t THEN to ELSE pc[u]
  BY <1>1, <1>2, TaskStepShape
<1>4. TurnOrder'
  BY <1>1, <1>2, <1>3, TaskStepOrder
<1>5. FlagTypes' /\ CallerTypes'
  BY DEF IInv, TypeOK, FlagTypes, CallerTypes, streamVars, mainVars, histVars
<1>6. StreamTypes' /\ TaskTypes'
  BY <1>3 DEF IInv, TypeOK, StreamTypes, TaskTypes, streamVars
<1> QED
  BY <1>3, <1>4, <1>5, <1>6 DEF IInv, TypeOK

LEMMA EmitSizeIInv == ASSUME IInv, NEW t \in TaskIDs, EmitSize(t) PROVE IInv'
<1> USE DEF EmitSize
<1>1. PICK to \in {"data", "cancel"} : pc' = [pc EXCEPT ![t] = to]
  BY DEF Fail
<1>2. obs' \in Seq(Items)
  <2>1. Size(CurrentBlockID(t)) \in Items
    BY CurrentBlockIDType, ItemTypes
  <2> QED
    BY <2>1 DEF IInv, TypeOK, StreamTypes
<1>3. err' \in [TaskIDs -> BOOLEAN]
  BY DEF IInv, TypeOK, TaskTypes, Fail
<1> QED
  BY <1>1, <1>2, <1>3, EmitIInv DEF HasTurn

LEMMA EmitDataIInv == ASSUME IInv, NEW t \in TaskIDs, EmitData(t) PROVE IInv'
<1> USE DEF EmitData
<1>1. PICK to \in {"defer", "cancel"} : pc' = [pc EXCEPT ![t] = to]
  BY DEF Fail
<1>2. obs' \in Seq(Items)
  <2>1. encoded[t] \in Seq(Units)
    BY DEF IInv, TypeOK, TaskTypes
  <2>2. Data(CurrentBlockID(t), encoded[t]) \in Items
    BY <2>1, CurrentBlockIDType, ItemTypes
  <2> QED
    BY <2>2 DEF IInv, TypeOK, StreamTypes
<1>3. err' \in [TaskIDs -> BOOLEAN]
  BY DEF IInv, TypeOK, TaskTypes, Fail
<1> QED
  BY <1>1, <1>2, <1>3, EmitIInv DEF HasTurn

(* A step of the deferred function: it may move the counter. *)
LEMMA DeferIInv ==
  ASSUME IInv, NEW t \in TaskIDs, pc[t] # "none",
         NEW to \in {"store", "done"}, pc' = [pc EXCEPT ![t] = to],
         blockID' \in Nat \cup {CancelTasks}, TurnOrder',
         UNCHANGED <<streamVars, obsVars, mainVars, blockLen, encoded, err, histVars>>
  PROVE  IInv'
<1>1. UNCHANGED available
  BY DEF streamVars
<1>2. /\ Room' /\ BatchShape'
      /\ pc' \in [TaskIDs -> {"none", "encode", "turn", "size", "data", "defer",
                              "store", "cancel", "done"}]
  BY <1>1, TaskStepShape
<1>3. FlagTypes' /\ CallerTypes'
  BY DEF IInv, TypeOK, FlagTypes, CallerTypes, streamVars, obsVars, mainVars, histVars
<1>4. StreamTypes' /\ TaskTypes'
  BY <1>2 DEF IInv, TypeOK, StreamTypes, TaskTypes, streamVars, obsVars
<1> QED
  BY <1>2, <1>3, <1>4 DEF IInv, TypeOK

(* Where a step of task t leads, pointwise. *)
LEMMA PcAfter ==
  ASSUME IInv, NEW t \in TaskIDs, NEW to, pc' = [pc EXCEPT ![t] = to]
  PROVE  \A u \in TaskIDs : pc'[u] = IF u = t THEN to ELSE pc[u]
  BY DEF IInv, TypeOK, TaskTypes

LEMMA CheckTurnIInv == ASSUME IInv, NEW t \in TaskIDs, CheckTurn(t) PROVE IInv'
<1> USE DEF CheckTurn
<1>1. pc[t] # "none" /\ pc[t] # "done"
  OBVIOUS
<1>2. UNCHANGED <<mainPc, firstID, blockID>>
  BY DEF mainVars
<1>3. blockID' \in Nat \cup {CancelTasks}
  BY <1>2 DEF IInv, TypeOK, StreamTypes
<1>4. CASE ~MyTurn(t)
  <2>1. pc' = [pc EXCEPT ![t] = "done"]
    BY <1>4
  <2>2. TurnOrder'
    BY <1>1, <1>2, <2>1, PcAfter, TaskStepOrder
  <2> QED
    BY <1>1, <1>3, <2>1, <2>2, DeferIInv
<1>5. CASE MyTurn(t)
  <2>1. pc' = [pc EXCEPT ![t] = "store"]
    BY <1>5
  <2>2. \A u \in TaskIDs : pc'[u] = IF u = t THEN "store" ELSE pc[u]
    BY <2>1, PcAfter
  <2>3. mainPc = "batch" /\ blockID - firstID = t
    BY <1>1, <1>5, ConstantTypes
       DEF MyTurn, CurrentBlockID, IInv, TypeOK, CallerTypes, CancelTasks, BatchShape
  <2>4. \A u \in TaskIDs : u < t => pc[u] = "done"
    <3>1. CASE blockID # CancelTasks
      BY <2>3, <3>1 DEF IInv, TurnOrder
    <3>2. CASE blockID = CancelTasks
      <4>1. t = 0
        BY <2>3, <3>2, ConstantTypes DEF IInv, TypeOK, CallerTypes, CancelTasks
      <4> QED
        BY <4>1, ConstantTypes
    <3> QED
      BY <3>1, <3>2
  <2>5. TurnOrder'
    BY <1>1, <1>2, <2>2, <2>3, <2>4, ConstantTypes DEF IInv, TurnOrder, HasTurn
  <2> QED
    BY <1>1, <1>3, <2>1, <2>5, DeferIInv
<1> QED
  BY <1>4, <1>5

LEMMA StoreTurnIInv == ASSUME IInv, NEW t \in TaskIDs, StoreTurn(t) PROVE IInv'
<1> USE DEF StoreTurn
<1>1. blockID' = CurrentBlockID(t) /\ blockID' \in Nat \cup {CancelTasks}
  BY CurrentBlockIDType
<1>2. \A u \in TaskIDs : pc'[u] = IF u = t THEN "done" ELSE pc[u]
  BY PcAfter
<1>3. \A u \in TaskIDs : u < t => pc[u] = "done"
  BY DEF IInv, TurnOrder, HasTurn
<1>4. blockID' - firstID' = t + 1
  BY <1>1, ConstantTypes
     DEF CurrentBlockID, IInv, TypeOK, CallerTypes, CancelTasks, mainVars
<1>5. TurnOrder'
  BY <1>2, <1>3, <1>4, ConstantTypes DEF IInv, TurnOrder, HasTurn, mainVars
<1> QED
  BY <1>1, <1>5, DeferIInv

LEMMA CancelIInv == ASSUME IInv, NEW t \in TaskIDs, Cancel(t) PROVE IInv'
<1> USE DEF Cancel
<1>1. \A u \in TaskIDs : pc'[u] = IF u = t THEN "done" ELSE pc[u]
  BY PcAfter
<1>2. TurnOrder'
  BY <1>1 DEF IInv, TurnOrder, HasTurn, mainVars
<1> QED
  BY <1>2, DeferIInv

-----------------------------------------------------------------------------
(* The theorems. *)

LEMMA NextIInv == IInv /\ [Next]_vars => IInv'
<1> SUFFICES ASSUME IInv, [Next]_vars PROVE IInv'
  OBVIOUS
<1>1. ASSUME NEW t \in TaskIDs, TaskStep(t) PROVE IInv'
  BY <1>1, EncodeIInv, AwaitTurnIInv, EmitSizeIInv, EmitDataIInv, CheckTurnIInv,
     StoreTurnIInv, CancelIInv DEF TaskStep
<1>2. CASE MainStep
  BY <1>2, FillIInv, ProcessBlockIInv, SpawnIInv, JoinIInv, FinishIInv DEF MainStep
<1> QED
  BY <1>1, <1>2, ClientIInv, StutterIInv DEF Next

LEMMA Invariance == Spec => []IInv
  BY InitIInv, NextIInv, PTL DEF Spec

(* Every variable keeps its type, whatever fails and whatever the client   *)
(* does: the index bufID that Write computes from available is always that *)
(* of a buffer, also when processBlock leaves buffered blocks behind.      *)
THEOREM TypeCorrect == Spec => []TypeOK
<1>1. IInv => TypeOK
  BY DEF IInv
<1> QED
  BY <1>1, Invariance, PTL

(* No two tasks write to the shared bitstream at the same time, for any    *)
(* number of jobs and any failures - also after StoreTurn has put its      *)
(* value over a cancellation, and in the batches that start cancelled.     *)
THEOREM TurnsExclude == Spec => []TurnExclusion
<1>1. IInv => TurnExclusion
  <2> SUFFICES ASSUME IInv, NEW t \in TaskIDs, NEW u \in TaskIDs,
                      WritesToObs(t), WritesToObs(u), t # u
               PROVE  FALSE
    BY DEF TurnExclusion
  <2>1. t < u \/ u < t
    BY ConstantTypes
  <2> QED
    BY <2>1 DEF IInv, TurnOrder, HasTurn, WritesToObs
<1> QED
  BY <1>1, Invariance, PTL

-----------------------------------------------------------------------------
(* Who can have failed.  A task that has the turn, and a counter that is   *)
(* not cancelled, have only tasks without an error before them, also when  *)
(* the counter is the stale value that StoreTurn put over a cancellation.  *)
(* A task that failed with its turn (it was encoded before) had none but   *)
(* done tasks before it; and a batch is only cancelled by a task with an   *)
(* error.                                                                  *)
NoneFailedBefore ==
  /\ \A t, u \in TaskIDs : HasTurn(t) /\ u < t => ~err[u]
  /\ mainPc = "batch" /\ blockID # CancelTasks =>
       \A u \in TaskIDs : u < blockID - firstID => ~err[u]
FailedAtTurn ==
  \A u, v \in TaskIDs : err[u] /\ encoded[u] # <<>> /\ v < u => pc[v] = "done"
ErrOnlyAfter ==
  \A u \in TaskIDs :
    /\ pc[u] \in {"none", "encode"} => encoded[u] = <<>>
    /\ pc[u] \notin {"cancel", "done"} => ~err[u]
    /\ pc[u] = "cancel" => err[u]
CancelledByError ==
  mainPc = "batch" /\ blockID = CancelTasks /\ firstID # CancelTasks =>
    \E u \in TaskIDs : err[u]

FailOrder == NoneFailedBefore /\ FailedAtTurn /\ ErrOnlyAfter /\ CancelledByError

(* A step of a task that fails no task and leaves the counter alone.       *)
LEMMA QuietFailOrder ==
  ASSUME IInv, FailOrder, NEW t \in TaskIDs, pc[t] # "done", pc[t] # "cancel",
         NEW to, to \notin {"none", "encode", "cancel"},
         to \in {"size", "data", "store"} =>
           \A u \in TaskIDs : u < t => ~err[u],
         \A u \in TaskIDs : pc'[u] = IF u = t THEN to ELSE pc[u],
         \A u \in TaskIDs : u # t => encoded'[u] = encoded[u],
         UNCHANGED <<mainPc, firstID, blockID, err>>
  PROVE  FailOrder'
<1>1. ~err[t]
  BY DEF FailOrder, ErrOnlyAfter
<1>2. NoneFailedBefore'
  BY DEF FailOrder, NoneFailedBefore, HasTurn
<1>3. FailedAtTurn'
  BY <1>1 DEF FailOrder, FailedAtTurn
<1>4. ErrOnlyAfter'
  BY <1>1 DEF FailOrder, ErrOnlyAfter
<1>5. CancelledByError'
  BY DEF FailOrder, CancelledByError
<1> QED
  BY <1>2, <1>3, <1>4, <1>5 DEF FailOrder

(* A step that fails: before the block is encoded, or with the turn.       *)
LEMMA FailFailOrder ==
  ASSUME IInv, FailOrder, NEW t \in TaskIDs, Fail(t), mainPc = "batch",
         pc[t] = "encode" \/ HasTurn(t), UNCHANGED <<mainPc, firstID, blockID, encoded>>
  PROVE  FailOrder'
<1>1. \A u \in TaskIDs : /\ pc'[u] = IF u = t THEN "cancel" ELSE pc[u]
                         /\ err'[u] = IF u = t THEN TRUE ELSE err[u]
  BY DEF Fail, IInv, TypeOK, TaskTypes
<1>2. pc[t] # "done"
  BY DEF HasTurn
<1>3. NoneFailedBefore'
  <2>1. \A v \in TaskIDs : HasTurn(v) => ~(t < v)
    BY <1>2 DEF IInv, TurnOrder
  <2>2. blockID # CancelTasks => ~(t < blockID - firstID)
    BY <1>2 DEF IInv, TurnOrder
  <2> QED
    BY <1>1, <2>1, <2>2 DEF FailOrder, NoneFailedBefore, HasTurn
<1>4. FailedAtTurn'
  <2>1. ASSUME NEW v \in TaskIDs, encoded[t] # <<>>, v < t PROVE pc[v] = "done"
    <3>1. HasTurn(t)
      BY <2>1 DEF FailOrder, ErrOnlyAfter
    <3> QED
      BY <2>1, <3>1 DEF IInv, TurnOrder
  <2>2. \A v \in TaskIDs : v < t => v # t
    BY ConstantTypes
  <2> QED
    BY <1>1, <1>2, <2>1, <2>2 DEF FailOrder, FailedAtTurn
<1>5. ErrOnlyAfter'
  BY <1>1, <1>2 DEF FailOrder, ErrOnlyAfter
<1>6. CancelledByError'
  BY <1>1 DEF CancelledByError
<1> QED
  BY <1>3, <1>4, <1>5, <1>6 DEF FailOrder

LEMMA TaskFailOrder ==
  ASSUME IInv, FailOrder, NEW t \in TaskIDs, TaskStep(t)
  PROVE  FailOrder'
<1>1. UNCHANGED <<mainPc, firstID>> /\ mainPc = "batch"
  BY DEF TaskStep, Encode, AwaitTurn, EmitSize, EmitData, CheckTurn, StoreTurn,
         Cancel, mainVars, IInv, BatchShape
<1>2. MyTurn(t) /\ blockID # CancelTasks => \A u \in TaskIDs : u < t => ~err[u]
  <2>1. MyTurn(t) => blockID - firstID = t
    BY ConstantTypes
       DEF MyTurn, CurrentBlockID, IInv, TypeOK, StreamTypes, CallerTypes, CancelTasks
  <2> QED
    BY <1>1, <2>1 DEF FailOrder, NoneFailedBefore
<1>3. CASE Encode(t)
  <2>1. CASE Fail(t) /\ UNCHANGED encoded
    BY <1>1, <1>3, <2>1, FailFailOrder DEF Encode
  <2>2. CASE /\ encoded' = [encoded EXCEPT ![t] = EncodedBlock(t)]
             /\ pc' = [pc EXCEPT ![t] = "turn"] /\ UNCHANGED err
    <3>1. \A u \in TaskIDs : pc'[u] = IF u = t THEN "turn" ELSE pc[u]
      BY <2>2, PcAfter
    <3>2. \A u \in TaskIDs : u # t => encoded'[u] = encoded[u]
      BY <2>2 DEF IInv, TypeOK, TaskTypes
    <3> QED
      BY <1>1, <1>3, <2>2, <3>1, <3>2, QuietFailOrder DEF Encode
  <2> QED
    BY <1>3, <2>1, <2>2 DEF Encode
<1>4. CASE AwaitTurn(t)
  <2>1. PICK to \in {"defer", "size"} :
          /\ pc' = [pc EXCEPT ![t] = to]
          /\ to = "size" => MyTurn(t) /\ blockID # CancelTasks
    BY <1>4 DEF AwaitTurn
  <2>2. \A u \in TaskIDs : pc'[u] = IF u = t THEN to ELSE pc[u]
    BY <2>1, PcAfter
  <2> QED
    BY <1>1, <1>2, <1>4, <2>1, <2>2, QuietFailOrder DEF AwaitTurn
<1>5. CASE EmitSize(t) \/ EmitData(t)
  <2>1. HasTurn(t) /\ UNCHANGED <<blockID, encoded>> /\ pc[t] # "done" /\ pc[t] # "cancel"
    BY <1>5 DEF EmitSize, EmitData, HasTurn
  <2>2. CASE Fail(t)
    BY <1>1, <2>1, <2>2, FailFailOrder
  <2>3. CASE ~Fail(t)
    <3>1. PICK to \in {"data", "defer"} : pc' = [pc EXCEPT ![t] = to] /\ UNCHANGED err
      BY <1>5, <2>3 DEF EmitSize, EmitData
    <3>2. \A u \in TaskIDs : pc'[u] = IF u = t THEN to ELSE pc[u]
      BY <3>1, PcAfter
    <3>3. \A u \in TaskIDs : u < t => ~err[u]
      BY <2>1 DEF FailOrder, NoneFailedBefore
    <3> QED
      BY <1>1, <2>1, <3>1, <3>2, <3>3, QuietFailOrder
  <2> QED
    BY <2>2, <2>3
<1>6. CASE CheckTurn(t)
  <2>1. PICK to \in {"store", "done"} :
          pc' = [pc EXCEPT ![t] = to] /\ (to = "store" => MyTurn(t))
    BY <1>6 DEF CheckTurn
  <2>2. \A u \in TaskIDs : pc'[u] = IF u = t THEN to ELSE pc[u]
    BY <2>1, PcAfter
  <2>3. MyTurn(t) /\ blockID = CancelTasks => \A u \in TaskIDs : ~(u < t)
    BY ConstantTypes DEF MyTurn, CurrentBlockID, CancelTasks, IInv, TypeOK, CallerTypes
  <2>4. to = "store" => \A u \in TaskIDs : u < t => ~err[u]
    BY <1>2, <2>1, <2>3
  <2> QED
    BY <1>1, <1>6, <2>1, <2>2, <2>4, QuietFailOrder DEF CheckTurn
<1>7. CASE StoreTurn(t)
  <2>1. \A u \in TaskIDs : pc'[u] = IF u = t THEN "done" ELSE pc[u]
    BY <1>7, PcAfter DEF StoreTurn
  <2>2. /\ UNCHANGED <<err, encoded>> /\ HasTurn(t) /\ ~err[t]
        /\ blockID' = CurrentBlockID(t) /\ blockID' # CancelTasks
    BY <1>7, CurrentBlockIDType
    DEF StoreTurn, HasTurn, CancelTasks, FailOrder, ErrOnlyAfter
  <2>3. \A u \in TaskIDs : u < blockID' - firstID' => ~err[u]
    <3>1. blockID' - firstID' = t + 1
      BY <1>1, <2>2, ConstantTypes DEF CurrentBlockID, IInv, TypeOK, CallerTypes, CancelTasks
    <3>2. \A u \in TaskIDs : u < t => ~err[u]
      BY <2>2 DEF FailOrder, NoneFailedBefore
    <3> QED
      BY <2>2, <3>1, <3>2, ConstantTypes
  <2>4. NoneFailedBefore'
    BY <2>1, <2>2, <2>3 DEF FailOrder, NoneFailedBefore, HasTurn
  <2>5. FailedAtTurn' /\ ErrOnlyAfter'
    BY <2>1, <2>2 DEF FailOrder, FailedAtTurn, ErrOnlyAfter, HasTurn
  <2> QED
    BY <2>2, <2>4, <2>5 DEF FailOrder, CancelledByError
<1>8. CASE Cancel(t)
  <2>1. \A u \in TaskIDs : pc'[u] = IF u = t THEN "done" ELSE pc[u]
    BY <1>8, PcAfter DEF Cancel
  <2>2. UNCHANGED <<err, encoded>> /\ err[t] /\ blockID' = CancelTasks /\ pc[t] = "cancel"
    BY <1>8 DEF Cancel, FailOrder, ErrOnlyAfter
  <2>3. NoneFailedBefore'
    BY <2>1, <2>2 DEF FailOrder, NoneFailedBefore, HasTurn
  <2>4. FailedAtTurn' /\ ErrOnlyAfter'
    BY <2>1, <2>2 DEF FailOrder, FailedAtTurn, ErrOnlyAfter
  <2> QED
    BY <2>2, <2>3, <2>4 DEF FailOrder, CancelledByError
<1> QED
  BY <1>3, <1>4, <1>5, <1>6, <1>7, <1>8 DEF TaskStep

LEMMA NextFailOrder == IInv /\ FailOrder /\ [Next]_vars => FailOrder'
<1> SUFFICES ASSUME IInv, FailOrder, [Next]_vars PROVE FailOrder'
  OBVIOUS
<1>1. ASSUME NEW t \in TaskIDs, TaskStep(t) PROVE FailOrder'
  BY <1>1, TaskFailOrder
<1>2. CASE UNCHANGED taskVars /\ mainPc' # "batch"
  BY <1>2
  DEF taskVars, FailOrder, NoneFailedBefore, FailedAtTurn, ErrOnlyAfter, CancelledByError,
      HasTurn
<1>3. CASE ProcessBlock
  <2>1. UNCHANGED <<taskVars, blockID>> /\ (mainPc' = "batch" => firstID' = blockID)
    BY <1>3 DEF ProcessBlock
  <2>2. \A u \in TaskIDs : ~err[u]
    BY <1>3 DEF ProcessBlock, IInv, BatchShape, FailOrder, ErrOnlyAfter
  <2> QED
    BY <2>1, <2>2
    DEF taskVars, FailOrder, NoneFailedBefore, FailedAtTurn, ErrOnlyAfter, CancelledByError,
        HasTurn
<1>4. CASE Spawn
  <2>1. UNCHANGED <<blockID, firstID, mainPc, encoded, err>>
    BY <1>4 DEF Spawn
  <2>2. \A t \in TaskIDs : pc'[t] = IF t = spawned THEN "encode" ELSE pc[t]
    BY <1>4 DEF Spawn, IInv, TypeOK, TaskTypes
  <2>3. \A t \in TaskIDs : t = spawned => pc[t] = "none"
    BY <1>4, ConstantTypes DEF Spawn, IInv, BatchShape, TypeOK, CallerTypes
  <2>4. NoneFailedBefore' /\ CancelledByError'
    BY <2>1, <2>2 DEF FailOrder, NoneFailedBefore, CancelledByError, HasTurn
  <2>5. FailedAtTurn' /\ ErrOnlyAfter'
    BY <2>1, <2>2, <2>3 DEF FailOrder, FailedAtTurn, ErrOnlyAfter
  <2> QED
    BY <2>4, <2>5 DEF FailOrder
<1>5. CASE Join
  <2>1. \A t \in TaskIDs : pc'[t] = "none" /\ encoded'[t] = <<>> /\ ~err'[t]
    BY <1>5 DEF Join, NoTasks
  <2>2. mainPc' # "batch"
    BY <1>5 DEF Join, NextOfWrite
  <2> QED
    BY <2>1, <2>2
    DEF FailOrder, NoneFailedBefore, FailedAtTurn, ErrOnlyAfter, CancelledByError, HasTurn
<1>6. CASE UNCHANGED vars
  BY <1>6
  DEF vars, mainVars, taskVars, FailOrder, NoneFailedBefore, FailedAtTurn, ErrOnlyAfter,
      CancelledByError, HasTurn
<1>7. CASE Client \/ Fill \/ Finish
  BY <1>2, <1>6, <1>7 DEF Client, Write, Close, Fill, Finish, NextOfWrite
<1> QED
  BY <1>1, <1>3, <1>4, <1>5, <1>6, <1>7 DEF Next, MainStep

LEMMA FailOrderInvariance == Spec => [](IInv /\ FailOrder)
<1>1. Init => FailOrder
  BY DEF Init, FailOrder, NoneFailedBefore, FailedAtTurn, ErrOnlyAfter, CancelledByError,
         HasTurn
<1> QED
  BY <1>1, InitIInv, NextIInv, NextFailOrder, PTL DEF Spec

(* Whatever fails, and for any number of jobs: a cancellation stands until *)
(* the batch is over, unless a task that looked at the counter before      *)
(* stores its value over it; every task before that one was passed on      *)
(* without an error, and whoever failed is behind it and failed before its *)
(* turn.                                                                   *)
THEOREM CancellationStands == Spec => CancelStands
<1> DEFINE Stands ==
      firstID # CancelTasks /\ blockID = CancelTasks =>
        blockID' = CancelTasks \/ \E t \in TaskIDs : StaleStore(t)
<1>1. IInv /\ FailOrder /\ [Next]_vars => [Stands]_blockID
  <2> SUFFICES ASSUME IInv, FailOrder, Next, firstID # CancelTasks, blockID = CancelTasks,
                      blockID' # blockID
               PROVE  \E t \in TaskIDs : StaleStore(t)
    BY DEF vars
  <2>1. ASSUME NEW t \in TaskIDs, StoreTurn(t) PROVE StaleStore(t)
    <3>1. HasTurn(t) /\ pc[t] = "store" /\ blockID' = CurrentBlockID(t) /\ mainPc = "batch"
      BY <2>1 DEF StoreTurn, HasTurn, IInv, BatchShape
    <3>2. \A u \in TaskIDs : u < t => pc[u] = "done" /\ ~err[u]
      BY <3>1 DEF IInv, TurnOrder, FailOrder, NoneFailedBefore
    <3>3. \E u \in TaskIDs : err[u]
      BY <3>1 DEF FailOrder, CancelledByError
    <3>4. ASSUME NEW u \in TaskIDs, err[u] PROVE u > t /\ encoded[u] = <<>>
      <4>1. u # t
        BY <3>1, <3>4 DEF FailOrder, ErrOnlyAfter
      <4>2. u > t /\ t < u
        BY <3>2, <3>4, <4>1, ConstantTypes
      <4> QED
        BY <3>1, <3>4, <4>2 DEF FailOrder, FailedAtTurn
    <3> QED
      BY <3>1, <3>2, <3>3, <3>4 DEF StaleStore
  <2>2. ASSUME NEW t \in TaskIDs, TaskStep(t) PROVE StoreTurn(t)
    BY <2>2 DEF TaskStep, Encode, AwaitTurn, EmitSize, EmitData, CheckTurn, Cancel
  <2>3. ~(Client \/ MainStep)
    BY DEF MainStep, Fill, ProcessBlock, Spawn, Join, Finish, Client, Write, Close, vars
  <2> QED
    BY <2>1, <2>2, <2>3 DEF Next
<1> QED
  BY <1>1, FailOrderInvariance, PTL DEF Spec, CancelStands

-----------------------------------------------------------------------------
(* Arithmetic of blocks. *)

LEMMA Distribute ==
  ASSUME NEW a \in Int, NEW b \in Int, NEW c \in Int
  PROVE  (a + b) * c = a * c + b * c
  OBVIOUS

LEMMA TimesOrder ==
  ASSUME NEW a \in Int, NEW b \in Int, NEW c \in Nat \ {0}
  PROVE  /\ a <= b <=> a * c <= b * c
         /\ a < b <=> a * c < b * c
         /\ a * c \in Int /\ (a + 1) * c = a * c + c /\ (a - 1) * c = a * c - c
         /\ a \in Nat => a * c \in Nat
  OBVIOUS

(* Block k has at least one unit of an input of n units. *)
LEMMA BlocksOf ==
  ASSUME NEW n \in Nat
  PROVE  /\ NbBlocks(n) \in Nat
         /\ \A k \in Nat \ {0} : k <= NbBlocks(n) <=> (k - 1) * BlockSize < n
<1> DEFINE q == (n + BlockSize - 1) \div BlockSize
           r == (n + BlockSize - 1) % BlockSize
<1>1. BlockSize \in Nat \ {0} /\ n + BlockSize - 1 \in Nat
  BY ConstantTypes
<1>2. q \in Nat /\ r \in 0 .. BlockSize - 1 /\ n + BlockSize - 1 = BlockSize * q + r
  BY <1>1, DivMod
<1>3. NbBlocks(n) = q
  BY DEF NbBlocks, CeilDiv
<1> HIDE DEF q, r
<1>4. ASSUME NEW k \in Nat \ {0}
      PROVE  k <= q <=> (k - 1) * BlockSize < n
  <2>1. (k - 1) * BlockSize = k * BlockSize - BlockSize /\ k * BlockSize \in Int
    BY <1>1, TimesOrder
  <2>2. q * BlockSize = BlockSize * q /\ (q + 1) * BlockSize = q * BlockSize + BlockSize
    BY <1>1, <1>2, TimesOrder
  <2>3. CASE k <= q
    <3>1. k * BlockSize <= q * BlockSize
      BY <1>1, <1>2, <2>3, TimesOrder
    <3> QED
      BY <1>1, <1>2, <2>1, <2>2, <2>3, <3>1
  <2>4. CASE q + 1 <= k
    <3>1. (q + 1) * BlockSize <= k * BlockSize
      BY <1>1, <1>2, <2>4, TimesOrder
    <3> QED
      BY <1>1, <1>2, <2>1, <2>2, <2>4, <3>1
  <2> QED
    BY <1>2, <2>3, <2>4
<1> QED
  BY <1>2, <1>3, <1>4

(* The number of blocks is the least that has room for all units. *)
LEMMA BlocksAre ==
  ASSUME NEW n \in Nat, NEW b \in Nat, n <= b * BlockSize,
         b = 0 \/ (b - 1) * BlockSize < n
  PROVE  NbBlocks(n) = b
<1>1. /\ NbBlocks(n) \in Nat /\ b + 1 \in Nat \ {0}
      /\ \A k \in Nat \ {0} : (k <= NbBlocks(n)) <=> ((k - 1) * BlockSize < n)
  BY BlocksOf
<1>2. (b + 1 <= NbBlocks(n)) <=> (((b + 1) - 1) * BlockSize < n)
  BY <1>1
<1>3. b * BlockSize \in Nat /\ (b + 1) - 1 = b
  BY ConstantTypes
<1>4. ~(b + 1 <= NbBlocks(n))
  BY <1>2, <1>3
<1>5. CASE b = 0
  BY <1>1, <1>4, <1>5
<1>6. CASE b # 0
  <2>1. b <= NbBlocks(n)
    BY <1>1, <1>6
  <2> QED
    BY <1>1, <1>4, <2>1
<1> QED
  BY <1>5, <1>6

LEMMA WholeBlocks ==
  ASSUME NEW b \in Nat
  PROVE  NbBlocks(b * BlockSize) = b
<1>1. b * BlockSize \in Nat /\ (b - 1) * BlockSize < b * BlockSize
  BY ConstantTypes, TimesOrder
<1> QED
  BY <1>1, BlocksAre

(* A block that ends within the input is the same for a longer input. *)
LEMMA FullBlock ==
  ASSUME NEW n \in Nat, NEW m \in Nat, n <= m, NEW k \in Nat \ {0}, k * BlockSize <= n
  PROVE  Block(k, n) = Block(k, m) /\ k <= NbBlocks(n) /\ k <= NbBlocks(m)
<1>1. BlockSize \in Nat \ {0} /\ (k - 1) * BlockSize = k * BlockSize - BlockSize
      /\ k * BlockSize \in Int
  BY ConstantTypes, TimesOrder
<1>2. MinOf(BlockSize, n - (k - 1) * BlockSize) = BlockSize
  BY <1>1 DEF MinOf
<1>3. MinOf(BlockSize, m - (k - 1) * BlockSize) = BlockSize
  BY <1>1 DEF MinOf
<1>4. Block(k, n) = Block(k, m)
  BY <1>2, <1>3 DEF Block
<1>5. (k - 1) * BlockSize < n /\ (k - 1) * BlockSize < m
  BY <1>1
<1> QED
  BY <1>4, <1>5, BlocksOf

(* A function on 1 .. n is a sequence of length n. *)
LEMMA IsASeq ==
  ASSUME NEW len \in Nat, NEW f, f = [i \in 1 .. len |-> f[i]]
  PROVE  f \in Seq({f[i] : i \in 1 .. len}) /\ Len(f) = len
<1>1. f \in [1 .. len -> {f[i] : i \in 1 .. len}]
  OBVIOUS
<1> QED
  BY <1>1

LEMMA SeqIsFunction ==
  ASSUME NEW S, NEW s \in Seq(S)
  PROVE  s = [i \in 1 .. Len(s) |-> s[i]]
  OBVIOUS

LEMMA AppendFunction ==
  ASSUME NEW S, NEW s \in Seq(S), NEW x \in S, NEW n \in Nat, Len(s) = n
  PROVE  Append(s, x) = [i \in 1 .. n + 1 |-> IF i = n + 1 THEN x ELSE s[i]]
<1>1. Append(s, x) \in Seq(S) /\ Len(Append(s, x)) = n + 1
  OBVIOUS
<1>2. Append(s, x) = [i \in 1 .. n + 1 |-> Append(s, x)[i]]
  BY <1>1, SeqIsFunction
<1>3. \A i \in 1 .. n + 1 : Append(s, x)[i] = IF i = n + 1 THEN x ELSE s[i]
  OBVIOUS
<1> QED
  BY <1>2, <1>3

(* The first units of a buffer. *)
LEMMA PrefixOf ==
  ASSUME NEW n \in Nat, NEW S, NEW f \in [1 .. n -> S], NEW len \in 0 .. n
  PROVE  SubSeq(f, 1, len) = [j \in 1 .. len |-> f[j]]
<1>1. f \in Seq(S) /\ Len(f) = n
  OBVIOUS
<1>2. SubSeq(f, 1, len) \in Seq(S) /\ Len(SubSeq(f, 1, len)) = len
  BY <1>1
<1>3. \A j \in 1 .. len : SubSeq(f, 1, len)[j] = f[j]
  BY <1>1
<1>4. DOMAIN SubSeq(f, 1, len) = 1 .. len
  BY <1>2
<1>5. SubSeq(f, 1, len) = [j \in 1 .. len |-> SubSeq(f, 1, len)[j]]
  BY <1>2, <1>4
<1> QED
  BY <1>3, <1>5

(* The items of the stream of an input. *)
LEMMA StreamItems ==
  ASSUME NEW n \in Nat
  PROVE  /\ Len(StreamOf(n)) = 2 * NbBlocks(n) + 2
         /\ DOMAIN StreamOf(n) = 1 .. 2 * NbBlocks(n) + 2
         /\ StreamOf(n)[1] = Header
         /\ \A k \in 1 .. NbBlocks(n) : /\ StreamOf(n)[2 * k] = Size(k)
                                        /\ StreamOf(n)[2 * k + 1] = Data(k, Block(k, n))
         /\ StreamOf(n)[2 * NbBlocks(n) + 2] = EndMark
<1>1. NbBlocks(n) \in Nat
  BY BlocksOf
<1> DEFINE len == 2 * NbBlocks(n) + 2
<1>2. len \in Nat /\ len >= 2
  BY <1>1
<1>3. \A i \in 1 .. len : StreamOf(n)[i] =
        CASE i = 1 -> Header
          [] i = len -> EndMark
          [] i \in 2 .. 2 * NbBlocks(n) + 1 /\ i % 2 = 0 -> Size(i \div 2)
          [] OTHER -> Data(i \div 2, Block(i \div 2, n))
  BY DEF StreamOf
<1>4. DOMAIN StreamOf(n) = 1 .. len
  BY DEF StreamOf
<1>5. StreamOf(n)[1] = Header
  BY <1>2, <1>3
<1>6. StreamOf(n)[len] = EndMark
  <2>1. len \in 1 .. len /\ len # 1 /\ ~(len \in 2 .. 2 * NbBlocks(n) + 1)
    BY <1>1, <1>2
  <2> HIDE DEF len
  <2> QED
    BY <1>3, <2>1
<1>7. ASSUME NEW k \in 1 .. NbBlocks(n)
      PROVE  StreamOf(n)[2 * k] = Size(k) /\ StreamOf(n)[2 * k + 1] = Data(k, Block(k, n))
  <2>1. /\ 2 * k \in 2 .. 2 * NbBlocks(n) + 1 /\ 2 * k # 1 /\ 2 * k # len
        /\ (2 * k) % 2 = 0 /\ (2 * k) \div 2 = k
    BY <1>1
  <2>2. /\ 2 * k + 1 \in 1 .. len /\ 2 * k + 1 # 1 /\ 2 * k + 1 # len
        /\ (2 * k + 1) % 2 # 0 /\ (2 * k + 1) \div 2 = k
    BY <1>1
  <2>3. 2 * k \in 1 .. len
    BY <1>1
  <2> HIDE DEF len
  <2>4. StreamOf(n)[2 * k] = Size((2 * k) \div 2)
    BY <1>3, <2>1, <2>3
  <2>5. StreamOf(n)[2 * k + 1] = Data((2 * k + 1) \div 2, Block((2 * k + 1) \div 2, n))
    BY <1>3, <2>2
  <2> QED
    BY <2>1, <2>2, <2>4, <2>5
<1>8. Len(StreamOf(n)) = len
  <2>1. StreamOf(n) \in Seq({StreamOf(n)[i] : i \in 1 .. len})
    BY <1>2, <1>4, IsASeq DEF StreamOf
  <2> QED
    BY <1>2, <1>4, <2>1
<1> QED
  BY <1>4, <1>5, <1>6, <1>7, <1>8

(* What the blocks 1 .. b of an input look like on the bitstream does not  *)
(* change when more input arrives, if they are all full.                   *)
LEMMA StreamGrows ==
  ASSUME NEW n \in Nat, NEW m \in Nat, n <= m,
         NEW b \in Nat, b * BlockSize <= n, NEW i \in 1 .. 1 + 2 * b
  PROVE  /\ i \in DOMAIN StreamOf(n) /\ i \in DOMAIN StreamOf(m)
         /\ StreamOf(n)[i] = StreamOf(m)[i]
<1>1. NbBlocks(n) \in Nat /\ NbBlocks(m) \in Nat
  BY BlocksOf
<1>2. CASE i = 1
  <2>1. StreamOf(n)[1] = Header /\ StreamOf(m)[1] = Header
    BY StreamItems
  <2>2. 1 \in 1 .. 2 * NbBlocks(n) + 2 /\ 1 \in 1 .. 2 * NbBlocks(m) + 2
    BY <1>1
  <2>3. 1 \in DOMAIN StreamOf(n) /\ 1 \in DOMAIN StreamOf(m)
    BY <2>2, StreamItems
  <2> QED
    BY <1>2, <2>1, <2>3
<1>3. CASE i # 1
  <2>1. PICK k \in 1 .. b : i = 2 * k \/ i = 2 * k + 1
    <3>1. i \div 2 \in 1 .. b /\ (i = 2 * (i \div 2) \/ i = 2 * (i \div 2) + 1)
      BY <1>3
    <3> QED
      BY <3>1
  <2>2. k * BlockSize <= b * BlockSize /\ k * BlockSize \in Nat /\ b * BlockSize \in Nat
    BY ConstantTypes, TimesOrder
  <2>3. Block(k, n) = Block(k, m) /\ k <= NbBlocks(n) /\ k <= NbBlocks(m)
    BY <2>2, FullBlock
  <2>4. k \in 1 .. NbBlocks(n) /\ k \in 1 .. NbBlocks(m)
    BY <1>1, <2>3
  <2>5. i \in 1 .. 2 * NbBlocks(n) + 2 /\ i \in 1 .. 2 * NbBlocks(m) + 2
    BY <1>1, <2>1, <2>4
  <2>6. \/ StreamOf(n)[i] = Size(k) /\ StreamOf(m)[i] = Size(k)
        \/ /\ StreamOf(n)[i] = Data(k, Block(k, n))
           /\ StreamOf(m)[i] = Data(k, Block(k, m))
    <3>1. CASE i = 2 * k
      BY <2>4, <3>1, StreamItems
    <3>2. CASE i = 2 * k + 1
      BY <2>4, <3>2, StreamItems
    <3> QED
      BY <2>1, <3>1, <3>2
  <2>7. i \in DOMAIN StreamOf(n) /\ i \in DOMAIN StreamOf(m)
    BY <2>5, StreamItems
  <2> QED
    BY <2>3, <2>6, <2>7
<1> QED
  BY <1>2, <1>3

(* A multiple of a number has no remainder, and its quotient is exact. *)
LEMMA MultipleHasNoRemainder ==
  ASSUME NEW a \in Nat, NEW b \in Nat \ {0}
  PROVE  (a * b) % b = 0
<1> DEFINE q == (a * b) \div b
           r == (a * b) % b
<1>1. a * b \in Nat
  OBVIOUS
<1>2. q \in Nat /\ r \in 0 .. b - 1 /\ a * b = b * q + r
  BY <1>1, DivMod
<1> HIDE DEF q, r
<1>3. (a - q) * b = r /\ a - q \in Int
  <2>1. (a - q) * b = a * b - q * b
    BY <1>2, Distribute
  <2> QED
    BY <1>1, <1>2, <2>1
<1>4. ASSUME 1 <= a - q PROVE FALSE
  <2>1. 1 * b <= (a - q) * b
    BY <1>3, <1>4, TimesOrder
  <2> QED
    BY <1>2, <1>3, <2>1
<1>5. ASSUME a - q <= 0 PROVE r = 0
  <2>1. (a - q) * b <= 0 * b
    BY <1>3, <1>5, TimesOrder
  <2> QED
    BY <1>2, <1>3, <2>1
<1>6. r = 0
  BY <1>3, <1>4, <1>5
<1> QED
  BY <1>6 DEF r

-----------------------------------------------------------------------------
(* A batch takes everything that is buffered: either it may start a task   *)
(* for every buffer, or the announced size is honest and so small that the *)
(* buffers beyond the tasks stay empty.                                    *)
EnoughTasks == NbTasks = Jobs \/ MaxInput <= NbTasks * BlockSize

(* The hint of the constructor is enough as long as it is not cut off at   *)
(* _MAX_CONCURRENCY - 1 and the client hands over no more than announced.  *)
LEMMA HintIsEnough ==
  ASSUME Jobs < MaxConcurrency, FileSize = 0 \/ MaxInput <= FileSize
  PROVE  EnoughTasks
<1> DEFINE q == CeilDiv(FileSize, BlockSize)
<1>1. /\ q \in Nat /\ q * BlockSize >= FileSize
      /\ FileSize = 0 => q = 0
  <2> DEFINE a == FileSize + BlockSize - 1
             r == a % BlockSize
  <2>1. a \in Nat /\ BlockSize \in Nat \ {0} /\ FileSize \in Nat
    BY WriterAssumption
  <2>2. q = a \div BlockSize
    BY DEF CeilDiv
  <2> HIDE DEF q
  <2>3. q \in Nat /\ r \in 0 .. BlockSize - 1 /\ a = BlockSize * q + r
    BY <2>1, <2>2, DivMod
  <2> HIDE DEF r
  <2>4. q * BlockSize >= FileSize
    BY <2>1, <2>3
  <2>5. ASSUME FileSize = 0, 1 <= q PROVE FALSE
    <3>1. 1 * BlockSize <= q * BlockSize
      BY <2>1, <2>3, <2>5, TimesOrder
    <3> QED
      BY <2>1, <2>3, <2>5, <3>1
  <2> QED
    BY <2>3, <2>4, <2>5
<1> HIDE DEF q
<1>2. NbInputBlocks = MinOf(q, MaxConcurrency - 1)
  BY DEF NbInputBlocks, q
<1>3. CASE Jobs > 1 /\ NbInputBlocks > 0 /\ NbInputBlocks < Jobs
  <2>1. NbTasks = q /\ FileSize # 0
    BY <1>1, <1>2, <1>3, WriterAssumption DEF NbTasks, MinOf
  <2> QED
    BY <1>1, <2>1, WriterAssumption DEF EnoughTasks
<1>4. CASE ~(Jobs > 1 /\ NbInputBlocks > 0 /\ NbInputBlocks < Jobs)
  BY <1>1, <1>2, <1>4, WriterAssumption DEF NbTasks, MinOf, EnoughTasks
<1> QED
  BY <1>3, <1>4

-----------------------------------------------------------------------------
(* The shape of the calls. *)

(* What the caller's goroutine knows at each of its places. *)
CallShape ==
  /\ mainPc \in {"fill", "process", "batch"} =>
       (closed /\ caller = "close") \/ (~closed /\ caller = "write")
  /\ mainPc = "fill" => caller = "write" /\ remaining > 0
  /\ mainPc = "finish" => closed /\ initialized
  /\ mainPc = "batch" => initialized
  /\ failed => initialized
  /\ mainPc = "process" /\ caller = "write" => available = Jobs * BlockSize
  /\ obsClosed => closed /\ mainPc = "idle"
  /\ closed /\ mainPc = "idle" => obsClosed \/ failed

LEMMA TaskStepFrame ==
  ASSUME IInv, NEW t \in TaskIDs, TaskStep(t)
  PROVE  /\ mainPc = "batch" /\ pc[t] # "none"
         /\ UNCHANGED <<closed, initialized, available, obsClosed, mainVars,
                        histVars, blockLen>>
<1>1. pc[t] # "none"
  BY DEF TaskStep, Encode, AwaitTurn, EmitSize, EmitData, CheckTurn, StoreTurn, Cancel
<1>2. mainPc = "batch"
  BY <1>1 DEF IInv, BatchShape
<1> QED
  BY <1>1, <1>2 DEF TaskStep, Encode, AwaitTurn, EmitSize, EmitData, CheckTurn, StoreTurn,
     Cancel, streamVars, obsVars

(* One turn of the loop of Write: the chunk goes behind what is buffered.  *)
LEMMA FillChunk ==
  ASSUME IInv, CallShape, Fill
  PROVE  \E bufID \in TaskIDs, bufOff \in 0 .. BlockSize - 1, n \in 1 .. BlockSize :
           /\ available = bufID * BlockSize + bufOff
           /\ n <= remaining /\ n <= BlockSize - bufOff
           /\ available' = available + n /\ available' <= Jobs * BlockSize
           /\ accepted' = accepted + n /\ remaining' = remaining - n
           /\ buffers' = [buffers EXCEPT ![bufID] =
                [j \in 1 .. BlockSize |->
                   IF j \in bufOff + 1 .. bufOff + n
                   THEN accepted + j - bufOff ELSE buffers[bufID][j]]]
           /\ mainPc' = "process" => available' = Jobs * BlockSize
<1> DEFINE bufOff == available % BlockSize
           bufID  == available \div BlockSize
           n      == MinOf(remaining, BlockSize - bufOff)
<1>1. /\ available < Jobs * BlockSize /\ available \in Nat
      /\ remaining \in Nat /\ remaining > 0
  BY DEF IInv, TypeOK, StreamTypes, CallerTypes, Room, Fill, CallShape
<1>2. bufID \in TaskIDs
  BY <1>1, ConstantTypes, BufferInRange DEF TaskIDs
<1>3. bufOff \in 0 .. BlockSize - 1 /\ available = BlockSize * bufID + bufOff
  BY <1>1, ConstantTypes, DivMod
<1>4. /\ available' = available + n /\ accepted' = accepted + n
      /\ remaining' = remaining - n
      /\ buffers' = [buffers EXCEPT ![bufID] =
           [j \in 1 .. BlockSize |->
              IF j \in bufOff + 1 .. bufOff + n
              THEN accepted + j - bufOff ELSE buffers[bufID][j]]]
      /\ mainPc' = "process" => bufOff + n >= BlockSize /\ bufID + 1 >= Jobs
  BY DEF Fill, BatchFull, NextOfWrite
<1>5. n \in 1 .. BlockSize /\ n <= remaining /\ n <= BlockSize - bufOff
  BY <1>1, <1>3, ConstantTypes DEF MinOf
<1> HIDE DEF bufOff, bufID, n
<1>6. available = bufID * BlockSize + bufOff /\ bufID * BlockSize \in Nat
  BY <1>2, <1>3, ConstantTypes
<1>7. available' <= Jobs * BlockSize
  <2>1. available' \in 0 .. Jobs * BlockSize
    BY FillIInv DEF IInv, TypeOK, StreamTypes
  <2> QED
    BY <2>1, ConstantTypes
<1>8. ASSUME mainPc' = "process" PROVE available' = Jobs * BlockSize
  <2>1. bufID = Jobs - 1 /\ n = BlockSize - bufOff
    BY <1>2, <1>3, <1>4, <1>5, <1>8, ConstantTypes DEF TaskIDs
  <2>2. (Jobs - 1) * BlockSize = Jobs * BlockSize - BlockSize /\ Jobs * BlockSize \in Nat
    BY ConstantTypes
  <2> QED
    BY <1>3, <1>4, <1>6, <2>1, <2>2, ConstantTypes
<1> QED
  BY <1>2, <1>3, <1>4, <1>5, <1>6, <1>7, <1>8

LEMMA CallShapeStep ==
  ASSUME IInv, CallShape, [Next]_vars
  PROVE  CallShape'
<1> USE DEF CallShape
<1>1. CASE UNCHANGED vars
  BY <1>1 DEF vars, streamVars, obsVars, mainVars, histVars
<1>2. CASE \E n \in 1 .. MaxInput - accepted : Write(n)
  BY <1>2 DEF Write, streamVars, obsVars
<1>3. CASE Close
  BY <1>3 DEF Close, obsVars, vars, streamVars, mainVars, histVars
<1>4. CASE Fill
  <2>1. mainPc' = "process" => available' = Jobs * BlockSize
    BY <1>4, FillChunk
  <2>2. mainPc' \in {"process", "idle", "fill"} /\ caller = "write" /\ ~closed
    BY <1>4 DEF Fill, NextOfWrite
  <2>3. mainPc' = "fill" => remaining' > 0
    BY <1>4, FillIInv DEF Fill, NextOfWrite, IInv, TypeOK, CallerTypes
  <2> QED
    BY <1>4, <2>1, <2>2, <2>3 DEF Fill, obsVars
<1>5. CASE ProcessBlock
  <2>1. Jobs * BlockSize > 0
    BY ConstantTypes
  <2> QED
    BY <1>5, <2>1 DEF ProcessBlock, NothingBuffered, histVars
<1>6. CASE Spawn
  BY <1>6 DEF Spawn, obsVars, histVars
<1>7. CASE Join
  BY <1>7 DEF Join, NextOfWrite, streamVars, obsVars, IInv, TypeOK, CallerTypes
<1>8. CASE Finish
  BY <1>8 DEF Finish
<1>9. ASSUME NEW t \in TaskIDs, TaskStep(t) PROVE CallShape'
  BY <1>9, TaskStepFrame DEF mainVars, histVars
<1> QED
  BY <1>1, <1>2, <1>3, <1>4, <1>5, <1>6, <1>7, <1>8, <1>9 DEF Next, Client, MainStep


-----------------------------------------------------------------------------
(* The shape of failures and of the end of the bitstream. *)

NoError == \A t \in TaskIDs : ~err[t]

(* A task has an error from the step that fails on, and only then cancels. *)
ErrShape ==
  \A t \in TaskIDs :
    /\ pc[t] \in {"none", "encode", "turn", "size", "data", "defer", "store"} => ~err[t]
    /\ pc[t] = "cancel" => err[t]

(* The end mark is the last item, and there is none before Close is done.  *)
NoEnd == \A i \in 1 .. Len(obs) : obs[i].kind # "end"
EndShape ==
  /\ mainPc # "idle" \/ ~closed => NoEnd
  /\ ~initialized => obs = <<>>

LEMMA AppendIs ==
  ASSUME NEW S, NEW s \in Seq(S), NEW x \in S
  PROVE  /\ Append(s, x) \in Seq(S) /\ Len(Append(s, x)) = Len(s) + 1
         /\ Append(s, x)[Len(s) + 1] = x
         /\ \A i \in 1 .. Len(s) : Append(s, x)[i] = s[i]
  OBVIOUS

LEMMA ItemKinds ==
  /\ Header.kind = "header" /\ EndMark.kind = "end"
  /\ \A id : Size(id).kind = "size"
  /\ \A id, s : Data(id, s).kind = "data" /\ Data(id, s).data = s
  BY DEF Header, EndMark, Size, Data

LEMMA AppendNoEnd ==
  ASSUME IInv, NoEnd, NEW x \in Items, x.kind # "end", obs' = Append(obs, x)
  PROVE  NoEnd'
<1>1. obs \in Seq(Items)
  BY DEF IInv, TypeOK, StreamTypes
<1>2. Len(obs') = Len(obs) + 1 /\ obs'[Len(obs) + 1] = x /\ Len(obs) \in Nat
      /\ \A i \in 1 .. Len(obs) : obs'[i] = obs[i]
  BY <1>1, AppendIs
<1> QED
  BY <1>2 DEF NoEnd

(* A step of a task with respect to its error. *)
LEMMA TaskStepErr ==
  ASSUME IInv, ErrShape, NEW t \in TaskIDs, TaskStep(t)
  PROVE  /\ ErrShape'
         /\ NoError' => NoError
<1>1. PICK to : pc' = [pc EXCEPT ![t] = to] /\ (to = "cancel" => err' = [err EXCEPT ![t] = TRUE])
        /\ (to # "cancel" => err' = err)
        /\ (to \in {"encode", "none"} => FALSE)
        /\ (to # "done" /\ to # "cancel" => pc[t] # "cancel" /\ pc[t] # "done")
  BY DEF TaskStep, Encode, AwaitTurn, EmitSize, EmitData, CheckTurn, StoreTurn, Cancel, Fail
<1>2. \A u \in TaskIDs : pc'[u] = IF u = t THEN to ELSE pc[u]
  BY <1>1, PcAfter
<1>3. \A u \in TaskIDs : err'[u] = IF u = t /\ to = "cancel" THEN TRUE ELSE err[u]
  BY <1>1 DEF IInv, TypeOK, TaskTypes
<1>4. pc[t] \in {"none", "encode", "turn", "size", "data", "defer", "store", "cancel", "done"}
  BY DEF IInv, TypeOK, TaskTypes
<1>5. ErrShape'
  BY <1>1, <1>2, <1>3, <1>4 DEF ErrShape
<1>6. NoError' => NoError
  BY <1>3 DEF NoError
<1> QED
  BY <1>5, <1>6

LEMMA ErrShapeStep ==
  ASSUME IInv, ErrShape, [Next]_vars
  PROVE  ErrShape'
<1>1. CASE UNCHANGED <<pc, err>>
  BY <1>1 DEF ErrShape
<1>2. CASE Spawn
  <2>1. pc' = [pc EXCEPT ![spawned] = "encode"] /\ err' = err
    BY <1>2 DEF Spawn
  <2>2. \A t \in TaskIDs : pc'[t] = IF t = spawned THEN "encode" ELSE pc[t]
    BY <2>1 DEF IInv, TypeOK, TaskTypes
  <2>3. \A t \in TaskIDs : t = spawned => pc[t] = "none"
    BY <1>2, ConstantTypes DEF IInv, BatchShape, TypeOK, CallerTypes
  <2> QED
    BY <2>1, <2>2, <2>3 DEF ErrShape
<1>3. CASE Join
  BY <1>3 DEF Join, NoTasks, ErrShape
<1>4. ASSUME NEW t \in TaskIDs, TaskStep(t) PROVE ErrShape'
  BY <1>4, TaskStepErr
<1> QED
  BY <1>1, <1>2, <1>3, <1>4
     DEF Next, Client, MainStep, Write, Close, Fill, ProcessBlock, Finish, vars, taskVars

LEMMA EndShapeStep ==
  ASSUME IInv, CallShape, EndShape, [Next]_vars
  PROVE  EndShape'
<1> USE DEF EndShape
<1>1. CASE UNCHANGED vars
  BY <1>1 DEF vars, obsVars, streamVars, mainVars, NoEnd
<1>2. CASE (mainPc # "idle" \/ ~closed) /\ UNCHANGED <<obs, initialized>>
  BY <1>2 DEF NoEnd
<1>3. CASE ProcessBlock
  <2>1. obs' = obs \/ obs' = Append(obs, Header)
    BY <1>3 DEF ProcessBlock
  <2>2. NoEnd
    BY <1>3 DEF ProcessBlock
  <2>3. NoEnd'
    <3>1. CASE obs' = obs
      BY <2>2, <3>1 DEF NoEnd
    <3>2. CASE obs' = Append(obs, Header)
      BY <2>2, <3>2, AppendNoEnd, ItemTypes, ItemKinds
    <3> QED
      BY <2>1, <3>1, <3>2
  <2> QED
    BY <1>3, <2>3 DEF ProcessBlock
<1>4. CASE Finish
  <2>1. closed /\ initialized /\ mainPc = "finish"
    BY <1>4 DEF Finish, CallShape
  <2>2. UNCHANGED <<closed, initialized>>
    BY <1>4 DEF Finish
  <2>3. mainPc' # "idle" => obs' = obs
    BY <1>4 DEF Finish
  <2> QED
    BY <2>1, <2>2, <2>3 DEF NoEnd
<1>5. ASSUME NEW t \in TaskIDs, TaskStep(t) PROVE EndShape'
  <2>1. mainPc = "batch" /\ UNCHANGED <<closed, initialized>>
    BY <1>5, TaskStepFrame
  <2>2. NoEnd /\ initialized
    BY <2>1 DEF CallShape
  <2>3. CASE obs' = obs
    BY <2>1, <2>2, <2>3 DEF NoEnd
  <2>4. CASE obs' = Append(obs, Size(CurrentBlockID(t)))
    <3>1. Size(CurrentBlockID(t)) \in Items
      BY CurrentBlockIDType, ItemTypes
    <3> QED
      BY <2>1, <2>2, <2>4, <3>1, AppendNoEnd, ItemKinds
  <2>5. CASE obs' = Append(obs, Data(CurrentBlockID(t), encoded[t]))
    <3>1. Data(CurrentBlockID(t), encoded[t]) \in Items
      BY CurrentBlockIDType, ItemTypes DEF IInv, TypeOK, TaskTypes
    <3> QED
      BY <2>1, <2>2, <2>5, <3>1, AppendNoEnd, ItemKinds
  <2> QED
    BY <1>5, <2>3, <2>4, <2>5 DEF TaskStep, Encode, AwaitTurn, EmitSize, EmitData,
       CheckTurn, StoreTurn, Cancel, obsVars
<1>6. CASE Fill \/ Spawn \/ Join \/ (Close /\ ~closed)
  BY <1>2, <1>6 DEF Fill, Spawn, Join, Close, obsVars, streamVars
<1>7. CASE \E n \in 1 .. MaxInput - accepted : Write(n)
  BY <1>2, <1>7 DEF Write, obsVars, streamVars
<1>8. CASE Close /\ closed
  BY <1>1, <1>8 DEF Close
<1> QED
  BY <1>1, <1>3, <1>4, <1>5, <1>6, <1>7, <1>8 DEF Next, Client, MainStep

(* Everything the proofs below know of a state whatever has failed. *)
Shape == IInv /\ CallShape /\ ErrShape /\ EndShape

LEMMA InitShape == Init => Shape
<1> SUFFICES ASSUME Init PROVE Shape
  OBVIOUS
<1>1. IInv
  BY InitIInv
<1>2. CallShape /\ ErrShape
  BY DEF Init, CallShape, ErrShape
<1>3. EndShape
  BY DEF Init, EndShape, NoEnd
<1> QED
  BY <1>1, <1>2, <1>3 DEF Shape

LEMMA NextShape == Shape /\ [Next]_vars => Shape'
  BY NextIInv, CallShapeStep, ErrShapeStep, EndShapeStep DEF Shape

(* Outside a batch no task has an error. *)
LEMMA NoBatchNoError == ASSUME Shape, mainPc # "batch" PROVE NoError
  BY DEF Shape, IInv, BatchShape, ErrShape, NoError


-----------------------------------------------------------------------------
(* Where every unit is, until a call fails. *)

(* The first unit of the block of task t is unit Before(t) + 1. *)
Before(t) == (firstID + t) * BlockSize

Between == ~failed /\ mainPc \in {"idle", "fill", "process"} /\ ~obsClosed
InBatch == ~failed /\ mainPc = "batch"

(* Between two batches the counter stands for the full blocks written so   *)
(* far, a multiple of the number of buffers; the rest is buffered.         *)
Position ==
  Between =>
    /\ blockID \in Nat /\ \E m \in Nat : blockID = m * Jobs
    /\ accepted = blockID * BlockSize + available
    /\ initialized \/ blockID = 0

Buffered ==
  Between =>
    \A b \in TaskIDs : \A j \in 1 .. BlockSize :
      b * BlockSize + j <= available =>
        buffers[b][j] = (blockID + b) * BlockSize + j

(* A batch of Write encodes all the buffers, that of Close what there is.  *)
BatchInput ==
  InBatch =>
    /\ firstID \in Nat /\ \E m \in Nat : firstID = m * Jobs
    /\ Before(0) < accepted /\ accepted <= Before(NbTasks)
    /\ caller = "write" => accepted = Before(Jobs)
    /\ available = IF Before(spawned) <= accepted THEN accepted - Before(spawned) ELSE 0

(* The task of a block has it in its buffer until the block is encoded.    *)
BatchBlocks ==
  InBatch =>
    \A t \in TaskIDs :
      /\ t < spawned => /\ Before(t) < accepted
                        /\ blockLen[t] = MinOf(BlockSize, accepted - Before(t))
      /\ pc[t] \in {"none", "encode"} =>
           \A j \in 1 .. BlockSize :
             Before(t) + j <= accepted => buffers[t][j] = Before(t) + j
      /\ pc[t] \in {"turn", "size", "data"} =>
           encoded[t] = Block(CurrentBlockID(t), accepted)

(* Until a task fails the counter divides the tasks: those before it are   *)
(* done, the one whose turn it is is not, the others have not written.     *)
Turns ==
  InBatch /\ NoError =>
    /\ blockID \in Nat /\ blockID - firstID \in 0 .. spawned
    /\ \A u \in TaskIDs :
         /\ u < blockID - firstID => pc[u] = "done"
         /\ u = blockID - firstID => pc[u] # "done"
         /\ u > blockID - firstID => pc[u] \in {"none", "encode", "turn"}

(* The items on the bitstream: those of the blocks before the counter, and *)
(* what the task whose turn it is has written of its own.                  *)
WrittenOf(place) ==
  CASE place = "data" -> 1 [] place \in {"defer", "store"} -> 2 [] OTHER -> 0

ItemCount ==
  /\ Between => Len(obs) = IF initialized THEN 1 + 2 * blockID ELSE 0
  /\ InBatch /\ NoError =>
       /\ \A u \in TaskIDs : MyTurn(u) => Len(obs) = 1 + 2 * blockID + WrittenOf(pc[u])
       /\ blockID = firstID + Jobs => Len(obs) = 1 + 2 * blockID
  /\ ~failed /\ mainPc = "finish" => Len(obs) = 1 + 2 * NbBlocks(accepted)

(* What has been written is right. *)
Written == ~failed /\ NoError => OrderedPrefix

Placement == Position /\ Buffered /\ BatchInput /\ BatchBlocks /\ Turns /\ ItemCount

(* A task that is writing, or has written, is the one whose turn it is. *)
LEMMA HolderHasTurn ==
  ASSUME Shape, Placement, InBatch, NoError, NEW t \in TaskIDs,
         pc[t] \in {"size", "data", "defer", "store"}
  PROVE  t = blockID - firstID /\ MyTurn(t) /\ blockID \in Nat /\ firstID \in Nat
<1>1. blockID \in Nat /\ firstID \in Nat /\ t \in Nat
  BY ConstantTypes DEF Placement, Turns, BatchInput
<1>2. t = blockID - firstID
  BY <1>1 DEF Placement, Turns
<1> QED
  BY <1>1, <1>2 DEF MyTurn, CurrentBlockID

LEMMA InitPlacement == Init => Placement
<1> SUFFICES ASSUME Init PROVE Placement
  OBVIOUS
<1>1. 0 = 0 * Jobs /\ 0 = 0 * BlockSize + 0
  BY ConstantTypes
<1>2. Position
  BY <1>1 DEF Init, Position
<1>3. \A b \in TaskIDs : \A j \in 1 .. BlockSize : b * BlockSize + j > 0
  BY ConstantTypes, TimesOrder
<1>4. Buffered
  BY <1>3, ConstantTypes DEF Init, Buffered
<1> QED
  BY <1>2, <1>4 DEF Init, Placement, BatchInput, BatchBlocks, Turns, ItemCount, InBatch

LEMMA StutterPlacement ==
  ASSUME Placement, UNCHANGED vars
  PROVE  Placement'
<1> USE DEF vars, streamVars, obsVars, mainVars, taskVars, histVars
<1>1. Between' = Between /\ InBatch' = InBatch /\ NoError' = NoError
  BY DEF Between, InBatch, NoError
<1>2. Position' /\ Buffered' /\ BatchInput' /\ BatchBlocks' /\ Turns'
  BY <1>1 DEF Placement, Position, Buffered, BatchInput, BatchBlocks, Turns, Before, CurrentBlockID
<1>3. ItemCount'
  BY <1>1 DEF Placement, ItemCount, MyTurn, CurrentBlockID
<1> QED
  BY <1>2, <1>3 DEF Placement


-----------------------------------------------------------------------------
(* The steps of the caller's goroutine. *)

LEMMA ClientPlacement ==
  ASSUME Shape, Placement, Client
  PROVE  Placement'
<1>1. CASE Close /\ closed
  BY <1>1, StutterPlacement DEF Close
<1>2. CASE (\E n \in 1 .. MaxInput - accepted : Write(n)) \/ (Close /\ ~closed)
  <2>1. /\ mainPc = "idle" /\ ~closed /\ mainPc' \in {"fill", "process"}
        /\ UNCHANGED <<initialized, available, buffers, blockID, obs, obsClosed,
                       accepted, failed>>
    BY <1>2 DEF Write, Close, streamVars, obsVars
  <2>2. ~obsClosed
    BY <2>1 DEF Shape, CallShape
  <2>3. Between' => Between
    BY <2>1, <2>2 DEF Between
  <2>4. Position' /\ Buffered'
    BY <2>1, <2>3 DEF Placement, Position, Buffered
  <2>5. ItemCount'
    BY <2>1, <2>3 DEF Placement, ItemCount, InBatch
  <2> QED
    BY <2>1, <2>4, <2>5 DEF Placement, BatchInput, BatchBlocks, Turns, InBatch
<1> QED
  BY <1>1, <1>2 DEF Client

LEMMA FillPlacement ==
  ASSUME Shape, Placement, Fill
  PROVE  Placement'
<1>1. PICK bufID \in TaskIDs, bufOff \in 0 .. BlockSize - 1, n \in 1 .. BlockSize :
           /\ available = bufID * BlockSize + bufOff
           /\ n <= remaining /\ n <= BlockSize - bufOff
           /\ available' = available + n /\ available' <= Jobs * BlockSize
           /\ accepted' = accepted + n /\ remaining' = remaining - n
           /\ buffers' = [buffers EXCEPT ![bufID] =
                [j \in 1 .. BlockSize |->
                   IF j \in bufOff + 1 .. bufOff + n
                   THEN accepted + j - bufOff ELSE buffers[bufID][j]]]
           /\ mainPc' = "process" => available' = Jobs * BlockSize
  BY FillChunk DEF Shape
<1>2. /\ mainPc = "fill" /\ mainPc' \in {"process", "fill", "idle"}
      /\ UNCHANGED <<initialized, blockID, obs, obsClosed, failed>>
  BY DEF Fill, NextOfWrite, obsVars
<1>3. Between' => Between
  BY <1>2 DEF Between
<1>4. available \in Nat /\ accepted \in Nat
  BY DEF Shape, IInv, TypeOK, StreamTypes, CallerTypes
<1>5. Position'
  <2> SUFFICES ASSUME Between' PROVE Position!2'
    BY DEF Position
  <2>1. /\ blockID \in Nat /\ \E m \in Nat : blockID = m * Jobs
        /\ accepted = blockID * BlockSize + available
        /\ initialized \/ blockID = 0
    BY <1>3 DEF Placement, Position
  <2>2. blockID * BlockSize \in Nat
    BY <2>1, ConstantTypes
  <2>3. /\ n \in Nat /\ accepted' = accepted + n /\ available' = available + n
        /\ blockID' = blockID /\ initialized' = initialized
    BY <1>1, <1>2
  <2>4. accepted' = blockID * BlockSize + available'
    BY <1>4, <2>1, <2>2, <2>3
  <2> QED
    BY <2>1, <2>3, <2>4
<1>6. Buffered'
  <2> SUFFICES ASSUME Between', NEW b \in TaskIDs, NEW j \in 1 .. BlockSize,
                      b * BlockSize + j <= available'
               PROVE  buffers'[b][j] = (blockID' + b) * BlockSize + j
    BY DEF Buffered
  <2>1. /\ blockID \in Nat /\ blockID * BlockSize \in Nat /\ b * BlockSize \in Nat
        /\ bufID * BlockSize \in Nat
        /\ (blockID + b) * BlockSize = blockID * BlockSize + b * BlockSize
    BY <1>3, ConstantTypes, Distribute DEF Placement, Position
  <2>2. accepted = blockID * BlockSize + available
    BY <1>3 DEF Placement, Position
  <2>3. b * BlockSize + j <= available =>
          buffers[b][j] = (blockID + b) * BlockSize + j
    BY <1>3 DEF Placement, Buffered
  <2>4. buffers \in [TaskIDs -> [1 .. BlockSize -> Units]]
    BY DEF Shape, IInv, TypeOK, StreamTypes
  <2>5. b # bufID => buffers'[b][j] = buffers[b][j]
    BY <1>1, <2>4
  <2>6. b = bufID => buffers'[b][j] = IF j \in bufOff + 1 .. bufOff + n
                                      THEN accepted + j - bufOff ELSE buffers[b][j]
    BY <1>1, <2>4
  <2>7. CASE b = bufID /\ j > bufOff
    BY <1>1, <1>2, <1>4, <2>1, <2>2, <2>6, <2>7, ConstantTypes
  <2>8. CASE b = bufID /\ j <= bufOff
    BY <1>1, <1>2, <1>4, <2>1, <2>3, <2>6, <2>8, ConstantTypes
  <2>9. CASE b < bufID
    <3>1. (b + 1) * BlockSize <= bufID * BlockSize
          /\ (b + 1) * BlockSize = b * BlockSize + BlockSize
      BY <2>9, ConstantTypes, TimesOrder
    <3> QED
      BY <1>1, <1>2, <2>1, <2>3, <2>5, <2>9, <3>1, ConstantTypes
  <2>10. CASE b > bufID
    <3>1. (bufID + 1) * BlockSize <= b * BlockSize
          /\ (bufID + 1) * BlockSize = bufID * BlockSize + BlockSize
      BY <2>10, ConstantTypes, TimesOrder
    <3> QED
      BY <1>1, <2>1, <3>1, ConstantTypes
  <2> QED
    BY <2>7, <2>8, <2>9, <2>10, ConstantTypes
<1>7. ItemCount'
  BY <1>2, <1>3 DEF Placement, ItemCount, InBatch
<1> QED
  BY <1>2, <1>5, <1>6, <1>7 DEF Placement, BatchInput, BatchBlocks, Turns, InBatch

LEMMA ProcessBlockPlacement ==
  ASSUME EnoughTasks, Shape, Placement, ProcessBlock
  PROVE  Placement'
<1>1. /\ mainPc = "process" /\ mainPc' \in {"finish", "batch"}
      /\ UNCHANGED <<blockID, available, buffers, caller, accepted, failed, pc,
                     blockLen, encoded, err>>
      /\ initialized' = TRUE
  BY DEF ProcessBlock, taskVars, histVars
<1>2. ~obsClosed
  BY <1>1 DEF Shape, CallShape
<1>3. /\ InBatch' => Between
      /\ ~failed' => Between
      /\ ~Between'
  BY <1>1, <1>2 DEF InBatch, Between
<1>4. /\ available \in 0 .. Jobs * BlockSize /\ accepted \in 0 .. MaxInput
      /\ \A t \in TaskIDs : pc[t] = "none"
  BY <1>1, ConstantTypes DEF Shape, IInv, TypeOK, StreamTypes, CallerTypes, BatchShape
<1>5. InBatch' => /\ firstID' = blockID /\ spawned' = 0 /\ available > 0
                  /\ mainPc' = "batch"
  BY <1>1, <1>4 DEF ProcessBlock, NothingBuffered, InBatch
<1>6. Between => /\ blockID \in Nat /\ blockID * BlockSize \in Nat
                 /\ accepted = blockID * BlockSize + available
  BY ConstantTypes DEF Placement, Position
<1>7. BatchInput'
  <2> SUFFICES ASSUME InBatch' PROVE BatchInput!2'
    BY DEF BatchInput
  <2>1. firstID' = blockID /\ spawned' = 0 /\ available > 0
    BY <1>5
  <2>2. /\ blockID \in Nat /\ blockID * BlockSize \in Nat
        /\ accepted = blockID * BlockSize + available
        /\ \E m \in Nat : blockID = m * Jobs
    BY <1>3, <1>6 DEF Placement, Position
  <2>3. /\ Before(0)' = blockID * BlockSize
        /\ Before(spawned)' = blockID * BlockSize
        /\ Before(NbTasks)' = blockID * BlockSize + NbTasks * BlockSize
        /\ Before(Jobs)' = blockID * BlockSize + Jobs * BlockSize
        /\ NbTasks * BlockSize \in Nat /\ Jobs * BlockSize \in Nat
    BY <2>1, <2>2, ConstantTypes, NbTasksInRange, Distribute DEF Before
  <2>4. available <= NbTasks * BlockSize
    BY <1>4, <2>2, <2>3, ConstantTypes DEF EnoughTasks
  <2>5. caller = "write" => available = Jobs * BlockSize
    BY <1>1 DEF Shape, CallShape
  <2>6. available' = available /\ accepted' = accepted /\ caller' = caller
    BY <1>1
  <2>7. Before(0)' < accepted' /\ accepted' <= Before(NbTasks)'
    BY <1>4, <2>1, <2>2, <2>3, <2>4, <2>6
  <2>8. caller' = "write" => accepted' = Before(Jobs)'
    BY <1>4, <2>2, <2>3, <2>5, <2>6
  <2>9. available' = IF Before(spawned)' <= accepted' THEN accepted' - Before(spawned)' ELSE 0
    BY <1>4, <2>2, <2>3, <2>6
  <2> QED
    BY <2>1, <2>2, <2>7, <2>8, <2>9
<1>8. BatchBlocks'
  <2> SUFFICES ASSUME InBatch', NEW t \in TaskIDs, NEW j \in 1 .. BlockSize,
                      Before(t)' + j <= accepted'
               PROVE  buffers'[t][j] = Before(t)' + j
    BY <1>1, <1>4, <1>5, ConstantTypes DEF BatchBlocks
  <2>1. blockID \in Nat /\ Before(t)' = (blockID + t) * BlockSize /\ t * BlockSize \in Nat
        /\ (blockID + t) * BlockSize = blockID * BlockSize + t * BlockSize
        /\ blockID * BlockSize \in Nat
    BY <1>3, <1>5, <1>6, ConstantTypes, Distribute DEF Before
  <2>2. t * BlockSize + j <= available
    BY <1>1, <1>3, <1>4, <1>6, <2>1
  <2> QED
    BY <1>1, <1>3, <2>1, <2>2 DEF Placement, Buffered
<1>9. Turns'
  <2> SUFFICES ASSUME InBatch' PROVE Turns!2'
    BY DEF Turns
  <2>1. blockID' \in Nat /\ blockID' - firstID' = 0 /\ spawned' = 0
    BY <1>1, <1>3, <1>5, <1>6
  <2> QED
    BY <1>1, <1>4, <2>1, ConstantTypes
<1>10. ~failed => Len(obs') = 1 + 2 * blockID
  <2> SUFFICES ASSUME ~failed PROVE Len(obs') = 1 + 2 * blockID
    OBVIOUS
  <2>1. Between /\ obs \in Seq(Items) /\ blockID \in Nat
    BY <1>1, <1>3, <1>6 DEF Shape, IInv, TypeOK, StreamTypes
  <2>2. CASE initialized
    BY <2>1, <2>2 DEF ProcessBlock, Placement, ItemCount
  <2>3. CASE ~initialized
    <3>1. Len(obs) = 0 /\ blockID = 0
      BY <2>1, <2>3 DEF Placement, Position, ItemCount
    <3>2. obs' = Append(obs, Header)
      BY <2>3 DEF ProcessBlock
    <3>3. Len(obs') = Len(obs) + 1
      BY <2>1, <3>2, AppendIs, ItemTypes
    <3> QED
      BY <3>1, <3>3
  <2> QED
    BY <2>2, <2>3
<1>11. ItemCount'
  <2>1. ASSUME InBatch', NEW u \in TaskIDs
        PROVE  Len(obs') = 1 + 2 * blockID' + WrittenOf(pc'[u])
    BY <1>1, <1>3, <1>4, <1>6, <1>10, <2>1 DEF InBatch, WrittenOf
  <2>2. InBatch' => Len(obs') = 1 + 2 * blockID'
    BY <1>1, <1>10 DEF InBatch
  <2>3. ~failed' /\ mainPc' = "finish" => Len(obs') = 1 + 2 * NbBlocks(accepted')
    <3> SUFFICES ASSUME ~failed, mainPc' = "finish" PROVE NbBlocks(accepted) = blockID
      BY <1>1, <1>10
    <3>1. available = 0
      BY DEF ProcessBlock, NothingBuffered
    <3>2. accepted = blockID * BlockSize /\ blockID \in Nat
      BY <1>1, <1>3, <1>6, <3>1
    <3> QED
      BY <3>2, WholeBlocks
  <2> QED
    BY <1>3, <2>1, <2>2, <2>3 DEF ItemCount
<1> QED
  BY <1>3, <1>7, <1>8, <1>9, <1>11 DEF Placement, Position, Buffered


LEMMA SpawnPlacement ==
  ASSUME Shape, Placement, Spawn
  PROVE  Placement'
<1> DEFINE dataLength == MinOf(available, BlockSize)
<1>1. /\ mainPc = "batch" /\ mainPc' = "batch" /\ spawned < NbTasks
      /\ UNCHANGED <<initialized, buffers, blockID, obs, obsClosed, caller, firstID,
                     encoded, err, accepted, failed>>
      /\ available' = available - dataLength /\ dataLength > 0
      /\ blockLen' = [blockLen EXCEPT ![spawned] = dataLength]
      /\ pc' = [pc EXCEPT ![spawned] = "encode"]
      /\ spawned' = spawned + 1
  BY DEF Spawn, obsVars, histVars
<1>2. ~Between /\ ~Between' /\ (InBatch' => InBatch) /\ (NoError' => NoError)
  BY <1>1 DEF Between, InBatch, NoError
<1>3. spawned \in TaskIDs /\ available \in Nat /\ spawned \in Nat /\ accepted \in Nat
  BY <1>1, NbTasksInRange, ConstantTypes
     DEF Shape, IInv, TypeOK, StreamTypes, CallerTypes, TaskIDs
<1>4. /\ \A u \in TaskIDs : pc'[u] = IF u = spawned THEN "encode" ELSE pc[u]
      /\ \A u \in TaskIDs : blockLen'[u] = IF u = spawned THEN dataLength ELSE blockLen[u]
  BY <1>1 DEF Shape, IInv, TypeOK, TaskTypes
<1>5. pc[spawned] = "none"
  BY <1>3 DEF Shape, IInv, BatchShape
<1>6. InBatch => /\ firstID \in Nat /\ Before(spawned) \in Nat
                 /\ Before(spawned) < accepted /\ available = accepted - Before(spawned)
                 /\ Before(spawned + 1) = Before(spawned) + BlockSize
  <2> SUFFICES ASSUME InBatch
               PROVE  /\ firstID \in Nat /\ Before(spawned) \in Nat
                      /\ Before(spawned) < accepted /\ available = accepted - Before(spawned)
                      /\ Before(spawned + 1) = Before(spawned) + BlockSize
    OBVIOUS
  <2>1. firstID \in Nat
        /\ available = IF Before(spawned) <= accepted THEN accepted - Before(spawned) ELSE 0
    BY DEF Placement, BatchInput
  <2>2. Before(spawned) \in Nat
    BY <1>3, <2>1, ConstantTypes DEF Before
  <2>3. Before(spawned + 1) = Before(spawned) + BlockSize
    <3>1. firstID + (spawned + 1) = (firstID + spawned) + 1 /\ firstID + spawned \in Int
      BY <1>3, <2>1
    <3> QED
      BY <3>1, ConstantTypes, TimesOrder DEF Before
  <2>4. available > 0
    BY <1>1, <1>3, ConstantTypes DEF MinOf
  <2> QED
    BY <1>3, <2>1, <2>2, <2>3, <2>4
<1>7. BatchInput'
  <2> SUFFICES ASSUME InBatch' PROVE BatchInput!2'
    BY DEF BatchInput
  <2>1. /\ firstID \in Nat /\ \E m \in Nat : firstID = m * Jobs
        /\ Before(0) < accepted /\ accepted <= Before(NbTasks)
        /\ caller = "write" => accepted = Before(Jobs)
    BY <1>2 DEF Placement, BatchInput
  <2>2. /\ Before(0)' = Before(0) /\ Before(NbTasks)' = Before(NbTasks)
        /\ Before(Jobs)' = Before(Jobs) /\ Before(spawned)' = Before(spawned + 1)
    BY <1>1 DEF Before
  <2>3. available' = IF Before(spawned + 1) <= accepted THEN accepted - Before(spawned + 1) ELSE 0
    BY <1>1, <1>2, <1>3, <1>6, ConstantTypes DEF MinOf
  <2> QED
    BY <1>1, <2>1, <2>2, <2>3
<1>8. BatchBlocks'
  <2> SUFFICES ASSUME InBatch', NEW t \in TaskIDs
               PROVE  BatchBlocks!2!(t)'
    BY DEF BatchBlocks
  <2>1. BatchBlocks!2!(t)
    BY <1>2 DEF Placement, BatchBlocks
  <2>2. Before(t)' = Before(t) /\ CurrentBlockID(t)' = CurrentBlockID(t)
    BY <1>1 DEF Before, CurrentBlockID
  <2>3. ASSUME t < spawned'
        PROVE  Before(t)' < accepted' /\ blockLen'[t] = MinOf(BlockSize, accepted' - Before(t)')
    <3>1. CASE t = spawned
      <4>1. Before(t) = Before(spawned) /\ blockLen'[t] = dataLength
        BY <1>4, <3>1
      <4>2. /\ Before(spawned) \in Nat /\ Before(spawned) < accepted
            /\ available = accepted - Before(spawned)
        BY <1>2, <1>6
      <4>3. dataLength = MinOf(BlockSize, accepted - Before(spawned))
        BY <1>3, <4>2, ConstantTypes DEF MinOf
      <4> QED
        BY <1>1, <2>2, <4>1, <4>2, <4>3
    <3>2. CASE t < spawned
      BY <1>1, <1>4, <2>1, <2>2, <3>2, ConstantTypes
    <3> QED
      BY <1>1, <1>3, <2>3, <3>1, <3>2, ConstantTypes
  <2>4. ASSUME pc'[t] \in {"none", "encode"}, NEW j \in 1 .. BlockSize,
               Before(t)' + j <= accepted'
        PROVE  buffers'[t][j] = Before(t)' + j
    BY <1>1, <1>4, <1>5, <2>1, <2>2, <2>4
  <2>5. ASSUME pc'[t] \in {"turn", "size", "data"}
        PROVE  encoded'[t] = Block(CurrentBlockID(t)', accepted')
    BY <1>1, <1>4, <2>1, <2>2, <2>5
  <2> QED
    BY <2>3, <2>4, <2>5
<1>9. Turns'
  <2> SUFFICES ASSUME InBatch', NoError' PROVE Turns!2'
    BY DEF Turns
  <2>1. Turns!2 /\ firstID \in Nat
    BY <1>2, <1>6 DEF Placement, Turns
  <2>2. blockID' \in Nat /\ blockID' - firstID' \in 0 .. spawned'
    BY <1>1, <1>3, <2>1
  <2> QED
    BY <1>1, <1>4, <1>5, <2>1, <2>2
<1>10. ItemCount'
  <2> SUFFICES ASSUME InBatch', NoError', NEW u \in TaskIDs, MyTurn(u)'
               PROVE  Len(obs') = 1 + 2 * blockID' + WrittenOf(pc'[u])
    BY <1>1, <1>2 DEF Placement, ItemCount
  <2>1. MyTurn(u)
    BY <1>1 DEF MyTurn, CurrentBlockID
  <2>2. Len(obs) = 1 + 2 * blockID + WrittenOf(pc[u])
    BY <1>2, <2>1 DEF Placement, ItemCount
  <2>3. WrittenOf(pc'[u]) = WrittenOf(pc[u])
    BY <1>4, <1>5 DEF WrittenOf
  <2> QED
    BY <1>1, <2>2, <2>3
<1> QED
  BY <1>2, <1>7, <1>8, <1>9, <1>10 DEF Placement, Position, Buffered

(* When a batch ends without an error all of its input is written.         *)
LEMMA BatchDone ==
  ASSUME Shape, Placement, Join, InBatch, NoError
  PROVE  /\ blockID = firstID + spawned /\ blockID \in Nat
         /\ available = 0 /\ NbBlocks(accepted) = blockID
         /\ Len(obs) = 1 + 2 * blockID
         /\ caller = "write" => spawned = Jobs /\ accepted = blockID * BlockSize
         /\ \E m \in Nat : firstID = m * Jobs
<1>1. /\ spawned = NbTasks \/ available = 0
      /\ \A t \in TaskIDs : t < spawned => pc[t] = "done"
  BY DEF Join
<1>2. BatchInput!2 /\ Turns!2
  BY DEF Placement, BatchInput, Turns
<1>3. spawned \in 0 .. Jobs /\ accepted \in Nat /\ spawned \in Nat
  BY ConstantTypes DEF Shape, IInv, TypeOK, CallerTypes
<1>4. blockID = firstID + spawned /\ blockID \in Nat /\ firstID \in Nat
  <2>1. ASSUME blockID - firstID < spawned PROVE FALSE
    <3>1. blockID - firstID \in TaskIDs
      BY <1>2, <1>3, <2>1, ConstantTypes DEF TaskIDs
    <3> QED
      BY <1>1, <1>2, <2>1, <3>1
  <2> QED
    BY <1>2, <1>3, <2>1
<1>5. /\ Before(spawned) = blockID * BlockSize /\ Before(spawned) \in Nat
      /\ Before(0) = firstID * BlockSize /\ Before(0) \in Nat
      /\ Before(Jobs) = (firstID + Jobs) * BlockSize
  BY <1>3, <1>4, ConstantTypes DEF Before
<1>6. accepted <= Before(spawned) /\ available = 0
  <2>1. CASE spawned = NbTasks
    BY <1>2, <1>3, <1>5, <2>1
  <2>2. CASE available = 0
    BY <1>2, <1>3, <1>5, <2>2
  <2> QED
    BY <1>1, <2>1, <2>2
<1>7. spawned > 0
  BY <1>2, <1>3, <1>5, <1>6
<1>8. (blockID - 1) * BlockSize < accepted
  <2>1. spawned - 1 \in TaskIDs /\ spawned - 1 < spawned
    BY <1>3, <1>7, ConstantTypes DEF TaskIDs
  <2>2. Before(spawned - 1) < accepted
    BY <2>1 DEF Placement, BatchBlocks
  <2>3. firstID + (spawned - 1) = blockID - 1
    BY <1>3, <1>4
  <2> QED
    BY <2>2, <2>3 DEF Before
<1>9. NbBlocks(accepted) = blockID
  BY <1>3, <1>4, <1>5, <1>6, <1>8, BlocksAre
<1>10. ASSUME caller = "write" PROVE spawned = Jobs /\ accepted = blockID * BlockSize
  <2>1. (firstID + Jobs) * BlockSize <= blockID * BlockSize
    BY <1>2, <1>5, <1>6, <1>10
  <2>2. firstID + Jobs <= blockID
    BY <1>4, <2>1, ConstantTypes, TimesOrder
  <2>3. spawned = Jobs
    BY <1>3, <1>4, <2>2, ConstantTypes
  <2> QED
    BY <1>2, <1>4, <1>5, <1>10, <2>3
<1>11. Len(obs) = 1 + 2 * blockID
  <2>1. CASE spawned = Jobs
    BY <1>4, <2>1 DEF Placement, ItemCount
  <2>2. CASE spawned # Jobs
    <3>1. spawned \in TaskIDs /\ MyTurn(spawned)
      BY <1>3, <1>4, <2>2, ConstantTypes DEF TaskIDs, MyTurn, CurrentBlockID
    <3>2. pc[spawned] = "none"
      BY <1>3, <3>1 DEF Shape, IInv, BatchShape
    <3>3. Len(obs) = 1 + 2 * blockID + WrittenOf(pc[spawned])
      BY <3>1 DEF Placement, ItemCount
    <3> QED
      BY <1>4, <3>2, <3>3 DEF WrittenOf
  <2> QED
    BY <2>1, <2>2
<1> QED
  BY <1>2, <1>4, <1>6, <1>9, <1>10, <1>11

LEMMA JoinPlacement ==
  ASSUME Shape, Placement, Join
  PROVE  Placement'
<1>1. CASE failed'
  BY <1>1 DEF Placement, Position, Buffered, BatchInput, BatchBlocks, Turns, ItemCount,
              Between, InBatch
<1>2. CASE ~failed'
  <2>1. NoError /\ ~failed /\ mainPc = "batch" /\ InBatch
    BY <1>2 DEF Join, NoError, InBatch
  <2>2. /\ UNCHANGED <<initialized, available, buffers, blockID, obs, obsClosed, accepted>>
        /\ mainPc' \in {"idle", "fill", "finish"}
        /\ caller # "close" => caller = "write" /\ mainPc' # "finish"
        /\ caller = "close" => mainPc' = "finish"
    BY <2>1 DEF Join, NoError, NextOfWrite, streamVars, obsVars
  <2>3. /\ blockID = firstID + spawned /\ blockID \in Nat
        /\ available = 0 /\ NbBlocks(accepted) = blockID
        /\ Len(obs) = 1 + 2 * blockID
        /\ caller = "write" => spawned = Jobs /\ accepted = blockID * BlockSize
    BY <2>1, BatchDone
  <2>4. initialized
    BY <2>1 DEF Shape, CallShape
  <2>5. ASSUME Between' PROVE Position!2'
    <3>1. caller = "write"
      BY <2>2, <2>5 DEF Between
    <3>2. PICK m \in Nat : firstID = m * Jobs
      BY <2>1, BatchDone
    <3>3. blockID = (m + 1) * Jobs
      BY <2>3, <3>1, <3>2, ConstantTypes, TimesOrder
    <3>4. blockID' \in Nat /\ \E k \in Nat : blockID' = k * Jobs
      BY <2>2, <2>3, <3>3
    <3>5. blockID * BlockSize \in Nat
      BY <2>3, ConstantTypes
    <3>6. accepted' = blockID' * BlockSize + available'
      BY <2>2, <2>3, <3>1, <3>5
    <3> QED
      BY <2>2, <2>4, <3>4, <3>6
  <2>6. \A b \in TaskIDs : \A j \in 1 .. BlockSize : ~(b * BlockSize + j <= available')
    BY <2>2, <2>3, ConstantTypes, TimesOrder
  <2>7. Position' /\ Buffered'
    BY <2>5, <2>6 DEF Position, Buffered
  <2>8. ItemCount'
    <3>1. Len(obs') = 1 + 2 * blockID' /\ Len(obs') = 1 + 2 * NbBlocks(accepted')
      BY <2>2, <2>3
    <3> QED
      BY <2>2, <2>4, <3>1 DEF ItemCount, InBatch
  <2> QED
    BY <2>2, <2>7, <2>8 DEF Placement, BatchInput, BatchBlocks, Turns, InBatch
<1> QED
  BY <1>1, <1>2

LEMMA FinishPlacement ==
  ASSUME Finish
  PROVE  Placement'
<1>1. failed' \/ obsClosed' \/ mainPc' = "panic"
  BY DEF Finish
<1>2. mainPc' \in {"idle", "panic"}
  BY DEF Finish
<1> QED
  BY <1>1, <1>2 DEF Placement, Position, Buffered, BatchInput, BatchBlocks, Turns,
                    ItemCount, Between, InBatch


-----------------------------------------------------------------------------
(* The steps of the encoding tasks. *)

(* What a task encodes is its block: the buffer is full up to blockLen.    *)
LEMMA EncodedIsBlock ==
  ASSUME Shape, Placement, InBatch, NEW t \in TaskIDs, pc[t] = "encode"
  PROVE  EncodedBlock(t) = Block(CurrentBlockID(t), accepted)
<1> DEFINE len == MinOf(BlockSize, accepted - Before(t))
<1>1. t < spawned
  BY DEF Shape, IInv, BatchShape
<1>2. /\ Before(t) < accepted /\ blockLen[t] = len
      /\ \A j \in 1 .. BlockSize : Before(t) + j <= accepted => buffers[t][j] = Before(t) + j
  BY <1>1 DEF Placement, BatchBlocks
<1>3. firstID \in Nat /\ Before(t) \in Nat /\ accepted \in Nat
  BY ConstantTypes DEF Placement, BatchInput, Before, Shape, IInv, TypeOK, CallerTypes
<1>4. len \in 1 .. BlockSize /\ Before(t) + len <= accepted
  BY <1>2, <1>3, ConstantTypes DEF MinOf
<1>5. Block(CurrentBlockID(t), accepted) = [j \in 1 .. len |-> Before(t) + j]
  <2>1. CurrentBlockID(t) - 1 = firstID + t
    BY <1>3, ConstantTypes DEF CurrentBlockID
  <2> QED
    BY <2>1 DEF Block, Before
<1>6. EncodedBlock(t) = [j \in 1 .. len |-> buffers[t][j]]
  <2>1. buffers[t] \in [1 .. BlockSize -> Units]
    BY DEF Shape, IInv, TypeOK, StreamTypes
  <2>2. EncodedBlock(t) = SubSeq(buffers[t], 1, len)
    BY <1>2 DEF EncodedBlock
  <2> HIDE DEF len
  <2> QED
    BY <1>4, <2>1, <2>2, PrefixOf, ConstantTypes
<1> HIDE DEF len
<1>7. \A j \in 1 .. len : buffers[t][j] = Before(t) + j
  <2> SUFFICES ASSUME NEW j \in 1 .. len PROVE buffers[t][j] = Before(t) + j
    OBVIOUS
  <2>1. j \in 1 .. BlockSize /\ Before(t) + j <= accepted
    BY <1>3, <1>4, ConstantTypes
  <2> QED
    BY <1>2, <2>1
<1> QED
  BY <1>5, <1>6, <1>7

(* What every step of a task leaves alone. *)
LEMMA TaskInput ==
  ASSUME Shape, Placement, NEW t \in TaskIDs, TaskStep(t)
  PROVE  /\ ~Between' /\ InBatch' = InBatch /\ (NoError' => NoError)
         /\ UNCHANGED <<firstID, accepted, spawned, blockLen>>
         /\ BatchInput'
<1>1. mainPc = "batch" /\ UNCHANGED <<available, obsClosed, mainVars, histVars, blockLen>>
  BY TaskStepFrame DEF Shape
<1>2. ~Between' /\ InBatch' = InBatch
  BY <1>1 DEF Between, InBatch, mainVars, histVars
<1>3. NoError' => NoError
  BY TaskStepErr DEF Shape
<1>4. BatchInput'
  BY <1>1, <1>2 DEF Placement, BatchInput, Before, mainVars, histVars
<1> QED
  BY <1>1, <1>2, <1>3, <1>4 DEF mainVars, histVars

LEMMA TaskBlocks ==
  ASSUME Shape, Placement, NEW t \in TaskIDs, TaskStep(t)
  PROVE  BatchBlocks'
<1>1. /\ InBatch' = InBatch /\ UNCHANGED <<firstID, accepted, spawned, blockLen>>
  BY TaskInput
<1>2. PICK to \in {"turn", "size", "data", "defer", "store", "cancel", "done"} :
        /\ pc' = [pc EXCEPT ![t] = to]
        /\ to = "turn" => pc[t] = "encode" /\ encoded' = [encoded EXCEPT ![t] = EncodedBlock(t)]
        /\ to \in {"size", "data"} => pc[t] \in {"turn", "size"} /\ encoded' = encoded
        /\ to # "turn" => encoded' = encoded
        /\ buffers' = buffers \/ buffers' = [buffers EXCEPT ![t] = EmptyBuffer]
  BY DEF TaskStep, Encode, AwaitTurn, EmitSize, EmitData, CheckTurn, StoreTurn, Cancel,
         Fail, streamVars
<1>3. \A u \in TaskIDs : pc'[u] = IF u = t THEN to ELSE pc[u]
  BY <1>2 DEF Shape, IInv, TypeOK, TaskTypes
<1>4. \A u \in TaskIDs : u # t => encoded'[u] = encoded[u] /\ buffers'[u] = buffers[u]
  BY <1>2 DEF Shape, IInv, TypeOK, StreamTypes, TaskTypes
<1> SUFFICES ASSUME InBatch, NEW u \in TaskIDs PROVE BatchBlocks!2!(u)'
  BY <1>1 DEF BatchBlocks
<1>5. BatchBlocks!2!(u)
  BY DEF Placement, BatchBlocks
<1>6. Before(u)' = Before(u) /\ CurrentBlockID(u)' = CurrentBlockID(u)
  BY <1>1 DEF Before, CurrentBlockID
<1>7. CASE u # t
  BY <1>1, <1>3, <1>4, <1>5, <1>6, <1>7
<1>8. CASE u = t
  <2>1. pc'[u] = to
    BY <1>3, <1>8
  <2>2. CASE to = "turn"
    <3>1. encoded'[t] = EncodedBlock(t)
      BY <1>2, <2>2 DEF Shape, IInv, TypeOK, TaskTypes
    <3>2. EncodedBlock(t) = Block(CurrentBlockID(t), accepted)
      BY <1>2, <2>2, EncodedIsBlock
    <3> QED
      BY <1>1, <1>5, <1>6, <1>8, <2>1, <2>2, <3>1, <3>2
  <2>3. CASE to \in {"size", "data"}
    BY <1>1, <1>2, <1>5, <1>6, <1>8, <2>1, <2>3
  <2>4. CASE to \in {"defer", "store", "cancel", "done"}
    BY <1>1, <1>5, <1>6, <2>1, <2>4
  <2> QED
    BY <1>2, <2>2, <2>3, <2>4
<1> QED
  BY <1>7, <1>8


(* A step before the turn of a task, or in its turn, that leaves the       *)
(* counter alone.                                                          *)
LEMMA TurnKept ==
  ASSUME Shape, Placement, InBatch, NoError, NEW t \in TaskIDs, TaskStep(t),
         NEW to, pc' = [pc EXCEPT ![t] = to], UNCHANGED blockID,
         \/ pc[t] = "encode" /\ to = "turn"
         \/ MyTurn(t) /\ pc[t] # "done" /\ to \in {"size", "data", "defer", "store"},
         Len(obs') = Len(obs) + WrittenOf(to) - WrittenOf(pc[t])
  PROVE  Turns' /\ ItemCount'
<1>1. ~Between' /\ InBatch' /\ UNCHANGED <<firstID, accepted, spawned>> /\ mainPc' = "batch"
  BY TaskInput, TaskStepFrame DEF Shape, mainVars
<1>2. \A u \in TaskIDs : pc'[u] = IF u = t THEN to ELSE pc[u]
  BY DEF Shape, IInv, TypeOK, TaskTypes
<1>3. Turns!2 /\ firstID \in Nat /\ blockID \in Nat
  BY DEF Placement, Turns, BatchInput
<1>4. \A u \in TaskIDs : (MyTurn(u) <=> u = blockID - firstID) /\ MyTurn(u)' = MyTurn(u)
  BY <1>1, <1>3, ConstantTypes DEF MyTurn, CurrentBlockID
<1>5. Turns'
  <2>1. Turns!2'
    BY <1>1, <1>2, <1>3, <1>4, ConstantTypes
  <2> QED
    BY <2>1 DEF Turns
<1>6. ASSUME NEW u \in TaskIDs, MyTurn(u)
      PROVE  Len(obs') = 1 + 2 * blockID' + WrittenOf(pc'[u])
  <2>1. Len(obs) = 1 + 2 * blockID + WrittenOf(pc[u])
    BY <1>6 DEF Placement, ItemCount
  <2>2. WrittenOf(pc[u]) \in Nat /\ WrittenOf(to) \in Nat
    BY DEF WrittenOf
  <2>3. CASE u = t
    BY <1>2, <1>3, <2>1, <2>2, <2>3
  <2>4. CASE u # t
    <3>1. pc[t] = "encode" /\ to = "turn"
      BY <1>3, <1>4, <1>6, <2>4, ConstantTypes
    <3>2. WrittenOf(pc[t]) = 0 /\ WrittenOf(to) = 0
      BY <3>1 DEF WrittenOf
    <3> QED
      BY <1>2, <1>3, <2>1, <2>2, <2>4, <3>2
  <2> QED
    BY <2>3, <2>4
<1>7. ASSUME blockID' = firstID' + Jobs PROVE Len(obs') = 1 + 2 * blockID'
  <2>1. ~MyTurn(t) /\ pc[t] = "encode" /\ to = "turn"
    BY <1>1, <1>3, <1>4, <1>7, ConstantTypes DEF TaskIDs
  <2>2. WrittenOf(pc[t]) = 0 /\ WrittenOf(to) = 0
    BY <2>1 DEF WrittenOf
  <2>3. Len(obs) = 1 + 2 * blockID
    BY <1>1, <1>7 DEF Placement, ItemCount
  <2> QED
    BY <1>3, <2>2, <2>3
<1>8. ItemCount'
  BY <1>1, <1>4, <1>6, <1>7 DEF ItemCount
<1> QED
  BY <1>5, <1>8

(* The turn is passed on: the next task, if any, has not written yet.      *)
LEMMA TurnPassed ==
  ASSUME Shape, Placement, InBatch, NoError, NEW t \in TaskIDs, StoreTurn(t)
  PROVE  Turns' /\ ItemCount'
<1>1. ~Between' /\ InBatch' /\ UNCHANGED <<firstID, accepted, spawned>> /\ mainPc' = "batch"
  BY TaskInput, TaskStepFrame DEF Shape, mainVars, TaskStep
<1>2. /\ pc[t] = "store" /\ blockID' = CurrentBlockID(t) /\ obs' = obs
      /\ pc' = [pc EXCEPT ![t] = "done"]
  BY DEF StoreTurn, obsVars
<1>3. \A u \in TaskIDs : pc'[u] = IF u = t THEN "done" ELSE pc[u]
  BY <1>2 DEF Shape, IInv, TypeOK, TaskTypes
<1>4. Turns!2 /\ firstID \in Nat /\ blockID \in Nat
  BY DEF Placement, Turns, BatchInput
<1>5. t = blockID - firstID /\ MyTurn(t) /\ t \in Nat
  BY <1>2, HolderHasTurn, ConstantTypes
<1>6. blockID' = blockID + 1 /\ blockID' - firstID' = t + 1 /\ blockID' \in Nat
  BY <1>1, <1>2, <1>4, <1>5 DEF CurrentBlockID
<1>7. t + 1 \in 0 .. spawned'
  <2>1. t < spawned /\ spawned \in Nat
    BY <1>2, ConstantTypes DEF Shape, IInv, BatchShape, TypeOK, CallerTypes
  <2> QED
    BY <1>1, <1>5, <2>1
<1>8. Turns'
  <2>1. Turns!2'
    BY <1>1, <1>3, <1>4, <1>5, <1>6, <1>7, ConstantTypes
  <2> QED
    BY <2>1 DEF Turns
<1>9. Len(obs') = 1 + 2 * blockID'
  <2>1. Len(obs) = 1 + 2 * blockID + WrittenOf(pc[t]) /\ WrittenOf(pc[t]) = 2
    BY <1>2, <1>5 DEF Placement, ItemCount, WrittenOf
  <2> QED
    BY <1>2, <1>4, <1>6, <2>1
<1>10. ASSUME NEW u \in TaskIDs, MyTurn(u)' PROVE WrittenOf(pc'[u]) = 0
  <2>1. u = t + 1 /\ u # t /\ u > blockID - firstID
    BY <1>1, <1>4, <1>5, <1>6, <1>10, ConstantTypes DEF MyTurn, CurrentBlockID
  <2>2. pc'[u] \in {"none", "encode", "turn"}
    BY <1>3, <1>4, <2>1
  <2> QED
    BY <2>2 DEF WrittenOf
<1>11. ItemCount'
  BY <1>1, <1>6, <1>9, <1>10 DEF ItemCount
<1> QED
  BY <1>8, <1>11

LEMMA TaskTurns ==
  ASSUME Shape, Placement, NEW t \in TaskIDs, TaskStep(t)
  PROVE  Turns' /\ ItemCount'
<1>1. ~Between' /\ (InBatch' => InBatch) /\ (NoError' => NoError)
  BY TaskInput
<1>2. mainPc' = "batch"
  BY TaskStepFrame DEF Shape, mainVars
<1>3. CASE ~(InBatch' /\ NoError')
  BY <1>1, <1>2, <1>3 DEF Turns, ItemCount
<1>4. CASE InBatch' /\ NoError'
  <2> USE <1>1, <1>4
  <2>1. ~err[t] /\ ~err'[t] /\ blockID \in Nat /\ obs \in Seq(Items)
    BY DEF NoError, Placement, Turns, Shape, IInv, TypeOK, StreamTypes
  <2>2. ~Fail(t)
    BY <2>1 DEF Fail, Shape, IInv, TypeOK, TaskTypes
  <2>3. CASE Encode(t)
    <3>1. /\ pc[t] = "encode" /\ pc' = [pc EXCEPT ![t] = "turn"]
          /\ UNCHANGED <<blockID, obs>>
      BY <2>2, <2>3 DEF Encode, obsVars
    <3>2. Len(obs') = Len(obs) + WrittenOf("turn") - WrittenOf(pc[t])
      BY <2>1, <3>1 DEF WrittenOf
    <3> QED
      BY <3>1, <3>2, TurnKept
  <2>4. CASE AwaitTurn(t)
    <3>1. /\ pc[t] = "turn" /\ MyTurn(t) /\ pc' = [pc EXCEPT ![t] = "size"]
          /\ UNCHANGED <<blockID, obs>>
      BY <2>1, <2>4 DEF AwaitTurn, obsVars, CancelTasks
    <3>2. Len(obs') = Len(obs) + WrittenOf("size") - WrittenOf(pc[t])
      BY <2>1, <3>1 DEF WrittenOf
    <3> QED
      BY <3>1, <3>2, TurnKept
  <2>5. CASE EmitSize(t)
    <3>1. /\ pc[t] = "size" /\ pc' = [pc EXCEPT ![t] = "data"]
          /\ obs' = Append(obs, Size(CurrentBlockID(t))) /\ UNCHANGED blockID
      BY <2>2, <2>5 DEF EmitSize
    <3>2. MyTurn(t)
      BY <3>1, HolderHasTurn
    <3>3. Len(obs') = Len(obs) + 1
      BY <2>1, <3>1, AppendIs, ItemTypes, CurrentBlockIDType DEF Shape
    <3>4. Len(obs') = Len(obs) + WrittenOf("data") - WrittenOf(pc[t])
      BY <2>1, <3>1, <3>3 DEF WrittenOf
    <3> QED
      BY <3>1, <3>2, <3>4, TurnKept
  <2>6. CASE EmitData(t)
    <3>1. /\ pc[t] = "data" /\ pc' = [pc EXCEPT ![t] = "defer"]
          /\ obs' = Append(obs, Data(CurrentBlockID(t), encoded[t])) /\ UNCHANGED blockID
      BY <2>2, <2>6 DEF EmitData
    <3>2. MyTurn(t)
      BY <3>1, HolderHasTurn
    <3>3. Data(CurrentBlockID(t), encoded[t]) \in Items
      BY ItemTypes, CurrentBlockIDType DEF Shape, IInv, TypeOK, TaskTypes
    <3>4. Len(obs') = Len(obs) + 1
      BY <2>1, <3>1, <3>3, AppendIs
    <3>5. Len(obs') = Len(obs) + WrittenOf("defer") - WrittenOf(pc[t])
      BY <2>1, <3>1, <3>4 DEF WrittenOf
    <3> QED
      BY <3>1, <3>2, <3>5, TurnKept
  <2>7. CASE CheckTurn(t)
    <3>1. pc[t] = "defer" /\ UNCHANGED <<blockID, obs>>
      BY <2>7 DEF CheckTurn, obsVars
    <3>2. MyTurn(t)
      BY <3>1, HolderHasTurn
    <3>3. pc' = [pc EXCEPT ![t] = "store"]
      BY <2>7, <3>2 DEF CheckTurn
    <3>4. Len(obs') = Len(obs) + WrittenOf("store") - WrittenOf(pc[t])
      BY <2>1, <3>1 DEF WrittenOf
    <3> QED
      BY <3>1, <3>2, <3>3, <3>4, TurnKept
  <2>8. CASE StoreTurn(t)
    BY <2>8, TurnPassed
  <2>9. CASE Cancel(t)
    BY <2>1, <2>9 DEF Cancel, Shape, ErrShape
  <2> QED
    BY <2>3, <2>4, <2>5, <2>6, <2>7, <2>8, <2>9 DEF TaskStep
<1> QED
  BY <1>3, <1>4

LEMMA NextPlacement ==
  ASSUME EnoughTasks, Shape, Placement, [Next]_vars
  PROVE  Placement'
<1>1. ASSUME NEW t \in TaskIDs, TaskStep(t) PROVE Placement'
  BY <1>1, TaskInput, TaskBlocks, TaskTurns DEF Placement, Position, Buffered
<1>2. CASE MainStep
  BY <1>2, FillPlacement, ProcessBlockPlacement, SpawnPlacement, JoinPlacement,
     FinishPlacement DEF MainStep
<1> QED
  BY <1>1, <1>2, ClientPlacement, StutterPlacement DEF Next


-----------------------------------------------------------------------------
(* What is on the bitstream. *)

(* Without an end mark OrderedPrefix speaks of all the items. *)
LEMMA OpenPrefix ==
  ASSUME Shape, NoEnd
  PROVE  OrderedPrefix <=>
           \A i \in 1 .. Len(obs) : i \in DOMAIN StreamOf(accepted)
                                    /\ obs[i] = StreamOf(accepted)[i]
<1>1. obs \in Seq(Items)
  BY DEF Shape, IInv, TypeOK, StreamTypes
<1>2. obs # <<>> => obs[Len(obs)].kind # "end"
  <2>1. obs # <<>> => Len(obs) \in 1 .. Len(obs)
    BY <1>1
  <2> QED
    BY <2>1 DEF NoEnd
<1>3. Len(obs) - 0 = Len(obs)
  BY <1>1
<1> QED
  BY <1>2, <1>3 DEF OrderedPrefix

(* An item that comes next in the stream of the input may be written. *)
LEMMA NextItem ==
  ASSUME Shape, NoEnd, OrderedPrefix, NEW x \in Items, x.kind # "end",
         obs' = Append(obs, x), accepted' = accepted,
         Len(obs) + 1 \in DOMAIN StreamOf(accepted),
         StreamOf(accepted)[Len(obs) + 1] = x
  PROVE  OrderedPrefix'
<1>1. obs \in Seq(Items)
  BY DEF Shape, IInv, TypeOK, StreamTypes
<1>2. /\ Len(obs') = Len(obs) + 1 /\ obs'[Len(obs) + 1] = x /\ Len(obs) \in Nat
      /\ \A i \in 1 .. Len(obs) : obs'[i] = obs[i]
  BY <1>1, AppendIs
<1>3. \A i \in 1 .. Len(obs) : i \in DOMAIN StreamOf(accepted)
                               /\ obs[i] = StreamOf(accepted)[i]
  BY OpenPrefix
<1>4. \A i \in 1 .. Len(obs') : i \in DOMAIN StreamOf(accepted')
                                /\ obs'[i] = StreamOf(accepted')[i]
  BY <1>2, <1>3
<1>5. obs'[Len(obs')].kind # "end" /\ Len(obs') - 0 = Len(obs')
  BY <1>2
<1> QED
  BY <1>4, <1>5 DEF OrderedPrefix

(* The end mark closes the stream of the input; before the end mark a torn *)
(* end is not counted.                                                     *)
LEMMA LastItem ==
  ASSUME Shape, NoEnd, OrderedPrefix, obs' = Append(obs, EndMark), accepted' = accepted
  PROVE  /\ OrderedPrefix'
         /\ Len(obs) = 1 + 2 * NbBlocks(accepted) => obs' = StreamOf(accepted')
<1>1. obs \in Seq(Items)
  BY DEF Shape, IInv, TypeOK, StreamTypes
<1>2. /\ Len(obs') = Len(obs) + 1 /\ obs'[Len(obs) + 1] = EndMark /\ Len(obs) \in Nat
      /\ \A i \in 1 .. Len(obs) : obs'[i] = obs[i]
      /\ obs' \in Seq(Items)
  BY <1>1, AppendIs, ItemTypes
<1>3. \A i \in 1 .. Len(obs) : i \in DOMAIN StreamOf(accepted)
                               /\ obs[i] = StreamOf(accepted)[i]
  BY OpenPrefix
<1>4. OrderedPrefix'
  <2>1. obs'[Len(obs')].kind = "end" /\ obs' # <<>>
    BY <1>2, ItemKinds
  <2>2. Len(obs') - 1 = Len(obs)
    BY <1>2
  <2>3. \A i \in 1 .. Len(obs) : i \in DOMAIN StreamOf(accepted')
                                 /\ obs'[i] = StreamOf(accepted')[i]
    BY <1>2, <1>3
  <2> QED
    BY <2>1, <2>2, <2>3 DEF OrderedPrefix
<1>5. ASSUME Len(obs) = 1 + 2 * NbBlocks(accepted) PROVE obs' = StreamOf(accepted)
  <2> DEFINE len == 2 * NbBlocks(accepted) + 2
  <2>1. /\ accepted \in Nat /\ NbBlocks(accepted) \in Nat
    BY BlocksOf DEF Shape, IInv, TypeOK, CallerTypes
  <2>2. Len(obs') = len /\ Len(obs) + 1 = len /\ len \in Nat
    BY <1>2, <1>5, <2>1
  <2>3. StreamOf(accepted)[len] = EndMark /\ DOMAIN StreamOf(accepted) = 1 .. len
    BY <2>1, StreamItems
  <2>4. obs' = [i \in 1 .. len |-> obs'[i]]
    <3>1. obs' = [i \in 1 .. Len(obs') |-> obs'[i]]
      BY <1>2, SeqIsFunction
    <3> QED
      BY <2>2, <3>1
  <2>5. StreamOf(accepted) = [i \in 1 .. len |-> StreamOf(accepted)[i]]
    BY DEF StreamOf
  <2> HIDE DEF len
  <2>6. \A i \in 1 .. len : obs'[i] = StreamOf(accepted)[i]
    BY <1>2, <1>3, <2>2, <2>3
  <2> QED
    BY <2>4, <2>5, <2>6
<1> QED
  BY <1>4, <1>5

(* More input does not change what has been written of the input so far.  *)
LEMMA PrefixGrows ==
  ASSUME Shape, NoEnd, OrderedPrefix, obs' = obs, accepted' \in Nat, accepted <= accepted',
         NEW b \in Nat, b * BlockSize <= accepted, Len(obs) <= 1 + 2 * b
  PROVE  OrderedPrefix'
<1>1. obs \in Seq(Items) /\ accepted \in Nat
  BY DEF Shape, IInv, TypeOK, StreamTypes, CallerTypes
<1>2. \A i \in 1 .. Len(obs) : i \in DOMAIN StreamOf(accepted)
                               /\ obs[i] = StreamOf(accepted)[i]
  BY OpenPrefix
<1>3. ASSUME NEW i \in 1 .. Len(obs)
      PROVE  i \in DOMAIN StreamOf(accepted') /\ obs[i] = StreamOf(accepted')[i]
  <2>1. i \in 1 .. 1 + 2 * b
    BY <1>1
  <2> QED
    BY <1>1, <1>2, <2>1, StreamGrows
<1>4. obs # <<>> => obs[Len(obs)].kind # "end"
  <2>1. obs # <<>> => Len(obs) \in 1 .. Len(obs)
    BY <1>1
  <2> QED
    BY <2>1 DEF NoEnd
<1>5. Len(obs) - 0 = Len(obs)
  BY <1>1
<1> QED
  BY <1>3, <1>4, <1>5 DEF OrderedPrefix

(* The items a task writes in its turn are the next ones of the stream. *)
LEMMA TaskWrites ==
  ASSUME Shape, Placement, InBatch, NoError, OrderedPrefix, NEW t \in TaskIDs,
         EmitSize(t) \/ EmitData(t)
  PROVE  OrderedPrefix'
<1>1. CASE obs' = obs
  <2>1. accepted' = accepted
    BY DEF EmitSize, EmitData, histVars
  <2> QED
    BY <1>1, <2>1 DEF OrderedPrefix
<1>2. CASE obs' # obs
  <2> DEFINE id == CurrentBlockID(t)
  <2>1. /\ pc[t] \in {"size", "data"} /\ accepted' = accepted
        /\ pc[t] = "size" => obs' = Append(obs, Size(id))
        /\ pc[t] = "data" => obs' = Append(obs, Data(id, encoded[t]))
    BY <1>2 DEF EmitSize, EmitData, histVars
  <2>2. MyTurn(t) /\ blockID \in Nat /\ firstID \in Nat /\ t \in Nat /\ t < spawned
    BY <2>1, HolderHasTurn, ConstantTypes DEF Shape, IInv, BatchShape
  <2>3. id = blockID + 1 /\ (id - 1) = firstID + t /\ id \in Nat \ {0}
    BY <2>2 DEF MyTurn, CurrentBlockID
  <2>4. accepted \in Nat /\ NbBlocks(accepted) \in Nat
    BY BlocksOf DEF Shape, IInv, TypeOK, CallerTypes
  <2>5. id \in 1 .. NbBlocks(accepted)
    <3>1. (id - 1) * BlockSize < accepted
      BY <2>2, <2>3 DEF Placement, BatchBlocks, Before
    <3>2. id <= NbBlocks(accepted)
      BY <2>3, <2>4, <3>1, BlocksOf
    <3> QED
      BY <2>3, <2>4, <3>2
  <2>6. Len(obs) = 1 + 2 * blockID + WrittenOf(pc[t])
    BY <2>2 DEF Placement, ItemCount
  <2>7. NoEnd
    BY <2>1 DEF Shape, EndShape, IInv, BatchShape
  <2>8. /\ Size(id) \in Items /\ Size(id).kind # "end"
        /\ Data(id, encoded[t]) \in Items /\ Data(id, encoded[t]).kind # "end"
    BY <2>3, ItemTypes, ItemKinds DEF Shape, IInv, TypeOK, TaskTypes
  <2> HIDE DEF id
  <2>9. CASE pc[t] = "size"
    <3>1. Len(obs) + 1 = 2 * id
      BY <2>2, <2>3, <2>6, <2>9 DEF WrittenOf
    <3>2. 2 * id \in DOMAIN StreamOf(accepted) /\ StreamOf(accepted)[2 * id] = Size(id)
      <4>1. 2 * id \in 1 .. 2 * NbBlocks(accepted) + 2
        BY <2>4, <2>5
      <4> QED
        BY <2>4, <2>5, <4>1, StreamItems
    <3>3. obs' = Append(obs, Size(id))
      BY <2>1, <2>9
    <3> QED
      BY <2>1, <2>7, <2>8, <3>1, <3>2, <3>3, NextItem
  <2>10. CASE pc[t] = "data"
    <3>1. Len(obs) + 1 = 2 * id + 1
      BY <2>2, <2>3, <2>6, <2>10 DEF WrittenOf
    <3>2. encoded[t] = Block(id, accepted)
      BY <2>10 DEF Placement, BatchBlocks, id
    <3>3. /\ 2 * id + 1 \in DOMAIN StreamOf(accepted)
          /\ StreamOf(accepted)[2 * id + 1] = Data(id, encoded[t])
      <4>1. 2 * id + 1 \in 1 .. 2 * NbBlocks(accepted) + 2
        BY <2>4, <2>5
      <4> QED
        BY <2>4, <2>5, <3>2, <4>1, StreamItems
    <3>4. obs' = Append(obs, Data(id, encoded[t]))
      BY <2>1, <2>10
    <3> QED
      BY <2>1, <2>7, <2>8, <3>1, <3>3, <3>4, NextItem
  <2> QED
    BY <2>1, <2>9, <2>10
<1> QED
  BY <1>1, <1>2


(* A step keeps the prefix, if input is accepted only as long as no call   *)
(* has failed and no task writes once one of its batch has an error.       *)
LEMMA StepPrefix ==
  ASSUME Shape, Placement, OrderedPrefix, [Next]_vars, Fill => ~failed,
         \A t \in TaskIDs : EmitSize(t) \/ EmitData(t) => InBatch /\ NoError
  PROVE  OrderedPrefix'
<1>1. CASE UNCHANGED <<obs, accepted>>
  BY <1>1 DEF OrderedPrefix
<1>2. CASE Fill
  <2>1. Between /\ mainPc = "fill" /\ obs' = obs
    BY <1>2 DEF Fill, Between, Shape, CallShape, obsVars
  <2>2. /\ blockID \in Nat /\ accepted = blockID * BlockSize + available
        /\ Len(obs) = IF initialized THEN 1 + 2 * blockID ELSE 0
    BY <2>1 DEF Placement, Position, ItemCount
  <2>3. /\ available \in Nat /\ accepted \in Nat /\ accepted' \in Nat
        /\ accepted <= accepted'
    <3>1. PICK n \in 1 .. BlockSize : accepted' = accepted + n
      BY <1>2, FillChunk DEF Shape
    <3>2. available \in Nat /\ accepted \in Nat
      BY DEF Shape, IInv, TypeOK, StreamTypes, CallerTypes
    <3> QED
      BY <3>1, <3>2, ConstantTypes
  <2>4. blockID * BlockSize <= accepted /\ Len(obs) <= 1 + 2 * blockID
    BY <2>2, <2>3, ConstantTypes
  <2>5. NoEnd
    BY <2>1 DEF Shape, EndShape
  <2> QED
    BY <2>1, <2>2, <2>3, <2>4, <2>5, PrefixGrows
<1>3. CASE ProcessBlock /\ ~initialized
  <2>1. obs = <<>> /\ obs' = Append(obs, Header) /\ accepted' = accepted /\ NoEnd
    BY <1>3 DEF ProcessBlock, histVars, Shape, EndShape
  <2>2. Len(obs) + 1 = 1
    BY <2>1
  <2>3. 1 \in DOMAIN StreamOf(accepted) /\ StreamOf(accepted)[1] = Header
    <3>1. accepted \in Nat
      BY DEF Shape, IInv, TypeOK, CallerTypes
    <3>2. 1 \in 1 .. 2 * NbBlocks(accepted) + 2
      BY <3>1, BlocksOf
    <3> QED
      BY <3>1, <3>2, StreamItems
  <2>4. Header \in Items /\ Header.kind # "end"
    BY ItemTypes, ItemKinds
  <2> QED
    BY <2>1, <2>2, <2>3, <2>4, NextItem
<1>4. CASE Finish
  <2>1. NoEnd /\ accepted' = accepted
    BY <1>4 DEF Finish, Shape, EndShape
  <2>2. obs' = obs \/ obs' = Append(obs, EndMark)
    BY <1>4 DEF Finish
  <2> QED
    BY <1>1, <2>1, <2>2, LastItem
<1>5. ASSUME NEW t \in TaskIDs, TaskStep(t) PROVE OrderedPrefix'
  <2>1. CASE EmitSize(t) \/ EmitData(t)
    BY <2>1, TaskWrites
  <2>2. CASE ~(EmitSize(t) \/ EmitData(t))
    <3>1. UNCHANGED <<obs, accepted>>
      BY <1>5, <2>2 DEF TaskStep, Encode, AwaitTurn, CheckTurn, StoreTurn, Cancel,
                        obsVars, histVars
    <3> QED
      BY <1>1, <3>1
  <2> QED
    BY <2>1, <2>2
<1>6. CASE Client \/ Spawn \/ Join \/ UNCHANGED vars \/ (ProcessBlock /\ initialized)
  <2>1. UNCHANGED <<obs, accepted>>
    BY <1>6 DEF Client, Write, Close, Spawn, Join, ProcessBlock, vars, obsVars, histVars
  <2> QED
    BY <1>1, <2>1
<1> QED
  BY <1>2, <1>3, <1>4, <1>5, <1>6 DEF Next, MainStep

(* A call that has failed has failed, and an error stays until Join. *)
LEMMA FailedStays ==
  ASSUME Shape, [Next]_vars
  PROVE  /\ ~failed' => ~failed
         /\ ~failed' /\ NoError' => NoError
<1>1. ASSUME NEW t \in TaskIDs, TaskStep(t)
      PROVE  failed' = failed /\ (NoError' => NoError)
  BY <1>1, TaskStepFrame, TaskStepErr DEF Shape, histVars
<1>2. CASE MainStep \/ Client \/ UNCHANGED vars
  <2>1. ~failed' => ~failed
    BY <1>2 DEF MainStep, Client, Write, Close, Fill, ProcessBlock, Spawn, Join, Finish,
                vars, histVars
  <2>2. ~failed' /\ mainPc = "batch" /\ NoError' => NoError
    BY <1>2 DEF MainStep, Client, Write, Close, Fill, ProcessBlock, Spawn, Join, Finish,
                vars, taskVars, NoError
  <2> QED
    BY <2>1, <2>2, NoBatchNoError
<1> QED
  BY <1>1, <1>2 DEF Next

LEMMA NextWritten ==
  ASSUME Shape, Placement, Written, [Next]_vars
  PROVE  Written'
<1> SUFFICES ASSUME ~failed', NoError' PROVE OrderedPrefix'
  BY DEF Written
<1>1. ~failed /\ NoError
  BY FailedStays
<1>2. OrderedPrefix
  BY <1>1 DEF Written
<1>3. \A t \in TaskIDs : EmitSize(t) \/ EmitData(t) => InBatch
  BY <1>1, TaskStepFrame DEF Shape, TaskStep, InBatch
<1> QED
  BY <1>1, <1>2, <1>3, StepPrefix

LEMMA NextComplete ==
  ASSUME Shape, Placement, Written, ClosedIsComplete, [Next]_vars
  PROVE  ClosedIsComplete'
<1> SUFFICES ASSUME obsClosed', ~failed' PROVE obs' = StreamOf(accepted')
  BY DEF ClosedIsComplete
<1>1. ~failed
  BY FailedStays
<1>2. CASE obsClosed
  <2>1. UNCHANGED vars
    <3>1. mainPc = "idle" /\ closed
      BY <1>2 DEF Shape, CallShape
    <3>2. \A t \in TaskIDs : ~TaskStep(t)
      BY <3>1, TaskStepFrame DEF Shape
    <3> QED
      BY <3>1, <3>2 DEF Next, Client, MainStep, Write, Close, Fill, ProcessBlock, Spawn,
                        Join, Finish
  <2> QED
    BY <1>1, <1>2, <2>1 DEF vars, obsVars, histVars, ClosedIsComplete
<1>3. CASE ~obsClosed
  <2>1. \A t \in TaskIDs : ~TaskStep(t)
    BY <1>3, TaskStepFrame DEF Shape
  <2>2. Finish
    BY <1>3, <2>1 DEF Next, Client, MainStep, Write, Close, Fill, ProcessBlock, Spawn,
                      Join, obsVars, streamVars, vars
  <2>3. /\ mainPc = "finish" /\ obs' = Append(obs, EndMark) /\ accepted' = accepted
    BY <1>3, <2>2 DEF Finish
  <2>4. NoEnd /\ NoError
    BY <2>3, NoBatchNoError DEF Shape, EndShape
  <2>5. OrderedPrefix /\ Len(obs) = 1 + 2 * NbBlocks(accepted)
    BY <1>1, <2>3, <2>4 DEF Written, Placement, ItemCount
  <2> QED
    BY <2>3, <2>4, <2>5, LastItem
<1> QED
  BY <1>2, <1>3

-----------------------------------------------------------------------------
(* The theorems. *)

DataInv == Shape /\ Placement /\ Written /\ ClosedIsComplete

LEMMA InitDataInv == Init => DataInv
<1> SUFFICES ASSUME Init PROVE DataInv
  OBVIOUS
<1>1. OrderedPrefix
  <2>1. obs = <<>> /\ Len(obs) = 0
    BY DEF Init
  <2> QED
    BY <2>1 DEF OrderedPrefix
<1>2. ClosedIsComplete
  BY DEF Init, ClosedIsComplete
<1> QED
  BY <1>1, <1>2, InitShape, InitPlacement DEF DataInv, Written

LEMMA DataInvariance ==
  ASSUME EnoughTasks
  PROVE  Spec => []DataInv
<1>1. DataInv /\ [Next]_vars => DataInv'
  BY NextShape, NextPlacement, NextWritten, NextComplete DEF DataInv
<1> QED
  BY <1>1, InitDataInv, PTL DEF Spec

(* Between two batches the unwritten tail of the input is in the buffers,  *)
(* in order, whatever has happened to the units before: no unit is lost,   *)
(* overwritten or encoded twice between the loop of Write and the batches, *)
(* for any number of jobs, any block size, client and schedule, as long as *)
(* no call has failed.                                                     *)
THEOREM ConservationHolds ==
  ASSUME EnoughTasks
  PROVE  Spec => []Conservation
<1>1. DataInv => Conservation
  <2> SUFFICES ASSUME DataInv, mainPc \in {"idle", "fill", "process"}, ~closed, ~failed
               PROVE  /\ (accepted - available) % (Jobs * BlockSize) = 0
                      /\ \A j \in 1 .. available : BufferedUnit(j) = accepted - available + j
    BY DEF Conservation
  <2>1. Between /\ Position!2
    BY DEF DataInv, Shape, CallShape, Placement, Position, Between
  <2>2. /\ available \in 0 .. Jobs * BlockSize /\ accepted \in Nat
        /\ blockID * BlockSize \in Nat /\ accepted - available = blockID * BlockSize
    BY <2>1, ConstantTypes DEF DataInv, Shape, IInv, TypeOK, StreamTypes, CallerTypes
  <2>3. (accepted - available) % (Jobs * BlockSize) = 0
    <3>1. PICK m \in Nat : blockID = m * Jobs
      BY <2>1
    <3>2. Jobs * BlockSize \in Nat \ {0}
      BY ConstantTypes
    <3>3. (m * Jobs) * BlockSize = m * (Jobs * BlockSize)
      BY ConstantTypes
    <3> QED
      BY <2>2, <3>1, <3>2, <3>3, MultipleHasNoRemainder
  <2>4. ASSUME NEW j \in 1 .. available PROVE BufferedUnit(j) = accepted - available + j
    <3> DEFINE b == (j - 1) \div BlockSize
               r == (j - 1) % BlockSize
    <3>1. j - 1 \in Nat /\ j - 1 < Jobs * BlockSize /\ Jobs \in Nat
      BY <2>2, ConstantTypes
    <3>2. b \in TaskIDs
      BY <3>1, BufferInRange, ConstantTypes DEF TaskIDs
    <3>3. r \in 0 .. BlockSize - 1 /\ j - 1 = BlockSize * b + r
      BY <3>1, DivMod, ConstantTypes
    <3>4. BufferedUnit(j) = buffers[b][1 + r]
      BY DEF BufferedUnit
    <3> HIDE DEF b, r
    <3>5. b * BlockSize \in Nat /\ j = b * BlockSize + (1 + r) /\ 1 + r \in 1 .. BlockSize
      BY <3>2, <3>3, ConstantTypes
    <3>6. buffers[b][1 + r] = (blockID + b) * BlockSize + (1 + r)
      BY <2>1, <2>2, <3>2, <3>5 DEF DataInv, Placement, Buffered
    <3>7. (blockID + b) * BlockSize = blockID * BlockSize + b * BlockSize
      BY <2>1, <3>2, ConstantTypes, Distribute
    <3> QED
      BY <2>2, <3>3, <3>4, <3>5, <3>6, <3>7, ConstantTypes
  <2> QED
    BY <2>3, <2>4
<1> QED
  BY <1>1, DataInvariance, PTL

(* A stream that was closed without any error is the header, every block   *)
(* of the input in order with the units of its place, and the end mark.    *)
THEOREM ClosedComplete ==
  ASSUME EnoughTasks
  PROVE  Spec => []ClosedIsComplete
<1>1. DataInv => ClosedIsComplete
  BY DEF DataInv
<1> QED
  BY <1>1, DataInvariance, PTL


-----------------------------------------------------------------------------
(* After an error.  If no block fails before its turn, a task that fails   *)
(* is the one whose turn it is: it keeps the turn until it cancels the     *)
(* others, so nothing is written any more.  (If a block can fail before    *)
(* its turn, StoreTurn of the task that has the turn may replace the       *)
(* cancellation, and the next but one task may write: a block is missing.) *)
Broken ==
  ~failed /\ ~NoError =>
    \A u \in TaskIDs : ~HasTurn(u) /\ (MyTurn(u) => pc[u] = "cancel")

(* A client that gives up after an error only closes, and then there is    *)
(* nothing in the buffers.                                                 *)
GivenUp ==
  /\ StopOnError /\ failed =>
       mainPc \in {"idle", "process", "finish", "panic"} /\ available = 0
  /\ ~failed /\ mainPc = "finish" => available = 0

NoStrayBlock == Broken /\ GivenUp /\ (~failed \/ StopOnError => OrderedPrefix)

(* The loop of processBlock leaves nothing in the buffers. *)
LEMMA BatchConsumes ==
  ASSUME Shape, Placement, Join, ~failed
  PROVE  available = 0
<1>1. InBatch /\ (spawned = NbTasks \/ available = 0)
  BY DEF Join, InBatch
<1>2. BatchInput!2
  BY <1>1 DEF Placement, BatchInput
<1>3. Before(NbTasks) \in Int /\ accepted \in Nat
  BY <1>2, NbTasksInRange, ConstantTypes DEF Before, Shape, IInv, TypeOK, CallerTypes
<1> QED
  BY <1>1, <1>2, <1>3

LEMMA NextGivenUp ==
  ASSUME Shape, Placement, GivenUp, [Next]_vars
  PROVE  GivenUp'
<1>1. CASE Join
  <2>1. available' = available /\ mainPc = "batch"
    BY <1>1 DEF Join, streamVars
  <2>2. ~failed => available = 0
    BY <1>1, BatchConsumes
  <2> QED
    BY <1>1, <2>1, <2>2 DEF Join, GivenUp
<1>2. CASE Client \/ Fill \/ Spawn \/ UNCHANGED vars
  BY <1>2 DEF Client, Write, Close, Fill, NextOfWrite, Spawn, vars, streamVars, mainVars,
              histVars, GivenUp
<1>3. CASE ProcessBlock \/ Finish
  BY <1>3 DEF ProcessBlock, Finish, NothingBuffered, histVars, GivenUp
<1>4. ASSUME NEW t \in TaskIDs, TaskStep(t) PROVE GivenUp'
  BY <1>4, TaskStepFrame DEF Shape, mainVars, histVars, GivenUp
<1> QED
  BY <1>1, <1>2, <1>3, <1>4 DEF Next, MainStep

LEMMA TaskBroken ==
  ASSUME "encode" \notin Faults, Shape, Placement, Broken, NEW t \in TaskIDs, TaskStep(t)
  PROVE  Broken'
<1> SUFFICES ASSUME ~failed', ~NoError', NEW u \in TaskIDs
             PROVE  ~HasTurn(u)' /\ (MyTurn(u)' => pc'[u] = "cancel")
  BY DEF Broken
<1>1. ~failed /\ InBatch /\ UNCHANGED firstID
  BY TaskStepFrame DEF Shape, InBatch, mainVars, histVars
<1>2. firstID \in Nat /\ t \in Nat /\ u \in Nat
  BY <1>1, ConstantTypes DEF Placement, BatchInput
<1>3. CASE NoError
  <2>1. Fail(t) /\ pc[t] \in {"size", "data"} /\ UNCHANGED blockID
    BY <1>3 DEF TaskStep, Encode, AwaitTurn, EmitSize, EmitData, CheckTurn, StoreTurn,
                Cancel, NoError
  <2>2. \A v \in TaskIDs : pc'[v] = IF v = t THEN "cancel" ELSE pc[v]
    BY <2>1 DEF Fail, Shape, IInv, TypeOK, TaskTypes
  <2>3. t = blockID - firstID /\ blockID \in Nat
    BY <1>1, <1>3, <2>1, HolderHasTurn
  <2>4. MyTurn(u)' => u = t
    BY <1>1, <1>2, <2>1, <2>3 DEF MyTurn, CurrentBlockID
  <2>5. u # t => pc[u] \notin {"size", "data", "store"}
    BY <1>1, <1>3, <2>3, HolderHasTurn
  <2> QED
    BY <2>2, <2>4, <2>5 DEF HasTurn
<1>4. CASE ~NoError
  <2>1. ~HasTurn(t) /\ (MyTurn(t) => pc[t] = "cancel")
        /\ ~HasTurn(u) /\ (MyTurn(u) => pc[u] = "cancel")
    BY <1>1, <1>4 DEF Broken
  <2>2. CASE Cancel(t)
    <3>1. pc' = [pc EXCEPT ![t] = "done"] /\ blockID' = CancelTasks
      BY <2>2 DEF Cancel
    <3>2. ~MyTurn(u)'
      BY <1>1, <1>2, <3>1 DEF MyTurn, CurrentBlockID, CancelTasks
    <3>3. pc'[u] = "done" \/ pc'[u] = pc[u]
      BY <3>1 DEF Shape, IInv, TypeOK, TaskTypes
    <3> QED
      BY <2>1, <3>2, <3>3 DEF HasTurn
  <2>3. CASE Encode(t) \/ AwaitTurn(t) \/ CheckTurn(t)
    <3>1. ~MyTurn(t)
      BY <2>1, <2>3 DEF Encode, AwaitTurn, CheckTurn
    <3>2. PICK to \in {"turn", "defer", "done"} :
            pc' = [pc EXCEPT ![t] = to] /\ UNCHANGED blockID
      BY <2>3, <3>1 DEF Encode, AwaitTurn, CheckTurn
    <3>3. pc'[u] = IF u = t THEN to ELSE pc[u]
      BY <3>2 DEF Shape, IInv, TypeOK, TaskTypes
    <3>4. MyTurn(u)' = MyTurn(u)
      BY <1>1, <3>2 DEF MyTurn, CurrentBlockID
    <3> QED
      BY <2>1, <3>1, <3>2, <3>3, <3>4 DEF HasTurn
  <2>4. ~(EmitSize(t) \/ EmitData(t) \/ StoreTurn(t))
    BY <2>1 DEF EmitSize, EmitData, StoreTurn, HasTurn
  <2> QED
    BY <2>2, <2>3, <2>4 DEF TaskStep
<1> QED
  BY <1>3, <1>4

LEMMA NextNoStrayBlock ==
  ASSUME EnoughTasks, "encode" \notin Faults, Shape, Placement, NoStrayBlock, [Next]_vars
  PROVE  NoStrayBlock'
<1>1. Broken'
  <2>1. ASSUME NEW t \in TaskIDs, TaskStep(t) PROVE Broken'
    BY <2>1, TaskBroken DEF NoStrayBlock
  <2>2. CASE Spawn
    <3> SUFFICES ASSUME ~failed', ~NoError', NEW u \in TaskIDs
                 PROVE  ~HasTurn(u)' /\ (MyTurn(u)' => pc'[u] = "cancel")
      BY DEF Broken
    <3>1. ~failed /\ ~NoError /\ UNCHANGED <<blockID, firstID>>
      BY <2>2 DEF Spawn, histVars, NoError
    <3>2. pc[spawned] = "none" \/ spawned \notin TaskIDs
      BY <2>2, ConstantTypes DEF Shape, IInv, BatchShape, Spawn, TypeOK, CallerTypes
    <3>3. pc'[u] = IF u = spawned THEN "encode" ELSE pc[u]
      BY <2>2 DEF Spawn, Shape, IInv, TypeOK, TaskTypes
    <3>4. MyTurn(u)' = MyTurn(u)
      BY <3>1 DEF MyTurn, CurrentBlockID
    <3> QED
      BY <3>1, <3>2, <3>3, <3>4 DEF NoStrayBlock, Broken, HasTurn
  <2>3. CASE Join
    BY <2>3 DEF Join, NoTasks, NoError, Broken
  <2>4. CASE Client \/ Fill \/ ProcessBlock \/ Finish
    <3>1. NoError /\ err' = err
      BY <2>4, NoBatchNoError DEF Client, Write, Close, Fill, ProcessBlock, Finish,
                                  taskVars, vars
    <3> QED
      BY <3>1 DEF NoError, Broken
  <2>5. CASE UNCHANGED vars
    BY <2>5 DEF vars, mainVars, taskVars, histVars, NoStrayBlock, Broken, NoError,
                HasTurn, MyTurn, CurrentBlockID
  <2> QED
    BY <2>1, <2>2, <2>3, <2>4, <2>5 DEF Next, MainStep
<1>2. GivenUp'
  BY NextGivenUp DEF NoStrayBlock
<1>3. ASSUME ~failed' \/ StopOnError PROVE OrderedPrefix'
  <2>1. (~failed' => ~failed) /\ OrderedPrefix
    BY <1>3, FailedStays DEF NoStrayBlock
  <2>2. Fill => ~failed
    BY <1>3, <2>1 DEF Fill, NoStrayBlock, GivenUp
  <2>3. \A t \in TaskIDs : EmitSize(t) \/ EmitData(t) => InBatch /\ NoError
    <3> SUFFICES ASSUME NEW t \in TaskIDs, EmitSize(t) \/ EmitData(t)
                 PROVE  InBatch /\ NoError
      OBVIOUS
    <3>1. mainPc = "batch" /\ HasTurn(t)
      BY TaskStepFrame DEF Shape, TaskStep, EmitSize, EmitData, HasTurn
    <3>2. ~failed
      BY <1>3, <2>1, <3>1 DEF NoStrayBlock, GivenUp
    <3> QED
      BY <3>1, <3>2 DEF InBatch, NoStrayBlock, Broken
  <2> QED
    BY <2>1, <2>2, <2>3, StepPrefix
<1> QED
  BY <1>1, <1>2, <1>3 DEF NoStrayBlock

LEMMA InitNoStrayBlock == Init => NoStrayBlock
<1> SUFFICES ASSUME Init PROVE NoStrayBlock
  OBVIOUS
<1>1. OrderedPrefix
  <2>1. obs = <<>> /\ Len(obs) = 0
    BY DEF Init
  <2> QED
    BY <2>1 DEF OrderedPrefix
<1> QED
  BY <1>1 DEF Init, NoStrayBlock, Broken, GivenUp, NoError

LEMMA NoStrayBlockInvariance ==
  ASSUME EnoughTasks, "encode" \notin Faults
  PROVE  Spec => []NoStrayBlock
<1>1. DataInv /\ NoStrayBlock /\ [Next]_vars => NoStrayBlock'
  BY NextNoStrayBlock DEF DataInv
<1> QED
  BY <1>1, InitNoStrayBlock, DataInvariance, PTL DEF Spec

(* Until a task fails the bitstream is a prefix of the stream of the       *)
(* input, whatever the interleaving of the tasks and whatever can fail.    *)
THEOREM PrefixUntilError ==
  ASSUME EnoughTasks
  PROVE  Spec => [](~failed /\ NoError => OrderedPrefix)
<1>1. DataInv => (~failed /\ NoError => OrderedPrefix)
  BY DEF DataInv, Written
<1> QED
  BY <1>1, DataInvariance, PTL

(* It stays one when the shared bitstream fails, for a client that stops   *)
(* at the first error: no block behind the failure is ever written.        *)
THEOREM PrefixOrdered ==
  ASSUME EnoughTasks, "encode" \notin Faults, StopOnError
  PROVE  Spec => []OrderedPrefix
<1>1. NoStrayBlock => OrderedPrefix
  BY DEF NoStrayBlock
<1> QED
  BY <1>1, NoStrayBlockInvariance, PTL

-----------------------------------------------------------------------------
(* The Writer implements BlockLog: every step of the buffers, the batches  *)
(* and the tasks is a step of the log of blocks, or invisible in it.       *)

-----------------------------------------------------------------------------
(* The refinement mapping. *)

LEMMA OpenBody ==
  ASSUME Shape, NoEnd
  PROVE  BodyLength = Len(obs) /\ Len(obs) \in Nat
<1>1. obs \in Seq(Items)
  BY DEF Shape, IInv, TypeOK, StreamTypes
<1>2. obs # <<>> => Len(obs) \in 1 .. Len(obs)
  BY <1>1
<1> QED
  BY <1>1, <1>2 DEF NoEnd, BodyLength

(* The committed blocks are the data items before the end mark: an item    *)
(* adds a block if it stands where the data of a block belongs.            *)
LEMMA CommittedAfter ==
  ASSUME Shape, NoEnd, NEW x \in Items, obs' = Append(obs, x)
  PROVE  /\ BodyLength' = IF x.kind = "end" THEN Len(obs) ELSE Len(obs) + 1
         /\ \A k \in Nat : 2 * k + 1 <= Len(obs) => obs'[2 * k + 1] = obs[2 * k + 1]
         /\ obs'[Len(obs) + 1] = x
<1>1. obs \in Seq(Items)
  BY DEF Shape, IInv, TypeOK, StreamTypes
<1>2. /\ Len(obs') = Len(obs) + 1 /\ obs'[Len(obs) + 1] = x /\ Len(obs) \in Nat
      /\ \A i \in 1 .. Len(obs) : obs'[i] = obs[i]
      /\ obs' \in Seq(Items)
  BY <1>1, AppendIs
<1>3. obs' # <<>> /\ Len(obs') - 1 = Len(obs) /\ obs'[Len(obs')] = x
  BY <1>2
<1>4. BodyLength' = IF x.kind = "end" THEN Len(obs) ELSE Len(obs) + 1
  BY <1>2, <1>3 DEF BodyLength
<1>5. \A k \in Nat : 2 * k + 1 <= Len(obs) => obs'[2 * k + 1] = obs[2 * k + 1]
  <2> SUFFICES ASSUME NEW k \in Nat, 2 * k + 1 <= Len(obs)
               PROVE  obs'[2 * k + 1] = obs[2 * k + 1]
    OBVIOUS
  <2>1. 2 * k + 1 \in 1 .. Len(obs)
    BY <1>2
  <2> QED
    BY <1>2, <2>1
<1> QED
  BY <1>2, <1>4, <1>5

(* An item that is not the data of a block leaves the log as it is.        *)
LEMMA SameCommitted ==
  ASSUME Shape, NoEnd, NEW x \in Items, obs' = Append(obs, x),
         \/ x.kind = "end"
         \/ Len(obs) = 0
         \/ \E b \in Nat : Len(obs) = 1 + 2 * b
  PROVE  CommittedBlocks' = CommittedBlocks
<1>1. BodyLength = Len(obs) /\ Len(obs) \in Nat
  BY OpenBody
<1>2. /\ BodyLength' = IF x.kind = "end" THEN Len(obs) ELSE Len(obs) + 1
      /\ \A k \in Nat : 2 * k + 1 <= Len(obs) => obs'[2 * k + 1] = obs[2 * k + 1]
  BY CommittedAfter
<1> DEFINE n == (Len(obs) - 1) \div 2
<1>3. 1 .. (BodyLength - 1) \div 2 = 1 .. n
  BY <1>1
<1>4. 1 .. (BodyLength' - 1) \div 2 = 1 .. n
  <2>1. CASE x.kind = "end"
    BY <1>2, <2>1
  <2>2. CASE x.kind # "end" /\ Len(obs) = 0
    BY <1>2, <2>2
  <2>3. CASE x.kind # "end" /\ \E b \in Nat : Len(obs) = 1 + 2 * b
    <3>1. PICK b \in Nat : Len(obs) = 1 + 2 * b
      BY <2>3
    <3>2. (1 + 2 * b - 1) \div 2 = b /\ (1 + 2 * b + 1 - 1) \div 2 = b
      OBVIOUS
    <3> QED
      BY <1>2, <2>3, <3>1, <3>2
  <2> QED
    BY <2>1, <2>2, <2>3
<1>5. \A k \in 1 .. n : obs'[2 * k + 1] = obs[2 * k + 1]
  <2> SUFFICES ASSUME NEW k \in 1 .. n PROVE obs'[2 * k + 1] = obs[2 * k + 1]
    OBVIOUS
  <2>1. k \in Nat /\ 2 * k + 1 <= Len(obs)
    BY <1>1
  <2> QED
    BY <1>2, <2>1
<1> HIDE DEF n
<1>6. CommittedBlocks = [k \in 1 .. n |-> obs[2 * k + 1].data]
  BY <1>3 DEF CommittedBlocks
<1>7. CommittedBlocks' = [k \in 1 .. n |-> obs'[2 * k + 1].data]
  BY <1>4 DEF CommittedBlocks
<1> QED
  BY <1>5, <1>6, <1>7

(* The data of a block goes to the end of the log. *)
LEMMA MoreCommitted ==
  ASSUME Shape, NoEnd, NEW x \in Items, x.kind # "end", obs' = Append(obs, x),
         NEW b \in Nat, Len(obs) = 2 + 2 * b
  PROVE  /\ CommittedBlocks' = Append(CommittedBlocks, x.data)
         /\ Len(CommittedBlocks) = b
<1>1. BodyLength = 2 + 2 * b
  BY OpenBody
<1>2. /\ BodyLength' = 3 + 2 * b
      /\ \A k \in Nat : 2 * k + 1 <= Len(obs) => obs'[2 * k + 1] = obs[2 * k + 1]
      /\ obs'[3 + 2 * b] = x
  BY CommittedAfter
<1>3. (2 + 2 * b - 1) \div 2 = b /\ (3 + 2 * b - 1) \div 2 = b + 1
  OBVIOUS
<1>4. CommittedBlocks = [k \in 1 .. b |-> obs[2 * k + 1].data]
  BY <1>1, <1>3 DEF CommittedBlocks
<1>5. CommittedBlocks' = [k \in 1 .. b + 1 |-> obs'[2 * k + 1].data]
  BY <1>2, <1>3 DEF CommittedBlocks
<1>6. \A k \in 1 .. b : obs'[2 * k + 1] = obs[2 * k + 1]
  <2> SUFFICES ASSUME NEW k \in 1 .. b PROVE obs'[2 * k + 1] = obs[2 * k + 1]
    OBVIOUS
  <2>1. k \in Nat /\ 2 * k + 1 <= Len(obs)
    OBVIOUS
  <2> QED
    BY <1>2, <2>1
<1>7. obs'[2 * (b + 1) + 1].data = x.data
  BY <1>2
<1>8. \A i \in 1 .. Len(obs) : obs[i].data \in Seq(Units)
  <2>1. \A i \in 1 .. Len(obs) : obs[i] \in Items
    BY DEF Shape, IInv, TypeOK, StreamTypes
  <2>2. \A item \in Items : item.data \in Seq(Units)
    BY DEF Items
  <2> QED
    BY <2>1, <2>2
<1>9. CommittedBlocks \in Seq(Seq(Units)) /\ Len(CommittedBlocks) = b
  <2>1. \A k \in 1 .. b : obs[2 * k + 1].data \in Seq(Units)
    BY <1>8
  <2>2. CommittedBlocks \in [1 .. b -> Seq(Units)]
    BY <1>4, <2>1
  <2> QED
    BY <2>2
<1>10. x.data \in Seq(Units)
  BY DEF Items
<1>11. Append(CommittedBlocks, x.data) =
         [k \in 1 .. b + 1 |-> IF k = b + 1 THEN x.data ELSE CommittedBlocks[k]]
  BY <1>9, <1>10, AppendFunction
<1>12. \A k \in 1 .. b + 1 :
         obs'[2 * k + 1].data = IF k = b + 1 THEN x.data ELSE CommittedBlocks[k]
  <2> SUFFICES ASSUME NEW k \in 1 .. b + 1
               PROVE  obs'[2 * k + 1].data = IF k = b + 1 THEN x.data ELSE CommittedBlocks[k]
    OBVIOUS
  <2>1. CASE k = b + 1
    BY <1>7, <2>1
  <2>2. CASE k # b + 1
    <3>1. k \in 1 .. b
      BY <2>2
    <3> QED
      BY <1>4, <1>6, <2>2, <3>1
  <2> QED
    BY <2>1, <2>2
<1> QED
  BY <1>5, <1>9, <1>11, <1>12


-----------------------------------------------------------------------------
(* The steps. *)

(* A block is the same for the Writer and for the log. *)
LEMMA LogBlock ==
  ASSUME NEW k \in Nat \ {0}, NEW n \in Nat, (k - 1) * BlockSize < n
  PROVE  Log!Block(k, n) = Block(k, n)
<1>1. (k - 1) * BlockSize = k * BlockSize - BlockSize /\ k * BlockSize \in Int
  BY ConstantTypes, TimesOrder
<1>2. Log!BlockEnd(k, n) - (k - 1) * BlockSize = MinOf(BlockSize, n - (k - 1) * BlockSize)
  BY <1>1, ConstantTypes DEF Log!BlockEnd, MinOf
<1> QED
  BY <1>2 DEF Log!Block, Block

(* What a step of the Writer is in the log. *)
LogStep == [Log!Next]_(Log!vars)

LEMMA InvisibleStep ==
  ASSUME CommittedBlocks' = CommittedBlocks,
         UNCHANGED <<accepted, failed, obsClosed, closed>>
  PROVE  LogStep
<1>1. StreamStatus' = StreamStatus
  BY DEF StreamStatus
<1> QED
  BY <1>1 DEF LogStep, Log!vars

LEMMA SameObs ==
  ASSUME obs' = obs
  PROVE  CommittedBlocks' = CommittedBlocks
<1>1. BodyLength' = BodyLength
  BY DEF BodyLength
<1> QED
  BY <1>1 DEF CommittedBlocks

RefinementInv == DataInv /\ NoStrayBlock

LEMMA EmitDataRefines ==
  ASSUME StopOnError, RefinementInv, NEW t \in TaskIDs, EmitData(t)
  PROVE  LogStep
<1>1. mainPc = "batch" /\ UNCHANGED <<accepted, failed, obsClosed, closed>>
  BY TaskStepFrame DEF RefinementInv, DataInv, Shape, TaskStep, histVars
<1>2. CASE obs' = obs
  BY <1>1, <1>2, SameObs, InvisibleStep
<1>3. CASE obs' # obs
  <2> DEFINE id == CurrentBlockID(t)
             x  == Data(id, encoded[t])
  <2> USE DEF RefinementInv, DataInv
  <2>1. pc[t] = "data" /\ obs' = Append(obs, x)
    BY <1>3 DEF EmitData
  <2>2. InBatch /\ NoError /\ ~failed
    BY <1>1, <2>1 DEF NoStrayBlock, GivenUp, Broken, HasTurn, InBatch
  <2>3. NoEnd
    BY <1>1 DEF Shape, EndShape
  <2>4. MyTurn(t) /\ blockID \in Nat /\ firstID \in Nat /\ t \in Nat /\ t < spawned
    BY <2>1, <2>2, HolderHasTurn, ConstantTypes DEF Shape, IInv, BatchShape
  <2>5. id = blockID + 1 /\ id - 1 = firstID + t /\ id \in Nat \ {0}
    BY <2>4 DEF MyTurn, CurrentBlockID
  <2>6. x \in Items /\ x.kind # "end" /\ x.data = encoded[t]
    BY <2>5, ItemTypes, ItemKinds DEF Shape, IInv, TypeOK, TaskTypes
  <2>7. Len(obs) = 2 + 2 * blockID
    BY <2>1, <2>2, <2>4 DEF Placement, ItemCount, WrittenOf
  <2> HIDE DEF x
  <2>8. CommittedBlocks' = Append(CommittedBlocks, x.data) /\ Len(CommittedBlocks) = blockID
    BY <2>1, <2>3, <2>4, <2>6, <2>7, MoreCommitted
  <2>9. /\ accepted \in Nat /\ (id - 1) * BlockSize < accepted
        /\ encoded[t] = Block(id, accepted)
    BY <2>1, <2>2, <2>4, <2>5 DEF Placement, BatchBlocks, Before, Shape, IInv, TypeOK,
                                  CallerTypes
  <2>10. x.data = Log!Block(Len(CommittedBlocks) + 1, accepted)
    BY <2>5, <2>6, <2>8, <2>9, LogBlock
  <2>11. /\ ~closed => (Len(CommittedBlocks) + 1) * BlockSize <= accepted
         /\ Len(CommittedBlocks) * BlockSize < accepted
    <3>1. ~closed => accepted = (firstID + Jobs) * BlockSize
      BY <1>1, <2>2 DEF Shape, CallShape, Placement, BatchInput, Before
    <3>2. blockID + 1 <= firstID + Jobs
      BY <2>4, <2>5, ConstantTypes DEF TaskIDs
    <3>3. (blockID + 1) * BlockSize <= (firstID + Jobs) * BlockSize
      BY <2>4, <3>2, ConstantTypes, TimesOrder
    <3> QED
      BY <2>5, <2>8, <2>9, <3>1, <3>3
  <2>12. StreamStatus = (IF closed THEN "closing" ELSE "open") /\ StreamStatus' = StreamStatus
    <3>1. ~obsClosed
      BY <1>1 DEF Shape, CallShape
    <3> QED
      BY <1>1, <2>2, <3>1 DEF StreamStatus
  <2>13. Log!Commit
    BY <1>1, <2>8, <2>10, <2>11, <2>12 DEF Log!Commit
  <2> QED
    BY <2>13 DEF LogStep, Log!Next
<1> QED
  BY <1>2, <1>3


LEMMA TaskRefines ==
  ASSUME StopOnError, RefinementInv, NEW t \in TaskIDs, TaskStep(t)
  PROVE  LogStep
<1> USE DEF RefinementInv, DataInv
<1>1. mainPc = "batch" /\ UNCHANGED <<accepted, failed, obsClosed, closed>>
  BY TaskStepFrame DEF Shape, histVars
<1>2. CASE obs' = obs
  BY <1>1, <1>2, SameObs, InvisibleStep
<1>3. CASE EmitSize(t) /\ obs' # obs
  <2>1. pc[t] = "size" /\ obs' = Append(obs, Size(CurrentBlockID(t)))
    BY <1>3 DEF EmitSize
  <2>2. InBatch /\ NoError
    BY <1>1, <2>1 DEF NoStrayBlock, GivenUp, Broken, HasTurn, InBatch
  <2>3. MyTurn(t) /\ blockID \in Nat
    BY <2>1, <2>2, HolderHasTurn
  <2>4. Len(obs) = 1 + 2 * blockID
    BY <2>1, <2>2, <2>3 DEF Placement, ItemCount, WrittenOf
  <2>5. NoEnd
    BY <1>1 DEF Shape, EndShape
  <2>6. Size(CurrentBlockID(t)) \in Items
    BY CurrentBlockIDType, ItemTypes DEF Shape
  <2>7. CommittedBlocks' = CommittedBlocks
    BY <2>1, <2>3, <2>4, <2>5, <2>6, SameCommitted
  <2> QED
    BY <1>1, <2>7, InvisibleStep
<1>4. CASE EmitData(t)
  BY <1>4, EmitDataRefines
<1> QED
  BY <1>2, <1>3, <1>4 DEF TaskStep, Encode, AwaitTurn, CheckTurn, StoreTurn, Cancel, obsVars

LEMMA FillRefines ==
  ASSUME StopOnError, RefinementInv, Fill
  PROVE  LogStep
<1> USE DEF RefinementInv, DataInv
<1>1. PICK n \in 1 .. BlockSize : accepted' = accepted + n
  BY FillChunk DEF Shape
<1>2. mainPc = "fill" /\ UNCHANGED <<obs, failed, obsClosed, closed>>
  BY DEF Fill, obsVars
<1>3. ~closed /\ ~obsClosed /\ ~failed
  BY <1>2 DEF Shape, CallShape, NoStrayBlock, GivenUp
<1>4. StreamStatus = "open" /\ StreamStatus' = "open"
  BY <1>2, <1>3 DEF StreamStatus
<1>5. CommittedBlocks' = CommittedBlocks
  BY <1>2, SameObs
<1>6. Log!Accept
  BY <1>1, <1>4, <1>5 DEF Log!Accept
<1> QED
  BY <1>6 DEF LogStep, Log!Next

LEMMA ClientRefines ==
  ASSUME StopOnError, RefinementInv, Client
  PROVE  LogStep
<1> USE DEF RefinementInv, DataInv
<1>1. CommittedBlocks' = CommittedBlocks /\ UNCHANGED <<accepted, failed, obsClosed>>
  <2>1. UNCHANGED <<obs, accepted, failed, obsClosed>>
    BY DEF Client, Write, Close, vars, obsVars, histVars
  <2> QED
    BY <2>1, SameObs
<1>2. CASE closed' = closed
  BY <1>1, <1>2, InvisibleStep
<1>3. CASE closed' # closed
  <2>1. closed' = TRUE /\ closed = FALSE
    BY <1>3 DEF Client, Write, Close, vars, streamVars, Shape, IInv, TypeOK, FlagTypes
  <2>2. CASE failed
    BY <1>1, <2>2 DEF StreamStatus, LogStep, Log!vars
  <2>3. CASE ~failed
    <3>1. ~obsClosed
      BY <2>1 DEF Shape, CallShape
    <3>2. StreamStatus = "open" /\ StreamStatus' = "closing"
      BY <1>1, <2>1, <2>3, <3>1 DEF StreamStatus
    <3>3. Log!BeginClose
      BY <1>1, <3>2 DEF Log!BeginClose
    <3> QED
      BY <3>3 DEF LogStep, Log!Next
  <2> QED
    BY <2>2, <2>3
<1> QED
  BY <1>2, <1>3

LEMMA ProcessBlockRefines ==
  ASSUME RefinementInv, ProcessBlock
  PROVE  LogStep
<1> USE DEF RefinementInv, DataInv
<1>1. UNCHANGED <<accepted, failed, obsClosed, closed>>
  BY DEF ProcessBlock, histVars
<1>2. CASE initialized
  <2>1. obs' = obs
    BY <1>2 DEF ProcessBlock
  <2> QED
    BY <1>1, <2>1, SameObs, InvisibleStep
<1>3. CASE ~initialized
  <2>1. obs' = Append(obs, Header) /\ obs = <<>> /\ Len(obs) = 0 /\ NoEnd
    BY <1>3 DEF ProcessBlock, Shape, EndShape
  <2>2. CommittedBlocks' = CommittedBlocks
    BY <2>1, ItemTypes, SameCommitted
  <2> QED
    BY <1>1, <2>2, InvisibleStep
<1> QED
  BY <1>2, <1>3

(* A call that reports the first error: the log fails. *)
LEMMA FailRefines ==
  ASSUME RefinementInv, ~failed, failed' = TRUE, ~obsClosed,
         UNCHANGED accepted, CommittedBlocks' = CommittedBlocks
  PROVE  LogStep
<1>1. StreamStatus \in {"open", "closing"} /\ StreamStatus' = "failed"
  BY DEF StreamStatus
<1>2. Log!Fail
  BY <1>1 DEF Log!Fail
<1> QED
  BY <1>2 DEF LogStep, Log!Next

LEMMA JoinRefines ==
  ASSUME StopOnError, RefinementInv, Join
  PROVE  LogStep
<1> USE DEF RefinementInv, DataInv
<1>1. mainPc = "batch" /\ UNCHANGED <<obs, accepted, obsClosed, closed>>
  BY DEF Join, obsVars, streamVars
<1>2. ~failed /\ ~obsClosed /\ CommittedBlocks' = CommittedBlocks
  BY <1>1, SameObs DEF NoStrayBlock, GivenUp, Shape, CallShape
<1>3. CASE failed' = failed
  BY <1>1, <1>2, <1>3, InvisibleStep
<1>4. CASE failed' # failed
  <2>1. failed' = TRUE
    BY <1>4 DEF Join
  <2> QED
    BY <1>1, <1>2, <2>1, FailRefines
<1> QED
  BY <1>3, <1>4

LEMMA FinishRefines ==
  ASSUME StopOnError, RefinementInv, Finish
  PROVE  LogStep
<1> USE DEF RefinementInv, DataInv
<1>1. mainPc = "finish" /\ UNCHANGED <<accepted, closed>>
  BY DEF Finish
<1>2. closed /\ ~obsClosed /\ NoEnd
  BY <1>1 DEF Shape, CallShape, EndShape
<1>3. CommittedBlocks' = CommittedBlocks
  <2>1. CASE obs' = obs
    BY <2>1, SameObs
  <2>2. CASE obs' = Append(obs, EndMark)
    BY <1>2, <2>2, ItemTypes, ItemKinds, SameCommitted
  <2> QED
    BY <2>1, <2>2 DEF Finish
<1>4. CASE failed
  <2>1. failed'
    BY <1>4, FailedStays DEF Next, MainStep
  <2>2. StreamStatus = "failed" /\ StreamStatus' = "failed"
    BY <1>4, <2>1 DEF StreamStatus
  <2> QED
    BY <1>1, <1>3, <2>2 DEF LogStep, Log!vars
<1>5. CASE ~failed /\ failed'
  <2>1. failed' = TRUE
    BY <1>5 DEF Finish
  <2> QED
    BY <1>1, <1>2, <1>3, <1>5, <2>1, FailRefines
<1>6. CASE ~failed /\ ~failed' /\ obsClosed'
  <2>1. StreamStatus = "closing" /\ StreamStatus' = "closed"
    BY <1>1, <1>2, <1>6 DEF StreamStatus
  <2>2. Len(obs) = 1 + 2 * NbBlocks(accepted)
    BY <1>1, <1>6 DEF Placement, ItemCount
  <2>3. accepted \in Nat /\ NbBlocks(accepted) \in Nat
    BY BlocksOf DEF Shape, IInv, TypeOK, CallerTypes
  <2>4. Len(CommittedBlocks) = NbBlocks(accepted)
    <3>1. BodyLength = 1 + 2 * NbBlocks(accepted)
      BY <1>2, <2>2, OpenBody
    <3>2. (1 + 2 * NbBlocks(accepted) - 1) \div 2 = NbBlocks(accepted)
      BY <2>3
    <3>3. CommittedBlocks = [k \in 1 .. NbBlocks(accepted) |-> obs[2 * k + 1].data]
      <4>1. (BodyLength - 1) \div 2 = NbBlocks(accepted)
        BY <2>3, <3>1, <3>2
      <4> QED
        BY <4>1 DEF CommittedBlocks
    <3>4. CommittedBlocks = [k \in 1 .. NbBlocks(accepted) |-> CommittedBlocks[k]]
      BY <3>3
    <3> QED
      BY <2>3, <3>4, IsASeq
  <2>5. NbBlocks(accepted) * BlockSize >= accepted
    <3>1. ~(NbBlocks(accepted) + 1 <= NbBlocks(accepted))
          /\ NbBlocks(accepted) + 1 \in Nat \ {0}
          /\ (NbBlocks(accepted) + 1) - 1 = NbBlocks(accepted)
      BY <2>3
    <3>2. ~(((NbBlocks(accepted) + 1) - 1) * BlockSize < accepted)
      BY <2>3, <3>1, BlocksOf
    <3>3. NbBlocks(accepted) * BlockSize \in Nat
      BY <2>3, ConstantTypes
    <3> QED
      BY <2>3, <3>1, <3>2, <3>3
  <2>6. Log!EndClose
    BY <1>1, <1>3, <2>1, <2>4, <2>5 DEF Log!EndClose
  <2> QED
    BY <2>6 DEF LogStep, Log!Next
<1>7. CASE ~failed /\ ~failed' /\ ~obsClosed'
  <2>1. StreamStatus' = StreamStatus
    BY <1>1, <1>2, <1>7 DEF StreamStatus
  <2> QED
    BY <1>1, <1>3, <2>1 DEF LogStep, Log!vars
<1> QED
  BY <1>4, <1>5, <1>6, <1>7

LEMMA InitRefines == Init => Log!Init
<1> SUFFICES ASSUME Init PROVE Log!Init
  OBVIOUS
<1>1. obs = <<>> /\ accepted = 0 /\ ~failed /\ ~closed /\ ~obsClosed
  BY DEF Init
<1>2. CommittedBlocks = <<>>
  <2>1. BodyLength = 0
    BY <1>1 DEF BodyLength
  <2>2. 1 .. (0 - 1) \div 2 = {}
    OBVIOUS
  <2>3. CommittedBlocks = [k \in {} |-> obs[2 * k + 1].data]
    BY <2>1, <2>2 DEF CommittedBlocks
  <2>4. [k \in {} |-> obs[2 * k + 1].data] = <<>>
    OBVIOUS
  <2> QED
    BY <2>3, <2>4
<1>3. StreamStatus = "open"
  BY <1>1 DEF StreamStatus
<1> QED
  BY <1>1, <1>2, <1>3 DEF Log!Init

LEMMA NextRefines ==
  ASSUME StopOnError, RefinementInv, [Next]_vars
  PROVE  LogStep
<1>1. CASE UNCHANGED vars
  <2>1. UNCHANGED <<obs, accepted, failed, obsClosed, closed>>
    BY <1>1 DEF vars, streamVars, obsVars, histVars
  <2> QED
    BY <2>1, SameObs, InvisibleStep
<1>2. CASE Spawn
  <2>1. UNCHANGED <<obs, accepted, failed, obsClosed, closed>>
    BY <1>2 DEF Spawn, obsVars, histVars
  <2> QED
    BY <2>1, SameObs, InvisibleStep
<1> QED
  BY <1>1, <1>2, TaskRefines, FillRefines, ClientRefines, ProcessBlockRefines, JoinRefines,
     FinishRefines DEF Next, MainStep

(* The Writer is a log of blocks: whatever the interleaving of its tasks   *)
(* and whenever the shared bitstream fails, it accepts input, commits the  *)
(* next block of the input whole or not at all, and closes only when all   *)
(* blocks are committed; after an error it commits nothing.                *)
THEOREM RefinesBlockLog ==
  ASSUME EnoughTasks, "encode" \notin Faults, StopOnError
  PROVE  Spec => ImplementsBlockLog
<1>1. Spec => []RefinementInv
  BY DataInvariance, NoStrayBlockInvariance, PTL DEF RefinementInv
<1>2. RefinementInv /\ [Next]_vars => [Log!Next]_(Log!vars)
  BY NextRefines DEF LogStep
<1> QED
  BY <1>1, <1>2, InitRefines, PTL DEF Spec, ImplementsBlockLog, Log!Spec

=============================================================================
