---------------------------- MODULE ReaderProofs ----------------------------
(***************************************************************************)
(* Proofs about the Reader, for every number of jobs, every stream, every  *)
(* way of opening it and every client: first the turns of the decoding     *)
(* tasks, then what it hands out - the units the client asked for, in      *)
(* order, and the end of the stream only behind the last of them.          *)
(***************************************************************************)
EXTENDS Reader, TLAPS

-----------------------------------------------------------------------------
(* The inductive invariant. *)

PCs == {"none", "turn", "size", "data", "pass", "decode", "defer", "done"}

(* The types of what the turns depend on. *)
TurnTypes ==
  /\ blockID \in Nat \cup {CancelTasks} /\ firstID \in Nat /\ ibsPos \in Nat
  /\ lastLen \in Nat
  /\ pc \in [TaskIDs -> PCs] /\ held \in [TaskIDs -> Nat] /\ decoded \in [TaskIDs -> Nat]
  /\ skipped \in [TaskIDs -> BOOLEAN] /\ err \in [TaskIDs -> BOOLEAN]

(* Tasks exist only during a batch, and only those of the batch. *)
BatchShape ==
  \A t \in TaskIDs : pc[t] # "none" => mainPc = "batch" /\ t \in Batch

HasTurn(t) == pc[t] \in {"size", "data", "pass"}
Left(t) == pc[t] \in {"decode", "defer", "done"}
(* Has its block, and did not fail. *)
Passed(t) == pc[t] = "decode" \/ (pc[t] = "defer" /\ ~CancelsOthers(t))

(* A task that has not given up its turn has nothing to show yet. *)
Fresh ==
  \A t \in TaskIDs :
    ~Left(t) => decoded[t] = 0 /\ skipped[t] = FALSE /\ err[t] = FALSE

(* Tasks get the turn and leave it in their order.  The counter stands for *)
(* tasks that left, also when it was stored over a cancellation.           *)
TurnOrder ==
  /\ \A t, u \in TaskIDs : (HasTurn(t) \/ Passed(t)) /\ u < t => Left(u)
  /\ mainPc = "batch" /\ blockID # CancelTasks =>
       \A u \in TaskIDs : CurrentBlockID(u) <= blockID => Left(u)
  /\ \A t \in TaskIDs : HasTurn(t) /\ blockID # CancelTasks => MyTurn(t)
  /\ \A t \in TaskIDs : Passed(t) /\ blockID # CancelTasks => CurrentBlockID(t) <= blockID

(* The bitstream is at the block of the task that has the turn, and behind *)
(* the last block that was passed on, unless the task whose turn it is has *)
(* read its block, or has failed and is about to cancel the others.        *)
Position ==
  /\ \A t \in TaskIDs :
       /\ pc[t] \in {"size", "data"} => ibsPos = CurrentBlockID(t)
       /\ pc[t] = "pass" => ibsPos = CurrentBlockID(t) + 1
  /\ blockID # CancelTasks =>
       \/ ibsPos = blockID + 1
       \/ \E t \in TaskIDs :
            MyTurn(t) /\ (pc[t] = "pass" \/ (pc[t] = "defer" /\ CancelsOthers(t)))

IInv == TurnTypes /\ BatchShape /\ Fresh /\ TurnOrder /\ Position /\ RightBlock

-----------------------------------------------------------------------------
LEMMA Constants ==
  /\ Jobs \in Nat \ {0} /\ BlockSize \in Nat \ {0} /\ CancelTasks \notin Nat
  /\ \A t \in TaskIDs : t \in Nat
  BY ReaderAssumption DEF TaskIDs, CancelTasks

LEMMA InitIInv == Init => IInv
<1> SUFFICES ASSUME Init PROVE IInv
  OBVIOUS
<1>1. \A t \in TaskIDs : pc[t] = "none" /\ decoded[t] = 0 /\ skipped[t] = FALSE /\ err[t] = FALSE
  BY DEF Init
<1>2. TurnTypes
  <2>1. lastLen \in Nat
    BY Constants DEF Init
  <2>2. pc \in [TaskIDs -> PCs] /\ held \in [TaskIDs -> Nat] /\ decoded \in [TaskIDs -> Nat]
    BY DEF Init, PCs
  <2>3. skipped \in [TaskIDs -> BOOLEAN] /\ err \in [TaskIDs -> BOOLEAN]
    BY DEF Init
  <2> QED
    BY <2>1, <2>2, <2>3 DEF Init, TurnTypes
<1>3. BatchShape /\ Fresh /\ RightBlock
  BY <1>1 DEF BatchShape, Fresh, RightBlock
<1>4. TurnOrder
  BY <1>1 DEF Init, TurnOrder, HasTurn, Passed
<1>5. Position
  BY <1>1 DEF Init, Position
<1> QED
  BY <1>2, <1>3, <1>4, <1>5 DEF IInv

(* Steps that have nothing to do with the tasks. *)
LEMMA OutsideIInv ==
  ASSUME IInv, UNCHANGED <<ctx, lastLen, blockID, ibsPos, firstID, taskVars>>,
         UNCHANGED mainPc \/ (mainPc # "batch" /\ mainPc' # "batch")
  PROVE  IInv'
<1>1. UNCHANGED <<ctx, lastLen, blockID, ibsPos, firstID, pc, held, decoded, skipped, err>>
  BY DEF taskVars
<1>2. UNCHANGED Batch
  BY <1>1 DEF Batch, NbTasks, NbInputBlocks
<1>3. TurnTypes' /\ Fresh' /\ RightBlock'
  BY <1>1 DEF IInv, TurnTypes, Fresh, RightBlock, Left, CurrentBlockID
<1>4. BatchShape'
  BY <1>1, <1>2 DEF IInv, BatchShape
<1>5. TurnOrder'
  BY <1>1 DEF IInv, TurnOrder, HasTurn, Passed, Left, CancelsOthers, NothingToShow, CurrentBlockID,
     MyTurn
<1>6. Position'
  BY <1>1 DEF IInv, Position, CancelsOthers, NothingToShow, CurrentBlockID, MyTurn
<1> QED
  BY <1>3, <1>4, <1>5, <1>6 DEF IInv

LEMMA CallerIInv ==
  ASSUME IInv, Client \/ Copy \/ ProcessCancelled \/ SkipResult \/ KeepResult
  PROVE  IInv'
<1>1. UNCHANGED <<ctx, lastLen, blockID, ibsPos, firstID, taskVars>>
  BY DEF Client, Close, Read, Copy, ProcessCancelled, SkipResult, KeepResult, theStream, mainVars
<1>2. UNCHANGED mainPc \/ (mainPc # "batch" /\ mainPc' # "batch")
  BY DEF Client, Close, Read, Copy, ProcessCancelled, SkipResult, KeepResult, mainVars
<1> QED
  BY <1>1, <1>2, OutsideIInv

(* A batch starts behind the last block that was passed on. *)
LEMMA StartBatchIInv ==
  ASSUME IInv, StartBatch
  PROVE  IInv'
<1>1. /\ mainPc = "process" /\ blockID # CancelTasks /\ mainPc' = "batch" /\ firstID' = blockID
      /\ pc' = [t \in TaskIDs |-> IF t \in Batch THEN "turn" ELSE "none"]
      /\ UNCHANGED <<ctx, lastLen, blockID, ibsPos, held, decoded, skipped, err>>
  BY DEF StartBatch, theStream
<1>2. \A t \in TaskIDs : pc[t] = "none"
  BY <1>1 DEF IInv, BatchShape
<1>3. \A t \in TaskIDs : pc'[t] = IF t \in Batch THEN "turn" ELSE "none"
  BY <1>1
<1>4. \A t \in TaskIDs : ~HasTurn(t)' /\ ~Passed(t)' /\ ~Left(t)'
  BY <1>3 DEF HasTurn, Passed, Left
<1>5. blockID \in Nat /\ ibsPos = blockID + 1
  BY <1>1, <1>2 DEF IInv, TurnTypes, Position
<1>6. TurnTypes'
  BY <1>1, <1>5 DEF IInv, TurnTypes, PCs
<1>7. UNCHANGED Batch
  BY <1>1 DEF Batch, NbTasks, NbInputBlocks
<1>8. BatchShape'
  BY <1>1, <1>3, <1>7 DEF BatchShape
<1>9. Fresh' /\ RightBlock'
  BY <1>1, <1>2, <1>3 DEF IInv, Fresh, RightBlock, Left
<1>10. TurnOrder'
  <2>1. \A u \in TaskIDs : ~(CurrentBlockID(u)' <= blockID')
    BY <1>1, <1>5, Constants DEF CurrentBlockID
  <2> QED
    BY <1>4, <2>1 DEF TurnOrder
<1>11. Position'
  BY <1>1, <1>3, <1>5 DEF Position
<1> QED
  BY <1>6, <1>8, <1>9, <1>10, <1>11 DEF IInv

(* A batch ends with all its tasks. *)
LEMMA EndIInv ==
  ASSUME IInv, FailBatch \/ EndBatch
  PROVE  IInv'
<1>1. /\ mainPc = "batch" /\ \A t \in Batch : pc[t] = "done"
      /\ mainPc' \in {"idle", "process", "copy"}
      /\ NoTasks /\ UNCHANGED <<ctx, lastLen, blockID, ibsPos, firstID>>
  BY DEF FailBatch, EndBatch, Waited, theStream
<1>2. \A t \in TaskIDs : /\ pc'[t] = "none" /\ decoded'[t] = 0
                         /\ skipped'[t] = FALSE /\ err'[t] = FALSE
  BY <1>1 DEF NoTasks
<1>3. TurnTypes'
  <2>1. pc' \in [TaskIDs -> PCs] /\ held' \in [TaskIDs -> Nat] /\ decoded' \in [TaskIDs -> Nat]
    BY <1>1 DEF NoTasks, PCs
  <2>2. skipped' \in [TaskIDs -> BOOLEAN] /\ err' \in [TaskIDs -> BOOLEAN]
    BY <1>1 DEF NoTasks
  <2> QED
    BY <1>1, <2>1, <2>2 DEF IInv, TurnTypes
<1>4. BatchShape' /\ Fresh' /\ RightBlock'
  BY <1>2 DEF BatchShape, Fresh, RightBlock
<1>5. TurnOrder'
  BY <1>1, <1>2 DEF TurnOrder, HasTurn, Passed
<1>6. \A t \in TaskIDs : pc[t] \in {"none", "done"}
  BY <1>1 DEF IInv, BatchShape
<1>7. blockID # CancelTasks => ibsPos = blockID + 1
  BY <1>6 DEF IInv, Position
<1>8. Position'
  BY <1>1, <1>2, <1>7 DEF Position
<1> QED
  BY <1>3, <1>4, <1>5, <1>8 DEF IInv

-----------------------------------------------------------------------------
(* The steps of a task. *)

(* What a step of task t does to pc: only its own place changes. *)
LEMMA Moved ==
  ASSUME TurnTypes, NEW t \in TaskIDs, NEW to \in PCs, Move(t, to)
  PROVE  /\ pc' \in [TaskIDs -> PCs] /\ pc'[t] = to
         /\ \A u \in TaskIDs \ {t} : pc'[u] = pc[u]
  BY DEF TurnTypes, Move

LEMMA FailMoved ==
  ASSUME TurnTypes, NEW t \in TaskIDs, Fail(t)
  PROVE  /\ pc' \in [TaskIDs -> PCs] /\ pc'[t] = "defer"
         /\ err' \in [TaskIDs -> BOOLEAN] /\ err'[t] = TRUE
         /\ \A u \in TaskIDs \ {t} : pc'[u] = pc[u] /\ err'[u] = err[u]
  BY DEF TurnTypes, Fail, Move, PCs

(* Two tasks with the same number are the same. *)
LEMMA OwnNumber ==
  ASSUME IInv, NEW t \in TaskIDs, NEW u \in TaskIDs
  PROVE  /\ CurrentBlockID(t) \in Nat /\ CurrentBlockID(t) > 0
         /\ CurrentBlockID(t) = CurrentBlockID(u) => t = u
         /\ CurrentBlockID(u) < CurrentBlockID(t) <=> u < t
         /\ MyTurn(t) /\ MyTurn(u) => t = u
         /\ MyTurn(t) <=> CurrentBlockID(t) = blockID + 1
         /\ MyTurn(t) => blockID # CancelTasks
<1>1. firstID \in Nat /\ t \in Nat /\ u \in Nat
  BY Constants DEF IInv, TurnTypes
<1>2. blockID \in Nat \cup {-1}
  BY DEF IInv, TurnTypes, CancelTasks
<1> QED
  BY <1>1, <1>2 DEF CurrentBlockID, MyTurn, CancelTasks

(* The task that has the turn is the only one: those before it have left,  *)
(* and those behind it have not begun.                                     *)
LEMMA AloneInTurn ==
  ASSUME IInv, NEW t \in TaskIDs, HasTurn(t), NEW u \in TaskIDs, HasTurn(u)
  PROVE  u = t
<1>1. ~Left(t) /\ ~Left(u)
  BY DEF HasTurn, Left
<1>2. ~(u < t) /\ ~(t < u)
  BY <1>1 DEF IInv, TurnOrder
<1> QED
  BY <1>2, Constants

(* A task that looks while it is its turn is the only one to take it. *)
LEMMA AwaitTurnIInv ==
  ASSUME IInv, NEW t \in TaskIDs, AwaitTurn(t)
  PROVE  IInv'
<1>1. /\ pc[t] = "turn"
      /\ UNCHANGED <<ctx, lastLen, blockID, ibsPos, mainPc, firstID, held, decoded, skipped, err>>
  BY DEF AwaitTurn, theStream, mainVars
<1>2. decoded[t] = 0 /\ skipped[t] = FALSE /\ err[t] = FALSE
  BY <1>1 DEF IInv, Fresh, Left
<1>3. UNCHANGED Batch
  BY <1>1 DEF Batch, NbTasks, NbInputBlocks
<1>4. \A u \in TaskIDs : CurrentBlockID(u)' = CurrentBlockID(u)
  BY <1>1 DEF CurrentBlockID
<1>5. \A u \in TaskIDs : MyTurn(u)' <=> MyTurn(u)
  BY <1>1 DEF MyTurn, CurrentBlockID
<1>6. ASSUME NEW to \in {"defer", "size"}, Move(t, to)
      PROVE  /\ TurnTypes' /\ BatchShape' /\ Fresh' /\ RightBlock'
             /\ pc'[t] = to /\ \A u \in TaskIDs \ {t} : pc'[u] = pc[u]
  <2>1. /\ pc' \in [TaskIDs -> PCs] /\ pc'[t] = to
        /\ \A u \in TaskIDs \ {t} : pc'[u] = pc[u]
    BY <1>6, Moved DEF IInv, PCs
  <2>2. TurnTypes'
    BY <1>1, <2>1 DEF IInv, TurnTypes
  <2>3. BatchShape'
    BY <1>1, <1>3, <2>1 DEF IInv, BatchShape
  <2>4. Fresh'
    BY <1>1, <1>2, <2>1 DEF IInv, Fresh, Left
  <2>5. RightBlock'
    BY <1>1, <1>4, <2>1 DEF IInv, RightBlock
  <2> QED
    BY <2>1, <2>2, <2>3, <2>4, <2>5
<1>7. \A u \in TaskIDs : CancelsOthers(u)' <=> CancelsOthers(u)
  BY <1>1 DEF CancelsOthers, NothingToShow
<1>8. mainPc = "batch"
  BY <1>1 DEF IInv, BatchShape
<1>9. CASE blockID = CancelTasks /\ Move(t, "defer")
  <2>1. pc'[t] = "defer" /\ \A u \in TaskIDs \ {t} : pc'[u] = pc[u]
    BY <1>6, <1>9
  <2>2. CancelsOthers(t)
    BY <1>2 DEF CancelsOthers, NothingToShow
  <2>3. \A u \in TaskIDs :
          /\ HasTurn(u)' => HasTurn(u)
          /\ Passed(u)' => Passed(u)
          /\ Left(u) => Left(u)'
    BY <1>7, <2>1, <2>2 DEF HasTurn, Passed, Left
  <2>4. TurnOrder'
    BY <1>1, <1>9, <2>3 DEF IInv, TurnOrder
  <2>5. Position'
    BY <1>1, <1>4, <1>9, <2>1 DEF IInv, Position
  <2> QED
    BY <1>6, <1>9, <2>4, <2>5 DEF IInv
<1>10. CASE blockID # CancelTasks /\ MyTurn(t) /\ Move(t, "size")
  <2>1. pc'[t] = "size" /\ \A u \in TaskIDs \ {t} : pc'[u] = pc[u]
    BY <1>6, <1>10
  <2>2. \A u \in TaskIDs :
          /\ HasTurn(u)' => HasTurn(u) \/ u = t
          /\ Passed(u)' => Passed(u)
          /\ Left(u) <=> Left(u)'
    BY <1>1, <1>7, <2>1 DEF HasTurn, Passed, Left
  <2>3. \A u \in TaskIDs : u < t => Left(u)
    <3> SUFFICES ASSUME NEW u \in TaskIDs, u < t PROVE Left(u)
      OBVIOUS
    <3>1. CurrentBlockID(u) <= blockID
      BY <1>10, OwnNumber DEF IInv, TurnTypes
    <3> QED
      BY <1>8, <1>10, <3>1 DEF IInv, TurnOrder
  <2>4. TurnOrder'
    BY <1>1, <1>4, <1>5, <1>10, <2>2, <2>3 DEF IInv, TurnOrder
  <2>5. ibsPos = CurrentBlockID(t)
    <3>1. \A u \in TaskIDs : MyTurn(u) => u = t
      BY <1>10, OwnNumber
    <3>2. ibsPos = blockID + 1
      BY <1>1, <1>10, <3>1 DEF IInv, Position
    <3> QED
      BY <1>10, <3>2, OwnNumber
  <2>6. Position'
    <3>1. ibsPos = blockID + 1
      BY <1>10, <2>5, OwnNumber
    <3> QED
      BY <1>1, <1>4, <2>1, <2>5, <3>1 DEF IInv, Position
  <2> QED
    BY <1>6, <1>10, <2>4, <2>6 DEF IInv
<1> QED
  BY <1>9, <1>10 DEF AwaitTurn

(* A task that fails in its turn, or finds the end mark, leaves it to its  *)
(* deferred function to cancel the others; nobody else takes the turn.     *)
LEMMA GivesUp ==
  ASSUME IInv, NEW t \in TaskIDs, HasTurn(t), pc'[t] = "defer", CancelsOthers(t)',
         UNCHANGED <<blockID, firstID, mainPc>>,
         \A u \in TaskIDs \ {t} : pc'[u] = pc[u] /\ (CancelsOthers(u)' <=> CancelsOthers(u))
  PROVE  TurnOrder' /\ Position'
<1>1. \A u \in TaskIDs : /\ CurrentBlockID(u)' = CurrentBlockID(u)
                         /\ MyTurn(u)' <=> MyTurn(u)
  BY DEF CurrentBlockID, MyTurn
<1>2. \A u \in TaskIDs : ~HasTurn(u)'
  BY AloneInTurn DEF HasTurn
<1>3. \A u \in TaskIDs : /\ Passed(u)' => Passed(u)
                         /\ Left(u) => Left(u)'
  BY DEF Passed, Left
<1>4. TurnOrder'
  BY <1>1, <1>2, <1>3 DEF IInv, TurnOrder
<1>5. \A u \in TaskIDs : pc'[u] \notin {"size", "data", "pass"}
  BY <1>2 DEF HasTurn
<1>6. blockID' # CancelTasks => MyTurn(t)'
  BY <1>1 DEF IInv, TurnOrder
<1>7. Position'
  BY <1>5, <1>6 DEF Position
<1> QED
  BY <1>4, <1>7

LEMMA ReadSizeIInv ==
  ASSUME IInv, NEW t \in TaskIDs, ReadSize(t)
  PROVE  IInv'
<1>1. /\ pc[t] = "size"
      /\ UNCHANGED <<ctx, lastLen, blockID, mainPc, firstID, held, decoded, skipped>>
  BY DEF ReadSize, theStream, mainVars
<1>2. HasTurn(t) /\ ibsPos \in Nat
  BY <1>1 DEF IInv, TurnTypes, HasTurn
<1>3. UNCHANGED Batch /\ \A u \in TaskIDs : CurrentBlockID(u)' = CurrentBlockID(u)
  BY <1>1 DEF Batch, NbTasks, NbInputBlocks, CurrentBlockID
<1>4. decoded[t] = 0 /\ skipped[t] = FALSE /\ err[t] = FALSE
  BY <1>1 DEF IInv, Fresh, Left
<1>5. ASSUME pc' \in [TaskIDs -> PCs], pc'[t] \in {"data", "defer"}, ibsPos' \in Nat,
             err' \in [TaskIDs -> BOOLEAN], pc'[t] = "data" => err'[t] = FALSE,
             \A u \in TaskIDs \ {t} : pc'[u] = pc[u] /\ err'[u] = err[u]
      PROVE  TurnTypes' /\ BatchShape' /\ Fresh' /\ RightBlock'
  <2>1. TurnTypes'
    BY <1>1, <1>5 DEF IInv, TurnTypes
  <2>2. BatchShape'
    BY <1>1, <1>3, <1>5 DEF IInv, BatchShape
  <2>3. Fresh'
    BY <1>1, <1>4, <1>5 DEF IInv, Fresh, Left
  <2>4. RightBlock'
    BY <1>1, <1>3, <1>5 DEF IInv, RightBlock
  <2> QED
    BY <2>1, <2>2, <2>3, <2>4
<1>6. CASE Move(t, "data") /\ UNCHANGED <<ibsPos, err>>
  <2>1. /\ pc' \in [TaskIDs -> PCs] /\ pc'[t] = "data"
        /\ \A u \in TaskIDs \ {t} : pc'[u] = pc[u]
    BY <1>6, Moved DEF IInv, PCs
  <2>2. err' \in [TaskIDs -> BOOLEAN] /\ err'[t] = FALSE
    BY <1>4, <1>6 DEF IInv, TurnTypes
  <2>3. TurnTypes' /\ BatchShape' /\ Fresh' /\ RightBlock'
    BY <1>2, <1>5, <1>6, <2>1, <2>2
  <2>4. \A u \in TaskIDs : /\ CancelsOthers(u)' <=> CancelsOthers(u)
                           /\ MyTurn(u)' <=> MyTurn(u)
    BY <1>1, <1>3, <1>6 DEF CancelsOthers, NothingToShow, MyTurn
  <2>5. \A u \in TaskIDs : /\ HasTurn(u)' <=> HasTurn(u)
                           /\ Passed(u)' <=> Passed(u)
                           /\ Left(u)' <=> Left(u)
    BY <1>1, <2>1, <2>4 DEF HasTurn, Passed, Left
  <2>6. TurnOrder'
    BY <1>1, <1>3, <2>4, <2>5 DEF IInv, TurnOrder
  <2>7. Position'
    BY <1>1, <1>3, <1>6, <2>1, <2>4 DEF IInv, Position
  <2> QED
    BY <2>3, <2>6, <2>7 DEF IInv
<1>7. CASE Move(t, "defer") /\ ibsPos' = ibsPos + 1 /\ UNCHANGED err
  <2>1. /\ pc' \in [TaskIDs -> PCs] /\ pc'[t] = "defer"
        /\ \A u \in TaskIDs \ {t} : pc'[u] = pc[u]
    BY <1>7, Moved DEF IInv, PCs
  <2>2. err' \in [TaskIDs -> BOOLEAN]
    BY <1>7 DEF IInv, TurnTypes
  <2>3. TurnTypes' /\ BatchShape' /\ Fresh' /\ RightBlock'
    BY <1>2, <1>5, <1>7, <2>1, <2>2
  <2>4. CancelsOthers(t)'
    BY <1>1, <1>4, <1>7 DEF CancelsOthers, NothingToShow
  <2>5. \A u \in TaskIDs : CancelsOthers(u)' <=> CancelsOthers(u)
    BY <1>1, <1>7 DEF CancelsOthers, NothingToShow
  <2>6. TurnOrder' /\ Position'
    BY <1>1, <1>2, <2>1, <2>4, <2>5, GivesUp
  <2> QED
    BY <2>3, <2>6 DEF IInv
<1>8. CASE Fail(t) /\ UNCHANGED ibsPos
  <2>1. /\ pc' \in [TaskIDs -> PCs] /\ pc'[t] = "defer"
        /\ err' \in [TaskIDs -> BOOLEAN] /\ err'[t] = TRUE
        /\ \A u \in TaskIDs \ {t} : pc'[u] = pc[u] /\ err'[u] = err[u]
    BY <1>8, FailMoved DEF IInv
  <2>2. TurnTypes' /\ BatchShape' /\ Fresh' /\ RightBlock'
    BY <1>2, <1>5, <1>8, <2>1
  <2>3. CancelsOthers(t)'
    BY <2>1 DEF CancelsOthers
  <2>4. \A u \in TaskIDs \ {t} : CancelsOthers(u)' <=> CancelsOthers(u)
    BY <1>1, <2>1 DEF CancelsOthers, NothingToShow
  <2>5. TurnOrder' /\ Position'
    BY <1>1, <1>2, <2>1, <2>3, <2>4, GivesUp
  <2> QED
    BY <2>2, <2>5 DEF IInv
<1> QED
  BY <1>6, <1>7, <1>8 DEF ReadSize

(* The block that is read is the one of the task. *)
LEMMA ReadDataIInv ==
  ASSUME IInv, NEW t \in TaskIDs, ReadData(t)
  PROVE  IInv'
<1>1. /\ pc[t] = "data" /\ ibsPos' = ibsPos + 1 /\ held' = [held EXCEPT ![t] = ibsPos]
      /\ UNCHANGED <<ctx, lastLen, blockID, mainPc, firstID, decoded, skipped>>
  BY DEF ReadData, theStream, mainVars
<1>2. HasTurn(t) /\ ibsPos \in Nat /\ ibsPos = CurrentBlockID(t)
  BY <1>1 DEF IInv, TurnTypes, HasTurn, Position
<1>3. UNCHANGED Batch /\ \A u \in TaskIDs : CurrentBlockID(u)' = CurrentBlockID(u)
  BY <1>1 DEF Batch, NbTasks, NbInputBlocks, CurrentBlockID
<1>4. decoded[t] = 0 /\ skipped[t] = FALSE /\ err[t] = FALSE
  BY <1>1 DEF IInv, Fresh, Left
<1>5. /\ held' \in [TaskIDs -> Nat] /\ held'[t] = ibsPos
      /\ \A u \in TaskIDs \ {t} : held'[u] = held[u]
  BY <1>1, <1>2 DEF IInv, TurnTypes
<1>6. ASSUME pc' \in [TaskIDs -> PCs], pc'[t] \in {"pass", "defer"},
             err' \in [TaskIDs -> BOOLEAN], pc'[t] = "pass" => err'[t] = FALSE,
             \A u \in TaskIDs \ {t} : pc'[u] = pc[u] /\ err'[u] = err[u]
      PROVE  TurnTypes' /\ BatchShape' /\ Fresh' /\ RightBlock'
  <2>1. TurnTypes'
    BY <1>1, <1>2, <1>5, <1>6 DEF IInv, TurnTypes
  <2>2. BatchShape'
    BY <1>1, <1>3, <1>6 DEF IInv, BatchShape
  <2>3. Fresh'
    BY <1>1, <1>4, <1>6 DEF IInv, Fresh, Left
  <2>4. RightBlock'
    BY <1>2, <1>3, <1>5, <1>6 DEF IInv, RightBlock
  <2> QED
    BY <2>1, <2>2, <2>3, <2>4
<1>7. CASE Move(t, "pass") /\ UNCHANGED err
  <2>1. /\ pc' \in [TaskIDs -> PCs] /\ pc'[t] = "pass"
        /\ \A u \in TaskIDs \ {t} : pc'[u] = pc[u]
    BY <1>7, Moved DEF IInv, PCs
  <2>2. err' \in [TaskIDs -> BOOLEAN] /\ err'[t] = FALSE
    BY <1>4, <1>7 DEF IInv, TurnTypes
  <2>3. TurnTypes' /\ BatchShape' /\ Fresh' /\ RightBlock'
    BY <1>6, <1>7, <2>1, <2>2
  <2>4. \A u \in TaskIDs : /\ CancelsOthers(u)' <=> CancelsOthers(u)
                           /\ MyTurn(u)' <=> MyTurn(u)
    BY <1>1, <1>3, <1>7 DEF CancelsOthers, NothingToShow, MyTurn
  <2>5. \A u \in TaskIDs : /\ HasTurn(u)' <=> HasTurn(u)
                           /\ Passed(u)' <=> Passed(u)
                           /\ Left(u)' <=> Left(u)
    BY <1>1, <2>1, <2>4 DEF HasTurn, Passed, Left
  <2>6. TurnOrder'
    BY <1>1, <1>3, <2>4, <2>5 DEF IInv, TurnOrder
  <2>7. \A u \in TaskIDs \ {t} : pc'[u] \notin {"size", "data", "pass"}
    BY <1>2, <2>1, AloneInTurn DEF HasTurn
  <2>8. blockID' # CancelTasks => MyTurn(t)'
    BY <1>1, <1>2, <2>4 DEF IInv, TurnOrder
  <2>9. Position'
    BY <1>1, <1>2, <1>3, <2>1, <2>7, <2>8 DEF Position
  <2> QED
    BY <2>3, <2>6, <2>9 DEF IInv
<1>8. CASE Fail(t)
  <2>1. /\ pc' \in [TaskIDs -> PCs] /\ pc'[t] = "defer"
        /\ err' \in [TaskIDs -> BOOLEAN] /\ err'[t] = TRUE
        /\ \A u \in TaskIDs \ {t} : pc'[u] = pc[u] /\ err'[u] = err[u]
    BY <1>8, FailMoved DEF IInv
  <2>2. TurnTypes' /\ BatchShape' /\ Fresh' /\ RightBlock'
    BY <1>6, <2>1
  <2>3. CancelsOthers(t)'
    BY <2>1 DEF CancelsOthers
  <2>4. \A u \in TaskIDs \ {t} : CancelsOthers(u)' <=> CancelsOthers(u)
    BY <1>1, <2>1 DEF CancelsOthers, NothingToShow
  <2>5. TurnOrder' /\ Position'
    BY <1>1, <1>2, <2>1, <2>3, <2>4, GivesUp
  <2> QED
    BY <2>2, <2>5 DEF IInv
<1> QED
  BY <1>7, <1>8 DEF ReadData

(* The turn goes from the only task that has it to the next one, also over *)
(* a cancellation: the tasks before it have left.                          *)
LEMMA PassTurnIInv ==
  ASSUME IInv, NEW t \in TaskIDs, PassTurn(t)
  PROVE  IInv'
<1> DEFINE skip == MustSkip(CurrentBlockID(t))
<1>1. /\ pc[t] = "pass" /\ blockID' = CurrentBlockID(t)
      /\ skipped' = [skipped EXCEPT ![t] = skip]
      /\ Move(t, IF skip THEN "defer" ELSE "decode")
      /\ UNCHANGED <<ctx, lastLen, ibsPos, mainPc, firstID, held, decoded, err>>
  BY DEF PassTurn, theStream, mainVars
<1>2. HasTurn(t) /\ ibsPos = CurrentBlockID(t) + 1 /\ held[t] = CurrentBlockID(t)
  BY <1>1 DEF IInv, HasTurn, Position, RightBlock
<1>3. UNCHANGED Batch /\ \A u \in TaskIDs : CurrentBlockID(u)' = CurrentBlockID(u)
  BY <1>1 DEF Batch, NbTasks, NbInputBlocks, CurrentBlockID
<1>4. decoded[t] = 0 /\ err[t] = FALSE
  BY <1>1 DEF IInv, Fresh, Left
<1>5. skip \in BOOLEAN
  BY Zenon DEF MustSkip
<1>6. /\ skipped' \in [TaskIDs -> BOOLEAN] /\ skipped'[t] = skip
      /\ \A u \in TaskIDs \ {t} : skipped'[u] = skipped[u]
  <2> HIDE DEF skip
  <2> QED
    BY <1>1, <1>5 DEF IInv, TurnTypes
<1>7. /\ pc' \in [TaskIDs -> PCs] /\ pc'[t] = IF skip THEN "defer" ELSE "decode"
      /\ \A u \in TaskIDs \ {t} : pc'[u] = pc[u]
  <2> HIDE DEF skip
  <2>1. (IF skip THEN "defer" ELSE "decode") \in PCs
    BY DEF PCs
  <2> QED
    BY <1>1, <2>1, Moved DEF IInv
<1> HIDE DEF skip
<1>8. Passed(t)' /\ Left(t)'
  BY <1>1, <1>4, <1>6, <1>7 DEF Passed, Left, CancelsOthers, NothingToShow
<1>9. \A u \in TaskIDs \ {t} : /\ CancelsOthers(u)' <=> CancelsOthers(u)
                               /\ HasTurn(u)' <=> HasTurn(u)
                               /\ Left(u)' <=> Left(u)
  BY <1>1, <1>6, <1>7 DEF CancelsOthers, NothingToShow, HasTurn, Left
<1>10. \A u \in TaskIDs \ {t} : Passed(u)' <=> Passed(u)
  BY <1>7, <1>9 DEF Passed
<1>11. TurnTypes'
  <2>1. CurrentBlockID(t) \in Nat
    BY OwnNumber
  <2> QED
    BY <1>1, <1>6, <1>7, <2>1 DEF IInv, TurnTypes
<1>12. BatchShape'
  BY <1>1, <1>3, <1>7 DEF IInv, BatchShape
<1>13. Fresh'
  <2> SUFFICES ASSUME NEW u \in TaskIDs, ~Left(u)'
               PROVE  decoded'[u] = 0 /\ skipped'[u] = FALSE /\ err'[u] = FALSE
    BY DEF Fresh, Left
  <2>1. u # t /\ ~Left(u)
    BY <1>8, <1>9
  <2> QED
    BY <1>1, <1>6, <2>1 DEF IInv, Fresh
<1>14. RightBlock'
  BY <1>1, <1>2, <1>3, <1>7 DEF IInv, RightBlock
<1>15. \A u \in TaskIDs : ~HasTurn(u)'
  <2>1. ~HasTurn(t)'
    BY <1>7 DEF HasTurn
  <2> QED
    BY <1>2, <1>9, <2>1, AloneInTurn
<1>16. \A u \in TaskIDs : u < t => Left(u)
  BY <1>2 DEF IInv, TurnOrder
<1>17. TurnOrder'
  <2>1. ASSUME NEW v \in TaskIDs, Passed(v)', NEW u \in TaskIDs, u < v
        PROVE  Left(u)'
    <3>1. CASE v = t
      BY <1>8, <1>9, <1>16, <2>1, <3>1
    <3>2. CASE v # t
      <4>1. Left(u)
        BY <1>10, <2>1, <3>2 DEF IInv, TurnOrder
      <4> QED
        BY <1>8, <1>9, <4>1
    <3> QED
      BY <3>1, <3>2
  <2>2. ASSUME NEW u \in TaskIDs, CurrentBlockID(u)' <= blockID'
        PROVE  Left(u)'
    <3>1. u = t \/ u < t
      BY <1>1, <1>3, <2>2, OwnNumber
    <3> QED
      BY <1>8, <1>9, <1>16, <3>1
  <2>3. ASSUME NEW v \in TaskIDs, Passed(v)'
        PROVE  CurrentBlockID(v)' <= blockID'
    <3>1. CASE v = t
      BY <1>1, <1>3, <3>1, OwnNumber
    <3>2. CASE v # t
      <4>1. ~(t < v)
        <5>1. ~Left(t)
          BY <1>1 DEF Left
        <5> QED
          BY <1>10, <2>3, <3>2, <5>1 DEF IInv, TurnOrder
      <4>2. v < t
        BY <3>2, <4>1, Constants
      <4> QED
        BY <1>1, <1>3, <4>2, OwnNumber
    <3> QED
      BY <3>1, <3>2
  <2>4. \A v, u \in TaskIDs : (HasTurn(v)' \/ Passed(v)') /\ u < v => Left(u)'
    BY <1>15, <2>1
  <2>5. \A u \in TaskIDs : CurrentBlockID(u)' <= blockID' => Left(u)'
    BY <2>2
  <2>6. \A v \in TaskIDs : Passed(v)' => CurrentBlockID(v)' <= blockID'
    BY <2>3
  <2> QED
    BY <1>15, <2>4, <2>5, <2>6 DEF TurnOrder
<1>18. Position'
  <2>1. \A u \in TaskIDs : pc'[u] \notin {"size", "data", "pass"}
    BY <1>15 DEF HasTurn
  <2>2. ibsPos' = blockID' + 1
    BY <1>1, <1>2
  <2> QED
    BY <2>1, <2>2 DEF Position
<1> QED
  BY <1>11, <1>12, <1>13, <1>14, <1>17, <1>18 DEF IInv

(* What a task decodes is its own: whether it shows something or fails, it *)
(* has no turn to lose.                                                    *)
LEMMA DecodeIInv ==
  ASSUME IInv, NEW t \in TaskIDs, Decode(t)
  PROVE  IInv'
<1>1. /\ pc[t] = "decode"
      /\ UNCHANGED <<ctx, lastLen, blockID, ibsPos, mainPc, firstID, held, skipped>>
  BY DEF Decode, theStream, mainVars
<1>2. UNCHANGED Batch /\ \A u \in TaskIDs : CurrentBlockID(u)' = CurrentBlockID(u)
  BY <1>1 DEF Batch, NbTasks, NbInputBlocks, CurrentBlockID
<1>3. /\ pc' \in [TaskIDs -> PCs] /\ pc'[t] = "defer"
      /\ \A u \in TaskIDs \ {t} : pc'[u] = pc[u]
  <2>1. Move(t, "defer")
    BY DEF Decode, Fail
  <2> QED
    BY <2>1, Moved DEF IInv, PCs
<1>4. /\ err' \in [TaskIDs -> BOOLEAN]
      /\ \A u \in TaskIDs \ {t} : err'[u] = err[u]
  <2>1. Fail(t) \/ UNCHANGED err
    BY DEF Decode
  <2> QED
    BY <2>1, FailMoved DEF IInv, TurnTypes
<1>5. /\ decoded' \in [TaskIDs -> Nat]
      /\ \A u \in TaskIDs \ {t} : decoded'[u] = decoded[u]
  <2>1. DecodedLen(held[t]) \in Nat
    BY Constants DEF DecodedLen, BlockLen, IInv, TurnTypes
  <2>2. UNCHANGED decoded \/ decoded' = [decoded EXCEPT ![t] = DecodedLen(held[t])]
    BY DEF Decode
  <2> QED
    BY <2>1, <2>2 DEF IInv, TurnTypes
<1>6. Passed(t) /\ Left(t) /\ Left(t)'
  BY <1>1, <1>3 DEF Passed, Left
<1>7. \A u \in TaskIDs \ {t} : CancelsOthers(u)' <=> CancelsOthers(u)
  BY <1>1, <1>4, <1>5 DEF CancelsOthers, NothingToShow
<1>8. \A u \in TaskIDs : /\ HasTurn(u)' <=> HasTurn(u)
                         /\ Left(u)' <=> Left(u)
  BY <1>1, <1>3 DEF HasTurn, Left
<1>9. \A u \in TaskIDs : Passed(u)' => Passed(u)
  BY <1>3, <1>6, <1>7 DEF Passed
<1>10. \A u \in TaskIDs : MyTurn(u)' <=> MyTurn(u)
  BY <1>1 DEF MyTurn, CurrentBlockID
<1>11. TurnTypes' /\ BatchShape'
  BY <1>1, <1>2, <1>3, <1>4, <1>5 DEF IInv, TurnTypes, BatchShape
<1>12. Fresh'
  <2> SUFFICES ASSUME NEW u \in TaskIDs, ~Left(u)'
               PROVE  decoded'[u] = 0 /\ skipped'[u] = FALSE /\ err'[u] = FALSE
    BY DEF Fresh, Left
  <2>1. u # t /\ ~Left(u)
    BY <1>6, <1>8
  <2> QED
    BY <1>1, <1>4, <1>5, <2>1 DEF IInv, Fresh
<1>13. RightBlock'
  BY <1>1, <1>2, <1>3 DEF IInv, RightBlock
<1>14. TurnOrder'
  BY <1>1, <1>2, <1>8, <1>9, <1>10 DEF IInv, TurnOrder
<1>15. Position'
  BY <1>1, <1>2, <1>3, <1>7, <1>10 DEF IInv, Position
<1> QED
  BY <1>11, <1>12, <1>13, <1>14, <1>15 DEF IInv

(* The deferred function stores nothing but the cancellation: a task that  *)
(* passed has a number that the counter has reached.                       *)
LEMMA DeferStores ==
  ASSUME IInv, NEW t \in TaskIDs, Defer(t)
  PROVE  blockID' = IF CancelsOthers(t) THEN CancelTasks ELSE blockID
<1>1. pc[t] = "defer"
  BY DEF Defer
<1>2. ~CancelsOthers(t) => ~MyTurn(t)
  <2>1. CASE blockID = CancelTasks
    BY <2>1, OwnNumber
  <2>2. CASE blockID # CancelTasks /\ ~CancelsOthers(t)
    <3>1. CurrentBlockID(t) <= blockID
      BY <1>1, <2>2 DEF IInv, TurnOrder, Passed
    <3>2. CurrentBlockID(t) \in Nat /\ blockID \in Nat
      BY <2>2, OwnNumber DEF IInv, TurnTypes
    <3> QED
      BY <3>1, <3>2, OwnNumber
  <2> QED
    BY <2>1, <2>2
<1> QED
  BY <1>2 DEF Defer

LEMMA DeferIInv ==
  ASSUME IInv, NEW t \in TaskIDs, Defer(t)
  PROVE  IInv'
<1>1. /\ pc[t] = "defer" /\ Move(t, "done")
      /\ UNCHANGED <<ctx, lastLen, ibsPos, mainPc, firstID, held, decoded, skipped, err>>
  BY DEF Defer, theStream, mainVars
<1>2. /\ pc' \in [TaskIDs -> PCs] /\ pc'[t] = "done"
      /\ \A u \in TaskIDs \ {t} : pc'[u] = pc[u]
  BY <1>1, Moved DEF IInv, PCs
<1>3. blockID' = IF CancelsOthers(t) THEN CancelTasks ELSE blockID
  BY DeferStores
<1>4. UNCHANGED Batch /\ \A u \in TaskIDs : CurrentBlockID(u)' = CurrentBlockID(u)
  BY <1>1 DEF Batch, NbTasks, NbInputBlocks, CurrentBlockID
<1>5. \A u \in TaskIDs : CancelsOthers(u)' <=> CancelsOthers(u)
  BY <1>1 DEF CancelsOthers, NothingToShow
<1>6. \A u \in TaskIDs : /\ HasTurn(u)' <=> HasTurn(u)
                         /\ Left(u)' <=> Left(u)
  BY <1>1, <1>2 DEF HasTurn, Left
<1>7. \A u \in TaskIDs : Passed(u)' => Passed(u)
  BY <1>2, <1>5 DEF Passed
<1>8. TurnTypes' /\ BatchShape'
  BY <1>1, <1>2, <1>3, <1>4 DEF IInv, TurnTypes, BatchShape
<1>9. Fresh'
  BY <1>1, <1>6 DEF IInv, Fresh
<1>10. RightBlock'
  BY <1>1, <1>2, <1>4 DEF IInv, RightBlock
<1>11. CASE CancelsOthers(t)
  <2>1. blockID' = CancelTasks
    BY <1>3, <1>11
  <2>2. TurnOrder'
    BY <1>1, <1>4, <1>6, <1>7, <2>1 DEF IInv, TurnOrder
  <2>3. Position'
    BY <1>1, <1>2, <1>4, <2>1 DEF IInv, Position
  <2> QED
    BY <1>8, <1>9, <1>10, <2>2, <2>3 DEF IInv
<1>12. CASE ~CancelsOthers(t)
  <2>1. UNCHANGED blockID
    BY <1>3, <1>12
  <2>2. \A u \in TaskIDs : MyTurn(u)' <=> MyTurn(u)
    BY <1>1, <2>1 DEF MyTurn, CurrentBlockID
  <2>3. TurnOrder'
    BY <1>1, <1>4, <1>6, <1>7, <2>1, <2>2 DEF IInv, TurnOrder
  <2>4. Position'
    BY <1>1, <1>2, <1>4, <1>5, <1>12, <2>1, <2>2 DEF IInv, Position
  <2> QED
    BY <1>8, <1>9, <1>10, <2>3, <2>4 DEF IInv
<1> QED
  BY <1>11, <1>12

-----------------------------------------------------------------------------
LEMMA StepIInv == IInv /\ [Next]_vars => IInv'
<1> SUFFICES ASSUME IInv, [Next]_vars PROVE IInv'
  OBVIOUS
<1>1. CASE Client \/ MainStep
  BY <1>1, CallerIInv, StartBatchIInv, EndIInv DEF MainStep
<1>2. ASSUME NEW t \in TaskIDs, TaskStep(t) PROVE IInv'
  BY <1>2, AwaitTurnIInv, ReadSizeIInv, ReadDataIInv, PassTurnIInv, DecodeIInv, DeferIInv
  DEF TaskStep
<1>3. CASE UNCHANGED vars
  <2>1. UNCHANGED <<ctx, lastLen, blockID, ibsPos, firstID, taskVars, mainPc>>
    BY <1>3 DEF vars, theStream, mainVars
  <2> QED
    BY <2>1, OutsideIInv
<1> QED
  BY <1>1, <1>2, <1>3 DEF Next

LEMMA Invariance == Spec => []IInv
  BY InitIInv, StepIInv, PTL DEF Spec

(* However many tasks a batch has and however they are scheduled, also     *)
(* when a turn is stored over a cancellation, at most one of them reads    *)
(* the shared bitstream (decodingTask.decode, the spin on                  *)
(* processedBlockID).                                                      *)
THEOREM TurnsExclude == Spec => []TurnExclusion
<1>1. IInv => TurnExclusion
  BY AloneInTurn DEF TurnExclusion, ReadsIbs, HasTurn
<1> QED
  BY <1>1, Invariance, PTL

(* The block that a task has read is the one its number says: the numbers  *)
(* go by the counter and the blocks by the bitstream, and the two never    *)
(* part, whatever fails or is skipped (decodingTask.decode).               *)
THEOREM RightBlocks == Spec => []RightBlock
<1>1. IInv => RightBlock
  BY DEF IInv
<1> QED
  BY <1>1, Invariance, PTL

(* When the deferred function of a task that has something to show runs,   *)
(* the turn is past it: what that function would store is never needed.    *)
THEOREM TurnPassed == Spec => []PassedOn
<1>1. ASSUME IInv, NEW t \in TaskIDs, pc[t] = "defer", ~CancelsOthers(t)
      PROVE  ~MyTurn(t)
  <2>1. blockID # CancelTasks => CurrentBlockID(t) <= blockID /\ blockID \in Nat
    BY <1>1 DEF IInv, TurnOrder, TurnTypes, Passed
  <2> QED
    BY <1>1, <2>1, OwnNumber
<1>2. IInv => PassedOn
  BY <1>1 DEF PassedOn
<1> QED
  BY <1>2, Invariance, PTL

-----------------------------------------------------------------------------
(* The blocks of the stream, and the units that are wanted of them. *)

NbBlocks == Len(kinds)

(* The units before the first that is wanted, and the last that is.        *)
Offset == IF From > 1 THEN (From - 1) * BlockSize ELSE 0
Last == IF To > 0 THEN MinOf(Total, (To - 1) * BlockSize) ELSE Total

(* How many units the first k blocks have, and how many of them are wanted. *)
End(k) == IF k = NbBlocks THEN Total ELSE k * BlockSize
WantedOf(n) == IF n < Offset THEN 0 ELSE n - Offset
UpTo(k) == WantedOf(MinOf(Last, End(k)))

-----------------------------------------------------------------------------
(* The inductive invariant. *)

(* The stream and its context do not change. *)
StreamShape ==
  /\ kinds \in Seq(BlockKinds) /\ NbBlocks <= MaxBlocks
  /\ lastLen \in 1 .. BlockSize /\ ending \in EndKinds /\ header \in HeaderKinds
  /\ ctx \in Contexts

(* Where the caller is, and what its locals are there. *)
CallShape ==
  /\ mainPc \in {"idle", "copy", "process", "batch", "panic"}
  /\ ret \in {"none", "ok", "eof", "error"} /\ failed \in BOOLEAN
  /\ closed \in BOOLEAN /\ initialized \in BOOLEAN /\ sized \in BOOLEAN
  /\ remaining \in Nat /\ available \in Nat /\ consumed \in Nat
  /\ result \in 0 .. NbTasks /\ kept \in 0 .. result /\ sum \in Nat
  /\ closed => mainPc = "idle" /\ available = 0
  /\ mainPc \in {"copy", "process", "batch"} => ret = "none"
  /\ mainPc # "batch" => result = 0 /\ kept = 0 /\ sum = 0
  /\ result > 0 => \A t \in Batch : pc[t] = "done"
  /\ failed /\ StopOnError => mainPc = "idle"

BufferShape ==
  buffers \in [BufferIDs -> [1 .. BlockSize -> Units]]

(* Where the tasks are in the stream: none has its turn behind the item    *)
(* after the last block, and only a block that is there is passed on.      *)
Ahead ==
  /\ blockID # CancelTasks => blockID <= NbBlocks
  /\ mainPc = "batch" => firstID <= NbBlocks
  /\ ibsPos \in 1 .. NbBlocks + 2
  /\ \A t \in TaskIDs :
       /\ held[t] <= NbBlocks + 1
       /\ pc[t] = "size" => CurrentBlockID(t) <= NbBlocks + 1
       /\ pc[t] = "data" => \/ CurrentBlockID(t) <= NbBlocks
                            \/ CurrentBlockID(t) = NbBlocks + 1 /\ ending = "torn"
       /\ pc[t] \in {"pass", "decode"} => CurrentBlockID(t) <= NbBlocks

(* What the result of a task says of its block. *)
Finished(t) == pc[t] \in {"defer", "done"}
Outcomes ==
  \A t \in TaskIDs :
    /\ pc[t] = "decode" => /\ decoded[t] = 0 /\ ~skipped[t]
                           /\ ~MustSkip(CurrentBlockID(t))
    /\ skipped[t] => /\ decoded[t] = 0 /\ err[t] = FALSE
                     /\ CurrentBlockID(t) <= NbBlocks /\ MustSkip(CurrentBlockID(t))
    /\ decoded[t] # 0 =>
         /\ CurrentBlockID(t) <= NbBlocks /\ ~MustSkip(CurrentBlockID(t))
         /\ decoded[t] = DecodedLen(CurrentBlockID(t))
         /\ ~err[t] => kinds[CurrentBlockID(t)] \in {"ok", "big"}

(* A block that was decoded stays in the buffer of its task until it moves *)
(* down.                                                                   *)
Contents ==
  \A t \in TaskIDs :
    decoded[t] # 0 /\ t >= result /\ kinds[CurrentBlockID(t)] = "ok" =>
      \A j \in 1 .. BlockLen(CurrentBlockID(t)) :
        buffers[t][j] = (CurrentBlockID(t) - 1) * BlockSize + j

(* A task cancels the others: it has failed, or has nothing to show. *)
GaveUp(t) == Finished(t) /\ CancelsOthers(t)

(* A batch is cancelled by one of its tasks, and a task that still waits   *)
(* then has such a task before it; without a cancellation the counter is   *)
(* at the last task that passed its turn on.                               *)
Reasons ==
  mainPc = "batch" =>
    /\ blockID = CancelTasks => \E u \in TaskIDs : GaveUp(u)
    /\ (\E u \in TaskIDs : GaveUp(u)) =>
         \A t \in TaskIDs : pc[t] = "turn" => \E v \in TaskIDs : v < t /\ GaveUp(v)
    /\ \A t, u \in TaskIDs : Left(t) /\ ~GaveUp(t) /\ u < t => Left(u)
    /\ blockID # CancelTasks =>
         /\ blockID <= firstID + NbTasks
         /\ \A t \in TaskIDs : Left(t) /\ ~GaveUp(t) => CurrentBlockID(t) <= blockID

(* The first task that gives up without an error has found the end mark,   *)
(* and its cancellation is not overwritten.                                *)
FoundEnd(t) ==
  /\ CurrentBlockID(t) = NbBlocks + 1 /\ ending = "end"
  /\ \A u \in TaskIDs : u < t => Left(u)
  /\ pc[t] = "done" => blockID = CancelTasks
EndMark ==
  \A t \in TaskIDs :
    GaveUp(t) /\ ~err[t] /\ (\A u \in TaskIDs : u < t => ~GaveUp(u)) => FoundEnd(t)

(* The units that are not handed out yet are in the buffers: n of them,    *)
(* from position p on.                                                     *)
Place(b, j) == b * BlockSize + j
Layout(p, n) ==
  \A b \in BufferIDs, j \in 1 .. BlockSize :
    p < Place(b, j) /\ Place(b, j) <= p + n =>
      buffers[b][j] = Offset + Len(delivered) + (Place(b, j) - p)

(* What was handed out. *)
Got ==
  ~failed \/ StopOnError =>
    /\ delivered \in Seq(Int) /\ Len(delivered) <= UpTo(NbBlocks)
    /\ \A i \in 1 .. Len(delivered) : delivered[i] = Offset + i
    /\ callStart \in 0 .. Len(delivered)

(* Between two batches: all that is wanted of the blocks that were passed  *)
(* on is handed out or in the buffers.                                     *)
Account ==
  ~failed /\ ~closed /\ mainPc # "batch" =>
    /\ Len(delivered) + available
         = IF blockID = CancelTasks THEN UpTo(NbBlocks) ELSE UpTo(blockID)
    /\ blockID = CancelTasks => ending = "end"
    /\ consumed + available <= Jobs * BlockSize
    /\ Layout(consumed, available)
    /\ mainPc = "process" => available = 0

(* In a batch: all that is wanted of the blocks before its tasks is handed *)
(* out, and what is wanted of those whose results were processed is in the *)
(* first buffers, all of them full but the last of the stream.             *)
AllRead == blockID = CancelTasks /\ ending = "end" /\ firstID + result > NbBlocks
Progress ==
  ~failed /\ mainPc = "batch" =>
    /\ available = 0 /\ consumed <= Jobs * BlockSize
    /\ result = 0 => Len(delivered) = UpTo(firstID)
    /\ \/ /\ firstID + result <= NbBlocks
          /\ \A u \in TaskIDs : u < result => ~GaveUp(u)
          /\ Len(delivered) + sum = UpTo(firstID + result)
          /\ kept > 0 => sum > 0
       \/ AllRead /\ Len(delivered) + sum = UpTo(NbBlocks)
    /\ sum = kept * BlockSize \/ firstID + result >= NbBlocks
    /\ sum <= kept * BlockSize
    /\ Layout(0, sum)

(* The end is only told when everything was handed out. *)
Told == ret = "eof" /\ ~failed => Len(delivered) = UpTo(NbBlocks) /\ ending = "end"

Sizes ==
  ~failed \/ StopOnError =>
    available <= Jobs * BlockSize /\ consumed <= Jobs * BlockSize

DataInv ==
  /\ IInv /\ StreamShape /\ CallShape /\ BufferShape /\ Ahead /\ Outcomes /\ Contents
  /\ Reasons /\ EndMark /\ Got /\ Account /\ Progress /\ Told /\ Sizes

-----------------------------------------------------------------------------
(* The units of the blocks that are wanted. *)

LEMMA StreamTypes ==
  ASSUME StreamShape
  PROVE  /\ NbBlocks \in Nat /\ lastLen \in Nat /\ lastLen >= 1 /\ lastLen <= BlockSize
         /\ From \in Nat /\ To \in Nat /\ NbInputBlocks \in Nat
         /\ \A k \in 1 .. NbBlocks : kinds[k] \in BlockKinds
         /\ kinds = <<>> <=> NbBlocks = 0
<1>1. ctx \in ContextSet
  BY ReaderAssumption DEF StreamShape
<1>2. From \in Nat /\ To \in Nat /\ NbInputBlocks \in Nat
  BY <1>1 DEF ContextSet, From, To, NbInputBlocks
<1>3. kinds \in Seq(BlockKinds)
  BY DEF StreamShape
<1>4. NbBlocks \in Nat /\ \A k \in 1 .. NbBlocks : kinds[k] \in BlockKinds
  BY <1>3 DEF NbBlocks
<1>5. kinds = <<>> <=> NbBlocks = 0
  BY <1>3 DEF NbBlocks
<1> QED
  BY <1>2, <1>4, <1>5, Constants DEF StreamShape

(* Products with the size of a block. *)
LEMMA Product ==
  /\ \A x \in Int : /\ x * BlockSize \in Int
                    /\ x >= 0 => x * BlockSize >= 0
                    /\ (x + 1) * BlockSize = x * BlockSize + BlockSize
                    /\ (x - 1) * BlockSize = x * BlockSize - BlockSize
  /\ \A x, y \in Int : x <= y => x * BlockSize <= y * BlockSize
  /\ \A x, y \in Int : x < y => x * BlockSize + BlockSize <= y * BlockSize
  /\ 0 * BlockSize = 0
<1>1. BlockSize \in Nat
  BY Constants
<1>2. \A x \in Int : /\ x * BlockSize \in Int
                     /\ x >= 0 => x * BlockSize >= 0
                     /\ (x + 1) * BlockSize = x * BlockSize + BlockSize
                     /\ (x - 1) * BlockSize = x * BlockSize - BlockSize
  BY <1>1
<1>3. \A x, y \in Int : x <= y => x * BlockSize <= y * BlockSize
  BY <1>1
<1>4. \A x, y \in Int : x < y => x * BlockSize + BlockSize <= y * BlockSize
  <2> SUFFICES ASSUME NEW x \in Int, NEW y \in Int, x < y
               PROVE  x * BlockSize + BlockSize <= y * BlockSize
    OBVIOUS
  <2>1. (x + 1) * BlockSize <= y * BlockSize
    BY <1>3
  <2> QED
    BY <1>2, <2>1
<1> QED
  BY <1>1, <1>2, <1>3, <1>4

LEMMA TotalIs ==
  ASSUME StreamShape
  PROVE  /\ Total \in Nat
         /\ NbBlocks = 0 => Total = 0
         /\ NbBlocks > 0 => Total = (NbBlocks - 1) * BlockSize + lastLen
<1>1. NbBlocks = 0 => Total = 0
  BY StreamTypes DEF Total
<1>2. NbBlocks > 0 => Total = (NbBlocks - 1) * BlockSize + lastLen
  BY StreamTypes DEF Total, NbBlocks
<1>3. NbBlocks > 0 => (NbBlocks - 1) * BlockSize >= 0 /\ (NbBlocks - 1) * BlockSize \in Int
  <2>1. NbBlocks > 0 => NbBlocks - 1 \in Int /\ NbBlocks - 1 >= 0
    BY StreamTypes
  <2> QED
    BY <2>1, Product
<1> QED
  BY <1>1, <1>2, <1>3, StreamTypes

LEMMA EndIs ==
  ASSUME StreamShape, NEW k \in 0 .. NbBlocks
  PROVE  /\ End(k) \in Nat /\ End(k) <= k * BlockSize /\ End(k) <= Total
         /\ k < NbBlocks => End(k) = k * BlockSize
         /\ k > 0 => /\ BlockLen(k) \in 1 .. BlockSize
                     /\ End(k - 1) = (k - 1) * BlockSize
                     /\ End(k) = End(k - 1) + BlockLen(k)
<1>1. k \in Int /\ NbBlocks \in Int /\ lastLen \in Nat /\ BlockSize \in Nat /\ BlockSize >= 1
  BY StreamTypes, Constants
<1>2. k * BlockSize \in Int /\ k * BlockSize >= 0 /\ (k - 1) * BlockSize = k * BlockSize - BlockSize
  BY <1>1, Product
<1>3. CASE k < NbBlocks
  <2>1. End(k) = k * BlockSize
    BY <1>3 DEF End
  <2>2. k * BlockSize <= (NbBlocks - 1) * BlockSize /\ (NbBlocks - 1) * BlockSize \in Int
    BY <1>1, <1>3, Product
  <2>3. End(k) <= Total
    BY <1>1, <1>2, <1>3, <2>1, <2>2, TotalIs, StreamTypes
  <2>4. k > 0 => End(k - 1) = (k - 1) * BlockSize
    BY <1>1, <1>3 DEF End
  <2>5. BlockLen(k) = BlockSize
    BY <1>1, <1>3 DEF BlockLen, NbBlocks
  <2> QED
    BY <1>1, <1>2, <1>3, <2>1, <2>3, <2>4, <2>5
<1>4. CASE k = NbBlocks
  <2>1. End(k) = Total
    BY <1>4 DEF End
  <2>2. k > 0 => End(k - 1) = (k - 1) * BlockSize
    BY <1>1, <1>4 DEF End
  <2>3. BlockLen(k) = lastLen
    BY <1>4 DEF BlockLen, NbBlocks
  <2>4. k > 0 => Total = (k - 1) * BlockSize + lastLen
    BY <1>4, TotalIs
  <2>5. k = 0 => Total = 0
    BY <1>4, TotalIs
  <2> QED
    BY <1>1, <1>2, <1>4, <2>1, <2>2, <2>3, <2>4, <2>5, TotalIs, StreamTypes
<1> QED
  BY <1>1, <1>3, <1>4

LEMMA RangeTypes ==
  ASSUME StreamShape
  PROVE  Offset \in Nat /\ Last \in Nat /\ Last <= Total
<1>1. From > 1 => (From - 1) * BlockSize \in Nat
  <2>1. From > 1 => From - 1 >= 0 /\ From - 1 \in Int
    BY StreamTypes
  <2> QED
    BY <2>1, Product, Constants
<1>2. To > 0 => (To - 1) * BlockSize \in Nat
  <2>1. To > 0 => To - 1 >= 0 /\ To - 1 \in Int
    BY StreamTypes
  <2> QED
    BY <2>1, Product, Constants
<1> QED
  BY <1>1, <1>2, TotalIs DEF Offset, Last, MinOf

LEMMA UpToTypes ==
  ASSUME StreamShape, NEW k \in 0 .. NbBlocks
  PROVE  UpTo(k) \in Nat /\ UpTo(k) <= UpTo(NbBlocks)
<1>1. Offset \in Nat /\ Last \in Nat /\ End(k) \in Nat /\ End(k) <= Total /\ Total \in Nat
  BY RangeTypes, EndIs, TotalIs
<1>2. End(NbBlocks) = Total
  BY DEF End
<1> QED
  BY <1>1, <1>2 DEF UpTo, WantedOf, MinOf

LEMMA UpToZero ==
  ASSUME StreamShape
  PROVE  UpTo(0) = 0
<1>1. End(0) = 0
  <2>1. 0 \in 0 .. NbBlocks
    BY StreamTypes
  <2>2. End(0) \in Nat /\ End(0) <= 0 * BlockSize
    BY <2>1, EndIs
  <2> QED
    BY <2>2, Product
<1> QED
  BY <1>1, RangeTypes DEF UpTo, WantedOf, MinOf

(* A block that is skipped adds nothing, another one all of its units. *)
LEMMA SkippedAddsNothing ==
  ASSUME StreamShape, NEW k \in 1 .. NbBlocks, MustSkip(k)
  PROVE  UpTo(k) = UpTo(k - 1)
<1>1. /\ k \in Nat /\ From \in Nat /\ To \in Nat /\ k - 1 \in 0 .. NbBlocks /\ k \in 0 .. NbBlocks
      /\ NbBlocks \in Nat
  BY StreamTypes
<1>2. /\ End(k) \in Nat /\ End(k) <= k * BlockSize /\ End(k - 1) = (k - 1) * BlockSize
      /\ End(k - 1) \in Nat /\ End(k - 1) <= End(k)
  BY <1>1, EndIs
<1>3. Offset \in Nat /\ Last \in Nat /\ Total \in Nat
  BY RangeTypes, TotalIs
<1>4. CASE From > 0 /\ k < From
  <2>1. k * BlockSize <= (From - 1) * BlockSize
    BY <1>1, <1>4, Product
  <2>2. Offset = (From - 1) * BlockSize
    BY <1>1, <1>4 DEF Offset
  <2>3. k * BlockSize \in Int
    BY <1>1, Product
  <2>4. End(k) <= Offset /\ End(k - 1) <= Offset
    BY <1>2, <1>3, <2>1, <2>2, <2>3
  <2> QED
    BY <1>2, <1>3, <2>4 DEF UpTo, WantedOf, MinOf
<1>5. CASE To > 0 /\ k >= To
  <2>1. (To - 1) * BlockSize <= (k - 1) * BlockSize /\ (To - 1) * BlockSize \in Int
    <3>1. To - 1 \in Int /\ k - 1 \in Int /\ To - 1 <= k - 1
      BY <1>1, <1>5
    <3> QED
      BY <3>1, Product
  <2>2. Last <= (To - 1) * BlockSize
    BY <1>3, <1>5, <2>1 DEF Last, MinOf
  <2>3. Last <= End(k - 1) /\ Last <= End(k)
    BY <1>2, <1>3, <2>1, <2>2
  <2> QED
    BY <1>2, <1>3, <2>3 DEF UpTo, MinOf
<1> QED
  BY <1>4, <1>5 DEF MustSkip

LEMMA KeptAddsAll ==
  ASSUME StreamShape, NEW k \in 1 .. NbBlocks, ~MustSkip(k)
  PROVE  /\ UpTo(k) = UpTo(k - 1) + BlockLen(k)
         /\ (k - 1) * BlockSize = Offset + UpTo(k - 1)
<1>1. /\ k \in Nat /\ From \in Nat /\ To \in Nat /\ k - 1 \in 0 .. NbBlocks /\ k \in 0 .. NbBlocks
      /\ NbBlocks \in Nat
  BY StreamTypes
<1>2. /\ End(k) \in Nat /\ End(k) <= k * BlockSize /\ End(k - 1) = (k - 1) * BlockSize
      /\ End(k - 1) \in Nat /\ End(k) = End(k - 1) + BlockLen(k) /\ BlockLen(k) \in Nat
      /\ End(k) <= Total /\ k * BlockSize \in Int
  <2>1. /\ End(k) \in Nat /\ End(k) <= k * BlockSize /\ End(k) <= Total
        /\ End(k - 1) = (k - 1) * BlockSize /\ End(k) = End(k - 1) + BlockLen(k)
        /\ BlockLen(k) \in 1 .. BlockSize
    BY <1>1, EndIs
  <2>2. End(k - 1) \in Nat
    BY <1>1, EndIs
  <2>3. BlockLen(k) \in Nat
    BY <2>1, Constants
  <2>4. k * BlockSize \in Int
    BY <1>1, Product
  <2> QED
    BY <2>1, <2>2, <2>3, <2>4
<1>3. Offset \in Nat /\ Last \in Nat /\ Total \in Nat
  BY RangeTypes, TotalIs
<1>4. Offset <= End(k - 1)
  <2>1. From > 1 => From - 1 <= k - 1
    BY <1>1 DEF MustSkip
  <2>2. From > 1 => (From - 1) * BlockSize <= (k - 1) * BlockSize
    BY <1>1, <2>1, Product
  <2> QED
    BY <1>2, <2>2 DEF Offset
<1>5. End(k) <= Last
  <2>1. To > 0 => k <= To - 1
    BY <1>1 DEF MustSkip
  <2>2. To > 0 => k * BlockSize <= (To - 1) * BlockSize /\ (To - 1) * BlockSize \in Int
    <3>1. To - 1 \in Int /\ k \in Int
      BY <1>1
    <3> QED
      BY <2>1, <3>1, Product
  <2> QED
    BY <1>2, <1>3, <2>2 DEF Last, MinOf
<1>6. UpTo(k) = End(k) - Offset /\ UpTo(k - 1) = End(k - 1) - Offset
  BY <1>2, <1>3, <1>4, <1>5 DEF UpTo, WantedOf, MinOf
<1> QED
  BY <1>2, <1>3, <1>6

(* The units of a block, and what a failed checksum makes of them, are     *)
(* numbers of the model.                                                   *)
LEMMA UnitsOfBlocks ==
  ASSUME StreamShape, NEW k \in 1 .. NbBlocks, NEW j \in 1 .. BlockLen(k)
  PROVE  (k - 1) * BlockSize + j \in Units /\ -((k - 1) * BlockSize + j) \in Units
<1>1. /\ k \in Int /\ k \in 0 .. NbBlocks /\ k > 0 /\ NbBlocks \in Nat
      /\ MaxBlocks \in Nat /\ NbBlocks <= MaxBlocks
  BY StreamTypes, ReaderAssumption DEF StreamShape
<1>2. /\ End(k) \in Nat /\ End(k) <= k * BlockSize /\ BlockLen(k) \in Nat
      /\ End(k) = (k - 1) * BlockSize + BlockLen(k)
  BY <1>1, EndIs
<1>3. k * BlockSize <= MaxBlocks * BlockSize /\ MaxBlocks * BlockSize \in Int
  <2>1. k \in Int /\ MaxBlocks \in Int /\ k <= MaxBlocks
    BY <1>1
  <2> QED
    BY <2>1, Product
<1>4. (k - 1) * BlockSize \in Int /\ (k - 1) * BlockSize >= 0 /\ k * BlockSize \in Int
  <2>1. k - 1 \in Int /\ k - 1 >= 0
    BY <1>1
  <2> QED
    BY <1>1, <2>1, Product
<1>5. j \in Nat /\ j >= 1 /\ j <= BlockLen(k)
  BY <1>2
<1> DEFINE n == (k - 1) * BlockSize + j
<1>6. n \in Nat /\ n <= MaxUnits /\ MaxUnits \in Int
  BY <1>2, <1>3, <1>4, <1>5 DEF MaxUnits
<1> HIDE DEF n
<1>7. n \in Units /\ -n \in Units
  BY <1>6 DEF Units
<1> QED
  BY <1>7 DEF n

LEMMA ZeroIsUnit == 0 \in Units
<1>1. MaxBlocks \in Nat
  BY ReaderAssumption
<1>2. MaxUnits \in Nat
  BY <1>1, Product DEF MaxUnits
<1> QED
  BY <1>2 DEF Units

LEMMA TasksHaveBuffers ==
  /\ TaskIDs \subseteq BufferIDs /\ Jobs \in Nat
  /\ StreamShape => NbTasks \in Nat /\ NbTasks >= 1 /\ NbTasks <= Jobs /\ Batch \subseteq TaskIDs
<1>1. Jobs \in Nat /\ Jobs >= 1
  BY Constants
<1>2. TaskIDs \subseteq BufferIDs
  BY <1>1 DEF TaskIDs, BufferIDs
<1>3. ASSUME StreamShape PROVE NbTasks \in Nat /\ NbTasks >= 1 /\ NbTasks <= Jobs
  BY <1>1, <1>3, StreamTypes DEF NbTasks, MinOf
<1>4. ASSUME StreamShape PROVE Batch \subseteq TaskIDs
  BY <1>1, <1>3, <1>4 DEF Batch, TaskIDs
<1> QED
  BY <1>1, <1>2, <1>3, <1>4

(* Places in the buffers. *)
LEMMA PlaceIs ==
  ASSUME NEW b \in BufferIDs, NEW j \in 1 .. BlockSize
  PROVE  Place(b, j) \in Int /\ Place(b, j) = b * BlockSize + j /\ b \in Nat /\ j \in Nat
<1>1. b \in Nat /\ j \in Nat
  BY DEF BufferIDs
<1>2. b * BlockSize \in Int
  BY <1>1, Product
<1> QED
  BY <1>1, <1>2 DEF Place

LEMMA NoLayout ==
  ASSUME NEW p \in Int, NEW b \in BufferIDs, NEW j \in 1 .. BlockSize
  PROVE  ~(p < Place(b, j) /\ Place(b, j) <= p + 0)
  BY PlaceIs

-----------------------------------------------------------------------------
(* The initial states. *)

LEMMA InitDataInv == Init => DataInv
<1> SUFFICES ASSUME Init PROVE DataInv
  OBVIOUS
<1>1. IInv
  BY InitIInv
<1>2. StreamShape
  <2>1. PICK n \in 0 .. MaxBlocks : kinds \in [1 .. n -> Kinds]
    BY DEF Init
  <2>2. Kinds \subseteq BlockKinds /\ MaxBlocks \in Nat
    BY ReaderAssumption
  <2>3. kinds \in [1 .. n -> BlockKinds] /\ n \in Nat /\ n <= MaxBlocks
    BY <2>1, <2>2
  <2>4. kinds \in Seq(BlockKinds) /\ Len(kinds) = n
    BY <2>3
  <2>5. lastLen \in 1 .. BlockSize /\ ending \in EndKinds /\ header \in HeaderKinds /\ ctx \in Contexts
    BY ReaderAssumption DEF Init
  <2> QED
    BY <2>3, <2>4, <2>5 DEF StreamShape, NbBlocks
<1>3. NbTasks \in Nat
  BY <1>2, TasksHaveBuffers
<1>4. /\ \A t \in TaskIDs : /\ pc[t] = "none" /\ held[t] = 0 /\ decoded[t] = 0
                            /\ skipped[t] = FALSE /\ err[t] = FALSE
      /\ mainPc = "idle" /\ ret = "none" /\ failed = FALSE /\ delivered = <<>>
      /\ closed = FALSE /\ initialized = FALSE /\ available = 0 /\ consumed = 0
      /\ remaining = 0 /\ callStart = 0 /\ blockID = 0 /\ ibsPos = 1
      /\ result = 0 /\ kept = 0 /\ sum = 0
  BY DEF Init
<1>5. sized \in BOOLEAN
  BY Zenon DEF Init, headless
<1>6. CallShape
  <2>1. result \in 0 .. NbTasks /\ kept \in 0 .. result
    BY <1>3, <1>4
  <2>2. failed \in BOOLEAN /\ closed \in BOOLEAN /\ initialized \in BOOLEAN
    BY <1>4
  <2> QED
    BY <1>4, <1>5, <2>1, <2>2 DEF CallShape
<1>7. BufferShape
  <2>1. EmptyBuffer \in [1 .. BlockSize -> Units]
    BY ZeroIsUnit DEF EmptyBuffer
  <2> QED
    BY <2>1 DEF Init, BufferShape
<1>8. Ahead /\ Outcomes /\ Contents /\ Reasons
  BY <1>2, <1>4, StreamTypes, Constants DEF Ahead, Outcomes, Contents, Reasons
<1>9. EndMark
  BY <1>4 DEF EndMark, GaveUp, Finished
<1>10. UpTo(0) = 0 /\ UpTo(NbBlocks) \in Nat
  <2>1. NbBlocks \in 0 .. NbBlocks
    BY <1>2, StreamTypes
  <2> QED
    BY <1>2, <2>1, UpToZero, UpToTypes
<1>11. Len(delivered) = 0 /\ delivered \in Seq(Int)
  BY <1>4
<1>12. Got
  BY <1>4, <1>10, <1>11 DEF Got
<1>13. 0 <= Jobs * BlockSize
  BY Product, TasksHaveBuffers
<1>14. Layout(0, 0)
  BY NoLayout DEF Layout
<1>15. Account
  BY <1>4, <1>10, <1>11, <1>13, <1>14, Constants DEF Account
<1>16. Progress /\ Told /\ Sizes
  BY <1>4, <1>13 DEF Progress, Told, Sizes
<1> QED
  BY <1>1, <1>2, <1>6, <1>7, <1>8, <1>9, <1>12, <1>15, <1>16 DEF DataInv

-----------------------------------------------------------------------------
(* What a step of a task leaves alone. *)

LEMMA TaskFrame ==
  ASSUME NEW t \in TaskIDs, TaskStep(t)
  PROVE  /\ UNCHANGED <<kinds, lastLen, ending, header, ctx>>
         /\ UNCHANGED <<closed, initialized, sized, available, consumed>>
         /\ UNCHANGED <<mainPc, remaining, firstID, result, kept, sum>>
         /\ UNCHANGED <<delivered, callStart, ret, failed>>
         /\ pc[t] \in {"turn", "size", "data", "pass", "decode", "defer"}
  BY DEF TaskStep, AwaitTurn, ReadSize, ReadData, PassTurn, Decode, Defer, theStream, streamVars,
     dataVars, mainVars, resultVars, histVars

(* What depends on the stream only does not change either. *)
LEMMA StreamFrame ==
  ASSUME UNCHANGED <<kinds, lastLen, ending, header, ctx>>
  PROVE  /\ UNCHANGED <<NbBlocks, NbTasks, Batch, Offset, Total, Last>>
         /\ StreamShape => StreamShape'
         /\ \A k : /\ UpTo(k)' = UpTo(k) /\ BlockLen(k)' = BlockLen(k)
                   /\ DecodedLen(k)' = DecodedLen(k) /\ (MustSkip(k)' <=> MustSkip(k))
<1>1. UNCHANGED <<NbBlocks, From, To, Total>>
  BY DEF NbBlocks, From, To, Total
<1>2. UNCHANGED <<NbTasks, Batch, Offset, Last>>
  BY <1>1 DEF NbTasks, Batch, Offset, Last, NbInputBlocks
<1>3. \A k : BlockLen(k)' = BlockLen(k)
  BY DEF BlockLen
<1>4. \A k : UpTo(k)' = UpTo(k)
  BY <1>1, <1>2 DEF UpTo, WantedOf, End
<1>5. \A k : DecodedLen(k)' = DecodedLen(k)
  BY <1>3 DEF DecodedLen
<1>6. \A k : MustSkip(k)' <=> MustSkip(k)
  BY <1>1 DEF MustSkip
<1>7. StreamShape => StreamShape'
  BY <1>1 DEF StreamShape
<1> QED
  BY <1>1, <1>2, <1>3, <1>4, <1>5, <1>6, <1>7

LEMMA TaskInBatch ==
  ASSUME DataInv, NEW t \in TaskIDs, TaskStep(t)
  PROVE  mainPc = "batch" /\ t \in Batch /\ result = 0 /\ kept = 0
<1>1. pc[t] \notin {"none", "done"}
  BY TaskFrame
<1>2. mainPc = "batch" /\ t \in Batch
  BY <1>1 DEF DataInv, IInv, BatchShape
<1>3. NbTasks \in Nat
  BY TasksHaveBuffers DEF DataInv
<1>4. result \in Nat /\ ~(result > 0)
  BY <1>1, <1>2, <1>3 DEF DataInv, CallShape
<1> QED
  BY <1>2, <1>4 DEF DataInv, CallShape

(* The caller waits: what it sees changes when all tasks are done only. *)
LEMMA TaskCaller ==
  ASSUME DataInv, NEW t \in TaskIDs, TaskStep(t)
  PROVE  StreamShape' /\ CallShape' /\ Got' /\ Account' /\ Progress' /\ Told' /\ Sizes'
<1>1. /\ UNCHANGED <<kinds, lastLen, ending, header, ctx>>
      /\ UNCHANGED <<closed, initialized, sized, available, consumed>>
      /\ UNCHANGED <<mainPc, remaining, firstID, result, kept, sum>>
      /\ UNCHANGED <<delivered, callStart, ret, failed>>
  BY TaskFrame
<1>2. mainPc = "batch" /\ t \in Batch /\ result = 0 /\ kept = 0
  BY TaskInBatch
<1>3. /\ UNCHANGED <<NbBlocks, NbTasks, Batch, Offset>>
      /\ StreamShape'
      /\ \A k : UpTo(k)' = UpTo(k)
  BY <1>1, StreamFrame DEF DataInv
<1>4. CallShape'
  BY <1>1, <1>2, <1>3 DEF DataInv, CallShape
<1>5. Got' /\ Told' /\ Sizes'
  BY <1>1, <1>3 DEF DataInv, Got, Told, Sizes
<1>6. Account'
  BY <1>1, <1>2 DEF Account
<1>7. Progress'
  <2> SUFFICES ASSUME ~failed
               PROVE  Progress'
    BY <1>1 DEF Progress
  <2>1. /\ available = 0 /\ consumed <= Jobs * BlockSize
        /\ Len(delivered) = UpTo(firstID) /\ sum <= kept * BlockSize /\ sum \in Nat
        /\ firstID <= NbBlocks /\ firstID \in Nat
    BY <1>2 DEF DataInv, Progress, Ahead, CallShape, IInv, TurnTypes
  <2>2. sum = 0 /\ kept * BlockSize = 0
    BY <1>2, <2>1, Product
  <2>3. UpTo(firstID) \in Nat
    BY <2>1, UpToTypes DEF DataInv
  <2>4. \A u \in TaskIDs : ~(u < 0)
    BY Constants
  <2>5. Layout(0, 0)'
    BY NoLayout DEF Layout
  <2>6. firstID + 0 = firstID /\ UpTo(firstID) + 0 = UpTo(firstID)
    BY <2>1, <2>3
  <2> QED
    BY <1>1, <1>2, <1>3, <2>1, <2>2, <2>4, <2>5, <2>6 DEF Progress
<1> QED
  BY <1>3, <1>4, <1>5, <1>6, <1>7

-----------------------------------------------------------------------------
(* The steps of a task. *)

(* A step of a task changes its own entries only. *)
LEMMA TaskOthers ==
  ASSUME IInv, NEW t \in TaskIDs, TaskStep(t)
  PROVE  \A u \in TaskIDs \ {t} :
           /\ pc'[u] = pc[u] /\ held'[u] = held[u] /\ decoded'[u] = decoded[u]
           /\ skipped'[u] = skipped[u] /\ err'[u] = err[u]
<1>1. /\ pc \in [TaskIDs -> PCs] /\ held \in [TaskIDs -> Nat] /\ decoded \in [TaskIDs -> Nat]
      /\ skipped \in [TaskIDs -> BOOLEAN] /\ err \in [TaskIDs -> BOOLEAN]
  BY DEF IInv, TurnTypes
<1>2. \E to : Move(t, to)
  BY DEF TaskStep, AwaitTurn, ReadSize, ReadData, PassTurn, Decode, Defer, Fail
<1>3. UNCHANGED held \/ held' = [held EXCEPT ![t] = ibsPos]
  BY DEF TaskStep, AwaitTurn, ReadSize, ReadData, PassTurn, Decode, Defer
<1>4. UNCHANGED decoded \/ decoded' = [decoded EXCEPT ![t] = DecodedLen(held[t])]
  BY DEF TaskStep, AwaitTurn, ReadSize, ReadData, PassTurn, Decode, Defer
<1>5. \/ UNCHANGED skipped
      \/ skipped' = [skipped EXCEPT ![t] = MustSkip(CurrentBlockID(t))]
  BY DEF TaskStep, AwaitTurn, ReadSize, ReadData, PassTurn, Decode, Defer
<1>6. UNCHANGED err \/ err' = [err EXCEPT ![t] = TRUE]
  BY DEF TaskStep, AwaitTurn, ReadSize, ReadData, PassTurn, Decode, Defer, Fail
<1> SUFFICES ASSUME NEW u \in TaskIDs \ {t}
             PROVE  /\ pc'[u] = pc[u] /\ held'[u] = held[u] /\ decoded'[u] = decoded[u]
                    /\ skipped'[u] = skipped[u] /\ err'[u] = err[u]
  OBVIOUS
<1>7. pc'[u] = pc[u]
  BY <1>1, <1>2 DEF Move
<1>8. held'[u] = held[u] /\ decoded'[u] = decoded[u]
  BY <1>1, <1>3, <1>4
<1>9. skipped'[u] = skipped[u]
  BY <1>1, <1>5, Zenon
<1>10. err'[u] = err[u]
  BY <1>1, <1>6
<1> QED
  BY <1>7, <1>8, <1>9, <1>10

(* What is known of all tasks after a step of one. *)
LEMMA TaskForward ==
  ASSUME DataInv, NEW t \in TaskIDs, TaskStep(t)
  PROVE  /\ \A u \in TaskIDs \ {t} : /\ GaveUp(u)' <=> GaveUp(u)
                                     /\ Left(u)' <=> Left(u)
         /\ \A u \in TaskIDs : /\ CurrentBlockID(u)' = CurrentBlockID(u)
                               /\ Left(u) => Left(u)'
                               /\ pc'[u] = "turn" => pc[u] = "turn"
         /\ Left(t) /\ GaveUp(t) => GaveUp(t)'
         /\ pc'[t] \in {"size", "data", "pass", "decode", "defer", "done"}
<1>1. \A u \in TaskIDs \ {t} :
        /\ pc'[u] = pc[u] /\ held'[u] = held[u] /\ decoded'[u] = decoded[u]
        /\ skipped'[u] = skipped[u] /\ err'[u] = err[u]
  BY TaskOthers DEF DataInv
<1>2. \A u \in TaskIDs \ {t} : /\ GaveUp(u)' <=> GaveUp(u)
                               /\ Left(u)' <=> Left(u)
  BY <1>1 DEF GaveUp, Finished, CancelsOthers, NothingToShow, Left
<1>3. \A u \in TaskIDs : CurrentBlockID(u)' = CurrentBlockID(u)
  BY TaskFrame DEF CurrentBlockID
<1>4. pc \in [TaskIDs -> PCs]
  BY DEF DataInv, IInv, TurnTypes
<1>5. pc'[t] \in {"size", "data", "pass", "decode", "defer", "done"}
  BY <1>4 DEF TaskStep, AwaitTurn, ReadSize, ReadData, PassTurn, Decode, Defer, Move, Fail
<1>6. Left(t) => Left(t)'
  <2>1. Left(t) => Decode(t) \/ Defer(t)
    BY DEF Left, TaskStep, AwaitTurn, ReadSize, ReadData, PassTurn, Decode, Defer
  <2>2. Decode(t) \/ Defer(t) => pc'[t] \in {"defer", "done"}
    BY <1>4 DEF Decode, Defer, Fail, Move
  <2> QED
    BY <2>1, <2>2 DEF Left
<1>7. GaveUp(t) => GaveUp(t)'
  <2> SUFFICES ASSUME GaveUp(t) PROVE GaveUp(t)'
    OBVIOUS
  <2>1. Defer(t)
    BY DEF GaveUp, Finished, TaskStep, AwaitTurn, ReadSize, ReadData, PassTurn, Decode, Defer
  <2>2. pc'[t] = "done" /\ UNCHANGED <<err, decoded, skipped>>
    BY <1>4, <2>1 DEF Defer, Move
  <2> QED
    BY <2>2 DEF GaveUp, Finished, CancelsOthers, NothingToShow
<1> QED
  BY <1>1, <1>2, <1>3, <1>5, <1>6, <1>7

(* A task that has not left shows nothing yet. *)
LEMMA FreshTask ==
  ASSUME DataInv, NEW t \in TaskIDs, ~Left(t)
  PROVE  decoded[t] = 0 /\ skipped[t] = FALSE /\ err[t] = FALSE /\ ~GaveUp(t)
  BY DEF DataInv, IInv, Fresh, Left, GaveUp, Finished

(* The parts of the invariant that the tasks can disturb, ... *)
TaskInv == BufferShape /\ Ahead /\ Outcomes /\ Contents /\ Reasons /\ EndMark

(* ... two of which only depend on what was decoded. *)
LEMMA SameBuffers ==
  ASSUME DataInv, NEW t \in TaskIDs, TaskStep(t), UNCHANGED <<buffers, decoded>>
  PROVE  BufferShape' /\ Contents'
<1>1. /\ UNCHANGED <<kinds, lastLen, ending, header, ctx, result>>
      /\ \A u \in TaskIDs : CurrentBlockID(u)' = CurrentBlockID(u)
      /\ \A k : BlockLen(k)' = BlockLen(k)
  BY TaskFrame, TaskForward, StreamFrame
<1> QED
  BY <1>1 DEF DataInv, BufferShape, Contents

(* A task that waited sees the cancellation, or takes its turn. *)
LEMMA AwaitTurnTaskInv ==
  ASSUME DataInv, NEW t \in TaskIDs, AwaitTurn(t)
  PROVE  TaskInv'
<1>1. TaskStep(t)
  BY DEF TaskStep
<1>2. /\ pc[t] = "turn" /\ mainPc = "batch"
      /\ UNCHANGED <<kinds, lastLen, ending, header, ctx, firstID, blockID, ibsPos, mainPc>>
      /\ UNCHANGED <<buffers, held, decoded, skipped, err>>
      /\ UNCHANGED <<NbBlocks, NbTasks>>
      /\ \A k : DecodedLen(k)' = DecodedLen(k) /\ (MustSkip(k)' <=> MustSkip(k))
  BY <1>1, TaskFrame, TaskInBatch, StreamFrame DEF AwaitTurn, dataVars
<1>3. pc'[t] \in {"defer", "size"} /\ \A u \in TaskIDs \ {t} : pc'[u] = pc[u]
  BY TaskOthers, <1>1 DEF AwaitTurn, Move, DataInv, IInv, TurnTypes
<1>4. /\ \A u \in TaskIDs \ {t} : /\ GaveUp(u)' <=> GaveUp(u)
                                  /\ Left(u)' <=> Left(u)
      /\ \A u \in TaskIDs : /\ CurrentBlockID(u)' = CurrentBlockID(u)
                            /\ Left(u) => Left(u)'
                            /\ pc'[u] = "turn" => pc[u] = "turn"
  BY <1>1, TaskForward
<1>5. ~Left(t) /\ decoded[t] = 0 /\ skipped[t] = FALSE /\ err[t] = FALSE /\ ~GaveUp(t)
  BY <1>2, FreshTask DEF Left
<1>6. BufferShape' /\ Contents'
  BY <1>1, <1>2, SameBuffers
<1>7. Ahead'
  <2>1. pc'[t] = "size" => CurrentBlockID(t) <= NbBlocks + 1
    <3>1. pc'[t] = "size" => MyTurn(t) /\ blockID # CancelTasks
      BY <1>2 DEF AwaitTurn, Move, DataInv, IInv, TurnTypes
    <3>2. blockID # CancelTasks => blockID \in Nat /\ blockID <= NbBlocks
      BY DEF DataInv, IInv, TurnTypes, Ahead
    <3>3. NbBlocks \in Nat
      BY StreamTypes DEF DataInv
    <3>4. MyTurn(t) => CurrentBlockID(t) = blockID + 1
      BY OwnNumber DEF DataInv
    <3> QED
      BY <3>1, <3>2, <3>3, <3>4
  <2> QED
    BY <1>2, <1>3, <1>4, <2>1 DEF DataInv, Ahead
<1>8. Outcomes'
  BY <1>2, <1>3, <1>4, <1>5 DEF DataInv, Outcomes
<1>9. pc'[t] = "defer" => blockID = CancelTasks /\ GaveUp(t)'
  <2>1. pc'[t] = "defer" => blockID = CancelTasks
    BY <1>2 DEF AwaitTurn, Move, DataInv, IInv, TurnTypes
  <2> QED
    BY <1>2, <1>5, <2>1 DEF GaveUp, Finished, CancelsOthers, NothingToShow
<1>10. pc'[t] = "size" => ~GaveUp(t)' /\ ~Left(t)'
  BY DEF GaveUp, Finished, Left
<1>11. \A u \in TaskIDs : /\ GaveUp(u) => GaveUp(u)'
                          /\ Left(u)' /\ ~GaveUp(u)' => Left(u) /\ ~GaveUp(u)
  BY <1>3, <1>4, <1>5, <1>9, <1>10
<1>12. (\E u \in TaskIDs : GaveUp(u)') => blockID = CancelTasks \/ \E u \in TaskIDs : GaveUp(u)
  BY <1>3, <1>4, <1>9, <1>10
<1>13. Reasons'
  <2>1. blockID = CancelTasks => \E u \in TaskIDs : GaveUp(u)
    BY <1>2 DEF DataInv, Reasons
  <2>2. (\E u \in TaskIDs : GaveUp(u)') =>
          \A x \in TaskIDs : pc[x] = "turn" => \E v \in TaskIDs : v < x /\ GaveUp(v)
    BY <1>2, <1>12, <2>1 DEF DataInv, Reasons
  <2> QED
    BY <1>2, <1>4, <1>11, <2>1, <2>2 DEF DataInv, Reasons
<1>14. EndMark'
  <2> SUFFICES ASSUME NEW e \in TaskIDs, GaveUp(e)', ~err[e],
                      \A u \in TaskIDs : u < e => ~GaveUp(u)'
               PROVE  FoundEnd(e)'
    BY <1>2 DEF EndMark
  <2>1. \A u \in TaskIDs : u < e => ~GaveUp(u)
    BY <1>11
  <2>2. e # t
    <3> SUFFICES ASSUME e = t PROVE FALSE
      OBVIOUS
    <3>1. blockID = CancelTasks
      BY <1>3, <1>9, <1>10
    <3>2. \E v \in TaskIDs : v < t /\ GaveUp(v)
      BY <1>2, <3>1 DEF DataInv, Reasons
    <3> QED
      BY <2>1, <3>2
  <2>3. FoundEnd(e)
    BY <1>4, <2>1, <2>2 DEF DataInv, EndMark
  <2> QED
    BY <1>2, <1>3, <1>4, <2>2, <2>3 DEF FoundEnd
<1> QED
  BY <1>6, <1>7, <1>8, <1>13, <1>14 DEF TaskInv

(* The task that has the turn: those before it have left, so that only     *)
(* tasks behind it can wait.                                               *)
LEMMA TurnHolder ==
  ASSUME DataInv, NEW t \in TaskIDs, HasTurn(t)
  PROVE  /\ \A u \in TaskIDs : u < t => Left(u)
         /\ \A u \in TaskIDs : pc[u] = "turn" => t < u
         /\ ~Left(t)
<1>1. \A u \in TaskIDs : u < t => Left(u)
  BY DEF DataInv, IInv, TurnOrder
<1>2. \A u \in TaskIDs : pc[u] = "turn" => t < u
  BY <1>1, Constants DEF Left, HasTurn
<1> QED
  BY <1>1, <1>2 DEF Left, HasTurn

(* Reasons and EndMark after a step in which a task gives its turn up, for *)
(* an error or for the end mark.                                           *)
LEMMA GivenUp ==
  ASSUME DataInv, NEW t \in TaskIDs, TaskStep(t), HasTurn(t), UNCHANGED blockID,
         pc'[t] = "defer", GaveUp(t)',
         ~err'[t] => CurrentBlockID(t) = NbBlocks + 1 /\ ending = "end"
  PROVE  Reasons' /\ EndMark'
<1>1. /\ UNCHANGED <<firstID, NbTasks, NbBlocks, ending, mainPc>> /\ mainPc = "batch"
      /\ \A u \in TaskIDs \ {t} : pc'[u] = pc[u] /\ err'[u] = err[u]
  BY TaskFrame, StreamFrame, TaskInBatch, TaskOthers DEF DataInv
<1>2. /\ \A u \in TaskIDs \ {t} : /\ GaveUp(u)' <=> GaveUp(u)
                                  /\ Left(u)' <=> Left(u)
      /\ \A u \in TaskIDs : /\ CurrentBlockID(u)' = CurrentBlockID(u)
                            /\ Left(u) => Left(u)'
                            /\ pc'[u] = "turn" => pc[u] = "turn"
  BY TaskForward
<1>3. /\ \A u \in TaskIDs : u < t => Left(u)
      /\ \A u \in TaskIDs : pc[u] = "turn" => t < u
      /\ ~Left(t)
  BY TurnHolder
<1>4. ~GaveUp(t)
  BY <1>3 DEF GaveUp, Finished, Left
<1>5. \A u \in TaskIDs : /\ GaveUp(u) => GaveUp(u)'
                         /\ Left(u)' /\ ~GaveUp(u)' => Left(u) /\ ~GaveUp(u)
  BY <1>2, <1>4
<1>6. \A x \in TaskIDs : pc'[x] = "turn" => \E v \in TaskIDs : v < x /\ GaveUp(v)'
  BY <1>2, <1>3
<1>7. Reasons'
  BY <1>1, <1>2, <1>5, <1>6 DEF DataInv, Reasons
<1>8. EndMark'
  <2> SUFFICES ASSUME NEW e \in TaskIDs, GaveUp(e)', ~err'[e],
                      \A u \in TaskIDs : u < e => ~GaveUp(u)'
               PROVE  FoundEnd(e)'
    BY DEF EndMark
  <2>1. CASE e = t
    BY <1>1, <1>2, <1>3, <2>1 DEF FoundEnd
  <2>2. CASE e # t
    <3>1. FoundEnd(e)
      BY <1>1, <1>2, <1>5, <2>2 DEF DataInv, EndMark
    <3> QED
      BY <1>1, <1>2, <2>2, <3>1 DEF FoundEnd
  <2> QED
    BY <2>1, <2>2
<1> QED
  BY <1>7, <1>8

(* They do not change when the task goes on to hold its turn.              *)
LEMMA StillTurn ==
  ASSUME DataInv, NEW t \in TaskIDs, TaskStep(t), HasTurn(t), UNCHANGED blockID, HasTurn(t)'
  PROVE  Reasons' /\ EndMark'
<1>1. /\ UNCHANGED <<firstID, NbTasks, NbBlocks, ending, mainPc>> /\ mainPc = "batch"
      /\ \A u \in TaskIDs \ {t} : pc'[u] = pc[u] /\ err'[u] = err[u]
  BY TaskFrame, StreamFrame, TaskInBatch, TaskOthers DEF DataInv
<1>2. /\ \A u \in TaskIDs \ {t} : /\ GaveUp(u)' <=> GaveUp(u)
                                  /\ Left(u)' <=> Left(u)
      /\ \A u \in TaskIDs : /\ CurrentBlockID(u)' = CurrentBlockID(u)
                            /\ pc'[u] = "turn" => pc[u] = "turn"
  BY TaskForward
<1>3. ~GaveUp(t) /\ ~GaveUp(t)' /\ ~Left(t) /\ ~Left(t)'
  BY DEF GaveUp, Finished, HasTurn, Left
<1>4. \A u \in TaskIDs : /\ GaveUp(u)' <=> GaveUp(u)
                         /\ Left(u)' <=> Left(u)
  BY <1>2, <1>3
<1>5. Reasons'
  BY <1>1, <1>2, <1>4 DEF DataInv, Reasons
<1>6. EndMark'
  <2> SUFFICES ASSUME NEW e \in TaskIDs, GaveUp(e)', ~err'[e],
                      \A u \in TaskIDs : u < e => ~GaveUp(u)'
               PROVE  FoundEnd(e)'
    BY DEF EndMark
  <2>1. e # t
    BY <1>3
  <2>2. FoundEnd(e)
    BY <1>1, <1>4, <2>1 DEF DataInv, EndMark
  <2> QED
    BY <1>1, <1>2, <1>4, <2>1, <2>2 DEF FoundEnd
<1> QED
  BY <1>5, <1>6

LEMMA ReadSizeTaskInv ==
  ASSUME DataInv, NEW t \in TaskIDs, ReadSize(t)
  PROVE  TaskInv'
<1>1. TaskStep(t)
  BY DEF TaskStep
<1>2. /\ pc[t] = "size" /\ mainPc = "batch"
      /\ UNCHANGED <<kinds, lastLen, ending, header, ctx, firstID, blockID, mainPc>>
      /\ UNCHANGED <<buffers, held, decoded, skipped>>
      /\ UNCHANGED NbBlocks
      /\ \A k : DecodedLen(k)' = DecodedLen(k) /\ (MustSkip(k)' <=> MustSkip(k))
  BY <1>1, TaskFrame, TaskInBatch, StreamFrame DEF ReadSize, dataVars
<1>3. /\ \A u \in TaskIDs \ {t} : pc'[u] = pc[u] /\ err'[u] = err[u]
      /\ pc \in [TaskIDs -> PCs] /\ err \in [TaskIDs -> BOOLEAN] /\ ibsPos \in Nat
  BY <1>1, TaskOthers DEF DataInv, IInv, TurnTypes
<1>4. \A u \in TaskIDs : CurrentBlockID(u)' = CurrentBlockID(u)
  BY <1>1, TaskForward
<1>5. HasTurn(t) /\ ~Left(t) /\ decoded[t] = 0 /\ skipped[t] = FALSE /\ err[t] = FALSE
  BY <1>2, FreshTask DEF Left, HasTurn
<1>6. ibsPos = CurrentBlockID(t) /\ ibsPos \in 1 .. NbBlocks + 2 /\ ibsPos <= NbBlocks + 1
  BY <1>2 DEF DataInv, IInv, Position, Ahead
<1>7. NbBlocks \in Nat
  BY StreamTypes DEF DataInv
<1>8. BufferShape' /\ Contents'
  BY <1>1, <1>2, SameBuffers
<1>9. Outcomes'
  <2>1. pc'[t] # "decode"
    BY <1>1, <1>3 DEF ReadSize, Move, Fail
  <2> QED
    BY <1>2, <1>3, <1>4, <1>5, <2>1 DEF DataInv, Outcomes
<1>10. CASE (AtBlock \/ AtTornBlock) /\ Move(t, "data") /\ UNCHANGED <<ibsPos, err>>
  <2>1. pc'[t] = "data"
    BY <1>3, <1>10 DEF Move
  <2>2. CurrentBlockID(t) <= NbBlocks \/ (CurrentBlockID(t) = NbBlocks + 1 /\ ending = "torn")
    BY <1>6, <1>10 DEF AtBlock, AtTornBlock, NbBlocks
  <2>3. Ahead'
    BY <1>2, <1>3, <1>4, <1>10, <2>1, <2>2 DEF DataInv, Ahead
  <2>4. Reasons' /\ EndMark'
    BY <1>1, <1>2, <1>5, <2>1, StillTurn DEF HasTurn
  <2> QED
    BY <1>8, <1>9, <2>3, <2>4 DEF TaskInv
<1>11. CASE AtEndMark /\ Move(t, "defer") /\ ibsPos' = ibsPos + 1 /\ UNCHANGED err
  <2>1. pc'[t] = "defer"
    BY <1>3, <1>11 DEF Move
  <2>2. ibsPos = NbBlocks + 1 /\ ending = "end"
    BY <1>11 DEF AtEndMark, NbBlocks
  <2>3. ibsPos' \in 1 .. NbBlocks + 2
    BY <1>7, <1>11, <2>2
  <2>4. Ahead'
    BY <1>2, <1>3, <1>4, <2>1, <2>3 DEF DataInv, Ahead
  <2>5. GaveUp(t)'
    BY <1>2, <1>5, <2>1 DEF GaveUp, Finished, CancelsOthers, NothingToShow
  <2>6. Reasons' /\ EndMark'
    BY <1>1, <1>2, <1>5, <1>6, <2>1, <2>2, <2>5, GivenUp
  <2> QED
    BY <1>8, <1>9, <2>4, <2>6 DEF TaskInv
<1>12. CASE Fail(t) /\ UNCHANGED ibsPos
  <2>1. pc'[t] = "defer" /\ err'[t]
    BY <1>3, <1>12 DEF Move, Fail
  <2>2. Ahead'
    BY <1>2, <1>3, <1>4, <1>12, <2>1 DEF DataInv, Ahead
  <2>3. GaveUp(t)'
    BY <2>1 DEF GaveUp, Finished, CancelsOthers
  <2>4. Reasons' /\ EndMark'
    BY <1>1, <1>2, <1>5, <2>1, <2>3, GivenUp
  <2> QED
    BY <1>8, <1>9, <2>2, <2>4 DEF TaskInv
<1> QED
  BY <1>10, <1>11, <1>12 DEF ReadSize

LEMMA ReadDataTaskInv ==
  ASSUME DataInv, NEW t \in TaskIDs, ReadData(t)
  PROVE  TaskInv'
<1>1. TaskStep(t)
  BY DEF TaskStep
<1>2. /\ pc[t] = "data" /\ mainPc = "batch" /\ ibsPos' = ibsPos + 1
      /\ held' = [held EXCEPT ![t] = ibsPos]
      /\ buffers' = [buffers EXCEPT ![t] = EmptyBuffer]
      /\ UNCHANGED <<kinds, lastLen, ending, header, ctx, firstID, blockID, mainPc, result>>
      /\ UNCHANGED <<decoded, skipped>>
      /\ UNCHANGED NbBlocks
      /\ \A k : /\ DecodedLen(k)' = DecodedLen(k) /\ (MustSkip(k)' <=> MustSkip(k))
                /\ BlockLen(k)' = BlockLen(k)
  BY <1>1, TaskFrame, TaskInBatch, StreamFrame DEF ReadData
<1>3. /\ \A u \in TaskIDs \ {t} : pc'[u] = pc[u] /\ err'[u] = err[u] /\ held'[u] = held[u]
      /\ pc \in [TaskIDs -> PCs] /\ err \in [TaskIDs -> BOOLEAN] /\ held \in [TaskIDs -> Nat]
      /\ ibsPos \in Nat
  BY <1>1, TaskOthers DEF DataInv, IInv, TurnTypes
<1>4. \A u \in TaskIDs : CurrentBlockID(u)' = CurrentBlockID(u)
  BY <1>1, TaskForward
<1>5. HasTurn(t) /\ ~Left(t) /\ decoded[t] = 0 /\ skipped[t] = FALSE /\ err[t] = FALSE
  BY <1>2, FreshTask DEF Left, HasTurn
<1>6. NbBlocks \in Nat
  BY StreamTypes DEF DataInv
<1>7. ibsPos = CurrentBlockID(t) /\ ibsPos \in 1 .. NbBlocks + 1
  BY <1>2, <1>6 DEF DataInv, IInv, Position, Ahead
<1>8. /\ ibsPos' \in 1 .. NbBlocks + 2
      /\ \A u \in TaskIDs : held'[u] <= NbBlocks + 1
  BY <1>2, <1>3, <1>6, <1>7 DEF DataInv, Ahead
<1>9. BufferShape'
  <2>1. EmptyBuffer \in [1 .. BlockSize -> Units]
    BY ZeroIsUnit DEF EmptyBuffer
  <2> QED
    BY <1>2, <2>1 DEF DataInv, BufferShape, Units, MaxUnits
<1>10. Contents'
  <2>1. \A u \in TaskIDs \ {t} : buffers'[u] = buffers[u]
    BY <1>2, TasksHaveBuffers DEF DataInv, BufferShape
  <2> QED
    BY <1>2, <1>4, <1>5, <2>1 DEF DataInv, Contents
<1>11. Outcomes'
  <2>1. pc'[t] # "decode"
    BY <1>1, <1>3 DEF ReadData, Move, Fail
  <2> QED
    BY <1>2, <1>3, <1>4, <1>5, <2>1 DEF DataInv, Outcomes
<1>12. CASE AtBlock /\ Move(t, "pass") /\ UNCHANGED err
  <2>1. pc'[t] = "pass"
    BY <1>3, <1>12 DEF Move
  <2>2. CurrentBlockID(t) <= NbBlocks
    BY <1>7, <1>12 DEF AtBlock, NbBlocks
  <2>3. Ahead'
    BY <1>2, <1>3, <1>4, <1>8, <2>1, <2>2 DEF DataInv, Ahead
  <2>4. Reasons' /\ EndMark'
    BY <1>1, <1>2, <1>5, <2>1, StillTurn DEF HasTurn
  <2> QED
    BY <1>9, <1>10, <1>11, <2>3, <2>4 DEF TaskInv
<1>13. CASE ~AtBlock /\ Fail(t)
  <2>1. pc'[t] = "defer" /\ err'[t]
    BY <1>3, <1>13 DEF Move, Fail
  <2>2. Ahead'
    BY <1>2, <1>3, <1>4, <1>8, <2>1 DEF DataInv, Ahead
  <2>3. GaveUp(t)'
    BY <2>1 DEF GaveUp, Finished, CancelsOthers
  <2>4. Reasons' /\ EndMark'
    BY <1>1, <1>2, <1>5, <2>1, <2>3, GivenUp
  <2> QED
    BY <1>9, <1>10, <1>11, <2>2, <2>4 DEF TaskInv
<1> QED
  BY <1>12, <1>13 DEF ReadData

LEMMA PassTurnTaskInv ==
  ASSUME DataInv, NEW t \in TaskIDs, PassTurn(t)
  PROVE  TaskInv'
<1> DEFINE skip == MustSkip(CurrentBlockID(t))
<1>1. TaskStep(t)
  BY DEF TaskStep
<1>2. /\ pc[t] = "pass" /\ mainPc = "batch" /\ t \in Batch
      /\ blockID' = CurrentBlockID(t)
      /\ UNCHANGED <<kinds, lastLen, ending, header, ctx, firstID, ibsPos, mainPc>>
      /\ UNCHANGED <<buffers, held, decoded, err>>
      /\ UNCHANGED <<NbBlocks, NbTasks>>
      /\ \A k : DecodedLen(k)' = DecodedLen(k) /\ (MustSkip(k)' <=> MustSkip(k))
  BY <1>1, TaskFrame, TaskInBatch, StreamFrame DEF PassTurn, dataVars
<1>3. \A u \in TaskIDs \ {t} : pc'[u] = pc[u] /\ skipped'[u] = skipped[u]
  BY <1>1, TaskOthers DEF DataInv
<1>4. pc'[t] = IF skip THEN "defer" ELSE "decode"
  <2> HIDE DEF skip
  <2>1. Move(t, IF skip THEN "defer" ELSE "decode")
    BY DEF PassTurn, skip
  <2> QED
    BY <2>1 DEF Move, DataInv, IInv, TurnTypes
<1>5. skipped'[t] <=> skip
  <2> HIDE DEF skip
  <2>1. skipped' = [skipped EXCEPT ![t] = skip]
    BY DEF PassTurn, skip
  <2>2. skipped \in [TaskIDs -> BOOLEAN]
    BY DEF DataInv, IInv, TurnTypes
  <2> QED
    BY <2>1, <2>2
<1> HIDE DEF skip
<1>6. /\ \A u \in TaskIDs \ {t} : /\ GaveUp(u)' <=> GaveUp(u)
                                  /\ Left(u)' <=> Left(u)
      /\ \A u \in TaskIDs : /\ CurrentBlockID(u)' = CurrentBlockID(u)
                            /\ Left(u) => Left(u)'
                            /\ pc'[u] = "turn" => pc[u] = "turn"
  BY <1>1, TaskForward
<1>7. HasTurn(t) /\ ~Left(t) /\ decoded[t] = 0 /\ skipped[t] = FALSE /\ err[t] = FALSE /\ ~GaveUp(t)
  BY <1>2, FreshTask DEF Left, HasTurn
<1>8. NbBlocks \in Nat /\ NbTasks \in Nat /\ firstID \in Nat /\ t \in Nat /\ t < NbTasks
  BY <1>2, StreamTypes, TasksHaveBuffers DEF DataInv, IInv, TurnTypes, Batch
<1>9. CurrentBlockID(t) \in Nat /\ CurrentBlockID(t) <= NbBlocks /\ CurrentBlockID(t) <= firstID + NbTasks
  BY <1>2, <1>8 DEF DataInv, Ahead, CurrentBlockID
<1>10. blockID' # CancelTasks
  BY <1>2, <1>9, Constants
<1>11. ~GaveUp(t)' /\ Left(t)' /\ pc'[t] # "done"
  BY <1>2, <1>4, <1>5, <1>7 DEF GaveUp, Finished, CancelsOthers, NothingToShow, Left
<1>12. BufferShape' /\ Contents'
  BY <1>1, <1>2, SameBuffers
<1>13. Ahead'
  BY <1>2, <1>3, <1>4, <1>6, <1>9 DEF DataInv, Ahead
<1>14. Outcomes'
  <2>1. /\ pc'[t] = "decode" => ~skip
        /\ skipped'[t] => skip
    BY <1>4, <1>5
  <2>2. skip <=> MustSkip(CurrentBlockID(t))'
    BY <1>2, <1>6 DEF skip
  <2> QED
    BY <1>2, <1>3, <1>6, <1>7, <1>9, <2>1, <2>2 DEF DataInv, Outcomes
<1>15. \A u \in TaskIDs : GaveUp(u)' <=> GaveUp(u)
  BY <1>6, <1>7, <1>11
<1>16. Reasons'
  <2>1. \A u \in TaskIDs : u < t => Left(u)
    BY <1>7, TurnHolder
  <2>2. ASSUME NEW u \in TaskIDs, Left(u)', ~GaveUp(u)', NEW v \in TaskIDs, v < u
        PROVE  Left(v)'
    <3>1. CASE u = t
      BY <1>6, <2>1, <2>2, <3>1
    <3>2. CASE u # t
      BY <1>2, <1>6, <2>2, <3>2 DEF DataInv, Reasons
    <3> QED
      BY <3>1, <3>2
  <2>3. ASSUME NEW u \in TaskIDs, Left(u)', ~GaveUp(u)'
        PROVE  CurrentBlockID(u) <= CurrentBlockID(t)
    <3>1. ~(t < u)
      <4> SUFFICES ASSUME t < u PROVE FALSE
        OBVIOUS
      <4>1. u # t
        BY <1>8
      <4>2. Left(u) /\ ~GaveUp(u)
        BY <1>6, <2>3, <4>1
      <4> QED
        BY <1>2, <1>7, <4>2 DEF DataInv, Reasons
    <3>2. u = t \/ u < t
      BY <3>1, Constants
    <3> QED
      BY <3>2, <1>9, OwnNumber DEF DataInv
  <2>4. \A x \in TaskIDs : pc'[x] = "turn" /\ (\E u \in TaskIDs : GaveUp(u)')
                             => \E v \in TaskIDs : v < x /\ GaveUp(v)'
    BY <1>2, <1>6, <1>15 DEF DataInv, Reasons
  <2> QED
    BY <1>2, <1>6, <1>9, <1>10, <2>2, <2>3, <2>4 DEF Reasons
<1>17. EndMark'
  <2> SUFFICES ASSUME NEW e \in TaskIDs, GaveUp(e)', ~err[e],
                      \A u \in TaskIDs : u < e => ~GaveUp(u)'
               PROVE  FoundEnd(e)'
    BY <1>2 DEF EndMark
  <2>1. e # t /\ FoundEnd(e)
    BY <1>11, <1>15 DEF DataInv, EndMark
  <2>2. ~(t < e)
    BY <1>7, <2>1 DEF FoundEnd
  <2>3. e < t
    BY <2>1, <2>2, Constants
  <2>4. CurrentBlockID(e) < CurrentBlockID(t) /\ CurrentBlockID(e) = NbBlocks + 1
    BY <2>1, <2>3, OwnNumber DEF DataInv, FoundEnd
  <2> QED
    BY <1>8, <1>9, <2>4
<1> QED
  BY <1>12, <1>13, <1>14, <1>16, <1>17 DEF TaskInv

(* What a task leaves in its buffer. *)
LEMMA DecodedBuffer ==
  ASSUME StreamShape, NEW k \in 1 .. NbBlocks, NEW buf \in [1 .. BlockSize -> Units]
  PROVE  /\ DecodedInto(buf, k) \in [1 .. BlockSize -> Units]
         /\ kinds[k] = "ok" => \A j \in 1 .. BlockLen(k) :
              DecodedInto(buf, k)[j] = (k - 1) * BlockSize + j
<1>1. BlockLen(k) \in 1 .. BlockSize /\ BlockSize \in Nat
  <2>1. k \in 0 .. NbBlocks /\ k > 0
    BY StreamTypes
  <2> QED
    BY <2>1, EndIs, Constants
<1>2. \A j \in 1 .. BlockLen(k) : BlockUnits(k)[j] = (k - 1) * BlockSize + j
  BY DEF BlockUnits
<1>3. \A j \in 1 .. BlockLen(k) : BlockUnits(k)[j] \in Units /\ -BlockUnits(k)[j] \in Units
  BY <1>2, UnitsOfBlocks
<1>4. ASSUME NEW j \in 1 .. BlockSize
      PROVE  (IF j > BlockLen(k) THEN buf[j]
              ELSE IF kinds[k] = "ok" THEN BlockUnits(k)[j] ELSE -BlockUnits(k)[j]) \in Units
  <2>1. CASE j > BlockLen(k)
    BY <2>1
  <2>2. CASE ~(j > BlockLen(k))
    <3>1. j \in 1 .. BlockLen(k)
      BY <1>1, <2>2
    <3> QED
      BY <1>3, <2>2, <3>1
  <2> QED
    BY <2>1, <2>2
<1>5. DecodedInto(buf, k) \in [1 .. BlockSize -> Units]
  BY <1>4 DEF DecodedInto
<1>6. ASSUME kinds[k] = "ok", NEW j \in 1 .. BlockLen(k)
      PROVE  DecodedInto(buf, k)[j] = (k - 1) * BlockSize + j
  <2>1. j \in 1 .. BlockSize /\ ~(j > BlockLen(k))
    BY <1>1
  <2> QED
    BY <1>2, <1>6, <2>1 DEF DecodedInto
<1> QED
  BY <1>5, <1>6

LEMMA DecodeTaskInv ==
  ASSUME DataInv, NEW t \in TaskIDs, Decode(t)
  PROVE  TaskInv'
<1> DEFINE k == CurrentBlockID(t)
<1>1. TaskStep(t)
  BY DEF TaskStep
<1>2. /\ pc[t] = "decode" /\ mainPc = "batch"
      /\ UNCHANGED <<kinds, lastLen, ending, header, ctx, firstID, blockID, ibsPos, mainPc, result>>
      /\ UNCHANGED <<held, skipped>>
      /\ UNCHANGED <<NbBlocks, NbTasks>>
      /\ \A n : /\ DecodedLen(n)' = DecodedLen(n) /\ (MustSkip(n)' <=> MustSkip(n))
                /\ BlockLen(n)' = BlockLen(n)
  BY <1>1, TaskFrame, TaskInBatch, StreamFrame DEF Decode
<1>3. /\ \A u \in TaskIDs \ {t} : pc'[u] = pc[u] /\ err'[u] = err[u] /\ decoded'[u] = decoded[u]
      /\ pc \in [TaskIDs -> PCs] /\ err \in [TaskIDs -> BOOLEAN] /\ decoded \in [TaskIDs -> Nat]
  BY <1>1, TaskOthers DEF DataInv, IInv, TurnTypes
<1>4. /\ \A u \in TaskIDs \ {t} : /\ GaveUp(u)' <=> GaveUp(u)
                                  /\ Left(u)' <=> Left(u)
      /\ \A u \in TaskIDs : /\ CurrentBlockID(u)' = CurrentBlockID(u)
                            /\ Left(u) => Left(u)'
                            /\ pc'[u] = "turn" => pc[u] = "turn"
  BY <1>1, TaskForward
<1>5. decoded[t] = 0 /\ ~skipped[t] /\ ~MustSkip(k) /\ k <= NbBlocks /\ held[t] = k
  BY <1>2 DEF DataInv, Outcomes, Ahead, IInv, RightBlock
<1>6. k \in 1 .. NbBlocks
  <2>1. k \in Nat /\ k > 0
    BY OwnNumber DEF DataInv
  <2> QED
    BY <1>5, <2>1, StreamTypes DEF DataInv
<1>7. Left(t) /\ Passed(t) /\ ~GaveUp(t) /\ ~HasTurn(t)
  BY <1>2 DEF Left, Passed, GaveUp, Finished, HasTurn
<1> HIDE DEF k
<1>8. pc'[t] = "defer" /\ Left(t)'
  BY <1>3 DEF Decode, Fail, Move, Left
<1>9. DecodedLen(k) \in Nat /\ DecodedLen(k) > 0
  <2>1. BlockLen(k) \in 1 .. BlockSize
    <3>1. k \in 0 .. NbBlocks /\ k > 0
      BY <1>6, StreamTypes DEF DataInv
    <3> QED
      BY <3>1, EndIs DEF DataInv
  <2> QED
    BY <2>1, Constants DEF DecodedLen
<1>10. \/ /\ kinds[k] = "bad" /\ err'[t] /\ UNCHANGED <<decoded, buffers>>
       \/ /\ kinds[k] # "bad" /\ decoded'[t] = DecodedLen(k)
          /\ buffers' = [buffers EXCEPT ![t] = DecodedInto(@, k)]
          /\ kinds[k] = "crc" => err'[t]
  BY <1>3, <1>5 DEF Decode, Fail
<1>11. kinds[k] \in BlockKinds
  BY <1>6, StreamTypes DEF DataInv
<1>12. t \in BufferIDs /\ buffers[t] \in [1 .. BlockSize -> Units]
  BY TasksHaveBuffers DEF DataInv, BufferShape
<1>13. BufferShape'
  <2>1. DecodedInto(buffers[t], k) \in [1 .. BlockSize -> Units]
    BY <1>6, <1>12, DecodedBuffer DEF DataInv
  <2> QED
    BY <1>10, <2>1 DEF DataInv, BufferShape, Units, MaxUnits
<1>14. Contents'
  <2>1. \A u \in TaskIDs \ {t} : buffers'[u] = buffers[u]
    BY <1>10, TasksHaveBuffers DEF DataInv, BufferShape
  <2>2. decoded'[t] # 0 => buffers'[t] = DecodedInto(buffers[t], k)
    BY <1>5, <1>10, <1>12 DEF DataInv, BufferShape
  <2>3. ASSUME decoded'[t] # 0, kinds[k] = "ok", NEW j \in 1 .. BlockLen(k)
        PROVE  buffers'[t][j] = (k - 1) * BlockSize + j
    BY <1>6, <1>12, <2>2, <2>3, DecodedBuffer DEF DataInv
  <2> SUFFICES ASSUME NEW u \in TaskIDs, decoded'[u] # 0, u >= result,
                      kinds[CurrentBlockID(u)] = "ok", NEW j \in 1 .. BlockLen(CurrentBlockID(u))
               PROVE  buffers'[u][j] = (CurrentBlockID(u) - 1) * BlockSize + j
    BY <1>2, <1>4 DEF Contents
  <2>4. CASE u = t
    BY <2>3, <2>4 DEF k
  <2>5. CASE u # t
    BY <1>3, <2>1, <2>5 DEF DataInv, Contents
  <2> QED
    BY <2>4, <2>5
<1>15. Ahead'
  BY <1>2, <1>3, <1>4, <1>8 DEF DataInv, Ahead
<1>16. Outcomes'
  <2>1. decoded'[t] # 0 => /\ decoded'[t] = DecodedLen(k)
                           /\ ~err'[t] => kinds[k] \in {"ok", "big"}
    BY <1>5, <1>10, <1>11 DEF BlockKinds
  <2> QED
    BY <1>2, <1>3, <1>4, <1>5, <1>8, <2>1 DEF DataInv, Outcomes, k
<1>17. GaveUp(t)' => err'[t]
  BY <1>9, <1>10 DEF GaveUp, CancelsOthers, NothingToShow
<1>18. \A u \in TaskIDs : u < t => Left(u)
  BY <1>7 DEF DataInv, IInv, TurnOrder
<1>19. \A u \in TaskIDs : GaveUp(u) => GaveUp(u)'
  BY <1>4, <1>7
<1>20. Reasons'
  <2>1. ASSUME NEW x \in TaskIDs, pc'[x] = "turn", NEW u \in TaskIDs, GaveUp(u)'
        PROVE  \E v \in TaskIDs : v < x /\ GaveUp(v)'
    <3>1. CASE u = t
      <4>1. ~Left(x) /\ x # t
        BY <1>4, <1>8, <2>1 DEF Left
      <4>2. t < x
        BY <1>18, <4>1, Constants
      <4> QED
        BY <2>1, <3>1, <4>2
    <3>2. CASE u # t
      <4>1. \E v \in TaskIDs : v < x /\ GaveUp(v)
        BY <1>2, <1>4, <2>1, <3>2 DEF DataInv, Reasons
      <4> QED
        BY <1>19, <4>1
    <3> QED
      BY <3>1, <3>2
  <2>2. \A u \in TaskIDs : Left(u)' /\ ~GaveUp(u)' => Left(u) /\ ~GaveUp(u)
    BY <1>4, <1>7
  <2> QED
    BY <1>2, <1>4, <1>19, <2>1, <2>2 DEF DataInv, Reasons
<1>21. EndMark'
  <2> SUFFICES ASSUME NEW e \in TaskIDs, GaveUp(e)', ~err'[e],
                      \A u \in TaskIDs : u < e => ~GaveUp(u)'
               PROVE  FoundEnd(e)'
    BY DEF EndMark
  <2>1. e # t
    BY <1>17
  <2>2. FoundEnd(e)
    BY <1>3, <1>4, <1>19, <2>1 DEF DataInv, EndMark
  <2> QED
    BY <1>2, <1>3, <1>4, <2>1, <2>2 DEF FoundEnd
<1> QED
  BY <1>13, <1>14, <1>15, <1>16, <1>20, <1>21 DEF TaskInv

LEMMA DeferTaskInv ==
  ASSUME DataInv, NEW t \in TaskIDs, Defer(t)
  PROVE  TaskInv'
<1>1. TaskStep(t)
  BY DEF TaskStep
<1>2. /\ pc[t] = "defer" /\ mainPc = "batch"
      /\ UNCHANGED <<kinds, lastLen, ending, header, ctx, firstID, ibsPos, mainPc>>
      /\ UNCHANGED <<buffers, held, decoded, skipped, err>>
      /\ UNCHANGED <<NbBlocks, NbTasks>>
      /\ \A k : DecodedLen(k)' = DecodedLen(k) /\ (MustSkip(k)' <=> MustSkip(k))
  BY <1>1, TaskFrame, TaskInBatch, StreamFrame DEF Defer, dataVars
<1>3. pc'[t] = "done" /\ \A u \in TaskIDs \ {t} : pc'[u] = pc[u]
  BY <1>1, TaskOthers DEF DataInv, IInv, TurnTypes, Defer, Move
<1>4. /\ \A u \in TaskIDs \ {t} : /\ GaveUp(u)' <=> GaveUp(u)
                                  /\ Left(u)' <=> Left(u)
      /\ \A u \in TaskIDs : /\ CurrentBlockID(u)' = CurrentBlockID(u)
                            /\ Left(u) => Left(u)'
                            /\ pc'[u] = "turn" => pc[u] = "turn"
  BY <1>1, TaskForward
<1>5. (GaveUp(t)' <=> GaveUp(t)) /\ Left(t) /\ (GaveUp(t) <=> CancelsOthers(t))
  BY <1>2, <1>3 DEF GaveUp, Finished, CancelsOthers, NothingToShow, Left
<1>6. blockID' = IF CancelsOthers(t) THEN CancelTasks ELSE blockID
  BY DeferStores DEF DataInv
<1>7. BufferShape' /\ Contents'
  BY <1>1, <1>2, SameBuffers
<1>8. Ahead'
  BY <1>2, <1>3, <1>4, <1>6 DEF DataInv, Ahead
<1>9. Outcomes'
  BY <1>2, <1>3, <1>4 DEF DataInv, Outcomes
<1>10. \A u \in TaskIDs : (GaveUp(u)' <=> GaveUp(u)) /\ (Left(u)' => Left(u))
  BY <1>4, <1>5
<1>11. Reasons'
  <2>1. blockID' = CancelTasks => \E u \in TaskIDs : GaveUp(u)'
    BY <1>2, <1>5, <1>6, <1>10 DEF DataInv, Reasons
  <2>2. blockID' # CancelTasks => UNCHANGED blockID
    BY <1>6
  <2> QED
    BY <1>2, <1>4, <1>10, <2>1, <2>2 DEF DataInv, Reasons
<1>12. EndMark'
  <2> SUFFICES ASSUME NEW e \in TaskIDs, GaveUp(e)', ~err[e],
                      \A u \in TaskIDs : u < e => ~GaveUp(u)'
               PROVE  FoundEnd(e)'
    BY <1>2 DEF EndMark
  <2>1. FoundEnd(e) /\ GaveUp(e)
    BY <1>10 DEF DataInv, EndMark
  <2>2. e = t => blockID' = CancelTasks
    BY <1>5, <1>6, <2>1
  <2>3. blockID = CancelTasks => blockID' = CancelTasks
    BY <1>6
  <2> QED
    BY <1>2, <1>3, <1>4, <2>1, <2>2, <2>3 DEF FoundEnd
<1> QED
  BY <1>7, <1>8, <1>9, <1>11, <1>12 DEF TaskInv

LEMMA TaskDataInv ==
  ASSUME DataInv, NEW t \in TaskIDs, TaskStep(t)
  PROVE  DataInv'
<1>1. TaskInv'
  BY AwaitTurnTaskInv, ReadSizeTaskInv, ReadDataTaskInv, PassTurnTaskInv, DecodeTaskInv,
     DeferTaskInv DEF TaskStep
<1>2. IInv'
  BY AwaitTurnIInv, ReadSizeIInv, ReadDataIInv, PassTurnIInv, DecodeIInv, DeferIInv
  DEF TaskStep, DataInv
<1> QED
  BY <1>1, <1>2, TaskCaller DEF TaskInv, DataInv

-----------------------------------------------------------------------------
(* The steps of the caller. *)

(* Outside a batch there are no tasks. *)
LEMMA Alone ==
  ASSUME DataInv, mainPc # "batch"
  PROVE  \A t \in TaskIDs : pc[t] = "none" /\ decoded[t] = 0 /\ skipped[t] = FALSE /\ err[t] = FALSE
<1>1. \A t \in TaskIDs : pc[t] = "none"
  BY DEF DataInv, IInv, BatchShape
<1> QED
  BY <1>1 DEF DataInv, IInv, Fresh, Left

LEMMA NoTaskInv ==
  ASSUME DataInv, UNCHANGED <<kinds, lastLen, ending, header, ctx, blockID, ibsPos>>,
         mainPc' # "batch",
         \A t \in TaskIDs : /\ pc'[t] = "none" /\ decoded'[t] = 0 /\ skipped'[t] = FALSE
                            /\ held'[t] = held[t] \/ held'[t] = 0
  PROVE  StreamShape' /\ Ahead' /\ Outcomes' /\ Contents' /\ Reasons' /\ EndMark'
<1>1. UNCHANGED NbBlocks /\ StreamShape' /\ NbBlocks \in Nat
  BY StreamFrame, StreamTypes DEF DataInv
<1>2. \A t \in TaskIDs : held'[t] <= NbBlocks + 1
  BY <1>1 DEF DataInv, Ahead
<1>3. Ahead'
  BY <1>1, <1>2 DEF DataInv, Ahead
<1>4. Outcomes' /\ Contents' /\ Reasons'
  BY DEF Outcomes, Contents, Reasons
<1>5. EndMark'
  BY DEF EndMark, GaveUp, Finished
<1> QED
  BY <1>1, <1>3, <1>4, <1>5

(* ... also when the tasks are not touched. *)
LEMMA StillNoTaskInv ==
  ASSUME DataInv, UNCHANGED <<theStream, blockID, ibsPos, taskVars>>,
         mainPc # "batch", mainPc' # "batch"
  PROVE  StreamShape' /\ Ahead' /\ Outcomes' /\ Contents' /\ Reasons' /\ EndMark'
<1>1. UNCHANGED <<kinds, lastLen, ending, header, ctx>> /\ UNCHANGED <<pc, held, decoded, skipped>>
  BY DEF theStream, taskVars
<1> QED
  BY <1>1, Alone, NoTaskInv

LEMMA ReadDataInv ==
  ASSUME DataInv, NEW n \in ReadSizes, Read(n)
  PROVE  DataInv'
<1>1. /\ mainPc = "idle" /\ ~closed /\ ~(StopOnError /\ failed)
      /\ UNCHANGED <<theStream, blockID, ibsPos, taskVars>>
      /\ UNCHANGED <<available, consumed, buffers, firstID, result, kept, sum, delivered, closed>>
      /\ callStart' = Len(delivered) /\ remaining' = n
      /\ \/ mainPc' = "idle" /\ ret' = "error" /\ failed' = TRUE
         \/ mainPc' \in {"copy", "panic"} /\ ret' = "none" /\ UNCHANGED failed
  BY DEF Read, ReadHeader, dataVars, resultVars
<1>2. UNCHANGED <<kinds, lastLen, ending, header, ctx>>
  BY <1>1 DEF theStream
<1>3. /\ UNCHANGED <<NbBlocks, NbTasks, Batch, Offset>> /\ \A k : UpTo(k)' = UpTo(k)
  BY <1>2, StreamFrame
<1>4. IInv'
  BY CallerIInv DEF DataInv, Client
<1>5. StreamShape' /\ Ahead' /\ Outcomes' /\ Contents' /\ Reasons' /\ EndMark'
  BY <1>1, StillNoTaskInv
<1>6. BufferShape'
  BY <1>1 DEF DataInv, BufferShape
<1>7. initialized' \in BOOLEAN /\ sized' \in BOOLEAN
  BY Zenon DEF Read, ReadHeader
<1>8. CallShape'
  <2>1. n \in Nat
    BY ReaderAssumption
  <2> QED
    <3>1. CASE mainPc' = "idle" /\ ret' = "error" /\ failed' = TRUE
      BY <1>1, <1>3, <1>7, <2>1, <3>1 DEF DataInv, CallShape
    <3>2. CASE mainPc' \in {"copy", "panic"} /\ ret' = "none" /\ UNCHANGED failed
      BY <1>1, <1>3, <1>7, <2>1, <3>2 DEF DataInv, CallShape
    <3> QED
      BY <1>1, <3>1, <3>2
<1>9. Got'
  <2>1. ~failed' \/ StopOnError => ~failed
    BY <1>1
  <2>2. delivered \in Seq(Int) => Len(delivered) \in 0 .. Len(delivered)
    OBVIOUS
  <2> QED
    BY <1>1, <1>3, <2>1, <2>2 DEF DataInv, Got
<1>10. Account'
  BY <1>1, <1>2, <1>3 DEF DataInv, Account, Layout
<1>11. Progress' /\ Told' /\ Sizes'
  BY <1>1 DEF DataInv, Progress, Told, Sizes
<1> QED
  BY <1>4, <1>5, <1>6, <1>8, <1>9, <1>10, <1>11 DEF DataInv

LEMMA CloseDataInv ==
  ASSUME DataInv, Close
  PROVE  DataInv'
<1>1. /\ mainPc = "idle"
      /\ UNCHANGED <<theStream, blockID, ibsPos, taskVars>>
      /\ UNCHANGED <<consumed, initialized, sized, mainPc, remaining, firstID, result, kept, sum>>
      /\ UNCHANGED <<delivered, callStart, ret, failed>>
      /\ \/ closed /\ UNCHANGED <<closed, available, buffers>>
         \/ closed' = TRUE /\ available' = 0 /\ buffers' = [b \in BufferIDs |-> EmptyBuffer]
  BY DEF Close, mainVars, resultVars, histVars
<1>2. UNCHANGED <<kinds, lastLen, ending, header, ctx>>
  BY <1>1 DEF theStream
<1>3. /\ UNCHANGED <<NbBlocks, NbTasks, Batch, Offset>> /\ \A k : UpTo(k)' = UpTo(k)
  BY <1>2, StreamFrame
<1>4. IInv'
  BY CallerIInv DEF DataInv, Client
<1>5. StreamShape' /\ Ahead' /\ Outcomes' /\ Contents' /\ Reasons' /\ EndMark'
  BY <1>1, StillNoTaskInv
<1>6. BufferShape'
  <2>1. EmptyBuffer \in [1 .. BlockSize -> Units]
    BY ZeroIsUnit DEF EmptyBuffer
  <2> QED
    BY <1>1, <2>1 DEF DataInv, BufferShape, Units, MaxUnits
<1>7. closed' = TRUE /\ available' \in Nat /\ available' = 0
  BY <1>1 DEF DataInv, CallShape
<1>8. CallShape'
  BY <1>1, <1>3, <1>7 DEF DataInv, CallShape
<1>9. Got' /\ Told'
  BY <1>1, <1>2, <1>3 DEF DataInv, Got, Told
<1>10. Account' /\ Progress'
  BY <1>1, <1>7 DEF Account, Progress
<1>11. Sizes'
  <2>1. 0 <= Jobs * BlockSize
    BY Product, TasksHaveBuffers
  <2> QED
    BY <1>1, <1>7, <2>1 DEF DataInv, Sizes
<1> QED
  BY <1>4, <1>5, <1>6, <1>8, <1>9, <1>10, <1>11 DEF DataInv

LEMMA ProcessCancelledDataInv ==
  ASSUME DataInv, ProcessCancelled
  PROVE  DataInv'
<1>1. /\ mainPc = "process" /\ blockID = CancelTasks /\ available' = 0 /\ mainPc' = "idle"
      /\ ret' = EndOfStream
      /\ UNCHANGED <<theStream, blockID, ibsPos, taskVars>>
      /\ UNCHANGED <<closed, initialized, sized, consumed, buffers, remaining, firstID>>
      /\ UNCHANGED <<result, kept, sum, delivered, callStart, failed>>
  BY DEF ProcessCancelled, streamVars, resultVars
<1>2. UNCHANGED <<kinds, lastLen, ending, header, ctx>>
  BY <1>1 DEF theStream
<1>3. /\ UNCHANGED <<NbBlocks, NbTasks, Batch, Offset>> /\ \A k : UpTo(k)' = UpTo(k)
  BY <1>2, StreamFrame
<1>4. IInv'
  BY CallerIInv DEF DataInv
<1>5. StreamShape' /\ Ahead' /\ Outcomes' /\ Contents' /\ Reasons' /\ EndMark'
  BY <1>1, StillNoTaskInv
<1>6. BufferShape' /\ Got'
  BY <1>1, <1>3 DEF DataInv, BufferShape, Got
<1>7. CallShape'
  BY <1>1, <1>3 DEF DataInv, CallShape, EndOfStream
<1>8. ~closed
  BY <1>1 DEF DataInv, CallShape
<1>9. ~failed => /\ available = 0 /\ Len(delivered) + available = UpTo(NbBlocks)
                 /\ ending = "end" /\ consumed + available <= Jobs * BlockSize
  BY <1>1, <1>8 DEF DataInv, Account
<1>10. Account'
  <2>1. consumed \in Nat
    BY DEF DataInv, CallShape
  <2>2. Layout(consumed, 0)'
    <3>1. consumed' \in Int
      BY <1>1, <2>1
    <3> QED
      BY <3>1, NoLayout DEF Layout
  <2> QED
    BY <1>1, <1>2, <1>3, <1>9, <2>2 DEF Account
<1>11. Told'
  <2>1. ~failed => Len(delivered) = UpTo(NbBlocks)
    <3>1. ~failed => delivered \in Seq(Int)
      BY DEF DataInv, Got
    <3>2. delivered \in Seq(Int) => Len(delivered) \in Nat
      OBVIOUS
    <3> QED
      BY <1>9, <3>1, <3>2
  <2> QED
    BY <1>1, <1>2, <1>3, <1>9, <2>1 DEF Told
<1>12. Progress' /\ Sizes'
  <2>1. 0 <= Jobs * BlockSize
    BY Product, TasksHaveBuffers
  <2> QED
    BY <1>1, <2>1 DEF DataInv, Progress, Sizes
<1> QED
  BY <1>4, <1>5, <1>6, <1>7, <1>10, <1>11, <1>12 DEF DataInv

LEMMA StartBatchDataInv ==
  ASSUME DataInv, StartBatch
  PROVE  DataInv'
<1>1. /\ mainPc = "process" /\ blockID # CancelTasks /\ mainPc' = "batch" /\ firstID' = blockID
      /\ pc' = [t \in TaskIDs |-> IF t \in Batch THEN "turn" ELSE "none"]
      /\ UNCHANGED <<theStream, blockID, ibsPos, held, decoded, skipped, err>>
      /\ UNCHANGED <<closed, initialized, sized, available, consumed, buffers, remaining>>
      /\ UNCHANGED <<result, kept, sum, delivered, callStart, ret, failed>>
  BY DEF StartBatch, streamVars, dataVars, resultVars, histVars
<1>2. UNCHANGED <<kinds, lastLen, ending, header, ctx>>
  BY <1>1 DEF theStream
<1>3. /\ UNCHANGED <<NbBlocks, NbTasks, Batch, Offset>> /\ \A k : UpTo(k)' = UpTo(k)
      /\ StreamShape'
  BY <1>2, StreamFrame DEF DataInv
<1>4. IInv'
  BY StartBatchIInv DEF DataInv
<1>5. \A t \in TaskIDs : /\ pc'[t] \in {"turn", "none"} /\ decoded'[t] = 0
                         /\ skipped'[t] = FALSE /\ held'[t] = held[t]
  BY <1>1, Alone
<1>6. \A t \in TaskIDs : ~GaveUp(t)' /\ ~Left(t)'
  BY <1>5 DEF GaveUp, Finished, Left
<1>7. NbBlocks \in Nat /\ blockID \in Nat /\ blockID <= NbBlocks /\ NbTasks \in Nat
  BY <1>1, StreamTypes, TasksHaveBuffers DEF DataInv, IInv, TurnTypes, Ahead
<1>8. Ahead' /\ Outcomes' /\ Contents' /\ BufferShape'
  BY <1>1, <1>3, <1>5, <1>7 DEF DataInv, Ahead, Outcomes, Contents, BufferShape
<1>9. Reasons' /\ EndMark'
  BY <1>1, <1>3, <1>6, <1>7 DEF Reasons, EndMark
<1>10. result = 0 /\ kept = 0 /\ sum = 0 /\ ~closed
  BY <1>1 DEF DataInv, CallShape
<1>11. CallShape'
  BY <1>1, <1>3, <1>10 DEF DataInv, CallShape
<1>12. Got' /\ Told' /\ Sizes' /\ Account'
  BY <1>1, <1>2, <1>3 DEF DataInv, Got, Told, Sizes, Account
<1>13. Progress'
  <2> SUFFICES ASSUME ~failed PROVE Progress'
    BY <1>1 DEF Progress
  <2>1. /\ available = 0 /\ consumed <= Jobs * BlockSize
        /\ Len(delivered) + 0 = UpTo(blockID) /\ delivered \in Seq(Int)
    BY <1>1, <1>10 DEF DataInv, Account, Sizes, Got
  <2>2. Len(delivered) = UpTo(blockID)
    BY <2>1
  <2>3. Layout(0, 0)'
    BY NoLayout DEF Layout
  <2>4. 0 * BlockSize = 0 /\ blockID + 0 = blockID
    BY <1>7, Product
  <2>5. \A u \in TaskIDs : ~(u < 0)
    BY Constants
  <2> QED
    BY <1>1, <1>3, <1>7, <1>10, <2>1, <2>2, <2>3, <2>4, <2>5 DEF Progress
<1> QED
  BY <1>3, <1>4, <1>8, <1>9, <1>11, <1>12, <1>13 DEF DataInv

LEMMA Concatenated ==
  ASSUME NEW s \in Seq(Int), NEW g \in Seq(Int)
  PROVE  s \o g \in Seq(Int) /\ Len(s \o g) = Len(s) + Len(g)
  OBVIOUS

(* A piece of a buffer is appended to what was handed out. *)
LEMMA AppendPiece ==
  ASSUME NEW s \in Seq(Int), NEW f \in [1 .. BlockSize -> Int], NEW a \in Nat,
         NEW n \in Nat, n > 0, a + n <= BlockSize
  PROVE  LET r == s \o SubSeq(f, a + 1, a + n)
         IN /\ r \in Seq(Int) /\ Len(r) = Len(s) + n
            /\ \A i \in 1 .. Len(s) : r[i] = s[i]
            /\ \A j \in 1 .. n : r[Len(s) + j] = f[a + j]
<1> DEFINE g == SubSeq(f, a + 1, a + n)
           r == s \o g
<1>1. BlockSize \in Nat /\ f \in Seq(Int) /\ Len(f) = BlockSize
  BY Constants
<1>2. g \in Seq(Int) /\ Len(g) = n /\ \A j \in 1 .. n : g[j] = f[a + j]
  <2>1. a + 1 \in 1 .. Len(f) + 1 /\ a + n \in 0 .. Len(f)
    BY <1>1
  <2>2. g \in Seq(Int) /\ Len(g) = n
    BY <1>1, <2>1
  <2>3. ASSUME NEW j \in 1 .. n PROVE g[j] = f[a + j]
    <3>1. g[j] = f[(a + 1) + j - 1]
      BY <1>1, <2>1
    <3>2. (a + 1) + j - 1 = a + j
      BY <2>3
    <3> QED
      BY <3>1, <3>2
  <2> QED
    BY <2>2, <2>3
<1> HIDE DEF g
<1>3. r \in Seq(Int) /\ Len(r) = Len(s) + n
  <2>1. g \in Seq(Int) /\ Len(g) = n
    BY <1>2
  <2>2. r \in Seq(Int) /\ Len(r) = Len(s) + Len(g)
    BY <2>1, Concatenated
  <2> QED
    BY <2>1, <2>2
<1>4. \A i \in 1 .. Len(s) : r[i] = s[i]
  BY <1>2
<1>5. \A j \in 1 .. n : r[Len(s) + j] = f[a + j]
  BY <1>2
<1> QED
  BY <1>3, <1>4, <1>5 DEF g

LEMMA Division ==
  ASSUME NEW c \in Nat
  PROVE  /\ c % BlockSize \in 0 .. BlockSize - 1 /\ c \div BlockSize \in Nat
         /\ ((c \div BlockSize) * BlockSize) + (c % BlockSize) = c
<1>1. BlockSize \in Nat \ {0}
  BY Constants
<1>2. \A x \in Nat, y \in Nat \ {0} : /\ x % y \in 0 .. y - 1 /\ x \div y \in Nat
                                      /\ ((x \div y) * y) + (x % y) = x
  BY Z3
<1> QED
  BY <1>1, <1>2

(* What one turn of the loop of Read hands out. *)
Chunk == MinOf(remaining, MinOf(available, BlockSize - (consumed % BlockSize)))

LEMMA ChunkIs ==
  ASSUME DataInv
  PROVE  /\ Chunk \in Nat /\ Chunk <= available /\ Chunk <= remaining
         /\ (consumed % BlockSize) + Chunk <= BlockSize /\ consumed % BlockSize \in Nat
<1>1. remaining \in Nat /\ available \in Nat /\ consumed \in Nat /\ BlockSize \in Nat
  BY Constants DEF DataInv, CallShape
<1>2. consumed % BlockSize \in 0 .. BlockSize - 1
  BY <1>1, Division
<1> DEFINE o == consumed % BlockSize
<1>3. o \in 0 .. BlockSize - 1
  BY <1>2
<1> HIDE DEF o
<1>4. Chunk = MinOf(remaining, MinOf(available, BlockSize - o))
  BY DEF Chunk, o
<1>5. /\ Chunk \in Nat /\ Chunk <= available /\ Chunk <= remaining
      /\ o + Chunk <= BlockSize /\ o \in Nat
  BY <1>1, <1>3, <1>4 DEF MinOf
<1> QED
  BY <1>5 DEF o

LEMMA CopyDataInv ==
  ASSUME DataInv, Copy
  PROVE  DataInv'
<1> DEFINE off == consumed % BlockSize
           buf == consumed \div BlockSize
<1>1. /\ mainPc = "copy"
      /\ delivered' = IF Chunk = 0 THEN delivered
                      ELSE delivered \o SubSeq(buffers[buf], off + 1, off + Chunk)
      /\ available' = available - Chunk /\ consumed' = consumed + Chunk
      /\ remaining' = remaining - Chunk
      /\ mainPc' \in {"idle", "copy", "process"}
      /\ mainPc' = "process" => ~(available' > 0) \/ ~(remaining' > 0)
      /\ mainPc' \in {"copy", "process"} => remaining' # 0
      /\ ret' = IF remaining' = 0 THEN "ok" ELSE ret
      /\ UNCHANGED <<theStream, blockID, ibsPos, taskVars>>
      /\ UNCHANGED <<closed, initialized, sized, buffers, firstID, result, kept, sum>>
      /\ UNCHANGED <<callStart, failed>>
  <2>1. /\ mainPc = "copy"
        /\ delivered' = IF Chunk = 0 THEN delivered
                        ELSE delivered \o SubSeq(buffers[buf], off + 1, off + Chunk)
        /\ available' = available - Chunk /\ consumed' = consumed + Chunk
        /\ remaining' = remaining - Chunk
        /\ ret' = IF remaining' = 0 THEN "ok" ELSE ret
    BY Zenon DEF Copy, Chunk
  <2>2. mainPc' = CASE remaining' = 0 -> "idle"
                    [] remaining' > 0 /\ available' > 0 -> "copy"
                    [] OTHER -> "process"
    BY Zenon DEF Copy
  <2>3. /\ mainPc' \in {"idle", "copy", "process"}
        /\ mainPc' = "process" => ~(available' > 0) \/ ~(remaining' > 0)
        /\ mainPc' \in {"copy", "process"} => remaining' # 0
    <3>1. CASE remaining' = 0
      BY <2>2, <3>1
    <3>2. CASE remaining' # 0 /\ remaining' > 0 /\ available' > 0
      BY <2>2, <3>2
    <3>3. CASE remaining' # 0 /\ ~(remaining' > 0 /\ available' > 0)
      BY <2>2, <3>3
    <3> QED
      BY <3>1, <3>2, <3>3
  <2>4. /\ UNCHANGED <<theStream, blockID, ibsPos, taskVars>>
        /\ UNCHANGED <<closed, initialized, sized, buffers, firstID, result, kept, sum>>
        /\ UNCHANGED <<callStart, failed>>
    BY DEF Copy, streamVars, resultVars
  <2> QED
    BY <2>1, <2>3, <2>4
<1>2. UNCHANGED <<kinds, lastLen, ending, header, ctx>>
  BY <1>1 DEF theStream
<1>3. /\ UNCHANGED <<NbBlocks, NbTasks, Batch, Offset>> /\ \A k : UpTo(k)' = UpTo(k)
  BY <1>2, StreamFrame
<1>4. IInv'
  BY CallerIInv DEF DataInv
<1>5. StreamShape' /\ Ahead' /\ Outcomes' /\ Contents' /\ Reasons' /\ EndMark'
  BY <1>1, StillNoTaskInv
<1>6. BufferShape'
  BY <1>1 DEF DataInv, BufferShape
<1>7. /\ Chunk \in Nat /\ Chunk <= available /\ Chunk <= remaining
      /\ off + Chunk <= BlockSize /\ off \in Nat
  BY ChunkIs
<1>8. /\ available \in Nat /\ consumed \in Nat /\ remaining \in Nat /\ ret = "none" /\ ~closed
      /\ ~(failed /\ StopOnError)
  BY <1>1 DEF DataInv, CallShape
<1>9. available' \in Nat /\ consumed' \in Nat /\ remaining' \in Nat
  BY <1>1, <1>7, <1>8
<1>10. CallShape'
  BY <1>1, <1>3, <1>8, <1>9 DEF DataInv, CallShape
<1>11. Told' /\ Progress'
  BY <1>1, <1>8 DEF Told, Progress
<1>12. CASE failed
  BY <1>1, <1>4, <1>5, <1>6, <1>8, <1>10, <1>11, <1>12 DEF DataInv, Got, Account, Sizes
<1>13. CASE ~failed
  <2>1. /\ consumed + available <= Jobs * BlockSize /\ Layout(consumed, available)
        /\ Len(delivered) + available
             = IF blockID = CancelTasks THEN UpTo(NbBlocks) ELSE UpTo(blockID)
        /\ blockID = CancelTasks => ending = "end"
    BY <1>1, <1>8, <1>13 DEF DataInv, Account
  <2>2. /\ delivered \in Seq(Int) /\ Len(delivered) <= UpTo(NbBlocks)
        /\ \A i \in 1 .. Len(delivered) : delivered[i] = Offset + i
        /\ callStart \in 0 .. Len(delivered)
    BY <1>13 DEF DataInv, Got
  <2>3. Len(delivered) \in Nat
    BY <2>2
  <2>4. UpTo(NbBlocks) \in Nat /\ Len(delivered) + available <= UpTo(NbBlocks)
    <3>1. NbBlocks \in Nat /\ NbBlocks \in 0 .. NbBlocks
      BY StreamTypes DEF DataInv
    <3>2. UpTo(NbBlocks) \in Nat
      BY <3>1, UpToTypes DEF DataInv
    <3>3. blockID # CancelTasks => blockID \in 0 .. NbBlocks
      BY <3>1 DEF DataInv, Ahead, IInv, TurnTypes
    <3>4. blockID # CancelTasks => UpTo(blockID) <= UpTo(NbBlocks)
      BY <3>3, UpToTypes DEF DataInv
    <3> QED
      BY <2>1, <3>2, <3>4
  <2>5. buf \in Nat /\ buf * BlockSize + off = consumed
    BY <1>8, Division
  <2>6. Chunk > 0 => buf \in BufferIDs
    <3> SUFFICES ASSUME Chunk > 0 PROVE buf \in BufferIDs
      OBVIOUS
    <3> HIDE DEF buf, off
    <3>1. Jobs \in Nat /\ Jobs \in Int /\ buf \in Int /\ Jobs * BlockSize \in Int /\ buf * BlockSize \in Int
      BY <2>5, TasksHaveBuffers, Product
    <3>2. buf * BlockSize < Jobs * BlockSize
      BY <1>7, <1>8, <2>1, <2>5, <3>1
    <3>3. Jobs <= buf => Jobs * BlockSize <= buf * BlockSize
      BY <3>1, Product
    <3>4. buf < Jobs
      BY <3>1, <3>2, <3>3
    <3> QED
      BY <2>5, <3>1, <3>4 DEF BufferIDs
  <2>7. /\ delivered' \in Seq(Int) /\ Len(delivered') = Len(delivered) + Chunk
        /\ \A i \in 1 .. Len(delivered) : delivered'[i] = delivered[i]
        /\ \A j \in 1 .. Chunk : delivered'[Len(delivered) + j] = buffers[buf][off + j]
    <3> HIDE DEF buf, off
    <3>1. CASE Chunk = 0
      BY <1>1, <2>2, <2>3, <3>1
    <3>2. CASE Chunk # 0
      <4>1. Chunk > 0 /\ buf \in BufferIDs
        BY <1>7, <2>6, <3>2
      <4>2. \A u \in Units : u \in Int
        BY DEF Units
      <4>3. buffers[buf] \in [1 .. BlockSize -> Int]
        BY <4>1, <4>2 DEF DataInv, BufferShape
      <4>4. delivered' = delivered \o SubSeq(buffers[buf], off + 1, off + Chunk)
        BY <1>1, <3>2 DEF buf, off
      <4> QED
        BY <1>7, <2>2, <4>1, <4>3, <4>4, AppendPiece
    <3> QED
      BY <3>1, <3>2
  <2> HIDE DEF buf, off
  <2>8. ASSUME NEW j \in 1 .. Chunk
        PROVE  buffers[buf][off + j] = Offset + Len(delivered) + j
    <3>1. buf \in BufferIDs /\ off + j \in 1 .. BlockSize
      BY <1>7, <2>6, Constants
    <3>2. Place(buf, off + j) = consumed + j
      <4>1. buf * BlockSize \in Int
        BY <2>5, Product
      <4> QED
        BY <1>7, <2>5, <4>1 DEF Place
    <3>3. consumed < Place(buf, off + j) /\ Place(buf, off + j) <= consumed + available
      BY <1>7, <1>8, <3>2
    <3>4. buffers[buf][off + j] = Offset + Len(delivered) + (Place(buf, off + j) - consumed)
      BY <2>1, <3>1, <3>3 DEF Layout
    <3>5. Place(buf, off + j) - consumed = j
      BY <1>8, <3>2
    <3> QED
      BY <3>4, <3>5
  <2>9. Got'
    <3>1. Len(delivered') <= UpTo(NbBlocks) /\ callStart \in 0 .. Len(delivered')
      BY <1>7, <1>8, <2>2, <2>3, <2>4, <2>7
    <3>2. ASSUME NEW i \in 1 .. Len(delivered')
          PROVE  delivered'[i] = Offset + i
      <4>1. CASE i <= Len(delivered)
        <5>1. i \in 1 .. Len(delivered)
          BY <2>3, <4>1
        <5> QED
          BY <2>2, <2>7, <5>1
      <4>2. CASE ~(i <= Len(delivered))
        <5> DEFINE j == i - Len(delivered)
        <5>1. j \in 1 .. Chunk /\ i = Len(delivered) + j
          BY <1>7, <2>3, <2>7, <4>2
        <5> HIDE DEF j
        <5>2. delivered'[i] = Offset + Len(delivered) + j
          BY <2>7, <2>8, <5>1
        <5>3. Offset \in Nat
          BY RangeTypes DEF DataInv
        <5> QED
          BY <2>3, <5>1, <5>2, <5>3
      <4> QED
        BY <4>1, <4>2
    <3> QED
      BY <1>1, <1>3, <2>7, <3>1, <3>2 DEF Got
  <2>10. Account'
    <3>1. Len(delivered') + available' = Len(delivered) + available
      BY <1>1, <1>7, <1>8, <2>3, <2>7
    <3>2. consumed' + available' = consumed + available
      BY <1>1, <1>7, <1>8
    <3>3. ASSUME NEW b \in BufferIDs, NEW j \in 1 .. BlockSize,
                 consumed' < Place(b, j), Place(b, j) <= consumed' + available'
          PROVE  buffers[b][j] = Offset + Len(delivered') + (Place(b, j) - consumed')
      <4>1. Place(b, j) \in Int
        BY PlaceIs
      <4>2. consumed < Place(b, j) /\ Place(b, j) <= consumed + available
        BY <1>1, <1>7, <1>8, <3>2, <3>3, <4>1
      <4>3. buffers[b][j] = Offset + Len(delivered) + (Place(b, j) - consumed)
        BY <2>1, <4>2 DEF Layout
      <4>4. Offset \in Nat
        BY RangeTypes DEF DataInv
      <4>5. consumed' = consumed + Chunk /\ Len(delivered') = Len(delivered) + Chunk
        BY <1>1, <2>7
      <4>6. Offset + Len(delivered) + (Place(b, j) - consumed)
              = Offset + Len(delivered') + (Place(b, j) - consumed')
        BY <1>7, <1>8, <2>3, <4>1, <4>4, <4>5
      <4> QED
        BY <4>3, <4>6
    <3>4. Layout(consumed, available)'
      BY <1>1, <1>3, <3>3 DEF Layout, Place
    <3>5. mainPc' = "process" => available' = 0
      BY <1>1, <1>9
    <3> QED
      BY <1>1, <1>2, <1>3, <2>1, <3>1, <3>2, <3>4, <3>5 DEF Account
  <2>11. Sizes'
    <3>1. Jobs * BlockSize \in Int
      BY Product, TasksHaveBuffers
    <3> QED
      BY <1>1, <1>7, <1>8, <2>1, <3>1 DEF Sizes
  <2> QED
    BY <1>4, <1>5, <1>6, <1>10, <1>11, <2>9, <2>10, <2>11 DEF DataInv
<1> QED
  BY <1>12, <1>13

(* A result is processed: nothing that the tasks left changes. *)
LEMMA ResultFrame ==
  ASSUME DataInv, mainPc = "batch",
         UNCHANGED <<theStream, blockID, ibsPos, taskVars, mainPc, firstID>>
  PROVE  /\ UNCHANGED <<kinds, lastLen, ending, header, ctx>>
         /\ UNCHANGED <<NbBlocks, NbTasks, Batch, Offset>>
         /\ \A k : UpTo(k)' = UpTo(k) /\ BlockLen(k)' = BlockLen(k)
         /\ UNCHANGED <<pc, held, decoded, skipped, err>>
         /\ \A t \in TaskIDs : /\ CurrentBlockID(t)' = CurrentBlockID(t)
                               /\ GaveUp(t)' <=> GaveUp(t)
         /\ StreamShape' /\ Ahead' /\ Outcomes' /\ Reasons' /\ EndMark'
<1>1. UNCHANGED <<kinds, lastLen, ending, header, ctx>> /\ UNCHANGED <<pc, held, decoded, skipped, err>>
  BY DEF theStream, taskVars
<1>2. /\ UNCHANGED <<NbBlocks, NbTasks, Batch, Offset>> /\ StreamShape'
      /\ \A k : /\ UpTo(k)' = UpTo(k) /\ BlockLen(k)' = BlockLen(k)
                /\ DecodedLen(k)' = DecodedLen(k) /\ (MustSkip(k)' <=> MustSkip(k))
  BY <1>1, StreamFrame DEF DataInv
<1>3. \A t \in TaskIDs : CurrentBlockID(t)' = CurrentBlockID(t)
  BY DEF CurrentBlockID
<1>4. \A t \in TaskIDs : (GaveUp(t)' <=> GaveUp(t)) /\ (Left(t)' <=> Left(t))
  BY <1>1 DEF GaveUp, Finished, CancelsOthers, NothingToShow, Left
<1>5. Ahead'
  BY <1>1, <1>2, <1>3 DEF DataInv, Ahead
<1>6. Outcomes'
  BY <1>1, <1>2, <1>3 DEF DataInv, Outcomes
<1>7. Reasons'
  BY <1>1, <1>2, <1>3, <1>4 DEF DataInv, Reasons
<1>8. EndMark'
  BY <1>1, <1>2, <1>3, <1>4 DEF DataInv, EndMark, FoundEnd
<1> QED
  BY <1>1, <1>2, <1>3, <1>4, <1>5, <1>6, <1>7, <1>8

(* The result that comes next is that of a task of the batch. *)
LEMMA NextResult ==
  ASSUME DataInv, Waited, result < NbTasks
  PROVE  /\ result \in TaskIDs /\ result \in Nat /\ kept \in Nat /\ kept <= result
         /\ kept \in BufferIDs /\ pc[result] = "done" /\ firstID \in Nat /\ NbBlocks \in Nat
         /\ NbTasks \in Nat /\ NbTasks <= Jobs /\ Jobs \in Nat /\ sum \in Nat
         /\ CurrentBlockID(result) = firstID + result + 1
<1>1. result \in 0 .. NbTasks /\ kept \in 0 .. result /\ NbTasks \in Nat /\ NbTasks <= Jobs /\ Jobs \in Nat
  BY TasksHaveBuffers DEF DataInv, CallShape
<1>2. result \in Batch /\ result \in TaskIDs /\ kept \in BufferIDs
  BY <1>1 DEF Batch, TaskIDs, BufferIDs
<1>3. pc[result] = "done"
  BY <1>2 DEF Waited
<1>4. firstID \in Nat /\ NbBlocks \in Nat /\ sum \in Nat
  BY StreamTypes DEF DataInv, IInv, TurnTypes, CallShape
<1> QED
  BY <1>1, <1>2, <1>3, <1>4 DEF CurrentBlockID

LEMMA SkipResultDataInv ==
  ASSUME DataInv, SkipResult
  PROVE  DataInv'
<1>1. /\ Waited /\ mainPc = "batch" /\ result < NbTasks /\ skipped[result] /\ result' = result + 1
      /\ UNCHANGED <<theStream, blockID, ibsPos, taskVars, mainPc, firstID>>
      /\ UNCHANGED <<closed, initialized, sized, available, consumed, buffers, remaining>>
      /\ UNCHANGED <<kept, sum, delivered, callStart, ret, failed>>
  BY DEF SkipResult, Waited, streamVars, dataVars, histVars
<1>2. /\ UNCHANGED <<kinds, lastLen, ending, header, ctx>>
      /\ UNCHANGED <<NbBlocks, NbTasks, Batch, Offset>>
      /\ \A k : UpTo(k)' = UpTo(k) /\ BlockLen(k)' = BlockLen(k)
      /\ UNCHANGED <<pc, held, decoded, skipped, err>>
      /\ \A t \in TaskIDs : /\ CurrentBlockID(t)' = CurrentBlockID(t)
                            /\ GaveUp(t)' <=> GaveUp(t)
      /\ StreamShape' /\ Ahead' /\ Outcomes' /\ Reasons' /\ EndMark'
  BY <1>1, ResultFrame
<1>3. IInv'
  BY CallerIInv DEF DataInv
<1>4. /\ result \in TaskIDs /\ result \in Nat /\ kept \in Nat /\ kept <= result
      /\ firstID \in Nat /\ NbBlocks \in Nat /\ NbTasks \in Nat
      /\ CurrentBlockID(result) = firstID + result + 1
  BY <1>1, NextResult
<1>5. /\ decoded[result] = 0 /\ err[result] = FALSE
      /\ firstID + result + 1 <= NbBlocks /\ MustSkip(firstID + result + 1)
  BY <1>1, <1>4 DEF DataInv, Outcomes
<1>6. UpTo(firstID + result + 1) = UpTo(firstID + result)
  <2> DEFINE k == firstID + result + 1
  <2>1. k \in 1 .. NbBlocks /\ MustSkip(k) /\ k - 1 = firstID + result
    BY <1>4, <1>5
  <2> HIDE DEF k
  <2>2. UpTo(k) = UpTo(k - 1)
    BY <2>1, SkippedAddsNothing DEF DataInv
  <2> QED
    BY <2>1, <2>2 DEF k
<1>7. ~GaveUp(result)
  BY <1>1, <1>5 DEF GaveUp, CancelsOthers, NothingToShow
<1>8. result + 1 \in 0 .. NbTasks /\ kept \in 0 .. result + 1
  BY <1>1, <1>4
<1>9. CallShape'
  BY <1>1, <1>2, <1>8 DEF DataInv, CallShape, Waited
<1>10. BufferShape'
  BY <1>1 DEF DataInv, BufferShape
<1>11. Contents'
  <2>1. \A t \in TaskIDs : t >= result + 1 => t >= result
    BY <1>4, Constants
  <2> QED
    BY <1>1, <1>2, <2>1 DEF DataInv, Contents
<1>12. Got' /\ Account' /\ Told' /\ Sizes'
  BY <1>1, <1>2 DEF DataInv, Got, Account, Told, Sizes
<1>13. Progress'
  <2> SUFFICES ASSUME ~failed PROVE Progress'
    BY <1>1 DEF Progress
  <2>1. ~AllRead
    BY <1>4, <1>5 DEF AllRead
  <2>2. /\ available = 0 /\ consumed <= Jobs * BlockSize
        /\ \A u \in TaskIDs : u < result => ~GaveUp(u)
        /\ Len(delivered) + sum = UpTo(firstID + result) /\ (kept > 0 => sum > 0)
        /\ sum = kept * BlockSize \/ firstID + result >= NbBlocks
        /\ sum <= kept * BlockSize /\ Layout(0, sum)
    BY <1>1, <2>1 DEF DataInv, Progress
  <2>3. sum = kept * BlockSize
    BY <1>4, <1>5, <2>2
  <2>4. \A u \in TaskIDs : u < result + 1 => ~GaveUp(u)
    <3>1. \A u \in TaskIDs : u < result + 1 => u < result \/ u = result
      BY <1>4, Constants
    <3> QED
      BY <1>7, <2>2, <3>1
  <2>5. firstID + (result + 1) = firstID + result + 1 /\ result + 1 # 0
    BY <1>4
  <2>6. Layout(0, sum)'
    BY <1>1, <1>2, <2>2 DEF Layout, Place
  <2> QED
    BY <1>1, <1>2, <1>5, <1>6, <2>2, <2>3, <2>4, <2>5, <2>6 DEF Progress
<1> QED
  BY <1>2, <1>3, <1>9, <1>10, <1>11, <1>12, <1>13 DEF DataInv

(* A block that was decoded adds what is wanted next, in the next buffer;  *)
(* a result without anything is that of the end mark.                      *)
LEMMA KeptBuffers ==
  ASSUME DataInv, KeepResult
  PROVE  /\ BufferShape'
         /\ \A b \in BufferIDs : b # kept => buffers'[b] = buffers[b]
         /\ \A j \in 1 .. BlockSize :
              buffers'[kept][j] = IF j <= decoded[result] THEN buffers[result][j] ELSE buffers[kept][j]
<1>1. kept \in BufferIDs /\ result \in BufferIDs
  BY NextResult, TasksHaveBuffers DEF KeepResult
<1>2. buffers' = [buffers EXCEPT ![kept] =
                    [j \in 1 .. BlockSize |->
                       IF j <= decoded[result] THEN buffers[result][j] ELSE @[j]]]
  BY DEF KeepResult, NextBuffer
<1>3. buffers \in [BufferIDs -> [1 .. BlockSize -> Units]]
  BY DEF DataInv, BufferShape
<1>4. \A b \in BufferIDs : b # kept => buffers'[b] = buffers[b]
  BY <1>1, <1>2, <1>3
<1> DEFINE f == [j \in 1 .. BlockSize |->
                   IF j <= decoded[result] THEN buffers[result][j] ELSE buffers[kept][j]]
<1>5. buffers' = [buffers EXCEPT ![kept] = f]
  BY <1>1, <1>2, <1>3
<1>6. f \in [1 .. BlockSize -> Units]
  <2>1. \A j \in 1 .. BlockSize : buffers[result][j] \in Units /\ buffers[kept][j] \in Units
    BY <1>1, <1>3
  <2> QED
    BY <2>1
<1>7. \A j \in 1 .. BlockSize :
        f[j] = IF j <= decoded[result] THEN buffers[result][j] ELSE buffers[kept][j]
  OBVIOUS
<1> HIDE DEF f
<1>8. buffers'[kept] = f
  BY <1>1, <1>3, <1>5
<1>9. buffers' \in [BufferIDs -> [1 .. BlockSize -> Units]]
  BY <1>3, <1>5, <1>6
<1>10. BufferShape'
  BY <1>9 DEF BufferShape, Units, MaxUnits
<1> QED
  BY <1>4, <1>7, <1>8, <1>10

(* What a result that is kept adds: a block, ...                           *)
LEMMA BlockKept ==
  ASSUME DataInv, KeepResult, decoded[result] # 0
  PROVE  LET k == firstID + result + 1
         IN /\ k \in 1 .. NbBlocks /\ ~MustSkip(k)
            /\ decoded[result] = BlockLen(k) /\ BlockLen(k) \in 1 .. BlockSize
            /\ ~GaveUp(result)
            /\ UpTo(k) = UpTo(k - 1) + BlockLen(k)
            /\ \A j \in 1 .. BlockLen(k) : buffers[result][j] = Offset + UpTo(k - 1) + j
<1> DEFINE k == firstID + result + 1
<1>1. /\ Waited /\ mainPc = "batch" /\ result < NbTasks /\ ~skipped[result] /\ ~Failed(result)
      /\ ~err[result] /\ ~(decoded[result] > BlockSize)
  BY DEF KeepResult, Waited, Failed, TooBig
<1>2. /\ result \in TaskIDs /\ result \in Nat /\ firstID \in Nat /\ NbBlocks \in Nat
      /\ CurrentBlockID(result) = k
  BY <1>1, NextResult
<1>3. k \in 1 .. NbBlocks /\ k \in 0 .. NbBlocks /\ k > 0
  <2>1. k <= NbBlocks
    BY <1>2 DEF DataInv, Outcomes
  <2> QED
    BY <1>2, <2>1
<1> HIDE DEF k
<1>4. /\ ~MustSkip(k) /\ decoded[result] = DecodedLen(k) /\ kinds[k] \in {"ok", "big"}
  BY <1>1, <1>2 DEF DataInv, Outcomes
<1>5. BlockSize \in Nat
  BY Constants
<1>6. kinds[k] = "ok" /\ decoded[result] = BlockLen(k)
  BY <1>1, <1>4, <1>5 DEF DecodedLen
<1>7. BlockLen(k) \in 1 .. BlockSize
  BY <1>3, EndIs DEF DataInv
<1>8. ~GaveUp(result)
  BY <1>1 DEF GaveUp, CancelsOthers, NothingToShow
<1>9. UpTo(k) = UpTo(k - 1) + BlockLen(k) /\ (k - 1) * BlockSize = Offset + UpTo(k - 1)
  BY <1>3, <1>4, KeptAddsAll DEF DataInv
<1>10. \A j \in 1 .. BlockLen(k) : buffers[result][j] = (k - 1) * BlockSize + j
  BY <1>2, <1>6 DEF DataInv, Contents
<1>11. \A j \in 1 .. BlockLen(k) : buffers[result][j] = Offset + UpTo(k - 1) + j
  BY <1>9, <1>10
<1> QED
  BY <1>3, <1>4, <1>6, <1>7, <1>8, <1>9, <1>11 DEF k

(* ... or the end.                                                         *)
LEMMA EndKept ==
  ASSUME DataInv, KeepResult, decoded[result] = 0, ~failed
  PROVE  /\ blockID = CancelTasks /\ ending = "end" /\ firstID + result + 1 > NbBlocks
         /\ Len(delivered) + sum = UpTo(NbBlocks)
<1>1. /\ Waited /\ mainPc = "batch" /\ result < NbTasks /\ ~skipped[result] /\ ~err[result]
  BY DEF KeepResult, Waited, Failed
<1>2. /\ result \in TaskIDs /\ result \in Nat /\ firstID \in Nat /\ NbBlocks \in Nat
      /\ CurrentBlockID(result) = firstID + result + 1 /\ pc[result] = "done"
  BY <1>1, NextResult
<1>3. GaveUp(result)
  BY <1>1, <1>2 DEF GaveUp, Finished, CancelsOthers, NothingToShow
<1>4. CASE AllRead
  BY <1>1, <1>2, <1>4 DEF DataInv, Progress, AllRead
<1>5. CASE ~AllRead
  <2>1. /\ \A u \in TaskIDs : u < result => ~GaveUp(u)
        /\ Len(delivered) + sum = UpTo(firstID + result)
    BY <1>1, <1>5 DEF DataInv, Progress
  <2>2. FoundEnd(result)
    BY <1>1, <1>2, <1>3, <2>1 DEF DataInv, EndMark
  <2>3. firstID + result + 1 = NbBlocks + 1 /\ ending = "end" /\ blockID = CancelTasks
    BY <1>2, <2>2 DEF FoundEnd
  <2>4. firstID + result = NbBlocks /\ firstID + result + 1 > NbBlocks
    BY <1>2, <2>3
  <2> QED
    BY <2>1, <2>3, <2>4
<1> QED
  BY <1>4, <1>5

LEMMA KeepResultProgress ==
  ASSUME DataInv, KeepResult, ~failed, UNCHANGED <<NbBlocks, NbTasks, Batch, Offset>>,
         \A n : UpTo(n)' = UpTo(n), \A t \in TaskIDs : GaveUp(t)' <=> GaveUp(t)
  PROVE  Progress'
<1> DEFINE d == decoded[result]
<1>1. /\ Waited /\ mainPc = "batch" /\ result < NbTasks
      /\ result' = result + 1 /\ kept' = kept + 1 /\ sum' = sum + d
      /\ UNCHANGED <<available, consumed, delivered, failed, blockID, ending, firstID>>
      /\ ~(d > BlockSize)
  BY DEF KeepResult, Waited, histVars, theStream, Failed, TooBig
<1>2. /\ result \in TaskIDs /\ result \in Nat /\ kept \in Nat /\ kept <= result
      /\ firstID \in Nat /\ NbBlocks \in Nat /\ sum \in Nat /\ kept \in BufferIDs
  BY <1>1, NextResult
<1>3. BlockSize \in Nat /\ d \in Nat /\ kept * BlockSize \in Int
      /\ (kept + 1) * BlockSize = kept * BlockSize + BlockSize /\ kept * BlockSize >= 0
  BY <1>2, Constants, Product DEF DataInv, IInv, TurnTypes
<1>4. /\ available = 0 /\ consumed <= Jobs * BlockSize
      /\ sum = kept * BlockSize \/ firstID + result >= NbBlocks
      /\ sum <= kept * BlockSize /\ Layout(0, sum)
      /\ \/ /\ firstID + result <= NbBlocks
            /\ \A u \in TaskIDs : u < result => ~GaveUp(u)
            /\ Len(delivered) + sum = UpTo(firstID + result)
            /\ kept > 0 => sum > 0
         \/ AllRead /\ Len(delivered) + sum = UpTo(NbBlocks)
  BY <1>1 DEF DataInv, Progress
<1>5. /\ \A b \in BufferIDs : b # kept => buffers'[b] = buffers[b]
      /\ \A j \in 1 .. BlockSize :
           buffers'[kept][j] = IF j <= d THEN buffers[result][j] ELSE buffers[kept][j]
  BY KeptBuffers
<1>6. result + 1 # 0 /\ sum + d <= (kept + 1) * BlockSize /\ firstID + (result + 1) = firstID + result + 1
  BY <1>1, <1>2, <1>3, <1>4
<1>7. CASE d = 0
  <2>1. /\ blockID = CancelTasks /\ ending = "end" /\ firstID + result + 1 > NbBlocks
        /\ Len(delivered) + sum = UpTo(NbBlocks)
    BY <1>7, EndKept
  <2>2. AllRead'
    BY <1>1, <1>6, <2>1 DEF AllRead
  <2>3. sum' = sum /\ firstID + result + 1 >= NbBlocks
    BY <1>1, <1>2, <1>7, <2>1
  <2>4. \A b \in BufferIDs, j \in 1 .. BlockSize : buffers'[b][j] = buffers[b][j]
    <3>1. \A j \in 1 .. BlockSize : ~(j <= 0)
      BY <1>3
    <3> QED
      BY <1>5, <1>7, <3>1
  <2>5. Layout(0, sum)'
    BY <1>1, <1>4, <2>3, <2>4 DEF Layout, Place
  <2> HIDE DEF d
  <2> QED
    BY <1>1, <1>4, <1>6, <1>7, <2>1, <2>2, <2>3, <2>5 DEF Progress
<1>8. CASE d # 0
  <2> DEFINE k == firstID + result + 1
  <2>1. /\ k \in 1 .. NbBlocks /\ d = BlockLen(k) /\ BlockLen(k) \in 1 .. BlockSize
        /\ ~GaveUp(result) /\ UpTo(k) = UpTo(k - 1) + BlockLen(k)
        /\ \A j \in 1 .. BlockLen(k) : buffers[result][j] = Offset + UpTo(k - 1) + j
    BY <1>8, BlockKept
  <2>2. k - 1 = firstID + result /\ ~AllRead /\ firstID + result < NbBlocks /\ k \in Nat
    BY <1>2, <2>1 DEF AllRead
  <2>3. sum = kept * BlockSize
    BY <1>2, <1>4, <2>2
  <2>4. /\ \A u \in TaskIDs : u < result => ~GaveUp(u)
        /\ Len(delivered) + sum = UpTo(k - 1)
    BY <1>4, <2>2
  <2>5. Len(delivered) \in Nat /\ Offset \in Nat
    <3>1. delivered \in Seq(Int)
      BY DEF DataInv, Got
    <3>2. delivered \in Seq(Int) => Len(delivered) \in Nat
      OBVIOUS
    <3> QED
      BY <3>1, <3>2, RangeTypes DEF DataInv
  <2>6. k < NbBlocks => BlockLen(k) = BlockSize
    BY <1>2, <2>2 DEF BlockLen, NbBlocks
  <2> HIDE DEF k, d
  <2>7. Len(delivered) + (sum + d) = UpTo(k) /\ sum + d > 0
    BY <1>2, <2>1, <2>4, <2>5
  <2>8. sum + d = (kept + 1) * BlockSize \/ k >= NbBlocks
    BY <1>2, <1>3, <2>1, <2>2, <2>3, <2>6
  <2>9. \A u \in TaskIDs : u < result + 1 => ~GaveUp(u)
    <3>1. \A u \in TaskIDs : u < result + 1 => u < result \/ u = result
      BY <1>2, Constants
    <3> QED
      BY <2>1, <2>4, <3>1
  <2>10. ASSUME NEW b \in BufferIDs, NEW j \in 1 .. BlockSize,
                0 < Place(b, j), Place(b, j) <= 0 + (sum + d)
         PROVE  buffers'[b][j] = Offset + Len(delivered) + (Place(b, j) - 0)
    <3>1. Place(b, j) \in Int /\ Place(b, j) = b * BlockSize + j /\ b \in Nat /\ j \in Nat
      BY PlaceIs
    <3>2. b * BlockSize \in Int
      BY <3>1, Product
    <3>3. CASE b < kept
      <4>1. b * BlockSize + BlockSize <= kept * BlockSize
        BY <1>2, <3>1, <3>3, Product
      <4>2. 0 < Place(b, j) /\ Place(b, j) <= 0 + sum
        BY <1>3, <2>3, <2>10, <3>1, <3>2, <4>1
      <4>3. buffers'[b] = buffers[b]
        BY <1>2, <1>5, <3>1, <3>3
      <4> QED
        BY <1>4, <4>2, <4>3 DEF Layout
    <3>4. CASE b = kept
      <4>1. j \in 1 .. BlockLen(k) /\ j <= d
        BY <1>2, <1>3, <2>1, <2>3, <2>10, <3>1, <3>4
      <4>2. buffers'[b][j] = Offset + UpTo(k - 1) + j
        BY <1>5, <2>1, <3>4, <4>1
      <4> QED
        BY <1>2, <1>3, <2>3, <2>4, <2>5, <3>1, <3>4, <4>2
    <3>5. CASE b > kept
      <4>1. kept * BlockSize + BlockSize <= b * BlockSize
        BY <1>2, <3>1, <3>5, Product
      <4>2. d <= BlockSize
        BY <1>1, <1>3
      <4>3. sum + d < Place(b, j)
        BY <1>2, <1>3, <2>3, <3>1, <3>2, <4>1, <4>2
      <4> QED
        BY <1>2, <1>3, <2>10, <3>1, <4>3
    <3> QED
      BY <1>2, <3>1, <3>3, <3>4, <3>5
  <2>11. Layout(0, sum)'
    BY <1>1, <2>10 DEF Layout, Place, d
  <2>12. /\ firstID + (result + 1) <= NbBlocks /\ firstID + (result + 1) = k
         /\ ~AllRead'
    BY <1>1, <1>2, <2>1, <2>2 DEF AllRead, k
  <2> QED
    BY <1>1, <1>4, <1>6, <2>7, <2>8, <2>9, <2>11, <2>12 DEF Progress, d
<1> QED
  BY <1>7, <1>8

LEMMA KeepResultDataInv ==
  ASSUME DataInv, KeepResult
  PROVE  DataInv'
<1>1. /\ Waited /\ mainPc = "batch" /\ result < NbTasks
      /\ result' = result + 1 /\ kept' = kept + 1 /\ sum' = sum + decoded[result]
      /\ UNCHANGED <<theStream, blockID, ibsPos, taskVars, mainPc, firstID>>
      /\ UNCHANGED <<closed, initialized, sized, available, consumed, remaining>>
      /\ UNCHANGED <<delivered, callStart, ret, failed>>
  BY DEF KeepResult, Waited, streamVars, histVars
<1>2. /\ UNCHANGED <<kinds, lastLen, ending, header, ctx>>
      /\ UNCHANGED <<NbBlocks, NbTasks, Batch, Offset>>
      /\ \A k : UpTo(k)' = UpTo(k) /\ BlockLen(k)' = BlockLen(k)
      /\ UNCHANGED <<pc, held, decoded, skipped, err>>
      /\ \A t \in TaskIDs : /\ CurrentBlockID(t)' = CurrentBlockID(t)
                            /\ GaveUp(t)' <=> GaveUp(t)
      /\ StreamShape' /\ Ahead' /\ Outcomes' /\ Reasons' /\ EndMark'
  BY <1>1, ResultFrame
<1>3. IInv'
  BY CallerIInv DEF DataInv
<1>4. /\ result \in TaskIDs /\ result \in Nat /\ kept \in Nat /\ kept <= result /\ sum \in Nat
      /\ NbTasks \in Nat
  BY <1>1, NextResult
<1>5. /\ result + 1 \in 0 .. NbTasks /\ kept + 1 \in 0 .. result + 1
      /\ sum + decoded[result] \in Nat
  BY <1>1, <1>4 DEF DataInv, IInv, TurnTypes
<1>6. CallShape'
  BY <1>1, <1>2, <1>5 DEF DataInv, CallShape, Waited
<1>7. /\ BufferShape'
      /\ \A b \in BufferIDs : b # kept => buffers'[b] = buffers[b]
  BY KeptBuffers
<1>8. Contents'
  <2>1. \A t \in TaskIDs : t >= result + 1 => t >= result /\ t # kept /\ t \in BufferIDs
    BY <1>4, Constants, TasksHaveBuffers
  <2> QED
    BY <1>1, <1>2, <1>7, <2>1 DEF DataInv, Contents
<1>9. Got' /\ Account' /\ Told' /\ Sizes'
  BY <1>1, <1>2 DEF DataInv, Got, Account, Told, Sizes
<1>10. Progress'
  <2>1. CASE failed
    BY <1>1, <2>1 DEF Progress
  <2>2. CASE ~failed
    BY <1>2, <2>2, KeepResultProgress
  <2> QED
    BY <2>1, <2>2
<1> QED
  BY <1>2, <1>3, <1>6, <1>7, <1>8, <1>9, <1>10 DEF DataInv

(* The batch is over: its tasks are gone, and so are the results. *)
LEMMA BatchOver ==
  ASSUME DataInv, FailBatch \/ EndBatch
  PROVE  /\ UNCHANGED <<kinds, lastLen, ending, header, ctx>>
         /\ UNCHANGED <<NbBlocks, NbTasks, Batch, Offset>> /\ \A k : UpTo(k)' = UpTo(k)
         /\ mainPc = "batch" /\ ret = "none" /\ ~closed /\ ~(failed /\ StopOnError)
         /\ result' = 0 /\ kept' = 0 /\ sum' = 0
         /\ UNCHANGED <<closed, initialized, sized, buffers, blockID, ibsPos, remaining, firstID>>
         /\ UNCHANGED <<delivered, callStart>>
         /\ IInv' /\ StreamShape' /\ Ahead' /\ Outcomes' /\ Contents' /\ Reasons' /\ EndMark'
         /\ BufferShape'
<1>1. /\ UNCHANGED <<theStream, buffers, blockID, ibsPos, remaining, firstID>>
      /\ UNCHANGED <<closed, initialized, sized, delivered, callStart>>
      /\ mainPc = "batch" /\ mainPc' # "batch" /\ NoTasks /\ NoResults
  BY DEF FailBatch, EndBatch, Waited, streamVars
<1>2. UNCHANGED <<kinds, lastLen, ending, header, ctx>>
  BY <1>1 DEF theStream
<1>3. /\ UNCHANGED <<NbBlocks, NbTasks, Batch, Offset>> /\ \A k : UpTo(k)' = UpTo(k)
  BY <1>2, StreamFrame
<1>4. \A t \in TaskIDs : /\ pc'[t] = "none" /\ decoded'[t] = 0 /\ skipped'[t] = FALSE
                         /\ held'[t] = 0
  BY <1>1 DEF NoTasks
<1>5. StreamShape' /\ Ahead' /\ Outcomes' /\ Contents' /\ Reasons' /\ EndMark'
  BY <1>1, <1>2, <1>4, NoTaskInv
<1>6. ret = "none" /\ ~closed /\ ~(failed /\ StopOnError)
  BY <1>1 DEF DataInv, CallShape
<1>7. BufferShape'
  BY <1>1 DEF DataInv, BufferShape
<1>8. IInv'
  BY EndIInv DEF DataInv
<1> QED
  BY <1>1, <1>2, <1>3, <1>5, <1>6, <1>7, <1>8 DEF NoResults

(* The buffers have room for the results that were kept. *)
LEMMA KeptFit ==
  ASSUME DataInv, NEW n \in Nat, n <= NbTasks
  PROVE  n * BlockSize <= Jobs * BlockSize /\ n * BlockSize \in Int /\ Jobs * BlockSize \in Int
<1>1. n \in Int /\ Jobs \in Int /\ n <= Jobs
  BY TasksHaveBuffers DEF DataInv
<1> QED
  BY <1>1, Product

LEMMA FailBatchDataInv ==
  ASSUME DataInv, FailBatch
  PROVE  DataInv'
<1>1. /\ Waited /\ result < NbTasks /\ mainPc' = "idle" /\ ret' = "error" /\ failed' = TRUE
      /\ available' = (IF TooBig(result) THEN sum ELSE sum + decoded[result])
      /\ UNCHANGED consumed
  BY DEF FailBatch
<1>2. /\ UNCHANGED <<kinds, lastLen, ending, header, ctx>>
      /\ UNCHANGED <<NbBlocks, NbTasks, Batch, Offset>> /\ \A k : UpTo(k)' = UpTo(k)
      /\ mainPc = "batch" /\ ret = "none" /\ ~closed /\ ~(failed /\ StopOnError)
      /\ result' = 0 /\ kept' = 0 /\ sum' = 0
      /\ UNCHANGED <<closed, initialized, sized, buffers, blockID, ibsPos, remaining, firstID>>
      /\ UNCHANGED <<delivered, callStart>>
      /\ IInv' /\ StreamShape' /\ Ahead' /\ Outcomes' /\ Contents' /\ Reasons' /\ EndMark'
      /\ BufferShape'
  BY BatchOver
<1>3. /\ result \in TaskIDs /\ kept \in Nat /\ sum \in Nat /\ NbTasks \in Nat /\ kept + 1 <= NbTasks
  BY <1>1, NextResult
<1>4. decoded[result] \in Nat /\ BlockSize \in Nat
  BY <1>3, Constants DEF DataInv, IInv, TurnTypes
<1>5. available' \in Nat
  BY <1>1, <1>3, <1>4
<1>6. CallShape'
  BY <1>1, <1>2, <1>3, <1>5 DEF DataInv, CallShape
<1>7. ~failed' \/ StopOnError => ~failed
  BY <1>1, <1>2
<1>8. Got'
  BY <1>2, <1>7 DEF DataInv, Got
<1>9. Account' /\ Told' /\ Progress'
  BY <1>1 DEF Account, Told, Progress
<1>10. Sizes'
  <2> SUFFICES ASSUME ~failed PROVE available' <= Jobs * BlockSize /\ consumed <= Jobs * BlockSize
    BY <1>1, <1>7 DEF Sizes
  <2>1. sum <= kept * BlockSize /\ consumed <= Jobs * BlockSize
    BY <1>2 DEF DataInv, Progress
  <2>2. (kept + 1) * BlockSize <= Jobs * BlockSize /\ Jobs * BlockSize \in Int
    BY <1>3, KeptFit
  <2>3. (kept + 1) * BlockSize = kept * BlockSize + BlockSize /\ kept * BlockSize \in Int
    BY <1>3, Product
  <2>4. available' <= sum + BlockSize
    BY <1>1, <1>3, <1>4 DEF TooBig
  <2>5. sum + BlockSize <= Jobs * BlockSize
    BY <1>3, <1>4, <2>1, <2>2, <2>3
  <2> QED
    BY <1>3, <1>4, <1>5, <2>1, <2>2, <2>4, <2>5
<1> QED
  BY <1>2, <1>6, <1>8, <1>9, <1>10 DEF DataInv

(* When all results are processed: either all blocks of the batch were     *)
(* there, or the end of the stream was.                                    *)
LEMMA BatchOutcome ==
  ASSUME DataInv, Waited, result = NbTasks, ~failed
  PROVE  /\ Len(delivered) + sum = IF blockID = CancelTasks THEN UpTo(NbBlocks) ELSE UpTo(blockID)
         /\ blockID = CancelTasks => ending = "end"
         /\ blockID # CancelTasks /\ kept > 0 => sum > 0
<1>1. mainPc = "batch"
  BY DEF Waited
<1>2. /\ NbTasks \in Nat /\ NbTasks >= 1 /\ Batch \subseteq TaskIDs
      /\ firstID \in Nat /\ blockID \in Nat \cup {CancelTasks}
  BY TasksHaveBuffers DEF DataInv, IInv, TurnTypes
<1>3. CASE AllRead
  <2>1. blockID = CancelTasks /\ ending = "end" /\ firstID + result > NbBlocks
    BY <1>3 DEF AllRead
  <2>2. /\ firstID + result \in Nat /\ NbBlocks \in Nat
    BY <1>2, StreamTypes DEF DataInv
  <2>3. ~(firstID + result <= NbBlocks)
    BY <2>1, <2>2
  <2>4. Len(delivered) + sum = UpTo(NbBlocks)
    BY <1>1, <2>3 DEF DataInv, Progress
  <2> QED
    BY <2>1, <2>4
<1>4. CASE ~AllRead
  <2>1. /\ \A u \in TaskIDs : u < result => ~GaveUp(u)
        /\ Len(delivered) + sum = UpTo(firstID + result)
        /\ kept > 0 => sum > 0
    BY <1>1, <1>4 DEF DataInv, Progress
  <2>2. \A u \in TaskIDs : ~GaveUp(u)
    <3> SUFFICES ASSUME NEW u \in TaskIDs, GaveUp(u) PROVE FALSE
      OBVIOUS
    <3>1. u \in Batch
      BY DEF GaveUp, Finished, DataInv, IInv, BatchShape
    <3>2. u < result
      BY <1>2, <3>1 DEF Batch
    <3> QED
      BY <2>1, <3>2
  <2>3. /\ blockID # CancelTasks /\ blockID <= firstID + NbTasks
        /\ \A t \in TaskIDs : Left(t) /\ ~GaveUp(t) => CurrentBlockID(t) <= blockID
    BY <1>1, <2>2 DEF DataInv, Reasons
  <2>4. NbTasks - 1 \in Batch
    BY <1>2 DEF Batch
  <2>5. Left(NbTasks - 1)
    BY <2>4 DEF Waited, Left
  <2>6. firstID + NbTasks <= blockID
    <3>1. CurrentBlockID(NbTasks - 1) <= blockID
      BY <1>2, <2>2, <2>3, <2>4, <2>5
    <3> QED
      BY <1>2, <3>1 DEF CurrentBlockID
  <2>7. blockID = firstID + result
    BY <1>2, <2>3, <2>6
  <2> QED
    BY <2>1, <2>3, <2>7
<1> QED
  BY <1>3, <1>4

LEMMA EndBatchDataInv ==
  ASSUME DataInv, EndBatch
  PROVE  DataInv'
<1>1. /\ Waited /\ result = NbTasks /\ UNCHANGED failed
      /\ \/ kept = 0 /\ mainPc' = "process" /\ UNCHANGED <<available, consumed, ret>>
         \/ /\ kept > 0 /\ available' = sum /\ consumed' = 0
            /\ mainPc' = IF sum = 0 THEN "idle" ELSE "copy"
            /\ ret' = IF sum = 0 THEN EndOfStream ELSE ret
  BY DEF EndBatch
<1>2. /\ UNCHANGED <<kinds, lastLen, ending, header, ctx>>
      /\ UNCHANGED <<NbBlocks, NbTasks, Batch, Offset>> /\ \A k : UpTo(k)' = UpTo(k)
      /\ mainPc = "batch" /\ ret = "none" /\ ~closed /\ ~(failed /\ StopOnError)
      /\ result' = 0 /\ kept' = 0 /\ sum' = 0
      /\ UNCHANGED <<closed, initialized, sized, buffers, blockID, ibsPos, remaining, firstID>>
      /\ UNCHANGED <<delivered, callStart>>
      /\ IInv' /\ StreamShape' /\ Ahead' /\ Outcomes' /\ Contents' /\ Reasons' /\ EndMark'
      /\ BufferShape'
  BY BatchOver
<1>3. /\ NbTasks \in Nat /\ kept \in Nat /\ kept <= NbTasks /\ sum \in Nat
      /\ available \in Nat /\ consumed \in Nat
  BY <1>1, TasksHaveBuffers DEF DataInv, CallShape
<1>4. kept * BlockSize <= Jobs * BlockSize /\ kept * BlockSize \in Int /\ Jobs * BlockSize \in Int
  BY <1>3, KeptFit
<1>5. available' \in Nat /\ consumed' \in Nat /\ ret' \in {"none", "ok", "eof"}
  BY <1>1, <1>2, <1>3 DEF EndOfStream
<1>6. mainPc' \in {"idle", "process", "copy"} /\ (mainPc' \in {"process", "copy"} => ret' = "none")
  BY <1>1, <1>2
<1>7. CallShape'
  BY <1>1, <1>2, <1>3, <1>5, <1>6 DEF DataInv, CallShape
<1>8. Got' /\ Progress'
  BY <1>1, <1>2, <1>6 DEF DataInv, Got, Progress
<1>9. CASE failed
  BY <1>1, <1>2, <1>7, <1>8, <1>9 DEF DataInv, Account, Told, Sizes
<1>10. CASE ~failed
  <2>1. /\ available = 0 /\ consumed <= Jobs * BlockSize /\ sum <= kept * BlockSize
        /\ Layout(0, sum)
    BY <1>2, <1>10 DEF DataInv, Progress
  <2>2. /\ Len(delivered) + sum = IF blockID = CancelTasks THEN UpTo(NbBlocks) ELSE UpTo(blockID)
        /\ blockID = CancelTasks => ending = "end"
        /\ blockID # CancelTasks /\ kept > 0 => sum > 0
    BY <1>1, <1>10, BatchOutcome
  <2>3. available' = sum /\ (consumed' = 0 \/ (UNCHANGED consumed /\ sum = 0))
        /\ (mainPc' = "process" => sum = 0)
    <3>1. CASE kept = 0
      <4>1. sum = 0
        BY <1>3, <2>1, <3>1, Product
      <4> QED
        BY <1>1, <2>1, <3>1, <4>1
    <3>2. CASE kept # 0
      BY <1>1, <3>2
    <3> QED
      BY <3>1, <3>2
  <2>4. sum <= Jobs * BlockSize /\ 0 + sum <= Jobs * BlockSize /\ 0 <= Jobs * BlockSize
    BY <1>3, <1>4, <2>1
  <2>5. consumed' + available' <= Jobs * BlockSize /\ consumed' <= Jobs * BlockSize
    BY <1>3, <1>4, <2>1, <2>3, <2>4
  <2>6. Layout(consumed, available)'
    <3>1. CASE consumed' = 0
      <4>1. \A b \in BufferIDs, j \in 1 .. BlockSize :
              0 < Place(b, j) /\ Place(b, j) <= 0 + available' =>
                buffers'[b][j] = Offset' + Len(delivered') + (Place(b, j) - 0)
        BY <1>2, <2>1, <2>3 DEF Layout
      <4> QED
        BY <3>1, <4>1 DEF Layout, Place
    <3>2. CASE UNCHANGED consumed /\ sum = 0
      <4>1. available' = 0 /\ consumed' \in Int
        BY <1>5, <2>3, <3>2
      <4> QED
        BY <4>1, NoLayout DEF Layout, Place
    <3> QED
      BY <2>3, <3>1, <3>2
  <2>7. Account'
    BY <1>1, <1>2, <2>2, <2>3, <2>5, <2>6 DEF Account
  <2>8. Sizes'
    BY <2>3, <2>4, <2>5 DEF Sizes
  <2>9. Told'
    <3> SUFFICES ASSUME ret' = "eof" PROVE Len(delivered) = UpTo(NbBlocks) /\ ending = "end"
      BY <1>2 DEF Told
    <3>1. kept > 0 /\ sum = 0
      BY <1>1, <1>2
    <3>2. blockID = CancelTasks /\ ending = "end" /\ Len(delivered) + 0 = UpTo(NbBlocks)
      BY <2>2, <3>1
    <3>3. Len(delivered) \in Nat
      <4>1. delivered \in Seq(Int)
        BY <1>10 DEF DataInv, Got
      <4> QED
        BY <4>1
    <3> QED
      BY <3>2, <3>3
  <2> QED
    BY <1>2, <1>7, <1>8, <2>7, <2>8, <2>9 DEF DataInv
<1> QED
  BY <1>9, <1>10

LEMMA StillDataInv ==
  ASSUME DataInv, UNCHANGED vars
  PROVE  DataInv'
<1>1. /\ UNCHANGED <<kinds, lastLen, ending, header, ctx>>
      /\ UNCHANGED <<closed, initialized, sized, available, consumed, buffers, blockID, ibsPos>>
      /\ UNCHANGED <<mainPc, remaining, firstID, result, kept, sum>>
      /\ UNCHANGED <<pc, held, decoded, skipped, err>>
      /\ UNCHANGED <<delivered, callStart, ret, failed>>
      /\ UNCHANGED <<theStream, taskVars>>
  BY DEF vars, theStream, streamVars, dataVars, mainVars, resultVars, taskVars, histVars
<1>2. /\ UNCHANGED <<NbBlocks, NbTasks, Batch, Offset>> /\ StreamShape'
      /\ \A k : /\ UpTo(k)' = UpTo(k) /\ BlockLen(k)' = BlockLen(k)
                /\ DecodedLen(k)' = DecodedLen(k) /\ (MustSkip(k)' <=> MustSkip(k))
  BY <1>1, StreamFrame DEF DataInv
<1>3. IInv'
  BY <1>1, OutsideIInv DEF DataInv
<1>4. \A t \in TaskIDs : /\ CurrentBlockID(t)' = CurrentBlockID(t)
                         /\ (GaveUp(t)' <=> GaveUp(t)) /\ (Left(t)' <=> Left(t))
  BY <1>1 DEF CurrentBlockID, GaveUp, Finished, CancelsOthers, NothingToShow, Left
<1>5. CallShape' /\ BufferShape'
  BY <1>1, <1>2 DEF DataInv, CallShape, BufferShape
<1>6. Ahead' /\ Outcomes' /\ Contents'
  BY <1>1, <1>2, <1>4 DEF DataInv, Ahead, Outcomes, Contents
<1>7. Reasons' /\ EndMark'
  BY <1>1, <1>2, <1>4 DEF DataInv, Reasons, EndMark, FoundEnd
<1>8. \A p, n : (Layout(p, n) => \A b \in BufferIDs, j \in 1 .. BlockSize :
                    p < Place(b, j) /\ Place(b, j) <= p + n =>
                      buffers'[b][j] = Offset' + Len(delivered') + (Place(b, j) - p))
  BY <1>1, <1>2 DEF Layout
<1>9. (Layout(consumed, available) => Layout(consumed, available)')
      /\ (Layout(0, sum) => Layout(0, sum)')
  BY <1>1, <1>8 DEF Layout, Place
<1>10. Got' /\ Told' /\ Sizes'
  BY <1>1, <1>2 DEF DataInv, Got, Told, Sizes
<1>11. Account'
  BY <1>1, <1>2, <1>9 DEF DataInv, Account
<1>12. AllRead' <=> AllRead
  BY <1>1, <1>2 DEF AllRead
<1>13. Progress'
  BY <1>1, <1>2, <1>4, <1>9, <1>12 DEF DataInv, Progress
<1> QED
  BY <1>2, <1>3, <1>5, <1>6, <1>7, <1>10, <1>11, <1>13 DEF DataInv

LEMMA StepDataInv == DataInv /\ [Next]_vars => DataInv'
<1> SUFFICES ASSUME DataInv, [Next]_vars PROVE DataInv'
  OBVIOUS
<1>1. CASE Client
  BY <1>1, ReadDataInv, CloseDataInv DEF Client
<1>2. CASE MainStep
  BY <1>2, CopyDataInv, ProcessCancelledDataInv, StartBatchDataInv, SkipResultDataInv,
     KeepResultDataInv, FailBatchDataInv, EndBatchDataInv DEF MainStep
<1>3. CASE \E t \in TaskIDs : TaskStep(t)
  BY <1>3, TaskDataInv
<1>4. CASE UNCHANGED vars
  BY <1>4, StillDataInv
<1> QED
  BY <1>1, <1>2, <1>3, <1>4 DEF Next

LEMMA DataInvariance == Spec => []DataInv
<1>1. Init => DataInv
  BY InitDataInv
<1>2. DataInv /\ [Next]_vars => DataInv'
  BY StepDataInv
<1> QED
  BY <1>1, <1>2, PTL DEF Spec

-----------------------------------------------------------------------------
(* What the client gets. *)

LEMMA WantedIs ==
  ASSUME StreamShape
  PROVE  /\ Wanted \in Seq(Int) /\ Len(Wanted) = UpTo(NbBlocks) /\ UpTo(NbBlocks) \in Nat
         /\ \A i \in 1 .. UpTo(NbBlocks) : Wanted[i] = Offset + i
<1>1. Offset \in Nat /\ Last \in Nat /\ Last <= Total /\ Total \in Nat
  BY RangeTypes, TotalIs
<1>2. UpTo(NbBlocks) = IF Last < Offset THEN 0 ELSE Last - Offset
  BY <1>1 DEF UpTo, WantedOf, End, MinOf
<1>3. UpTo(NbBlocks) \in Nat
  BY <1>1, <1>2
<1> DEFINE first == IF From > 1 THEN (From - 1) * BlockSize + 1 ELSE 1
           n == UpTo(NbBlocks)
<1>4. first = Offset + 1
  BY DEF Offset
<1>5. Wanted = [i \in 1 .. Last - first + 1 |-> first + i - 1]
  BY DEF Wanted, Last
<1> HIDE DEF first, n
<1>6. n \in Nat /\ n = IF Last < Offset THEN 0 ELSE Last - Offset
  BY <1>2, <1>3 DEF n
<1>7. 1 .. Last - first + 1 = 1 .. n
  BY <1>1, <1>4, <1>6
<1>8. \A i \in 1 .. n : first + i - 1 = Offset + i
  BY <1>1, <1>4, <1>6
<1>9. Wanted = [i \in 1 .. n |-> Offset + i]
  BY <1>5, <1>7, <1>8
<1>10. Wanted \in Seq(Int) /\ Len(Wanted) = n /\ \A i \in 1 .. n : Wanted[i] = Offset + i
  <2>1. \A i \in 1 .. n : Offset + i \in Int
    BY <1>1
  <2> QED
    BY <1>6, <1>9, <2>1
<1> QED
  BY <1>6, <1>10 DEF n

(* Until a call has failed, what the client got is the beginning of what   *)
(* it wanted.                                                              *)
THEOREM PrefixDelivered == Spec => []DeliveredIsPrefix
<1>1. ASSUME DataInv PROVE DeliveredIsPrefix
  <2> SUFFICES ASSUME ~failed
               PROVE  /\ Len(delivered) <= Len(Wanted)
                      /\ \A i \in 1 .. Len(delivered) : delivered[i] = Wanted[i]
    BY DEF DeliveredIsPrefix
  <2>1. /\ delivered \in Seq(Int) /\ Len(delivered) <= UpTo(NbBlocks)
        /\ \A i \in 1 .. Len(delivered) : delivered[i] = Offset + i
    BY <1>1 DEF DataInv, Got
  <2>2. /\ Len(Wanted) = UpTo(NbBlocks) /\ UpTo(NbBlocks) \in Nat
        /\ \A i \in 1 .. UpTo(NbBlocks) : Wanted[i] = Offset + i
    BY <1>1, WantedIs DEF DataInv
  <2>3. Len(delivered) \in Nat
    BY <2>1
  <2>4. \A i \in 1 .. Len(delivered) : i \in 1 .. UpTo(NbBlocks)
    BY <2>1, <2>2, <2>3
  <2> QED
    BY <2>1, <2>2, <2>4
<1>2. DataInv => DeliveredIsPrefix
  BY <1>1
<1> QED
  BY <1>2, DataInvariance, PTL

(* The end of the stream is only told, with no error before, when the      *)
(* client has everything and the end mark of the stream was there.         *)
THEOREM EndIsComplete == Spec => []EOFIsComplete
<1>1. ASSUME DataInv PROVE EOFIsComplete
  <2> SUFFICES ASSUME ret = "eof", ~failed PROVE delivered = Wanted /\ ending = "end"
    BY DEF EOFIsComplete
  <2>1. Len(delivered) = UpTo(NbBlocks) /\ ending = "end"
    BY <1>1 DEF DataInv, Told
  <2>2. /\ delivered \in Seq(Int)
        /\ \A i \in 1 .. Len(delivered) : delivered[i] = Offset + i
    BY <1>1 DEF DataInv, Got
  <2>3. /\ Wanted \in Seq(Int) /\ Len(Wanted) = UpTo(NbBlocks)
        /\ \A i \in 1 .. UpTo(NbBlocks) : Wanted[i] = Offset + i
    BY <1>1, WantedIs DEF DataInv
  <2>4. Len(delivered) = Len(Wanted) /\ \A i \in 1 .. Len(delivered) : delivered[i] = Wanted[i]
    BY <2>1, <2>2, <2>3
  <2>5. \A s, r \in Seq(Int) : Len(s) = Len(r) /\ (\A i \in 1 .. Len(s) : s[i] = r[i]) => s = r
    OBVIOUS
  <2>6. delivered = Wanted
    BY <2>2, <2>3, <2>4, <2>5
  <2> QED
    BY <2>1, <2>6
<1>2. DataInv => EOFIsComplete
  BY <1>1
<1> QED
  BY <1>2, DataInvariance, PTL

(* What was handed out are units of the stream. *)
LEMMA DeliveredUnits ==
  ASSUME DataInv, ~failed \/ StopOnError
  PROVE  delivered \in Seq(Units)
<1>1. /\ delivered \in Seq(Int) /\ Len(delivered) <= UpTo(NbBlocks)
      /\ \A i \in 1 .. Len(delivered) : delivered[i] = Offset + i
  BY DEF DataInv, Got
<1>2. /\ Offset \in Nat /\ Last \in Nat /\ Last <= Total /\ Total \in Nat
  BY RangeTypes, TotalIs DEF DataInv
<1>3. UpTo(NbBlocks) = IF Last < Offset THEN 0 ELSE Last - Offset
  BY <1>2 DEF UpTo, WantedOf, End, MinOf
<1>4. Total <= MaxUnits /\ MaxUnits \in Nat
  <2>1. NbBlocks \in Nat /\ NbBlocks \in 0 .. NbBlocks /\ NbBlocks <= MaxBlocks /\ MaxBlocks \in Nat
    BY StreamTypes, ReaderAssumption DEF DataInv, StreamShape
  <2>2. Total <= NbBlocks * BlockSize
    <3>1. End(NbBlocks) <= NbBlocks * BlockSize
      BY <2>1, EndIs DEF DataInv
    <3> QED
      BY <3>1 DEF End
  <2>3. NbBlocks * BlockSize <= MaxBlocks * BlockSize /\ NbBlocks * BlockSize \in Int
        /\ MaxBlocks * BlockSize \in Int
    <3>1. NbBlocks \in Int /\ MaxBlocks \in Int /\ NbBlocks <= MaxBlocks
      BY <2>1
    <3> QED
      BY <3>1, Product
  <2> QED
    BY <1>2, <2>2, <2>3 DEF MaxUnits
<1>5. Len(delivered) \in Nat
  BY <1>1
<1>6. ASSUME NEW i \in 1 .. Len(delivered) PROVE delivered[i] \in Units
  <2>1. Offset + i \in Nat /\ Offset + i <= MaxUnits
    BY <1>1, <1>2, <1>3, <1>4, <1>5
  <2>2. Offset + i \in Units
    BY <1>4, <2>1 DEF Units
  <2> QED
    BY <1>1, <2>2
<1> QED
  BY <1>1, <1>6

(* A client that stops after an error never makes the Reader leave its     *)
(* buffers, or any other variable its type.                                *)
THEOREM TypesHold ==
  ASSUME StopOnError
  PROVE  Spec => []TypeOK
<1>1. ASSUME DataInv PROVE TypeOK
  <2>1. /\ closed \in BOOLEAN /\ initialized \in BOOLEAN /\ sized \in BOOLEAN
        /\ ret \in {"none", "ok", "eof", "error"} /\ failed \in BOOLEAN
        /\ mainPc \in {"idle", "copy", "process", "batch", "panic"}
        /\ remaining \in Nat /\ result \in 0 .. NbTasks /\ kept \in 0 .. result
    BY <1>1 DEF DataInv, CallShape
  <2>2. /\ blockID \in Nat \cup {CancelTasks} /\ firstID \in Nat
        /\ pc \in [TaskIDs -> PCs] /\ skipped \in [TaskIDs -> BOOLEAN] /\ err \in [TaskIDs -> BOOLEAN]
        /\ held \in [TaskIDs -> Nat] /\ decoded \in [TaskIDs -> Nat]
    BY <1>1 DEF DataInv, IInv, TurnTypes
  <2>3. available \in 0 .. Jobs * BlockSize /\ consumed \in 0 .. 2 * Jobs * BlockSize
    <3>1. available \in Nat /\ consumed \in Nat
      BY <1>1 DEF DataInv, CallShape
    <3>2. available <= Jobs * BlockSize /\ consumed <= Jobs * BlockSize
      BY <1>1 DEF DataInv, Sizes
    <3>3. Jobs \in Int /\ 2 * Jobs \in Int /\ Jobs <= 2 * Jobs
      BY Constants
    <3>4. Jobs * BlockSize <= (2 * Jobs) * BlockSize /\ Jobs * BlockSize \in Int
          /\ (2 * Jobs) * BlockSize \in Int
      BY <3>3, Product
    <3> QED
      BY <3>1, <3>2, <3>4
  <2>4. buffers \in [BufferIDs -> [1 .. BlockSize -> Units]]
    BY <1>1 DEF DataInv, BufferShape
  <2>5. ibsPos \in 1 .. Len(kinds) + 2 /\ \A t \in TaskIDs : held[t] <= Len(kinds) + 1
    BY <1>1 DEF DataInv, Ahead, NbBlocks
  <2>6. held \in [TaskIDs -> 0 .. Len(kinds) + 1]
    <3>1. Len(kinds) + 1 \in Nat
      BY <1>1, StreamTypes DEF DataInv, NbBlocks
    <3>2. \A t \in TaskIDs : held[t] \in 0 .. Len(kinds) + 1
      BY <2>2, <2>5, <3>1
    <3> QED
      BY <2>2, <3>2
  <2>7. decoded \in [TaskIDs -> 0 .. BlockSize + 1]
    <3>1. BlockSize \in Nat
      BY Constants
    <3>2. ASSUME NEW t \in TaskIDs PROVE decoded[t] \in 0 .. BlockSize + 1
      <4>1. CASE decoded[t] = 0
        BY <3>1, <4>1
      <4>2. CASE decoded[t] # 0
        <5> DEFINE k == CurrentBlockID(t)
        <5>1. k <= NbBlocks /\ decoded[t] = DecodedLen(k)
          BY <1>1, <4>2 DEF DataInv, Outcomes
        <5>2. k \in 0 .. NbBlocks /\ k > 0
          <6>1. k \in Nat /\ k > 0
            BY <1>1, OwnNumber DEF DataInv
          <6> QED
            BY <1>1, <5>1, <6>1, StreamTypes DEF DataInv
        <5> HIDE DEF k
        <5>3. BlockLen(k) \in 1 .. BlockSize
          BY <1>1, <5>2, EndIs DEF DataInv
        <5> QED
          BY <3>1, <5>1, <5>3 DEF DecodedLen
      <4> QED
        BY <4>1, <4>2
    <3> QED
      BY <2>2, <3>2
  <2>8. sum \in 0 .. kept * BlockSize
    <3>1. sum \in Nat /\ kept \in Nat
      BY <1>1, <2>1, TasksHaveBuffers DEF DataInv, CallShape
    <3>2. kept * BlockSize \in Int
      BY <3>1, Product
    <3>3. mainPc = "batch" => sum <= kept * BlockSize
      BY <1>1 DEF DataInv, CallShape, Progress
    <3>4. mainPc # "batch" => sum = 0 /\ kept * BlockSize = 0
      BY <1>1, Product DEF DataInv, CallShape
    <3> QED
      BY <3>1, <3>2, <3>3, <3>4
  <2>9. delivered \in Seq(Units) /\ callStart \in 0 .. Len(delivered)
    BY <1>1, DeliveredUnits DEF DataInv, Got
  <2> QED
    BY <2>1, <2>2, <2>3, <2>4, <2>5, <2>6, <2>7, <2>8, <2>9 DEF TypeOK, PCs
<1>2. DataInv => TypeOK
  BY <1>1
<1> QED
  BY <1>2, DataInvariance, PTL

-----------------------------------------------------------------------------
(* Streams that are not damaged. *)

(* No task fails, and the block size is known when the header was read. *)
Sound ==
  Undamaged => /\ ~failed /\ mainPc # "panic"
               /\ \A t \in TaskIDs : err[t] = FALSE
               /\ IF headless THEN sized ELSE initialized => sized

LEMMA UndamagedFacts ==
  ASSUME DataInv, Undamaged, \A c \in Contexts : c.constructor # "NewHeaderlessReader"
  PROVE  /\ \A k \in 1 .. NbBlocks : kinds[k] = "ok"
         /\ ending = "end"
         /\ headless \/ header = "valid"
<1>1. kinds \in Seq(BlockKinds) /\ ctx \in Contexts
  BY DEF DataInv, StreamShape
<1>2. \A k \in 1 .. NbBlocks : kinds[k] = "ok"
  BY <1>1 DEF Undamaged, NbBlocks
<1>3. ctx.constructor \in Constructors /\ ctx.constructor # "NewHeaderlessReader"
  BY <1>1, ReaderAssumption DEF ContextSet
<1>4. headless \/ header = "valid"
  BY <1>3 DEF Constructors, headless, Undamaged
<1> QED
  BY <1>2, <1>4 DEF Undamaged

(* A task does not fail in an undamaged stream. *)
LEMMA NoTaskFails ==
  ASSUME DataInv, Undamaged, \A c \in Contexts : c.constructor # "NewHeaderlessReader",
         NEW t \in TaskIDs, TaskStep(t)
  PROVE  UNCHANGED err
<1>1. (\A k \in 1 .. NbBlocks : kinds[k] = "ok") /\ ending = "end"
  BY UndamagedFacts
<1> DEFINE k == CurrentBlockID(t)
<1>2. k \in Nat /\ k > 0 /\ NbBlocks \in Nat
  BY OwnNumber, StreamTypes DEF DataInv
<1>3. CASE AwaitTurn(t) \/ PassTurn(t) \/ Defer(t)
  BY <1>3 DEF AwaitTurn, PassTurn, Defer
<1>4. CASE ReadSize(t)
  <2>1. pc[t] = "size"
    BY <1>4 DEF ReadSize
  <2>2. ibsPos = k /\ k <= NbBlocks + 1
    BY <2>1 DEF DataInv, IInv, Position, Ahead
  <2>3. AtBlock \/ AtEndMark
    BY <1>1, <1>2, <2>2 DEF AtBlock, AtEndMark, NbBlocks
  <2> QED
    BY <1>4, <2>3 DEF ReadSize
<1>5. CASE ReadData(t)
  <2>1. pc[t] = "data"
    BY <1>5 DEF ReadData
  <2>2. ibsPos = k /\ k <= NbBlocks
    BY <1>1, <2>1 DEF DataInv, IInv, Position, Ahead
  <2>3. AtBlock
    BY <2>2 DEF AtBlock, NbBlocks
  <2> QED
    BY <1>5, <2>3 DEF ReadData
<1>6. CASE Decode(t)
  <2>1. pc[t] = "decode"
    BY <1>6 DEF Decode
  <2>2. held[t] = k /\ k <= NbBlocks
    BY <2>1 DEF DataInv, IInv, RightBlock, Ahead
  <2>3. kinds[held[t]] = "ok"
    BY <1>1, <1>2, <2>2
  <2> QED
    BY <1>6, <2>3 DEF Decode
<1> QED
  BY <1>3, <1>4, <1>5, <1>6 DEF TaskStep

(* No result is one of a failure. *)
LEMMA NoResultFails ==
  ASSUME DataInv, Sound, Undamaged, \A c \in Contexts : c.constructor # "NewHeaderlessReader"
  PROVE  ~FailBatch
<1> SUFFICES ASSUME FailBatch PROVE FALSE
  OBVIOUS
<1>1. Waited /\ result < NbTasks /\ Failed(result)
  BY DEF FailBatch
<1>2. /\ result \in TaskIDs /\ result \in Nat /\ firstID \in Nat /\ NbBlocks \in Nat
      /\ CurrentBlockID(result) = firstID + result + 1
  BY <1>1, NextResult
<1>3. err[result] = FALSE
  BY <1>2 DEF Sound
<1>4. decoded[result] > BlockSize /\ BlockSize \in Nat
  BY <1>1, <1>3, Constants DEF Failed, TooBig
<1> DEFINE k == CurrentBlockID(result)
<1>5. k <= NbBlocks /\ decoded[result] = DecodedLen(k)
  BY <1>2, <1>4 DEF DataInv, Outcomes
<1>6. k \in 1 .. NbBlocks /\ k \in 0 .. NbBlocks /\ k > 0
  BY <1>2, <1>5
<1> HIDE DEF k
<1>7. kinds[k] = "ok"
  BY <1>6, UndamagedFacts
<1>8. DecodedLen(k) = BlockLen(k) /\ BlockLen(k) \in 1 .. BlockSize
  BY <1>6, <1>7, EndIs DEF DataInv, DecodedLen
<1> QED
  BY <1>4, <1>5, <1>8

LEMMA StepSound ==
  ASSUME DataInv, Sound, \A c \in Contexts : c.constructor # "NewHeaderlessReader", [Next]_vars
  PROVE  Sound'
<1>1. UNCHANGED <<kinds, lastLen, ending, header, ctx>>
  BY TaskFrame DEF Next, Client, Close, Read, MainStep, Copy, ProcessCancelled, StartBatch,
     SkipResult, KeepResult, FailBatch, EndBatch, vars, theStream
<1> SUFFICES ASSUME Undamaged
             PROVE  /\ ~failed' /\ mainPc' # "panic"
                    /\ \A t \in TaskIDs : err'[t] = FALSE
                    /\ IF headless THEN sized' ELSE initialized' => sized'
  BY <1>1 DEF Sound, Undamaged, headless
<1>2. /\ ~failed /\ mainPc # "panic" /\ (\A t \in TaskIDs : err[t] = FALSE)
      /\ IF headless THEN sized ELSE initialized => sized
  BY DEF Sound
<1>3. CASE \E n \in ReadSizes : Read(n)
  <2>1. PICK n \in ReadSizes : Read(n)
    BY <1>3
  <2>2. headless \/ header = "valid"
    BY UndamagedFacts
  <2>3. ~HeaderRefused
    BY <2>2 DEF HeaderRefused, HeaderRead
  <2>4. sized'
    BY <1>2, <2>1, <2>2 DEF Read, ReadHeader, HeaderRead
  <2>5. UNCHANGED <<failed, err>> /\ mainPc' = "copy"
    BY <2>1, <2>3, <2>4 DEF Read, taskVars
  <2> QED
    BY <1>2, <2>4, <2>5
<1>4. CASE Close \/ Copy \/ ProcessCancelled \/ StartBatch \/ SkipResult \/ KeepResult
  <2>1. UNCHANGED <<failed, err, sized, initialized>>
    BY <1>4 DEF Close, Copy, ProcessCancelled, StartBatch, SkipResult, KeepResult, streamVars,
       taskVars, histVars
  <2>2. mainPc' # "panic"
    <3>1. Copy => mainPc' \in {"idle", "copy", "process"}
      BY Zenon DEF Copy
    <3> QED
      BY <1>2, <1>4, <3>1 DEF Close, ProcessCancelled, StartBatch, SkipResult, KeepResult, mainVars
  <2> QED
    BY <1>2, <2>1, <2>2
<1>5. CASE FailBatch
  BY <1>5, NoResultFails
<1>6. CASE EndBatch
  <2>1. UNCHANGED <<failed, sized, initialized>> /\ mainPc' # "panic" /\ NoTasks
    BY <1>6 DEF EndBatch, streamVars
  <2>2. \A t \in TaskIDs : err'[t] = FALSE
    BY <2>1 DEF NoTasks
  <2> QED
    BY <1>2, <2>1, <2>2
<1>7. CASE \E t \in TaskIDs : TaskStep(t)
  <2>1. PICK t \in TaskIDs : TaskStep(t)
    BY <1>7
  <2>2. UNCHANGED err
    BY <2>1, NoTaskFails
  <2>3. UNCHANGED <<failed, sized, initialized, mainPc>>
    BY <2>1, TaskFrame
  <2> QED
    BY <1>2, <2>2, <2>3
<1>8. CASE UNCHANGED vars
  <2>1. UNCHANGED <<failed, sized, initialized, mainPc, err>>
    BY <1>8 DEF vars, streamVars, mainVars, taskVars, histVars
  <2> QED
    BY <1>2, <2>1
<1> QED
  BY <1>3, <1>4, <1>5, <1>6, <1>7, <1>8 DEF Next, Client, MainStep

(* An undamaged stream is read without an error, unless it was opened with *)
(* NewHeaderlessReader, which does not tell readHeader that there is none. *)
THEOREM UndamagedReads ==
  ASSUME \A c \in Contexts : c.constructor # "NewHeaderlessReader"
  PROVE  Spec => []UndamagedIsRead
<1>1. Init => Sound
  <2> SUFFICES ASSUME Init PROVE Sound
    OBVIOUS
  <2>1. /\ failed = FALSE /\ mainPc = "idle" /\ initialized = FALSE /\ sized = headless
        /\ \A t \in TaskIDs : err[t] = FALSE
    BY DEF Init
  <2> QED
    BY <2>1 DEF Sound
<1>2. DataInv /\ Sound /\ [Next]_vars => Sound'
  BY StepSound
<1>3. Sound => UndamagedIsRead
  BY DEF Sound, UndamagedIsRead
<1> QED
  BY <1>1, <1>2, <1>3, DataInvariance, PTL DEF Spec

=============================================================================
