----------------------------- MODULE PoolProofs -----------------------------
(***************************************************************************)
(* Proofs about the pool of workers, for every number of files and of      *)
(* workers, whichever tasks fail or panic.                                 *)
(***************************************************************************)
EXTENDS WorkerPool, FiniteSetTheorems, TLAPS

-----------------------------------------------------------------------------
(* Channels without duplicates. *)

Within(s, x) == \E i \in 1 .. Len(s) : s[i] = x
Distinct(s) == \A i, j \in 1 .. Len(s) : s[i] = s[j] => i = j

(* A receive takes the first element away, and only that. *)
LEMMA Receiving ==
  ASSUME NEW S, NEW s \in Seq(S), s # <<>>, Distinct(s)
  PROVE  /\ Head(s) \in S /\ Within(s, Head(s))
         /\ Tail(s) \in Seq(S) /\ Len(Tail(s)) = Len(s) - 1
         /\ Distinct(Tail(s))
         /\ \A x : Within(Tail(s), x) <=> Within(s, x) /\ x # Head(s)
<1>1. /\ Len(s) \in Nat \ {0} /\ Head(s) = s[1] /\ s[1] \in S
      /\ Tail(s) \in Seq(S) /\ Len(Tail(s)) = Len(s) - 1
  OBVIOUS
<1>2. \A i \in 1 .. Len(s) - 1 : Tail(s)[i] = s[i + 1]
  OBVIOUS
<1>3. Distinct(Tail(s))
  BY <1>1, <1>2 DEF Distinct
<1>4. ASSUME NEW x, Within(Tail(s), x) PROVE Within(s, x) /\ x # Head(s)
  <2>1. PICK i \in 1 .. Len(s) - 1 : Tail(s)[i] = x
    BY <1>1, <1>4 DEF Within
  <2>2. s[i + 1] = x /\ i + 1 \in 1 .. Len(s) /\ i + 1 # 1 /\ 1 \in 1 .. Len(s)
    BY <1>1, <1>2, <2>1
  <2> QED
    BY <1>1, <2>2 DEF Within, Distinct
<1>5. ASSUME NEW x, Within(s, x), x # Head(s) PROVE Within(Tail(s), x)
  <2>1. PICK i \in 1 .. Len(s) : s[i] = x
    BY <1>5 DEF Within
  <2>2. i # 1 /\ i - 1 \in 1 .. Len(s) - 1 /\ (i - 1) + 1 = i
    BY <1>1, <1>5, <2>1
  <2>3. Tail(s)[i - 1] = x
    BY <1>2, <2>1, <2>2
  <2> QED
    BY <1>1, <2>2, <2>3 DEF Within
<1>6. Within(s, Head(s))
  BY <1>1 DEF Within
<1> QED
  BY <1>1, <1>3, <1>4, <1>5, <1>6

(* A send adds its element. *)
LEMMA Sending ==
  ASSUME NEW S, NEW s \in Seq(S), NEW e \in S, Distinct(s), ~Within(s, e)
  PROVE  /\ Append(s, e) \in Seq(S) /\ Len(Append(s, e)) = Len(s) + 1
         /\ Distinct(Append(s, e))
         /\ \A x : Within(Append(s, e), x) <=> Within(s, x) \/ x = e
<1>1. Append(s, e) \in Seq(S) /\ Len(s) \in Nat /\ Len(Append(s, e)) = Len(s) + 1
  OBVIOUS
<1>2. /\ \A i \in 1 .. Len(s) : Append(s, e)[i] = s[i]
      /\ Append(s, e)[Len(s) + 1] = e
  OBVIOUS
<1>3. \A i \in 1 .. Len(s) + 1 : i \in 1 .. Len(s) \/ i = Len(s) + 1
  BY <1>1
<1>4. Distinct(Append(s, e))
  BY <1>1, <1>2, <1>3 DEF Distinct, Within
<1>5. \A x : Within(Append(s, e), x) <=> Within(s, x) \/ x = e
  BY <1>1, <1>2, <1>3 DEF Within
<1> QED
  BY <1>1, <1>4, <1>5

-----------------------------------------------------------------------------
(* The inductive invariant. *)

(* Before the workers start there is nothing for them to do. *)
NothingYet ==
  mainPc = "create" =>
    /\ tasks = <<>> /\ \A f \in Files : started[f] = 0
    /\ \A w \in WorkerIDs : pc[w] = "none"

(* A file waits in the channel of tasks, is held by one worker, or has its *)
(* result in the other channel; a file that was started and is nowhere any *)
(* more was received by main.                                              *)
OnePlace ==
  /\ Distinct(tasks) /\ Distinct(results)
  /\ \A f \in Files :
       /\ started[f] \in {0, 1}
       /\ started[f] = 0 => outcome[f] = "todo"
       /\ Within(tasks, f) => started[f] = 0
       /\ Within(results, f) => started[f] = 1 /\ outcome[f] # "todo"
  /\ \A w \in WorkerIDs :
       /\ pc[w] \in {"call", "send"} <=> held[w] \in Files
       /\ held[w] \in Files => started[held[w]] = 1 /\ ~Within(results, held[w])
       /\ pc[w] = "send" => outcome[held[w]] # "todo"
  /\ \A v, w \in WorkerIDs : held[v] = held[w] /\ held[v] \in Files => v = w

Collected == {f \in Files : /\ started[f] = 1 /\ ~Within(results, f)
                            /\ \A w \in WorkerIDs : held[w] # f}

(* Main counts the files it has received, and remembers a failure. *)
Counted ==
  /\ collected = Cardinality(Collected)
  /\ res = 0 => \A f \in Collected : outcome[f] = "done"

(* Main stops when all results are there, or at a failure, and exits with  *)
(* 0 in the first case.                                                    *)
Stops ==
  /\ mainPc \in {"create", "collect"} => res = 0
  /\ mainPc \in {"cancel", "closeCancel", "closeResults", "exit"} /\ res = 0 =>
       collected = NbFiles
  /\ exitStatus = "0" =>
       (\A w \in WorkerIDs : pc[w] = "none") \/ (collected = NbFiles /\ res = 0)

IInv == TypeOK /\ NothingYet /\ OnePlace /\ Counted /\ Stops

LEMMA CollectedFinite ==
  /\ IsFiniteSet(Files) /\ Cardinality(Files) = NbFiles
  /\ IsFiniteSet(Collected) /\ Cardinality(Collected) \in 0 .. NbFiles
  /\ Cardinality(Collected) = NbFiles => Collected = Files
<1>1. NbFiles \in Nat /\ NbFiles > 0
  BY WorkerPoolAssumption
<1>2. IsFiniteSet(Files) /\ Cardinality(Files) = NbFiles
  BY <1>1, FS_Interval DEF Files
<1>3. Collected \subseteq Files
  BY DEF Collected
<1>4. IsFiniteSet(Collected) /\ Cardinality(Collected) <= NbFiles
      /\ (Cardinality(Collected) = NbFiles => Collected = Files)
  BY <1>2, <1>3, FS_Subset
<1>5. Cardinality(Collected) \in Nat
  BY <1>4, FS_CardinalityType
<1> QED
  BY <1>1, <1>2, <1>4, <1>5

LEMMA InitIInv == Init => IInv
<1> SUFFICES ASSUME Init PROVE IInv
  OBVIOUS
<1>1. NbFiles \in Nat /\ Workers \in Nat
  BY WorkerPoolAssumption
<1>2. TypeOK
  <2>1. tasks \in Seq(Files) /\ results \in Seq(Files) /\ Len(results) <= NbFiles
    BY <1>1 DEF Init
  <2>2. collected \in 0 .. NbFiles /\ res \in 0 .. NbFiles
    BY <1>1 DEF Init
  <2>3. resultsClosed \in BOOLEAN /\ cancelClosed \in BOOLEAN
    BY Zenon DEF Init
  <2>6. cancel \in 0 .. 1
    BY DEF Init
  <2>4. /\ pc \in [WorkerIDs -> {"none", "select", "call", "send", "left"}]
        /\ held \in [WorkerIDs -> Files \cup {NoTask}]
        /\ outcome \in [Files -> {"todo", "done", "failed"}] /\ started \in [Files -> Nat]
    BY DEF Init
  <2>5. mainPc = "create" /\ exitStatus = "running"
    BY DEF Init
  <2> QED
    BY <2>1, <2>2, <2>3, <2>4, <2>5, <2>6 DEF TypeOK
<1>3. NothingYet /\ Stops
  BY DEF Init, NothingYet, Stops
<1>4. \A w \in WorkerIDs : held[w] \notin Files
  BY DEF Init, NoTask, Files
<1>5. OnePlace
  BY <1>4 DEF Init, OnePlace, Distinct, Within
<1>6. Collected = {}
  BY DEF Init, Collected
<1>7. Counted
  BY <1>6, FS_EmptySet DEF Init, Counted
<1> QED
  BY <1>2, <1>3, <1>5, <1>7 DEF IInv

-----------------------------------------------------------------------------
(* What a step leaves alone. *)

LEMMA SamePlaces ==
  ASSUME OnePlace, UNCHANGED <<tasks, results, pc, held, outcome, started>>
  PROVE  OnePlace'
  BY DEF OnePlace

LEMMA SameCount ==
  ASSUME Counted, UNCHANGED <<results, held, outcome, started, collected, res>>
  PROVE  Counted'
<1>1. Collected' = Collected
  BY DEF Collected
<1> QED
  BY <1>1 DEF Counted

(* The steps of main, but for the collection of a result, only touch main  *)
(* and the channels' states.                                               *)
LEMMA MainIInv ==
  ASSUME IInv, Running, Refuse \/ SendCancel \/ CloseCancel \/ CloseResults \/ Exit
  PROVE  IInv'
<1>1. UNCHANGED <<tasks, results, pc, held, outcome, started, collected, res>>
  BY DEF Refuse, SendCancel, CloseCancel, CloseResults, Exit, channels
<1>2. TypeOK'
  <2>1. /\ mainPc' \in {"closeCancel", "closeResults", "exit", "exited"}
        /\ exitStatus' \in {exitStatus, "0", "code"}
    BY DEF Refuse, SendCancel, CloseCancel, CloseResults, Exit
  <2>2. cancel' \in 0 .. 1
    BY DEF IInv, TypeOK, Refuse, SendCancel, CloseCancel, CloseResults, Exit, channels
  <2>3. cancelClosed' \in BOOLEAN
    BY DEF IInv, TypeOK, Refuse, SendCancel, CloseCancel, CloseResults, Exit, channels
  <2>4. resultsClosed' \in BOOLEAN
    BY DEF IInv, TypeOK, Refuse, SendCancel, CloseCancel, CloseResults, Exit, channels
  <2> QED
    BY <1>1, <2>1, <2>2, <2>3, <2>4 DEF IInv, TypeOK
<1>3. NothingYet'
  BY DEF NothingYet, Refuse, SendCancel, CloseCancel, CloseResults, Exit
<1>4. OnePlace' /\ Counted'
  BY <1>1, SamePlaces, SameCount DEF IInv
<1>5. Stops'
  <2>1. CASE Refuse
    BY <1>1, <2>1 DEF IInv, Stops, NothingYet, Refuse
  <2>2. CASE SendCancel
    BY <1>1, <2>2 DEF IInv, Stops, SendCancel, Running
  <2>3. CASE CloseCancel
    BY <1>1, <2>3 DEF IInv, Stops, CloseCancel, Running
  <2>4. CASE CloseResults
    BY <1>1, <2>4 DEF IInv, Stops, CloseResults, Running
  <2>5. CASE Exit
    BY <1>1, <2>5 DEF IInv, Stops, Exit
  <2> QED
    BY <2>1, <2>2, <2>3, <2>4, <2>5
<1> QED
  BY <1>2, <1>3, <1>4, <1>5 DEF IInv

LEMMA StartWorkersIInv ==
  ASSUME IInv, Running, StartWorkers
  PROVE  IInv'
<1>1. /\ tasks' = [i \in Files |-> i] /\ pc' = [w \in WorkerIDs |-> "select"]
      /\ UNCHANGED <<results, resultsClosed, cancel, cancelClosed, collected, res,
                     exitStatus, held, outcome, started>>
      /\ mainPc = "create" /\ mainPc' = "collect"
  BY DEF StartWorkers
<1>2. NbFiles \in Nat
  BY WorkerPoolAssumption
<1>3. tasks' \in Seq(Files) /\ Len(tasks') = NbFiles
  BY <1>1, <1>2 DEF Files
<1>4. \A i \in 1 .. NbFiles : tasks'[i] = i
  BY <1>1 DEF Files
<1>5. TypeOK'
  BY <1>1, <1>3 DEF IInv, TypeOK
<1>6. OnePlace'
  <2>1. Distinct(tasks')
    BY <1>3, <1>4 DEF Distinct
  <2>2. \A f \in Files : started[f] = 0
    BY <1>1 DEF IInv, NothingYet
  <2>3. \A w \in WorkerIDs : pc'[w] = "select"
    BY <1>1
  <2> QED
    BY <1>1, <2>1, <2>2, <2>3 DEF IInv, OnePlace
<1>7. Counted'
  BY <1>1, SameCount DEF IInv
<1>8. NothingYet' /\ Stops'
  BY <1>1 DEF IInv, NothingYet, Stops, Running
<1> QED
  BY <1>5, <1>6, <1>7, <1>8 DEF IInv

(* Main receives a result: its file is collected, and the code is that of  *)
(* the file.                                                               *)
LEMMA CollectIInv ==
  ASSUME IInv, Running, Collect
  PROVE  IInv'
<1> DEFINE h == Head(results)
<1>1. /\ mainPc = "collect" /\ results # <<>>
      /\ results' = Tail(results) /\ collected' = collected + 1 /\ res' = Code(h)
      /\ mainPc' = IF Enough(collected', res') THEN "cancel" ELSE "collect"
      /\ UNCHANGED <<tasks, resultsClosed, cancel, cancelClosed, exitStatus, pc, held,
                     outcome, started>>
  BY DEF Collect
<1>2. /\ h \in Files /\ Within(results, h)
      /\ results' \in Seq(Files) /\ Len(results') = Len(results) - 1
      /\ Distinct(results')
      /\ \A x : Within(results', x) <=> Within(results, x) /\ x # h
  BY <1>1, Receiving DEF IInv, TypeOK, OnePlace
<1>3. started[h] = 1 /\ outcome[h] # "todo"
  BY <1>2 DEF IInv, OnePlace
<1>4. \A w \in WorkerIDs : held[w] # h
  BY <1>2 DEF IInv, OnePlace
<1>5. Collected' = Collected \cup {h} /\ h \notin Collected
  BY <1>1, <1>2, <1>3, <1>4 DEF Collected
<1>6. collected' = Cardinality(Collected') /\ collected' \in 0 .. NbFiles
  <2>1. Cardinality(Collected \cup {h}) = Cardinality(Collected) + 1
    BY <1>5, CollectedFinite, FS_AddElement
  <2>2. Collected \cup {h} \subseteq Files
    BY <1>2 DEF Collected
  <2>3. Cardinality(Collected \cup {h}) <= NbFiles
    BY <2>2, CollectedFinite, FS_Subset
  <2> QED
    BY <1>1, <1>5, <2>1, <2>3, CollectedFinite DEF IInv, Counted
<1>7. res' \in 0 .. NbFiles /\ (res' = 0 => outcome[h] = "done")
  BY <1>1, <1>2, <1>3, WorkerPoolAssumption DEF IInv, TypeOK, Code, Files
<1>8. TypeOK'
  <2>1. Len(results) \in Nat /\ Len(results) <= NbFiles /\ NbFiles \in Nat
    BY WorkerPoolAssumption DEF IInv, TypeOK
  <2>2. Len(results') <= NbFiles
    BY <1>2, <2>1
  <2> QED
    BY <1>1, <1>2, <1>6, <1>7, <2>2 DEF IInv, TypeOK
<1>9. OnePlace'
  BY <1>1, <1>2 DEF IInv, OnePlace
<1>10. res = 0
  BY <1>1 DEF IInv, Stops
<1>11. Counted'
  BY <1>1, <1>5, <1>6, <1>7, <1>10 DEF IInv, Counted
<1>12. NothingYet' /\ Stops'
  BY <1>1, <1>10 DEF IInv, NothingYet, Stops, Enough, Running
<1> QED
  BY <1>8, <1>9, <1>11, <1>12 DEF IInv

-----------------------------------------------------------------------------
(* The steps of a worker. *)

(* A file leaves the channel of tasks for the hands of the worker. *)
LEMMA TakeTaskIInv ==
  ASSUME IInv, Running, NEW w \in WorkerIDs, TakeTask(w)
  PROVE  IInv'
<1> DEFINE h == Head(tasks)
<1>1. /\ pc[w] = "select" /\ tasks # <<>> /\ tasks' = Tail(tasks)
      /\ held' = [held EXCEPT ![w] = h]
      /\ started' = [started EXCEPT ![h] = @ + 1]
      /\ pc' = [pc EXCEPT ![w] = "call"]
      /\ UNCHANGED <<results, resultsClosed, cancel, cancelClosed, mainPc, collected, res,
                     exitStatus, outcome>>
  BY DEF TakeTask, mainVars
<1>2. /\ h \in Files /\ Within(tasks, h) /\ tasks' \in Seq(Files) /\ Distinct(tasks')
      /\ \A x : Within(tasks', x) <=> Within(tasks, x) /\ x # h
  BY <1>1, Receiving DEF IInv, TypeOK, OnePlace
<1>3. started[h] = 0 /\ ~Within(results, h) /\ \A v \in WorkerIDs : held[v] # h
  BY <1>2 DEF IInv, OnePlace
<1>4. /\ started' \in [Files -> Nat] /\ started'[h] = 1
      /\ \A f \in Files \ {h} : started'[f] = started[f]
  BY <1>1, <1>2, <1>3 DEF IInv, TypeOK
<1>5. /\ held' \in [WorkerIDs -> Files \cup {NoTask}] /\ held'[w] = h
      /\ \A v \in WorkerIDs \ {w} : held'[v] = held[v]
  BY <1>1, <1>2 DEF IInv, TypeOK
<1>6. /\ pc' \in [WorkerIDs -> {"none", "select", "call", "send", "left"}]
      /\ pc'[w] = "call" /\ \A v \in WorkerIDs \ {w} : pc'[v] = pc[v]
  BY <1>1 DEF IInv, TypeOK
<1>7. held[w] \notin Files
  BY <1>1 DEF IInv, OnePlace
<1>8. TypeOK'
  BY <1>1, <1>2, <1>4, <1>5, <1>6 DEF IInv, TypeOK
<1>9. OnePlace'
  <2>1. \A f \in Files :
          /\ started'[f] \in {0, 1}
          /\ started'[f] = 0 => outcome'[f] = "todo"
          /\ Within(tasks', f) => started'[f] = 0
          /\ Within(results', f) => started'[f] = 1 /\ outcome'[f] # "todo"
    BY <1>1, <1>2, <1>3, <1>4 DEF IInv, OnePlace
  <2>2. \A v \in WorkerIDs :
          /\ pc'[v] \in {"call", "send"} <=> held'[v] \in Files
          /\ held'[v] \in Files => started'[held'[v]] = 1 /\ ~Within(results', held'[v])
          /\ pc'[v] = "send" => outcome'[held'[v]] # "todo"
    BY <1>1, <1>2, <1>3, <1>4, <1>5, <1>6 DEF IInv, OnePlace
  <2>3. \A u, v \in WorkerIDs : held'[u] = held'[v] /\ held'[u] \in Files => u = v
    BY <1>3, <1>5 DEF IInv, OnePlace
  <2>4. Distinct(results')
    BY <1>1 DEF IInv, OnePlace
  <2> QED
    BY <1>2, <2>1, <2>2, <2>3, <2>4 DEF OnePlace
<1>10. Collected' = Collected
  BY <1>1, <1>3, <1>4, <1>5, <1>7 DEF Collected
<1>11. Counted'
  BY <1>1, <1>10 DEF IInv, Counted
<1>12. NothingYet' /\ Stops'
  BY <1>1, <1>6 DEF IInv, NothingYet, Stops, Running
<1> QED
  BY <1>8, <1>9, <1>11, <1>12 DEF IInv

(* A worker that leaves its loop, or goes on with it, holds nothing. *)
LEMMA TurnIInv ==
  ASSUME IInv, Running, NEW w \in WorkerIDs, NoMoreTasks(w) \/ TakeCancel(w)
  PROVE  IInv'
<1>1. /\ pc[w] = "select" /\ (pc' = [pc EXCEPT ![w] = "left"] \/ pc' = [pc EXCEPT ![w] = "select"])
      /\ cancel' \in {cancel, 0}
      /\ UNCHANGED <<tasks, results, resultsClosed, cancelClosed, mainPc, collected, res,
                     exitStatus, held, outcome, started>>
  BY DEF NoMoreTasks, TakeCancel, channels, mainVars
<1>2. /\ pc' \in [WorkerIDs -> {"none", "select", "call", "send", "left"}]
      /\ pc'[w] \in {"left", "select"} /\ \A v \in WorkerIDs \ {w} : pc'[v] = pc[v]
  BY <1>1 DEF IInv, TypeOK
<1>3. TypeOK'
  BY <1>1, <1>2 DEF IInv, TypeOK
<1>4. OnePlace'
  BY <1>1, <1>2 DEF IInv, OnePlace
<1>5. Counted'
  BY <1>1, SameCount DEF IInv
<1>6. NothingYet' /\ Stops'
  BY <1>1, <1>2 DEF IInv, NothingYet, Stops, Running
<1> QED
  BY <1>3, <1>4, <1>5, <1>6 DEF IInv

(* A call settles the outcome of the file the worker holds. *)
LEMMA CallIInv ==
  ASSUME IInv, Running, NEW w \in WorkerIDs, Call(w)
  PROVE  IInv'
<1> DEFINE h == held[w]
<1>1. /\ pc[w] = "call"
      /\ UNCHANGED <<tasks, results, resultsClosed, cancel, cancelClosed, mainPc, collected,
                     res, held, started>>
  BY DEF Call, channels
<1>2. h \in Files /\ started[h] = 1 /\ ~Within(results, h)
  BY <1>1 DEF IInv, OnePlace
<1>3. h \notin Collected
  BY DEF Collected
<1>4. Collected' = Collected
  BY <1>1 DEF Collected
<1>5. CASE exitStatus' = "panic" /\ UNCHANGED <<outcome, pc>>
  <2>1. TypeOK'
    BY <1>1, <1>5 DEF IInv, TypeOK
  <2>2. OnePlace' /\ Counted'
    BY <1>1, <1>5, SamePlaces, SameCount DEF IInv
  <2>3. NothingYet' /\ Stops'
    BY <1>1, <1>5 DEF IInv, NothingYet, Stops
  <2> QED
    BY <2>1, <2>2, <2>3 DEF IInv
<1>6. ASSUME NEW o \in {"done", "failed"}, outcome' = [outcome EXCEPT ![h] = o],
             pc' = [pc EXCEPT ![w] = "send"], UNCHANGED exitStatus
      PROVE  IInv'
  <2>1. /\ outcome' \in [Files -> {"todo", "done", "failed"}] /\ outcome'[h] = o
        /\ \A f \in Files \ {h} : outcome'[f] = outcome[f]
    BY <1>2, <1>6 DEF IInv, TypeOK
  <2>2. /\ pc' \in [WorkerIDs -> {"none", "select", "call", "send", "left"}]
        /\ pc'[w] = "send" /\ \A v \in WorkerIDs \ {w} : pc'[v] = pc[v]
    BY <1>6 DEF IInv, TypeOK
  <2>3. TypeOK'
    BY <1>1, <1>6, <2>1, <2>2 DEF IInv, TypeOK
  <2>4. OnePlace'
    <3>1. \A f \in Files :
            /\ started'[f] \in {0, 1}
            /\ started'[f] = 0 => outcome'[f] = "todo"
            /\ Within(tasks', f) => started'[f] = 0
            /\ Within(results', f) => started'[f] = 1 /\ outcome'[f] # "todo"
      BY <1>1, <1>2, <2>1 DEF IInv, OnePlace
    <3>2. \A v \in WorkerIDs :
            /\ pc'[v] \in {"call", "send"} <=> held'[v] \in Files
            /\ held'[v] \in Files => started'[held'[v]] = 1 /\ ~Within(results', held'[v])
            /\ pc'[v] = "send" => outcome'[held'[v]] # "todo"
      BY <1>1, <1>2, <2>1, <2>2 DEF IInv, OnePlace
    <3> QED
      BY <1>1, <3>1, <3>2 DEF IInv, OnePlace
  <2>5. Counted'
    BY <1>1, <1>3, <1>4, <2>1 DEF IInv, Counted, Collected
  <2>6. NothingYet' /\ Stops'
    BY <1>1, <1>6, <2>2 DEF IInv, NothingYet, Stops, Running
  <2> QED
    BY <2>3, <2>4, <2>5, <2>6 DEF IInv
<1> QED
  BY <1>5, <1>6 DEF Call

(* The file goes from the hands of the worker into the other channel, or   *)
(* the process ends.                                                       *)
LEMMA SendResultIInv ==
  ASSUME IInv, Running, NEW w \in WorkerIDs, SendResult(w)
  PROVE  IInv'
<1> DEFINE h == held[w]
<1>1. /\ pc[w] = "send"
      /\ UNCHANGED <<tasks, resultsClosed, cancel, cancelClosed, mainPc, collected, res,
                     outcome, started>>
  BY DEF SendResult
<1>2. h \in Files /\ started[h] = 1 /\ ~Within(results, h) /\ outcome[h] # "todo"
  BY <1>1 DEF IInv, OnePlace
<1>3. CASE exitStatus' = "panic" /\ UNCHANGED <<results, pc, held>>
  <2>1. TypeOK'
    BY <1>1, <1>3 DEF IInv, TypeOK
  <2>2. OnePlace' /\ Counted'
    BY <1>1, <1>3, SamePlaces, SameCount DEF IInv
  <2>3. NothingYet' /\ Stops'
    BY <1>1, <1>3 DEF IInv, NothingYet, Stops
  <2> QED
    BY <2>1, <2>2, <2>3 DEF IInv
<1>4. CASE /\ Len(results) < NbFiles /\ results' = Append(results, h)
           /\ pc' = [pc EXCEPT ![w] = IF StaysInLoop(w) THEN "select" ELSE "left"]
           /\ held' = [held EXCEPT ![w] = NoTask] /\ UNCHANGED exitStatus
  <2>1. /\ results' \in Seq(Files) /\ Len(results') = Len(results) + 1 /\ Distinct(results')
        /\ \A x : Within(results', x) <=> Within(results, x) \/ x = h
    BY <1>2, <1>4, Sending DEF IInv, TypeOK, OnePlace
  <2>2. Len(results') <= NbFiles
    <3>1. Len(results) \in Nat /\ NbFiles \in Nat
      BY WorkerPoolAssumption DEF IInv, TypeOK
    <3> QED
      BY <1>4, <2>1, <3>1
  <2>3. /\ pc' \in [WorkerIDs -> {"none", "select", "call", "send", "left"}]
        /\ pc'[w] \in {"select", "left"} /\ \A v \in WorkerIDs \ {w} : pc'[v] = pc[v]
    BY <1>4 DEF IInv, TypeOK
  <2>4. /\ held' \in [WorkerIDs -> Files \cup {NoTask}] /\ held'[w] = NoTask
        /\ \A v \in WorkerIDs \ {w} : held'[v] = held[v]
    BY <1>4 DEF IInv, TypeOK
  <2>5. NoTask \notin Files
    BY WorkerPoolAssumption DEF NoTask, Files
  <2>6. \A v \in WorkerIDs \ {w} : held[v] # h
    BY <1>2 DEF IInv, OnePlace
  <2>7. TypeOK'
    BY <1>1, <1>4, <2>1, <2>2, <2>3, <2>4 DEF IInv, TypeOK
  <2>8. OnePlace'
    <3>1. \A f \in Files :
            /\ started'[f] \in {0, 1}
            /\ started'[f] = 0 => outcome'[f] = "todo"
            /\ Within(tasks', f) => started'[f] = 0
            /\ Within(results', f) => started'[f] = 1 /\ outcome'[f] # "todo"
      BY <1>1, <1>2, <2>1 DEF IInv, OnePlace
    <3>2. \A v \in WorkerIDs :
            /\ pc'[v] \in {"call", "send"} <=> held'[v] \in Files
            /\ held'[v] \in Files => started'[held'[v]] = 1 /\ ~Within(results', held'[v])
            /\ pc'[v] = "send" => outcome'[held'[v]] # "todo"
      BY <1>1, <2>1, <2>3, <2>4, <2>5, <2>6 DEF IInv, OnePlace
    <3>3. \A u, v \in WorkerIDs : held'[u] = held'[v] /\ held'[u] \in Files => u = v
      BY <2>4, <2>5 DEF IInv, OnePlace
    <3> QED
      BY <1>1, <2>1, <3>1, <3>2, <3>3 DEF IInv, OnePlace
  <2>9. Collected' = Collected
    BY <1>1, <2>1, <2>4, <2>5, <2>6 DEF Collected
  <2>10. Counted'
    BY <1>1, <2>9 DEF IInv, Counted
  <2>11. NothingYet' /\ Stops'
    BY <1>1, <1>4, <2>3 DEF IInv, NothingYet, Stops, Running
  <2> QED
    BY <2>7, <2>8, <2>10, <2>11 DEF IInv
<1> QED
  BY <1>3, <1>4 DEF SendResult, ResultsWith

-----------------------------------------------------------------------------
(* The theorems. *)

LEMMA Invariance == Spec => []IInv
<1>1. IInv /\ [Next]_vars => IInv'
  <2>1. ASSUME IInv, Next PROVE IInv'
    BY <2>1, MainIInv, StartWorkersIInv, CollectIInv, TakeTaskIInv, TurnIInv, CallIInv,
       SendResultIInv DEF Next, MainStep, WorkerStep
  <2>2. ASSUME IInv, UNCHANGED vars PROVE IInv'
    <3>1. UNCHANGED <<tasks, results, resultsClosed, cancel, cancelClosed, mainPc, collected,
                      res, exitStatus, pc, held, outcome, started>>
      BY <2>2 DEF vars, channels, mainVars
    <3>2. TypeOK' /\ NothingYet' /\ Stops'
      BY <2>2, <3>1 DEF IInv, TypeOK, NothingYet, Stops
    <3> QED
      BY <2>2, <3>1, <3>2, SamePlaces, SameCount DEF IInv
  <2> QED
    BY <2>1, <2>2
<1> QED
  BY <1>1, InitIInv, PTL DEF Spec

(* No channel ever exceeds its capacity, and every variable has its type,  *)
(* for any number of files and workers.                                    *)
THEOREM TypeCorrect == Spec => []TypeOK
<1>1. IInv => TypeOK
  BY DEF IInv
<1> QED
  BY <1>1, Invariance, PTL

(* Whichever workers take, fail, leave or panic: no file is processed      *)
(* twice, and none is in two places or in none between main and workers.   *)
THEOREM FilesOnce == Spec => []EachFileOnce
<1>1. ASSUME IInv PROVE EachFileOnce
  <2> USE DEF EachFileOnce
  <2> TAKE f \in Files
  <2>1. /\ started[f] \in {0, 1} /\ (started[f] = 0 => outcome[f] = "todo")
        /\ (InTasks(f) => started[f] = 0)
        /\ (InResults(f) => started[f] = 1 /\ outcome[f] # "todo")
    BY <1>1 DEF IInv, OnePlace, Within, InTasks, InResults
  <2>2. \A w \in Holders(f) : started[f] = 1 /\ ~InResults(f)
    BY <1>1 DEF IInv, OnePlace, Within, InResults, Holders
  <2>3. Cardinality(Holders(f)) <= 1
    <3>1. CASE Holders(f) = {}
      BY <3>1, FS_EmptySet
    <3>2. CASE Holders(f) # {}
      <4>1. PICK w : w \in Holders(f)
        BY <3>2
      <4>2. Holders(f) = {w}
        BY <1>1, <4>1 DEF IInv, OnePlace, Holders
      <4> QED
        BY <4>2, FS_Singleton
    <3> QED
      BY <3>1, <3>2
  <2>4. ASSUME outcome[f] # "todo", collected = 0 PROVE InResults(f) \/ Holders(f) # {}
    <3>1. Collected = {}
      BY <1>1, <2>4, CollectedFinite, FS_EmptySet DEF IInv, Counted
    <3> QED
      BY <2>1, <2>4, <3>1 DEF Collected, Within, InResults, Holders
  <2>5. InTasks(f) => Holders(f) = {} /\ ~InResults(f)
    BY <2>1, <2>2
  <2>6. InResults(f) => Holders(f) = {}
    BY <2>2
  <2> QED
    BY <2>1, <2>3, <2>4, <2>5, <2>6
<1> QED
  BY <1>1, Invariance, PTL DEF EachFileOnce

(* When the process that started its workers exits with 0, every file was  *)
(* processed without an error, for any number of files and workers.        *)
THEOREM ZeroMeansAllDone == Spec => []ExitZeroMeansAllDone
<1>1. ASSUME IInv PROVE ExitZeroMeansAllDone
  <2> SUFFICES ASSUME exitStatus = "0", \E w \in WorkerIDs : pc[w] # "none"
               PROVE  \A f \in Files : outcome[f] = "done"
    BY DEF ExitZeroMeansAllDone
  <2>1. collected = NbFiles /\ res = 0
    BY <1>1 DEF IInv, Stops
  <2>2. Collected = Files
    BY <1>1, <2>1, CollectedFinite DEF IInv, Counted
  <2> QED
    BY <1>1, <2>1, <2>2 DEF IInv, Counted
<1> QED
  BY <1>1, Invariance, PTL
=============================================================================
