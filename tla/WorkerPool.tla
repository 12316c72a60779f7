----------------------------- MODULE WorkerPool -----------------------------
(***************************************************************************)
(* The command line program on several files: main (Kanzi.go) creates a    *)
(* BlockCompressor and calls Compress, which puts one task per file in a   *)
(* closed channel, starts Workers goroutines (fileCompressWorker) that     *)
(* take tasks from it, collects one result per task and stops at the first *)
(* failure, then cancels the workers, closes the other two channels and    *)
(* returns to main, which exits.  Decompress is the same, with             *)
(* fileDecompressTask for fileCompressTask.                                *)
(*                                                                         *)
(* What a task does to its file is in FileCompress and FileDecompress; a   *)
(* task here succeeds, fails or panics.  Sending on a closed channel, and  *)
(* a panic in a worker, end the whole process.                             *)
(***************************************************************************)
EXTENDS Integers, Sequences, FiniteSets

CONSTANTS
  NbFiles,    \* number of files; their tasks are 1 .. NbFiles
  Workers,    \* jobs: the number of workers
  MayFail,    \* the tasks that may return an error
  MayPanic,   \* the tasks that may panic (an I/O error on the end mark)
  MayRefuse   \* TRUE: NewBlockCompressor may refuse its arguments

ASSUME WorkerPoolAssumption ==
  /\ NbFiles \in Nat \ {0, 1} /\ Workers \in Nat \ {0}
  /\ MayFail \subseteq 1 .. NbFiles /\ MayPanic \subseteq 1 .. NbFiles
  /\ MayRefuse \in BOOLEAN

Files == 1 .. NbFiles
WorkerIDs == 1 .. Workers

VARIABLES
  \* The channels: tasks is filled and closed before the workers start;
  \* results and cancel (of capacity NbFiles and 1) may be closed
  tasks, results, resultsClosed, cancel, cancelClosed,
  \* The main goroutine: where it is, the results it has collected, the code
  \* that Compress returns and the exit status of the process
  mainPc, collected, res, exitStatus,
  \* The workers, and what they hold: a task, or the result of one
  pc, held,
  \* History: what became of each task ("todo", "done" or "failed"), how
  \* often it was started
  outcome, started

channels == <<tasks, results, resultsClosed, cancel, cancelClosed>>
mainVars == <<mainPc, collected, res, exitStatus>>
vars == <<channels, mainVars, pc, held, outcome, started>>

NoTask == 0
Running == exitStatus = "running"

(* The code of a result: that of its task.  0 is success. *)
Code(f) == IF outcome[f] = "failed" THEN f ELSE 0

Init ==
  /\ tasks = <<>> /\ results = <<>> /\ resultsClosed = FALSE
  /\ cancel = 0 /\ cancelClosed = FALSE
  /\ mainPc = "create" /\ collected = 0 /\ res = 0 /\ exitStatus = "running"
  /\ pc = [w \in WorkerIDs |-> "none"] /\ held = [w \in WorkerIDs |-> NoTask]
  /\ outcome = [f \in Files |-> "todo"] /\ started = [f \in Files |-> 0]

-----------------------------------------------------------------------------
(* The main goroutine. *)

(* NewBlockCompressor refuses its arguments: compress returns an error     *)
(* code, but its deferred function exits with its variable code, still 0.  *)
Refuse ==
  /\ mainPc = "create" /\ MayRefuse
  /\ mainPc' = "exited" /\ exitStatus' = "0"
  /\ UNCHANGED <<channels, collected, res, pc, held, outcome, started>>

(* Compress creates one task per file, closes the channel and starts the   *)
(* workers.                                                                *)
StartWorkers ==
  /\ mainPc = "create"
  /\ tasks' = [i \in Files |-> i]
  /\ mainPc' = "collect" /\ pc' = [w \in WorkerIDs |-> "select"]
  /\ UNCHANGED <<results, resultsClosed, cancel, cancelClosed, collected, res,
                 exitStatus, held, outcome, started>>

(* The next result; the first failure stops the loop.                      *)
(* Mutant: one result too few is awaited.                                  *)
EnoughOneShort(n, code) == n = NbFiles - 1 \/ code # 0
Enough(n, code) == n = NbFiles \/ code # 0
Collect ==
  /\ mainPc = "collect" /\ results # <<>>
  /\ results' = Tail(results) /\ collected' = collected + 1
  /\ res' = Code(Head(results))
  /\ mainPc' = IF Enough(collected', res') THEN "cancel" ELSE "collect"
  /\ UNCHANGED <<tasks, resultsClosed, cancel, cancelClosed, exitStatus, pc, held,
                 outcome, started>>

(* cancel <- true; close(cancel); close(results) *)
SendCancel ==
  /\ mainPc = "cancel" /\ cancel = 0
  /\ cancel' = 1 /\ mainPc' = "closeCancel"
  /\ UNCHANGED <<tasks, results, resultsClosed, cancelClosed, collected, res,
                 exitStatus, pc, held, outcome, started>>

CloseCancel ==
  /\ mainPc = "closeCancel"
  /\ cancelClosed' = TRUE /\ mainPc' = "closeResults"
  /\ UNCHANGED <<tasks, results, resultsClosed, cancel, collected, res, exitStatus,
                 pc, held, outcome, started>>

CloseResults ==
  /\ mainPc = "closeResults"
  /\ resultsClosed' = TRUE /\ mainPc' = "exit"
  /\ UNCHANGED <<tasks, results, cancel, cancelClosed, collected, res, exitStatus,
                 pc, held, outcome, started>>

(* Compress returns its code, and main exits with it. *)
Exit ==
  /\ mainPc = "exit" /\ mainPc' = "exited"
  /\ exitStatus' = IF res = 0 THEN "0" ELSE "code"
  /\ UNCHANGED <<channels, collected, res, pc, held, outcome, started>>

-----------------------------------------------------------------------------
(* The workers: one turn of the loop is a select between the two channels. *)

(* The next task. *)
TakeTask(w) ==
  /\ pc[w] = "select" /\ tasks # <<>>
  /\ tasks' = Tail(tasks)
  /\ held' = [held EXCEPT ![w] = Head(tasks)]
  /\ started' = [started EXCEPT ![Head(tasks)] = @ + 1]
  /\ pc' = [pc EXCEPT ![w] = "call"]
  /\ UNCHANGED <<results, resultsClosed, cancel, cancelClosed, mainVars, outcome>>

(* The closed channel is empty: the worker leaves its loop. *)
NoMoreTasks(w) ==
  /\ pc[w] = "select" /\ tasks = <<>>
  /\ pc' = [pc EXCEPT ![w] = "left"]
  /\ UNCHANGED <<channels, mainVars, held, outcome, started>>

(* The one true sent on cancel stops one worker; afterwards the closed     *)
(* channel is false for ever, and the others go on.                        *)
TakeCancel(w) ==
  /\ pc[w] = "select" /\ (cancel = 1 \/ cancelClosed)
  /\ cancel' = 0
  /\ pc' = [pc EXCEPT ![w] = IF cancel = 1 THEN "left" ELSE "select"]
  /\ UNCHANGED <<tasks, results, resultsClosed, cancelClosed, mainVars, held,
                 outcome, started>>

(* t.call() returns, or panics. *)
Call(w) ==
  /\ pc[w] = "call"
  /\ \/ /\ outcome' = [outcome EXCEPT ![held[w]] = "done"]
        /\ pc' = [pc EXCEPT ![w] = "send"] /\ UNCHANGED exitStatus
     \/ /\ held[w] \in MayFail
        /\ outcome' = [outcome EXCEPT ![held[w]] = "failed"]
        /\ pc' = [pc EXCEPT ![w] = "send"] /\ UNCHANGED exitStatus
     \/ /\ held[w] \in MayPanic
        /\ exitStatus' = "panic" /\ UNCHANGED <<outcome, pc>>
  /\ UNCHANGED <<channels, mainPc, collected, res, held, started>>

(* results <- ...: on the closed channel it panics.  A worker that failed  *)
(* leaves its loop.  Mutants: the result is lost; an empty one is sent.    *)
StaysInLoop(w) == outcome[held[w]] # "failed"
ResultsNothing(w) == results
ResultsOfNone(w) == Append(results, NoTask)
ResultsWith(w) == Append(results, held[w])
SendResult(w) ==
  /\ pc[w] = "send"
  /\ \/ /\ resultsClosed /\ exitStatus' = "panic" /\ UNCHANGED <<results, pc, held>>
     \/ /\ ~resultsClosed /\ Len(results) < NbFiles
        /\ results' = ResultsWith(w)
        /\ pc' = [pc EXCEPT ![w] = IF StaysInLoop(w) THEN "select" ELSE "left"]
        /\ held' = [held EXCEPT ![w] = NoTask]
        /\ UNCHANGED exitStatus
  /\ UNCHANGED <<tasks, resultsClosed, cancel, cancelClosed, mainPc, collected, res,
                 outcome, started>>

-----------------------------------------------------------------------------
MainStep ==
  \/ Refuse \/ StartWorkers \/ Collect \/ SendCancel \/ CloseCancel \/ CloseResults
  \/ Exit
WorkerStep(w) ==
  TakeTask(w) \/ NoMoreTasks(w) \/ TakeCancel(w) \/ Call(w) \/ SendResult(w)

(* Nothing runs after the end of the process. *)
Next == Running /\ (MainStep \/ \E w \in WorkerIDs : WorkerStep(w))

(* The Go scheduler runs every runnable goroutine. *)
Fairness ==
  /\ WF_vars(Running /\ MainStep)
  /\ \A w \in WorkerIDs : WF_vars(Running /\ WorkerStep(w))

Spec == Init /\ [][Next]_vars
FairSpec == Spec /\ Fairness

-----------------------------------------------------------------------------
(* What the program promises. *)

(* Every variable has its type; no channel exceeds its capacity. *)
TypeOK ==
  /\ tasks \in Seq(Files) /\ results \in Seq(Files) /\ Len(results) <= NbFiles
  /\ resultsClosed \in BOOLEAN /\ cancel \in 0 .. 1 /\ cancelClosed \in BOOLEAN
  /\ mainPc \in {"create", "collect", "cancel", "closeCancel", "closeResults", "exit",
                 "exited"}
  /\ collected \in 0 .. NbFiles /\ res \in 0 .. NbFiles
  /\ exitStatus \in {"running", "0", "code", "panic"}
  /\ pc \in [WorkerIDs -> {"none", "select", "call", "send", "left"}]
  /\ held \in [WorkerIDs -> Files \cup {NoTask}]
  /\ outcome \in [Files -> {"todo", "done", "failed"}] /\ started \in [Files -> Nat]

(* No file is lost between the channels, the workers and main, and none is *)
(* processed twice.                                                        *)
InTasks(f) == \E i \in 1 .. Len(tasks) : tasks[i] = f
InResults(f) == \E i \in 1 .. Len(results) : results[i] = f
Holders(f) == {w \in WorkerIDs : held[w] = f}
EachFileOnce ==
  \A f \in Files :
    /\ started[f] <= 1 /\ Cardinality(Holders(f)) <= 1
    /\ InTasks(f) => started[f] = 0 /\ Holders(f) = {} /\ ~InResults(f)
    /\ InResults(f) => outcome[f] # "todo" /\ Holders(f) = {}
    /\ exitStatus = "running" /\ outcome[f] # "todo" /\ collected = 0 =>
         InResults(f) \/ Holders(f) # {}

(* Once the workers run, the process exits with 0 only when every file was *)
(* processed without an error: no failure is lost between the task and     *)
(* main, and no worker is cut off by the exit.                             *)
ExitZeroMeansAllDone ==
  exitStatus = "0" /\ (\E w \in WorkerIDs : pc[w] # "none") =>
    \A f \in Files : outcome[f] = "done"

(* The program ends: main never waits for a result nobody will send.       *)
Exits == <>(exitStatus # "running")
=============================================================================
