------------------------------ MODULE BlockLog ------------------------------
(***************************************************************************)
(* What a compressing stream promises, without buffers, tasks or turns:    *)
(* the input is cut into blocks of BlockSize units, only the last of which *)
(* may be shorter; the blocks are committed one at a time and in order;    *)
(* a stream that closes without an error has committed all of its input.   *)
(*                                                                         *)
(* Unit i of the input is the number i, so a block says which units it     *)
(* holds and in which order.                                               *)
(***************************************************************************)
EXTENDS Integers, Sequences

CONSTANT BlockSize

VARIABLES
  input,   \* how many units the stream has accepted
  log,     \* the committed blocks
  status   \* "open", "closing" (Close was called), "closed" or "failed"

vars == <<input, log, status>>

(* Block k of an input of n units. *)
BlockEnd(k, n) == IF k * BlockSize <= n THEN k * BlockSize ELSE n
Block(k, n) ==
  [j \in 1 .. BlockEnd(k, n) - (k - 1) * BlockSize |-> (k - 1) * BlockSize + j]

Init == input = 0 /\ log = <<>> /\ status = "open"

(* More input arrives. *)
Accept ==
  /\ status = "open"
  /\ \E n \in 1 .. BlockSize : input' = input + n
  /\ UNCHANGED <<log, status>>

(* The next block is committed: a full one, or the last one of the stream. *)
Commit ==
  /\ \/ status = "open" /\ (Len(log) + 1) * BlockSize <= input
     \/ status = "closing" /\ Len(log) * BlockSize < input
  /\ log' = Append(log, Block(Len(log) + 1, input))
  /\ UNCHANGED <<input, status>>

BeginClose ==
  /\ status = "open" /\ status' = "closing"
  /\ UNCHANGED <<input, log>>

EndClose ==
  /\ status = "closing" /\ Len(log) * BlockSize >= input
  /\ status' = "closed"
  /\ UNCHANGED <<input, log>>

(* An error was reported: nothing more is promised. *)
Fail ==
  /\ status \in {"open", "closing"} /\ status' = "failed"
  /\ UNCHANGED <<input, log>>

Next == Accept \/ Commit \/ BeginClose \/ EndClose \/ Fail

Spec == Init /\ [][Next]_vars
=============================================================================
