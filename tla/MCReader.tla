------------------------------ MODULE MCReader ------------------------------
(***************************************************************************)
(* Ways of opening a stream, for TLC: the values of the constant Contexts. *)
(***************************************************************************)
EXTENDS Reader

Plain == [constructor |-> "NewReader", from |-> 0, to |-> 0, nbInputBlocks |-> 0]

OnlyPlain == {Plain}

(* A plain stream; one whose header announces fewer blocks than there are  *)
(* (the source grew), so that batches are short; the same as a context     *)
(* with "headerless"; two ranges of blocks, one of them open, that end     *)
(* inside a batch or skip a whole one.                                     *)
UsualContexts ==
  {Plain,
   [Plain EXCEPT !.constructor = "headerless ctx", !.nbInputBlocks = 2],
   [Plain EXCEPT !.from = 2, !.to = 3],
   [Plain EXCEPT !.from = 4]}
=============================================================================
