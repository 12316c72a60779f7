-------------------------- MODULE WriterRefinement --------------------------
(***************************************************************************)
(* The Writer, with its buffers, batches and turns, implements BlockLog:   *)
(* a block is committed by the step that puts its data on the bitstream.   *)
(***************************************************************************)
EXTENDS Writer

(* The items on the bitstream before the end mark: the header, then the    *)
(* size and the data of each block.                                        *)
BodyLength ==
  IF obs # <<>> /\ obs[Len(obs)].kind = "end" THEN Len(obs) - 1 ELSE Len(obs)

CommittedBlocks == [k \in 1 .. (BodyLength - 1) \div 2 |-> obs[2 * k + 1].data]

StreamStatus ==
  CASE failed -> "failed"
    [] ~failed /\ obsClosed -> "closed"
    [] ~failed /\ ~obsClosed /\ closed -> "closing"
    [] OTHER -> "open"

Log == INSTANCE BlockLog
         WITH input <- accepted, log <- CommittedBlocks, status <- StreamStatus

(* Every step of the Writer accepts input, commits the next block of it,   *)
(* opens or ends the closing of the stream, reports an error, or does      *)
(* nothing a reader of the stream could see (Write, Close, processBlock    *)
(* and the encoding tasks together).                                       *)
ImplementsBlockLog == Log!Spec
=============================================================================
