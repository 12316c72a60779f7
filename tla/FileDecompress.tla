--------------------------- MODULE FileDecompress ---------------------------
(***************************************************************************)
(* One file of the command line program: fileDecompressTask.call of        *)
(* app/BlockDecompressor.go.  It opens the output, opens the input,        *)
(* creates the decompressing stream, copies what it reads from it with     *)
(* reads of at most BufferSize units, closes the stream, compares the size *)
(* with the one announced in the header, and may remove the input.  Every  *)
(* return runs the deferred Close calls.  Between any two steps the        *)
(* process may be killed.                                                  *)
(*                                                                         *)
(* The decompressing stream is what Reader.tla says of it: the units in    *)
(* order; an error, in place of what the current call had decoded; io.EOF  *)
(* only when everything was read.  Checksums are on: a block that is there *)
(* in part, or a missing end mark, is an error of the Read that meets it.  *)
(***************************************************************************)
EXTENDS Integers

CONSTANTS
  MaxSize,     \* bound: units of the original
  BufferSize,  \* _DECOMP_DEFAULT_BUFFER_SIZE
  OldSizes,    \* the sizes of an output file that exists before
  Outputs,     \* what the name of the output stands for
  Announced,   \* what the header says of the size: "exact", "none", "wrong"
  Faults       \* which of FaultKinds may happen

(***************************************************************************)
(* "absent": no file yet; "other": an unrelated file; "same": the absolute *)
(* path of the input; "alias": another path to the file of the input;      *)
(* "null": the null device; "stdout", "none": STDOUT and NONE.             *)
(***************************************************************************)
OutputKinds == {"absent", "other", "same", "alias", "null", "stdout", "none"}
FaultKinds == {"create", "stream", "open", "corrupt", "write", "close", "kill"}

VARIABLES
  \* What the task is given: whether to overwrite the output and to remove
  \* the input; the output, and the size of what is there
  overwrite, remove, output, oldSize,
  \* The input: how many units can be read of it, what its header says of
  \* that, whether it is whole up to its end mark; whether the client asked
  \* for a part of it (from / to); whether it was removed
  size, announced, intact, ranged, removed,
  \* The output: whether it was opened; units 1 .. decoded were written to
  \* it, over oldSize units of what was there before
  opened, decoded,
  \* The call: where it is, the code it returns
  pc, code,
  \* History: whether one of Faults happened
  faulted

given == <<overwrite, remove, output, oldSize, size, announced, intact, ranged>>
vars == <<given, removed, opened, decoded, pc, code, faulted>>

-----------------------------------------------------------------------------
MinOf(a, b) == IF a <= b THEN a ELSE b

Exists == output \in {"other", "same", "alias", "null"}
IsInput == output \in {"same", "alias"}
KeepsNothing == output \in {"null", "none"}
HasOldSize(out) == out \in {"other", "same", "alias"}

Init ==
  /\ overwrite \in BOOLEAN /\ remove \in BOOLEAN /\ output \in Outputs
  /\ oldSize \in (IF HasOldSize(output) THEN OldSizes ELSE {0})
  /\ size \in 0 .. MaxSize /\ announced \in Announced
  /\ intact \in BOOLEAN /\ ranged \in BOOLEAN
  /\ removed = FALSE /\ opened = FALSE /\ decoded = 0
  /\ pc = "output" /\ code = "none" /\ faulted = FALSE

ReturnWith(c) == pc' = "returned" /\ code' = c
NoFault == UNCHANGED faulted
FailsBy(fault) == fault \in Faults /\ ReturnWith("error") /\ faulted' = TRUE

(* The guards on an output that is there. *)
Refused == Exists /\ (~overwrite \/ output = "same")

(* An output that is there is opened as it is; another one is created.     *)
OpenOutput ==
  /\ pc = "output"
  /\ \/ Refused /\ ReturnWith("error") /\ NoFault /\ UNCHANGED opened
     \/ ~Refused /\ output = "absent" /\ FailsBy("create") /\ UNCHANGED opened
     \/ ~Refused /\ opened' = TRUE /\ pc' = "input" /\ NoFault /\ UNCHANGED code
  /\ UNCHANGED <<given, removed, decoded>>

OpenInput ==
  /\ pc = "input"
  /\ FailsBy("open") \/ (pc' = "stream" /\ NoFault /\ UNCHANGED code)
  /\ UNCHANGED <<given, removed, opened, decoded>>

CreateStream ==
  /\ pc = "stream"
  /\ FailsBy("stream") \/ (pc' = "read" /\ NoFault /\ UNCHANGED code)
  /\ UNCHANGED <<given, removed, opened, decoded>>

(* How many units the client asked for: all, or some. *)
Wanted == IF ranged THEN size \div 2 ELSE size

(* The input is not, or no more, what a compression made of it: it is cut  *)
(* or torn, or the output is written over it.                              *)
Damaged == ~intact \/ (output = "alias" /\ decoded > 0)

(* One turn of the loop: a Read, which fills the buffer but at the end of  *)
(* the stream, or fails (then what it had decoded is not written); a Write *)
(* of what was read.  The end of a damaged stream is not reached; only the *)
(* end of a part that was asked for may lie before the damage.             *)
(* Mutant: the loop ends after one turn.                                   *)
Chunk == MinOf(BufferSize, Wanted - decoded)
LastReadAlways(n) == TRUE
LastRead(n) == n # BufferSize
EndIsThere == intact \/ (ranged /\ size > 0)
Copy ==
  LET n == Chunk
  IN /\ pc = "read"
     /\ \/ FailsBy("corrupt") /\ UNCHANGED decoded
        \/ Damaged /\ ReturnWith("error") /\ NoFault /\ UNCHANGED decoded
        \/ n > 0 /\ FailsBy("write") /\ UNCHANGED decoded
        \/ /\ n = BufferSize \/ EndIsThere
           /\ decoded' = decoded + n
           /\ pc' = IF LastRead(n) THEN "close" ELSE "read"
           /\ NoFault /\ UNCHANGED code
     /\ UNCHANGED <<given, removed, opened>>

(* cis.Close() *)
CloseStream ==
  /\ pc = "close"
  /\ FailsBy("close") \/ (pc' = "check" /\ NoFault /\ UNCHANGED code)
  /\ UNCHANGED <<given, removed, opened, decoded>>

(* The announced size is compared with what was decoded, unless there is   *)
(* none, the output is not a file that keeps it or only a part was asked   *)
(* for.  Mutants: it is compared in any case; it is never compared.        *)
HeaderSize == CASE announced = "exact" -> size [] announced = "wrong" -> size + 1
                [] OTHER -> 0
Checkable == output \notin {"null", "stdout", "none"}
WrongSizeNever == FALSE
WrongSizeAnyRange == Checkable /\ HeaderSize # 0 /\ decoded # HeaderSize
WrongSize == Checkable /\ ~ranged /\ HeaderSize # 0 /\ decoded # HeaderSize
Check ==
  /\ pc = "check"
  /\ \/ WrongSize /\ ReturnWith("error")
     \/ ~WrongSize /\ remove /\ pc' = "remove" /\ UNCHANGED code
     \/ ~WrongSize /\ ~remove /\ ReturnWith("0")
  /\ NoFault /\ UNCHANGED <<given, removed, opened, decoded>>

(* os.Remove(inputName); its failure is a warning. *)
Remove ==
  /\ pc = "remove" /\ ReturnWith("0") /\ removed' \in BOOLEAN
  /\ NoFault /\ UNCHANGED <<given, opened, decoded>>

(* The process is killed: the files stay as they are. *)
Kill ==
  /\ "kill" \in Faults /\ pc \notin {"returned", "killed"} /\ pc' = "killed"
  /\ UNCHANGED <<given, removed, opened, decoded, code, faulted>>

Next ==
  OpenOutput \/ OpenInput \/ CreateStream \/ Copy \/ CloseStream \/ Check \/ Remove
  \/ Kill

Spec == Init /\ [][Next]_vars

-----------------------------------------------------------------------------
TypeOK ==
  /\ {overwrite, remove, intact, ranged, removed, opened, faulted} \subseteq BOOLEAN
  /\ output \in Outputs /\ announced \in Announced /\ oldSize \in OldSizes \cup {0}
  /\ size \in 0 .. MaxSize /\ decoded \in 0 .. Wanted
  /\ pc \in {"output", "input", "stream", "read", "close", "check", "remove", "returned",
             "killed"}
  /\ code \in {"none", "0", "error"}

(* Everything that was asked for is in the output ... and nothing else.    *)
AllDecoded == opened /\ ~KeepsNothing /\ decoded = Wanted
Exact == AllDecoded /\ oldSize <= decoded

(* The data are lost in two ways only: when the client asks to keep        *)
(* nothing of the output, and through an output that is another path to    *)
(* the input.  Otherwise, when the input was removed or written over,      *)
(* everything that was asked for of it is in the output - whatever fails   *)
(* and wherever the process is killed ("Remove the input file after        *)
(* successful (de)compression", "The input and output files must be        *)
(* different").                                                            *)
WrittenOver == IsInput /\ opened /\ decoded > 0
SourceKept ==
  removed \/ WrittenOver => AllDecoded \/ KeepsNothing \/ output = "alias"

(* A file that can be read is decompressed: when nothing failed, the code  *)
(* is an error only for an output that must not be replaced, a damaged     *)
(* input or a size that is not the announced one - whichever part was      *)
(* asked for.                                                              *)
IntactIsAccepted ==
  code = "error" => Refused \/ faulted \/ Damaged \/ (announced = "wrong" /\ ~ranged)

(* The output is the decompressed data, and nothing of the file that was   *)
(* there before ("Overwrite the output file if it already exists").        *)
OutputIsExact == code = "0" /\ HasOldSize(output) => Exact

=============================================================================
