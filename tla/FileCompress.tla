---------------------------- MODULE FileCompress ----------------------------
(***************************************************************************)
(* One file of the command line program: fileCompressTask.call of          *)
(* app/BlockCompressor.go.  It opens the output, creates the compressing   *)
(* stream, opens the input, copies the one to the other with reads of at   *)
(* most BufferSize units, closes the stream and may remove the input.      *)
(* Every return runs the deferred Close calls, last one first.  Between    *)
(* any two steps the process may be killed.                                *)
(*                                                                         *)
(* The compressing stream is what Writer.tla says of it: it puts what it   *)
(* accepts on the output in order, at its own pace, and its Close the rest *)
(* and the end mark.  A Write that fails drops what is still in its        *)
(* buffers, and the block it was writing may be there in part.             *)
(***************************************************************************)
EXTENDS Integers

CONSTANTS
  MaxSize,     \* bound: units in the input
  BufferSize,  \* _COMP_DEFAULT_BUFFER_SIZE
  InputKinds,  \* "file": Read fills the buffer but at the end; "pipe": the
               \* standard input, Read returns what there is
  Outputs,     \* what the name of the output stands for
  Faults       \* which of FaultKinds may happen

(***************************************************************************)
(* "absent": no file yet; "other": an unrelated file; "same": the absolute *)
(* path of the input; "alias": another path to the file of the input;      *)
(* "null": the null device, a file that keeps nothing; "stdout", "none":   *)
(* STDOUT and NONE, which are not files.                                   *)
(***************************************************************************)
OutputKinds == {"absent", "other", "same", "alias", "null", "stdout", "none"}
FaultKinds == {"create", "stream", "open", "read", "write", "close", "kill"}

ASSUME FileCompressAssumption ==
  /\ MaxSize \in Nat /\ BufferSize \in Nat \ {0}
  /\ InputKinds \subseteq {"file", "pipe"} /\ Outputs \subseteq OutputKinds
  /\ Faults \subseteq FaultKinds

VARIABLES
  \* What the task is given: whether to overwrite the output and to remove
  \* the input, the input and the output
  overwrite, remove, inputKind, output,
  \* The input: how many units it holds at first, whether it was emptied
  \* through the name of the output, whether it was removed
  size, emptied, removed,
  \* What is kept of the output: "absent", "old" content or the "new" one,
  \* which consists of emitted units in the order of the input, with a block
  \* in part behind them if torn, and the end mark if ended
  content, emitted, ended, torn,
  \* The call: where it is, how many units it has read, how many the stream
  \* has accepted and not dropped, whether the stream was closed; which
  \* Close calls are deferred; the code it returns
  pc, read, accepted, cosClosed, deferred, code

given  == <<overwrite, remove, inputKind, output, size>>
outVars == <<content, emitted, ended, torn>>
vars == <<given, emptied, removed, outVars, pc, read, accepted, cosClosed, deferred,
          code>>

-----------------------------------------------------------------------------
MinOf(a, b) == IF a <= b THEN a ELSE b

Exists == output \in {"other", "same", "alias", "null"}
IsInput == output \in {"same", "alias"}
Special == output \in {"stdout", "none"}
KeepsNothing == output \in {"null", "none"}

Init ==
  /\ overwrite \in BOOLEAN /\ remove \in BOOLEAN
  /\ inputKind \in InputKinds /\ output \in Outputs /\ size \in 0 .. MaxSize
  /\ emptied = FALSE /\ removed = FALSE
  /\ content = (IF Exists /\ ~KeepsNothing THEN "old" ELSE "absent")
  /\ emitted = 0 /\ ended = FALSE /\ torn = FALSE
  /\ pc = "output" /\ read = 0 /\ accepted = 0 /\ cosClosed = FALSE
  /\ deferred = {} /\ code = "none"

ReturnWith(c) == pc' = "return" /\ code' = c

(* The guards before the output is created: a file that is there is only   *)
(* replaced on demand, and never the input itself - by name.               *)
Refused == Exists /\ (~overwrite \/ output = "same")

(* The output is created, or what is there is truncated.  NONE and STDOUT  *)
(* pass no guard, need no file and are not closed.                         *)
OpenOutput ==
  /\ pc = "output"
  /\ \/ /\ Refused \/ (~Special /\ "create" \in Faults)
        /\ ReturnWith("error") /\ UNCHANGED <<content, emptied, deferred>>
     \/ /\ ~Refused /\ pc' = "stream" /\ UNCHANGED code
        /\ content' = (IF KeepsNothing THEN content ELSE "new") /\ emptied' = IsInput
        /\ deferred' = (IF Special THEN {} ELSE {"output"})
  /\ UNCHANGED <<given, removed, emitted, ended, torn, read, accepted, cosClosed>>

(* NewWriterWithCtx may refuse its parameters. *)
CreateStream ==
  /\ pc = "stream"
  /\ \/ "stream" \in Faults /\ ReturnWith("error") /\ UNCHANGED deferred
     \/ deferred' = deferred \cup {"cos"} /\ pc' = "input" /\ UNCHANGED code
  /\ UNCHANGED <<given, emptied, removed, outVars, read, accepted, cosClosed>>

(* The standard input is there, and is not closed.                         *)
OpenInput ==
  /\ pc = "input"
  /\ \/ /\ inputKind = "file" /\ "open" \in Faults
        /\ ReturnWith("error") /\ UNCHANGED deferred
     \/ /\ deferred' = deferred \cup (IF inputKind = "file" THEN {"input"} ELSE {})
        /\ pc' = "read" /\ UNCHANGED code
  /\ UNCHANGED <<given, emptied, removed, outVars, read, accepted, cosClosed>>

(* cos.Write of n units, when it returns nil: some more of what the stream *)
(* accepted are on the output.                                             *)
Written(n) ==
  /\ accepted' = accepted + n /\ emitted' \in emitted .. accepted'
  /\ UNCHANGED torn

(* When it fails: the blocks of this call that were encoded before are on  *)
(* the output, behind them perhaps a part of the next one; the rest of the *)
(* batch is dropped, and nothing is left for Close.  (After a failure of   *)
(* an encoder a block may be missing between two others; emitted counts    *)
(* those that are there.)                                                  *)
WriteFails(n) ==
  /\ n > 0 /\ "write" \in Faults
  /\ emitted' \in emitted .. accepted + n /\ accepted' = emitted'
  /\ torn' \in BOOLEAN

(* One turn of the loop: what a Read may return, ... *)
Unread == IF emptied THEN 0 ELSE size - read
Lengths ==
  IF inputKind = "file" \/ Unread = 0 THEN {MinOf(BufferSize, Unread)}
  ELSE 1 .. MinOf(BufferSize, Unread)

(* ... after which the loop ends if the buffer is not full.                *)
(* Mutant: the loop ends after the first read that returned something.     *)
LastReadIfSome(n) == n > 0
LastRead(n) == n < BufferSize

Copy ==
  /\ pc = "read"
  /\ \/ /\ "read" \in Faults
        /\ ReturnWith("error") /\ UNCHANGED <<read, accepted, emitted, torn>>
     \/ \E n \in Lengths :
          /\ read' = read + n
          /\ \/ /\ Written(n) /\ UNCHANGED code
                /\ pc' = IF LastRead(n) THEN "close" ELSE "read"
             \/ WriteFails(n) /\ ReturnWith("error")
  /\ UNCHANGED <<given, emptied, removed, content, ended, cosClosed, deferred>>

(* cos.Close(): the rest of what was accepted and the end mark, also after *)
(* a Write that failed.  A second call does nothing.                       *)
CloseCos ==
  /\ cosClosed' = TRUE
  /\ IF cosClosed THEN UNCHANGED <<emitted, ended>>
     ELSE ended' = TRUE /\ emitted' = accepted
CloseFails ==
  /\ ~cosClosed /\ "close" \in Faults
  /\ cosClosed' = TRUE /\ emitted' \in emitted .. accepted /\ UNCHANGED ended

CloseStream ==
  /\ pc = "close"
  /\ \/ CloseCos /\ remove /\ pc' = "remove" /\ UNCHANGED code
     \/ CloseCos /\ ~remove /\ ReturnWith("0")
     \/ CloseFails /\ ReturnWith("error")
  /\ UNCHANGED <<given, emptied, removed, content, torn, read, accepted, deferred>>

(* os.Remove(inputName): not for STDIN; its failure is a warning. *)
Remove ==
  /\ pc = "remove" /\ ReturnWith("0")
  /\ removed' \in (IF inputKind = "pipe" THEN {FALSE} ELSE BOOLEAN)
  /\ UNCHANGED <<given, emptied, outVars, read, accepted, cosClosed, deferred>>

(* The deferred calls of a return, last one first; nobody looks at their   *)
(* errors.                                                                 *)
RunDeferred ==
  /\ pc = "return"
  /\ \/ /\ "input" \in deferred
        /\ deferred' = deferred \ {"input"} /\ UNCHANGED <<cosClosed, emitted, ended>>
     \/ /\ "input" \notin deferred /\ "cos" \in deferred
        /\ deferred' = deferred \ {"cos"} /\ (CloseCos \/ CloseFails)
     \/ /\ deferred = {"output"}
        /\ deferred' = {} /\ UNCHANGED <<cosClosed, emitted, ended>>
  /\ UNCHANGED <<given, emptied, removed, content, torn, pc, read, accepted, code>>

Return ==
  /\ pc = "return" /\ deferred = {} /\ pc' = "returned"
  /\ UNCHANGED <<given, emptied, removed, outVars, read, accepted, cosClosed, deferred,
                 code>>

(* The process is killed: the files stay as they are. *)
Kill ==
  /\ "kill" \in Faults /\ pc \notin {"returned", "killed"} /\ pc' = "killed"
  /\ UNCHANGED <<given, emptied, removed, outVars, read, accepted, cosClosed, deferred,
                 code>>

Next ==
  \/ OpenOutput \/ CreateStream \/ OpenInput \/ Copy \/ CloseStream \/ Remove
  \/ RunDeferred \/ Return \/ Kill

Spec == Init /\ [][Next]_vars

-----------------------------------------------------------------------------
TypeOK ==
  /\ {overwrite, remove, emptied, removed, ended, torn, cosClosed} \subseteq BOOLEAN
  /\ inputKind \in InputKinds /\ output \in Outputs
  /\ size \in 0 .. MaxSize /\ read \in 0 .. size /\ accepted \in 0 .. read
  /\ content \in {"absent", "old", "new"} /\ emitted \in 0 .. accepted
  /\ pc \in {"output", "stream", "input", "read", "close", "remove", "return", "returned",
             "killed"}
  /\ deferred \subseteq {"output", "cos", "input"}
  /\ code \in {"none", "0", "error"}

(* The output is the stream of the whole input. *)
Complete == content = "new" /\ emitted = size /\ ended /\ ~torn

(* The data of the input are lost in two ways only, whatever fails and     *)
(* wherever the process is killed: through an output that keeps nothing    *)
(* (NONE or the null device, with the option to remove the input), and     *)
(* through an output that is another path to the input, which the code     *)
(* does not notice, as it compares names.  Otherwise, when the input was   *)
(* removed or emptied, its whole content is in the output ("Remove the     *)
(* input file after successful (de)compression", "The input and output     *)
(* files must be different").                                              *)
SourceKept == removed \/ emptied => Complete \/ KeepsNothing \/ output = "alias"

(* The code 0 is returned for a complete output only - if the output keeps *)
(* anything, and is not another path to the input.                         *)
ZeroIsComplete ==
  pc = "returned" /\ code = "0" => Complete \/ KeepsNothing \/ output = "alias"

(* The same for a file as the input: the loop may end at a short read, as  *)
(* a file has no other.                                                    *)
FileZeroIsComplete == inputKind = "file" => ZeroIsComplete

=============================================================================
