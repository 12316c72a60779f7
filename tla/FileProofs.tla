----------------------------- MODULE FileProofs -----------------------------
(***************************************************************************)
(* Proofs about the compression of one file, for every size of the input   *)
(* and of the buffer, every option and every set of faults; then about a   *)
(* file that is compressed and decompressed.                               *)
(***************************************************************************)
EXTENDS FileRoundTrip, TLAPS

-----------------------------------------------------------------------------
(* The inductive invariant. *)

(* The output is opened by the first step, and nothing is read before the  *)
(* input is open.                                                          *)
OpenedFirst ==
  /\ pc \in {"output", "stream", "input"} => read = 0
  /\ pc \in {"stream", "input", "read", "close", "remove"} =>
       content = "new" \/ KeepsNothing

(* As long as nothing failed, the stream has accepted what was read, and   *)
(* it is open until the loop is over.                                      *)
NothingAmiss ==
  /\ pc \in {"output", "stream", "input", "read", "close"} =>
       accepted = read /\ ~torn /\ ~cosClosed
  /\ pc \in {"output", "stream", "input", "read", "close", "remove"} =>
       code = "none" /\ ~removed

(* The input is emptied through another path to it only: the guard on the  *)
(* name holds.                                                             *)
EmptiedByAlias == emptied => output = "alias"

(* The loop over a file ends when all of it was read. *)
AllRead == inputKind = "file" /\ pc = "close" => read = size \/ output = "alias"

(* Once the stream of a file was closed without an error, its output is    *)
(* complete, and no deferred call adds to it.                              *)
Kept == Complete \/ KeepsNothing \/ output = "alias"
ClosedMeansComplete ==
  inputKind = "file" /\ (pc = "remove" \/ code = "0") => Kept /\ cosClosed

(* Only a successful call removes its input, and never that of a pipe. *)
RemovedLast == removed => inputKind = "file" /\ code = "0"

IInv ==
  /\ TypeOK /\ OpenedFirst /\ NothingAmiss /\ EmptiedByAlias /\ AllRead
  /\ ClosedMeansComplete /\ RemovedLast

-----------------------------------------------------------------------------
(* What a turn of the loop reads is there, and the last one reads all that *)
(* is left of a file.                                                      *)
LEMMA LengthsInRange ==
  ASSUME size \in Nat, read \in 0 .. size, NEW n \in Lengths
  PROVE  /\ n \in Nat /\ read + n \in 0 .. size
         /\ inputKind = "file" /\ LastRead(n) /\ ~emptied => read + n = size
<1>1. /\ Unread \in Nat /\ Unread <= size - read
      /\ ~emptied => Unread = size - read
  BY DEF Unread
<1>2. BufferSize \in Nat \ {0}
  BY FileCompressAssumption
<1>3. CASE inputKind = "file" \/ Unread = 0
  <2>1. n = IF BufferSize <= Unread THEN BufferSize ELSE Unread
    BY <1>3 DEF Lengths, MinOf
  <2> QED
    BY <2>1, <1>1, <1>2 DEF LastRead
<1>4. CASE ~(inputKind = "file" \/ Unread = 0)
  <2>1. n \in 1 .. IF BufferSize <= Unread THEN BufferSize ELSE Unread
    BY <1>4 DEF Lengths, MinOf
  <2> QED
    BY <2>1, <1>1, <1>2, <1>4
<1> QED
  BY <1>3, <1>4

-----------------------------------------------------------------------------
(* Every action preserves the invariant. *)
LEMMA InitIInv == Init => IInv
<1> SUFFICES ASSUME Init PROVE IInv
  OBVIOUS
<1>1. size \in 0 .. MaxSize /\ read \in 0 .. size /\ accepted \in 0 .. read
                           /\ emitted \in 0 .. accepted
  BY FileCompressAssumption DEF Init
<1>2. TypeOK
  BY <1>1 DEF Init, TypeOK
<1> QED
  BY <1>2
  DEF Init, IInv, OpenedFirst, NothingAmiss, EmptiedByAlias, AllRead, ClosedMeansComplete,
      RemovedLast

LEMMA OpenOutputIInv == IInv /\ OpenOutput => IInv'
<1> SUFFICES ASSUME IInv, OpenOutput PROVE IInv'
  OBVIOUS
<1>1. UNCHANGED <<given, removed, emitted, ended, torn, read, accepted, cosClosed>>
  BY DEF OpenOutput
<1>2. pc = "output" /\ read = 0 /\ accepted = 0 /\ code = "none" /\ ~removed /\ ~torn
      /\ ~cosClosed
  BY DEF OpenOutput, IInv, OpenedFirst, NothingAmiss
<1>3. output' = output /\ inputKind' = inputKind
  BY <1>1 DEF given
<1>4. KeepsNothing' = KeepsNothing
  BY <1>3 DEF KeepsNothing
<1>5. CASE /\ ReturnWith("error") /\ UNCHANGED <<content, emptied, deferred>>
  BY <1>1, <1>2, <1>3, <1>4, <1>5
  DEF ReturnWith, given, IInv, TypeOK, OpenedFirst, NothingAmiss, EmptiedByAlias, AllRead,
      ClosedMeansComplete, RemovedLast
<1>6. CASE /\ ~Refused /\ pc' = "stream" /\ UNCHANGED code
           /\ content' = (IF KeepsNothing THEN content ELSE "new") /\ emptied' = IsInput
           /\ deferred' = (IF Special THEN {} ELSE {"output"})
  <2>1. emptied' => output = "alias"
    BY <1>6 DEF Refused, Exists, IsInput
  <2>2. emptied' \in BOOLEAN
    BY <1>6 DEF IsInput
  <2>3. TypeOK'
    BY <1>1, <1>6, <2>2 DEF given, IInv, TypeOK
  <2> QED
    BY <1>1, <1>2, <1>3, <1>4, <1>6, <2>1, <2>3
    DEF given, IInv, OpenedFirst, NothingAmiss, EmptiedByAlias, AllRead,
        ClosedMeansComplete, RemovedLast
<1> QED
  BY <1>5, <1>6 DEF OpenOutput

LEMMA CreateStreamIInv == IInv /\ CreateStream => IInv'
<1> SUFFICES ASSUME IInv, CreateStream PROVE IInv'
  OBVIOUS
<1>1. /\ pc = "stream"
      /\ UNCHANGED <<given, emptied, removed, outVars, read, accepted, cosClosed>>
      /\ \/ pc' = "return" /\ code' = "error"
         \/ pc' = "input" /\ code' = code
  BY DEF CreateStream, ReturnWith
<1>2. deferred' \subseteq {"output", "cos", "input"}
  BY DEF CreateStream, IInv, TypeOK
<1>3. TypeOK'
  BY <1>1, <1>2 DEF given, outVars, IInv, TypeOK
<1>4. KeepsNothing' = KeepsNothing
  BY <1>1 DEF KeepsNothing, given
<1> QED
  BY <1>1, <1>3, <1>4
  DEF given, outVars, IInv, OpenedFirst, NothingAmiss, EmptiedByAlias, AllRead,
      ClosedMeansComplete, RemovedLast

LEMMA OpenInputIInv == IInv /\ OpenInput => IInv'
<1> SUFFICES ASSUME IInv, OpenInput PROVE IInv'
  OBVIOUS
<1>1. /\ pc = "input"
      /\ UNCHANGED <<given, emptied, removed, outVars, read, accepted, cosClosed>>
      /\ \/ pc' = "return" /\ code' = "error"
         \/ pc' = "read" /\ code' = code
  BY DEF OpenInput, ReturnWith
<1>2. deferred' \subseteq {"output", "cos", "input"}
  BY DEF OpenInput, IInv, TypeOK
<1>3. TypeOK'
  BY <1>1, <1>2 DEF given, outVars, IInv, TypeOK
<1>4. KeepsNothing' = KeepsNothing
  BY <1>1 DEF KeepsNothing, given
<1> QED
  BY <1>1, <1>3, <1>4
  DEF given, outVars, IInv, OpenedFirst, NothingAmiss, EmptiedByAlias, AllRead,
      ClosedMeansComplete, RemovedLast

LEMMA CopyIInv == IInv /\ Copy => IInv'
<1> SUFFICES ASSUME IInv, Copy PROVE IInv'
  OBVIOUS
<1>1. /\ size \in Nat /\ size \in 0 .. MaxSize /\ read \in 0 .. size
      /\ accepted = read /\ emitted \in 0 .. accepted /\ ~removed /\ code = "none" /\ ~torn
      /\ ~cosClosed /\ (content = "new" \/ KeepsNothing) /\ pc = "read"
  BY FileCompressAssumption DEF Copy, IInv, TypeOK, OpenedFirst, NothingAmiss
<1>2. /\ UNCHANGED <<given, emptied, removed, content, ended, cosClosed, deferred>>
      /\ KeepsNothing' = KeepsNothing
  BY DEF Copy, given, KeepsNothing
<1>3. CASE /\ ReturnWith("error") /\ UNCHANGED <<read, accepted, emitted, torn>>
  BY <1>1, <1>2, <1>3
  DEF ReturnWith, given, IInv, TypeOK, OpenedFirst, NothingAmiss, EmptiedByAlias, AllRead,
      ClosedMeansComplete, RemovedLast
<1>4. ASSUME NEW n \in Lengths, read' = read + n, Written(n), UNCHANGED code,
             pc' = (IF LastRead(n) THEN "close" ELSE "read")
      PROVE  IInv'
  <2>1. /\ n \in Nat /\ read + n \in 0 .. size
        /\ inputKind = "file" /\ LastRead(n) /\ ~emptied => read + n = size
    BY <1>1, LengthsInRange
  <2>2. accepted' = read' /\ emitted' \in 0 .. accepted' /\ torn' = torn
    BY <1>1, <1>4, <2>1 DEF Written
  <2>3. TypeOK'
    BY <1>1, <1>2, <1>4, <2>1, <2>2 DEF given, IInv, TypeOK
  <2> QED
    BY <1>1, <1>2, <1>4, <2>1, <2>2, <2>3
    DEF given, IInv, OpenedFirst, NothingAmiss, EmptiedByAlias, AllRead,
        ClosedMeansComplete, RemovedLast
<1>5. ASSUME NEW n \in Lengths, read' = read + n, WriteFails(n), ReturnWith("error")
      PROVE  IInv'
  <2>1. n \in Nat /\ read + n \in 0 .. size
    BY <1>1, LengthsInRange
  <2>2. /\ accepted' \in 0 .. read' /\ emitted' \in 0 .. accepted' /\ torn' \in BOOLEAN
        /\ pc' = "return" /\ code' = "error"
    BY <1>1, <1>5, <2>1 DEF WriteFails, ReturnWith
  <2>3. TypeOK'
    BY <1>1, <1>2, <1>5, <2>1, <2>2 DEF given, IInv, TypeOK
  <2> QED
    BY <1>1, <1>2, <2>2, <2>3
    DEF given, IInv, OpenedFirst, NothingAmiss, EmptiedByAlias, AllRead,
        ClosedMeansComplete, RemovedLast
<1> QED
  BY <1>3, <1>4, <1>5 DEF Copy

(* What a Close of the stream does, whether it fails or not: only the      *)
(* first call adds to the output.                                          *)
LEMMA CloseEffect ==
  ASSUME IInv, CloseCos \/ CloseFails
  PROVE  /\ cosClosed' = TRUE /\ ended' \in BOOLEAN /\ emitted' \in 0 .. accepted
         /\ cosClosed => UNCHANGED <<cosClosed, ended, emitted>>
         /\ ~cosClosed /\ CloseCos => ended' /\ emitted' = accepted
<1>1. /\ cosClosed \in BOOLEAN /\ ended \in BOOLEAN
      /\ emitted \in 0 .. accepted /\ accepted \in Nat
  BY FileCompressAssumption DEF IInv, TypeOK
<1>2. CASE cosClosed
  <2>1. emitted' = emitted /\ ended' = ended /\ cosClosed' = TRUE
    BY <1>2 DEF CloseCos, CloseFails
  <2>2. cosClosed' = cosClosed
    BY <1>1, <1>2, <2>1
  <2> QED
    BY <1>1, <1>2, <2>1, <2>2
<1>3. CASE ~cosClosed
  <2>1. CASE CloseCos
    <3>1. cosClosed' = TRUE /\ ended' = TRUE /\ emitted' = accepted
      BY <1>3, <2>1 DEF CloseCos
    <3>2. emitted' \in 0 .. accepted
      BY <1>1, <3>1
    <3> QED
      BY <1>3, <3>1, <3>2
  <2>2. CASE CloseFails /\ ~CloseCos
    <3>1. emitted' \in 0 .. accepted
      BY <1>1, <2>2 DEF CloseFails
    <3> QED
      BY <1>1, <1>3, <2>2, <3>1 DEF CloseFails
  <2> QED
    BY <2>1, <2>2
<1> QED
  BY <1>2, <1>3

LEMMA CloseStreamIInv == IInv /\ CloseStream => IInv'
<1> SUFFICES ASSUME IInv, CloseStream PROVE IInv'
  OBVIOUS
<1>1. UNCHANGED <<given, emptied, removed, content, torn, read, accepted, deferred>>
      /\ KeepsNothing' = KeepsNothing
  BY DEF CloseStream, given, KeepsNothing
<1>2. /\ pc = "close" /\ (content = "new" \/ KeepsNothing) /\ code = "none" /\ ~removed
      /\ ~torn /\ ~cosClosed /\ accepted = read
      /\ inputKind = "file" => read = size \/ output = "alias"
  BY DEF CloseStream, IInv, OpenedFirst, NothingAmiss, AllRead
<1>3. cosClosed' = TRUE /\ ended' \in BOOLEAN /\ emitted' \in 0 .. accepted
  BY CloseEffect DEF CloseStream
<1>4. \/ CloseCos /\ pc' = "remove" /\ code' = "none"
      \/ CloseCos /\ pc' = "return" /\ code' = "0"
      \/ pc' = "return" /\ code' = "error"
  BY <1>2 DEF CloseStream, ReturnWith
<1>5. TypeOK'
  BY <1>1, <1>3, <1>4 DEF given, IInv, TypeOK
<1>6. CASE CloseCos
  <2>1. ended' /\ emitted' = accepted
    BY <1>2, <1>6, CloseEffect
  <2>2. inputKind = "file" => Kept'
    BY <1>1, <1>2, <2>1 DEF Kept, Complete, given
  <2> QED
    BY <1>1, <1>2, <1>3, <1>4, <1>5, <2>2
    DEF given, IInv, OpenedFirst, NothingAmiss, EmptiedByAlias, AllRead,
        ClosedMeansComplete, RemovedLast
<1>7. CASE ~CloseCos
  BY <1>1, <1>2, <1>3, <1>4, <1>5, <1>7
  DEF given, IInv, OpenedFirst, NothingAmiss, EmptiedByAlias, AllRead, ClosedMeansComplete,
      RemovedLast
<1> QED
  BY <1>6, <1>7

LEMMA RemoveIInv == IInv /\ Remove => IInv'
<1> SUFFICES ASSUME IInv, Remove PROVE IInv'
  OBVIOUS
<1>1. UNCHANGED <<given, emptied, outVars, read, accepted, cosClosed, deferred>>
  BY DEF Remove
<1>2. /\ pc = "remove" /\ pc' = "return" /\ code' = "0" /\ inputKind \in {"file", "pipe"}
      /\ inputKind = "file" => Kept /\ cosClosed
  BY FileCompressAssumption
  DEF Remove, ReturnWith, IInv, TypeOK, ClosedMeansComplete
<1>3. removed' \in BOOLEAN /\ (inputKind = "pipe" => removed' = FALSE)
  BY DEF Remove
<1>4. TypeOK'
  BY <1>1, <1>2, <1>3 DEF given, outVars, IInv, TypeOK
<1>5. inputKind = "file" => Kept' /\ cosClosed'
  BY <1>1, <1>2 DEF Kept, Complete, KeepsNothing, given, outVars
<1> QED
  BY <1>1, <1>2, <1>3, <1>4, <1>5
  DEF given, outVars, IInv, OpenedFirst, NothingAmiss, EmptiedByAlias, AllRead,
      ClosedMeansComplete, RemovedLast

LEMMA RunDeferredIInv == IInv /\ RunDeferred => IInv'
<1> SUFFICES ASSUME IInv, RunDeferred PROVE IInv'
  OBVIOUS
<1>1. deferred' \subseteq {"output", "cos", "input"}
  BY DEF RunDeferred, IInv, TypeOK
<1>2. /\ cosClosed' \in BOOLEAN /\ ended' \in BOOLEAN /\ emitted' \in 0 .. accepted
      /\ cosClosed => UNCHANGED <<cosClosed, ended, emitted>>
  <2>1. CASE CloseCos \/ CloseFails
    BY <2>1, CloseEffect
  <2>2. CASE UNCHANGED <<cosClosed, emitted, ended>>
    BY <2>2 DEF IInv, TypeOK
  <2> QED
    BY <2>1, <2>2 DEF RunDeferred
<1>3. /\ pc = "return"
      /\ UNCHANGED <<given, emptied, removed, content, torn, pc, read, accepted, code>>
  BY DEF RunDeferred
<1>4. TypeOK'
  BY <1>1, <1>2, <1>3 DEF given, IInv, TypeOK
<1>5. Kept /\ cosClosed => Kept' /\ cosClosed'
  BY <1>2, <1>3 DEF Kept, Complete, KeepsNothing, given
<1> QED
  BY <1>3, <1>4, <1>5
  DEF given, IInv, OpenedFirst, NothingAmiss, EmptiedByAlias, AllRead,
      ClosedMeansComplete, RemovedLast

LEMMA EndIInv == IInv /\ (Return \/ Kill \/ UNCHANGED vars) => IInv'
<1> SUFFICES ASSUME IInv, Return \/ Kill \/ UNCHANGED vars PROVE IInv'
  OBVIOUS
<1>1. /\ UNCHANGED <<given, emptied, removed, outVars, read, accepted, cosClosed, deferred,
                     code>>
      /\ pc' = pc \/ pc' \in {"returned", "killed"}
  BY DEF Return, Kill, vars, given, outVars
<1>2. TypeOK'
  BY <1>1 DEF given, outVars, IInv, TypeOK
<1>3. Kept' = Kept /\ KeepsNothing' = KeepsNothing
  BY <1>1 DEF Kept, Complete, KeepsNothing, given, outVars
<1> QED
  BY <1>1, <1>2, <1>3
  DEF given, outVars, IInv, OpenedFirst, NothingAmiss, EmptiedByAlias, AllRead,
      ClosedMeansComplete, RemovedLast

-----------------------------------------------------------------------------
(* The inductive invariant holds in every state. *)
LEMMA Invariance == Spec => []IInv
<1>1. IInv /\ [Next]_vars => IInv'
  BY OpenOutputIInv, CreateStreamIInv, OpenInputIInv, CopyIInv, CloseStreamIInv, RemoveIInv,
     RunDeferredIInv, EndIInv
  DEF Next
<1> QED
  BY <1>1, InitIInv, PTL DEF Spec

(* Every variable keeps its type; in particular no more is accepted than   *)
(* was read, no more emitted than accepted, and no more read than there is. *)
THEOREM TypeCorrect == Spec => []TypeOK
<1>1. IInv => TypeOK
  BY DEF IInv
<1> QED
  BY <1>1, Invariance, PTL

(* Whatever the task is given, whatever fails and wherever it is killed:   *)
(* when the input was removed or emptied, the output is the complete       *)
(* stream, or it keeps nothing by the wish of the client, or it is another *)
(* path to the input.                                                      *)
THEOREM SourceIsKept == Spec => []SourceKept
<1>1. IInv => SourceKept
  BY DEF IInv, SourceKept, RemovedLast, ClosedMeansComplete, EmptiedByAlias, Kept
<1> QED
  BY <1>1, Invariance, PTL

(* The code 0 of the compression of a file means that its output is the    *)
(* complete stream, or one of these two.                                   *)
THEOREM ZeroMeansComplete == Spec => []FileZeroIsComplete
<1>1. IInv => FileZeroIsComplete
  BY DEF IInv, FileZeroIsComplete, ZeroIsComplete, ClosedMeansComplete, Kept
<1> QED
  BY <1>1, Invariance, PTL

-----------------------------------------------------------------------------
(* A file that is compressed and decompressed, with the faults of the two: *)
(* the inductive invariant.                                                *)

(* The compression puts on its output what the stream accepted, which was  *)
(* read before.                                                            *)
InOrder ==
  /\ size \in Nat /\ read \in 0 .. size /\ accepted \in 0 .. read
  /\ emitted \in 0 .. accepted

(* The decompression starts when the compression is over: the file that it *)
(* reads, and what its header says, do not change any more.                *)
OneAfterTheOther == dPc # "none" => pc \in {"returned", "killed"}

(* A decompression has no code until it returns, and no output before it   *)
(* has opened one, which is not the input by its own name; it never writes *)
(* more than it was asked for.                                             *)
Steps == {"input", "stream", "read", "close", "check", "remove"}
SoFar ==
  /\ dDecoded \in 0 .. D!Wanted
  /\ dPc \in Steps => dOpened
  /\ dOpened => dOutput # "same"
  /\ dPc \in Steps \cup {"none", "output"} => dCode = "none" /\ ~dRemoved
  /\ dPc \in {"none", "output"} => ~dOpened
  /\ dPc \in {"none", "output", "input", "stream"} => dDecoded = 0
  /\ dRemoved => dCode = "0"

(* The loop ends when all was read; the size was compared before the input *)
(* is removed or the code is 0.                                            *)
Checked ==
  /\ dPc \in {"close", "check", "remove"} \/ dCode = "0" => dOpened /\ dDecoded = D!Wanted
  /\ dPc = "remove" \/ dCode = "0" => ~D!WrongSize

BothInv ==
  /\ InOrder /\ OneAfterTheOther /\ SoFar /\ Checked /\ CompleteIsAccepted

-----------------------------------------------------------------------------
(* What a turn of the loop of the decompression copies is there. *)
LEMMA ChunkInRange ==
  ASSUME BothInv
  PROVE  /\ D!Wanted \in Nat /\ D!Chunk \in Nat /\ dDecoded + D!Chunk \in 0 .. D!Wanted
         /\ D!LastRead(D!Chunk) => dDecoded + D!Chunk = D!Wanted
<1>1. D!Wanted \in Nat /\ dDecoded \in 0 .. D!Wanted
  BY DEF BothInv, InOrder, SoFar, D!Wanted
<1>2. BufferSize \in Nat \ {0}
  BY FileCompressAssumption
<1> QED
  BY <1>1, <1>2 DEF D!Chunk, D!MinOf, D!LastRead

LEMMA InitBothInv == RoundTripInit => BothInv
  BY FileCompressAssumption
  DEF RoundTripInit, Init, DInit, BothInv, InOrder, OneAfterTheOther, SoFar, Steps, Checked,
      CompleteIsAccepted, D!IntactIsAccepted, D!Wanted

(* The steps of the compression keep its order. *)
LEMMA InOrderStep == InOrder /\ Next => InOrder'
<1> SUFFICES ASSUME InOrder, Next PROVE InOrder'
  OBVIOUS
<1>1. CASE Copy
  <2>1. UNCHANGED size
    BY <1>1 DEF Copy, given
  <2>2. CASE UNCHANGED <<read, accepted, emitted>>
    BY <2>1, <2>2 DEF InOrder
  <2>3. ASSUME NEW n \in Lengths, read' = read + n, Written(n) \/ WriteFails(n)
        PROVE  InOrder'
    <3>1. size \in Nat /\ read \in 0 .. size /\ n \in Nat /\ read + n \in 0 .. size
      BY LengthsInRange DEF InOrder
    <3> QED
      BY <2>1, <2>3, <3>1 DEF InOrder, Written, WriteFails
  <2> QED
    BY <1>1, <2>2, <2>3 DEF Copy
<1>2. CASE CloseStream \/ RunDeferred
  <2>1. UNCHANGED <<size, read, accepted>>
    BY <1>2 DEF CloseStream, RunDeferred, given
  <2>2. emitted' \in {emitted, accepted} \/ emitted' \in emitted .. accepted
    BY <1>2 DEF CloseStream, RunDeferred, CloseCos, CloseFails
  <2> QED
    BY <2>1, <2>2 DEF InOrder
<1>3. CASE OpenOutput \/ CreateStream \/ OpenInput \/ Remove \/ Return \/ Kill
  BY <1>3
  DEF OpenOutput, CreateStream, OpenInput, Remove, Return, Kill, given, outVars, InOrder
<1> QED
  BY <1>1, <1>2, <1>3 DEF Next

LEMMA CompressionBothInv == BothInv /\ Next /\ UNCHANGED dVars => BothInv'
<1> SUFFICES ASSUME BothInv, Next, UNCHANGED dVars PROVE BothInv'
  OBVIOUS
<1>1. InOrder'
  BY InOrderStep DEF BothInv
<1>2. pc \notin {"returned", "killed"}
  BY DEF Next, OpenOutput, CreateStream, OpenInput, Copy, CloseStream, Remove, RunDeferred,
         Return, Kill
<1>3. dPc = "none"
  BY <1>2 DEF BothInv, OneAfterTheOther
<1>4. dCode = "none" /\ ~dRemoved /\ ~dOpened /\ dDecoded = 0
  BY <1>3 DEF BothInv, SoFar
<1>5. 0 \in 0 .. D!Wanted'
  <2>1. emitted' \in Nat
    BY <1>1 DEF InOrder
  <2>2. D!Wanted' = IF dRanged' THEN emitted' \div 2 ELSE emitted'
    BY DEF D!Wanted
  <2>3. \A n \in Nat : n \div 2 \in Nat
    OBVIOUS
  <2>4. D!Wanted' = emitted' \div 2 \/ D!Wanted' = emitted'
    BY <2>2
  <2> QED
    BY <2>1, <2>3, <2>4
<1> QED
  BY <1>1, <1>3, <1>4, <1>5
  DEF dVars, dGiven, BothInv, OneAfterTheOther, SoFar, Steps, Checked, CompleteIsAccepted,
      D!IntactIsAccepted

LEMMA StartBothInv == BothInv /\ StartDecompression => BothInv'
<1> SUFFICES ASSUME BothInv, StartDecompression PROVE BothInv'
  OBVIOUS
<1>1. /\ dPc = "none" /\ dPc' = "output" /\ pc \in {"returned", "killed"}
      /\ UNCHANGED <<vars, dRemoved, dOpened, dDecoded, dCode, dFaulted>>
  BY DEF StartDecompression
<1>2. dCode = "none" /\ ~dRemoved /\ ~dOpened /\ dDecoded = 0
  BY <1>1 DEF BothInv, SoFar
<1>3. InOrder'
  BY <1>1 DEF BothInv, InOrder, vars, given, outVars
<1>4. 0 \in 0 .. D!Wanted'
  <2>1. emitted' \in Nat
    BY <1>3 DEF InOrder
  <2>2. D!Wanted' = IF dRanged' THEN emitted' \div 2 ELSE emitted'
    BY DEF D!Wanted
  <2>3. \A n \in Nat : n \div 2 \in Nat
    OBVIOUS
  <2>4. D!Wanted' = emitted' \div 2 \/ D!Wanted' = emitted'
    BY <2>2
  <2> QED
    BY <2>1, <2>3, <2>4
<1> QED
  BY <1>1, <1>2, <1>3, <1>4
  DEF vars, BothInv, OneAfterTheOther, SoFar, Steps, Checked, CompleteIsAccepted,
      D!IntactIsAccepted

-----------------------------------------------------------------------------
(* The steps of the decompression leave the compression, the options and   *)
(* so what is wanted alone.                                                *)
LEMMA DecompressionFrame ==
  ASSUME BothInv, dPc # "none", UNCHANGED vars, D!Next
  PROVE  /\ UNCHANGED <<dOverwrite, dRemove, dOutput, dOldSize, dRanged>>
         /\ InOrder' /\ OneAfterTheOther'
         /\ D!Wanted' = D!Wanted /\ D!Refused' = D!Refused /\ dAnnounced' = dAnnounced
         /\ D!HeaderSize' = D!HeaderSize /\ D!Checkable' = D!Checkable /\ dIntact' = dIntact
<1>1. UNCHANGED <<dOverwrite, dRemove, dOutput, dOldSize, dRanged>>
  BY DEF D!Next, D!OpenOutput, D!OpenInput, D!CreateStream, D!Copy, D!CloseStream, D!Check,
         D!Remove, D!Kill, D!given
<1>2. InOrder' /\ OneAfterTheOther'
  BY DEF BothInv, InOrder, OneAfterTheOther, vars, given, outVars
<1>3. dAnnounced' = dAnnounced /\ emitted' = emitted /\ dIntact' = dIntact
  BY DEF dAnnounced, dIntact, vars, given, outVars
<1> QED
  BY <1>1, <1>2, <1>3 DEF D!Wanted, D!Refused, D!Exists, D!HeaderSize, D!Checkable

LEMMA DecompressionBothInv == BothInv /\ dPc # "none" /\ UNCHANGED vars /\ D!Next => BothInv'
<1> SUFFICES ASSUME BothInv, dPc # "none", UNCHANGED vars, D!Next PROVE BothInv'
  OBVIOUS
<1> USE DecompressionFrame
<1>1. CASE D!OpenOutput
  BY <1>1
  DEF D!OpenOutput, D!Refused, D!Exists, D!ReturnWith, D!NoFault, D!FailsBy, BothInv,
      SoFar, Steps, Checked,
      CompleteIsAccepted, D!IntactIsAccepted
<1>2. CASE D!OpenInput \/ D!CreateStream \/ D!CloseStream
  BY <1>2
  DEF D!OpenInput, D!CreateStream, D!CloseStream, D!ReturnWith, D!NoFault, D!FailsBy,
      BothInv, SoFar, Steps,
      Checked, CompleteIsAccepted, D!IntactIsAccepted
<1>3. CASE D!Copy
  BY <1>3, ChunkInRange
  DEF D!Copy, D!ReturnWith, D!NoFault, D!FailsBy, BothInv, SoFar, Steps,
      Checked, CompleteIsAccepted, D!IntactIsAccepted, D!Damaged
<1>4. CASE D!Check
  <2>1. dOpened /\ dDecoded = D!Wanted /\ dPc = "check" /\ ~dRemoved /\ dCode = "none"
    BY <1>4 DEF D!Check, BothInv, SoFar, Steps, Checked
  <2>2. D!WrongSize => dAnnounced = "wrong" /\ ~dRanged
    BY <2>1 DEF D!WrongSize, D!HeaderSize, D!Wanted, dAnnounced
  <2> QED
    BY <1>4, <2>1, <2>2
    DEF D!Check, D!ReturnWith, D!NoFault, BothInv, SoFar, Steps, Checked, CompleteIsAccepted,
        D!IntactIsAccepted, D!Damaged, D!WrongSize
<1>5. CASE D!Remove
  BY <1>5
  DEF D!Remove, D!ReturnWith, D!NoFault, BothInv, SoFar, Steps, Checked, CompleteIsAccepted,
      D!IntactIsAccepted, D!Damaged, D!WrongSize
<1>6. CASE D!Kill
  BY <1>6
  DEF D!Kill, BothInv, SoFar, Steps, Checked, CompleteIsAccepted, D!IntactIsAccepted,
      D!Damaged, D!WrongSize
<1> QED
  BY <1>1, <1>2, <1>3, <1>4, <1>5, <1>6 DEF D!Next

LEMMA StutterBothInv == BothInv /\ UNCHANGED <<vars, dVars>> => BothInv'
  BY DEF BothInv, InOrder, OneAfterTheOther, SoFar, Steps, Checked, CompleteIsAccepted,
         D!IntactIsAccepted, D!Damaged, D!WrongSize, D!Wanted, D!HeaderSize, D!Refused,
         D!Exists, D!Checkable, dIntact,
         dAnnounced, vars, given, outVars, dVars, dGiven

-----------------------------------------------------------------------------
(* The inductive invariant holds in every state. *)
LEMMA BothInvariance == RoundTripSpec => []BothInv
<1>1. BothInv /\ [RoundTripNext]_<<vars, dVars>> => BothInv'
  BY CompressionBothInv, StartBothInv, DecompressionBothInv, StutterBothInv DEF RoundTripNext
<1> QED
  BY <1>1, InitBothInv, PTL DEF RoundTripSpec

(* What a failed or a killed compression of a file left behind is never    *)
(* taken for the whole file: a decompression of everything that returns 0  *)
(* wrote every unit of the original.                                       *)
THEOREM RoundTripHolds == RoundTripSpec => []RoundTrip
<1>1. BothInv => RoundTrip
  <2> SUFFICES ASSUME BothInv, dCode = "0", ~dRanged, D!Checkable, inputKind = "file"
               PROVE  dDecoded = size
    BY DEF RoundTrip
  <2>1. dDecoded = emitted /\ ~D!WrongSize /\ emitted \in Nat /\ size \in Nat
    BY DEF BothInv, Checked, D!Wanted, InOrder
  <2>2. CASE emitted = size
    BY <2>1, <2>2
  <2>3. CASE emitted # size
    <3>1. D!HeaderSize = emitted + 1
      BY <2>3 DEF D!HeaderSize, dAnnounced
    <3> QED
      BY <2>1, <3>1 DEF D!WrongSize
  <2> QED
    BY <2>2, <2>3
<1> QED
  BY <1>1, BothInvariance, PTL

(* The compressed file is removed, or written over, only after everything  *)
(* that was asked for of it is in the output, wherever the decompression   *)
(* fails or is killed - unless the output keeps nothing by the wish of the *)
(* client, or is another path to the file.                                 *)
THEOREM CompressedIsKept == RoundTripSpec => []CompressedKept
<1>1. BothInv => CompressedKept
  BY DEF BothInv, CompressedKept, D!SourceKept, D!WrittenOver, D!IsInput, D!KeepsNothing,
         D!AllDecoded, SoFar, Checked
<1> QED
  BY <1>1, BothInvariance, PTL

(* A decompression in which nothing fails refuses only an output that must *)
(* not be replaced, and a file that is not whole.                          *)
THEOREM WholeIsAccepted == RoundTripSpec => []CompleteIsAccepted
<1>1. BothInv => CompleteIsAccepted
  BY DEF BothInv
<1> QED
  BY <1>1, BothInvariance, PTL

=============================================================================
