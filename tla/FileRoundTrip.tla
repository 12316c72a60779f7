--------------------------- MODULE FileRoundTrip ---------------------------
(***************************************************************************)
(* A file is compressed, then what that left under the name of the output  *)
(* is decompressed: FileCompress and FileDecompress one after the other.   *)
(*                                                                         *)
(* The compression may have failed: a deferred Close may still have put    *)
(* the end mark behind the part of the data that got through, also after a *)
(* Write that failed, and if no block is torn nothing but the size in the  *)
(* header (written first, from the size of the input file) tells this file *)
(* from a whole one.                                                       *)
(***************************************************************************)
EXTENDS FileCompress

CONSTANTS
  OldSizes,           \* the sizes of a file that the decompression finds
  DOutputs, DFaults   \* Outputs and Faults of the decompression

VARIABLES
  \* The variables of FileDecompress
  dOverwrite, dRemove, dOutput, dOldSize, dRanged, dRemoved, dOpened, dDecoded,
  dPc, dCode, dFaulted

(* What the header of the compressed file says of its content. *)
dAnnounced ==
  IF inputKind = "pipe" THEN "none" ELSE IF emitted = size THEN "exact" ELSE "wrong"

(* Whether it is whole: no block is torn, and the end mark is there. *)
dIntact == ended /\ ~torn

D == INSTANCE FileDecompress WITH
       Outputs <- DOutputs, Faults <- DFaults, Announced <- {"exact", "none", "wrong"},
       overwrite <- dOverwrite, remove <- dRemove, output <- dOutput,
       oldSize <- dOldSize, size <- emitted, announced <- dAnnounced,
       intact <- dIntact, ranged <- dRanged, removed <- dRemoved, opened <- dOpened,
       decoded <- dDecoded, pc <- dPc, code <- dCode, faulted <- dFaulted

ASSUME FileRoundTripAssumption ==
  OldSizes \subseteq Nat \ {0} /\ DOutputs \subseteq D!OutputKinds
                               /\ DFaults \subseteq D!FaultKinds

dGiven == <<dOverwrite, dRemove, dOutput, dOldSize, dRanged>>
dVars == <<dGiven, dRemoved, dOpened, dDecoded, dPc, dCode, dFaulted>>

(* The decompression is not there yet. *)
DInit ==
  /\ dOverwrite = FALSE /\ dRemove = FALSE /\ dOutput = "absent" /\ dOldSize = 0
  /\ dRanged = FALSE /\ dRemoved = FALSE /\ dOpened = FALSE /\ dDecoded = 0
  /\ dPc = "none" /\ dCode = "none" /\ dFaulted = FALSE

(* What the compression left is decompressed, with any options - whole or  *)
(* not, and whatever code it returned.                                     *)
StartDecompression ==
  /\ pc \in {"returned", "killed"} /\ content = "new" /\ dPc = "none" /\ dPc' = "output"
  /\ dOverwrite' \in BOOLEAN /\ dRemove' \in BOOLEAN /\ dRanged' \in BOOLEAN
  /\ dOutput' \in DOutputs
  /\ dOldSize' \in (IF D!HasOldSize(dOutput') THEN OldSizes ELSE {0})
  /\ UNCHANGED <<vars, dRemoved, dOpened, dDecoded, dCode, dFaulted>>

RoundTripInit == Init /\ DInit

RoundTripNext ==
  \/ Next /\ UNCHANGED dVars
  \/ StartDecompression
  \/ dPc # "none" /\ UNCHANGED vars /\ D!Next

RoundTripSpec == RoundTripInit /\ [][RoundTripNext]_<<vars, dVars>>

-----------------------------------------------------------------------------
(* The data of the compressed file are lost only if the client asks to     *)
(* keep nothing or names another path to it as the output: otherwise it is *)
(* removed, or written over, only when everything that was asked for of it *)
(* is in the output, wherever the decompression fails or is killed.        *)
CompressedKept == D!SourceKept

(* Nothing that is whole is refused by the decompression.                  *)
CompleteIsAccepted == D!IntactIsAccepted

(* What a failed compression of a file left behind is never taken for the  *)
(* whole file: a decompression of everything into a file returns 0 only if *)
(* it wrote every unit of the original.  (The data of a pipe have no size  *)
(* in the header, and a part of them passes for the whole; so does a part  *)
(* of a file for an output whose size is not checked.)                     *)
RoundTrip ==
  dCode = "0" /\ ~dRanged /\ D!Checkable /\ inputKind = "file" => dDecoded = size

=============================================================================
