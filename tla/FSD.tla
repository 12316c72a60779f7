-------------------------------- MODULE FSD --------------------------------
(***************************************************************************)
(* The fixed step delta codec (src/v2/transform/FSDCodec.go): every byte   *)
(* becomes its difference to the byte dist before it, as a zigzag code or  *)
(* as an exclusive or.                                                     *)
(***************************************************************************)
EXTENDS Bytes, Bitwise

CONSTANTS
  Distances,   \* the distances that are tried ({1, 2, 3, 4, 8, 16})
  MinBlock,    \* a shorter block is declined (1024)
  MinRoom      \* expansion that is allowed to a short block (64)

MaxEncodedLen(n) == n + Larger(n \div 16, MinRoom)

Middle == TopByte \div 2
EscapeToken == TopByte
Delta == 0   \* the two modes
XorMode == 1

(* _FSD_ZIGZAG1, of a difference plus Middle, and _FSD_ZIGZAG2. *)
ZigZag1(d) == IF d < Middle THEN 2 * (Middle - d) - 1 ELSE 2 * (d - Middle)
ZigZag2(v) == IF v % 2 = 0 THEN v \div 2 ELSE -((v + 1) \div 2)

(* Mutant: the greatest difference is not escaped.                         *)
SmallDeltas == 0 .. TopByte
Deltas == 0 .. TopByte - 1

RECURSIVE EncodeDeltas(_, _, _, _)
EncodeDeltas(src, dist, at, out) ==
  LET d == Middle + At(src, at) - At(src, at - dist)
  IN IF at = Len(src) THEN Done(out)
     ELSE IF Len(out) >= MaxEncodedLen(Len(src)) - 1 THEN Failed
     ELSE IF d \in Deltas
     THEN EncodeDeltas(src, dist, at + 1, Append(out, ZigZag1(d)))
     ELSE EncodeDeltas(src, dist, at + 1,
            out \o <<EscapeToken, At(src, at) ^^ At(src, at - dist)>>)

Encode(src, mode, dist) ==
  LET head == <<mode, dist>> \o Slice(src, 0, dist)
  IN IF mode = Delta THEN EncodeDeltas(src, dist, dist, head)
     ELSE Done(head \o [k \in 1 .. Len(src) - dist |-> src[dist + k] ^^ src[k]])

(* Forward.  The entropy of samples of the block decides whether to go on, *)
(* with which distance, in which mode, and in the end whether it was worth *)
(* it: any answer here.                                                    *)
Forwards(src, room) ==
  IF room < MaxEncodedLen(Len(src)) \/ Len(src) < MinBlock THEN {Failed}
  ELSE {Failed} \cup {Encode(src, m, d) : m \in {Delta, XorMode}, d \in Distances}

RECURSIVE DecodeDeltas(_, _, _, _, _)
DecodeDeltas(src, dist, room, at, out) ==
  LET before == At(out, Len(out) - dist)
  IN IF at = Len(src) THEN Done(out)
     ELSE IF Len(out) >= room THEN Failed
     ELSE IF At(src, at) # EscapeToken
     THEN DecodeDeltas(src, dist, room, at + 1,
            Append(out, (before + ZigZag2(At(src, at))) % ByteCount))
     ELSE IF at + 1 = Len(src) THEN Failed
     ELSE DecodeDeltas(src, dist, room, at + 2, Append(out, At(src, at + 1) ^^ before))

RECURSIVE DecodeXors(_, _, _, _)
DecodeXors(src, dist, at, out) ==
  IF at = Len(src) THEN out
  ELSE DecodeXors(src, dist, at + 1,
         Append(out, At(src, at) ^^ At(out, Len(out) - dist)))

(* A slice index out of range panics, which the decoding task turns into   *)
(* an error.                                                               *)
Inverse(src, room) ==
  LET mode == At(src, 0)
      dist == At(src, 1)
      first == Slice(src, 2, 2 + dist)
  IN IF dist \notin Distances \/ Len(src) < 2 + dist \/ room < dist THEN Failed
     ELSE IF mode = Delta THEN DecodeDeltas(src, dist, room, 2 + dist, first)
     ELSE IF Len(src) - 2 > room THEN Failed
     ELSE Done(DecodeXors(src, dist, 2 + dist, first))
=============================================================================
