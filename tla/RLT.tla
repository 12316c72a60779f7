-------------------------------- MODULE RLT --------------------------------
(***************************************************************************)
(* The run length transform (src/v2/transform/RLT.go): a run of more than  *)
(* RunThreshold equal bytes becomes the byte, the escape symbol and a code *)
(* of one, two or three bytes; the escape symbol itself becomes two bytes. *)
(***************************************************************************)
EXTENDS Bytes

CONSTANTS
  EncodeOne,      \* run lengths below it take one byte (224)
  RunThreshold,   \* a shorter run is copied (3)
  MinBlock,       \* a shorter block is declined (16)
  DefaultEscape,  \* the escape symbol when it is not searched for (0xFB)
  ShortBlock, Slack  \* room for Slack more bytes up to a ShortBlock (512, 32)

EncodeTwo == (TopByte - EncodeOne) * ByteCount
MaxRun == (ByteCount * ByteCount - 1) + EncodeTwo + RunThreshold - 1
MaxRun4 == MaxRun - 4

MaxEncodedLen(n) == IF n <= ShortBlock THEN n + Slack ELSE n

(* The code of a run. *)
EmitRunLength(run) ==
  LET r == run - RunThreshold
      low(v) == v % ByteCount
      high(v) == v \div ByteCount
  IN IF r < EncodeOne THEN <<r>>
     ELSE IF r < EncodeTwo
     THEN <<EncodeOne + high(r - EncodeOne), low(r - EncodeOne)>>
     ELSE <<TopByte, low(high(r - EncodeTwo)), low(r - EncodeTwo)>>

(* An escape symbol of the block is quoted.                                *)
(* Mutant: it is not.                                                      *)
QuoteNothing(c, escape) == <<c>>
Quote(c, escape) == IF c = escape THEN <<c, 0>> ELSE <<c>>

(* The escape symbol: the default one with a fast entropy coder, else the  *)
(* first of the rarest symbols.                                            *)
Escapes(src) ==
  LET freqs == Histogram(src)
      rarest == {s \in Byte : \A t \in Byte : freqs[s] <= freqs[t]}
  IN {DefaultEscape, Least(rarest)}

(* The run of the byte before at goes on: four bytes are compared at once, *)
(* then three one by one; a run is cut near the longest one and near the   *)
(* end of the block.                                                       *)
RECURSIVE Grow(_, _, _)
Grow(src, at, run) ==
  LET k == Greatest({j \in 0 .. 4 : at + j <= Len(src)
                       /\ \A x \in 0 .. j - 1 : At(src, at + x) = At(src, at - 1)})
  IN IF k >= 3 /\ run + k < MaxRun4 /\ at + k < Len(src) - 4
     THEN Grow(src, at + k, run + k)
     ELSE [at |-> at + k, run |-> run + k]

(* The bytes behind the last run, as long as there is room. *)
RECURSIVE CopyRest(_, _, _, _, _)
CopyRest(src, escape, room, at, out) ==
  IF at >= Len(src) \/ Len(out) >= room THEN [at |-> at, out |-> out]
  ELSE IF At(src, at) = escape /\ Len(out) + 2 >= room THEN [at |-> at, out |-> out]
  ELSE CopyRest(src, escape, room, at + 1, out \o Quote(At(src, at), escape))

(* The last byte the loop took out of a run, which is written only if      *)
(* there is room for it, and the rest.                                     *)
Finish(src, escape, room, at, out) ==
  LET last == Quote(At(src, at - 1), escape)
      r == CopyRest(src, escape, room, at,
                    IF Len(out) + Len(last) < room THEN out \o last ELSE out)
  IN IF r.at # Len(src) \/ Len(r.out) >= r.at THEN Failed ELSE Done(r.out)

RECURSIVE Encode(_, _, _, _, _, _)
Encode(src, escape, room, at, run, out) ==
  LET byte == Quote(At(src, at - 1), escape)
      g == Grow(src, at, run)
      long == g.run > RunThreshold
      fits == IF long THEN Len(out) + 6 < room
              ELSE Len(out) + g.run * Len(byte) < room
      next == out \o IF long THEN byte \o <<escape>> \o EmitRunLength(g.run)
                     ELSE Times(g.run, byte)
  IN IF ~fits THEN Failed
     ELSE IF g.at + 1 >= Len(src) - 4 THEN Finish(src, escape, room, g.at + 1, next)
     ELSE Encode(src, escape, room, g.at + 1, 1, next)

(* Forward, into a buffer of room bytes.  The type of the data, known from *)
(* earlier or found here, may rule the transform out.                      *)
Forwards(src, room) ==
  IF Len(src) < MinBlock \/ room < MaxEncodedLen(Len(src)) THEN {Failed}
  ELSE {Failed} \cup {Encode(src, e, room, 1, 0, <<e>> \o Quote(At(src, 0), e)) :
                        e \in Escapes(src)}

RECURSIVE Decode(_, _, _, _, _)
Decode(src, escape, room, at, out) ==
  LET left == Len(src) - at
      run == At(src, at + 1)
      width == IF run = TopByte THEN 3 ELSE IF run >= EncodeOne THEN 2 ELSE 1
      length == (RunThreshold - 1) +
        CASE width = 3 -> At(src, at + 2) * ByteCount + At(src, at + 3) + EncodeTwo
          [] width = 2 -> (run - EncodeOne) * ByteCount + At(src, at + 2) + EncodeOne
          [] OTHER -> run
      literal == At(src, at) # escape \/ run = 0
  IN IF left <= 0 THEN IF left = 0 THEN Done(out) ELSE Failed
     ELSE IF At(src, at) = escape /\ left < 2 THEN Failed
     ELSE IF literal
     THEN IF Len(out) >= room THEN Failed
          ELSE Decode(src, escape, room,
                      at + Len(Quote(At(src, at), escape)), Append(out, At(src, at)))
     ELSE IF left <= width \/ length > MaxRun \/ Len(out) + length >= room THEN Failed
     ELSE Decode(src, escape, room, at + 1 + width,
                 out \o Times(length, <<out[Len(out)]>>))

(* Inverse, into a buffer of room bytes.  The first byte is the escape     *)
(* symbol; the data cannot start with a run.                               *)
Inverse(src, room) ==
  LET escape == At(src, 0)
  IN IF At(src, 1) # escape THEN Decode(src, escape, room, 1, <<>>)
     ELSE IF Len(src) > 2 /\ At(src, 2) # 0 THEN Failed
     ELSE Decode(src, escape, room, 3, <<escape>>)
=============================================================================
