-------------------------------- MODULE LZP --------------------------------
(***************************************************************************)
(* The Lempel-Ziv prediction codec (LZPCodec of LZCodec.go): the last      *)
(* position behind the same four bytes predicts what follows; a long match *)
(* with it becomes a flag and a length.  Both sides keep the same table.   *)
(***************************************************************************)
EXTENDS Bytes

CONSTANTS
  Context,     \* bytes that predict (4)
  HashSize,    \* entries of the table (2^16)
  MinMatch,    \* the shortest match (64)
  Word,        \* bytes that are compared at once (8)
  MinBlock,    \* a shorter block is declined (128)
  SavedShift,  \* a fraction of 2^-SavedShift must be saved (6)
  ShortBlock, Slack \* room for Slack more bytes up to a ShortBlock (1024, 16)

MaxEncodedLen(n) == IF n <= ShortBlock THEN n + Slack ELSE n + n \div 64

MatchFlag == TopByte - 3
Literal == TopByte        \* behind the flag: the byte itself
Longer == TopByte - 1     \* as many more bytes, and another length

FindMatch(src, a, b, most) ==
  LET whole == Word * (most \div Word)
  IN Least({k \in 0 .. whole : k = whole \/ At(src, a + k) # At(src, b + k)})

(* The entry of the context in front of at; the position 0 stands for none. *)
Hash(s, at) == Value(Slice(s, at - Context, at), ByteCount) % HashSize
Entry(hashes, h) == IF h \in DOMAIN hashes THEN hashes[h] ELSE 0

RECURSIVE EmitLength(_)
EmitLength(n) == IF n >= Longer THEN <<Longer>> \o EmitLength(n - Longer) ELSE <<n>>

(* Matches are searched as long as one of the shortest length fits behind  *)
(* at; what is written must stay below dstEnd.                             *)
RECURSIVE Encode(_, _, _, _)
Encode(src, at, hashes, out) ==
  LET n == Len(src)
      dstEnd == n - n \div 2 ^ SavedShift
      h == Hash(src, at)
      ref == Entry(hashes, h)
      entered == (h :> at) @@ hashes
      length == IF ref # 0 /\ at < n - MinMatch THEN FindMatch(src, at, ref, n - at) ELSE 0
      byte == At(src, at)
      quoted == IF ref # 0 /\ byte = MatchFlag THEN <<byte, Literal>> ELSE <<byte>>
  IN IF Len(out) >= dstEnd THEN Failed
     ELSE IF at = n THEN Done(out)
     ELSE IF length < MinMatch THEN Encode(src, at + 1, entered, out \o quoted)
     ELSE Encode(src, at + length, entered,
                 Append(out, MatchFlag) \o EmitLength(length - MinMatch))

Forwards(src, room) ==
  {IF room < MaxEncodedLen(Len(src)) \/ Len(src) < MinBlock THEN Failed
   ELSE Encode(src, Context, <<>>, Slice(src, 0, Context))}

RECURSIVE CopyMatch(_, _, _)
CopyMatch(out, ref, n) ==
  IF n = 0 THEN out ELSE CopyMatch(Append(out, At(out, ref)), ref + 1, n - 1)

(* The first byte from at on that is not Longer. *)
LengthEnd(src, at) == Least({k \in at .. Len(src) : k = Len(src) \/ At(src, k) # Longer})

RECURSIVE Decode(_, _, _, _, _)
Decode(src, room, at, hashes, out) ==
  LET h == Hash(out, Len(out))
      ref == Entry(hashes, h)
      entered == (h :> Len(out)) @@ hashes
      end == LengthEnd(src, at + 1)
      length == MinMatch + Longer * (end - at - 1) + At(src, end)
  IN IF Len(out) > room THEN Failed
     ELSE IF at = Len(src) THEN Done(out)
     ELSE IF ref = 0 \/ At(src, at) # MatchFlag
     THEN Decode(src, room, at + 1, entered, Append(out, At(src, at)))
     ELSE IF at + 1 < Len(src) /\ At(src, at + 1) = Literal
     THEN Decode(src, room, at + 2, entered, Append(out, MatchFlag))
     ELSE IF end = Len(src) THEN Failed
     ELSE Decode(src, room, end + 1, entered, CopyMatch(out, ref, length))

(* The writes beyond the buffer end in a panic of the decoding task. *)
Inverse(src, room) ==
  IF Len(src) < Context \/ room < Context THEN Failed
  ELSE Decode(src, room, Context, <<>>, Slice(src, 0, Context))
=============================================================================
