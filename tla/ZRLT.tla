-------------------------------- MODULE ZRLT --------------------------------
(***************************************************************************)
(* The zero run length transform (src/v2/transform/ZRLT.go): the length of *)
(* a run of zeros, plus one, is written in binary without its first digit, *)
(* one byte per digit; another byte is incremented, and the two highest    *)
(* ones take an escape byte.                                               *)
(***************************************************************************)
EXTENDS Bytes

MaxEncodedLen(n) == n

(* The first position from at on that does not hold one of the bytes. *)
After(s, at, bytes) ==
  Least({j \in at .. Len(s) : j = Len(s) \/ At(s, j) \notin bytes})

RECURSIVE Encode(_, _, _)
Encode(src, at, out) ==
  LET n == Len(src)
      end == After(src, at, {0})
      log2 == Log2(end - at + 1)
      byte == At(src, at)
  IN IF at >= n THEN Done(out)
     ELSE IF byte = 0
     THEN IF Len(out) >= n - log2 THEN Failed
          ELSE Encode(src, end, out \o Digits(end - at + 1, log2, 2))
     ELSE IF byte >= TopByte - 1
     THEN IF Len(out) >= n - 1 THEN Failed
          ELSE Encode(src, at + 1, out \o <<TopByte, byte - (TopByte - 1)>>)
     ELSE IF Len(out) >= n THEN Failed
          ELSE Encode(src, at + 1, Append(out, byte + 1))

(* Forward does not expand: a block that would grow is declined. *)
Forwards(src, room) ==
  IF room < MaxEncodedLen(Len(src)) THEN {Failed} ELSE {Encode(src, 0, <<>>)}

RECURSIVE Decode(_, _, _, _)
Decode(src, room, at, out) ==
  LET n == Len(src)
      end == After(src, at, {0, 1})
      run == Value(<<1>> \o Slice(src, at, end), 2) - 1
      zeros == out \o Times(run, <<0>>)
      escaped == At(src, end) = TopByte
      byte == IF escaped THEN (TopByte - 1 + At(src, end + 1)) % ByteCount
              ELSE At(src, end) - 1
      next == end + (IF escaped THEN 2 ELSE 1)
  IN IF end = n THEN IF run > room - Len(out) THEN Failed ELSE Done(zeros)
     ELSE IF run > 0 /\ run >= room - Len(out) THEN Failed
     ELSE IF escaped /\ end + 1 >= n THEN Done(zeros)
     ELSE IF next >= n THEN Done(Append(zeros, byte))
     ELSE IF Len(zeros) + 1 >= room THEN Failed
     ELSE Decode(src, room, next, Append(zeros, byte))

Inverse(src, room) == Decode(src, room, 0, <<>>)
=============================================================================
