----------------------------- MODULE RangeCoder -----------------------------
(***************************************************************************)
(* The range coder (src/v2/entropy/RangeCodec.go), without a carry: when   *)
(* the range gets too small where its ends differ, it is cut at the next   *)
(* multiple of 2 ^ BottomBits.  The numbers of the code hold bits above    *)
(* those of the range, which are never looked at: they are dropped here.   *)
(***************************************************************************)
EXTENDS Frequencies

CONSTANTS
  RangeBits,    \* bits of the range, those of _TOP_RANGE (60)
  MoveBits,     \* how many of them are written at a time (28)
  BottomBits,   \* those of _BOTTOM_RANGE (16)
  LogRange,     \* _DEFAULT_RANGE_LOG_RANGE (12)
  ChunkSize     \* _DEFAULT_RANGE_CHUNK_SIZE (32768)

Top == 2 ^ RangeBits
Bottom == 2 ^ BottomBits
High(x) == (x % Top) \div 2 ^ (RangeBits - MoveBits)

(* The loop behind every symbol, of the encoder and of the decoder: as     *)
(* long as both ends start with the same bits, or the range is too small,  *)
(* the first bits move out.  It leaves the range and how often it moved.   *)
RECURSIVE Settle(_, _, _)
Settle(low, rng, moved) ==
  LET same == High(low) = High(low + rng)
      cut == IF same THEN rng ELSE (-low) % Bottom
      left(x) == (x % 2 ^ (RangeBits - MoveBits)) * 2 ^ MoveBits
  IN IF ~same /\ rng > Bottom - 1 THEN [low |-> low, rng |-> rng, moved |-> moved]
     ELSE Settle(left(low), cut * 2 ^ MoveBits, Append(moved, High(low)))

(* The scaling of a chunk: no more than its bytes need. *)
LogOf(n) == Larger(ByteBits, Smaller(LogRange, Log2(n)))

(* updateFrequencies and encodeHeader. *)
EncodeHeader(f, lr) ==
  EncodeAlphabet(Present(f)) \o WriteBits(lr - ByteBits, 3)
  \o WriteGroups(Ascending(Present(f)), f, 1, lr)

(* encodeByte. *)
RECURSIVE EncodeBytes(_, _, _, _, _, _)
EncodeBytes(chunk, f, lr, low, rng, bits) ==
  LET s == Head(chunk)
      part == rng \div 2 ^ lr
      r == Settle((low + CumFreq(f, s) * part) % Top, part * f[s + 1], <<>>)
      moved == [i \in 1 .. MoveBits * Len(r.moved) |->
                  WriteBits(r.moved[((i - 1) \div MoveBits) + 1], MoveBits)
                           [((i - 1) % MoveBits) + 1]]
  IN IF chunk = <<>> THEN bits \o WriteBits(low, RangeBits)
     ELSE EncodeBytes(Tail(chunk), f, lr, r.low, r.rng, bits \o moved)

RECURSIVE EncodeChunks(_, _)
EncodeChunks(block, bits) ==
  LET chunk == Slice(block, 0, Smaller(ChunkSize, Len(block)))
      lr == LogOf(Len(chunk))
      all == Histogram(chunk)
      f == NormalizeFrequencies(<<>> \o [s \in 1 .. ByteCount |-> all[s - 1]], Len(chunk), 2 ^ lr)
      single == Cardinality(Present(f)) <= 1
  IN IF block = <<>> THEN bits
     ELSE EncodeChunks(Slice(block, Len(chunk), Len(block)),
                       bits \o EncodeHeader(f, lr) \o
                       IF single THEN <<>> ELSE EncodeBytes(chunk, f, lr, 0, Top - 1, <<>>))

Write(block) == Done(EncodeChunks(block, <<>>))

-----------------------------------------------------------------------------
(* decodeHeader. *)
DecodeHeader(bits, at) ==
  LET a == DecodeAlphabet(bits, at)
      lr == ByteBits + ReadBits(bits, a.at, 3)
      g == ReadGroups(bits, a.at + 3, Ascending(a.alphabet), 1, lr, None)
  IN IF a.alphabet = {} THEN [ok |-> FALSE, at |-> a.at, f |-> None, lr |-> lr]
     ELSE [ok |-> g.ok, at |-> g.at, f |-> g.f, lr |-> lr]

(* decodeByte: a code outside of the range of the symbols panics. *)
RECURSIVE DecodeBytes(_, _, _, _, _, _, _)
DecodeBytes(bits, st, f, lr, n, at, out) ==
  LET part == st.rng \div 2 ^ lr
      count == ((st.code - st.low) % Top) \div part
      s == SymbolAt(f, count)
      r == Settle((st.low + CumFreq(f, s) * part) % Top, part * f[s + 1], <<>>)
      keep == RangeBits - MoveBits
      code[k \in 0 .. Len(r.moved)] ==
        IF k = 0 THEN st.code
        ELSE (code[k - 1] % 2 ^ keep) * 2 ^ MoveBits
               + ReadBits(bits, at + (k - 1) * MoveBits, MoveBits)
      next == [low |-> r.low, rng |-> r.rng, code |-> code[Len(r.moved)]]
  IN IF n = 0 THEN Decoded(out, at)
     ELSE IF part = 0 \/ count >= 2 ^ lr THEN Invalid
     ELSE DecodeBytes(bits, next, f, lr, n - 1, at + Len(r.moved) * MoveBits, Append(out, s))

RECURSIVE DecodeChunks(_, _, _, _)
DecodeChunks(bits, at, left, out) ==
  LET n == Smaller(ChunkSize, left)
      h == DecodeHeader(bits, at)
      start == [low |-> 0, rng |-> Top - 1, code |-> ReadBits(bits, h.at, RangeBits)]
      d == DecodeBytes(bits, start, h.f, h.lr, n, h.at + RangeBits, <<>>)
  IN IF left = 0 THEN Decoded(out, at)
     ELSE IF ~h.ok THEN Invalid
     ELSE IF Cardinality(Present(h.f)) = 1
     THEN DecodeChunks(bits, h.at, left - n, out \o Times(n, Ascending(Present(h.f))))
     ELSE IF ~d.ok THEN Invalid
     ELSE DecodeChunks(bits, d.at, left - n, out \o d.out)

(* Read, of a block of n bytes. *)
Read(bits, n) == DecodeChunks(bits, 0, n, <<>>)
=============================================================================
