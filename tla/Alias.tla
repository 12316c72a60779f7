------------------------------- MODULE Alias -------------------------------
(***************************************************************************)
(* The alias codec (src/v2/transform/AliasCodec.go): with few symbols,     *)
(* several are packed into a byte; otherwise the bytes that do not occur   *)
(* stand for the most frequent pairs.                                      *)
(***************************************************************************)
EXTENDS Bytes

CONSTANTS
  MinBlock,      \* a shorter block is declined (1024)
  MinFree,       \* bytes that must be free (16)
  MinSavings,    \* a fraction 1/MinSavings of the block must be saved (20)
  ExtraRoom,     \* room for the header (1024)
  SizeBytes,     \* bytes of a size (4)
  ShortHistogram \* blocks whose pairs are counted in one scan (32)

MaxEncodedLen(n) == n + ExtraRoom

(* Up to Few symbols, four fit in a byte; up to Some, two. *)
Few == 2 ^ (ByteBits \div 4)
Some == 2 ^ (ByteBits \div 2)

LittleEndian(v) == [i \in 1 .. SizeBytes |-> (v \div ByteCount ^ (i - 1)) % ByteCount]
FromLittleEndian(s) == Value([i \in 1 .. SizeBytes |-> s[SizeBytes + 1 - i]], ByteCount)

(* Small alphabet: the symbols, the first bytes that do not fill a group,  *)
(* and groups of per symbols.                                              *)
Pack(src, symbols, per) ==
  LET base == IF per = 4 THEN Few ELSE Some
      odd == Len(src) % per
      digit(c) == (CHOOSE k \in 1 .. Len(symbols) : symbols[k] = c) - 1
  IN symbols \o <<odd>> \o Slice(src, 0, odd) \o
     [g \in 1 .. (Len(src) - odd) \div per |->
        Value([k \in 1 .. per |-> digit(src[odd + (g - 1) * per + k])], base)]

PackSmall(src, present) ==
  LET free == ByteCount - Cardinality(present)
  IN <<free>> \o
     IF Cardinality(present) = 1 THEN <<At(src, 0)>> \o LittleEndian(Len(src))
     ELSE Pack(src, Ascending(present), IF Cardinality(present) <= Few THEN 4 ELSE 2)

(* Digrams: the pairs by decreasing frequency, equal ones by decreasing    *)
(* value.                                                                  *)
Sorted(freqs) ==
  LET value(p) == p[1] * ByteCount + p[2]
      before(p) == {q \in DOMAIN freqs : freqs[q] > freqs[p]
                      \/ (freqs[q] = freqs[p] /\ value(q) > value(p))}
  IN [k \in 1 .. Cardinality(DOMAIN freqs) |->
        CHOOSE p \in DOMAIN freqs : Cardinality(before(p)) = k - 1]

RECURSIVE Replace(_, _, _, _)
Replace(src, alias, at, out) ==
  LET pair == <<At(src, at), At(src, at + 1)>>
  IN IF at >= Len(src) - 1 THEN [at |-> at, out |-> out]
     ELSE IF pair \in DOMAIN alias THEN Replace(src, alias, at + 2, Append(out, alias[pair]))
     ELSE Replace(src, alias, at + 1, Append(out, pair[1]))

EncodeDigrams(src, absent) ==
  LET freqs == Histogram1(src, ShortHistogram)
      pairs == Sorted(freqs)
      n == Smaller(Cardinality(absent), Len(pairs))
      free == Ascending(absent)
      alias == [p \in {pairs[k] : k \in 1 .. n} |->
                  free[CHOOSE k \in 1 .. n : pairs[k] = p]]
      savings[k \in 0 .. n] == IF k = 0 THEN 0 ELSE savings[k - 1] + freqs[pairs[k]]
      entry(k) == <<pairs[k][1], pairs[k][2], free[k]>>
      map == [i \in 1 .. 3 * n |-> entry(((i - 1) \div 3) + 1)[((i - 1) % 3) + 1]]
      body == Replace(src, alias, 0, <<>>)
      rest == Slice(src, body.at, Len(src))
  IN IF n < MinFree \/ savings[n] * MinSavings < Len(src) THEN Failed
     ELSE Done(<<n, Len(rest)>> \o map \o body.out \o rest)

(* Forward.  The type of the data may rule the codec out. *)
Forwards(src, room) ==
  LET present == {src[i] : i \in 1 .. Len(src)}
      absent == Byte \ present
      small == Cardinality(absent) >= ByteCount - Some
      r == IF small THEN Done(PackSmall(src, present)) ELSE EncodeDigrams(src, absent)
  IN IF room < MaxEncodedLen(Len(src)) \/ Len(src) < MinBlock THEN {Failed}
     ELSE {Failed} \cup
          IF Cardinality(absent) < MinFree \/ Len(r.out) >= Len(src) THEN {} ELSE {r}

Unpack(src, n, room) ==
  LET symbols == Slice(src, 1, 1 + n)
      per == IF n <= Few THEN 4 ELSE 2
      base == IF n <= Few THEN Few ELSE Some
      adjust == At(src, 1 + n)
      odd == IF per = 4 THEN adjust ELSE IF adjust # 0 THEN 1 ELSE 0
      groups == Slice(src, 2 + n + odd, Len(src))
      symbol(i) == LET g == Digits(groups[((i - 1) \div per) + 1], per, base)
                   IN symbols[g[((i - 1) % per) + 1] + 1]
  IN IF adjust > 3 \/ odd + per * Len(groups) > room THEN Failed
     ELSE Done(Slice(src, 2 + n, 2 + n + odd)
               \o [i \in 1 .. per * Len(groups) |-> symbol(i)])

(* A single byte writes two places and moves by one: it needs both. *)
RECURSIVE Expand(_, _, _, _, _, _)
Expand(src, map, room, at, end, out) ==
  IF at >= end THEN Done(out)
  ELSE IF Len(out) + 2 > room THEN Failed
  ELSE Expand(src, map, room, at + 1, end, out \o map[At(src, at)])

Inverse(src, room) ==
  LET n == At(src, 0)
      one == FromLittleEndian(Slice(src, 2, 2 + SizeBytes))
      start == 2 + 3 * n
      end == Len(src) - At(src, 1)
      key(k) == At(src, 2 + 3 * k + 2)
      map == [b \in Byte |->
                LET at == {k \in 0 .. n - 1 : key(k) = b}
                IN IF at = {} THEN <<b>>
                   ELSE <<At(src, 2 + 3 * Greatest(at)), At(src, 3 + 3 * Greatest(at))>>]
      r == Expand(src, map, room, start, end, <<>>)
  IN IF Len(src) < 2 \/ n < MinFree THEN Failed
     ELSE IF n = TopByte
     THEN IF one > room THEN Failed ELSE Done(Times(one, <<At(src, 1)>>))
     ELSE IF n >= ByteCount - Some THEN Unpack(src, ByteCount - n, room)
     ELSE IF ~r.ok \/ (At(src, 1) # 0 /\ Len(r.out) >= room) THEN Failed
     ELSE Done(r.out \o Slice(src, end, end + (IF At(src, 1) # 0 THEN 1 ELSE 0)))
=============================================================================
