-------------------------------- MODULE UTF --------------------------------
(***************************************************************************)
(* The UTF codec (src/v2/transform/UTFCodec.go): the symbols of a UTF-8    *)
(* text are replaced by their ranks in the order of their frequencies.     *)
(* The bytes that start and end a block cut out of a text may belong to no *)
(* symbol; they are copied.                                                *)
(***************************************************************************)
EXTENDS Bytes

LOCAL Seqs == INSTANCE SequencesExt

CONSTANTS
  Never,      \* lead bytes no text has (0xC0, 0xC1, from 0xF5)
  Mark,       \* the byte order mark (0xEF, 0xBB, 0xBF)
  MinBlock,   \* a shorter block is declined (1024)
  TagShift,   \* bits of a packed symbol below those of its size (19)
  ExtraRoom   \* room for the map (8192)

MaxEncodedLen(n) == n + ExtraRoom

(* The bytes of a text by their first bits: 0, one byte; 10, a following   *)
(* byte; 110, 1110 and 1111, symbols of two, three and four bytes.         *)
Half == ByteCount \div 2
Following == Half .. Half + Half \div 2 - 1
Lead3 == ByteCount - Half \div 4   \* 0xE0
Lead4 == ByteCount - Half \div 8   \* 0xF0
Size(b) ==
  IF b < Half THEN 1
  ELSE IF b \in Following \cup Never THEN 0
  ELSE IF b < Lead3 THEN 2
  ELSE IF b < Lead4 THEN 3 ELSE 4

(* packUTF: 22 bits, the first of which tell the size; the bytes of the    *)
(* longer symbols lose the bits that every text has in them.               *)
Payload == Half \div 2
Tag(size) == (CASE size = 1 -> 0 [] size = 2 -> 1 [] size = 3 -> 2 [] size = 4 -> 4) * 2 ^ TagShift
LeadValues(size) == IF size = 3 THEN Lead4 - Lead3 ELSE Larger(1, Half \div 16)
PackUTF(s, i) ==
  LET size == Size(At(s, i))
      low(k) == At(s, i + k) % Payload
      value == CASE size <= 1 -> At(s, i)
                 [] size = 2 -> At(s, i) * ByteCount + At(s, i + 1)
                 [] OTHER -> (At(s, i) % LeadValues(size)) * Payload ^ (size - 1)
                             + Value([k \in 1 .. size - 1 |-> low(k)], Payload)
  IN [size |-> size, value |-> IF size = 0 THEN 0 ELSE Tag(size) + value]

(* unpackUTF1. *)
UnpackUTF(v) ==
  LET tag == v \div 2 ^ TagShift
      long(size) ==
        LET lead == IF size = 3 THEN Lead3 ELSE Lead4
            digits == Digits(v, size, Payload)
        IN <<lead + (digits[1] % LeadValues(size))>> \o
           [k \in 1 .. size - 1 |-> Half + digits[k + 1]]
  IN CASE tag = 0 -> <<v % ByteCount>>
       [] tag = 1 -> <<(v \div ByteCount) % ByteCount, v % ByteCount>>
       [] tag = 2 -> long(3)
       [] tag \in 4 .. 7 -> long(4)
       [] OTHER -> <<>>

(* validateUTF: no byte outside of the text, a following byte behind every *)
(* lead, and one in eight bytes at least.                                  *)
Valid(s) ==
  LET following == {i \in 1 .. Len(s) : s[i] \in Following}
  IN /\ \A i \in 1 .. Len(s) : s[i] \notin Never
     /\ \A i \in 1 .. Len(s) - 1 : Size(s[i]) > 1 => i + 1 \in following
     /\ Cardinality(following) >= Len(s) \div 8

(* Up to four bytes are skipped. *)
StartOf(s) ==
  IF Slice(s, 1, 4) = Mark THEN 3   \* & 0x00FFFFFF: whatever comes first
  ELSE Least({i \in 0 .. 4 : i = 4 \/ Size(At(s, i)) # 0})

(* The symbols from i to the last but four bytes; the third and the fourth *)
(* byte of a symbol are verified.                                          *)
RECURSIVE Symbols(_, _, _)
Symbols(s, i, found) ==
  LET p == PackUTF(s, i)
      valid == p.size # 0 /\ \A k \in 2 .. p.size - 1 : At(s, i + k) \in Following
  IN IF i >= Len(s) - 4 THEN [ok |-> TRUE, end |-> i, values |-> found]
     ELSE IF ~valid THEN [ok |-> FALSE, end |-> i, values |-> found]
     ELSE Symbols(s, i + p.size, Append(found, p.value))

(* The values by decreasing frequency, then value. *)
Ranked(values) ==
  LET present == {values[i] : i \in DOMAIN values}
      freq == Table([v \in present |-> Cardinality({i \in DOMAIN values : values[i] = v})])
      before(v) == {w \in present : freq[w] > freq[v] \/ (freq[w] = freq[v] /\ w > v)}
  IN [k \in 1 .. Cardinality(present) |->
        CHOOSE v \in present : Cardinality(before(v)) = k - 1]

(* The code of a rank: one byte, or its low bits and the others. *)
Code(rank) ==
  IF rank < Half THEN <<rank>> ELSE <<Half + (rank % Half), rank \div Half>>

(* What Forward writes: the numbers of bytes that are copied at the start  *)
(* and (the rest of) the end, the map, and the aliases of the symbols.     *)
Map(ranked) == Seqs!FlattenSeq([k \in DOMAIN ranked |-> Digits(ranked[k], 3, ByteCount)])
Aliases(values, ranked) ==
  LET rank == Table([v \in {ranked[k] : k \in DOMAIN ranked} |->
                       (CHOOSE k \in DOMAIN ranked : ranked[k] = v) - 1])
  IN Seqs!FlattenSeq([k \in DOMAIN values |-> Code(rank[values[k]])])
Output(src, start, end, ranked, codes) ==
  <<start, end - (Len(src) - 4), Len(ranked) \div ByteCount, Len(ranked) % ByteCount>>
    \o Map(ranked) \o Slice(src, 0, start) \o codes \o Slice(src, end, Len(src))

(* The map is not in the estimate: with many symbols of four bytes, what is *)
(* written may exceed the room, and the index is out of range.             *)
Outcome(out, room, most) == IF Len(out) <= room /\ Len(out) >= most THEN Failed ELSE Done(out)
Encode(src, room, start, end, ranked, codes, most) ==
  IF Len(ranked) = 0 \/ Len(codes) + 10 >= most THEN Failed
  ELSE Outcome(Output(src, start, end, ranked, codes), room, most)
EncodeSymbols(src, room, start, symbols, ranked, most) ==
  IF ~symbols.ok \/ Len(ranked) >= ByteCount * Half \/ 3 * Len(ranked) + 6 >= most THEN Failed
  ELSE Encode(src, room, start, symbols.end, ranked, Aliases(symbols.values, ranked), most)
ForwardFrom(src, room, start, symbols) ==
  IF ~Valid(Slice(src, start, Len(src) - 4)) THEN Failed
  ELSE EncodeSymbols(src, room, start, symbols, Ranked(symbols.values), Len(src) - Len(src) \div 10)

Forward(src, room) ==
  LET start == StartOf(src)
  IN IF Len(src) < MinBlock \/ room < MaxEncodedLen(Len(src)) THEN Failed
     ELSE ForwardFrom(src, room, start, Symbols(src, start, <<>>))

(* The symbols of the aliases from i on, while there is room for four more *)
(* bytes; an alias without a symbol stands for nothing.                    *)
RECURSIVE Decode(_, _, _, _, _)
Decode(src, map, i, end, out) ==
  LET long == At(src, i) >= Half
      rank == IF long THEN At(src, i + 1) * Half + (At(src, i) % Half) ELSE At(src, i)
      symbol == IF rank \in DOMAIN map THEN map[rank] ELSE <<>>
  IN IF i >= end.src \/ Len(out) >= end.dst THEN [ok |-> TRUE, at |-> i, out |-> out]
     ELSE IF long /\ i + 1 >= Len(src) THEN [ok |-> FALSE, at |-> i, out |-> out]
     ELSE Decode(src, map, i + (IF long THEN 2 ELSE 1), end, out \o symbol)

Inverse(src, room) ==
  LET n == Len(src)
      start == At(src, 0) % 4
      adjust == At(src, 1) % 4
      size == At(src, 2) * ByteCount + At(src, 3)
      map == Table([k \in 0 .. size - 1 |->
                      UnpackUTF(Value(Slice(src, 4 + 3 * k, 7 + 3 * k), ByteCount))])
      first == 4 + 3 * size + start
      end == [src |-> n - 4 + adjust, dst |-> room - 4]
      d == Decode(src, map, first, end, Slice(src, first - start, first))
  IN IF n < 4 THEN Failed
     ELSE IF size = 0 \/ size >= ByteCount * Half \/ 3 * size >= n \/ first > n THEN Failed
     ELSE IF room < 4 \/ \E k \in DOMAIN map : map[k] = <<>> THEN Failed
     ELSE IF ~d.ok \/ d.at # end.src \/ Len(d.out) >= room - 8 + adjust THEN Failed
     ELSE Done(d.out \o Slice(src, d.at, n))

(* The codec declines when an earlier transform has found data of another  *)
(* type.                                                                   *)
Forwards(src, room) == {Forward(src, room), Failed}
=============================================================================
