-------------------------------- MODULE SRT --------------------------------
(***************************************************************************)
(* The sorted ranks transform (src/v2/transform/SRT.go): a move to front   *)
(* whose ranks are written symbol by symbol, behind a header with the      *)
(* frequency of every symbol.                                              *)
(***************************************************************************)
EXTENDS Bytes

CONSTANT HeaderGroups   \* groups of a frequency that decodeHeader reads (4)

MaxHeader == HeaderGroups * ByteCount
(* Mutant: the header is forgotten.                                        *)
MaxEncodedLenOfData(n) == n
MaxEncodedLen(n) == n + MaxHeader

(* preprocess: the symbols that occur, the most frequent first, equal ones *)
(* in their order (a Shell sort).                                          *)
Preprocess(freqs) ==
  LET present == {c \in Byte : freqs[c] > 0}
      before(c) == {d \in present : freqs[d] > freqs[c] \/ (freqs[d] = freqs[c] /\ d < c)}
  IN [k \in 1 .. Cardinality(present) |->
        CHOOSE c \in present : Cardinality(before(c)) = k - 1]

(* Where the ranks of every symbol start. *)
Buckets(symbols, freqs) ==
  LET start[k \in 1 .. Len(symbols)] ==
        IF k = 1 THEN 0 ELSE start[k - 1] + freqs[symbols[k - 1]]
  IN [c \in Byte |-> IF freqs[c] = 0 THEN 0
                     ELSE start[CHOOSE k \in 1 .. Len(symbols) : symbols[k] = c]]

(* A frequency in groups of ByteBits - 1 bits, the lowest first; the top   *)
(* bit of a byte says that another one follows.                            *)
Half == ByteCount \div 2

RECURSIVE Groups(_)
Groups(f) == IF f >= Half THEN <<Half + (f % Half)>> \o Groups(f \div Half) ELSE <<f>>

RECURSIVE EncodeHeader(_, _)
EncodeHeader(freqs, c) ==
  IF c > TopByte THEN <<>> ELSE Groups(freqs[c]) \o EncodeHeader(freqs, c + 1)

RECURSIVE GroupCount(_, _, _)
GroupCount(src, at, k) ==
  IF k = HeaderGroups \/ At(src, at + k - 1) < Half THEN k ELSE GroupCount(src, at, k + 1)

RECURSIVE DecodeHeader(_, _, _, _)
DecodeHeader(src, c, at, freqs) ==
  LET k == GroupCount(src, at, 1)
      groups == [j \in 1 .. k |-> At(src, at + k - j) % Half]
  IN IF c > TopByte THEN [freqs |-> freqs, size |-> at]
     ELSE DecodeHeader(src, c + 1, at + k, [freqs EXCEPT ![c] = Value(groups, Half)])

ToFront(r2s, r) == [j \in DOMAIN r2s |-> IF j = 0 THEN r2s[r]
                                         ELSE IF j <= r THEN r2s[j - 1] ELSE r2s[j]]

(* The symbols by their first occurrence. *)
FirstRanks(src) ==
  LET first(c) == Least({i \in 1 .. Len(src) : src[i] = c})
      seen == {src[i] : i \in 1 .. Len(src)}
      rank(c) == Cardinality({d \in seen : first(d) < first(c)})
  IN [r \in Byte |-> IF r >= Cardinality(seen) THEN 0
                     ELSE CHOOSE c \in seen : rank(c) = r]

(* One rank at a time: it goes to the next place of its symbol. *)
RECURSIVE Encode(_, _, _, _, _)
Encode(src, i, r2s, buckets, ranks) ==
  LET c == At(src, i)
      r == CHOOSE x \in Byte : r2s[x] = c /\ \A y \in 0 .. x - 1 : r2s[y] # c
  IN IF i = Len(src) THEN ranks
     ELSE Encode(src, i + 1, ToFront(r2s, r), [buckets EXCEPT ![c] = @ + 1],
                 [ranks EXCEPT ![buckets[c] + 1] = r])

Forwards(src, room) ==
  LET freqs == Histogram(src)
      buckets == Buckets(Preprocess(freqs), freqs)
  IN {IF room < MaxEncodedLen(Len(src)) THEN Failed
      ELSE Done(EncodeHeader(freqs, 0)
                \o Encode(src, 0, FirstRanks(src), buckets, [i \in 1 .. Len(src) |-> 0]))}

(* A symbol whose ranks are used up leaves the list; otherwise it goes     *)
(* back to the rank that is read.                                          *)
RECURSIVE Decode(_, _, _, _, _, _)
Decode(ranks, r2s, buckets, ends, count, out) ==
  LET c == r2s[0]
      r == At(ranks, buckets[c])
      behind(k) == [j \in Byte |-> IF j < k THEN r2s[j + 1]
                                   ELSE IF j = k THEN c ELSE r2s[j]]
      shifted(k) == [j \in Byte |-> IF j < k THEN r2s[j + 1] ELSE r2s[j]]
  IN IF Len(out) = Len(ranks) THEN out
     ELSE IF buckets[c] < ends[c]
     THEN Decode(ranks, behind(r), [buckets EXCEPT ![c] = @ + 1], ends, count, Append(out, c))
     ELSE Decode(ranks, IF count = 1 THEN r2s ELSE shifted(count - 1), buckets, ends,
                 Larger(count - 1, 1), Append(out, c))

(* The first rank of every symbol is its place in the list. *)
Inverse(src, room) ==
  LET header == DecodeHeader(src, 0, 0, [c \in Byte |-> 0])
      freqs == header.freqs
      ranks == Slice(src, header.size, Len(src))
      symbols == Preprocess(freqs)
      start == Buckets(symbols, freqs)
      present == {c \in Byte : freqs[c] > 0}
      r2s == [r \in Byte |-> LET at == {c \in present : At(ranks, start[c]) = r}
                             IN IF at = {} THEN 0 ELSE CHOOSE c \in at : TRUE]
  IN IF Len(ranks) > room \/ \E c \in present : start[c] >= Len(ranks) THEN Failed
     ELSE Done(Decode(ranks, r2s,
                      [c \in Byte |-> IF c \in present THEN start[c] + 1 ELSE 0],
                      [c \in Byte |-> start[c] + freqs[c]], Len(symbols), <<>>))
=============================================================================
