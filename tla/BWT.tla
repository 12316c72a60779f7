-------------------------------- MODULE BWT --------------------------------
(***************************************************************************)
(* The Burrows-Wheeler transform (src/v2/transform/BWT.go) and the header  *)
(* of its primary indexes (BWTBlockCodec.go).  The sorting of the suffixes *)
(* (DivSufSort.go) is modelled by what it computes.  Both inversions are   *)
(* modelled: one symbol at a time for a block up to Threshold2, two at a   *)
(* time and in concurrent tasks for a larger one.                          *)
(***************************************************************************)
EXTENDS Bytes

CONSTANTS
  Chunks,       \* chunks with a primary index of their own (8)
  Threshold1,   \* a smaller block has one chunk (256)
  Threshold2,   \* a larger block is inverted two symbols at a time (4 MB)
  FastBits,     \* bits of a position that fastBits tells apart (17)
  MaxIndexSize, \* bytes of a primary index (4)
  HeaderRoom    \* _BWT_MAX_HEADER_SIZE (32)

GetBWTChunks(n) == IF n < Threshold1 THEN 1 ELSE Chunks
ChunkSize(n) == (n + GetBWTChunks(n) - 1) \div GetBWTChunks(n)

MaxEncodedLen(n) == n + HeaderRoom

(* ComputeBWT: the symbols before the sorted suffixes, that of the whole   *)
(* block at the front; the index of a chunk is the rank of its start, plus *)
(* one.                                                                    *)
ComputeBWT(src) ==
  LET n == Len(src)
      rank == SuffixRanks(src)
      start == Table([r \in 0 .. n - 1 |-> CHOOSE i \in 0 .. n - 1 : rank[i] = r])
      before(r) == At(src, start[r] - 1)
  IN [out |-> <<>> \o [k \in 1 .. n |-> IF k = 1 THEN At(src, n - 1)
                                     ELSE IF k - 2 < rank[0] THEN before(k - 2)
                                     ELSE before(k - 1)],
      indexes |-> Table([c \in 0 .. GetBWTChunks(n) - 1 |-> rank[c * ChunkSize(n)] + 1])]

(* The bytes that every primary index of a block takes. *)
IndexSize(n) ==
  LET log2 == Log2(n) + (IF 2 ^ Log2(n) = n THEN 0 ELSE 1)
  IN (log2 + ByteBits - 1) \div ByteBits

(* BWTBlockCodec.Forward: a mode byte and the indexes, highest byte first. *)
RECURSIVE EncodeIndexes(_, _, _)
EncodeIndexes(indexes, c, size) ==
  IF c \notin DOMAIN indexes THEN <<>>
  ELSE Digits(indexes[c] - 1, size, ByteCount) \o EncodeIndexes(indexes, c + 1, size)

Forwards(src, room) ==
  LET n == Len(src)
      size == IndexSize(n)
      bwt == ComputeBWT(src)
      mode == Log2(GetBWTChunks(n)) * 4 + size - 1
  IN {IF room < MaxEncodedLen(n) \/ size \notin 1 .. MaxIndexSize THEN Failed
      ELSE Done(<<mode>> \o EncodeIndexes(bwt.indexes, 0, size) \o bwt.out)}

-----------------------------------------------------------------------------
(* The row of every symbol once the rows are sorted, stably. *)
Slots(src) ==
  Table([i \in 0 .. Len(src) - 1 |->
           Cardinality({j \in 0 .. Len(src) - 1 :
                          At(src, j) < At(src, i) \/ (At(src, j) = At(src, i) /\ j < i)})])

(* inverseMergeTPSI: from the index of a chunk, a symbol and the row of    *)
(* the next one; the row at the end of the block leads nowhere.            *)
RECURSIVE Follow(_, _, _, _)
Follow(data, t, n, out) ==
  IF Len(out) = n THEN out ELSE Follow(data, data[t][1], n, Append(out, data[t][2]))

InverseMergeTPSI(src, indexes) ==
  LET n == Len(src)
      slot == Slots(src)
      position == Table([t \in 0 .. n - 1 |-> CHOOSE i \in 0 .. n - 1 : slot[i] = t])
      next(i) == IF i = 0 THEN -1 ELSE IF i < indexes[0] THEN i - 1 ELSE i
      data == Table([t \in 0 .. n - 1 |-> <<next(position[t]), At(src, position[t])>>])
      last == Len(src) - ChunkSize(n) * (GetBWTChunks(n) - 1)
      chunks[c \in 0 .. GetBWTChunks(n)] ==
        IF c = 0 THEN <<>>
        ELSE chunks[c - 1] \o Follow(data, indexes[c - 1] - 1,
                                     IF c = GetBWTChunks(n) THEN last ELSE ChunkSize(n), <<>>)
  IN IF \E c \in DOMAIN indexes : indexes[c] \notin 1 .. n THEN {Failed}
     ELSE {Done(chunks[GetBWTChunks(n)])}

(* inverseBiPSIv2.  The rows are sorted by two symbols: how many rows      *)
(* every pair has, and where they start; one row, that of the last symbol  *)
(* alone, is left out.                                                     *)
Pairs == Byte \X Byte
Number(p) == p[1] * ByteCount + p[2]

(* data, the row that follows every row by two symbols, ends, where the    *)
(* rows of every pair end, and sizes, how many they are.                   *)
SortByPairs(src, pIdx) ==
  LET n == Len(src)
      slot == Slots(src)
      first == At(src, 0)
      row(i) == IF i < pIdx THEN i ELSE i + 1
      \* The pair of a row: its symbol and the one of the row it leads to
      second(i) == LET p == slot[i] + 1 IN IF p < pIdx THEN At(src, p) ELSE At(src, p - 1)
      rows == {i \in 0 .. n - 1 : slot[i] + 1 # pIdx}
      pair == Table([i \in rows |-> <<second(i), At(src, i)>>])
      sizes == Table([p \in Pairs |-> Cardinality({i \in rows : pair[i] = p})])
      start == Table([p \in Pairs |-> 1 + (IF p[1] >= first THEN 1 ELSE 0)
                        + Cardinality({i \in rows : Number(pair[i]) < Number(p)})])
      place == Table([i \in rows |-> start[pair[i]]
                        + Cardinality({j \in rows : j < i /\ pair[j] = pair[i]})])
  IN [data |-> Table([k \in {place[i] : i \in rows} |->
                        row(CHOOSE i \in rows : place[i] = k)]),
      ends |-> Table([p \in Pairs |-> start[p] + sizes[p]]),
      sizes |-> sizes]

(* fastBits: the first pair that can be that of a row. *)
FastPair(t, p, total) ==
  LET shift == Least({x \in 0 .. 30 : total \div 2 ^ x < 2 ^ FastBits})
      near == {q \in Pairs : t.sizes[q] # 0
                 /\ (t.ends[q] - 1) \div 2 ^ shift >= p \div 2 ^ shift}
  IN CHOOSE q \in near : \A r \in near : Number(q) <= Number(r)

PairOf(t, p, total) ==
  LET from == FastPair(t, p, total)
      right == {q \in Pairs : Number(q) >= Number(from) /\ t.ends[q] > p}
  IN CHOOSE q \in right : \A r \in right : Number(q) <= Number(r)

(* inverseBiPSIv2Task on one chunk: two symbols at a time; the second of   *)
(* the last two may be the first one of the next chunk.                    *)
RECURSIVE Writes(_, _, _, _, _)
Writes(t, p, i, end, total) ==
  IF i > end THEN {}
  ELSE LET q == PairOf(t, p, total)
       IN {<<i - 1, q[1]>>, <<i, q[2]>>} \cup
          IF i + 2 > end THEN {} ELSE Writes(t, t.data[p], i + 2, end, total)

(* The tasks, each with a range of chunks, write to the same slice without *)
(* an order between them: a place that several write may hold any of their *)
(* symbols.  The last place is written when all have ended.                *)
InverseBiPSIv2(src, indexes, jobs) ==
  LET n == Len(src)
      size == ChunkSize(n)
      t == SortByPairs(src, indexes[0])
      nbTasks == Smaller(jobs, Chunks)
      share == JobsPerTask(Chunks, nbTasks)
      upTo[k \in 0 .. nbTasks] == IF k = 0 THEN 0 ELSE upTo[k - 1] + share[k]
      chunk(c) == Writes(t, indexes[c], c * size + 1, Smaller((c + 1) * size, n - 1), n)
      all == UNION {chunk(c) : c \in UNION {upTo[k - 1] .. upTo[k] - 1 : k \in 1 .. nbTasks}}
      at(i) == IF i = n - 1 THEN {At(src, 0)} ELSE {w[2] : w \in {x \in all : x[1] = i}}
      some(i) == IF at(i) = {} THEN -1 ELSE CHOOSE v \in at(i) : TRUE
      racing == {i \in 0 .. n - 1 : Cardinality(at(i)) > 1}
      out == [k \in 1 .. n |-> some(k - 1)]
  IN IF indexes[0] > n THEN {Failed}
     ELSE {Done(out)} \cup
          UNION {{Done([out EXCEPT ![i + 1] = v]) : v \in at(i)} : i \in racing}

(* BWTBlockCodec.Inverse, of the current version of the format: the set of *)
(* what the tasks may leave.                                               *)
Inverses(src, room, jobs) ==
  LET mode == At(src, 0)
      chunks == 2 ^ ((mode \div 4) % 8)
      size == (mode % 4) + 1
      headerSize == chunks * size + 1
      n == Len(src) - headerSize
      data == Slice(src, headerSize, Len(src))
      indexes == [c \in 0 .. chunks - 1 |->
                    Value(Slice(src, 1 + c * size, 1 + (c + 1) * size), ByteCount) + 1]
  IN IF Len(src) < headerSize \/ Len(src) = 1 THEN {Failed}
     ELSE IF chunks # GetBWTChunks(n) \/ n > room THEN {Failed}
     ELSE IF n <= 1 THEN {Done(data)}
     ELSE IF n <= Threshold2 THEN InverseMergeTPSI(data, indexes)
     ELSE InverseBiPSIv2(data, indexes, jobs)
=============================================================================
