------------------------------ MODULE Huffman ------------------------------
(***************************************************************************)
(* The Huffman coder (src/v2/entropy/HuffmanCodec.go), with the current    *)
(* format of the stream.  A chunk is its alphabet, the sizes of its codes, *)
(* how many bits follow, and a code per byte; the codes are canonical, so  *)
(* their sizes are enough.  A code has at most MaxSymbolSize bits.         *)
(***************************************************************************)
EXTENDS EntropyUtils

CONSTANTS
  MaxSymbolSize,  \* _HUF_MAX_SYMBOL_SIZE_V4 (12)
  Levels,         \* sizes below the longest that can repay a debt (6)
  ChunkSize,      \* _HUF_MAX_CHUNK_SIZE (16384)
  NormalScale     \* the sum of the frequencies of the slow path (2048)

(* computeInPlaceSizesPhase1: the two nodes of least weight become one,    *)
(* whose place, t, is written over each inner one of them; a leaf is taken *)
(* when it weighs no more than an inner node.  st is <<data, s, r, sum>>.  *)
PickNode(st, t) ==
  LET data == st[1]
      s == st[2]
      r == st[3]
  IN IF s >= Len(data) \/ (r < t /\ At(data, r) < At(data, s))
     THEN <<[data EXCEPT ![r + 1] = t], s, r + 1, st[4] + At(data, r)>>
     ELSE <<IF s > t THEN [data EXCEPT ![s + 1] = 0] ELSE data, s + 1, r, st[4] + At(data, s)>>

RECURSIVE Phase1(_, _, _, _)
Phase1(data, s, r, t) ==
  LET two == PickNode(PickNode(<<data, s, r, 0>>, t), t)
  IN IF t >= Len(data) - 1 THEN data
     ELSE Phase1([two[1] EXCEPT ![t + 1] = two[4]], two[2], two[3], t + 1)

(* computeInPlaceSizesPhase2: level by level, what is not an inner node is *)
(* a leaf, and the leaves take their depths from the end on.               *)
RECURSIVE Phase2(_, _, _, _, _)
Phase2(data, levelTop, nodes, depth, end) ==
  LET k == Least({j \in 0 .. levelTop : \A x \in j .. levelTop - 1 : At(data, x) >= levelTop})
      leaves == nodes - (levelTop - k)
      next == <<>> \o [i \in DOMAIN data |->
                IF i \in end - leaves + 1 .. end THEN depth ELSE data[i]]
  IN IF end <= 0 THEN data
     ELSE Phase2(next, k, 2 * (levelTop - k), depth + 1, end - leaves)

(* computeCodeLengths: the symbols by increasing frequency and value, and  *)
(* the sizes of their codes.                                               *)
ComputeCodeLengths(freqs) ==
  LET before(a, b) == freqs[a] < freqs[b] \/ (freqs[a] = freqs[b] /\ a < b)
      place(s) == Cardinality({t \in DOMAIN freqs : before(t, s)})
      ranks == <<>> \o [k \in 1 .. Cardinality(DOMAIN freqs) |->
                 CHOOSE s \in DOMAIN freqs : place(s) = k - 1]
      n == Len(ranks)
      lengths == Phase2(Phase1(<<>> \o [k \in 1 .. n |-> freqs[ranks[k]]], 0, 0, 0), n - 2, 2, 1, n)
  IN [ranks |-> ranks,
      sizes |-> Table([s \in DOMAIN freqs |-> lengths[place(s) + 1]])]

Longest(sizes) == Greatest({sizes[s] : s \in DOMAIN sizes})

-----------------------------------------------------------------------------
(* limitCodeLengths.  q holds, for every level, the symbols whose code can *)
(* grow by one bit, which repays 2 ^ level.                                *)
RECURSIVE Queues(_, _, _, _, _)
Queues(ranks, sizes, n, debt, q) ==
  LET level == MaxSymbolSize - 1 - sizes[ranks[n]]
  IN IF n > Len(ranks) THEN q
     ELSE IF level > Levels - 1 THEN q
     ELSE IF debt < 2 ^ level THEN q
     ELSE Queues(ranks, sizes, n + 1, debt, [q EXCEPT ![level] = Append(@, ranks[n])])

(* From the highest level down, as long as the debt is not overpaid; then  *)
(* from the lowest one up.                                                 *)
Grown(st, level) ==
  [sizes |-> [st.sizes EXCEPT ![Head(st.q[level])] = @ + 1],
   debt |-> st.debt - 2 ^ level,
   q |-> [st.q EXCEPT ![level] = Tail(@)]]

RECURSIVE Repay(_, _)
Repay(st, level) ==
  IF st.debt <= 0 \/ level < 0 THEN st
  ELSE IF st.q[level] = <<>> \/ st.debt < 2 ^ level THEN Repay(st, level - 1)
  ELSE Repay(Grown(st, level), level)

RECURSIVE Overpay(_, _)
Overpay(st, level) ==
  IF st.debt <= 0 \/ level >= Levels THEN st
  ELSE IF st.q[level] = <<>> THEN Overpay(st, level + 1)
  ELSE Overpay(Grown(st, level), level)

Limited(ranks, sizes) ==
  LET over == {s \in DOMAIN sizes : sizes[s] >= MaxSymbolSize}
      folded == Table([s \in DOMAIN sizes |-> Smaller(sizes[s], MaxSymbolSize)])
      debt == Sum([k \in 1 .. Cardinality(over) |-> sizes[ranks[k]] - MaxSymbolSize])
      q == Queues(ranks, folded, Cardinality(over) + 1, debt,
                  Table([l \in 0 .. Levels - 1 |-> <<>>]))
  IN Overpay(Repay([sizes |-> folded, debt |-> debt, q |-> q], Levels - 1), 0)

(* The slow path scales the frequencies of the alphabet, in a slice as     *)
(* long as the alphabet, and starts again.                                 *)
Rescaled(freqs) ==
  LET alphabet == Ascending(DOMAIN freqs)
      f == [k \in 1 .. Len(alphabet) |-> freqs[alphabet[k]]]
      r == NormalizeFrequencies(<<>> \o f, Sum(f), NormalScale)
  IN [panic |-> Panics(f, Sum(f), NormalScale),
      freqs |-> Table([s \in DOMAIN freqs |->
                  r[CHOOSE k \in 1 .. Len(alphabet) : alphabet[k] = s]])]

(* updateFrequencies: the sizes of the codes of a chunk with more than one *)
(* symbol; when they cannot be limited, all codes have a byte's size.      *)
Flat(freqs) == [s \in DOMAIN freqs |-> ByteBits]

Sizes(sizes) == [panic |-> FALSE, sizes |-> sizes]
Slowly(freqs, slow, first) ==
  LET second == ComputeCodeLengths(slow.freqs).sizes
  IN IF slow.panic THEN [panic |-> TRUE, sizes |-> first]
     ELSE Sizes(IF Longest(second) > MaxSymbolSize THEN Flat(freqs) ELSE second)
Shortened(freqs, first, limited) ==
  IF limited.debt <= 0 THEN Sizes(limited.sizes) ELSE Slowly(freqs, Rescaled(freqs), first)
SizesFrom(freqs, first) ==
  IF Longest(first.sizes) <= MaxSymbolSize THEN Sizes(first.sizes)
  ELSE Shortened(freqs, first.sizes, Limited(first.ranks, first.sizes))

CodeSizes(freqs) ==
  IF Cardinality(DOMAIN freqs) = 1 THEN Sizes(Table([s \in DOMAIN freqs |-> 1]))
  ELSE SizesFrom(freqs, ComputeCodeLengths(freqs))

-----------------------------------------------------------------------------
(* generateCanonicalCodes: by increasing size and symbol, the next code,   *)
(* moved left when the size grows.                                         *)
(* Mutant: moved by one bit at most.                                       *)
MovedOnce(code, from, to) == IF to > from THEN 2 * code ELSE code
Moved(code, from, to) == code * 2 ^ (to - from)

RECURSIVE Canonical(_, _, _, _)
Canonical(order, sizes, k, code) ==
  LET s == order[k]
      moved == IF k = 1 THEN 0 ELSE Moved(code, sizes[order[k - 1]], sizes[s])
  IN IF k > Len(order) THEN <<>>
     ELSE <<moved>> \o Canonical(order, sizes, k + 1, moved + 1)

Codes(sizes) ==
  LET place(s) == Cardinality({t \in DOMAIN sizes : sizes[t] < sizes[s]
                                 \/ (sizes[t] = sizes[s] /\ t < s)})
      order == <<>> \o [k \in 1 .. Cardinality(DOMAIN sizes) |->
                 CHOOSE s \in DOMAIN sizes : place(s) = k - 1]
      codes == Canonical(order, sizes, 1, 0)
  IN Table([s \in DOMAIN sizes |-> codes[place(s) + 1]])

(* The sizes, each as a difference to the one before. *)
RECURSIVE WriteSizes(_, _, _)
WriteSizes(symbols, sizes, prev) ==
  IF symbols = <<>> THEN <<>>
  ELSE ExpGolomb((sizes[Head(symbols)] - prev) % ByteCount)
       \o WriteSizes(Tail(symbols), sizes, sizes[Head(symbols)])

RECURSIVE WriteCodes(_, _, _)
WriteCodes(chunk, code, bits) ==
  IF chunk = <<>> THEN bits ELSE WriteCodes(Tail(chunk), code, bits \o code[Head(chunk)])

EncodeChunk(chunk, sizes) ==
  LET symbols == Ascending(DOMAIN sizes)
      codes == Codes(sizes)
      bits == WriteCodes(chunk, Table([s \in DOMAIN sizes |-> WriteBits(codes[s], sizes[s])]), <<>>)
  IN EncodeAlphabet(DOMAIN sizes) \o WriteSizes(symbols, sizes, 2) \o
     IF Len(symbols) = 1 THEN <<>>
     ELSE WriteBits(0, 2) \o WriteVarInt(Len(bits)) \o bits

Frequencies(chunk) ==
  LET all == Histogram(chunk)
  IN Table([s \in {chunk[i] : i \in DOMAIN chunk} |-> all[s]])

RECURSIVE EncodeChunks(_, _)
EncodeChunks(block, bits) ==
  LET chunk == Slice(block, 0, Smaller(ChunkSize, Len(block)))
      encode(code) ==
        IF code.panic THEN Failed
        ELSE EncodeChunks(Slice(block, Len(chunk), Len(block)),
                          bits \o EncodeChunk(chunk, code.sizes))
  IN IF block = <<>> THEN Done(bits) ELSE encode(CodeSizes(Frequencies(chunk)))

Write(block) == EncodeChunks(block, <<>>)

-----------------------------------------------------------------------------
Signed(byte) == IF byte >= Half THEN byte - ByteCount ELSE byte

RECURSIVE ReadSizes(_, _, _, _, _)
ReadSizes(bits, at, symbols, prev, sizes) ==
  LET e == ReadExpGolomb(bits, at)
      size == prev + Signed(e.byte)
  IN IF symbols = <<>> THEN [ok |-> TRUE, sizes |-> sizes, at |-> at]
     ELSE IF size \notin 1 .. MaxSymbolSize THEN [ok |-> FALSE, sizes |-> sizes, at |-> at]
     ELSE ReadSizes(bits, e.at, Tail(symbols), size, sizes @@ (Head(symbols) :> size))

(* buildDecodingTable: what a value of MaxSymbolSize bits starts with; the *)
(* symbol 0 if no code, and what it costs to skip.                         *)
DecodingTable(sizes, codes) ==
  LET hit(v) == {s \in DOMAIN sizes : v \div 2 ^ (MaxSymbolSize - sizes[s]) = codes[s]}
  IN Table([v \in 0 .. 2 ^ MaxSymbolSize - 1 |->
        IF hit(v) = {} THEN <<0, ByteBits>>
        ELSE LET s == CHOOSE s \in hit(v) : \A t \in hit(v) : sizes[t] <= sizes[s]
             IN <<s, sizes[s]>>])

RECURSIVE ReadCodes(_, _, _, _, _)
ReadCodes(bits, at, table, n, out) ==
  LET hit == table[ReadBits(bits, at, MaxSymbolSize)]
  IN IF n = 0 THEN out ELSE ReadCodes(bits, at + hit[2], table, n - 1, Append(out, hit[1]))

(* The data of a chunk of n symbols behind the sizes r of its alphabet. *)
DecodeData(bits, r, n) ==
  LET codes == Codes(r.sizes)
      size == ReadVarInt(bits, r.at + 2)
      end(v) == v.at + v.value
      data(v) == Slice(bits, 0, Smaller(end(v), Len(bits)))
      decoded(v, c) ==
        Decoded(ReadCodes(data(v), v.at, DecodingTable(r.sizes, c), n, <<>>), end(v))
  IN IF ReadBits(bits, r.at, 2) # 0 \/ \E s \in DOMAIN codes : codes[s] >= 2 ^ r.sizes[s]
     THEN Invalid ELSE decoded(size, codes)

DecodeChunk(bits, alphabet, r, n) ==
  IF alphabet = {} \/ ~r.ok THEN Invalid
  ELSE IF Cardinality(alphabet) = 1 THEN Decoded(Times(n, Ascending(alphabet)), r.at)
  ELSE DecodeData(bits, r, n)

RECURSIVE DecodeChunks(_, _, _, _)
DecodeChunks(bits, at, left, out) ==
  LET n == Smaller(ChunkSize, left)
      sizes(a) == ReadSizes(bits, a.at, Ascending(a.alphabet), 2, <<>>)
      chunk(a) == DecodeChunk(bits, a.alphabet, sizes(a), n)
      append(c) == IF ~c.ok THEN Invalid ELSE DecodeChunks(bits, c.at, left - n, out \o c.out)
  IN IF left = 0 THEN Decoded(out, at) ELSE append(chunk(DecodeAlphabet(bits, at)))

(* Read, of a block of n bytes. *)
Read(bits, n) == DecodeChunks(bits, 0, n, <<>>)
=============================================================================
