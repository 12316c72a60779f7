------------------------------ MODULE ANSRange ------------------------------
(***************************************************************************)
(* The asymmetric numeral system coder, order 0 and 1                      *)
(* (src/v2/entropy/ANSRangeCodec.go).  Four states, the lanes, are coded   *)
(* in turn into one buffer, from the last byte of a chunk to the first, so *)
(* that the decoder finds them from the first to the last.  A state has    *)
(* twice WordBits (32), and gives or takes WordBits (16) at a time.        *)
(***************************************************************************)
EXTENDS Frequencies

CONSTANTS
  WordBits,       \* 16
  LogRange,       \* _DEFAULT_ANS_LOG_RANGE, for order 0 (12)
  RawSize,        \* a block up to this size is not coded (32)
  ChunkSize,      \* _DEFAULT_ANS0_CHUNK_SIZE (16384)
  ChunkSize1      \* the size of a chunk of order 1 (4 MB)

ANS_TOP == 2 ^ (WordBits - 1)
Chunk(order) == IF order = 1 THEN ChunkSize1 ELSE ChunkSize
Range(order) == Larger(LogRange - order, ByteBits)
Contexts(order) == IF order = 1 THEN Byte ELSE {0}

(* What the coder needs to know of a symbol: encSymbol.reset.  A division  *)
(* by the frequency is a product with its reciprocal and a shift.          *)
EncSymbol(cumFreq, f, lr) ==
  LET freq == Smaller(f, 2 ^ lr - 1)
      shift == Least({k \in 0 .. lr : freq <= 2 ^ k})
      word == 2 ^ (2 * WordBits)
  IN [xMax |-> (ANS_TOP \div 2 ^ lr) * 2 ^ WordBits * freq,
      cmplFreq |-> 2 ^ lr - freq,
      bias |-> IF freq < 2 THEN cumFreq + 2 ^ lr - 1 ELSE cumFreq,
      invFreq |-> IF freq < 2 THEN word - 1
                  ELSE ((2 ^ (shift + 2 * WordBits - 1) + freq - 1) \div freq) % word,
      invShift |-> IF freq < 2 THEN 2 * WordBits ELSE 2 * WordBits + shift - 1]

(* rebuildStatistics: how often every symbol occurs, in order 1 behind     *)
(* every other, the first one of a quarter behind a 0.  The bytes behind   *)
(* the last quarter do not count, unless all are.                          *)
CountPairs(block, quarter) ==
  LET n == Len(block)
      first(i) == IF quarter = 0 THEN i = 0 ELSE i % quarter = 0
      context(i) == IF first(i) THEN 0 ELSE At(block, i - 1)
      counted == 0 .. (IF quarter = 0 THEN n ELSE 4 * quarter) - 1
  IN Table([c \in Byte |-> <<>> \o [s \in 1 .. ByteCount |->
        Cardinality({i \in counted : context(i) = c /\ At(block, i) = s - 1})]])

Statistics(order, block) ==
  LET all == Histogram(block)
  IN IF order = 1 THEN CountPairs(block, Len(block) \div 4)
     ELSE Table([c \in {0} |-> <<>> \o [s \in 1 .. ByteCount |-> all[s - 1]]])

-----------------------------------------------------------------------------
(* encodeHeader and updateFrequencies: the alphabet and the frequencies   *)
(* of every context.                                                       *)
EncodeHeader(f, lr) ==
  EncodeAlphabet(Present(f)) \o WriteGroups(Ascending(Present(f)), f, 1, lr)

RECURSIVE WriteHeaders(_, _, _, _)
WriteHeaders(order, freqs, c, lr) ==
  IF c \notin Contexts(order) THEN <<>>
  ELSE EncodeHeader(freqs[c], lr) \o WriteHeaders(order, freqs, c + 1, lr)

(* The scaled frequencies of a chunk. *)
Normalized(order, block) ==
  LET f == Statistics(order, block)
  IN Table([c \in Contexts(order) |-> NormalizeFrequencies(f[c], Sum(f[c]), 2 ^ Range(order))])

-----------------------------------------------------------------------------
(* The k-th step of a coder over n bytes: its lane and its position.  In   *)
(* order 1 every lane has a quarter of its own.                            *)
Lane(k) == (k - 1) % 4
Position(order, n, k) ==
  LET quarter == n \div 4
  IN IF order = 0 THEN 4 * quarter - k
     ELSE Lane(k) * quarter + quarter - 1 - ((k - 1) \div 4)
Context(order, block, pos) ==
  IF order = 0 \/ pos % (Len(block) \div 4) = 0 THEN 0 ELSE At(block, pos - 1)

(* encodeSymbol: a state that would grow too large first gives a word. *)
EncodeSymbol(st, sym) ==
  LET flush == st >= sym.xMax
      word == st % 2 ^ WordBits
      x == IF flush THEN st \div 2 ^ WordBits ELSE st
  IN [out |-> IF flush THEN Digits(word, 2, 2 ^ (WordBits \div 2)) ELSE <<>>,
      st |-> x + sym.bias + ((x * sym.invFreq) \div 2 ^ sym.invShift) * sym.cmplFreq]

RECURSIVE EncodeSteps(_, _, _, _, _, _)
EncodeSteps(order, block, symbols, k, st, buffer) ==
  LET n == Len(block)
      pos == Position(order, n, k)
      e == EncodeSymbol(st[Lane(k) + 1], symbols[<<Context(order, block, pos), At(block, pos)>>])
  IN IF k > 4 * (n \div 4) THEN [st |-> st, buffer |-> buffer]
     ELSE EncodeSteps(order, block, symbols, k + 1,
                      [st EXCEPT ![Lane(k) + 1] = e.st], e.out \o buffer)

(* encodeChunk: the size of the buffer, the states and the buffer, at the  *)
(* end of which are the bytes that do not fill the lanes.                  *)
Tails(n) == 4 * (n \div 4)
EncodeChunk(order, block, freqs) ==
  LET lr == Range(order)
      symbols == Table([p \in UNION {{c} \X Present(freqs[c]) : c \in Contexts(order)} |->
                   EncSymbol(CumFreq(freqs[p[1]], p[2]), freqs[p[1]][p[2] + 1], lr)])
      r == EncodeSteps(order, block, symbols, 1, <<ANS_TOP, ANS_TOP, ANS_TOP, ANS_TOP>>,
                       Slice(block, Tails(Len(block)), Len(block)))
      states == [i \in 1 .. 8 * WordBits |->
                   WriteBits(r.st[((i - 1) \div (2 * WordBits)) + 1], 2 * WordBits)
                            [((i - 1) % (2 * WordBits)) + 1]]
  IN WriteVarInt(Len(r.buffer)) \o states \o WriteArray(r.buffer)

(* The encoder of order 1 looks at the last byte of every quarter: it      *)
(* panics on a chunk of two or three bytes, which has no quarters.         *)
NoQuarter(order, chunk) == order = 1 /\ Len(chunk) \in {2, 3}

RECURSIVE EncodeChunks(_, _, _)
EncodeChunks(order, block, bits) ==
  LET chunk == Slice(block, 0, Smaller(Chunk(order), Len(block)))
      freqs == Normalized(order, chunk)
      coded == order = 1 \/ Cardinality(Present(freqs[0])) > 1
      header == WriteBits(Range(order) - ByteBits, 3) \o WriteHeaders(order, freqs, 0, Range(order))
  IN IF block = <<>> THEN Done(bits)
     ELSE IF NoQuarter(order, chunk) THEN Failed
     ELSE EncodeChunks(order, Slice(block, Len(chunk), Len(block)),
                       bits \o header \o
                       IF coded THEN EncodeChunk(order, chunk, freqs) ELSE <<>>)

Write(order, block) ==
  IF Len(block) <= RawSize THEN NullWrite(block) ELSE EncodeChunks(order, block, <<>>)

-----------------------------------------------------------------------------
RECURSIVE ReadHeaders(_, _, _, _, _, _)
ReadHeaders(order, bits, at, c, lr, freqs) ==
  LET a == DecodeAlphabet(bits, at)
      g == ReadGroups(bits, a.at, Ascending(a.alphabet), 1, lr, None)
  IN IF c \notin Contexts(order) THEN [ok |-> TRUE, at |-> at, freqs |-> freqs]
     ELSE IF a.alphabet = {} THEN ReadHeaders(order, bits, a.at, c + 1, lr, freqs @@ (c :> None))
     ELSE IF ~g.ok THEN [ok |-> FALSE, at |-> at, freqs |-> freqs]
     ELSE ReadHeaders(order, bits, g.at, c + 1, lr, freqs @@ (c :> g.f))

(* decodeSymbol: a state that got too small takes a word. *)
DecodeSymbol(st, buffer, n, f, s, lr) ==
  LET freq == Smaller(f[s + 1], 2 ^ lr - 1)
      x == freq * (st \div 2 ^ lr) + (st % 2 ^ lr) - CumFreq(f, s)
      byte(i) == IF i < Len(buffer) THEN At(buffer, i) ELSE 0
      half == 2 ^ (WordBits \div 2)
  IN IF x < ANS_TOP
     THEN [st |-> x * 2 ^ WordBits + byte(n) * half + byte(n + 1), n |-> n + 2]
     ELSE [st |-> x, n |-> n]

RECURSIVE DecodeSteps(_, _, _, _, _, _, _, _)
DecodeSteps(order, block, freqs, lr, k, st, buffer, n) ==
  LET pos == Position(order, Len(block), k)
      f == freqs[Context(order, block, pos)]
      s == SymbolAt(f, st[Lane(k) + 1] % 2 ^ lr)
      d == DecodeSymbol(st[Lane(k) + 1], buffer, n, f, s, lr)
  IN IF k = 0
     THEN Slice(block, 0, Tails(Len(block))) \o Slice(buffer, n, n + (Len(block) % 4))
     ELSE DecodeSteps(order, [block EXCEPT ![pos + 1] = s], freqs, lr, k - 1,
                      [st EXCEPT ![Lane(k) + 1] = d.st], buffer, d.n)

(* decodeChunkV2. *)
DecodeChunk(order, bits, at, n, freqs, lr, room) ==
  LET size == ReadVarInt(bits, at)
      state(k) == ReadBits(bits, size.at + 2 * k * WordBits, 2 * WordBits)
      data == size.at + 8 * WordBits
  IN IF size.value > room THEN Invalid
     ELSE Decoded(DecodeSteps(order, [i \in 1 .. n |-> 0] \o <<>>, freqs, lr, Tails(n),
                              <<state(0), state(1), state(2), state(3)>>,
                              ReadArray(bits, data, size.value), 0),
                  data + size.value * ByteBits)

RECURSIVE DecodeChunks(_, _, _, _, _, _)
DecodeChunks(order, bits, at, left, room, out) ==
  LET n == Smaller(Chunk(order), left)
      lr == ByteBits + ReadBits(bits, at, 3)
      h == ReadHeaders(order, bits, at + 3, 0, lr, <<>>)
      present == Present(h.freqs[0])
      single == order = 0 /\ Cardinality(present) = 1
      d == DecodeChunk(order, bits, h.at, n, h.freqs, lr, room)
  IN IF left = 0 THEN Decoded(out, at)
     ELSE IF ~h.ok \/ \A c \in Contexts(order) : Present(h.freqs[c]) = {} THEN Invalid
     ELSE IF single
     THEN DecodeChunks(order, bits, h.at, left - n, room, out \o Times(n, Ascending(present)))
     ELSE IF ~d.ok THEN Invalid
     ELSE DecodeChunks(order, bits, d.at, left - n, room, out \o d.out)

(* Read, of a block of n bytes. *)
Read(order, bits, n) ==
  IF n <= RawSize THEN NullRead(bits, n)
  ELSE DecodeChunks(order, bits, 0, n, Larger(2 * Smaller(Chunk(order), n), ByteCount), <<>>)
=============================================================================
