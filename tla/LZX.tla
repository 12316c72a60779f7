-------------------------------- MODULE LZX --------------------------------
(***************************************************************************)
(* The Lempel-Ziv codec (LZXCodec of src/v2/transform/LZCodec.go): a match *)
(* with an earlier part of the block becomes a token, a distance and a     *)
(* length in three buffers behind the literals; a distance that was one of *)
(* the last two is not written.                                            *)
(***************************************************************************)
EXTENDS Bytes

CONSTANTS
  LitBits, MatchBits,  \* a token: bits of its two lengths, a flag between (3, 4)
  MinMatch, MinMatchDNA, \* the shortest match (4, 9)
  MaxMatch,      \* the longest (65535 + 254 + 15 + 4)
  Word,          \* bytes that are compared at once (4)
  HashBytes,     \* bytes that a hash is computed of (5; 6 in LZX)
  HashSize,      \* entries of the table (2^16; 2^21)
  MaxDistance1, MaxDistance2,  \* the longest distances (2^16 - 2, 2^24 - 2)
  FarBlock,      \* a block up to this size has the shorter one (4 * MaxDistance1)
  LastBytes,     \* the bytes at the end that no match enters (17)
  MinBlock,      \* a shorter block is declined (24)
  SizeBytes,     \* bytes of an index in the header (4)
  SkipShift,     \* how soon the search skips positions (6)
  ShortBlock, Slack \* room for Slack more bytes up to a ShortBlock (1024, 16)

MaxEncodedLen(n) == IF n <= ShortBlock THEN n + Slack ELSE n + n \div 64

HeaderSize == 3 * SizeBytes + 1
Littles(v) == [i \in 1 .. SizeBytes |-> (v \div ByteCount ^ (i - 1)) % ByteCount]
FromLittles(s) == Value([i \in 1 .. SizeBytes |-> s[SizeBytes + 1 - i]], ByteCount)

(* emitLengthLZ and readLengthLZ, in one, three or four bytes. *)
EmitLength(n) ==
  IF n < TopByte - 1 THEN <<n>>
  ELSE IF n < ByteCount * ByteCount + TopByte - 1
  THEN <<TopByte - 1>> \o Digits(n - (TopByte - 1), 2, ByteCount)
  ELSE <<TopByte>> \o Digits(n - TopByte, 3, ByteCount)

ReadLength(src, at) ==
  LET first == At(src, at)
      more == IF first < TopByte - 1 THEN 0 ELSE first - (TopByte - 1) + 2
  IN [length |-> first + Value(Slice(src, at + 1, at + 1 + more), ByteCount),
      at |-> at + 1 + more]

(* The token: the largest code of a literal length says that the rest is   *)
(* among the literals; the largest of a match length, that the distance is *)
(* repeated, the next one that the rest of the length is elsewhere.        *)
MaxLit == 2 ^ LitBits - 1
Repeat == 2 ^ MatchBits - 1
More == Repeat - 1
Flag == 2 ^ MatchBits
Token(litLen, code) == Smaller(litLen, MaxLit) * 2 * Flag + code
LitExtra(litLen) == IF litLen >= MaxLit THEN EmitLength(litLen - MaxLit) ELSE <<>>

(* findMatchLZX, in whole words as long as they match. *)
FindMatch(src, a, b, most) ==
  LET whole == Word * (Larger(most, 0) \div Word)
  IN Least({k \in 0 .. whole : k = whole \/ At(src, a + k) # At(src, b + k)})

SameWord(src, a, b) == Slice(src, a, a + Word) = Slice(src, b, b + Word)

(* The hash of the bytes from at on, and the last position that had it. *)
Hash(src, at) == Value(Slice(src, at, at + HashBytes), ByteCount) % HashSize
Entry(hashes, h) == IF h \in DOMAIN hashes THEN hashes[h] ELSE 0
Enter(hashes, src, positions) ==
  [h \in {Hash(src, i) : i \in positions} |->
     Greatest({i \in positions : Hash(src, i) = h})] @@ hashes

Found(at, ref, length, hashes) == [at |-> at, ref |-> ref, length |-> length, hashes |-> hashes]

(* A match at the next position with one of the last two distances; it     *)
(* may start a byte earlier.                                               *)
RepeatMatch(src, s, p) ==
  LET at == s.at + 1
      most == Smaller(p.end - at, MaxMatch)
      usable(ref) == ref > p.minRef /\ SameWord(src, at, ref)
      ref(k) == at - s.repd[k]
      length(k) == FindMatch(src, at, ref(k), most)
      first == s.repdIdx
      k == IF ~usable(ref(first)) THEN 0
           ELSE IF length(first) >= p.minMatch THEN first
           ELSE IF usable(ref(3 - first)) /\ length(3 - first) >= p.minMatch THEN 3 - first
           ELSE 0
      earlier == At(src, s.at) = At(src, ref(k) - 1) /\ length(k) < MaxMatch
  IN IF k = 0 THEN Found(0, 0, 0, s.hashes)
     ELSE IF earlier
     THEN Found(s.at, ref(k) - 1, length(k) + 1, Enter(s.hashes, src, {s.at}))
     ELSE Found(at, ref(k), length(k), Enter(s.hashes, src, {s.at, at}))

(* The match that the table knows, or that at the next position when it is *)
(* longer, or as long and nearer; then as far back as it goes.             *)
RECURSIVE Back(_, _, _, _)
Back(src, s, p, m) ==
  IF m.length < MaxMatch /\ m.at > s.anchor /\ m.ref > p.minRef
     /\ At(src, m.at - 1) = At(src, m.ref - 1)
  THEN Back(src, s, p, Found(m.at - 1, m.ref - 1, m.length + 1, m.hashes))
  ELSE m

HashMatch(src, s, p) ==
  LET at == s.at
      most(i) == Smaller(p.end - i, MaxMatch)
      ref == Entry(s.hashes, Hash(src, at))
      length == IF ref > p.minRef /\ SameWord(src, at, ref)
                THEN FindMatch(src, at, ref, most(at)) ELSE 0
      entered == Enter(s.hashes, src, {at})
      m == Found(at, ref, length, entered)
      next == at + 1
      ref1 == Entry(entered, Hash(src, next))
      ends == length + 1 - Word
      length1 == IF ref1 > p.minRef + 1 /\ SameWord(src, next + ends, ref1 + ends)
                 THEN FindMatch(src, next, ref1, most(next)) ELSE 0
      entered1 == Enter(entered, src, {next})
      better == length1 > length \/ (length1 = length /\ ref1 > ref)
  IN IF length < p.minMatch THEN Found(at, ref, 0, entered)
     ELSE Back(src, s, p,
            IF ref \in {at - s.repd[1], at - s.repd[2]} THEN m
            ELSE IF better THEN Found(next, ref1, length1, entered1)
            ELSE Found(at, ref, length, entered1))

(* The code of a match in its token, its distance, and its length.  A      *)
(* length with nothing left to write elsewhere is cut by one.              *)
Coded(dist, length, s, p) ==
  LET rest == length - p.minMatch - More
      long == p.maxDist = MaxDistance2
      base == IF long THEN ByteCount * ByteCount ELSE ByteCount
      bytes == (IF long THEN 2 ELSE 1) + (IF dist >= base THEN 1 ELSE 0)
      flag == IF dist >= base THEN Flag ELSE 0
      code(c, cut, extra) ==
        [code |-> flag + c, cut |-> cut, extra |-> extra, dist |-> Digits(dist, bytes, ByteCount)]
  IN IF dist \in {s.repd[1], s.repd[2]}
     THEN [code |-> Repeat + (IF dist = s.repd[1] THEN 0 ELSE Flag), cut |-> 0,
           extra |-> EmitLength(length - p.minMatch), dist |-> <<>>]
     ELSE IF rest > 0 THEN code(More, 0, EmitLength(rest))
     ELSE IF rest = 0 THEN code(More - 1, 1, <<>>)
     ELSE code(rest + More, 0, <<>>)

(* One position, with or without a match.  s.out holds the literals,       *)
(* s.tk the tokens, s.m the distances and s.ml the lengths.  They have no  *)
(* limit here.  In the code the buffers of the last two grow, and that of  *)
(* the tokens has a fifth of the block, 256 bytes at least: enough as long *)
(* as a token stands for five bytes, which only a match of four bytes at   *)
(* groups of five that differ and have the same hash does not.             *)
Advance(src, s, p, m) ==
  LET dist == m.at - m.ref
      litLen == m.at - s.anchor
      c == Coded(dist, m.length, s, p)
      end == m.at + m.length - c.cut
  IN [at |-> end, anchor |-> end, inc |-> 0,
      repd |-> <<dist, s.repd[1]>>, repdIdx |-> 2,
      hashes |-> Enter(m.hashes, src, m.at + 1 .. end - 1),
      out |-> s.out \o LitExtra(litLen) \o Slice(src, s.anchor, m.at),
      tk |-> Append(s.tk, Token(litLen, c.code)),
      m |-> s.m \o c.dist, ml |-> s.ml \o c.extra]

RECURSIVE Parse(_, _, _)
Parse(src, s, q) ==
  LET p == [end |-> q.end, minMatch |-> q.minMatch, maxDist |-> q.maxDist,
            minRef |-> Larger(s.at - q.maxDist, 0)]
      repeated == RepeatMatch(src, s, p)
      m == IF repeated.length > 0 THEN repeated ELSE HashMatch(src, s, p)
  IN IF s.at >= q.end THEN s
     ELSE IF m.length > 0 THEN Parse(src, Advance(src, s, p, m), q)
     ELSE Parse(src, [s EXCEPT !.at = @ + 1 + s.inc \div 2 ^ SkipShift, !.inc = @ + 1,
                               !.repdIdx = 1, !.hashes = m.hashes], q)

(* The buffers one behind the other, and where they start. *)
Emit(src, s, q) ==
  LET n == Len(src)
      litLen == n - s.anchor
      flags == (IF q.maxDist = MaxDistance2 THEN 1 ELSE 0)
               + (IF q.minMatch = MinMatchDNA THEN 2 ELSE 0)
      out == s.out \o LitExtra(litLen) \o Slice(src, s.anchor, n)
      tk == Append(s.tk, Token(litLen, 0))
      all == Littles(HeaderSize + Len(out)) \o Littles(Len(tk)) \o Littles(Len(s.m))
             \o <<flags>> \o out \o tk \o s.m \o s.ml
  IN IF HeaderSize + Len(s.out) + litLen + Len(s.tk) + Len(s.m) >= n THEN Failed
     ELSE IF Len(all) > n - n \div 100 THEN Failed
     ELSE Done(all)

(* Forward.  The type of the data, when it is known, may make the shortest *)
(* match longer (DNA) or rule the codec out (a small alphabet).            *)
Forwards(src, room) ==
  LET n == Len(src)
      end == n - LastBytes
      q(minMatch) == [end |-> end, minMatch |-> minMatch,
                      maxDist |-> IF end < FarBlock THEN MaxDistance1 ELSE MaxDistance2]
      start == [at |-> 0, anchor |-> 0, inc |-> 0, repd |-> <<n, n>>, repdIdx |-> 1,
                hashes |-> <<>>, out |-> <<>>, tk |-> <<>>, m |-> <<>>, ml |-> <<>>]
  IN IF room < MaxEncodedLen(n) \/ n < MinBlock THEN {Failed}
     ELSE {Failed} \cup {Emit(src, Parse(src, start, q(k)), q(k)) : k \in {MinMatch, MinMatchDNA}}

-----------------------------------------------------------------------------
(* inverseV4.  d holds the positions in the four parts, and the last two   *)
(* distances.                                                              *)
RECURSIVE CopyMatch(_, _, _)
CopyMatch(out, dist, n) ==
  IF n = 0 THEN out ELSE CopyMatch(Append(out, At(out, Len(out) - dist)), dist, n - 1)

(* The literals of a token. *)
Literals(src, d, token) ==
  LET code == token \div (2 * Flag)
      ext == IF code = MaxLit THEN ReadLength(src, d.lit) ELSE [length |-> 0, at |-> d.lit]
      litLen == code + ext.length
  IN [out |-> d.out \o Slice(src, ext.at, ext.at + litLen), lit |-> ext.at + litLen]

(* The length and the distance of its match. *)
MatchOf(src, d, token, q) ==
  LET code == token % Flag
      flagged == (token \div Flag) % 2 = 1
      ext == IF code >= More THEN ReadLength(src, d.ml) ELSE [length |-> 0, at |-> d.ml]
      bytes == IF code = Repeat THEN 0
               ELSE 1 + (IF q.long THEN 1 ELSE 0) + (IF flagged THEN 1 ELSE 0)
  IN [length |-> q.minMatch + ext.length + (IF code = Repeat THEN 0 ELSE code),
      dist |-> IF code = Repeat THEN d.repd[IF flagged THEN 2 ELSE 1]
               ELSE Value(Slice(src, d.m, d.m + bytes), ByteCount),
      m |-> d.m + bytes, ml |-> ext.at]

RECURSIVE Decode(_, _, _, _)
Decode(src, room, d, q) ==
  LET token == At(src, d.tk)
      l == IF token >= 2 * Flag THEN Literals(src, d, token) ELSE [out |-> d.out, lit |-> d.lit]
      m == MatchOf(src, d, token, q)
  IN IF d.tk >= Len(src) \/ Len(l.out) > room THEN Failed
     ELSE IF token >= 2 * Flag /\ l.lit >= q.end
     THEN IF l.lit = q.end + HeaderSize THEN Done(l.out) ELSE Failed
     ELSE IF m.dist > Len(l.out) \/ m.dist > q.maxDist
             \/ Len(l.out) + m.length > room - (LastBytes - 1) THEN Failed
     ELSE Decode(src, room,
            [tk |-> d.tk + 1, lit |-> l.lit, m |-> m.m, ml |-> m.ml,
             repd |-> <<m.dist, d.repd[1]>>, out |-> CopyMatch(l.out, m.dist, m.length)], q)

Inverse(src, room) ==
  LET index(k) == FromLittles(Slice(src, k * SizeBytes, (k + 1) * SizeBytes))
      tk == index(0)
      m == tk + index(1)
      flags == At(src, 3 * SizeBytes)
      long == flags % 2 = 1
      q == [end |-> tk - HeaderSize, long |-> long,
            maxDist |-> IF long THEN MaxDistance2 ELSE MaxDistance1,
            minMatch |-> IF (flags \div 2) % 2 = 1 THEN MinMatchDNA ELSE MinMatch]
  IN IF Len(src) < HeaderSize \/ tk > Len(src) \/ m + index(2) > Len(src) THEN Failed
     ELSE Decode(src, room, [tk |-> tk, lit |-> HeaderSize, m |-> m, ml |-> m + index(2),
                             repd |-> <<0, 0>>, out |-> <<>>], q)
=============================================================================
