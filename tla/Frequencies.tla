---------------------------- MODULE Frequencies ----------------------------
(***************************************************************************)
(* The scaled frequencies of a chunk in the stream, and the part of the    *)
(* range that a symbol gets: what the ANS coder and the range coder have   *)
(* in common (encodeHeader and decodeHeader of ANSRangeCodec.go and of     *)
(* RangeCodec.go).  f[s + 1] is the frequency of the symbol s.             *)
(***************************************************************************)
EXTENDS EntropyUtils

CumFreq(f, s) == Sum(Slice(f, 0, s))
Present(f) == {s \in Byte : f[s + 1] # 0}

(* The frequencies of all symbols but the first, in groups   *)
(* with the same number of bits.                                           *)
LogSize(lr) == Larger(3, Log2(lr) + 1)
GroupSize(n) == IF n < ByteCount \div 4 THEN 6 ELSE 8
BitSize(v) == IF v = 0 THEN 0 ELSE Log2(v) + 1

RECURSIVE WriteGroups(_, _, _, _)
WriteGroups(symbols, f, i, lr) ==
  LET end == Smaller(i + GroupSize(Len(symbols)), Len(symbols))
      group == [j \in 1 .. end - i |-> f[At(symbols, i + j - 1) + 1] - 1]
      logMax == BitSize(Greatest({group[j] : j \in DOMAIN group}))
      values == [b \in 1 .. logMax * Len(group) |->
                   WriteBits(group[((b - 1) \div logMax) + 1], logMax)[((b - 1) % logMax) + 1]]
  IN IF i >= Len(symbols) THEN <<>>
     ELSE WriteBits(logMax, LogSize(lr)) \o values \o WriteGroups(symbols, f, end, lr)

(* What is read back: the first symbol gets what is left of the range. *)
RECURSIVE ReadGroups(_, _, _, _, _, _)
ReadGroups(bits, at, symbols, i, lr, f) ==
  LET end == Smaller(i + GroupSize(Len(symbols)), Len(symbols))
      logMax == ReadBits(bits, at, LogSize(lr))
      from == at + LogSize(lr)
      freq(s) == LET j == (CHOOSE j \in 1 .. Len(symbols) : symbols[j] = s) - 1 - i
                 IN 1 + ReadBits(bits, from + j * logMax, logMax)
      group == {At(symbols, j) : j \in i .. end - 1}
      next == <<>> \o [b \in 1 .. ByteCount |-> IF b - 1 \in group THEN freq(b - 1) ELSE f[b]]
  IN IF i >= Len(symbols)
     THEN [ok |-> Sum(f) < 2 ^ lr, at |-> at,
           f |-> [f EXCEPT ![symbols[1] + 1] = 2 ^ lr - Sum(f)]]
     ELSE IF logMax > lr \/ \E s \in group : next[s + 1] >= 2 ^ lr
     THEN [ok |-> FALSE, at |-> at, f |-> f]
     ELSE ReadGroups(bits, from + (end - i) * logMax, symbols, end, lr, next)

None == <<>> \o [b \in 1 .. ByteCount |-> 0]

(* f2s: the symbol that has a part of the range. *)
SymbolAt(f, v) == Least({s \in Byte : v < CumFreq(f, s + 1)} \cup {TopByte})
=============================================================================
