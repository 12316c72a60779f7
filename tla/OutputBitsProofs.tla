-------------------------- MODULE OutputBitsProofs --------------------------
(***************************************************************************)
(* Proofs about the output bitstream, for every size of the byte, of the   *)
(* word and of the buffer, every client and every failure of the           *)
(* io.Writer.                                                              *)
(***************************************************************************)
EXTENDS OutputBits, WordsProofs

-----------------------------------------------------------------------------
(* The inductive invariant. *)

(* The bits that went into the buffer, and those that the current word     *)
(* holds behind them.  While WriteArray splits words, availBits does not   *)
(* say how many these are: a does.                                         *)
Stored == Len(sink) + BitsOf(position)
Splits == pc \in {"quad", "word"}
Held == IF Splits THEN W - a ELSE W - availBits

Places == 0 .. BufferBytes * ByteBits - 1
Types ==
  /\ TypeOK
  /\ buffer \in [Places -> Bits] /\ sink \in Seq(Bits)

(* What the loops of WriteArray rely on.                                   *)
Loops ==
  /\ closed \/ panicked => pc = "idle"
  /\ pc # "idle" => accepted + remaining <= MaxBits
  /\ Splits => a \in 1 .. W - 1 /\ availBits \in {a, W}
  /\ pc = "copy" => availBits = W \/ remaining < ByteBits

(* The buffer is filled by words, and what the io.Writer got are bytes. *)
Aligns ==
  /\ ~panicked => Multiple(position)
  /\ \E k \in Nat : Len(sink) = BitsOf(k)

(* The bits that were accepted are, in order, in what the io.Writer got,   *)
(* in the buffer and in the current word.                                  *)
SinkIs == \A i \in 1 .. Len(sink) : sink[i] = i
Goes(buf, p, s) == \A i \in 0 .. BitsOf(p) - 1 : buf[i] = s + i + 1
BufferIs == Goes(buffer, position, Len(sink))
Holds(w, s, n) == \A i \in 1 .. W : w[i] = IF i <= n THEN s + i ELSE 0
Layout ==
  ~closed /\ ~panicked =>
    /\ accepted = Stored + Held
    /\ SinkIs /\ BufferIs /\ Holds(current, Stored, Held)

(* As long as the io.Writer does not fail the counter says what it got; a  *)
(* closed stream has Written() return it.  An array that ends too early is *)
(* the other cause of a panic: nothing is lost by it.                      *)
Sound == ~panicked \/ failures = 0
Counted ==
  /\ Sound => position <= BufferBytes - WordBytes
  /\ Sound /\ ~closed => accepted = Stored + Held
  /\ closed => position = 0
  /\ failures = 0 => written = IF closed THEN accepted - W ELSE Len(sink)

IInv == Types /\ Loops /\ Aligns /\ Layout /\ Counted /\ ClosedIsComplete

-----------------------------------------------------------------------------
LEMMA BufferSize ==
  /\ BufferBytes \in Nat /\ BufferBytes > 5 * WordBytes /\ Multiple(BufferBytes)
  /\ MaxBits \in Nat /\ MaxFailures \in Nat
  /\ BitCounts \subseteq 1 .. W /\ ArraySizes \subseteq Nat \ {0}
  BY OutputBitsAssumption, NoRemainder

-----------------------------------------------------------------------------
(* Words. *)

(* The bits of a value that the stream has not seen yet, shifted behind    *)
(* the n bits that the current word holds.                                 *)
LEMMA WithBitsHolds ==
  ASSUME NEW n \in 1 .. W, availBits \in 1 .. W, accepted \in Nat, NEW s \in Nat,
         accepted = s + (W - availBits), Holds(current, s, W - availBits)
  PROVE  Holds(WithBits(n), s, W - availBits + n)
<1> DEFINE h == W - availBits
           v == Value(accepted + 1, n)
           l == ShiftLeft(v, W - n)
           x == ShiftRight(l, h)
<1>1. W \in Nat \ {0} /\ h \in 0 .. W - 1
  BY WordSize
<1>2. \A i \in 1 .. W : v[i] = IF i > W - n THEN accepted + 1 + i - (W - n) - 1 ELSE 0
  BY DEF Value
<1>3. \A i \in 1 .. W : l[i] = IF i + (W - n) <= W THEN v[i + (W - n)] ELSE 0
  BY DEF ShiftLeft
<1>4. \A i \in 1 .. W : l[i] = IF i <= n THEN accepted + i ELSE 0
  <2> TAKE i \in 1 .. W
  <2>1. CASE i <= n
    <3>1. i + (W - n) \in 1 .. W /\ i + (W - n) > W - n
      BY <1>1, <2>1
    <3>2. v[i + (W - n)] = accepted + 1 + (i + (W - n)) - (W - n) - 1
      BY <1>2, <3>1
    <3> HIDE DEF v, l
    <3> QED
      BY <1>1, <1>3, <2>1, <3>1, <3>2
  <2>2. CASE i > n
    <3> HIDE DEF v, l
    <3> QED
      BY <1>1, <1>3, <2>2
  <2> HIDE DEF v, l
  <2> QED
    BY <1>1, <2>1, <2>2
<1>5. \A i \in 1 .. W : x[i] = IF i - h >= 1 THEN l[i - h] ELSE 0
  BY DEF ShiftRight
<1>6. \A i \in 1 .. W : WithBits(n)[i] = Merge(current[i], x[i])
  BY DEF WithBits, Or
<1> SUFFICES ASSUME NEW i \in 1 .. W
             PROVE  WithBits(n)[i] = IF i <= h + n THEN s + i ELSE 0
  BY DEF Holds
<1>7. current[i] = IF i <= h THEN s + i ELSE 0
  BY DEF Holds
<1>8. x[i] = IF i > h /\ i <= h + n THEN s + i ELSE 0
  <2>1. CASE i > h
    <3>1. i - h \in 1 .. W /\ x[i] = l[i - h]
      BY <1>1, <1>5, <2>1
    <3> HIDE DEF v, l, x
    <3>2. l[i - h] = IF i - h <= n THEN accepted + (i - h) ELSE 0
      BY <1>4, <3>1
    <3>3. accepted + (i - h) = s + i
      BY <1>1
    <3> QED
      BY <1>1, <2>1, <3>1, <3>2, <3>3
  <2>2. CASE i <= h
    <3>1. ~(i - h >= 1)
      BY <1>1, <2>2
    <3> HIDE DEF x
    <3> QED
      BY <1>1, <1>5, <2>2, <3>1
  <2> QED
    BY <1>1, <2>1, <2>2
<1> HIDE DEF x, h
<1> QED
  BY <1>1, <1>6, <1>7, <1>8 DEF Merge

(* What does not fit starts the next word. *)
LEMMA RestHolds ==
  ASSUME NEW n \in 1 .. W, availBits \in 1 .. W, accepted \in Nat, NEW s \in Nat,
         accepted = s + (W - availBits), n >= availBits
  PROVE  Holds(RestOf(n), s + W, n - availBits)
<1> DEFINE v == Value(accepted + 1, n)
           d == W - (n - availBits)
<1>1. W \in Nat \ {0} /\ d \in 1 .. W
  BY WordSize
<1>2. \A i \in 1 .. W : v[i] = IF i > W - n THEN accepted + 1 + i - (W - n) - 1 ELSE 0
  BY DEF Value
<1>3. \A i \in 1 .. W : RestOf(n)[i] = IF i + d <= W THEN v[i + d] ELSE 0
  BY DEF RestOf, ShiftLeft
<1> SUFFICES ASSUME NEW i \in 1 .. W
             PROVE  RestOf(n)[i] = IF i <= n - availBits THEN s + W + i ELSE 0
  BY DEF Holds
<1>4. CASE i <= n - availBits
  <2>1. i + d \in 1 .. W /\ i + d > W - n
    BY <1>1, <1>4
  <2>2. v[i + d] = accepted + 1 + (i + d) - (W - n) - 1
    BY <1>2, <2>1
  <2>3. accepted + 1 + (i + d) - (W - n) - 1 = s + W + i
    BY <1>1
  <2> HIDE DEF v, d
  <2> QED
    BY <1>3, <1>4, <2>1, <2>2, <2>3
<1>5. CASE i > n - availBits
  <2>1. ~(i + d <= W)
    BY <1>1, <1>5
  <2> HIDE DEF v, d
  <2> QED
    BY <1>3, <1>5, <2>1, WordSize
<1> QED
  BY <1>1, <1>4, <1>5

(* A word of the array, split behind the W - a bits of the word before.    *)
LEMMA WordIs ==
  ASSUME NEW k \in Nat, accepted \in Nat
  PROVE  \A i \in 1 .. W : Word(k)[i] = accepted + k * W + i
<1>1. \A i \in 1 .. W : i > W - W /\ W \in Nat
  BY WordSize
<1>2. \A i \in 1 .. W : Word(k)[i] = (accepted + k * W + 1) + i - (W - W) - 1
  BY <1>1 DEF Word, Value
<1>3. k * W \in Int
  BY WordSize
<1> QED
  BY <1>1, <1>2, <1>3

LEMMA FirstIs ==
  ASSUME a \in 1 .. W - 1, accepted \in Nat, NEW s \in Nat, accepted = s + (W - a),
         Holds(current, s, W - a)
  PROVE  Holds(Or(current, ShiftRight(Word(0), W - a)), s, W)
<1> DEFINE w == Word(0)
           x == ShiftRight(w, W - a)
<1>1. W \in Nat \ {0} /\ 0 * W = 0
  BY WordSize
<1>2. \A i \in 1 .. W : w[i] = accepted + i
  BY <1>1, WordIs
<1>3. \A i \in 1 .. W : x[i] = IF i - (W - a) >= 1 THEN w[i - (W - a)] ELSE 0
  BY DEF ShiftRight
<1>4. \A i \in 1 .. W : Or(current, x)[i] = Merge(current[i], x[i])
  BY DEF Or
<1> HIDE DEF w
<1>5. \A i \in 1 .. W : x[i] = IF i > W - a THEN s + i ELSE 0
  <2> TAKE i \in 1 .. W
  <2> HIDE DEF x
  <2>1. CASE i > W - a
    <3>1. i - (W - a) \in 1 .. W
      BY <1>1, <2>1
    <3> QED
      BY <1>1, <1>2, <1>3, <2>1, <3>1
  <2>2. CASE i <= W - a
    BY <1>1, <1>3, <2>2
  <2> QED
    BY <1>1, <2>1, <2>2
<1> HIDE DEF x
<1>6. \A i \in 1 .. W : Or(current, x)[i] = s + i
  BY <1>1, <1>4, <1>5 DEF Merge, Holds
<1> QED
  BY <1>6, <1>1 DEF Holds, w, x

LEMMA SplitIs ==
  ASSUME a \in 1 .. W - 1, accepted \in Nat, NEW s \in Nat, accepted = s + (W - a),
         NEW k \in 1 .. 3
  PROVE  Holds(Split(k), s + k * W, W)
<1> DEFINE u == Word(k - 1)
           v == Word(k)
           x == ShiftLeft(u, a)
           y == ShiftRight(v, W - a)
<1>1. W \in Nat \ {0} /\ (k - 1) * W = k * W - W /\ k * W \in Nat
  <2>1. (k - 1) * W = k * W - 1 * W /\ 1 * W = W
    BY WordSize, Distribute
  <2>2. k \in Nat /\ W \in Nat \ {0}
    BY WordSize
  <2>3. k * W \in Nat
    BY <2>2, TimesOrder
  <2> QED
    BY <2>1, <2>2, <2>3
<1>2. \A i \in 1 .. W : u[i] = accepted + (k * W - W) + i
  BY <1>1, WordIs
<1>3. \A i \in 1 .. W : v[i] = accepted + k * W + i
  BY WordIs
<1>4. \A i \in 1 .. W : x[i] = IF i + a <= W THEN u[i + a] ELSE 0
  BY DEF ShiftLeft
<1>5. \A i \in 1 .. W : y[i] = IF i - (W - a) >= 1 THEN v[i - (W - a)] ELSE 0
  BY DEF ShiftRight
<1>6. \A i \in 1 .. W : Split(k)[i] = Merge(x[i], y[i])
  BY DEF Split, Or
<1> HIDE DEF u, v, x, y
<1> DEFINE kw == k * W
<1> HIDE DEF kw
<1> SUFFICES ASSUME NEW i \in 1 .. W
             PROVE  Split(k)[i] = s + kw + i
  BY <1>1 DEF Holds, kw
<1>7. CASE i <= W - a
  <2>1. i + a \in 1 .. W /\ ~(i - (W - a) >= 1)
    BY <1>1, <1>7
  <2>2. x[i] = accepted + (kw - W) + (i + a) /\ y[i] = 0
    BY <1>2, <1>4, <1>5, <2>1 DEF kw
  <2>3. accepted + (kw - W) + (i + a) = s + kw + i
    BY <1>1 DEF kw
  <2> QED
    BY <1>6, <2>2, <2>3 DEF Merge
<1>8. CASE i > W - a
  <2>1. ~(i + a <= W) /\ i - (W - a) \in 1 .. W /\ i - (W - a) >= 1
    BY <1>1, <1>8
  <2>2. x[i] = 0 /\ y[i] = accepted + kw + (i - (W - a))
    BY <1>3, <1>4, <1>5, <2>1 DEF kw
  <2>3. accepted + kw + (i - (W - a)) = s + kw + i
    BY <1>1 DEF kw
  <2> QED
    BY <1>6, <2>2, <2>3 DEF Merge
<1> QED
  BY <1>1, <1>7, <1>8

LEMMA LastHolds ==
  ASSUME a \in 1 .. W - 1, accepted \in Nat, NEW s \in Nat, accepted = s + (W - a),
         NEW k \in Nat
  PROVE  Holds(LastPart(Word(k)), s + k * W + W, W - a)
<1> DEFINE v == Word(k)
           kw == k * W
<1>1. W \in Nat \ {0} /\ kw \in Int
  BY WordSize
<1>2. \A i \in 1 .. W : v[i] = accepted + kw + i
  BY WordIs
<1>3. \A i \in 1 .. W : LastPart(v)[i] = IF i + a <= W THEN v[i + a] ELSE 0
  BY DEF LastPart, ShiftLeft
<1> HIDE DEF v, kw
<1> SUFFICES ASSUME NEW i \in 1 .. W
             PROVE  LastPart(v)[i] = IF i <= W - a THEN s + kw + W + i ELSE 0
  BY DEF Holds, v, kw
<1>4. CASE i <= W - a
  <2>1. i + a \in 1 .. W
    BY <1>1, <1>4
  <2>2. accepted + kw + (i + a) = s + kw + W + i
    BY <1>1
  <2> QED
    BY <1>1, <1>2, <1>3, <1>4, <2>1, <2>2
<1>5. CASE i > W - a
  BY <1>1, <1>3, <1>5
<1> QED
  BY <1>1, <1>4, <1>5

(* A word that holds bits that were accepted has its type. *)
LEMMA WordType ==
  ASSUME NEW w, w = [i \in 1 .. W |-> w[i]], NEW s \in Nat, NEW n \in 0 .. W,
         Holds(w, s, n), s + n <= MaxBits
  PROVE  w \in [1 .. W -> Bits]
<1>1. \A i \in 1 .. W : w[i] \in Bits
  BY WordSize, BufferSize DEF Holds, Bits
<1> QED
  BY <1>1

LEMMA WordsAre ==
  ASSUME NEW n, NEW v, NEW w
  PROVE  /\ WithBits(n) = [i \in 1 .. W |-> WithBits(n)[i]]
         /\ RestOf(n) = [i \in 1 .. W |-> RestOf(n)[i]]
         /\ Or(v, w) = [i \in 1 .. W |-> Or(v, w)[i]]
         /\ Split(n) = [i \in 1 .. W |-> Split(n)[i]]
         /\ LastPart(v) = [i \in 1 .. W |-> LastPart(v)[i]]
  BY DEF WithBits, RestOf, Or, Split, LastPart, ShiftLeft, ShiftRight

LEMMA ZeroHolds ==
  /\ Zero \in [1 .. W -> Bits]
  /\ \A s : Holds(Zero, s, 0)
  BY WordSize, BufferSize DEF Zero, Holds, Bits

LEMMA BitRangeIs ==
  ASSUME NEW m \in Nat, NEW n \in Nat, m + n <= MaxBits
  PROVE  /\ BitRange(m + 1, m + n) \in Seq(Bits) /\ Len(BitRange(m + 1, m + n)) = n
         /\ \A i \in 1 .. n : BitRange(m + 1, m + n)[i] = m + i
<1> DEFINE f == BitRange(m + 1, m + n)
<1>1. f = [i \in 1 .. n |-> m + i]
  <2>1. (m + n) - (m + 1) + 1 = n
    OBVIOUS
  <2>2. \A i \in 1 .. n : (m + 1) + i - 1 = m + i
    OBVIOUS
  <2> QED
    BY <2>1, <2>2 DEF BitRange
<1>2. f \in [1 .. n -> Bits]
  <2>1. \A i \in 1 .. n : m + i \in Bits
    BY BufferSize DEF Bits
  <2> QED
    BY <1>1, <2>1
<1> HIDE DEF f
<1> QED
  BY <1>1, <1>2, SequenceIs DEF f

-----------------------------------------------------------------------------
(* The buffer. *)

LEMMA PutIs ==
  ASSUME NEW buf \in [Places -> Bits], NEW p \in Nat, NEW bits \in Seq(Bits)
  PROVE  /\ Put(buf, p, bits) \in [Places -> Bits]
         /\ \A i \in Places : Put(buf, p, bits)[i] =
              IF BitsOf(p) < i + 1 /\ i < BitsOf(p) + Len(bits)
              THEN bits[i - BitsOf(p) + 1] ELSE buf[i]
<1> DEFINE q == BitsOf(p)
           n == Len(bits)
           e(i) == IF i \in q .. q + n - 1 THEN bits[i - q + 1] ELSE buf[i]
<1>1. q \in Nat /\ q = p * ByteBits /\ n \in Nat /\ \A i \in 1 .. n : bits[i] \in Bits
  BY BitsOfNat, ElementOfSeq, LenProperties
<1>2. Put(buf, p, bits) = [i \in Places |-> e(i)]
  BY <1>1 DEF Put
<1> HIDE DEF q, n
<1>3. \A i \in Places : i \in Int
  BY DEF Places
<1>4. \A i \in Places : e(i) \in Bits
  <2> TAKE i \in Places
  <2>1. CASE i \in q .. q + n - 1
    <3>1. i - q + 1 \in 1 .. n
      BY <1>1, <2>1
    <3> QED
      BY <1>1, <2>1, <3>1
  <2>2. CASE i \notin q .. q + n - 1
    BY <2>2
  <2> QED
    BY <2>1, <2>2
<1>5. \A i \in Places : i \in q .. q + n - 1 <=> q < i + 1 /\ i < q + n
  BY <1>1, <1>3
<1> QED
  BY <1>2, <1>4, <1>5 DEF q, n

(* Bytes that fit in the buffer have their places there. *)
LEMMA BytesFit ==
  ASSUME NEW n \in Nat, n <= BufferBytes
  PROVE  BitsOf(n) \in Nat /\ 0 .. BitsOf(n) - 1 \subseteq Places
<1>1. BitsOf(n) \in Nat /\ BitsOf(n) <= BitsOf(BufferBytes) /\ BitsOf(BufferBytes) \in Nat
  <2>1. BufferBytes \in Nat
    BY BufferSize
  <2> QED
    BY <2>1, BitsOfIs
<1>2. BitsOf(BufferBytes) = BufferBytes * ByteBits
  BY DEF BitsOf
<1> QED
  BY <1>1, <1>2 DEF Places

(* A sequence of n bits, in order, from the one behind s on. *)
Run(bits, s, n) ==
  bits \in Seq(Bits) /\ Len(bits) = n /\ \A i \in 1 .. n : bits[i] = s + i

(* Bits that are put behind those that are there. *)
LEMMA PutAppends ==
  ASSUME NEW buf \in [Places -> Bits], NEW p \in Nat, NEW k \in Nat, p + k <= BufferBytes,
         NEW s \in Nat, Goes(buf, p, s), NEW bits, Run(bits, s + BitsOf(p), BitsOf(k))
  PROVE  Put(buf, p, bits) \in [Places -> Bits] /\ Goes(Put(buf, p, bits), p + k, s)
<1> DEFINE q == BitsOf(p)
           n == BitsOf(k)
<1>1. q \in Nat /\ n \in Nat /\ BitsOf(p + k) = q + n
  BY BitsOfIs
<1>2. 0 .. q + n - 1 \subseteq Places
  BY <1>1, BytesFit
<1> HIDE DEF q, n
<1> SUFFICES ASSUME NEW i \in 0 .. q + n - 1
             PROVE  Put(buf, p, bits)[i] = s + i + 1
  BY <1>1, PutIs DEF Goes, Run
<1>3. Put(buf, p, bits)[i] =
        IF q < i + 1 /\ i < q + n THEN bits[i - q + 1] ELSE buf[i]
  BY <1>2, PutIs DEF q, n, Run
<1>4. CASE i < q
  BY <1>1, <1>3, <1>4 DEF q, Goes
<1>5. CASE i >= q
  <2>1. i - q + 1 \in 1 .. n
    BY <1>1, <1>5
  <2>2. bits[i - q + 1] = s + q + (i - q + 1)
    BY <2>1 DEF q, n, Run
  <2> QED
    BY <1>1, <1>3, <1>5, <2>2
<1> QED
  BY <1>1, <1>4, <1>5

(* What the io.Writer gets of a buffer with n bytes.                       *)
Out(buf, n) == [i \in 1 .. BitsOf(n) |-> buf[i - 1]]

LEMMA OutIs ==
  ASSUME NEW buf \in [Places -> Bits], NEW n \in 0 .. BufferBytes, sink \in Seq(Bits)
  PROVE  LET s == sink \o Out(buf, n)
         IN /\ s \in Seq(Bits) /\ Len(s) = Len(sink) + BitsOf(n)
            /\ \A i \in 1 .. Len(s) :
                 s[i] = IF i <= Len(sink) THEN sink[i] ELSE buf[i - Len(sink) - 1]
            /\ Len(sink) \in Nat /\ BitsOf(n) \in Nat
            /\ (\E k \in Nat : Len(sink) = BitsOf(k)) => \E k \in Nat : Len(s) = BitsOf(k)
<1>1. BitsOf(n) \in Nat /\ 0 .. BitsOf(n) - 1 \subseteq Places /\ Len(sink) \in Nat
  BY BytesFit, BufferSize, LenProperties
<1>2. \A i \in 1 .. BitsOf(n) : i - 1 \in Places
  BY <1>1
<1>3. Out(buf, n) \in [1 .. BitsOf(n) -> Bits]
  BY <1>2 DEF Out
<1>4. Out(buf, n) \in Seq(Bits) /\ Len(Out(buf, n)) = BitsOf(n)
  BY <1>1, <1>3, SequenceIs
<1> DEFINE s == sink \o Out(buf, n)
<1>5. /\ s \in Seq(Bits) /\ Len(s) = Len(sink) + BitsOf(n)
      /\ \A i \in 1 .. Len(sink) + BitsOf(n) :
           s[i] = IF i <= Len(sink) THEN sink[i] ELSE Out(buf, n)[i - Len(sink)]
  BY <1>4, ConcatProperties
<1>6. \A i \in 1 .. BitsOf(n) : Out(buf, n)[i] = buf[i - 1]
  BY DEF Out
<1> HIDE DEF s
<1>7. \A i \in 1 .. Len(s) :
        s[i] = IF i <= Len(sink) THEN sink[i] ELSE buf[i - Len(sink) - 1]
  <2> TAKE i \in 1 .. Len(s)
  <2>1. CASE i <= Len(sink)
    BY <1>1, <1>5, <2>1
  <2>2. CASE i > Len(sink)
    <3>1. i - Len(sink) \in 1 .. BitsOf(n)
      BY <1>1, <1>5, <2>2
    <3> QED
      BY <1>1, <1>5, <1>6, <2>2, <3>1
  <2> QED
    BY <1>1, <1>5, <2>1, <2>2
<1>8. ASSUME NEW k \in Nat, Len(sink) = BitsOf(k)
      PROVE  \E j \in Nat : Len(s) = BitsOf(j)
  <2>1. Len(s) = BitsOf(k + n) /\ k + n \in Nat
    BY <1>5, <1>8, BitsOfIs, BufferSize
  <2> QED
    BY <2>1
<1> QED
  BY <1>1, <1>5, <1>7, <1>8 DEF s

LEMMA OutHolds ==
  ASSUME NEW buf \in [Places -> Bits], NEW n \in 0 .. BufferBytes, sink \in Seq(Bits),
         SinkIs, Goes(buf, n, Len(sink))
  PROVE  LET s == sink \o Out(buf, n) IN \A i \in 1 .. Len(s) : s[i] = i
<1> DEFINE s == sink \o Out(buf, n)
<1>1. /\ Len(s) = Len(sink) + BitsOf(n) /\ Len(sink) \in Nat /\ BitsOf(n) \in Nat
      /\ \A i \in 1 .. Len(s) :
           s[i] = IF i <= Len(sink) THEN sink[i] ELSE buf[i - Len(sink) - 1]
  BY OutIs
<1> HIDE DEF s
<1> SUFFICES ASSUME NEW i \in 1 .. Len(s) PROVE s[i] = i
  BY DEF s
<1>2. CASE i <= Len(sink)
  BY <1>1, <1>2 DEF SinkIs
<1>3. CASE i > Len(sink)
  <2>1. i - Len(sink) - 1 \in 0 .. BitsOf(n) - 1
    BY <1>1, <1>3
  <2>2. buf[i - Len(sink) - 1] = Len(sink) + (i - Len(sink) - 1) + 1
    BY <2>1 DEF Goes
  <2> QED
    BY <1>1, <1>3, <2>2
<1> QED
  BY <1>1, <1>2, <1>3

-----------------------------------------------------------------------------
(* push *)

StoreTypes ==
  /\ buffer \in [Places -> Bits] /\ sink \in Seq(Bits) /\ written \in Int
  /\ failures \in 0 .. MaxFailures /\ panicked \in BOOLEAN
  /\ position \in 0 .. BufferBytes - (IF panicked THEN 0 ELSE WordBytes)

(* What there is before and after a step that stores bits, in words.       *)
Filled == StoreTypes /\ Aligns /\ SinkIs /\ BufferIs

LEMMA StoredIs ==
  ASSUME StoreTypes
  PROVE  Stored \in Nat /\ Len(sink) \in Nat /\ BitsOf(position) \in Nat
<1>1. position \in Nat
  BY ByteSize, BufferSize DEF StoreTypes
<1>2. BitsOf(position) \in Nat
  BY <1>1, BitsOfNat
<1>3. Len(sink) \in Nat
  BY DEF StoreTypes
<1> QED
  BY <1>2, <1>3 DEF Stored

(* A flush of a buffer that is filled up to pos empties it. *)
LEMMA FlushEffect ==
  ASSUME Filled, NEW pos \in 0 .. BufferBytes, buffer' \in [Places -> Bits],
         Goes(buffer', pos, Len(sink)), Flush(buffer', pos), UNCHANGED panicked
  PROVE  /\ Filled' /\ Stored' = Len(sink) + BitsOf(pos) /\ UNCHANGED failures
         /\ written' - Len(sink') = written - Len(sink)
<1>1. sink' = sink \o Out(buffer', pos)
  BY DEF Flush, Out, BitsOf
<1>2. /\ sink' \in Seq(Bits) /\ Len(sink') = Len(sink) + BitsOf(pos)
      /\ Len(sink) \in Nat /\ BitsOf(pos) \in Nat
      /\ \E k \in Nat : Len(sink') = BitsOf(k)
  BY <1>1, OutIs DEF Filled, StoreTypes, Aligns
<1>3. SinkIs'
  BY <1>1, OutHolds DEF SinkIs, Filled, StoreTypes
<1>4. position' = 0 /\ UNCHANGED failures /\ written' = written + BitsOf(pos)
  BY DEF Flush
<1>5. 0 \in 0 .. BufferBytes - (IF panicked THEN 0 ELSE WordBytes)
  BY ByteSize, BufferSize
<1>6. StoreTypes' /\ BufferIs'
  BY <1>2, <1>4, <1>5, SomeBits DEF StoreTypes, Filled, BufferIs, Goes
<1>7. Aligns'
  <2>1. Multiple(0)
    BY ByteSize DEF Multiple
  <2> QED
    BY <1>2, <1>4, <2>1 DEF Aligns
<1>8. Stored' = Len(sink) + BitsOf(pos)
  BY <1>2, <1>4, SomeBits DEF Stored
<1> QED
  BY <1>2, <1>3, <1>4, <1>6, <1>7, <1>8 DEF Filled, StoreTypes

(* push of a word that continues what is there; if it panics, only the     *)
(* buffer and the position have changed.                                   *)
LEMMA PushEffect ==
  ASSUME Filled, ~panicked, NEW val, Holds(val, Stored, W), Stored + W <= MaxBits,
         NEW atPanic, NEW nextCurrent, NEW nextAvail, NEW n,
         Push(val, atPanic, nextCurrent, nextAvail, n)
  PROVE  \/ /\ panicked' /\ StoreTypes' /\ Aligns' /\ failures' > 0
            /\ current' = atPanic /\ UNCHANGED <<availBits, accepted, sink, written>>
         \/ /\ ~panicked' /\ Filled' /\ Stored' = Stored + W
            /\ written' - Len(sink') = written - Len(sink)
            /\ current' = nextCurrent /\ availBits' = nextAvail /\ accepted' = accepted + n
            /\ UNCHANGED failures
<1> DEFINE pos == position + WordBytes
<1>1. /\ position \in 0 .. BufferBytes - WordBytes /\ Multiple(position)
      /\ WordBytes \in Nat \ {0} /\ BufferBytes \in Nat /\ Multiple(BufferBytes)
  BY ByteSize, BufferSize DEF Filled, StoreTypes, Aligns
<1>2. pos \in 0 .. BufferBytes /\ position \in Nat /\ pos \in Nat /\ Multiple(pos)
  <2>1. Multiple(WordBytes) /\ WordBytes \in Int
    BY <1>1, MultipleIs
  <2> QED
    BY <1>1, <2>1, MultipleIs
<1>3. Stored \in Nat /\ Len(sink) \in Nat /\ Stored = Len(sink) + BitsOf(position)
  BY StoredIs DEF Filled, Stored
<1>4. BitsOf(pos) = BitsOf(position) + W /\ BitsOf(position) \in Nat /\ W \in Nat
  BY <1>1, <1>2, BitsOfIs, WordSize
<1>5. Run(Flat(val), Len(sink) + BitsOf(position), BitsOf(WordBytes))
  <2>1. \A i \in 1 .. W : val[i] = Stored + i /\ val[i] \in Bits
    BY <1>3, <1>4, BufferSize DEF Holds, Bits
  <2> QED
    BY <1>3, <2>1, FlatIs, WordSize DEF Run
<1>6. buffer' = Put(buffer, position, Flat(val))
  BY DEF Push
<1>7. buffer' \in [Places -> Bits] /\ Goes(buffer', pos, Len(sink))
  <2>1. buffer \in [Places -> Bits] /\ WordBytes \in Nat /\ position + WordBytes <= BufferBytes
    BY <1>1 DEF Filled, StoreTypes
  <2>2. Goes(buffer, position, Len(sink))
    BY DEF Filled, BufferIs
  <2> QED
    BY <1>2, <1>3, <1>5, <1>6, <2>1, <2>2, PutAppends
<1> HIDE DEF pos
<1>8. CASE /\ Full(pos) /\ Flush(buffer', pos)
           /\ current' = nextCurrent /\ availBits' = nextAvail
           /\ accepted' = accepted + n /\ UNCHANGED panicked
  <2>1. /\ Filled' /\ Stored' = Len(sink) + BitsOf(pos) /\ UNCHANGED failures
        /\ written' - Len(sink') = written - Len(sink)
    BY <1>2, <1>7, <1>8, FlushEffect
  <2>2. Len(sink) + BitsOf(pos) = Stored + W
    BY <1>3, <1>4
  <2> QED
    BY <1>8, <2>1, <2>2
<1>9. CASE /\ Full(pos) /\ FlushFails(pos) /\ panicked' = TRUE
           /\ current' = atPanic /\ UNCHANGED <<availBits, accepted>>
  <2>1. position' = pos /\ failures' \in 0 .. MaxFailures /\ failures' > 0
        /\ UNCHANGED <<sink, written>>
    BY <1>9, BufferSize DEF FlushFails, Filled, StoreTypes
  <2>2. StoreTypes'
    BY <1>1, <1>2, <1>7, <1>9, <2>1 DEF StoreTypes, Filled
  <2>3. Aligns'
    BY <1>9, <2>1 DEF Aligns, Filled
  <2> QED
    BY <1>9, <2>1, <2>2, <2>3
<1>10. CASE /\ ~Full(pos) /\ position' = pos
            /\ current' = nextCurrent /\ availBits' = nextAvail
            /\ accepted' = accepted + n
            /\ UNCHANGED <<sink, written, failures, panicked>>
  <2>1. pos \in 0 .. BufferBytes - WordBytes
    BY <1>1, <1>2, <1>10 DEF Full
  <2>2. StoreTypes'
    BY <1>7, <1>10, <2>1 DEF StoreTypes, Filled
  <2>3. Aligns' /\ SinkIs' /\ BufferIs'
    BY <1>2, <1>7, <1>10 DEF Aligns, Filled, SinkIs, BufferIs
  <2>4. Stored' = Stored + W
    BY <1>3, <1>4, <1>10 DEF Stored
  <2>5. written' - Len(sink') = written - Len(sink)
    BY <1>10
  <2> QED
    BY <1>10, <2>2, <2>3, <2>4, <2>5 DEF Filled
<1>11. \/ /\ Full(pos) /\ Flush(buffer', pos)
          /\ current' = nextCurrent /\ availBits' = nextAvail
          /\ accepted' = accepted + n /\ UNCHANGED panicked
       \/ /\ Full(pos) /\ FlushFails(pos) /\ panicked' = TRUE
          /\ current' = atPanic /\ UNCHANGED <<availBits, accepted>>
       \/ /\ ~Full(pos) /\ position' = pos
          /\ current' = nextCurrent /\ availBits' = nextAvail
          /\ accepted' = accepted + n
          /\ UNCHANGED <<sink, written, failures, panicked>>
  BY DEF Push, pos
<1> QED
  BY <1>8, <1>9, <1>10, <1>11

-----------------------------------------------------------------------------
(* WriteBits and WriteBit. *)

(* The current word continues what is stored with m bits.                  *)
Continues(m) == accepted = Stored + m /\ Holds(current, Stored, m)

(* A step that takes n bits, or panics.                                    *)
Took(n) ==
  /\ StoreTypes' /\ Aligns' /\ current' \in [1 .. W -> Bits] /\ availBits' \in 1 .. W
  /\ \/ panicked' /\ failures' > 0 /\ UNCHANGED accepted
     \/ /\ ~panicked' /\ Filled' /\ Continues(W - availBits)'
        /\ written' - Len(sink') = written - Len(sink)
        /\ accepted' = accepted + n /\ UNCHANGED failures

LEMMA AppendEffect ==
  ASSUME Filled, ~panicked, availBits \in 1 .. W, accepted \in Nat, Continues(W - availBits),
         NEW n \in 1 .. W, accepted + n <= MaxBits, AppendBits(n)
  PROVE  Took(n)
<1> DEFINE h == W - availBits
<1>1. /\ W \in Nat \ {0} /\ h \in 0 .. W - 1 /\ Stored \in Nat /\ MaxBits \in Nat
      /\ accepted = Stored + h
  <2>1. W \in Nat \ {0}
    BY WordSize
  <2>2. Stored \in Nat
    BY StoredIs DEF Filled
  <2>3. MaxBits \in Nat
    BY BufferSize
  <2> QED
    BY <2>1, <2>2, <2>3 DEF Continues
<1>2. Holds(WithBits(n), Stored, h + n)
  BY <1>1, WithBitsHolds DEF Continues
<1>3. CASE n >= availBits
  <2>1. Holds(WithBits(n), Stored, W) /\ WithBits(n) \in [1 .. W -> Bits]
    <3>1. \A i \in 1 .. W : i <= h + n
      BY <1>1, <1>3
    <3>2. Holds(WithBits(n), Stored, W)
      BY <1>1, <1>2, <3>1 DEF Holds
    <3>3. Stored + W <= MaxBits /\ W \in 0 .. W
      BY <1>1, <1>3
    <3> QED
      BY <1>1, <3>2, <3>3, WordType, WordsAre
  <2>2. Holds(RestOf(n), Stored + W, n - availBits) /\ RestOf(n) \in [1 .. W -> Bits]
    <3>1. Holds(RestOf(n), Stored + W, n - availBits)
      BY <1>1, <1>3, RestHolds
    <3>2. Stored + W \in Nat /\ n - availBits \in 0 .. W /\ (Stored + W) + (n - availBits) <= MaxBits
      BY <1>1, <1>3
    <3> QED
      BY <3>1, <3>2, WordType, WordsAre
  <2>3. Push(WithBits(n), WithBits(n), RestOf(n), W - (n - availBits), n)
    BY <1>1, <1>3 DEF AppendBits
  <2>4. Stored + W <= MaxBits
    BY <1>1, <1>3
  <2>5. \/ /\ panicked' /\ StoreTypes' /\ Aligns' /\ failures' > 0
           /\ current' = WithBits(n) /\ UNCHANGED <<availBits, accepted, sink, written>>
        \/ /\ ~panicked' /\ Filled' /\ Stored' = Stored + W
           /\ written' - Len(sink') = written - Len(sink)
           /\ current' = RestOf(n) /\ availBits' = W - (n - availBits)
           /\ accepted' = accepted + n
           /\ UNCHANGED failures
    BY <2>1, <2>3, <2>4, PushEffect
  <2>6. CASE panicked'
    BY <2>1, <2>5, <2>6 DEF Took
  <2>7. CASE ~panicked'
    <3>1. availBits' \in 1 .. W /\ W - availBits' = n - availBits
      BY <1>1, <1>3, <2>5, <2>7
    <3>2. accepted' = Stored' + (W - availBits')
      BY <1>1, <2>5, <2>7, <3>1
    <3>3. Continues(W - availBits)'
      BY <2>2, <2>5, <2>7, <3>1, <3>2 DEF Continues
    <3> QED
      BY <2>2, <2>5, <2>7, <3>1, <3>3 DEF Took, Filled
  <2> QED
    BY <2>6, <2>7
<1>4. CASE n < availBits
  <2>1. /\ current' = WithBits(n) /\ availBits' = availBits - n /\ accepted' = accepted + n
        /\ UNCHANGED <<written, position, buffer, sink, failures, panicked>>
    BY <1>1, <1>4 DEF AppendBits
  <2>2. /\ Filled' /\ Stored' = Stored
        /\ written' - Len(sink') = written - Len(sink)
    BY <2>1 DEF Filled, StoreTypes, Aligns, SinkIs, BufferIs, Stored
  <2>3. availBits' \in 1 .. W /\ W - availBits' = h + n /\ accepted' = Stored' + (W - availBits')
    BY <1>1, <1>4, <2>1, <2>2
  <2>4. WithBits(n) \in [1 .. W -> Bits]
    <3>1. h + n \in 0 .. W /\ Stored + (h + n) <= MaxBits
      BY <1>1, <1>4
    <3> QED
      BY <1>1, <1>2, <3>1, WordType, WordsAre
  <2>5. Continues(W - availBits)'
    BY <1>2, <2>1, <2>2, <2>3 DEF Continues
  <2> QED
    BY <2>1, <2>2, <2>3, <2>4, <2>5 DEF Took, Filled
<1> QED
  BY <1>1, <1>3, <1>4

(* One bit goes where the first of the bits of WriteBits would go.         *)
LEMMA OneBitHolds ==
  ASSUME availBits \in 1 .. W, accepted \in Nat, NEW s \in Nat,
         accepted = s + (W - availBits), Holds(current, s, W - availBits)
  PROVE  LET x == Value(accepted + 1, 1)
         IN /\ availBits = 1 => Holds(Or(current, x), s, W)
            /\ Holds(Or(current, ShiftLeft(x, availBits - 1)), s, W - availBits + 1)
<1> DEFINE x == Value(accepted + 1, 1)
           y == ShiftLeft(x, availBits - 1)
<1>1. W \in Nat \ {0}
  BY WordSize
<1>2. \A i \in 1 .. W : x[i] = IF i = W THEN accepted + 1 ELSE 0
  BY <1>1 DEF Value
<1>3. \A i \in 1 .. W : y[i] = IF i + (availBits - 1) <= W THEN x[i + (availBits - 1)] ELSE 0
  BY DEF ShiftLeft
<1>4. \A i \in 1 .. W : /\ Or(current, x)[i] = Merge(current[i], x[i])
                        /\ Or(current, y)[i] = Merge(current[i], y[i])
  BY DEF Or
<1> HIDE DEF x, y
<1>5. \A i \in 1 .. W : y[i] = IF i = W - availBits + 1 THEN accepted + 1 ELSE 0
  <2> TAKE i \in 1 .. W
  <2>1. CASE i + (availBits - 1) <= W
    <3>1. i + (availBits - 1) \in 1 .. W
      BY <1>1, <2>1
    <3> QED
      BY <1>1, <1>2, <1>3, <2>1, <3>1
  <2>2. CASE i + (availBits - 1) > W
    BY <1>1, <1>3, <2>2
  <2> QED
    BY <1>1, <2>1, <2>2
<1>6. ASSUME availBits = 1 PROVE Holds(Or(current, x), s, W)
  BY <1>1, <1>2, <1>4, <1>6 DEF Holds, Merge
<1>7. Holds(Or(current, y), s, W - availBits + 1)
  BY <1>1, <1>4, <1>5 DEF Holds, Merge
<1> QED
  BY <1>6, <1>7 DEF x, y

LEMMA BitEffect ==
  ASSUME Filled, ~panicked, availBits \in 1 .. W, accepted \in Nat, Continues(W - availBits),
         current \in [1 .. W -> Bits], accepted + 1 <= MaxBits, WriteBit
  PROVE  Took(1)
<1> DEFINE x == Value(accepted + 1, 1)
           y == ShiftLeft(x, availBits - 1)
<1>1. /\ W \in Nat \ {0} /\ Stored \in Nat /\ MaxBits \in Nat
      /\ accepted = Stored + (W - availBits)
  <2>1. W \in Nat \ {0}
    BY WordSize
  <2>2. Stored \in Nat
    BY StoredIs DEF Filled
  <2>3. MaxBits \in Nat
    BY BufferSize
  <2> QED
    BY <2>1, <2>2, <2>3 DEF Continues
<1>2. /\ availBits = 1 => Holds(Or(current, x), Stored, W)
      /\ Holds(Or(current, y), Stored, W - availBits + 1)
  BY <1>1, OneBitHolds DEF Continues
<1> HIDE DEF x, y
<1>3. CASE availBits <= 1
  <2>1. availBits = 1 /\ Holds(Or(current, x), Stored, W) /\ Stored + W <= MaxBits
    BY <1>1, <1>2, <1>3
  <2>2. Push(Or(current, x), current, Zero, W, 1)
    BY <1>3 DEF WriteBit, x
  <2>3. \/ /\ panicked' /\ StoreTypes' /\ Aligns' /\ failures' > 0
           /\ current' = current /\ UNCHANGED <<availBits, accepted, sink, written>>
        \/ /\ ~panicked' /\ Filled' /\ Stored' = Stored + W
           /\ written' - Len(sink') = written - Len(sink)
           /\ current' = Zero /\ availBits' = W /\ accepted' = accepted + 1
           /\ UNCHANGED failures
    BY <2>1, <2>2, PushEffect
  <2>4. CASE panicked'
    BY <2>3, <2>4 DEF Took
  <2>5. CASE ~panicked'
    <3>1. availBits' \in 1 .. W /\ W - availBits' = 0 /\ accepted' = Stored' + 0
      BY <1>1, <2>1, <2>3, <2>5
    <3>2. Continues(W - availBits)'
      BY <2>3, <2>5, <3>1, ZeroHolds DEF Continues
    <3> QED
      BY <2>3, <2>5, <3>1, <3>2, ZeroHolds DEF Took, Filled
  <2> QED
    BY <2>4, <2>5
<1>4. CASE availBits > 1
  <2>1. /\ current' = Or(current, y) /\ availBits' = availBits - 1 /\ accepted' = accepted + 1
        /\ UNCHANGED <<written, position, buffer, sink, failures, panicked>>
    BY <1>4 DEF WriteBit, x, y
  <2>2. /\ Filled' /\ Stored' = Stored
        /\ written' - Len(sink') = written - Len(sink)
    BY <2>1 DEF Filled, StoreTypes, Aligns, SinkIs, BufferIs, Stored
  <2>3. /\ availBits' \in 1 .. W /\ W - availBits' = W - availBits + 1
        /\ accepted' = Stored' + (W - availBits')
    BY <1>1, <1>4, <2>1, <2>2
  <2>4. Or(current, y) \in [1 .. W -> Bits]
    <3>1. W - availBits + 1 \in 0 .. W /\ Stored + (W - availBits + 1) <= MaxBits
      BY <1>1, <1>4
    <3> QED
      BY <1>1, <1>2, <3>1, WordType, WordsAre
  <2>5. Continues(W - availBits)'
    BY <1>2, <2>1, <2>2, <2>3 DEF Continues
  <2> QED
    BY <2>1, <2>2, <2>3, <2>4, <2>5 DEF Took, Filled
<1> QED
  BY <1>1, <1>3, <1>4

-----------------------------------------------------------------------------
(* The invariant of a stream that is open. *)

Pcs == {"idle", "fill", "copy", "quad", "word", "tail"}

LEMMA OpenState ==
  ASSUME IInv, ~closed, ~panicked
  PROVE  /\ Filled /\ Continues(Held) /\ (failures = 0 => written = Len(sink))
         /\ availBits \in 1 .. W /\ current \in [1 .. W -> Bits] /\ a \in 0 .. W
         /\ pc \in Pcs /\ remaining \in Nat
         /\ accepted \in Nat /\ accepted <= MaxBits /\ MaxBits \in Nat
         /\ closed = FALSE /\ panicked = FALSE
<1>1. TypeOK /\ buffer \in [Places -> Bits] /\ sink \in Seq(Bits)
  BY DEF IInv, Types
<1>2. StoreTypes
  BY <1>1 DEF StoreTypes, TypeOK
<1>3. Aligns /\ SinkIs /\ BufferIs /\ Continues(Held)
  BY DEF IInv, Layout, Continues
<1>4. failures = 0 => written = Len(sink)
  BY DEF IInv, Counted
<1> QED
  BY <1>1, <1>2, <1>3, <1>4, BufferSize DEF TypeOK, Filled, Bits, Pcs

LEMMA OpenIInv ==
  ASSUME StoreTypes', Aligns', closed' = FALSE, current' \in [1 .. W -> Bits],
         availBits' \in 1 .. W, pc' \in Pcs, remaining' \in Nat, a' \in 0 .. W,
         accepted' \in Nat, accepted' <= MaxBits, Loops', panicked' => failures' > 0,
         ~panicked' => Filled' /\ Continues(Held)' /\ (failures' = 0 => written' = Len(sink'))
  PROVE  IInv'
<1>1. TypeOK'
  <2>1. accepted' \in Bits
    BY BufferSize DEF Bits
  <2>2. \A i \in DOMAIN buffer' : buffer'[i] \in Bits
    BY DEF StoreTypes
  <2> QED
    BY <2>1, <2>2 DEF TypeOK, StoreTypes, Pcs
<1>2. Types'
  BY <1>1 DEF Types, StoreTypes
<1>3. Layout'
  BY DEF Layout, Filled, Continues
<1>4. Counted'
  <2>1. ASSUME failures' = 0 PROVE written' = Len(sink')
    <3>1. ~(failures' > 0)
      BY <2>1
    <3> QED
      BY <2>1, <3>1
  <2>2. Sound' => ~panicked'
    <3>1. ~(panicked' /\ failures' = 0)
      BY DEF StoreTypes
    <3> QED
      BY <3>1 DEF Sound
  <2>3. ~panicked' => position' <= BufferBytes - WordBytes /\ accepted' = (Stored + Held)'
    BY BufferSize, ByteSize DEF StoreTypes, Filled, Continues
  <2> QED
    BY <2>1, <2>2, <2>3 DEF Counted
<1>5. ClosedIsComplete'
  BY DEF ClosedIsComplete
<1> QED
  BY <1>2, <1>3, <1>4, <1>5 DEF IInv

(* A step that takes bits with WriteBits keeps the invariant. *)
LEMMA TookIInv ==
  ASSUME IInv, ~closed, ~panicked, NEW n \in Nat, Took(n), closed' = closed,
         accepted + n <= MaxBits,
         pc' \in {"idle", "fill", "tail"}, panicked' => pc' = "idle",
         remaining' \in Nat, pc' # "idle" => accepted + n + remaining' <= MaxBits,
         a' \in 0 .. W
  PROVE  IInv'
<1>1. /\ accepted \in Nat /\ accepted <= MaxBits
      /\ failures = 0 => written = Len(sink)
      /\ written \in Int /\ Len(sink) \in Nat /\ MaxBits \in Nat
  <2>1. StoreTypes
    BY OpenState DEF Filled
  <2> QED
    BY <2>1, OpenState, StoredIs DEF StoreTypes
<1>2. StoreTypes' /\ Aligns' /\ current' \in [1 .. W -> Bits] /\ availBits' \in 1 .. W
  BY DEF Took
<1>3. accepted' \in Nat /\ accepted' <= MaxBits
  BY <1>1 DEF Took
<1>4. ~Splits' /\ Held' = W - availBits'
  BY DEF Splits, Held
<1>5. Loops'
  BY <1>1, <1>4 DEF Loops, Took
<1>6. ASSUME ~panicked'
      PROVE  Filled' /\ Continues(Held)' /\ (failures' = 0 => written' = Len(sink'))
  <2>1. /\ Filled' /\ Continues(W - availBits)' /\ UNCHANGED failures
        /\ written' - Len(sink') = written - Len(sink)
    BY <1>6 DEF Took
  <2>2. written' \in Int /\ Len(sink') \in Int
    BY <1>2 DEF StoreTypes
  <2>3. Continues(Held)'
    BY <1>4, <2>1 DEF Continues
  <2> QED
    BY <1>1, <2>1, <2>2, <2>3
<1>7. panicked' => failures' > 0
  BY DEF Took
<1>8. closed' = FALSE
  BY OpenState
<1> QED
  BY <1>2, <1>3, <1>5, <1>6, <1>7, <1>8, OpenIInv DEF Pcs

(* A step that only goes to another loop, or leaves one. *)
LEMMA MoveIInv ==
  ASSUME IInv, ~closed, ~panicked,
         UNCHANGED <<closed, written, position, current, buffer, sink, hist>>,
         pc' \in Pcs, remaining' \in Nat, a' \in 0 .. W, availBits' \in 1 .. W,
         Held' = Held, Loops'
  PROVE  IInv'
<1>1. /\ Filled /\ Continues(Held) /\ (failures = 0 => written = Len(sink))
      /\ current \in [1 .. W -> Bits] /\ accepted \in Nat /\ accepted <= MaxBits
  BY OpenState
<1>2. /\ Filled' /\ StoreTypes' /\ Aligns'
      /\ failures' = 0 => written' = Len(sink')
  BY <1>1 DEF Filled, StoreTypes, Aligns, SinkIs, BufferIs, hist
<1>3. Continues(Held)'
  BY <1>1 DEF Continues, Stored, hist
<1>4. current' \in [1 .. W -> Bits] /\ accepted' \in Nat /\ accepted' <= MaxBits
  BY <1>1 DEF hist
<1>5. closed' = FALSE /\ panicked' = FALSE
  BY OpenState DEF hist
<1>6. panicked' => failures' > 0
  BY <1>5
<1> QED
  BY <1>2, <1>3, <1>4, <1>5, <1>6, OpenIInv

(* A call that ends with a panic, but leaves everything else as it is.     *)
LEMMA StopIInv ==
  ASSUME IInv, ~closed, ~panicked, pc = "tail", panicked' = TRUE, pc' = "idle",
         a' \in 0 .. W,
         UNCHANGED <<closed, written, position, availBits, current, buffer, sink,
                     remaining, accepted, failures>>
  PROVE  IInv'
<1>1. /\ Filled /\ Continues(Held) /\ (failures = 0 => written = Len(sink))
      /\ TypeOK /\ closed = FALSE /\ panicked = FALSE
  BY OpenState DEF IInv, Types
<1>2. position' \in 0 .. BufferBytes - WordBytes
  BY <1>1 DEF TypeOK
<1>3. TypeOK'
  <2>1. position' \in 0 .. BufferBytes - (IF panicked' THEN 0 ELSE WordBytes)
    BY <1>2, BufferSize, ByteSize
  <2>2. closed' \in BOOLEAN /\ panicked' \in BOOLEAN
    BY <1>1
  <2>3. {closed', panicked'} \subseteq BOOLEAN
    BY <2>2, Zenon
  <2> QED
    BY <1>1, <2>1, <2>3 DEF TypeOK
<1>4. Types' /\ Loops' /\ Aligns' /\ Layout'
  BY <1>1, <1>3 DEF IInv, Types, Loops, Splits, Aligns, Layout
<1>5. Stored' = Stored /\ Held' = Held
  BY DEF Stored, Held, Splits
<1>6. Counted'
  BY <1>1, <1>2, <1>5, BufferSize, ByteSize DEF Counted, Continues
<1>7. ClosedIsComplete'
  BY <1>1 DEF ClosedIsComplete
<1> QED
  BY <1>4, <1>6, <1>7 DEF IInv

-----------------------------------------------------------------------------
(* Every action keeps the invariant. *)

LEMMA Busy == IInv /\ pc # "idle" => ~closed /\ ~panicked
  BY DEF IInv, Loops

LEMMA InitIInv == Init => IInv
<1> SUFFICES ASSUME Init PROVE IInv
  OBVIOUS
<1> USE DEF Init
<1>1. Blank \in [Places -> Bits]
  BY BufferSize DEF Blank, Places, Bits
<1>2. W \in Nat \ {0} /\ ByteBits \in Nat \ {0} /\ WordBytes \in Nat \ {0}
  BY WordSize, ByteSize
<1>3. /\ BufferBytes \in Nat /\ BufferBytes - WordBytes >= 0
      /\ MaxBits \in Nat /\ MaxFailures \in Nat
  BY <1>2, BufferSize
<1>4. TypeOK
  <2>1. current \in [1 .. W -> Bits] /\ \A i \in DOMAIN buffer : buffer[i] \in Bits
    BY <1>1, ZeroHolds
  <2>2. position \in 0 .. BufferBytes - (IF panicked THEN 0 ELSE WordBytes)
    BY <1>2, <1>3
  <2>3. availBits \in (IF closed THEN {0} ELSE 1 .. W)
    BY <1>2
  <2>4. closed = FALSE /\ panicked = FALSE /\ written = 0
    OBVIOUS
  <2>5. pc \in {"idle", "fill", "copy", "quad", "word", "tail"}
    OBVIOUS
  <2>6. remaining \in Nat /\ a \in 0 .. W /\ accepted \in Bits /\ failures \in 0 .. MaxFailures
    BY <1>2, <1>3 DEF Bits
  <2> HIDE DEF Init
  <2>7. {closed, panicked} \subseteq BOOLEAN
    BY <2>4, Zenon
  <2>8. written \in Int
    BY <2>4
  <2> QED
    BY <2>1, <2>2, <2>3, <2>5, <2>6, <2>7, <2>8 DEF TypeOK
<1>5. Types /\ sink \in Seq(Bits) /\ Len(sink) = 0
  BY <1>1, <1>4 DEF Types
<1>6. Loops
  BY DEF Loops, Splits
<1>7. Aligns
  <2>1. 0 = 0 * WordBytes /\ Len(sink) = BitsOf(0)
    BY <1>2, <1>5, SomeBits
  <2> QED
    BY <2>1 DEF Aligns, Multiple
<1>8. Layout
  <2>1. Stored = 0 /\ Held = 0
    BY <1>2, <1>5, SomeBits DEF Stored, Held, Splits
  <2>2. SinkIs /\ BufferIs
    BY <1>5, SomeBits DEF SinkIs, BufferIs, Goes
  <2>3. Holds(current, 0, 0)
    BY ZeroHolds
  <2> QED
    BY <2>1, <2>2, <2>3 DEF Layout
<1>9. Counted /\ ClosedIsComplete
  <2>1. closed = FALSE /\ panicked = FALSE /\ written = 0 /\ position = 0
    OBVIOUS
  <2> HIDE DEF Init
  <2>2. accepted = Stored + Held
    BY <1>8, <2>1 DEF Layout
  <2> QED
    BY <1>3, <1>5, <2>1, <2>2 DEF Counted, ClosedIsComplete
<1> QED
  BY <1>5, <1>6, <1>7, <1>8, <1>9 DEF IInv

LEMMA StutterIInv == IInv /\ UNCHANGED vars => IInv'
<1> SUFFICES ASSUME IInv, UNCHANGED vars PROVE IInv'
  OBVIOUS
<1> USE DEF vars, fields, call, hist
<1>1. Types'
  BY DEF IInv, Types, TypeOK
<1>2. Loops' /\ Aligns'
  BY DEF IInv, Loops, Splits, Aligns
<1>3. Counted'
  <2>1. Sound' = Sound /\ Stored' = Stored /\ Held' = Held
    BY DEF Sound, Stored, Held, Splits
  <2> QED
    BY <2>1 DEF IInv, Counted
<1>4. Layout'
  BY DEF IInv, Layout, Stored, Held, Splits, SinkIs, BufferIs
<1>5. ClosedIsComplete'
  BY DEF IInv, ClosedIsComplete
<1> QED
  BY <1>1, <1>2, <1>3, <1>4, <1>5 DEF IInv

LEMMA WriteBitsIInv ==
  ASSUME IInv, NEW n \in 1 .. W, Room(n), WriteBits(n)
  PROVE  IInv'
<1>1. pc = "idle" /\ ~closed /\ ~panicked /\ AppendBits(n) /\ UNCHANGED <<closed, call>>
  BY DEF WriteBits, Ready
<1>2. Held = W - availBits
  BY <1>1 DEF Held, Splits
<1>3. Took(n) /\ n \in Nat /\ accepted + n <= MaxBits /\ remaining \in Nat /\ a \in 0 .. W
  BY <1>1, <1>2, OpenState, AppendEffect, WordSize DEF Room
<1> QED
  BY <1>1, <1>3, TookIInv DEF call

LEMMA WriteBitIInv ==
  ASSUME IInv, Room(1), WriteBit
  PROVE  IInv'
<1>1. pc = "idle" /\ ~closed /\ ~panicked /\ UNCHANGED <<closed, call>>
  BY DEF WriteBit, Ready
<1>2. Held = W - availBits
  BY <1>1 DEF Held, Splits
<1>3. Took(1) /\ accepted + 1 <= MaxBits /\ remaining \in Nat /\ a \in 0 .. W
  BY <1>1, <1>2, OpenState, BitEffect DEF Room
<1> QED
  BY <1>1, <1>3, TookIInv DEF call

(* availBits is not a multiple of a byte when the words are split. *)
LEMMA NotAligned ==
  ASSUME availBits \in 1 .. W, ~Aligned
  PROVE  availBits \in 1 .. W - 1
  BY WordSize, WordRemainder DEF Aligned

LEMMA WriteArrayIInv ==
  ASSUME IInv, NEW n \in Nat \ {0}, Room(n), WriteArray(n)
  PROVE  IInv'
<1>1. /\ pc = "idle" /\ ~closed /\ ~panicked /\ remaining' = n /\ a' = availBits
      /\ pc' \in {"fill", "quad", "tail"} /\ (pc' = "quad" => ~Aligned)
      /\ UNCHANGED <<fields, hist>>
  BY DEF WriteArray, Ready
<1>2. availBits \in 1 .. W /\ a' \in 0 .. W
  BY <1>1, OpenState
<1>3. Splits' => a' \in 1 .. W - 1 /\ availBits' = a'
  BY <1>1, <1>2, NotAligned DEF Splits, fields
<1>4. Held' = Held
  BY <1>1, <1>3 DEF Held, Splits, fields
<1>5. Loops'
  BY <1>1, <1>3 DEF Loops, Splits, Room, fields, hist
<1> QED
  BY <1>1, <1>2, <1>4, <1>5, MoveIInv DEF fields, Pcs

LEMMA FillWordIInv ==
  ASSUME IInv, FillWord
  PROVE  IInv'
<1>1. pc = "fill" /\ ~closed /\ ~panicked /\ UNCHANGED <<closed, a>>
  BY Busy DEF FillWord
<1>2. Held = W - availBits /\ accepted + remaining <= MaxBits
  BY <1>1 DEF Held, Splits, IInv, Loops
<1>3. ByteBits \in 1 .. W
  BY ByteSize, WordSize
<1>4. CASE /\ remaining >= ByteBits /\ AppendBits(ByteBits)
           /\ remaining' = remaining - ByteBits /\ Goto("fill")
  <2>1. accepted + ByteBits <= MaxBits /\ remaining' \in Nat
        /\ accepted + ByteBits + remaining' <= MaxBits
    BY <1>1, <1>2, <1>3, <1>4, OpenState
  <2>2. Took(ByteBits)
    BY <1>1, <1>2, <1>3, <1>4, <2>1, OpenState, AppendEffect
  <2>3. pc' \in {"idle", "fill"} /\ (panicked' => pc' = "idle")
    BY <1>4 DEF Goto
  <2> QED
    BY <1>1, <1>3, <2>1, <2>2, <2>3, OpenState, TookIInv
<1>5. CASE /\ ~(availBits # W /\ remaining >= ByteBits) /\ pc' = "copy"
           /\ UNCHANGED <<written, position, availBits, current, buffer, sink, remaining,
                          hist>>
  <2>1. availBits \in 1 .. W /\ remaining \in Nat /\ a \in 0 .. W
    BY <1>1, OpenState
  <2>2. Held' = Held
    BY <1>1, <1>2, <1>5 DEF Held, Splits
  <2>3. availBits = W \/ remaining < ByteBits
    BY <1>3, <1>5, <2>1
  <2>4. Loops'
    BY <1>1, <1>2, <1>5, <2>3 DEF Loops, Splits, hist
  <2> QED
    BY <1>1, <1>5, <2>1, <2>2, <2>4, MoveIInv DEF Pcs
<1> QED
  BY <1>4, <1>5 DEF FillWord

LEMMA TailBitsIInv ==
  ASSUME IInv, TailBits
  PROVE  IInv'
<1>1. /\ pc = "tail" /\ ~closed /\ ~panicked /\ UNCHANGED closed
      /\ a' = (IF pc' = "idle" THEN 0 ELSE a)
  BY Busy DEF TailBits
<1>2. Held = W - availBits /\ accepted + remaining <= MaxBits
  BY <1>1 DEF Held, Splits, IInv, Loops
<1>3. availBits \in 1 .. W /\ remaining \in Nat /\ a' \in 0 .. W /\ accepted \in Nat
  BY <1>1, OpenState, WordSize
<1>4. CASE /\ remaining > 0 /\ AppendBits(MinOf(remaining, ByteBits))
           /\ remaining' = remaining - MinOf(remaining, ByteBits) /\ Goto("tail")
  <2> DEFINE n == MinOf(remaining, ByteBits)
  <2>1. n \in 1 .. W /\ n <= remaining
    BY <1>3, <1>4, ByteSize, WordSize DEF MinOf
  <2> HIDE DEF n
  <2>2. accepted + n <= MaxBits /\ remaining' \in Nat
        /\ accepted + n + remaining' <= MaxBits /\ n \in Nat
    BY <1>2, <1>3, <1>4, <2>1, BufferSize, WordSize DEF n
  <2>3. AppendBits(n)
    BY <1>4 DEF n
  <2>4. Took(n)
    BY <1>1, <1>2, <2>1, <2>2, <2>3, OpenState, AppendEffect
  <2>5. pc' \in {"idle", "tail"} /\ (panicked' => pc' = "idle")
    BY <1>4 DEF Goto
  <2> QED
    BY <1>1, <1>3, <2>2, <2>4, <2>5, TookIInv
<1>5. CASE /\ remaining = 0 /\ pc' = "idle"
           /\ UNCHANGED <<written, position, availBits, current, buffer, sink, remaining,
                          hist>>
  <2>1. Held' = Held
    BY <1>2, <1>5 DEF Held, Splits
  <2>2. Loops'
    BY <1>5 DEF Loops, Splits
  <2> QED
    BY <1>1, <1>3, <1>5, <2>1, <2>2, MoveIInv DEF Pcs
<1>6. CASE /\ panicked' = TRUE /\ pc' = "idle"
           /\ UNCHANGED <<written, position, availBits, current, buffer, sink, remaining,
                          accepted, failures>>
  BY <1>1, <1>3, <1>6, StopIInv
<1> QED
  BY <1>4, <1>5, <1>6 DEF TailBits

(* A step of a loop that stores bits and leaves the current word as it     *)
(* continues them, or panics.                                              *)
LEMMA LoopIInv ==
  ASSUME IInv, ~closed, ~panicked, closed' = closed, StoreTypes', Aligns',
         current' \in [1 .. W -> Bits], availBits' \in 1 .. W,
         pc' \in Pcs, remaining' \in Nat, a' = a, Loops',
         accepted' \in Nat, accepted' <= MaxBits,
         \/ panicked' /\ failures' > 0
         \/ /\ ~panicked' /\ Filled' /\ Continues(Held)'
            /\ written' - Len(sink') = written - Len(sink) /\ UNCHANGED failures
  PROVE  IInv'
<1>1. /\ failures = 0 => written = Len(sink)
      /\ closed' = FALSE /\ a' \in 0 .. W
  BY OpenState
<1>2. written \in Int /\ Len(sink) \in Int
  BY OpenState DEF Filled, StoreTypes
<1>3. written' \in Int /\ Len(sink') \in Int
  BY DEF StoreTypes
<1>4. panicked' => failures' > 0
  OBVIOUS
<1>5. ASSUME ~panicked'
      PROVE  Filled' /\ Continues(Held)' /\ (failures' = 0 => written' = Len(sink'))
  <2>1. /\ Filled' /\ Continues(Held)'
        /\ written' - Len(sink') = written - Len(sink) /\ failures' = failures
    BY <1>5
  <2> QED
    BY <1>1, <1>2, <1>3, <2>1
<1> QED
  BY <1>1, <1>4, <1>5, OpenIInv

(* Bytes of the array that are put behind those in the buffer: either no   *)
(* bit is in the current word, or there are none to put.                   *)
LEMMA BytesAppend ==
  ASSUME IInv, pc = "copy", NEW n \in Nat, position + n <= BufferBytes,
         BitsOf(n) <= remaining, n = 0 \/ availBits = W
  PROVE  /\ PutBytes(n) \in [Places -> Bits] /\ Goes(PutBytes(n), position + n, Len(sink))
         /\ Holds(current, Stored + BitsOf(n), Held)
<1>1. ~closed /\ ~panicked
  BY Busy
<1>2. /\ Filled /\ Continues(Held) /\ accepted \in Nat /\ MaxBits \in Nat /\ remaining \in Nat
      /\ availBits \in 1 .. W
  BY <1>1, OpenState
<1>3. /\ accepted + remaining <= MaxBits
      /\ Held = W - availBits
  BY DEF IInv, Loops, Held, Splits
<1>4. BitsOf(n) \in Nat /\ BitsOf(n) = n * ByteBits
  BY BitsOfNat
<1>5. accepted + BitsOf(n) <= MaxBits
  BY <1>2, <1>3, <1>4
<1>6. /\ Stored \in Nat /\ Len(sink) \in Nat /\ BitsOf(position) \in Nat
      /\ Stored = Len(sink) + BitsOf(position)
  BY <1>2, StoredIs DEF Filled, Stored
<1>7. n = 0 => BitsOf(n) = 0
  BY SomeBits
<1>8. accepted = Stored + Held /\ Holds(current, Stored, Held)
  BY <1>2 DEF Continues
<1> DEFINE bits == BitRange(accepted + 1, accepted + BitsOf(n))
<1>9. Run(bits, Stored, BitsOf(n))
  <2>1. Run(bits, accepted, BitsOf(n))
    BY <1>2, <1>4, <1>5, BitRangeIs DEF Run
  <2>2. CASE n = 0
    BY <1>7, <2>1, <2>2 DEF Run
  <2>3. CASE availBits = W
    <3>1. accepted = Stored
      BY <1>3, <1>6, <1>8, <2>3, WordSize
    <3> QED
      BY <2>1, <3>1
  <2> QED
    BY <2>2, <2>3
<1>10. PutBytes(n) = Put(buffer, position, bits)
  BY <1>4 DEF PutBytes
<1> HIDE DEF bits
<1>11. position \in Nat /\ buffer \in [Places -> Bits] /\ Goes(buffer, position, Len(sink))
  BY <1>2, ByteSize, BufferSize DEF Filled, StoreTypes, BufferIs
<1>12. /\ PutBytes(n) \in [Places -> Bits]
       /\ Goes(PutBytes(n), position + n, Len(sink))
  BY <1>6, <1>9, <1>10, <1>11, PutAppends
<1>13. Holds(current, Stored + BitsOf(n), Held)
  <2>1. CASE n = 0
    BY <1>6, <1>7, <1>8, <2>1
  <2>2. CASE availBits = W
    <3>1. Held = 0
      BY <1>3, <2>2, WordSize
    <3> QED
      BY <1>8, <3>1 DEF Holds
  <2> QED
    BY <2>1, <2>2
<1> QED
  BY <1>12, <1>13

LEMMA CopyRoomIInv ==
  ASSUME IInv, CopyBytes, remaining \div ByteBits >= BufferBytes - WordBytes - position
  PROVE  IInv'
<1> DEFINE room == BufferBytes - WordBytes - position
           q == remaining \div ByteBits
<1>1. /\ pc = "copy" /\ ~closed /\ ~panicked /\ UNCHANGED <<closed, availBits, current, a>>
      /\ buffer' = PutBytes(room)
      /\ remaining' = remaining - BitsOf(room) /\ accepted' = accepted + BitsOf(room)
      /\ \/ Flush(buffer', position + room) /\ UNCHANGED panicked
         \/ FlushFails(position + room) /\ panicked' = TRUE
      /\ Goto("copy")
  <2>1. \/ /\ q >= room
           /\ buffer' = PutBytes(room)
           /\ remaining' = remaining - BitsOf(room) /\ accepted' = accepted + BitsOf(room)
           /\ \/ Flush(buffer', position + room) /\ UNCHANGED panicked
              \/ FlushFails(position + room) /\ panicked' = TRUE
           /\ Goto("copy")
        \/ q < room
    BY DEF CopyBytes
  <2>2. q >= room /\ q \in Int /\ room \in Int
    <3>1. remaining \in Nat /\ position \in Nat
      BY ByteSize, BufferSize DEF IInv, Types, TypeOK
    <3> QED
      BY <3>1, DivMod, ByteSize, BufferSize
  <2> HIDE DEF q, room
  <2>3. ~(q < room)
    BY <2>2
  <2>4. pc = "copy" /\ UNCHANGED <<closed, availBits, current, a>>
    BY DEF CopyBytes
  <2> QED
    BY <2>1, <2>3, <2>4, Busy
<1>2. /\ Filled /\ Continues(Held) /\ accepted \in Nat /\ MaxBits \in Nat /\ remaining \in Nat
      /\ availBits \in 1 .. W /\ current \in [1 .. W -> Bits]
  BY <1>1, OpenState
<1>3. /\ accepted + remaining <= MaxBits
      /\ availBits = W \/ remaining < ByteBits
  BY <1>1 DEF IInv, Loops
<1>4. position \in 0 .. BufferBytes - WordBytes /\ BufferBytes \in Nat /\ WordBytes \in Nat \ {0}
  BY <1>1, <1>2, BufferSize, ByteSize DEF Filled, StoreTypes
<1>5. room \in Nat /\ position + room = BufferBytes - WordBytes
      /\ position + room \in 0 .. BufferBytes
  BY <1>4
<1>6. /\ q \in Nat /\ remaining = q * ByteBits + (remaining % ByteBits)
      /\ remaining % ByteBits \in 0 .. ByteBits - 1
  BY <1>2, ByteSize, DivMod
<1>7. BitsOf(room) <= BitsOf(q) /\ BitsOf(q) = q * ByteBits /\ BitsOf(room) \in Nat
      /\ q * ByteBits \in Int
  <2>1. q >= room
    OBVIOUS
  <2> HIDE DEF q, room
  <2> QED
    BY <1>5, <1>6, <2>1, BitsOfIs, BitsOfNat
<1>8. BitsOf(room) <= remaining
  <2> HIDE DEF q, room
  <2> QED
    BY <1>2, <1>6, <1>7, ByteSize
<1>9. room = 0 \/ availBits = W
  <2>1. ASSUME remaining < ByteBits PROVE q = 0
    <3> HIDE DEF q
    <3>1. q < 1
      <4>1. q * ByteBits < 1 * ByteBits /\ 1 * ByteBits = ByteBits
        BY <1>2, <1>6, <1>7, <2>1, ByteSize
      <4> QED
        BY <1>6, <4>1, ByteSize, TimesOrder
    <3> QED
      BY <1>6, <3>1
  <2>2. q >= room
    OBVIOUS
  <2> HIDE DEF q, room
  <2> QED
    BY <1>3, <1>5, <2>1, <2>2
<1> HIDE DEF q, room
<1>10. /\ buffer' \in [Places -> Bits] /\ Goes(buffer', position + room, Len(sink))
       /\ Holds(current, Stored + BitsOf(room), Held)
  BY <1>1, <1>5, <1>8, <1>9, BytesAppend
<1>11. /\ remaining' \in Nat /\ accepted' \in Nat /\ accepted' <= MaxBits
       /\ accepted' + remaining' <= MaxBits
       /\ availBits' = W \/ remaining' < ByteBits
  BY <1>1, <1>2, <1>3, <1>7, <1>8, ByteSize
<1>12. /\ pc' = IF panicked' THEN "idle" ELSE "copy"
       /\ closed' = FALSE
  BY <1>1, OpenState DEF Goto
<1>13. pc' \in Pcs /\ ~Splits' /\ Held' = W - availBits' /\ Held = W - availBits
  BY <1>1, <1>12 DEF Pcs, Splits, Held
<1>14. Loops'
  BY <1>11, <1>12, <1>13 DEF Loops
<1>15. CASE Flush(buffer', position + room) /\ UNCHANGED panicked
  <2>1. /\ Filled' /\ Stored' = Len(sink) + BitsOf(position + room) /\ UNCHANGED failures
        /\ written' - Len(sink') = written - Len(sink)
    BY <1>2, <1>5, <1>10, <1>15, FlushEffect
  <2>2. Stored' = Stored + BitsOf(room) /\ Stored \in Nat
    <3>1. /\ BitsOf(position + room) = BitsOf(position) + BitsOf(room)
      BY <1>4, <1>5, BitsOfIs
    <3>2. Len(sink) \in Nat /\ BitsOf(position) \in Nat /\ Stored = Len(sink) + BitsOf(position)
          /\ Stored \in Nat
      BY <1>2, StoredIs DEF Filled, Stored
    <3> QED
      BY <1>7, <2>1, <3>1, <3>2
  <2>3. Continues(Held)'
    <3>1. accepted = Stored + Held /\ Held \in Int
      BY <1>2, <1>13, WordSize DEF Continues
    <3>2. Held' = Held
      BY <1>1, <1>13
    <3>3. accepted' = Stored' + Held'
      BY <1>1, <1>7, <2>2, <3>1, <3>2
    <3> QED
      BY <1>1, <1>10, <2>2, <3>2, <3>3 DEF Continues
  <2> QED
    BY <1>1, <1>2, <1>11, <1>13, <1>14, <1>15, <2>1, <2>3, LoopIInv DEF Filled
<1>16. CASE FlushFails(position + room) /\ panicked' = TRUE
  <2>1. position' = position + room /\ failures' \in 0 .. MaxFailures /\ failures' > 0
        /\ UNCHANGED <<sink, written>>
    BY <1>2, <1>16, BufferSize DEF FlushFails, Filled, StoreTypes
  <2>2. StoreTypes' /\ Aligns'
    <3>1. position' \in 0 .. BufferBytes - (IF panicked' THEN 0 ELSE WordBytes)
      BY <1>4, <1>5, <1>16, <2>1
    <3>2. buffer' \in [Places -> Bits] /\ sink' \in Seq(Bits) /\ written' \in Int
      BY <1>2, <1>10, <2>1 DEF StoreTypes, Filled
    <3>3. StoreTypes'
      BY <1>16, <2>1, <3>1, <3>2 DEF StoreTypes
    <3> QED
      BY <1>2, <1>16, <2>1, <3>3 DEF Aligns, Filled
  <2> QED
    BY <1>1, <1>2, <1>11, <1>13, <1>14, <1>16, <2>1, <2>2, LoopIInv
<1> QED
  BY <1>1, <1>15, <1>16

LEMMA CopyWordsIInv ==
  ASSUME IInv, CopyBytes, remaining \div ByteBits < BufferBytes - WordBytes - position
  PROVE  IInv'
<1> DEFINE room == BufferBytes - WordBytes - position
           k == remaining \div W
           words == k * WordBytes
<1>1. /\ pc = "copy" /\ ~closed /\ ~panicked /\ UNCHANGED <<closed, availBits, current, a>>
      /\ buffer' = PutBytes(words) /\ position' = position + words
      /\ remaining' = remaining - BitsOf(words) /\ accepted' = accepted + BitsOf(words)
      /\ pc' = "tail"
      /\ UNCHANGED <<written, sink, failures, panicked>>
  <2> DEFINE q == remaining \div ByteBits
  <2>1. \/ q >= room
        \/ /\ q < room
           /\ buffer' = PutBytes(words) /\ position' = position + words
           /\ remaining' = remaining - BitsOf(words) /\ accepted' = accepted + BitsOf(words)
           /\ pc' = "tail"
           /\ UNCHANGED <<written, sink, failures, panicked>>
    BY DEF CopyBytes
  <2>2. q < room /\ q \in Int /\ room \in Int
    <3>1. remaining \in Nat /\ position \in Nat
      BY ByteSize, BufferSize DEF IInv, Types, TypeOK
    <3> QED
      BY <3>1, DivMod, ByteSize, BufferSize
  <2> HIDE DEF q, room
  <2>3. ~(q >= room)
    BY <2>2
  <2>4. pc = "copy" /\ UNCHANGED <<closed, availBits, current, a>>
    BY DEF CopyBytes
  <2> QED
    BY <2>1, <2>3, <2>4, Busy
<1>2. /\ Filled /\ Continues(Held) /\ accepted \in Nat /\ MaxBits \in Nat /\ remaining \in Nat
      /\ availBits \in 1 .. W /\ current \in [1 .. W -> Bits]
      /\ failures = 0 => written = Len(sink)
  BY <1>1, OpenState
<1>3. /\ accepted + remaining <= MaxBits
      /\ availBits = W \/ remaining < ByteBits
  BY <1>1 DEF IInv, Loops
<1>4. /\ position \in 0 .. BufferBytes - WordBytes /\ BufferBytes \in Nat
      /\ WordBytes \in Nat \ {0} /\ Multiple(position)
      /\ W \in Nat \ {0} /\ ByteBits \in Nat \ {0} /\ ByteBits <= W
  <2>1. BufferBytes \in Nat /\ WordBytes \in Nat \ {0} /\ ByteBits \in Nat \ {0}
    BY BufferSize, ByteSize
  <2> QED
    BY <1>1, <1>2, <2>1, WordSize DEF Filled, StoreTypes, Aligns
<1>5. /\ k \in Nat /\ k * W \in Nat /\ k * W <= remaining
      /\ words \in Nat /\ Multiple(words)
  <2>1. /\ k \in Nat /\ remaining = k * W + (remaining % W) /\ remaining % W \in 0 .. W - 1
    BY <1>2, <1>4, DivMod
  <2> HIDE DEF k
  <2>2. k * W \in Nat /\ words \in Nat
    BY <1>4, <2>1, TimesOrder
  <2> QED
    BY <1>2, <2>1, <2>2 DEF Multiple
<1>6. BitsOf(words) = k * W
  <2> HIDE DEF k
  <2>1. (k * WordBytes) * ByteBits = k * (ByteBits * WordBytes)
    BY <1>4, <1>5
  <2> QED
    BY <2>1 DEF BitsOf, W
<1>7. position + words <= BufferBytes - WordBytes
  <2>1. room \in Nat
    BY <1>4
  <2>2. remaining < room * ByteBits
    BY <1>2, <1>4, <2>1, QuotientOf
  <2> HIDE DEF room, words, k
  <2>3. BitsOf(words) < BitsOf(room)
    <3>1. room * ByteBits = BitsOf(room) /\ BitsOf(room) \in Nat
      BY <2>1, BitsOfNat
    <3> QED
      BY <1>2, <1>5, <1>6, <2>2, <3>1
  <2>4. words < room
    BY <1>5, <2>1, <2>3, BitsOfIs
  <2> QED
    BY <1>4, <1>5, <2>4 DEF room
<1>8. words = 0 \/ availBits = W
  <2>1. ASSUME remaining < ByteBits PROVE k = 0
    <3>1. remaining \in Nat /\ W \in Nat \ {0} /\ remaining < W
      BY <1>2, <1>4, <2>1
    <3> QED
      BY <3>1, SmallQuotient
  <2>2. k = 0 => words = 0
    BY <1>4
  <2> QED
    BY <1>3, <2>1, <2>2
<1> HIDE DEF room, words, k
<1>9. /\ buffer' \in [Places -> Bits] /\ Goes(buffer', position + words, Len(sink))
      /\ Holds(current, Stored + BitsOf(words), Held)
  <2>1. position + words <= BufferBytes /\ BitsOf(words) <= remaining
    BY <1>4, <1>5, <1>6, <1>7
  <2> QED
    BY <1>1, <1>5, <1>8, <2>1, BytesAppend
<1>10. /\ remaining' \in Nat /\ accepted' \in Nat /\ accepted' <= MaxBits
       /\ accepted' + remaining' <= MaxBits
  <2>1. BitsOf(words) \in Nat /\ BitsOf(words) <= remaining
    BY <1>5, <1>6
  <2>2. /\ accepted \in Nat /\ remaining \in Nat /\ MaxBits \in Nat
        /\ accepted + remaining <= MaxBits
    BY <1>2, <1>3
  <2>3. remaining' = remaining - BitsOf(words) /\ accepted' = accepted + BitsOf(words)
    BY <1>1
  <2> QED
    BY <2>1, <2>2, <2>3
<1>11. pc' \in Pcs /\ ~Splits' /\ Held' = Held /\ Held = W - availBits
  BY <1>1 DEF Pcs, Splits, Held
<1>12. Loops'
  BY <1>1, <1>10, <1>11 DEF Loops
<1>13. StoreTypes' /\ SinkIs' /\ BufferIs'
  <2>1. position' \in 0 .. BufferBytes - (IF panicked' THEN 0 ELSE WordBytes)
    BY <1>1, <1>4, <1>5, <1>7
  <2>2. StoreTypes'
    BY <1>1, <1>2, <1>9, <2>1 DEF StoreTypes, Filled
  <2> QED
    BY <1>1, <1>2, <1>9, <2>2 DEF Filled, SinkIs, BufferIs
<1>14. Aligns'
  <2>1. Multiple(position + words)
    BY <1>4, <1>5, MultipleIs
  <2> QED
    BY <1>1, <1>2, <2>1 DEF Aligns, Filled
<1>15. Stored' = Stored + BitsOf(words) /\ Stored \in Nat /\ BitsOf(words) \in Nat
  <2>1. BitsOf(position + words) = BitsOf(position) + BitsOf(words)
    BY <1>4, <1>5, BitsOfIs
  <2>2. Len(sink) \in Nat /\ BitsOf(position) \in Nat /\ Stored = Len(sink) + BitsOf(position)
    BY <1>2, StoredIs DEF Filled, Stored
  <2> QED
    BY <1>1, <1>5, <1>6, <2>1, <2>2 DEF Stored
<1>16. Continues(Held)'
  <2>1. accepted = Stored + Held /\ Held \in Int
    BY <1>2, <1>4, <1>11 DEF Continues
  <2>2. accepted' = Stored' + Held'
    BY <1>1, <1>11, <1>15, <2>1
  <2> QED
    BY <1>1, <1>9, <1>11, <1>15, <2>2 DEF Continues
<1> QED
  BY <1>1, <1>2, <1>10, <1>11, <1>12, <1>13, <1>14, <1>16, LoopIInv DEF Filled

LEMMA CopyBytesIInv ==
  ASSUME IInv, CopyBytes
  PROVE  IInv'
<1>1. remaining \in Nat /\ position \in Nat
  BY ByteSize, BufferSize DEF IInv, Types, TypeOK
<1>2. remaining \div ByteBits \in Int /\ BufferBytes - WordBytes - position \in Int
  BY <1>1, DivMod, ByteSize, BufferSize
<1>3. \/ remaining \div ByteBits >= BufferBytes - WordBytes - position
      \/ remaining \div ByteBits < BufferBytes - WordBytes - position
  BY <1>2
<1> QED
  BY <1>3, CopyRoomIInv, CopyWordsIInv

(* What the loops that split words know. *)
LEMMA SplitState ==
  ASSUME IInv, Splits
  PROVE  /\ ~closed /\ ~panicked /\ Filled /\ a \in 1 .. W - 1 /\ availBits \in {a, W}
         /\ accepted = Stored + (W - a) /\ Holds(current, Stored, W - a)
         /\ accepted \in Nat /\ remaining \in Nat /\ Stored \in Nat
         /\ accepted + remaining <= MaxBits /\ MaxBits \in Nat /\ W \in Nat \ {0}
         /\ current \in [1 .. W -> Bits] /\ availBits \in 1 .. W
<1>1. pc # "idle"
  BY DEF Splits
<1>2. ~closed /\ ~panicked
  BY <1>1, Busy
<1>3. Held = W - a
  BY DEF Held
<1>4. Continues(Held) /\ Filled
  BY <1>2, OpenState
<1>5. Stored \in Nat /\ W \in Nat \ {0}
  BY <1>4, StoredIs, WordSize DEF Filled
<1> QED
  BY <1>1, <1>2, <1>3, <1>4, <1>5, OpenState DEF IInv, Loops, Continues

LEMMA SingleWordsIInv ==
  ASSUME IInv, SingleWords
  PROVE  IInv'
<1>1. pc = "word" /\ Splits /\ UNCHANGED <<closed, a>>
  BY DEF SingleWords, Splits
<1>2. /\ ~closed /\ ~panicked /\ Filled /\ a \in 1 .. W - 1 /\ availBits \in {a, W}
      /\ accepted = Stored + (W - a) /\ Holds(current, Stored, W - a)
      /\ accepted \in Nat /\ remaining \in Nat /\ Stored \in Nat
      /\ accepted + remaining <= MaxBits /\ MaxBits \in Nat /\ W \in Nat \ {0}
      /\ current \in [1 .. W -> Bits] /\ availBits \in 1 .. W
  BY <1>1, SplitState
<1> DEFINE first == Or(current, ShiftRight(Word(0), W - a))
           last  == LastPart(Word(0))
<1>3. CASE /\ remaining >= W /\ Push(first, current, last, W, W)
           /\ remaining' = remaining - W /\ Goto("word")
  <2>1. Holds(first, Stored, W)
    BY <1>2, FirstIs
  <2>2. Holds(last, Stored + W, W - a) /\ last \in [1 .. W -> Bits]
    <3>1. Stored + 0 * W + W = Stored + W
      BY <1>2
    <3>2. Holds(last, Stored + 0 * W + W, W - a)
      BY <1>2, LastHolds
    <3>3. Stored + W \in Nat /\ W - a \in 0 .. W /\ (Stored + W) + (W - a) <= MaxBits
      BY <1>2, <1>3
    <3> HIDE DEF last
    <3>4. last = [i \in 1 .. W |-> last[i]]
      BY WordsAre DEF last
    <3> QED
      BY <3>1, <3>2, <3>3, <3>4, WordType
  <2>3. Stored + W <= MaxBits
    BY <1>2, <1>3
  <2> HIDE DEF first, last
  <2>4. \/ /\ panicked' /\ StoreTypes' /\ Aligns' /\ failures' > 0
           /\ current' = current /\ UNCHANGED <<availBits, accepted, sink, written>>
        \/ /\ ~panicked' /\ Filled' /\ Stored' = Stored + W
           /\ written' - Len(sink') = written - Len(sink)
           /\ current' = last /\ availBits' = W /\ accepted' = accepted + W
           /\ UNCHANGED failures
    BY <1>2, <1>3, <2>1, <2>3, PushEffect
  <2>5. CASE panicked'
    <3>1. pc' = "idle"
      BY <1>3, <2>5 DEF Goto
    <3>2. Loops' /\ pc' \in Pcs /\ remaining' \in Nat
      BY <1>2, <1>3, <3>1 DEF Loops, Splits, Pcs
    <3> QED
      BY <1>1, <1>2, <2>4, <2>5, <3>2, LoopIInv
  <2>6. CASE ~panicked'
    <3>1. pc' = "word" /\ Held' = W - a /\ pc' \in Pcs
      BY <1>1, <1>3, <2>6 DEF Goto, Held, Splits, Pcs
    <3>2. /\ availBits' = W /\ availBits' \in 1 .. W /\ remaining' \in Nat
          /\ accepted' \in Nat /\ accepted' <= MaxBits /\ accepted' + remaining' <= MaxBits
          /\ accepted' = Stored' + (W - a)
      BY <1>2, <1>3, <2>4, <2>6
    <3>3. Loops'
      BY <1>1, <1>2, <2>6, <3>1, <3>2 DEF Loops, Splits
    <3>4. Continues(Held)'
      BY <2>2, <2>4, <2>6, <3>1, <3>2 DEF Continues
    <3> QED
      BY <1>1, <1>2, <2>2, <2>4, <2>6, <3>1, <3>2, <3>3, <3>4, LoopIInv DEF Filled
  <2> QED
    BY <2>5, <2>6
<1>4. CASE /\ remaining < W /\ availBits' = a /\ pc' = "tail"
           /\ UNCHANGED <<written, position, current, buffer, sink, remaining, hist>>
  <2>1. Held' = Held
    BY <1>1, <1>4 DEF Held, Splits
  <2>2. Loops'
    BY <1>1, <1>2, <1>4 DEF Loops, Splits, hist
  <2> QED
    BY <1>1, <1>2, <1>4, <2>1, <2>2, MoveIInv DEF Pcs
<1> QED
  BY <1>3, <1>4 DEF SingleWords

(* Runs of bits that are put together. *)
LEMMA RunOfWord ==
  ASSUME NEW w, NEW s \in Nat, Holds(w, s, W), s + W <= MaxBits
  PROVE  Run(Flat(w), s, W)
<1>1. \A i \in 1 .. W : w[i] = s + i /\ w[i] \in Bits
  BY WordSize, BufferSize DEF Holds, Bits
<1> QED
  BY <1>1, FlatIs DEF Run

LEMMA RunJoin ==
  ASSUME NEW x, NEW y, NEW s \in Nat, NEW m \in Nat, NEW n \in Nat,
         Run(x, s, m), Run(y, s + m, n)
  PROVE  Run(x \o y, s, m + n)
<1> DEFINE z == x \o y
<1>1. /\ x \in Seq(Bits) /\ y \in Seq(Bits) /\ Len(x) = m /\ Len(y) = n
      /\ \A i \in 1 .. m : x[i] = s + i
      /\ \A i \in 1 .. n : y[i] = (s + m) + i
  BY DEF Run
<1>2. /\ z \in Seq(Bits) /\ Len(z) = Len(x) + Len(y)
      /\ \A i \in 1 .. Len(x) + Len(y) : z[i] = IF i <= Len(x) THEN x[i] ELSE y[i - Len(x)]
  BY <1>1, ConcatProperties
<1> HIDE DEF z
<1>3. \A i \in 1 .. m + n : z[i] = s + i
  <2> TAKE i \in 1 .. m + n
  <2>1. z[i] = IF i <= m THEN x[i] ELSE y[i - m]
    BY <1>1, <1>2
  <2>2. CASE i <= m
    BY <1>1, <2>1, <2>2
  <2>3. CASE i > m
    <3>1. i - m \in 1 .. n
      BY <2>3
    <3>2. y[i - m] = (s + m) + (i - m)
      BY <1>1, <3>1
    <3>3. (s + m) + (i - m) = s + i
      OBVIOUS
    <3>4. ~(i <= m)
      BY <2>3
    <3> QED
      BY <2>1, <3>2, <3>3, <3>4
  <2> QED
    BY <2>2, <2>3
<1> QED
  BY <1>1, <1>2, <1>3 DEF Run, z

LEMMA QuadRun ==
  ASSUME a \in 1 .. W - 1, accepted \in Nat, NEW s \in Nat, accepted = s + (W - a),
         Holds(current, s, W - a), s + 4 * W <= MaxBits
  PROVE  LET first == Or(current, ShiftRight(Word(0), W - a))
         IN Run(Flat(first) \o Flat(Split(1)) \o Flat(Split(2)) \o Flat(Split(3)), s, 4 * W)
<1> DEFINE first == Or(current, ShiftRight(Word(0), W - a))
<1>1. /\ W \in Nat \ {0} /\ MaxBits \in Nat
      /\ 1 * W = W /\ 2 * W = W + W /\ 3 * W = W + W + W /\ 4 * W = W + W + W + W
  BY WordSize, BufferSize
<1>2. /\ Holds(first, s, W) /\ Holds(Split(1), s + W, W)
      /\ Holds(Split(2), s + (W + W), W) /\ Holds(Split(3), s + (W + W + W), W)
  BY <1>1, FirstIs, SplitIs
<1> DEFINE f0 == Flat(first)
           f1 == Flat(Split(1))
           f2 == Flat(Split(2))
           f3 == Flat(Split(3))
<1> HIDE DEF first
<1>3. /\ s + W <= MaxBits /\ (s + W) + W <= MaxBits /\ (s + (W + W)) + W <= MaxBits
      /\ (s + (W + W + W)) + W <= MaxBits
      /\ s + W \in Nat /\ s + (W + W) \in Nat /\ s + (W + W + W) \in Nat
      /\ W + W \in Nat /\ W + W + W \in Nat
  BY <1>1
<1>4. /\ Run(f0, s, W) /\ Run(f1, s + W, W)
      /\ Run(f2, s + (W + W), W) /\ Run(f3, s + (W + W + W), W)
  BY <1>2, <1>3, RunOfWord
<1> HIDE DEF f0, f1, f2, f3
<1>5. Run(f0 \o f1, s, W + W)
  BY <1>1, <1>4, RunJoin
<1>6. Run((f0 \o f1) \o f2, s, (W + W) + W)
  BY <1>1, <1>3, <1>4, <1>5, RunJoin
<1>7. Run(((f0 \o f1) \o f2) \o f3, s, (W + W + W) + W)
  BY <1>1, <1>3, <1>4, <1>6, RunJoin
<1> QED
  BY <1>1, <1>7 DEF f0, f1, f2, f3, first

(* Four words at once. *)
LEMMA QuadIntoBuffer ==
  ASSUME IInv, pc = "quad", remaining >= 4 * W,
         NEW pos, NEW s1, NEW bits, Run(bits, Stored, 4 * W),
         \/ pos = position /\ s1 = sink /\ position < BufferBytes - 4 * WordBytes
         \/ pos = 0 /\ s1 = sink \o Out(buffer, position),
         sink' = s1, written' - Len(sink') = written - Len(sink), written' \in Int,
         buffer' = Put(buffer, pos, bits), position' = pos + 4 * WordBytes,
         UNCHANGED <<failures, panicked>>
  PROVE  Filled' /\ Stored' = Stored + 4 * W
<1>1. /\ ~panicked /\ Filled /\ Stored \in Nat /\ W \in Nat \ {0}
  BY SplitState DEF Splits
<1>2. /\ position \in 0 .. BufferBytes - WordBytes /\ BufferBytes \in Nat
      /\ WordBytes \in Nat \ {0} /\ BufferBytes > 5 * WordBytes
      /\ Multiple(position) /\ Multiple(BufferBytes)
      /\ buffer \in [Places -> Bits] /\ sink \in Seq(Bits) /\ Goes(buffer, position, Len(sink))
  BY <1>1, BufferSize, ByteSize DEF Filled, StoreTypes, Aligns, BufferIs
<1>3. /\ Stored = Len(sink) + BitsOf(position) /\ Len(sink) \in Nat
      /\ BitsOf(position) \in Nat
  BY <1>1, StoredIs DEF Filled, Stored
<1>4. /\ s1 \in Seq(Bits) /\ Len(s1) \in Nat /\ \A i \in 1 .. Len(s1) : s1[i] = i
      /\ \E k \in Nat : Len(s1) = BitsOf(k)
      /\ Len(s1) + BitsOf(pos) = Stored /\ BitsOf(pos) \in Nat
      /\ pos \in 0 .. BufferBytes /\ Multiple(pos)
      /\ Goes(buffer, pos, Len(s1)) /\ pos + 4 * WordBytes <= BufferBytes - WordBytes
  <2>1. CASE pos = position /\ s1 = sink /\ position < BufferBytes - 4 * WordBytes
    <3>1. /\ \E k \in Nat : Len(sink) = BitsOf(k)
          /\ \A i \in 1 .. Len(sink) : sink[i] = i
      BY <1>1 DEF Filled, Aligns, SinkIs
    <3>2. Multiple(4 * WordBytes) /\ 4 * WordBytes \in Int
      BY <1>2, MultipleIs
    <3>3. Multiple(position + 4 * WordBytes) /\ position + 4 * WordBytes \in Int
      BY <1>2, <3>2, MultipleIs
    <3>4. position + 4 * WordBytes + WordBytes <= BufferBytes
      BY <1>2, <2>1, <3>3, MultipleIs
    <3> QED
      BY <1>2, <1>3, <2>1, <3>1, <3>4
  <2>2. CASE pos = 0 /\ s1 = sink \o Out(buffer, position)
    <3>1. /\ s1 \in Seq(Bits) /\ Len(s1) = Len(sink) + BitsOf(position)
          /\ \E k \in Nat : Len(s1) = BitsOf(k)
      <4>1. \E k \in Nat : Len(sink) = BitsOf(k)
        BY <1>1 DEF Filled, Aligns
      <4>2. position \in 0 .. BufferBytes
        BY <1>2
      <4> QED
        BY <1>2, <2>2, <4>1, <4>2, OutIs
    <3>2. \A i \in 1 .. Len(s1) : s1[i] = i
      <4>1. position \in 0 .. BufferBytes
        BY <1>2
      <4> QED
        BY <1>1, <1>2, <2>2, <4>1, OutHolds DEF Filled
    <3>3. Multiple(0)
      BY <1>2, MultipleIs
    <3>4. Goes(buffer, 0, Len(s1))
      BY SomeBits DEF Goes
    <3>5. /\ Len(s1) \in Nat /\ Len(s1) + BitsOf(pos) = Stored /\ BitsOf(pos) \in Nat
      BY <1>3, <2>2, <3>1, SomeBits
    <3>6. pos \in 0 .. BufferBytes /\ pos + 4 * WordBytes <= BufferBytes - WordBytes
      BY <1>2, <2>2
    <3>7. Multiple(pos) /\ Goes(buffer, pos, Len(s1))
      BY <2>2, <3>3, <3>4
    <3> QED
      BY <3>1, <3>2, <3>5, <3>6, <3>7
  <2> QED
    BY <2>1, <2>2
<1>5. Run(bits, Len(s1) + BitsOf(pos), BitsOf(4 * WordBytes))
  BY <1>4, WordSize
<1>6. /\ buffer' \in [Places -> Bits] /\ Goes(buffer', pos + 4 * WordBytes, Len(s1))
  <2>1. pos \in Nat /\ 4 * WordBytes \in Nat /\ pos + 4 * WordBytes <= BufferBytes
    BY <1>2, <1>4
  <2> QED
    BY <1>2, <1>4, <1>5, <2>1, PutAppends
<1>7. StoreTypes'
  <2>1. position' \in 0 .. BufferBytes - (IF panicked' THEN 0 ELSE WordBytes)
    BY <1>1, <1>2, <1>4
  <2> QED
    BY <1>1, <1>4, <1>6, <2>1 DEF StoreTypes, Filled
<1>8. Aligns'
  <2>1. Multiple(4 * WordBytes) /\ 4 * WordBytes \in Int
    BY <1>2, MultipleIs
  <2>2. Multiple(pos + 4 * WordBytes)
    BY <1>4, <2>1, MultipleIs
  <2> QED
    BY <1>4, <2>2 DEF Aligns
<1>9. SinkIs' /\ BufferIs'
  BY <1>4, <1>6 DEF SinkIs, BufferIs
<1>10. Stored' = Stored + 4 * W
  <2>1. BitsOf(pos + 4 * WordBytes) = BitsOf(pos) + BitsOf(4 * WordBytes)
    BY <1>2, <1>4, BitsOfIs
  <2> QED
    BY <1>1, <1>4, <2>1, WordSize DEF Stored
<1> QED
  BY <1>7, <1>8, <1>9, <1>10 DEF Filled

(* The words of QuadWords: the first behind what the current word holds,   *)
(* and what stays in the current word.                                     *)
LEMMA QuadTypes ==
  ASSUME IInv, pc = "quad", remaining >= 4 * W
  PROVE  LET first == Or(current, ShiftRight(Word(0), W - a))
         IN /\ first \in [1 .. W -> Bits] /\ LastPart(Word(3)) \in [1 .. W -> Bits]
            /\ Holds(LastPart(Word(3)), Stored + 4 * W, W - a)
<1> DEFINE first == Or(current, ShiftRight(Word(0), W - a))
           last == LastPart(Word(3))
<1>1. /\ a \in 1 .. W - 1 /\ accepted = Stored + (W - a) /\ Holds(current, Stored, W - a)
      /\ accepted \in Nat /\ remaining \in Nat /\ Stored \in Nat
      /\ accepted + remaining <= MaxBits /\ MaxBits \in Nat /\ W \in Nat \ {0}
  BY SplitState DEF Splits
<1>2. Holds(first, Stored, W) /\ Stored + W <= MaxBits /\ W \in 0 .. W
  BY <1>1, FirstIs
<1>3. first \in [1 .. W -> Bits]
  <2>1. first = [i \in 1 .. W |-> first[i]]
    BY WordsAre
  <2> HIDE DEF first
  <2> QED
    BY <1>1, <1>2, <2>1, WordType
<1>4. Holds(last, Stored + 4 * W, W - a)
  <2>1. Stored + 3 * W + W = Stored + 4 * W
    BY <1>1
  <2>2. Holds(last, Stored + 3 * W + W, W - a)
    BY <1>1, LastHolds
  <2> HIDE DEF last
  <2> QED
    BY <2>1, <2>2
<1>5. last \in [1 .. W -> Bits]
  <2>1. last = [i \in 1 .. W |-> last[i]]
    BY WordsAre
  <2>2. Stored + 4 * W \in Nat /\ W - a \in 0 .. W /\ (Stored + 4 * W) + (W - a) <= MaxBits
    BY <1>1
  <2> HIDE DEF last
  <2> QED
    BY <1>4, <2>1, <2>2, WordType
<1> QED
  BY <1>3, <1>4, <1>5

LEMMA QuadWordsIInv ==
  ASSUME IInv, QuadWords
  PROVE  IInv'
<1> DEFINE first == Or(current, ShiftRight(Word(0), W - a))
           late  == position >= BufferBytes - 4 * WordBytes
           pos   == IF late THEN 0 ELSE position
           bits  == Flat(first) \o Flat(Split(1)) \o Flat(Split(2)) \o Flat(Split(3))
           last  == LastPart(Word(3))
<1>1. pc = "quad" /\ Splits /\ UNCHANGED <<closed, a>>
  BY DEF QuadWords, Splits
<1>2. /\ ~closed /\ ~panicked /\ Filled /\ a \in 1 .. W - 1 /\ availBits \in {a, W}
      /\ accepted = Stored + (W - a) /\ Holds(current, Stored, W - a)
      /\ accepted \in Nat /\ remaining \in Nat /\ Stored \in Nat
      /\ accepted + remaining <= MaxBits /\ MaxBits \in Nat /\ W \in Nat \ {0}
      /\ current \in [1 .. W -> Bits] /\ availBits \in 1 .. W
  BY <1>1, SplitState
<1>3. \/ /\ remaining >= 4 * W /\ late
         /\ FlushFails(position) /\ panicked' = TRUE /\ pc' = "idle"
         /\ current' = first
         /\ UNCHANGED <<availBits, buffer, remaining, accepted>>
      \/ /\ remaining >= 4 * W
         /\ IF late
            THEN sink' = sink \o Out(buffer, position) /\ written' = written + BitsOf(position)
            ELSE UNCHANGED <<sink, written>>
         /\ buffer' = Put(buffer, pos, bits) /\ position' = pos + 4 * WordBytes
         /\ current' = last /\ availBits' = W
         /\ remaining' = remaining - 4 * W /\ accepted' = accepted + 4 * W
         /\ UNCHANGED <<pc, failures, panicked>>
      \/ /\ remaining < 4 * W /\ pc' = "word"
         /\ UNCHANGED <<written, position, availBits, current, buffer, sink, remaining, hist>>
  BY DEF QuadWords, Out, BitsOf
<1>4. remaining >= 4 * W => Run(bits, Stored, 4 * W)
  BY <1>2, QuadRun
<1>5. remaining >= 4 * W =>
        /\ first \in [1 .. W -> Bits] /\ last \in [1 .. W -> Bits]
        /\ Holds(last, Stored + 4 * W, W - a)
  BY <1>1, QuadTypes
<1> HIDE DEF first, bits, last
<1>6. CASE /\ remaining >= 4 * W /\ late
           /\ FlushFails(position) /\ panicked' = TRUE /\ pc' = "idle"
           /\ current' = first
           /\ UNCHANGED <<availBits, buffer, remaining, accepted>>
  <2>1. position' = position /\ failures' \in 0 .. MaxFailures /\ failures' > 0
        /\ UNCHANGED <<sink, written>>
    BY <1>2, <1>6, BufferSize DEF FlushFails, Filled, StoreTypes
  <2>2. position' \in 0 .. BufferBytes - (IF panicked' THEN 0 ELSE WordBytes)
    <3>1. position \in 0 .. BufferBytes - WordBytes
      BY <1>2 DEF Filled, StoreTypes
    <3> QED
      BY <1>6, <2>1, <3>1, BufferSize, ByteSize
  <2>3. StoreTypes'
    BY <1>2, <1>6, <2>1, <2>2 DEF StoreTypes, Filled
  <2>4. Aligns'
    BY <1>2, <1>6, <2>1 DEF Aligns, Filled
  <2>5. Loops' /\ pc' \in Pcs
    BY <1>6 DEF Loops, Splits, Pcs
  <2> QED
    BY <1>1, <1>2, <1>5, <1>6, <2>1, <2>3, <2>4, <2>5, LoopIInv
<1>7. CASE /\ remaining >= 4 * W
           /\ IF late
              THEN sink' = sink \o Out(buffer, position) /\ written' = written + BitsOf(position)
              ELSE UNCHANGED <<sink, written>>
           /\ buffer' = Put(buffer, pos, bits) /\ position' = pos + 4 * WordBytes
           /\ current' = last /\ availBits' = W
           /\ remaining' = remaining - 4 * W /\ accepted' = accepted + 4 * W
           /\ UNCHANGED <<pc, failures, panicked>>
  <2>1. written' - Len(sink') = written - Len(sink) /\ written' \in Int
    <3>1. written \in Int /\ Len(sink) \in Nat /\ BitsOf(position) \in Nat
      BY <1>2, StoredIs DEF Filled, StoreTypes
    <3>2. CASE late
      <4>1. Len(sink') = Len(sink) + BitsOf(position)
        <5>1. /\ position \in 0 .. BufferBytes /\ buffer \in [Places -> Bits]
              /\ sink \in Seq(Bits)
          <6>1. position \in 0 .. BufferBytes - WordBytes
            BY <1>2 DEF Filled, StoreTypes
          <6> QED
            BY <1>2, <6>1, BufferSize, ByteSize DEF Filled, StoreTypes
        <5>2. sink' = sink \o Out(buffer, position)
          BY <1>7, <3>2
        <5> QED
          BY <5>1, <5>2, OutIs
      <4> QED
        BY <1>7, <3>1, <3>2, <4>1
    <3>3. CASE ~late
      BY <1>7, <3>1, <3>3
    <3> QED
      BY <3>2, <3>3
  <2>2. \/ pos = position /\ sink' = sink /\ position < BufferBytes - 4 * WordBytes
        \/ pos = 0 /\ sink' = sink \o Out(buffer, position)
    <3>1. position \in Int /\ BufferBytes - 4 * WordBytes \in Int
      BY <1>2, BufferSize, ByteSize DEF Filled, StoreTypes
    <3> QED
      BY <1>7, <3>1
  <2> HIDE DEF pos, late
  <2>3. Filled' /\ Stored' = Stored + 4 * W
    BY <1>1, <1>4, <1>7, <2>1, <2>2, QuadIntoBuffer
  <2>4. pc' = "quad" /\ Held' = W - a /\ pc' \in Pcs /\ Splits'
    BY <1>1, <1>7 DEF Held, Splits, Pcs
  <2>5. /\ availBits' = W /\ availBits' \in 1 .. W /\ remaining' \in Nat
        /\ accepted' \in Nat /\ accepted' <= MaxBits /\ accepted' + remaining' <= MaxBits
        /\ accepted' = Stored' + (W - a)
    BY <1>2, <1>7, <2>3
  <2>6. Loops'
    BY <1>1, <1>2, <1>7, <2>4, <2>5 DEF Loops
  <2>7. Continues(Held)'
    BY <1>5, <1>7, <2>3, <2>4, <2>5 DEF Continues
  <2> QED
    BY <1>1, <1>2, <1>5, <1>7, <2>1, <2>3, <2>4, <2>5, <2>6, <2>7, LoopIInv DEF Filled
<1>8. CASE /\ remaining < 4 * W /\ pc' = "word"
           /\ UNCHANGED <<written, position, availBits, current, buffer, sink, remaining,
                          hist>>
  <2>1. Held' = Held /\ Splits'
    BY <1>1, <1>8 DEF Held, Splits
  <2>2. Loops'
    BY <1>1, <1>2, <1>8, <2>1 DEF Loops, hist
  <2> QED
    BY <1>1, <1>2, <1>8, <2>1, <2>2, OpenState, MoveIInv DEF Pcs
<1> QED
  BY <1>3, <1>6, <1>7, <1>8

-----------------------------------------------------------------------------
(* Close. *)

(* The bytes of the current word that hold bits. *)
LEMMA LastBytesIs ==
  ASSUME availBits \in 1 .. W
  PROVE  /\ LastBytes \in 0 .. WordBytes /\ BitsOf(LastBytes) \in 0 .. W
         /\ W - availBits <= BitsOf(LastBytes)
         /\ BitsOf(LastBytes) < W - availBits + ByteBits
         /\ Padding = BitsOf(LastBytes) - (W - availBits) /\ Padding \in Int
<1> DEFINE h == W - availBits
           x == h + ByteBits - 1
           q == x \div ByteBits
           m == x % ByteBits
<1>1. /\ W \in Nat \ {0} /\ W = BitsOf(WordBytes) /\ h \in 0 .. W - 1
      /\ ByteBits \in Nat \ {0} /\ WordBytes \in Nat \ {0}
  BY WordSize, ByteSize
<1>2. x \in Nat /\ q \in Nat /\ m \in 0 .. ByteBits - 1 /\ x = q * ByteBits + m
  <2>1. x \in Nat
    BY <1>1
  <2> HIDE DEF x
  <2> QED
    BY <1>1, <2>1, DivMod
<1>3. LastBytes = q /\ x = h + ByteBits - 1
  BY DEF LastBytes
<1> HIDE DEF q, m, x
<1>4. BitsOf(q) \in Nat /\ BitsOf(q) = q * ByteBits
  BY <1>2, BitsOfNat
<1>5. h <= BitsOf(q) /\ BitsOf(q) < h + ByteBits
  BY <1>1, <1>2, <1>3, <1>4
<1>6. q < WordBytes + 1
  <2>1. BitsOf(WordBytes + 1) = W + ByteBits
    BY <1>1, BitsOfIs, SomeBits
  <2>2. BitsOf(q) < BitsOf(WordBytes + 1)
    BY <1>1, <1>4, <1>5, <2>1
  <2> QED
    BY <1>1, <1>2, <2>2, BitsOfIs
<1>7. BitsOf(q) <= W
  <2>1. q <= WordBytes
    BY <1>1, <1>2, <1>6
  <2> QED
    BY <1>1, <1>2, <2>1, BitsOfIs
<1>8. Padding = BitsOf(LastBytes) - (W - availBits)
  BY DEF Padding
<1> QED
  BY <1>1, <1>2, <1>3, <1>4, <1>5, <1>6, <1>7, <1>8

(* They are put behind the words of the buffer. *)
LastPut == Put(buffer, position, SubSeq(Flat(current), 1, BitsOf(LastBytes)))

LEMMA LastPutIs ==
  ASSUME availBits \in 1 .. W, position \in Nat,
         buffer \in [Places -> Bits], current \in [1 .. W -> Bits]
  PROVE  /\ LastPut \in [Places -> Bits]
         /\ \A i \in Places : LastPut[i] =
              IF BitsOf(position) < i + 1 /\ i < BitsOf(position) + BitsOf(LastBytes)
              THEN current[i - BitsOf(position) + 1] ELSE buffer[i]
<1> DEFINE n == BitsOf(LastBytes)
           f == Flat(current)
           l == SubSeq(f, 1, n)
           p == BitsOf(position)
<1>1. n \in 0 .. W /\ W \in Nat /\ p \in Nat
  BY LastBytesIs, WordSize, BitsOfNat
<1>2. f \in Seq(Bits) /\ Len(f) = W /\ \A i \in 1 .. W : f[i] = current[i]
  BY FlatIs
<1> HIDE DEF n, f, p
<1>3. l \in Seq(Bits) /\ Len(l) = n /\ \A i \in 1 .. n : l[i] = current[i]
  BY <1>1, <1>2
<1> HIDE DEF l
<1>4. LastPut = Put(buffer, position, l)
  BY DEF LastPut, l, f, n
<1>5. /\ LastPut \in [Places -> Bits]
      /\ \A i \in Places : LastPut[i] =
           IF p < i + 1 /\ i < p + n THEN l[i - p + 1] ELSE buffer[i]
  BY <1>3, <1>4, PutIs DEF p
<1>6. ASSUME NEW i \in Places, p < i + 1, i < p + n
      PROVE  l[i - p + 1] = current[i - p + 1]
  <2>1. i - p + 1 \in 1 .. n
    BY <1>1, <1>6 DEF Places
  <2> QED
    BY <1>3, <2>1
<1> QED
  BY <1>5, <1>6 DEF p, n

(* The words that were there before stay. *)
LEMMA LastPutGoes ==
  ASSUME availBits \in 1 .. W, position \in 0 .. BufferBytes,
         buffer \in [Places -> Bits], current \in [1 .. W -> Bits],
         NEW s \in Nat, Goes(buffer, position, s)
  PROVE  Goes(LastPut, position, s)
<1>1. position \in Nat /\ BufferBytes \in Nat /\ position <= BufferBytes
  BY BufferSize
<1>2. BitsOf(position) \in Nat /\ 0 .. BitsOf(position) - 1 \subseteq Places
  BY <1>1, BytesFit
<1>3. ASSUME NEW i \in 0 .. BitsOf(position) - 1
      PROVE  LastPut[i] = s + i + 1
  <2>1. i \in Places /\ ~(BitsOf(position) < i + 1)
    BY <1>2
  <2>2. LastPut[i] = buffer[i]
    BY <1>1, <2>1, LastPutIs
  <2> QED
    BY <2>2 DEF Goes
<1> QED
  BY <1>3 DEF Goes

(* What the io.Writer has when Close returns nil: every bit, and zeros.    *)
LEMMA CloseCompletes ==
  ASSUME IInv, ~closed, ~panicked, pc = "idle", position + LastBytes <= BufferBytes,
         sink' = sink \o Out(LastPut, position + LastBytes), accepted' = accepted
  PROVE  ClosedIsComplete' /\ Len(sink') = accepted + Padding
<1> DEFINE h == W - availBits
           p == BitsOf(position)
           n == BitsOf(LastBytes)
           s == Len(sink)
<1>1. /\ Filled /\ Continues(Held) /\ availBits \in 1 .. W /\ accepted \in Nat
      /\ accepted <= MaxBits /\ current \in [1 .. W -> Bits]
  BY OpenState
<1>2. /\ buffer \in [Places -> Bits] /\ sink \in Seq(Bits) /\ position \in Nat
      /\ \A i \in 1 .. Len(sink) : sink[i] = i
  BY <1>1, BufferSize, ByteSize DEF Filled, StoreTypes, SinkIs
<1>3. s \in Nat /\ p \in Nat /\ Stored = s + p /\ Stored \in Nat
  BY <1>1, StoredIs DEF Filled, Stored
<1>4. accepted = Stored + h /\ Holds(current, Stored, h)
  BY <1>1 DEF Continues, Held, Splits
<1>5. /\ n \in 0 .. W /\ h <= n /\ n < h + ByteBits /\ Padding = n - h
      /\ h \in 0 .. W - 1 /\ W \in Nat \ {0} /\ ByteBits \in Nat \ {0}
      /\ LastBytes \in 0 .. WordBytes /\ WordBytes \in Nat
  <2>1. W \in Nat \ {0} /\ ByteBits \in Nat \ {0} /\ WordBytes \in Nat
    BY WordSize, ByteSize
  <2>2. availBits \in 1 .. W
    BY <1>1
  <2>3. h \in 0 .. W - 1
    BY <2>1, <2>2
  <2>4. /\ LastBytes \in 0 .. WordBytes /\ n \in 0 .. W /\ h <= n /\ n < h + ByteBits
        /\ Padding = n - h
    BY <2>2, LastBytesIs
  <2> QED
    BY <2>1, <2>3, <2>4
<1>6. BitsOf(position + LastBytes) = p + n /\ position + LastBytes \in 0 .. BufferBytes
  BY <1>2, <1>5, BitsOfIs, BufferSize
<1>7. \A i \in 0 .. p + n - 1 : i \in Places
  <2>1. position + LastBytes \in Nat /\ position + LastBytes <= BufferBytes
    BY <1>2, <1>5
  <2>2. 0 .. BitsOf(position + LastBytes) - 1 \subseteq Places
    BY <2>1, BytesFit
  <2>3. BitsOf(position + LastBytes) = p + n /\ p \in Nat /\ n \in Nat
    BY <1>3, <1>5, <1>6
  <2> HIDE DEF p, n
  <2> TAKE i \in 0 .. p + n - 1
  <2>4. i \in 0 .. BitsOf(position + LastBytes) - 1
    BY <2>3
  <2> QED
    BY <2>2, <2>4
<1>8. LastPut \in [Places -> Bits]
  BY <1>1, <1>2, LastPutIs
<1>9. /\ sink' \in Seq(Bits) /\ Len(sink') = s + (p + n)
      /\ \A i \in 1 .. Len(sink') : sink'[i] = IF i <= s THEN sink[i] ELSE LastPut[i - s - 1]
  <2> DEFINE z == sink \o Out(LastPut, position + LastBytes)
  <2>1. /\ z \in Seq(Bits) /\ Len(z) = Len(sink) + BitsOf(position + LastBytes)
        /\ \A i \in 1 .. Len(z) :
             z[i] = IF i <= Len(sink) THEN sink[i] ELSE LastPut[i - Len(sink) - 1]
    BY <1>2, <1>6, <1>8, OutIs
  <2>2. sink' = z
    OBVIOUS
  <2> HIDE DEF z
  <2> QED
    BY <1>6, <2>1, <2>2
<1>10. \A i \in Places : LastPut[i] =
         IF p < i + 1 /\ i < p + n THEN current[i - p + 1] ELSE buffer[i]
  BY <1>1, <1>2, LastPutIs
<1>11. \A i \in 0 .. p - 1 : buffer[i] = s + i + 1
  BY <1>1 DEF Filled, BufferIs, Goes
<1>12. \A i \in 1 .. W : current[i] = IF i <= h THEN Stored + i ELSE 0
  BY <1>4 DEF Holds
<1> HIDE DEF h, p, n, s
<1>13. ASSUME NEW i \in 1 .. s + (p + n)
       PROVE  sink'[i] = IF i <= accepted THEN i ELSE 0
  <2>1. CASE i <= s
    <3>1. sink'[i] = sink[i] /\ i \in 1 .. s /\ i <= accepted
      BY <1>3, <1>4, <1>5, <1>9, <2>1
    <3> QED
      BY <1>2, <3>1 DEF s
  <2>2. CASE i > s /\ i <= s + p
    <3>1. i - s - 1 \in 0 .. p - 1 /\ i - s - 1 \in Places /\ i <= accepted
      <4>1. i - s - 1 \in 0 .. p - 1 /\ i - s - 1 \in 0 .. p + n - 1
        BY <1>3, <1>5, <2>2
      <4>2. accepted = s + p + h /\ h \in Nat
        BY <1>3, <1>4, <1>5
      <4>3. i - s - 1 \in Places
        BY <1>7, <4>1
      <4>4. i <= accepted
        BY <1>3, <2>2, <4>2
      <4> QED
        BY <4>1, <4>3, <4>4
    <3>2. sink'[i] = LastPut[i - s - 1]
      BY <1>3, <1>9, <2>2
    <3>3. LastPut[i - s - 1] = buffer[i - s - 1]
      <4>1. ~(p < (i - s - 1) + 1)
        BY <1>3, <3>1
      <4> QED
        BY <1>10, <3>1, <4>1
    <3>4. buffer[i - s - 1] = s + (i - s - 1) + 1
      BY <1>11, <3>1
    <3>5. sink'[i] = s + (i - s - 1) + 1
      BY <3>2, <3>3, <3>4
    <3>6. s + (i - s - 1) + 1 = i
      BY <1>3
    <3> QED
      BY <3>1, <3>5, <3>6
  <2>3. CASE i > s + p
    <3> DEFINE k == i - s - 1
    <3>1. /\ k \in 0 .. p + n - 1 /\ k \in Places /\ p < k + 1 /\ k < p + n
          /\ k - p + 1 \in 1 .. W /\ k - p + 1 = i - Stored
      BY <1>3, <1>5, <1>7, <2>3
    <3>2. sink'[i] = LastPut[k]
      BY <1>3, <1>9, <2>3
    <3>3. LastPut[k] = current[k - p + 1]
      BY <1>10, <3>1
    <3>4. current[i - Stored] = IF i - Stored <= h THEN Stored + (i - Stored) ELSE 0
      BY <1>12, <3>1
    <3>5. sink'[i] = IF i - Stored <= h THEN Stored + (i - Stored) ELSE 0
      BY <3>1, <3>2, <3>3, <3>4
    <3>6. (i - Stored <= h <=> i <= accepted) /\ Stored + (i - Stored) = i
      <4>1. Stored \in Int /\ h \in Int /\ accepted = Stored + h
        BY <1>3, <1>4, <1>5
      <4> QED
        BY <4>1
    <3> QED
      BY <3>5, <3>6
  <2>4. i <= s \/ (i > s /\ i <= s + p) \/ i > s + p
    BY <1>3
  <2> QED
    BY <2>1, <2>2, <2>3, <2>4
<1>14. Len(sink') = accepted + Padding /\ Padding \in 0 .. ByteBits - 1
  <2>1. /\ n \in Int /\ h \in Int /\ h <= n /\ n < h + ByteBits /\ Padding = n - h
        /\ ByteBits \in Int
    BY <1>5
  <2>2. accepted = s + p + h /\ Len(sink') = s + (p + n) /\ s \in Int /\ p \in Int
    BY <1>3, <1>4, <1>9
  <2> QED
    BY <2>1, <2>2
<1>15. SubSeq(sink', 1, accepted) = BitRange(1, accepted)
  <2> DEFINE x == SubSeq(sink', 1, accepted)
             y == BitRange(1, accepted)
  <2>1. accepted <= Len(sink') /\ Len(sink') = s + (p + n)
    BY <1>1, <1>9, <1>14
  <2>2. x \in Seq(Bits) /\ Len(x) = accepted /\ \A i \in 1 .. accepted : x[i] = sink'[i]
    BY <1>1, <1>9, <2>1
  <2>3. y \in Seq(Bits) /\ Len(y) = accepted /\ \A i \in 1 .. accepted : y[i] = i
    <3>1. 0 + 1 = 1 /\ 0 + accepted = accepted /\ 0 + accepted <= MaxBits
      BY <1>1
    <3>2. \A i \in 1 .. accepted : 0 + i = i
      OBVIOUS
    <3> DEFINE z == BitRange(0 + 1, 0 + accepted)
    <3>3. z \in Seq(Bits) /\ Len(z) = accepted /\ \A i \in 1 .. accepted : z[i] = 0 + i
      BY <1>1, <3>1, BitRangeIs
    <3>4. z = y
      BY <3>1
    <3> HIDE DEF y, z
    <3> QED
      BY <3>2, <3>3, <3>4
  <2> HIDE DEF x, y
  <2>4. \A i \in 1 .. accepted : x[i] = y[i]
    <3> TAKE i \in 1 .. accepted
    <3>1. i \in 1 .. s + (p + n) /\ i <= accepted
      BY <1>1, <2>1
    <3> QED
      BY <1>13, <2>2, <2>3, <3>1
  <2>5. x = y
    BY <1>1, <2>2, <2>3, <2>4, SeqEqual
  <2> QED
    BY <2>5 DEF x, y
<1>16. \A i \in accepted + 1 .. Len(sink') : sink'[i] = 0
  <2> TAKE i \in accepted + 1 .. Len(sink')
  <2>1. i \in 1 .. s + (p + n) /\ ~(i <= accepted)
    BY <1>1, <1>9
  <2> QED
    BY <1>13, <2>1
<1>17. Len(sink') \in accepted .. accepted + ByteBits - 1
  BY <1>1, <1>5, <1>14
<1> QED
  BY <1>14, <1>15, <1>16, <1>17 DEF ClosedIsComplete

LEMMA CloseIInv ==
  ASSUME IInv, Close
  PROVE  IInv'
<1> DEFINE pos == position + LastBytes
<1>1. pc = "idle" /\ ~closed /\ UNCHANGED <<current, call, accepted, panicked>>
  BY DEF Close
<1>2. \/ /\ pos <= BufferBytes
         /\ closed' = TRUE /\ availBits' = 0 /\ position' = 0
         /\ sink' = sink \o Out(LastPut, pos)
         /\ written' = written - Padding + BitsOf(pos) - W
         /\ buffer' = Blank /\ UNCHANGED failures
      \/ /\ pos \in 1 .. BufferBytes
         /\ failures < MaxFailures /\ failures' = failures + 1
         /\ written' = written - Padding
         /\ buffer' = LastPut /\ UNCHANGED <<closed, availBits, position, sink>>
      \/ /\ pos > BufferBytes
         /\ position' = BufferBytes
         /\ availBits' = availBits + BitsOf(BufferBytes - position)
         /\ buffer' = LastPut /\ UNCHANGED <<closed, written, sink, failures>>
  BY DEF Close, LastPut, Out
<1>3. /\ TypeOK /\ buffer \in [Places -> Bits] /\ sink \in Seq(Bits)
      /\ closed = FALSE /\ availBits \in 1 .. W /\ current \in [1 .. W -> Bits]
      /\ written \in Int /\ failures \in 0 .. MaxFailures /\ MaxFailures \in Nat
  <2>1. TypeOK /\ buffer \in [Places -> Bits] /\ sink \in Seq(Bits)
    BY DEF IInv, Types
  <2> QED
    BY <1>1, <2>1, BufferSize DEF TypeOK
<1>4. /\ position \in 0 .. BufferBytes /\ BufferBytes \in Nat
      /\ Sound => position <= BufferBytes - WordBytes
      /\ WordBytes \in Nat \ {0} /\ ByteBits \in Nat \ {0} /\ W \in Nat \ {0}
  <2>1. Sound => position <= BufferBytes - WordBytes
    BY DEF IInv, Counted
  <2> QED
    BY <1>3, <2>1, BufferSize, ByteSize, WordSize DEF TypeOK
<1>5. /\ LastBytes \in 0 .. WordBytes /\ BitsOf(LastBytes) \in 0 .. W
      /\ W - availBits <= BitsOf(LastBytes)
      /\ BitsOf(LastBytes) < W - availBits + ByteBits
      /\ Padding = BitsOf(LastBytes) - (W - availBits) /\ Padding \in Int
  BY <1>3, LastBytesIs
<1>6. LastPut \in [Places -> Bits] /\ pos \in Nat
  BY <1>3, <1>4, <1>5, LastPutIs
<1>7. \E k \in Nat : Len(sink) = BitsOf(k)
  BY DEF IInv, Aligns
<1>8. /\ pc' = "idle" /\ Loops' /\ remaining' \in Nat /\ a' \in 0 .. W
      /\ accepted' \in Bits /\ current' \in [1 .. W -> Bits]
  BY <1>1, <1>3 DEF TypeOK, call, Loops, Splits
<1>9. CASE /\ pos <= BufferBytes
           /\ closed' = TRUE /\ availBits' = 0 /\ position' = 0
           /\ sink' = sink \o Out(LastPut, pos)
           /\ written' = written - Padding + BitsOf(pos) - W
           /\ buffer' = Blank /\ UNCHANGED failures
  <2>1. Blank \in [Places -> Bits]
    BY BufferSize DEF Blank, Places, Bits
  <2>2. /\ sink' \in Seq(Bits) /\ \E k \in Nat : Len(sink') = BitsOf(k)
    <3>1. pos \in 0 .. BufferBytes
      BY <1>4, <1>6, <1>9
    <3> QED
      BY <1>3, <1>6, <1>7, <1>9, <3>1, OutIs
  <2>3. BitsOf(pos) \in Nat /\ BitsOf(pos) = BitsOf(position) + BitsOf(LastBytes)
        /\ BitsOf(position) \in Nat /\ BitsOf(LastBytes) \in Nat
    <3>1. position \in Nat /\ LastBytes \in Nat
      BY <1>4, <1>5
    <3> QED
      BY <1>6, <3>1, BitsOfIs
  <2>4. TypeOK'
    <3>1. position' \in 0 .. BufferBytes - (IF panicked' THEN 0 ELSE WordBytes)
      BY <1>4, <1>9, BufferSize
    <3>2. written' \in Int
      BY <1>3, <1>4, <1>5, <1>9, <2>3
    <3>3. {closed', panicked'} \subseteq BOOLEAN
      <4>1. closed' \in BOOLEAN /\ panicked' \in BOOLEAN
        BY <1>1, <1>3, <1>9 DEF TypeOK
      <4> QED
        BY <4>1, Zenon
    <3>4. availBits' \in (IF closed' THEN {0} ELSE 1 .. W)
      BY <1>9
    <3>5. \A i \in DOMAIN buffer' : buffer'[i] \in Bits
      BY <1>9, <2>1
    <3>6. failures' \in 0 .. MaxFailures
      BY <1>3, <1>9
    <3> QED
      BY <1>8, <3>1, <3>2, <3>3, <3>4, <3>5, <3>6 DEF TypeOK
  <2>5. Types'
    BY <1>9, <2>1, <2>2, <2>4 DEF Types
  <2>6. Aligns'
    <3>1. Multiple(0)
      BY <1>4 DEF Multiple
    <3> QED
      BY <1>9, <2>2, <3>1 DEF Aligns
  <2>7. Layout'
    BY <1>9 DEF Layout
  <2>8. ASSUME failures = 0 PROVE written' = accepted' - W
    <3>1. /\ written = Len(sink) /\ accepted' = accepted
          /\ written' = written - Padding + BitsOf(pos) - W
      BY <1>1, <1>9, <2>8 DEF IInv, Counted
    <3>2. accepted = Stored + (W - availBits)
      BY <1>1, <2>8 DEF IInv, Counted, Sound, Held, Splits
    <3> DEFINE x == BitsOf(LastBytes)
               y == BitsOf(position)
               z == BitsOf(pos)
    <3>3. /\ Padding = x - (W - availBits) /\ z = y + x /\ x \in Int /\ y \in Int
          /\ accepted = (Len(sink) + y) + (W - availBits) /\ Len(sink) \in Int
          /\ W \in Int /\ availBits \in Int
      BY <1>3, <1>4, <1>5, <2>3, <3>2 DEF Stored
    <3>4. written' = written - Padding + z - W
      BY <3>1
    <3> HIDE DEF x, y, z
    <3> QED
      BY <3>1, <3>3, <3>4
  <2>9. Counted'
    <3>1. 0 <= BufferBytes - WordBytes
      BY <1>4, BufferSize
    <3> QED
      BY <1>9, <2>8, <3>1 DEF Counted
  <2>10. ClosedIsComplete'
    <3>1. CASE panicked
      BY <1>1, <3>1 DEF ClosedIsComplete
    <3>2. CASE ~panicked
      BY <1>1, <1>9, <3>2, CloseCompletes
    <3> QED
      BY <3>1, <3>2
  <2> QED
    BY <1>8, <2>5, <2>6, <2>7, <2>9, <2>10 DEF IInv
<1>10. CASE /\ pos \in 1 .. BufferBytes
            /\ failures < MaxFailures /\ failures' = failures + 1
            /\ written' = written - Padding
            /\ buffer' = LastPut /\ UNCHANGED <<closed, availBits, position, sink>>
  <2>1. /\ failures' \in 0 .. MaxFailures /\ failures' > 0 /\ written' \in Int
        /\ closed' = FALSE
    BY <1>3, <1>5, <1>10
  <2>2. StoreTypes'
    <3>1. /\ position' \in 0 .. BufferBytes - (IF panicked' THEN 0 ELSE WordBytes)
          /\ panicked' \in BOOLEAN
      BY <1>1, <1>3, <1>10 DEF TypeOK
    <3> QED
      BY <1>3, <1>6, <1>10, <2>1, <3>1 DEF StoreTypes
  <2>3. Aligns'
    <3>1. ~panicked => Multiple(position)
      BY DEF IInv, Aligns
    <3> QED
      BY <1>1, <1>7, <1>10, <3>1 DEF Aligns
  <2>4. ASSUME ~panicked'
        PROVE  Filled' /\ Continues(Held)' /\ (failures' = 0 => written' = Len(sink'))
    <3>1. Filled /\ Continues(Held)
      BY <1>1, <2>4, OpenState
    <3>2. Goes(LastPut, position, Len(sink))
      BY <1>3, <1>4, <3>1, LastPutGoes DEF Filled, BufferIs
    <3>3. Filled'
      BY <1>10, <2>2, <2>3, <3>1, <3>2 DEF Filled, SinkIs, BufferIs
    <3>4. Stored' = Stored /\ Held' = Held
      BY <1>1, <1>8, <1>10 DEF Stored, Held, Splits
    <3>5. Continues(Held)'
      BY <1>1, <3>1, <3>4 DEF Continues
    <3>6. ~(failures' = 0)
      BY <2>1
    <3> QED
      BY <3>3, <3>5, <3>6
  <2>5. accepted' \in Nat /\ accepted' <= MaxBits
    BY <1>8, BufferSize DEF Bits
  <2>6. availBits' \in 1 .. W /\ pc' \in Pcs
    BY <1>3, <1>8, <1>10 DEF Pcs
  <2> QED
    BY <1>8, <2>1, <2>2, <2>3, <2>4, <2>5, <2>6, OpenIInv
<1>11. CASE /\ pos > BufferBytes
            /\ position' = BufferBytes
            /\ availBits' = availBits + BitsOf(BufferBytes - position)
            /\ buffer' = LastPut /\ UNCHANGED <<closed, written, sink, failures>>
  <2>1. panicked /\ panicked' /\ failures > 0
    <3>1. ~Sound
      BY <1>4, <1>5, <1>11
    <3> QED
      BY <1>1, <1>3, <3>1 DEF Sound
  <2>2. availBits' \in 1 .. W
    <3> DEFINE d == BufferBytes - position
    <3>1. d \in Nat /\ d + 1 <= LastBytes /\ d + 1 \in Int /\ LastBytes \in Int
      BY <1>4, <1>5, <1>11
    <3> HIDE DEF d
    <3>2. BitsOf(d) \in Nat /\ BitsOf(d) + ByteBits <= BitsOf(LastBytes)
      <4>1. BitsOf(d + 1) <= BitsOf(LastBytes)
        BY <3>1, BitsOfIs
      <4>2. BitsOf(d + 1) = BitsOf(d) + ByteBits /\ BitsOf(d) \in Nat
        <5>1. BitsOf(d + 1) = BitsOf(d) + BitsOf(1)
          BY <3>1, BitsOfIs
        <5>2. BitsOf(d) \in Nat
          BY <3>1, BitsOfNat
        <5> QED
          BY <5>1, <5>2, SomeBits
      <4> QED
        BY <4>1, <4>2
    <3>3. availBits' = availBits + BitsOf(d)
      BY <1>11 DEF d
    <3> QED
      BY <1>3, <1>4, <1>5, <3>2, <3>3
  <2>3. StoreTypes'
    <3>1. position' \in 0 .. BufferBytes - (IF panicked' THEN 0 ELSE WordBytes)
      BY <1>4, <1>11, <2>1
    <3>2. panicked' \in BOOLEAN
      BY <1>1, <1>3 DEF TypeOK
    <3> QED
      BY <1>3, <1>6, <1>11, <3>1, <3>2 DEF StoreTypes
  <2>4. Aligns' /\ closed' = FALSE /\ failures' > 0
    BY <1>3, <1>7, <1>11, <2>1 DEF Aligns
  <2>5. accepted' \in Nat /\ accepted' <= MaxBits /\ pc' \in Pcs
    BY <1>8, BufferSize DEF Bits, Pcs
  <2> QED
    BY <1>8, <2>1, <2>2, <2>3, <2>4, <2>5, OpenIInv
<1> QED
  BY <1>2, <1>9, <1>10, <1>11

-----------------------------------------------------------------------------
(* The theorems. *)

LEMMA NextIInv == IInv /\ [Next]_vars => IInv'
<1> SUFFICES ASSUME IInv, [Next]_vars PROVE IInv'
  OBVIOUS
<1>1. ASSUME NEW n \in BitCounts, Room(n), WriteBits(n) PROVE IInv'
  BY <1>1, BufferSize, WriteBitsIInv
<1>2. CASE Room(1) /\ WriteBit
  BY <1>2, WriteBitIInv
<1>3. ASSUME NEW n \in ArraySizes, Room(n), WriteArray(n) PROVE IInv'
  BY <1>3, BufferSize, WriteArrayIInv
<1>4. CASE FillWord
  BY <1>4, FillWordIInv
<1>5. CASE CopyBytes
  BY <1>5, CopyBytesIInv
<1>6. CASE QuadWords
  BY <1>6, QuadWordsIInv
<1>7. CASE SingleWords
  BY <1>7, SingleWordsIInv
<1>8. CASE TailBits
  BY <1>8, TailBitsIInv
<1>9. CASE Close
  BY <1>9, CloseIInv
<1>10. CASE UNCHANGED vars
  BY <1>10, StutterIInv
<1> QED
  BY <1>1, <1>2, <1>3, <1>4, <1>5, <1>6, <1>7, <1>8, <1>9, <1>10 DEF Next

LEMMA Invariance == Spec => []IInv
BY InitIInv, NextIInv, PTL DEF Spec

(* Every field of the output bitstream has its type, and the buffer has    *)
(* room for a word between two calls: push (DefaultOutputBitStream.go:202) *)
(* writes it there without looking.                                        *)
THEOREM TypeCorrect == Spec => []TypeOK
<1>1. IInv => TypeOK
  BY DEF IInv, Types
<1> QED
  BY <1>1, Invariance, PTL

(* A Close that returned nil has given the io.Writer every bit that was    *)
(* accepted, in order, whichever of WriteBit, WriteBits and WriteArray     *)
(* brought it and wherever the words and the buffer were split, padded     *)
(* with less than a byte of zeros - also after attempts that failed.       *)
THEOREM ClosedComplete == Spec => []ClosedIsComplete
<1>1. IInv => ClosedIsComplete
  BY DEF IInv
<1> QED
  BY <1>1, Invariance, PTL

(* Written() is the number of bits accepted, between any two calls and     *)
(* after Close, as long as the io.Writer does not fail.                    *)
THEOREM WrittenExact == Spec => []WrittenIsExact
<1>1. ASSUME IInv PROVE WrittenIsExact
  <2> SUFFICES ASSUME pc = "idle", failures = 0 PROVE Written = accepted
    BY DEF WrittenIsExact
  <2>1. /\ TypeOK /\ W \in Nat \ {0} /\ sink \in Seq(Bits)
        /\ written = IF closed THEN accepted - W ELSE Len(sink)
        /\ ~closed => accepted = Stored + (W - availBits)
    BY <1>1, WordSize DEF IInv, Types, Counted, Sound, Held, Splits
  <2>2. CASE closed
    <3>1. position = 0 /\ availBits = 0 /\ accepted \in Nat
      BY <1>1, <2>1, <2>2, BufferSize DEF IInv, Counted, TypeOK, Bits
    <3> QED
      BY <2>1, <2>2, <3>1, SomeBits DEF Written
  <2>3. CASE ~closed
    <3>1. /\ position \in Nat /\ BitsOf(position) \in Nat /\ Len(sink) \in Nat
          /\ availBits \in 1 .. W
      <4>1. position \in Nat /\ availBits \in 1 .. W
        BY <2>1, <2>3, BufferSize, ByteSize DEF TypeOK
      <4>2. Len(sink) \in Nat
        BY <2>1
      <4> QED
        BY <4>1, <4>2, BitsOfNat
    <3> QED
      BY <2>1, <2>3, <3>1 DEF Written, Stored
  <2> QED
    BY <2>2, <2>3
<1> QED
  BY <1>1, Invariance, PTL

=============================================================================
