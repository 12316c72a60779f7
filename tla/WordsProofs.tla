----------------------------- MODULE WordsProofs -----------------------------
(***************************************************************************)
(* Lemmas about bits, bytes and words, for every size of the byte and of   *)
(* the word: what the proofs about the two bitstreams need.                *)
(***************************************************************************)
EXTENDS Words, SequenceTheorems, TLAPS

-----------------------------------------------------------------------------
(* Arithmetic. *)

LEMMA Distribute ==
  ASSUME NEW x \in Int, NEW y \in Int, NEW z \in Int
  PROVE  /\ (x + y) * z = x * z + y * z /\ (x - y) * z = x * z - y * z
         /\ x * z \in Int
  OBVIOUS

LEMMA TimesOrder ==
  ASSUME NEW x \in Int, NEW y \in Int, NEW z \in Nat \ {0}
  PROVE  /\ x <= y <=> x * z <= y * z
         /\ x < y <=> x * z < y * z
         /\ x \in Nat => x * z \in Nat
  OBVIOUS

LEMMA DivMod ==
  ASSUME NEW x \in Nat, NEW y \in Nat \ {0}
  PROVE  /\ x \div y \in Nat /\ x % y \in 0 .. y - 1
         /\ x = (x \div y) * y + (x % y)
  OBVIOUS

LEMMA SmallQuotient ==
  ASSUME NEW x \in Nat, NEW y \in Nat \ {0}, x < y
  PROVE  x \div y = 0
<1> DEFINE q == x \div y
<1>1. q \in Nat /\ x = q * y + (x % y) /\ x % y \in 0 .. y - 1
  BY DivMod
<1> HIDE DEF q
<1>2. q * y < 1 * y /\ 1 * y = y
  <2>1. q * y \in Int /\ x % y \in Int
    BY <1>1, Distribute
  <2> QED
    BY <1>1, <2>1
<1>3. q < 1
  BY <1>1, <1>2, TimesOrder
<1> QED
  BY <1>1, <1>3 DEF q

LEMMA QuotientOf ==
  ASSUME NEW x \in Nat, NEW y \in Nat \ {0}, NEW n \in Nat, x \div y < n
  PROVE  x < n * y
<1> DEFINE q == x \div y
<1>1. q \in Nat /\ x = q * y + (x % y) /\ x % y \in 0 .. y - 1
  BY DivMod
<1>2. q < n
  OBVIOUS
<1> HIDE DEF q
<1>3. (q + 1) * y = q * y + y /\ (q + 1) * y <= n * y
  BY <1>1, <1>2, Distribute, TimesOrder
<1>4. q * y \in Int /\ n * y \in Int
  BY <1>1, Distribute
<1> QED
  BY <1>1, <1>3, <1>4

LEMMA WholeQuotient ==
  ASSUME NEW n \in Nat, NEW y \in Nat \ {0}
  PROVE  (n * y) \div y = n
<1> DEFINE x == n * y
           q == x \div y
           m == x % y
<1>1. x \in Nat
  BY TimesOrder
<1>2. q \in Nat /\ x = q * y + m /\ m \in 0 .. y - 1
  <2> HIDE DEF x
  <2> QED
    BY <1>1, DivMod
<1> HIDE DEF q, m
<1>3. (n - q) * y = m
  <2>1. (n - q) * y = n * y - q * y /\ q * y \in Int /\ n * y \in Int
    BY <1>2, Distribute
  <2> QED
    BY <1>2, <2>1
<1>4. n - q = 0
  <2>1. 0 * y = 0 /\ 1 * y = y
    OBVIOUS
  <2>2. n - q < 1 /\ n - q >= 0
    BY <1>2, <1>3, <2>1, TimesOrder
  <2> QED
    BY <1>2, <2>2
<1> QED
  BY <1>2, <1>4 DEF q, x

-----------------------------------------------------------------------------
(* Bits, bytes and words. *)

LEMMA ByteSize == ByteBits \in Nat \ {0} /\ WordBytes \in Nat \ {0}
  BY WordsAssumption

LEMMA BitsOfIs ==
  ASSUME NEW m \in Int, NEW n \in Int
  PROVE  /\ BitsOf(m) \in Int
         /\ BitsOf(m + n) = BitsOf(m) + BitsOf(n)
         /\ BitsOf(m - n) = BitsOf(m) - BitsOf(n)
         /\ m <= n <=> BitsOf(m) <= BitsOf(n)
         /\ m < n <=> BitsOf(m) < BitsOf(n)
         /\ m \in Nat => BitsOf(m) \in Nat
  BY ByteSize, Distribute, TimesOrder DEF BitsOf

LEMMA BitsOfNat ==
  ASSUME NEW n \in Nat
  PROVE  BitsOf(n) \in Nat /\ BitsOf(n) = n * ByteBits
  BY BitsOfIs DEF BitsOf

LEMMA SomeBits == BitsOf(0) = 0 /\ BitsOf(1) = ByteBits
  BY ByteSize DEF BitsOf

LEMMA WordSize ==
  /\ W \in Nat \ {0} /\ W = BitsOf(WordBytes) /\ BitsOf(4 * WordBytes) = 4 * W
  /\ ByteBits <= W
<1>1. ByteBits * WordBytes = WordBytes * ByteBits
  BY ByteSize
<1>2. 1 * ByteBits <= WordBytes * ByteBits /\ 1 * ByteBits = ByteBits
  BY ByteSize, TimesOrder
<1>3. WordBytes * ByteBits \in Int /\ (4 * WordBytes) * ByteBits = 4 * (WordBytes * ByteBits)
  BY ByteSize
<1> QED
  BY <1>1, <1>2, <1>3, ByteSize DEF W, BitsOf

(* A word is a number of bytes. *)
LEMMA WordRemainder == W % ByteBits = 0 /\ 0 % ByteBits = 0
<1>1. W = WordBytes * ByteBits /\ WordBytes * ByteBits \in Nat
  BY WordSize DEF BitsOf
<1>2. /\ W = (W \div ByteBits) * ByteBits + (W % ByteBits)
      /\ W \div ByteBits \in Nat /\ W % ByteBits \in 0 .. ByteBits - 1
  BY WordSize, ByteSize, DivMod
<1> DEFINE q == W \div ByteBits
           m == W % ByteBits
<1> HIDE DEF q, m
<1>3. WordBytes * ByteBits = q * ByteBits + m /\ q \in Nat /\ m \in 0 .. ByteBits - 1
  BY <1>1, <1>2 DEF q, m
<1>4. (WordBytes - q) * ByteBits = m
  <2>1. (WordBytes - q) * ByteBits = WordBytes * ByteBits - q * ByteBits /\ q * ByteBits \in Int
    BY <1>3, ByteSize, Distribute
  <2> QED
    BY <1>1, <1>3, <2>1, ByteSize
<1>5. WordBytes - q = 0
  <2>1. 0 * ByteBits = 0 /\ 1 * ByteBits = ByteBits
    BY ByteSize
  <2>2. WordBytes - q < 1
    BY <1>3, <1>4, <2>1, ByteSize, TimesOrder
  <2>3. WordBytes - q >= 0
    BY <1>3, <1>4, <2>1, ByteSize, TimesOrder
  <2> QED
    BY <1>3, <2>2, <2>3, ByteSize
<1>6. m = 0
  BY <1>4, <1>5, ByteSize
<1>7. 0 % ByteBits = 0
  BY ByteSize
<1> QED
  BY <1>6, <1>7 DEF m

Multiple(n) == \E k \in Nat : n = k * WordBytes

(* Whole words: what is shorter than a multiple is shorter by a word. *)
LEMMA MultipleIs ==
  ASSUME NEW m \in Int, NEW n \in Int, Multiple(m), Multiple(n)
  PROVE  /\ Multiple(0) /\ Multiple(m + n) /\ Multiple(WordBytes) /\ Multiple(4 * WordBytes)
         /\ m < n => m + WordBytes <= n
<1>1. PICK j \in Nat : m = j * WordBytes
  BY DEF Multiple
<1>2. PICK k \in Nat : n = k * WordBytes
  BY DEF Multiple
<1>3. 0 = 0 * WordBytes /\ WordBytes = 1 * WordBytes
  BY ByteSize
<1>4. m + n = (j + k) * WordBytes
  BY <1>1, <1>2, ByteSize, Distribute
<1>5. ASSUME m < n PROVE m + WordBytes <= n
  <2>1. j < k
    BY <1>1, <1>2, <1>5, ByteSize, TimesOrder
  <2>2. (j + 1) * WordBytes <= k * WordBytes
    BY <2>1, ByteSize, TimesOrder
  <2>3. (j + 1) * WordBytes = j * WordBytes + 1 * WordBytes
    BY ByteSize, Distribute
  <2> QED
    BY <1>1, <1>2, <1>3, <2>2, <2>3
<1> QED
  BY <1>3, <1>4, <1>5 DEF Multiple

LEMMA MultipleMinus ==
  ASSUME NEW m \in Int, NEW n \in Int, Multiple(m), Multiple(n), m <= n
  PROVE  Multiple(n - m)
<1>1. PICK j \in Nat : m = j * WordBytes
  BY DEF Multiple
<1>2. PICK k \in Nat : n = k * WordBytes
  BY DEF Multiple
<1>3. n - m = (k - j) * WordBytes
  BY <1>1, <1>2, ByteSize, Distribute
<1>4. k - j \in Nat
  BY <1>1, <1>2, ByteSize, TimesOrder
<1> QED
  BY <1>3, <1>4 DEF Multiple

LEMMA NoRemainder ==
  ASSUME NEW n \in Nat, n % WordBytes = 0
  PROVE  Multiple(n)
<1>1. n = (n \div WordBytes) * WordBytes + (n % WordBytes) /\ n \div WordBytes \in Nat
  BY ByteSize, DivMod
<1>2. (n \div WordBytes) * WordBytes \in Int
  BY <1>1, ByteSize, Distribute
<1>3. n = (n \div WordBytes) * WordBytes
  BY <1>1, <1>2
<1> QED
  BY <1>1, <1>3 DEF Multiple

-----------------------------------------------------------------------------
(* Sequences. *)

(* The bits of a word as a sequence, and those of the array.               *)
LEMMA SequenceIs ==
  ASSUME NEW S, NEW n \in Nat, NEW f \in [1 .. n -> S]
  PROVE  f \in Seq(S) /\ Len(f) = n
<1>1. f \in Seq(S)
  BY SeqDef
<1>2. Len(f) \in Nat /\ DOMAIN f = 1 .. Len(f) /\ DOMAIN f = 1 .. n
  BY <1>1, LenProperties
<1> QED
  BY <1>1, <1>2

LEMMA FlatIs ==
  ASSUME NEW S, NEW w, \A i \in 1 .. W : w[i] \in S
  PROVE  /\ Flat(w) \in Seq(S) /\ Len(Flat(w)) = W
         /\ \A i \in 1 .. W : Flat(w)[i] = w[i]
<1>1. Flat(w) \in [1 .. W -> S] /\ \A i \in 1 .. W : Flat(w)[i] = w[i]
  BY DEF Flat
<1> QED
  BY <1>1, WordSize, SequenceIs

=============================================================================
