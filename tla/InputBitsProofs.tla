--------------------------- MODULE InputBitsProofs ---------------------------
(***************************************************************************)
(* Proofs about the input bitstream, for every size of the byte, of the    *)
(* word and of the buffer, every source and every client.  An io.Reader    *)
(* that returns less than it has is allowed as long as the client does not *)
(* read arrays.                                                            *)
(***************************************************************************)
EXTENDS InputBits, WordsProofs

(* The buffer has whole words (NewDefaultInputBitStream refuses others).   *)
(* A client that calls ReadArray has a source that fills the               *)
(* buffer as far as it goes (a file): with short reads an array that is    *)
(* not aligned comes out wrong (the run array_short_read).  HasMoreToRead  *)
(* is not called when one byte is left in the buffer and no bit in         *)
(* current, else it loses that byte.                                       *)
Fits ==
  /\ BufferBytes \in Nat \ {0} /\ BufferBytes % WordBytes = 0
  /\ BitCounts \subseteq 1 .. W /\ ArraySizes \subseteq Nat \ {0}
  /\ (ShortReads => ArraySizes = {}) /\ AsksAtLastByte = FALSE

-----------------------------------------------------------------------------
(* The inductive invariant. *)

Places == 0 .. BufferBytes * ByteBits - 1
Pcs == {"idle", "bits", "array", "empty", "copy", "quad", "word"}
Types ==
  /\ TypeOK
  /\ buffer \in [Places -> Nat] /\ current \in [1 .. W -> Nat]
  /\ delivered \in Seq(Nat) /\ out \in Seq(Nat) /\ wanted \in Nat

(* The source is made of bytes. *)
WholeBytes == source \in Seq(Nat) /\ size \in Nat /\ Len(source) = BitsOf(size)

(* Bits in a sequence that are those of the source behind the first s.     *)
Holds(bits, s) == \A i \in 1 .. Len(bits) : bits[i] = source[s + i]
Delivered == Len(delivered) <= Len(source) /\ Holds(delivered, 0)

(* A byte of the buffer is the one that is as far from the end of what was *)
(* read as it is from the end of the buffer.                               *)
Base == srcPos - (maxPosition + 1)
Window(buf, from, to, base) ==
  \A i \in BitsOf(from) .. BitsOf(to) - 1 : buf[i] = source[BitsOf(base) + i + 1]
BufferIs == Base \in Nat /\ Window(buffer, position, maxPosition + 1, Base)

(* What the calls got and the unread bits of the current word are all that *)
(* went out of the buffer.                                                 *)
Taken == Len(delivered) + Len(out)
Bytes == srcPos - InBuffer
InWord(w, n, s) == \A i \in 1 .. n : w[W - n + i] = source[s + i]
Layout ==
  /\ Taken + availBits = BitsOf(Bytes)
  /\ InWord(current, availBits, Taken) /\ Holds(out, Len(delivered))

(* The buffer is emptied by words until the source ends. *)
WholeWords == LeftInSource > 0 /\ ~ShortReads => Multiple(InBuffer)

(* What the loops rely on: while words are put together, the current word  *)
(* has a bits, unless the source is at its end.                            *)
Splits == pc \in {"quad", "word"}
AtEnd == InBuffer = 0 /\ LeftInSource = 0
Loops ==
  /\ closed \/ panicked => pc = "idle"
  /\ pc = "idle" => out = <<>> /\ remaining = 0
  /\ pc = "array" => availBits = 0 /\ remaining > 0
  /\ pc = "copy" => availBits = 0 \/ remaining < ByteBits
  /\ Splits => /\ r \in 1 .. W - 1 /\ a = W - r /\ availBits < W /\ (availBits = a \/ AtEnd)
               /\ ~ShortReads

(* The answer of HasMoreToRead is forgotten when a call begins. *)
Asked == (pc # "idle" => hasMore = "unknown") /\ HasMoreIsRight

Open == ~closed /\ ~panicked
IInv ==
  /\ Types /\ WholeBytes /\ Delivered /\ Loops /\ EndIsReal /\ Asked
  /\ Open => BufferIs /\ Layout /\ WholeWords

-----------------------------------------------------------------------------
(* What is known of a stream that is open. *)

DataTypes ==
  /\ buffer \in [Places -> Nat] /\ current \in [1 .. W -> Nat] /\ out \in Seq(Nat)
  /\ readCount \in Int /\ maxPosition \in -1 .. BufferBytes - 1
  /\ position \in 0 .. maxPosition + 1 /\ availBits \in 0 .. W /\ srcPos \in 0 .. size

LEMMA OpenState ==
  ASSUME IInv, Open
  PROVE  /\ DataTypes /\ BufferIs /\ Layout /\ WholeWords /\ WholeBytes /\ Delivered
         /\ delivered \in Seq(Nat) /\ wanted \in Nat /\ pc \in Pcs /\ remaining \in Nat
         /\ r \in 0 .. W /\ a \in 0 .. W /\ hasMore \in {"unknown", "yes", "no"}
         /\ closed = FALSE /\ panicked = FALSE /\ ioError \in BOOLEAN
<1>1. TypeOK /\ Types /\ closed = FALSE /\ panicked = FALSE
  BY DEF IInv, Types, TypeOK, Open
<1> QED
  BY <1>1 DEF IInv, Types, TypeOK, DataTypes, Pcs

LEMMA BufferSize ==
  ASSUME Fits
  PROVE  /\ BufferBytes \in Nat \ {0} /\ Multiple(BufferBytes) /\ WordBytes <= BufferBytes
         /\ BitCounts \subseteq 1 .. W /\ ArraySizes \subseteq Nat \ {0}
<1>1. BufferBytes \in Nat \ {0} /\ Multiple(BufferBytes)
  BY NoRemainder DEF Fits
<1>2. Multiple(0) /\ 0 \in Int /\ BufferBytes \in Int /\ 0 < BufferBytes
  <2>1. 0 = 0 * WordBytes
    BY ByteSize
  <2> QED
    BY <1>1, <2>1 DEF Multiple
<1>3. 0 + WordBytes <= BufferBytes
  BY <1>1, <1>2, MultipleIs
<1> QED
  BY <1>1, <1>3, ByteSize DEF Fits

(* Where the bytes of the source are. *)
LEMMA Numbers ==
  ASSUME IInv, Open
  PROVE  /\ W \in Nat \ {0} /\ size \in Nat /\ srcPos \in Nat /\ position \in Nat
         /\ maxPosition \in Int /\ availBits \in 0 .. W
         /\ InBuffer \in Nat /\ InBuffer = maxPosition + 1 - position
         /\ LeftInSource \in Nat /\ srcPos + LeftInSource = size
         /\ Base \in Nat /\ Base = srcPos - (maxPosition + 1)
         /\ Bytes \in Nat /\ Bytes = Base + position /\ Bytes + InBuffer = srcPos
<1>1. DataTypes /\ BufferIs /\ WholeBytes
  BY OpenState
<1>2. /\ size \in Nat /\ srcPos \in 0 .. size /\ position \in 0 .. maxPosition + 1
      /\ maxPosition \in Int /\ maxPosition >= -1 /\ availBits \in 0 .. W /\ Base \in Nat
  BY <1>1 DEF DataTypes, BufferIs, WholeBytes
<1>3. LeftInSource = size - srcPos
  BY DEF LeftInSource
<1> QED
  BY <1>2, <1>3, WordSize DEF InBuffer, Base, Bytes

(* ... and the bits. *)
LEMMA BitNumbers ==
  ASSUME IInv, Open
  PROVE  /\ Len(out) \in Nat /\ Len(delivered) \in Nat /\ Taken \in Nat
         /\ Taken = Len(delivered) + Len(out) /\ Taken + availBits = BitsOf(Bytes)
         /\ BitsOf(Bytes) \in Nat /\ BitsOf(InBuffer) \in Nat
         /\ BitsOf(LeftInSource) \in Nat /\ BitsOf(size) \in Nat
         /\ BitsOf(Bytes) + BitsOf(InBuffer) + BitsOf(LeftInSource) = BitsOf(size)
         /\ Len(source) = BitsOf(size)
<1>1. Len(out) \in Nat /\ Len(delivered) \in Nat
  BY OpenState DEF DataTypes
<1>2. Taken + availBits = BitsOf(Bytes) /\ Len(source) = BitsOf(size)
  BY OpenState DEF Layout, WholeBytes
<1>3. /\ Bytes \in Nat /\ InBuffer \in Nat /\ LeftInSource \in Nat /\ size \in Nat
      /\ size = (Bytes + InBuffer) + LeftInSource /\ Bytes + InBuffer \in Nat
  BY Numbers
<1>4. /\ BitsOf(Bytes) \in Nat /\ BitsOf(InBuffer) \in Nat
      /\ BitsOf(LeftInSource) \in Nat /\ BitsOf(size) \in Nat
  BY <1>3, BitsOfNat
<1>5. BitsOf((Bytes + InBuffer) + LeftInSource) = BitsOf(Bytes + InBuffer) + BitsOf(LeftInSource)
  BY <1>3, BitsOfIs
<1>6. BitsOf(Bytes + InBuffer) = BitsOf(Bytes) + BitsOf(InBuffer)
  BY <1>3, BitsOfIs
<1> QED
  BY <1>1, <1>2, <1>3, <1>4, <1>5, <1>6 DEF Taken

LEMMA Busy == IInv /\ pc # "idle" => Open /\ hasMore = "unknown"
  BY DEF IInv, Loops, Open, Asked

-----------------------------------------------------------------------------
(* The next state. *)

LEMMA OpenIInv ==
  ASSUME DataTypes', BufferIs', Layout', WholeWords', WholeBytes', Delivered',
         delivered' \in Seq(Nat), wanted' \in Nat, pc' \in Pcs, remaining' \in Nat,
         r' \in 0 .. W, a' \in 0 .. W, hasMore' \in {"unknown", "yes", "no"},
         closed' = FALSE, panicked' = FALSE, ioError' \in BOOLEAN, Loops', Asked'
  PROVE  IInv'
<1>1. TypeOK'
  <2>1. {closed', panicked', ioError'} \subseteq BOOLEAN
    BY Zenon
  <2>2. Len(current') = W
    <3>1. current' \in [1 .. W -> Nat] /\ W \in Nat
      BY WordSize DEF DataTypes
    <3> QED
      BY <3>1, SequenceIs
  <2> QED
    BY <2>1, <2>2 DEF TypeOK, DataTypes, Pcs
<1>2. Types'
  BY <1>1 DEF Types, DataTypes
<1>3. EndIsReal'
  BY DEF EndIsReal
<1> QED
  BY <1>2, <1>3 DEF IInv

(* A step inside a call: what changes is what the call got, and where the  *)
(* stream is.                                                              *)
Inside ==
  /\ pc # "idle" /\ pc' \in Pcs \ {"idle"} /\ remaining' \in Nat
  /\ UNCHANGED <<source, closed, r, a, hist>>

LEMMA InsideIInv ==
  ASSUME IInv, Inside, DataTypes', BufferIs', Layout', WholeWords', Loops'
  PROVE  IInv'
<1>1. Open /\ hasMore = "unknown"
  BY Busy DEF Inside
<1>2. /\ WholeBytes /\ Delivered /\ delivered \in Seq(Nat) /\ wanted \in Nat
      /\ r \in 0 .. W /\ a \in 0 .. W /\ closed = FALSE /\ panicked = FALSE
      /\ ioError \in BOOLEAN
  BY <1>1, OpenState
<1>3. /\ source' = source /\ closed' = closed /\ r' = r /\ a' = a /\ delivered' = delivered
      /\ panicked' = panicked /\ wanted' = wanted /\ hasMore' = hasMore
      /\ ioError' = ioError /\ pc' \in Pcs /\ pc' # "idle" /\ remaining' \in Nat
  BY DEF Inside, hist
<1>4. WholeBytes' /\ Delivered'
  BY <1>2, <1>3 DEF WholeBytes, Delivered, Holds, size
<1>5. Asked'
  BY <1>1, <1>3 DEF Asked, HasMoreIsRight
<1> QED
  BY <1>1, <1>2, <1>3, <1>4, <1>5, OpenIInv

(* A call that panics: it wanted more than the source has, or there was an *)
(* error.                                                                  *)
LEMMA PanicIInv ==
  ASSUME IInv, pc # "idle", Panic, DataTypes', r' = r, a' = a,
         UNCHANGED <<source, closed, hasMore>>, ioError' \in BOOLEAN,
         ioError' \/ Taken + remaining > BitsOf(size)
  PROVE  IInv'
<1>1. Open /\ hasMore = "unknown"
  BY Busy
<1>2. /\ WholeBytes /\ Delivered /\ delivered \in Seq(Nat) /\ remaining \in Nat
      /\ r \in 0 .. W /\ a \in 0 .. W /\ closed = FALSE
  BY <1>1, OpenState
<1>3. /\ pc' = "idle" /\ panicked' = TRUE /\ wanted' = Len(out) + remaining
      /\ out' = <<>> /\ remaining' = 0 /\ delivered' = delivered
  BY DEF Panic
<1>4. Len(out) \in Nat /\ Len(delivered) \in Nat /\ Taken = Len(delivered) + Len(out)
  BY <1>1, BitNumbers
<1>5. TypeOK'
  <2>1. {closed', panicked', ioError'} \subseteq BOOLEAN
    <3>1. closed' = FALSE /\ panicked' = TRUE
      BY <1>2, <1>3
    <3> QED
      BY <3>1, Zenon
  <2>2. Len(current') = W
    <3>1. current' \in [1 .. W -> Nat] /\ W \in Nat
      BY WordSize DEF DataTypes
    <3> QED
      BY <3>1, SequenceIs
  <2> QED
    BY <1>1, <1>2, <1>3, <2>1, <2>2 DEF TypeOK, DataTypes
<1>6. Types'
  BY <1>2, <1>3, <1>4, <1>5 DEF Types, DataTypes
<1>7. WholeBytes' /\ Delivered'
  BY <1>2, <1>3 DEF WholeBytes, Delivered, Holds, size
<1>8. EndIsReal'
  <2>1. ioError' \/ Len(delivered) + (Len(out) + remaining) > BitsOf(size)
    BY <1>2, <1>4
  <2>2. size' = size
    BY DEF size
  <2> QED
    BY <1>3, <2>1, <2>2 DEF EndIsReal
<1>9. Loops' /\ Asked' /\ ~Open'
  BY <1>1, <1>3 DEF Loops, Splits, Asked, HasMoreIsRight, Open
<1> QED
  BY <1>6, <1>7, <1>8, <1>9 DEF IInv

-----------------------------------------------------------------------------
(* Sequences of bits of the source. *)

LEMMA HoldsNothing == ASSUME NEW s PROVE <<>> \in Seq(Nat) /\ Holds(<<>>, s) /\ Len(<<>>) = 0
  BY DEF Holds

LEMMA HoldsJoin ==
  ASSUME NEW x \in Seq(Nat), NEW y \in Seq(Nat), NEW s \in Nat,
         Holds(x, s), Holds(y, s + Len(x))
  PROVE  /\ x \o y \in Seq(Nat) /\ Len(x \o y) = Len(x) + Len(y) /\ Holds(x \o y, s)
<1> DEFINE z == x \o y
           m == Len(x)
           n == Len(y)
<1>1. /\ m \in Nat /\ n \in Nat
      /\ \A i \in 1 .. m : x[i] = source[s + i]
      /\ \A i \in 1 .. n : y[i] = source[(s + m) + i]
  BY DEF Holds
<1>2. /\ z \in Seq(Nat) /\ Len(z) = m + n
      /\ \A i \in 1 .. m + n : z[i] = IF i <= m THEN x[i] ELSE y[i - m]
  BY ConcatProperties
<1> HIDE DEF z, m, n
<1>3. \A i \in 1 .. m + n : z[i] = source[s + i]
  <2> TAKE i \in 1 .. m + n
  <2>1. z[i] = IF i <= m THEN x[i] ELSE y[i - m]
    BY <1>2
  <2>2. CASE i <= m
    BY <1>1, <2>1, <2>2
  <2>3. CASE i > m
    <3>1. i - m \in 1 .. n /\ ~(i <= m)
      BY <1>1, <2>3
    <3>2. y[i - m] = source[(s + m) + (i - m)]
      BY <1>1, <3>1
    <3>3. (s + m) + (i - m) = s + i
      BY <1>1
    <3> QED
      BY <2>1, <3>1, <3>2, <3>3
  <2> QED
    BY <1>1, <2>2, <2>3
<1> QED
  BY <1>2, <1>3 DEF z, m, n, Holds

(* What a call has got grows by what comes next in the source. *)
LEMMA OutGrows ==
  ASSUME IInv, Open, NEW x \in Seq(Nat), Holds(x, Taken), out' = out \o x,
         UNCHANGED <<source, delivered>>
  PROVE  /\ out' \in Seq(Nat) /\ Taken' = Taken + Len(x) /\ Holds(out, Len(delivered))'
<1>1. /\ out \in Seq(Nat) /\ Len(delivered) \in Nat /\ Taken = Len(delivered) + Len(out)
      /\ Len(out) \in Nat /\ Len(x) \in Nat
  BY OpenState, BitNumbers DEF DataTypes
<1>2. Holds(out, Len(delivered))
  BY OpenState DEF Layout
<1>3. /\ out \o x \in Seq(Nat) /\ Len(out \o x) = Len(out) + Len(x)
      /\ Holds(out \o x, Len(delivered))
  BY <1>1, <1>2, HoldsJoin
<1>4. Taken' = Len(delivered) + Len(out \o x)
  BY DEF Taken
<1>5. Holds(out, Len(delivered))'
  BY <1>3 DEF Holds
<1> QED
  BY <1>1, <1>3, <1>4, <1>5

(* The unread bits of the current word. *)
LEMMA InWordPart ==
  ASSUME NEW w, NEW n \in Nat, NEW m \in 0 .. n, NEW s \in Nat, InWord(w, n, s)
  PROVE  InWord(w, n - m, s + m)
<1> SUFFICES ASSUME NEW i \in 1 .. n - m PROVE w[W - (n - m) + i] = source[s + m + i]
  BY DEF InWord
<1>1. m + i \in 1 .. n /\ W - (n - m) + i = W - n + (m + i) /\ s + m + i = s + (m + i)
  BY WordSize
<1> QED
  BY <1>1 DEF InWord

LEMMA TakeBitsHolds ==
  ASSUME IInv, Open, NEW n \in 0 .. availBits
  PROVE  /\ TakeBits(n) \in Seq(Nat) /\ Len(TakeBits(n)) = n /\ Holds(TakeBits(n), Taken)
         /\ InWord(current, availBits - n, Taken + n)
<1>1. /\ current \in [1 .. W -> Nat] /\ InWord(current, availBits, Taken)
      /\ availBits \in 0 .. W /\ W \in Nat /\ Taken \in Nat
  BY OpenState, WordSize, BitNumbers DEF DataTypes, Layout
<1>2. \A i \in 1 .. n : /\ W - availBits + i \in 1 .. W
                        /\ current[W - availBits + i] = source[Taken + i]
  <2> TAKE i \in 1 .. n
  <2>1. i \in 1 .. availBits /\ W - availBits + i \in 1 .. W
    BY <1>1
  <2> QED
    BY <1>1, <2>1 DEF InWord
<1>3. TakeBits(n) \in [1 .. n -> Nat]
  BY <1>1, <1>2 DEF TakeBits
<1>4. TakeBits(n) \in Seq(Nat) /\ Len(TakeBits(n)) = n
  BY <1>1, <1>3, SequenceIs
<1>5. Holds(TakeBits(n), Taken)
  BY <1>2, <1>4 DEF Holds, TakeBits
<1>6. InWord(current, availBits - n, Taken + n)
  <2>1. availBits \in Nat /\ n \in 0 .. availBits
    BY <1>1
  <2> QED
    BY <1>1, <2>1, InWordPart
<1> QED
  BY <1>4, <1>5, <1>6

-----------------------------------------------------------------------------
(* The buffer. *)

LEMMA PlaceOf ==
  ASSUME IInv, Open, Fits, NEW p \in Nat, NEW n \in Nat, position <= p,
         p + n <= maxPosition + 1
  PROVE  /\ BitsOf(p) \in Nat /\ BitsOf(n) \in Nat
         /\ \A i \in 0 .. BitsOf(n) - 1 :
              /\ BitsOf(p) + i \in Places
              /\ buffer[BitsOf(p) + i] = source[BitsOf(Base + p) + i + 1]
<1>1. /\ position \in Nat /\ maxPosition \in Int /\ Base \in Nat
      /\ maxPosition + 1 <= BufferBytes /\ BufferBytes \in Nat
  <2>1. maxPosition \in -1 .. BufferBytes - 1
    BY OpenState DEF DataTypes
  <2>2. BufferBytes \in Nat
    BY BufferSize
  <2>3. position \in Nat /\ maxPosition \in Int /\ Base \in Nat
    BY Numbers
  <2> QED
    BY <2>1, <2>2, <2>3
<1>2. /\ BitsOf(p) \in Nat /\ BitsOf(n) \in Nat /\ BitsOf(position) \in Nat
      /\ BitsOf(Base) \in Nat
  BY <1>1, BitsOfNat
<1>3. BitsOf(p + n) = BitsOf(p) + BitsOf(n) /\ BitsOf(Base + p) = BitsOf(Base) + BitsOf(p)
  BY <1>1, BitsOfIs
<1>4. BitsOf(position) <= BitsOf(p)
  BY <1>1, BitsOfIs
<1>5. /\ BitsOf(p + n) <= BitsOf(maxPosition + 1) /\ BitsOf(maxPosition + 1) \in Int
      /\ BitsOf(maxPosition + 1) <= BitsOf(BufferBytes)
  <2>1. p + n \in Int /\ maxPosition + 1 \in Int /\ BufferBytes \in Int
    BY <1>1
  <2>2. BitsOf(p + n) <= BitsOf(maxPosition + 1)
    BY <2>1, BitsOfIs
  <2> QED
    BY <1>1, <2>1, <2>2, BitsOfIs
<1>6. BitsOf(BufferBytes) = BufferBytes * ByteBits /\ BitsOf(BufferBytes) \in Nat
  BY <1>1, BitsOfNat
<1>7. Window(buffer, position, maxPosition + 1, Base)
  BY OpenState DEF BufferIs
<1>8. ASSUME NEW i \in 0 .. BitsOf(n) - 1
      PROVE  /\ BitsOf(p) + i \in Places
             /\ buffer[BitsOf(p) + i] = source[BitsOf(Base + p) + i + 1]
  <2>1. BitsOf(p) + i \in BitsOf(position) .. BitsOf(maxPosition + 1) - 1
    BY <1>2, <1>3, <1>4, <1>5
  <2>2. BitsOf(p) + i \in Places
    BY <1>2, <1>4, <1>5, <1>6, <2>1 DEF Places
  <2>3. buffer[BitsOf(p) + i] = source[BitsOf(Base) + (BitsOf(p) + i) + 1]
    BY <1>7, <2>1 DEF Window
  <2>4. BitsOf(Base) + (BitsOf(p) + i) + 1 = BitsOf(Base + p) + i + 1
    BY <1>2, <1>3
  <2> QED
    BY <2>2, <2>3, <2>4
<1> QED
  BY <1>2, <1>8

LEMMA BytesHold ==
  ASSUME IInv, Open, Fits, NEW p \in Nat, NEW n \in Nat, position <= p,
         p + n <= maxPosition + 1
  PROVE  LET x == BytesAt(buffer, p, n)
         IN /\ x \in [1 .. BitsOf(n) -> Nat] /\ x \in Seq(Nat) /\ Len(x) = BitsOf(n)
            /\ \A i \in 1 .. BitsOf(n) : x[i] = source[BitsOf(Base + p) + i]
            /\ Holds(x, BitsOf(Base + p))
<1> DEFINE x == BytesAt(buffer, p, n)
           b == BitsOf(n)
           s == BitsOf(Base + p)
<1>1. /\ BitsOf(p) \in Nat /\ b \in Nat
      /\ \A i \in 0 .. b - 1 :
           /\ BitsOf(p) + i \in Places /\ buffer[BitsOf(p) + i] = source[s + i + 1]
  BY PlaceOf
<1>2. x = [i \in 1 .. b |-> buffer[BitsOf(p) + i - 1]]
  BY DEF BytesAt
<1>3. s \in Nat /\ buffer \in [Places -> Nat]
  <2>1. Base + p \in Nat
    BY Numbers
  <2> QED
    BY <2>1, BitsOfNat, OpenState DEF DataTypes
<1> HIDE DEF x, b, s
<1>4. ASSUME NEW i \in 1 .. b
      PROVE  buffer[BitsOf(p) + i - 1] \in Nat /\ buffer[BitsOf(p) + i - 1] = source[s + i]
  <2>1. i - 1 \in 0 .. b - 1 /\ BitsOf(p) + (i - 1) = BitsOf(p) + i - 1
        /\ s + (i - 1) + 1 = s + i
    BY <1>1, <1>3
  <2>2. BitsOf(p) + (i - 1) \in Places /\ buffer[BitsOf(p) + (i - 1)] = source[s + (i - 1) + 1]
    BY <1>1, <2>1
  <2> QED
    BY <1>3, <2>1, <2>2
<1>5. x \in [1 .. b -> Nat] /\ \A i \in 1 .. b : x[i] = source[s + i]
  BY <1>2, <1>4
<1>6. x \in Seq(Nat) /\ Len(x) = b
  BY <1>1, <1>5, SequenceIs
<1> QED
  BY <1>5, <1>6 DEF x, b, s, Holds

(* Bytes go out of the buffer. *)
LEMMA Advance ==
  ASSUME IInv, Open, NEW k \in Nat, k <= InBuffer, position' = position + k,
         UNCHANGED <<source, readCount, maxPosition, buffer, srcPos>>
  PROVE  /\ BufferIs' /\ Bytes' = Bytes + k /\ InBuffer' = InBuffer - k
         /\ LeftInSource' = LeftInSource /\ position' \in 0 .. maxPosition' + 1
         /\ readCount' \in Int /\ maxPosition' \in -1 .. BufferBytes - 1
         /\ srcPos' \in 0 .. size' /\ buffer' \in [Places -> Nat]
<1>1. /\ position \in Nat /\ maxPosition \in Int /\ InBuffer = maxPosition + 1 - position
      /\ srcPos \in Nat /\ Base \in Nat /\ Bytes = srcPos - InBuffer /\ InBuffer \in Nat
  BY Numbers DEF Bytes
<1>2. DataTypes /\ Window(buffer, position, maxPosition + 1, Base)
  BY OpenState DEF BufferIs
<1>3. position' \in 0 .. maxPosition' + 1 /\ InBuffer' = InBuffer - k
  BY <1>1 DEF InBuffer
<1>4. Bytes' = Bytes + k
  <2>1. Bytes' = srcPos - InBuffer'
    BY DEF Bytes
  <2> QED
    BY <1>1, <1>3, <2>1
<1>5. Base' = Base
  BY DEF Base
<1>6. Window(buffer, position, maxPosition + 1, Base)'
  <2>1. BitsOf(position) <= BitsOf(position + k)
        /\ BitsOf(position) \in Int /\ BitsOf(position + k) \in Int
    <3>1. position + k \in Int /\ position <= position + k /\ position \in Int
      BY <1>1
    <3> QED
      BY <3>1, BitsOfIs
  <2>2. BitsOf(maxPosition + 1) \in Int
    BY <1>1, BitsOfIs
  <2> QED
    BY <1>2, <1>5, <2>1, <2>2 DEF Window
<1>7. size' = size /\ LeftInSource' = LeftInSource
  BY DEF size, LeftInSource
<1> QED
  BY <1>1, <1>2, <1>3, <1>4, <1>5, <1>6, <1>7 DEF DataTypes, BufferIs

-----------------------------------------------------------------------------
(* pull and readFromInputStream. *)

(* The word that is pulled has the next bytes of the source in its low     *)
(* bits; it is incomplete at the end of the source only.                   *)
LEMMA PulledIs ==
  ASSUME Fits, IInv, Open, InBuffer > 0
  PROVE  LET m == BitsOf(PulledBytes)
         IN /\ PulledBytes \in 1 .. WordBytes /\ PulledBytes <= InBuffer /\ m \in 1 .. W
            /\ Pulled \in [1 .. W -> Nat] /\ InWord(Pulled, m, BitsOf(Bytes))
            /\ \A i \in 1 .. W - m : Pulled[i] = 0
            /\ \/ PulledBytes = WordBytes /\ m = W
               \/ PulledBytes = InBuffer /\ (LeftInSource = 0 \/ ShortReads)
<1> DEFINE k == PulledBytes
           m == BitsOf(k)
           p == BitsOf(position)
           s == BitsOf(Bytes)
           gap == W - m
<1>1. /\ InBuffer \in Nat /\ WordBytes \in Nat \ {0} /\ W \in Nat \ {0}
      /\ W = BitsOf(WordBytes) /\ position \in Nat /\ InBuffer = maxPosition + 1 - position
      /\ Base + position = Bytes /\ maxPosition \in Int /\ LeftInSource \in Nat /\ Bytes \in Nat
  BY Numbers, ByteSize, WordSize
<1>2. /\ k \in 1 .. WordBytes /\ k <= InBuffer /\ (k = WordBytes \/ k = InBuffer)
      /\ k < WordBytes => k = InBuffer
  BY <1>1 DEF PulledBytes, MinOf
<1> HIDE DEF k
<1>3. m \in 1 .. W
  <2>1. 0 < k /\ k <= WordBytes /\ k \in Int /\ WordBytes \in Int /\ 0 \in Int
    BY <1>1, <1>2
  <2>2. BitsOf(0) < BitsOf(k) /\ BitsOf(k) \in Int
    BY <2>1, BitsOfIs
  <2>3. BitsOf(k) <= BitsOf(WordBytes)
    BY <2>1, BitsOfIs
  <2> QED
    BY <1>1, <2>2, <2>3, SomeBits
<1>4. /\ p \in Nat
      /\ \A i \in 0 .. m - 1 : p + i \in Places /\ buffer[p + i] = source[s + i + 1]
  <2>1. k \in Nat /\ position <= position /\ position + k <= maxPosition + 1
    BY <1>1, <1>2
  <2>2. /\ BitsOf(position) \in Nat
        /\ \A i \in 0 .. BitsOf(k) - 1 :
             /\ BitsOf(position) + i \in Places
             /\ buffer[BitsOf(position) + i] = source[BitsOf(Base + position) + i + 1]
    BY <1>1, <2>1, PlaceOf
  <2> QED
    BY <1>1, <2>2
<1>5. Pulled = [i \in 1 .. W |-> IF i > gap THEN buffer[p + i - gap - 1] ELSE 0]
  BY DEF Pulled, k
<1>6. s \in Nat /\ buffer \in [Places -> Nat] /\ gap \in 0 .. W - 1 /\ gap = W - m
  <2>1. s \in Nat
    BY <1>1, BitsOfNat
  <2>2. buffer \in [Places -> Nat]
    BY OpenState DEF DataTypes
  <2> HIDE DEF m
  <2>3. gap \in 0 .. W - 1
    BY <1>1, <1>3
  <2> QED
    BY <2>1, <2>2, <2>3
<1> HIDE DEF m, p, s, gap
<1>7. ASSUME NEW i \in 1 .. W, i > gap
      PROVE  /\ buffer[p + i - gap - 1] \in Nat
             /\ buffer[p + i - gap - 1] = source[s + (i - gap)]
  <2>1. /\ i - gap - 1 \in 0 .. m - 1 /\ p + (i - gap - 1) = p + i - gap - 1
        /\ s + (i - gap - 1) + 1 = s + (i - gap)
    BY <1>1, <1>3, <1>4, <1>6, <1>7
  <2>2. /\ p + (i - gap - 1) \in Places
        /\ buffer[p + (i - gap - 1)] = source[s + (i - gap - 1) + 1]
    BY <1>4, <2>1
  <2> QED
    BY <1>6, <2>1, <2>2
<1>8. Pulled \in [1 .. W -> Nat]
  BY <1>5, <1>7
<1>9. ASSUME NEW i \in 1 .. m PROVE Pulled[W - m + i] = source[s + i]
  <2> DEFINE j == W - m + i
  <2>1. j \in 1 .. W /\ j > gap /\ j - gap = i
    BY <1>1, <1>3, <1>6
  <2> HIDE DEF j
  <2>2. Pulled[j] = source[s + (j - gap)]
    BY <1>5, <1>7, <2>1
  <2> QED
    BY <2>1, <2>2 DEF j
<1>10. \A i \in 1 .. W - m : Pulled[i] = 0
  <2> TAKE i \in 1 .. W - m
  <2>1. i \in 1 .. W /\ ~(i > gap)
    BY <1>1, <1>3, <1>6
  <2> QED
    BY <1>5, <2>1
<1>11. \/ k = WordBytes /\ m = W
       \/ k = InBuffer /\ (LeftInSource = 0 \/ ShortReads)
  <2>1. CASE k = WordBytes
    BY <1>1, <2>1 DEF m
  <2>2. CASE k < WordBytes
    <3>1. k = InBuffer
      BY <1>2, <2>2
    <3>2. ASSUME LeftInSource > 0, ~ShortReads PROVE FALSE
      <4>1. Multiple(InBuffer)
        BY <3>2, OpenState DEF WholeWords
      <4>2. Multiple(0)
        <5>1. 0 = 0 * WordBytes
          BY <1>1
        <5> QED
          BY <5>1 DEF Multiple
      <4>3. 0 + WordBytes <= InBuffer
        <5>1. 0 \in Int /\ InBuffer \in Int /\ 0 < InBuffer
          BY <1>1
        <5> QED
          BY <4>1, <4>2, <5>1, MultipleIs
      <4> QED
        BY <1>1, <1>2, <2>2, <3>1, <4>3
    <3> QED
      BY <1>1, <3>1, <3>2
  <2> QED
    BY <1>1, <1>2, <2>1, <2>2
<1>12. InWord(Pulled, m, s)
  BY <1>9 DEF InWord
<1> QED
  BY <1>2, <1>3, <1>8, <1>10, <1>11, <1>12 DEF k, m, s

(* After a pull the buffer is still filled by words, or the source is over.*)
LEMMA PullEffect ==
  ASSUME Fits, IInv, Open, Pull,
         UNCHANGED <<source, readCount, maxPosition, buffer, srcPos>>
  PROVE  /\ BufferIs' /\ Bytes' = Bytes + PulledBytes /\ WholeWords'
         /\ BitsOf(Bytes') = BitsOf(Bytes) + BitsOf(PulledBytes)
         /\ LeftInSource' = LeftInSource /\ InBuffer' = InBuffer - PulledBytes
         /\ position' \in 0 .. maxPosition' + 1
         /\ readCount' \in Int /\ maxPosition' \in -1 .. BufferBytes - 1
         /\ srcPos' \in 0 .. size' /\ buffer' \in [Places -> Nat]
         /\ current' = Pulled /\ current' \in [1 .. W -> Nat]
<1>1. InBuffer > 0 /\ current' = Pulled /\ position' = position + PulledBytes
  BY DEF Pull
<1>2. /\ PulledBytes \in 1 .. WordBytes /\ PulledBytes <= InBuffer
      /\ Pulled \in [1 .. W -> Nat]
      /\ \/ PulledBytes = WordBytes
         \/ PulledBytes = InBuffer /\ (LeftInSource = 0 \/ ShortReads)
  BY <1>1, PulledIs
<1>3. PulledBytes \in Nat /\ WordBytes \in Nat \ {0} /\ InBuffer \in Nat /\ Bytes \in Nat
      /\ LeftInSource \in Nat
  BY <1>2, ByteSize, Numbers
<1>4. /\ BufferIs' /\ Bytes' = Bytes + PulledBytes /\ InBuffer' = InBuffer - PulledBytes
      /\ LeftInSource' = LeftInSource /\ position' \in 0 .. maxPosition' + 1
      /\ readCount' \in Int /\ maxPosition' \in -1 .. BufferBytes - 1
      /\ srcPos' \in 0 .. size' /\ buffer' \in [Places -> Nat]
  BY <1>1, <1>2, <1>3, Advance
<1>5. BitsOf(Bytes') = BitsOf(Bytes) + BitsOf(PulledBytes)
  BY <1>3, <1>4, BitsOfIs
<1>6. WholeWords'
  <2> SUFFICES ASSUME LeftInSource > 0, ~ShortReads PROVE Multiple(InBuffer - PulledBytes)
    BY <1>4 DEF WholeWords, Multiple
  <2>1. Multiple(InBuffer) /\ PulledBytes = WordBytes
    BY <1>2, OpenState DEF WholeWords
  <2>2. Multiple(WordBytes)
    <3>1. WordBytes = 1 * WordBytes
      BY <1>3
    <3> QED
      BY <3>1 DEF Multiple
  <2> QED
    BY <1>2, <1>3, <2>1, <2>2, MultipleMinus
<1> QED
  BY <1>1, <1>2, <1>4, <1>5, <1>6

(* A refill of an empty buffer. *)
LEMMA RefillEffect ==
  ASSUME Fits, IInv, Open, InBuffer = 0, NEW n \in Returns, Refill(n), UNCHANGED source
  PROVE  /\ n > 0 /\ BufferIs' /\ Bytes' = Bytes /\ WholeWords' /\ LeftInSource > 0
         /\ position' \in 0 .. maxPosition' + 1
         /\ readCount' \in Int /\ maxPosition' \in -1 .. BufferBytes - 1
         /\ srcPos' \in 0 .. size' /\ buffer' \in [Places -> Nat]
<1>1. /\ srcPos \in Nat /\ Bytes \in Nat /\ Bytes + InBuffer = srcPos /\ LeftInSource \in Nat
      /\ srcPos + LeftInSource = size /\ size \in Nat /\ position \in Nat
  BY Numbers
<1>2. /\ BufferBytes \in Nat \ {0} /\ Multiple(BufferBytes)
  BY BufferSize
<1>3. /\ n \in 1 .. MinOf(BufferBytes, LeftInSource)
      /\ ShortReads \/ n = MinOf(BufferBytes, LeftInSource)
  BY <1>1, <1>2 DEF Returns, MinOf
<1>4. /\ n \in 1 .. BufferBytes /\ n <= LeftInSource
      /\ ShortReads \/ n = BufferBytes \/ n = LeftInSource
  BY <1>1, <1>2, <1>3 DEF MinOf
<1>5. /\ readCount' = readCount + BitsOf(position)
      /\ buffer' = [i \in DOMAIN buffer |->
                      IF i < BitsOf(n) THEN source[BitsOf(srcPos) + i + 1] ELSE buffer[i]]
      /\ position' = 0 /\ maxPosition' = n - 1 /\ srcPos' = srcPos + n
  BY DEF Refill, CountConsumed, LastIndex
<1>6. /\ buffer \in [Places -> Nat] /\ readCount \in Int
      /\ source \in Seq(Nat) /\ Len(source) = BitsOf(size)
  BY OpenState DEF DataTypes, WholeBytes
<1>7. /\ BitsOf(n) \in Nat /\ BitsOf(srcPos) \in Nat /\ BitsOf(position) \in Nat
      /\ BitsOf(srcPos) + BitsOf(n) <= BitsOf(size) /\ BitsOf(size) \in Nat
      /\ BitsOf(n) <= BufferBytes * ByteBits /\ BufferBytes * ByteBits \in Nat
  <2>1. n \in Nat /\ n \in Int /\ srcPos \in Int /\ size \in Int /\ srcPos + n <= size
        /\ srcPos + n \in Int /\ BufferBytes \in Int /\ BufferBytes \in Nat
    BY <1>1, <1>2, <1>4
  <2>2. BitsOf(srcPos + n) = BitsOf(srcPos) + BitsOf(n)
    BY <2>1, BitsOfIs
  <2>3. BitsOf(srcPos + n) <= BitsOf(size)
    BY <2>1, BitsOfIs
  <2>4. BitsOf(n) <= BitsOf(BufferBytes)
    BY <1>4, <2>1, BitsOfIs
  <2>5. BitsOf(BufferBytes) = BufferBytes * ByteBits /\ BitsOf(BufferBytes) \in Nat
    BY <2>1, BitsOfNat
  <2>6. BitsOf(n) \in Nat /\ BitsOf(srcPos) \in Nat /\ BitsOf(position) \in Nat
        /\ BitsOf(size) \in Nat
    BY <1>1, <2>1, BitsOfNat
  <2> QED
    BY <2>2, <2>3, <2>4, <2>5, <2>6
<1>8. ASSUME NEW i \in Places, i < BitsOf(n)
      PROVE  source[BitsOf(srcPos) + i + 1] \in Nat
  <2>1. BitsOf(srcPos) + i + 1 \in 1 .. Len(source)
    BY <1>6, <1>7, <1>8 DEF Places
  <2> QED
    BY <1>6, <2>1
<1>9. /\ buffer' \in [Places -> Nat]
      /\ \A i \in Places : i < BitsOf(n) => buffer'[i] = source[BitsOf(srcPos) + i + 1]
  BY <1>5, <1>6, <1>8
<1>10. Base' = srcPos /\ Bytes' = Bytes /\ InBuffer' = n
  <2>1. InBuffer' = n /\ Base' = srcPos
    BY <1>1, <1>4, <1>5 DEF InBuffer, Base
  <2>2. Bytes' = srcPos' - InBuffer'
    BY DEF Bytes
  <2> QED
    BY <1>1, <1>4, <1>5, <2>1, <2>2
<1>11. BufferIs'
  <2>1. Base' \in Nat
    BY <1>1, <1>10
  <2>2. ASSUME NEW i \in 0 .. BitsOf(n) - 1
        PROVE  buffer'[i] = source[BitsOf(srcPos) + i + 1]
    <3>1. i \in Places /\ i < BitsOf(n)
      BY <1>7 DEF Places
    <3> QED
      BY <1>9, <3>1
  <2>3. position' = 0 /\ maxPosition' + 1 = n
    BY <1>4, <1>5
  <2>4. Window(buffer, position, maxPosition + 1, Base)'
    BY <1>10, <2>2, <2>3, SomeBits DEF Window
  <2> QED
    BY <2>1, <2>4 DEF BufferIs
<1>12. WholeWords'
  <2> SUFFICES ASSUME LeftInSource' > 0, ~ShortReads PROVE Multiple(InBuffer')
    BY DEF WholeWords, Multiple
  <2>1. LeftInSource' = size - (srcPos + n)
    BY <1>5 DEF LeftInSource, size
  <2>2. n = BufferBytes
    BY <1>1, <1>4, <2>1
  <2> QED
    BY <1>2, <1>10, <2>2
<1>13. /\ position' \in 0 .. maxPosition' + 1 /\ maxPosition' \in -1 .. BufferBytes - 1
       /\ srcPos' \in 0 .. size' /\ readCount' \in Int
  <2>1. size' = size
    BY DEF size
  <2> QED
    BY <1>1, <1>2, <1>4, <1>5, <1>6, <1>7, <2>1
<1>14. n > 0 /\ LeftInSource > 0
  BY <1>1, <1>2, <1>4
<1> QED
  BY <1>9, <1>10, <1>11, <1>12, <1>13, <1>14

(* The source returns nothing. *)
LEMMA NoRefillEffect ==
  ASSUME IInv, Open, InBuffer = 0, NoRefill, UNCHANGED source, BufferBytes \in Nat
  PROVE  /\ BufferIs' /\ Bytes' = Bytes /\ WholeWords'
         /\ position' \in 0 .. maxPosition' + 1
         /\ readCount' \in Int /\ maxPosition' \in -1 .. BufferBytes - 1
         /\ srcPos' \in 0 .. size' /\ buffer' \in [Places -> Nat]
<1>1. /\ position' = 0 /\ maxPosition' = -1
      /\ readCount' = readCount + BitsOf(position) /\ UNCHANGED <<buffer, srcPos>>
  BY DEF NoRefill, CountConsumed
<1>2. /\ srcPos \in Nat /\ Bytes + InBuffer = srcPos /\ Bytes \in Nat
      /\ position \in Nat /\ size \in Nat /\ srcPos + LeftInSource = size
  BY Numbers
<1>3. buffer \in [Places -> Nat] /\ readCount \in Int
  BY OpenState DEF DataTypes
<1>4. size' = size
  BY <1>1, <1>2 DEF size
<1>5. InBuffer' = 0 /\ Base' = srcPos
  BY <1>1, <1>2 DEF InBuffer, Base
<1>6. Bytes' = Bytes
  <2>1. Bytes' = srcPos' - InBuffer'
    BY DEF Bytes
  <2> QED
    BY <1>1, <1>2, <1>5, <2>1
<1>7. BufferIs'
  <2>1. position' = 0 /\ maxPosition' + 1 = 0 /\ Base' \in Nat
    BY <1>1, <1>2, <1>5
  <2>2. Window(buffer, position, maxPosition + 1, Base)'
    BY <2>1, SomeBits DEF Window
  <2> QED
    BY <2>1, <2>2 DEF BufferIs
<1>8. WholeWords'
  <2>1. 0 = 0 * WordBytes
    BY ByteSize
  <2> QED
    BY <1>5, <2>1 DEF WholeWords, Multiple
<1>9. BitsOf(position) \in Nat
  BY <1>2, BitsOfNat
<1>10. readCount' \in Int
  BY <1>1, <1>3, <1>9
<1>11. srcPos \in 0 .. size
  <2>1. LeftInSource \in Nat
    BY OpenState, Numbers
  <2> QED
    BY <1>2, <2>1
<1>12. srcPos' \in 0 .. size'
  BY <1>1, <1>4, <1>11
<1>13. position' \in 0 .. maxPosition' + 1 /\ maxPosition' \in -1 .. BufferBytes - 1
  BY <1>1
<1>14. buffer' \in [Places -> Nat]
  BY <1>1, <1>3 DEF Places
<1> QED
  BY <1>6, <1>7, <1>8, <1>10, <1>12, <1>13, <1>14

-----------------------------------------------------------------------------
(* The actions that take no bits. *)

LEMMA SameData ==
  ASSUME IInv, Open, UNCHANGED <<source, fields, out, delivered>>
  PROVE  /\ DataTypes' /\ BufferIs' /\ Layout' /\ WholeWords' /\ WholeBytes' /\ Delivered'
<1> USE DEF fields
<1>1. /\ DataTypes /\ BufferIs /\ Layout /\ WholeWords /\ WholeBytes /\ Delivered
  BY OpenState
<1>2. size' = size /\ InBuffer' = InBuffer /\ LeftInSource' = LeftInSource /\ Base' = Base
  BY DEF size, InBuffer, LeftInSource, Base
<1>3. Bytes' = Bytes /\ Taken' = Taken
  BY DEF Bytes, InBuffer, Taken
<1>4. DataTypes'
  BY <1>1, <1>2 DEF DataTypes
<1>5. BufferIs'
  BY <1>1, <1>2 DEF BufferIs, Window
<1>6. Layout'
  BY <1>1, <1>3 DEF Layout, InWord, Holds
<1>7. WholeWords'
  BY <1>1, <1>2 DEF WholeWords, Multiple
<1>8. WholeBytes' /\ Delivered'
  BY <1>1, <1>2 DEF WholeBytes, Delivered, Holds
<1> QED
  BY <1>4, <1>5, <1>6, <1>7, <1>8

LEMMA NewStreamIInv ==
  ASSUME NewStream, WholeBytes, BufferBytes \in Nat
  PROVE  IInv
<1> USE DEF NewStream
<1>1. W \in Nat \ {0} /\ Zero \in [1 .. W -> Nat]
  BY WordSize DEF Zero
<1>2. Len(Zero) = W
  BY <1>1, SequenceIs
<1>3. TypeOK
  <2>1. {closed, panicked, ioError} \subseteq BOOLEAN
    BY Zenon
  <2>2. srcPos \in 0 .. size /\ maxPosition \in -1 .. BufferBytes - 1 /\ readCount \in Int
        /\ position \in 0 .. maxPosition + 1 /\ availBits \in 0 .. W
    BY <1>1 DEF WholeBytes
  <2>3. Len(current) = W
    BY <1>2
  <2>4. /\ pc \in {"idle", "bits", "array", "empty", "copy", "quad", "word"}
        /\ remaining \in Nat /\ r \in 0 .. W /\ a \in 0 .. W
        /\ hasMore \in {"unknown", "yes", "no"}
    BY <1>1
  <2> HIDE DEF NewStream
  <2> QED
    BY <2>1, <2>2, <2>3, <2>4 DEF TypeOK
<1>4. delivered \in Seq(Nat) /\ out \in Seq(Nat) /\ Len(delivered) = 0 /\ Len(out) = 0
  OBVIOUS
<1>5. Types
  BY <1>1, <1>3, <1>4 DEF Types, Places
<1>6. Delivered
  BY <1>4 DEF Delivered, Holds, WholeBytes
<1>7. Loops /\ EndIsReal /\ Asked
  BY DEF Loops, Splits, EndIsReal, Asked, HasMoreIsRight
<1>8. InBuffer = 0 /\ Base = 0 /\ Bytes = 0 /\ Taken = 0
  BY <1>4 DEF InBuffer, Base, Bytes, Taken
<1>9. BufferIs
  BY <1>8, SomeBits DEF BufferIs, Window
<1>10. Layout
  BY <1>4, <1>8, SomeBits DEF Layout, InWord, Holds
<1>11. WholeWords
  <2>1. 0 = 0 * WordBytes
    BY ByteSize
  <2> QED
    BY <1>8, <2>1 DEF WholeWords, Multiple
<1> QED
  BY <1>5, <1>6, <1>7, <1>9, <1>10, <1>11 DEF IInv

LEMMA SourceIs ==
  ASSUME NEW n \in Nat, source = BitRange(1, n * ByteBits)
  PROVE  WholeBytes
<1> DEFINE b == n * ByteBits
<1>1. b \in Nat /\ b = BitsOf(n)
  BY BitsOfNat
<1>2. source = [i \in 1 .. b |-> i]
  <2> HIDE DEF b
  <2>1. b - 1 + 1 = b /\ \A i \in 1 .. b : 1 + i - 1 = i
    BY <1>1
  <2>2. source = BitRange(1, b)
    BY DEF b
  <2> QED
    BY <2>1, <2>2 DEF BitRange
<1> HIDE DEF b
<1>3. source \in [1 .. b -> Nat]
  BY <1>1, <1>2
<1>4. source \in Seq(Nat) /\ Len(source) = b
  BY <1>1, <1>3, SequenceIs
<1>5. size = n
  <2>1. b = n * ByteBits /\ ByteBits \in Nat \ {0}
    BY ByteSize DEF b
  <2> QED
    BY <1>4, <2>1, WholeQuotient DEF size
<1> QED
  BY <1>1, <1>4, <1>5 DEF WholeBytes

LEMMA InitIInv ==
  ASSUME Fits, Sizes \subseteq Nat, Init
  PROVE  IInv
<1>1. PICK n \in Sizes : source = BitRange(1, n * ByteBits)
  BY DEF Init
<1>2. WholeBytes
  BY <1>1, SourceIs
<1>3. NewStream /\ BufferBytes \in Nat
  BY DEF Init, Fits
<1> QED
  BY <1>2, <1>3, NewStreamIInv

LEMMA StutterIInv == IInv /\ UNCHANGED vars => IInv'
<1> SUFFICES ASSUME IInv, UNCHANGED vars PROVE IInv'
  OBVIOUS
<1> USE DEF vars, fields, hist
<1>1. size' = size
  BY DEF size
<1>2. Types'
  BY <1>1 DEF IInv, Types, TypeOK
<1>3. WholeBytes' /\ Delivered' /\ EndIsReal'
  BY <1>1 DEF IInv, WholeBytes, Delivered, Holds, EndIsReal
<1>4. Loops'
  BY DEF IInv, Loops, Splits, AtEnd, InBuffer, LeftInSource, size
<1>5. Asked'
  BY <1>1 DEF IInv, Asked, HasMoreIsRight
<1>6. Open' => BufferIs' /\ Layout' /\ WholeWords'
  <2> SUFFICES ASSUME Open' PROVE BufferIs' /\ Layout' /\ WholeWords'
    OBVIOUS
  <2>1. Open
    BY DEF Open
  <2> QED
    BY <2>1, SameData
<1> QED
  BY <1>2, <1>3, <1>4, <1>5, <1>6 DEF IInv

(* A call begins. *)
LEMMA CallIInv ==
  ASSUME IInv, NEW n \in Nat, NEW loop \in Pcs \ {"idle", "copy"}, Call(n, loop),
         r' \in 0 .. W, a' \in 0 .. W, loop = "array" => availBits = 0 /\ n > 0,
         loop \in {"quad", "word"} =>
           ~ShortReads /\ r' \in 1 .. W - 1 /\ a' = W - r' /\ availBits < W /\ availBits = a'
  PROVE  IInv'
<1>1. /\ Open /\ pc' = loop /\ remaining' = n /\ hasMore' = "unknown"
      /\ UNCHANGED <<source, fields, out, delivered, panicked, wanted, ioError>>
  BY DEF Call, Ready, Open
<1>2. DataTypes' /\ BufferIs' /\ Layout' /\ WholeWords' /\ WholeBytes' /\ Delivered'
  BY <1>1, SameData
<1>3. /\ delivered \in Seq(Nat) /\ wanted \in Nat /\ closed = FALSE /\ panicked = FALSE
      /\ ioError \in BOOLEAN
  BY <1>1, OpenState
<1>4. closed' = FALSE /\ panicked' = FALSE /\ delivered' \in Seq(Nat) /\ wanted' \in Nat
      /\ availBits' = availBits /\ ioError' \in BOOLEAN
  BY <1>1, <1>3 DEF fields
<1>5. Loops' /\ Asked'
  BY <1>1, <1>4 DEF Loops, Splits, Asked, HasMoreIsRight
<1> QED
  BY <1>1, <1>2, <1>4, <1>5, OpenIInv

LEMMA ReadBitsIInv ==
  ASSUME IInv, NEW n \in Nat, ReadBits(n)
  PROVE  IInv'
<1>1. Call(n, "bits") /\ r' = r /\ a' = a
  BY DEF ReadBits
<1>2. Open
  BY <1>1 DEF Call, Ready, Open
<1>3. r \in 0 .. W /\ a \in 0 .. W
  BY <1>2, OpenState
<1> QED
  BY <1>1, <1>3, CallIInv DEF Pcs

LEMMA ReadArrayIInv ==
  ASSUME ~ShortReads, IInv, NEW n \in Nat \ {0}, ReadArray(n)
  PROVE  IInv'
<1> DEFINE loop == CASE Aligned /\ availBits = 0 -> "array"
                     [] Aligned /\ availBits # 0 -> "empty"
                     [] OTHER -> "quad"
<1>1. Call(n, loop) /\ r' = W - availBits /\ a' = availBits
  BY DEF ReadArray
<1>2. availBits \in 0 .. W /\ W \in Nat \ {0}
  <2>1. Open
    BY <1>1 DEF Call, Ready, Open
  <2> QED
    BY <2>1, OpenState, WordSize DEF DataTypes
<1>3. ~Aligned => availBits \in 1 .. W - 1
  BY <1>2, WordRemainder DEF Aligned
<1>4. /\ loop \in {"array", "empty", "quad"}
      /\ loop = "array" => availBits = 0
      /\ loop = "quad" => ~Aligned
  OBVIOUS
<1> HIDE DEF loop
<1>5. r' \in 0 .. W /\ a' \in 0 .. W
  BY <1>1, <1>2
<1>6. loop \in {"quad", "word"} =>
        ~ShortReads /\ r' \in 1 .. W - 1 /\ a' = W - r' /\ availBits < W /\ availBits = a'
  BY <1>1, <1>2, <1>3, <1>4
<1> QED
  BY <1>1, <1>4, <1>5, <1>6, CallIInv DEF Pcs

(* A loop that is left for another one. *)
LEMMA MoveIInv ==
  ASSUME IInv, pc # "idle", pc' \in Pcs \ {"idle"},
         UNCHANGED <<source, fields, remaining, r, a, out, hist>>, Loops'
  PROVE  IInv'
<1>1. Open /\ Inside
  BY Busy, OpenState DEF Inside, fields
<1>2. DataTypes' /\ BufferIs' /\ Layout' /\ WholeWords'
  BY <1>1, SameData DEF hist
<1> QED
  BY <1>1, <1>2, InsideIInv

-----------------------------------------------------------------------------
(* The loops of the calls. *)

LEMMA SameLayout ==
  ASSUME IInv, Open, UNCHANGED <<source, availBits, current, out, delivered>>, Bytes' = Bytes
  PROVE  Layout'
<1>1. Layout /\ Taken' = Taken
  BY OpenState DEF Taken
<1> QED
  BY <1>1 DEF Layout, InWord, Holds

(* There is a next bit that the call needs. *)
LEMMA NeedsMore ==
  ASSUME IInv, NeedsBytes
  PROVE  pc # "idle" /\ remaining > availBits
<1>1. pc \in {"bits", "array", "copy", "quad", "word"}
  BY DEF NeedsBytes
<1>2. Open
  BY <1>1, Busy
<1>3. availBits \in 0 .. W /\ W \in Nat \ {0} /\ remaining \in Nat /\ Loops
      /\ ByteBits \in Nat \ {0}
  BY <1>2, Numbers, OpenState, ByteSize DEF IInv
<1>4. CASE pc = "bits"
  BY <1>4 DEF NeedsBytes
<1>5. CASE pc = "array"
  BY <1>3, <1>5 DEF Loops
<1>6. CASE pc = "copy"
  <2>1. remaining \div ByteBits > 0
    BY <1>6 DEF NeedsBytes
  <2>2. ~(remaining < ByteBits)
    BY <1>3, <2>1, SmallQuotient
  <2>3. availBits = 0
    BY <1>3, <1>6, <2>2 DEF Loops
  <2> QED
    BY <1>3, <1>6, <2>2, <2>3
<1>7. CASE pc \in {"quad", "word"}
  <2>1. remaining >= W /\ availBits < W
    BY <1>3, <1>7 DEF NeedsBytes, Loops, Splits
  <2> QED
    BY <1>3, <1>7, <2>1
<1> QED
  BY <1>1, <1>4, <1>5, <1>6, <1>7

LEMMA FillBufferIInv ==
  ASSUME Fits, IInv, FillBuffer
  PROVE  IInv'
<1>1. /\ InBuffer = 0 /\ pc # "idle" /\ remaining > availBits
      /\ UNCHANGED <<source, closed, availBits, current, r, a, hasMore>>
  BY NeedsMore DEF FillBuffer
<1>2. Open
  BY <1>1, Busy
<1>3. CASE /\ \E n \in Returns : Refill(n)
           /\ UNCHANGED <<pc, remaining, out, delivered, panicked, wanted, ioError>>
  <2>1. PICK n \in Returns : Refill(n)
    BY <1>3
  <2>2. UNCHANGED <<pc, remaining, out, delivered, panicked, wanted, ioError>>
    BY <1>3
  <2>3. /\ BufferIs' /\ Bytes' = Bytes /\ WholeWords' /\ LeftInSource > 0
        /\ position' \in 0 .. maxPosition' + 1
        /\ readCount' \in Int /\ maxPosition' \in -1 .. BufferBytes - 1
        /\ srcPos' \in 0 .. size' /\ buffer' \in [Places -> Nat]
    BY <1>1, <1>2, <2>1, RefillEffect
  <2>4. Inside
    BY <1>1, <1>2, <2>2, OpenState DEF Inside, hist
  <2>5. DataTypes'
    BY <1>1, <1>2, <2>2, <2>3, OpenState DEF DataTypes
  <2>6. Layout'
    BY <1>1, <1>2, <2>2, <2>3, SameLayout
  <2>7. Loops'
    <3>1. Loops /\ ~AtEnd /\ LeftInSource \in Nat
      BY <1>2, <2>3, Numbers DEF IInv, AtEnd
    <3> QED
      BY <1>1, <2>2, <3>1 DEF Loops, Splits
  <2> QED
    BY <2>3, <2>4, <2>5, <2>6, <2>7, InsideIInv
<1>4. CASE SourceEnds /\ Panic /\ UNCHANGED ioError
  <2>1. /\ LeftInSource = 0 /\ position' \in 0 .. maxPosition' + 1
        /\ readCount' \in Int /\ maxPosition' \in -1 .. BufferBytes - 1
        /\ srcPos' \in 0 .. size' /\ buffer' \in [Places -> Nat]
    BY <1>1, <1>2, <1>4, BufferSize, NoRefillEffect DEF SourceEnds
  <2>2. DataTypes'
    BY <1>1, <1>2, <1>4, <2>1, HoldsNothing, OpenState DEF DataTypes, Panic
  <2>3. Taken + remaining > BitsOf(size)
    <3>1. /\ Taken + availBits + BitsOf(InBuffer) + BitsOf(LeftInSource) = BitsOf(size)
          /\ Taken \in Nat
      BY <1>2, BitNumbers
    <3>2. BitsOf(InBuffer) = 0 /\ BitsOf(LeftInSource) = 0
      BY <1>1, <2>1, SomeBits
    <3>3. availBits \in Nat /\ remaining \in Nat
      BY <1>2, OpenState, WordSize DEF DataTypes
    <3> QED
      BY <1>1, <3>1, <3>2, <3>3
  <2>4. ioError' \in BOOLEAN
    BY <1>2, <1>4, OpenState
  <2> QED
    BY <1>1, <1>4, <2>2, <2>3, <2>4, PanicIInv
<1>5. CASE RefillFails /\ Panic
  <2>1. /\ ioError' = TRUE
        /\ NoRefill \/ \E n \in Returns : Refill(n)
    BY <1>5 DEF RefillFails
  <2>2. /\ position' \in 0 .. maxPosition' + 1
        /\ readCount' \in Int /\ maxPosition' \in -1 .. BufferBytes - 1
        /\ srcPos' \in 0 .. size' /\ buffer' \in [Places -> Nat]
    <3>1. CASE NoRefill
      BY <1>1, <1>2, <3>1, BufferSize, NoRefillEffect
    <3>2. ASSUME NEW n \in Returns, Refill(n)
          PROVE  /\ position' \in 0 .. maxPosition' + 1
                 /\ readCount' \in Int /\ maxPosition' \in -1 .. BufferBytes - 1
                 /\ srcPos' \in 0 .. size' /\ buffer' \in [Places -> Nat]
      BY <1>1, <1>2, <3>2, RefillEffect
    <3> QED
      BY <2>1, <3>1, <3>2
  <2>3. DataTypes'
    BY <1>1, <1>2, <1>5, <2>2, HoldsNothing, OpenState DEF DataTypes, Panic
  <2> QED
    BY <1>1, <1>5, <2>1, <2>3, PanicIInv
<1> QED
  BY <1>3, <1>4, <1>5 DEF FillBuffer

(* The call returns its bits. *)
LEMMA TakeLastIInv ==
  ASSUME Fits, IInv, TakeLast
  PROVE  IInv'
<1> DEFINE x == TakeBits(remaining)
           d == Len(delivered)
<1>1. /\ pc = "bits" /\ remaining <= availBits /\ availBits' = availBits - remaining
      /\ UNCHANGED <<source, closed, refilled, current, r, a, hasMore, ioError>>
      /\ pc' = "idle" /\ delivered' = delivered \o (out \o x) /\ out' = <<>> /\ remaining' = 0
      /\ UNCHANGED <<panicked, wanted>>
  BY DEF TakeLast, Return
<1>2. Open /\ hasMore = "unknown"
  BY <1>1, Busy
<1>3. /\ DataTypes /\ BufferIs /\ Layout /\ WholeWords /\ WholeBytes /\ Delivered
      /\ delivered \in Seq(Nat) /\ wanted \in Nat /\ remaining \in Nat
      /\ r \in 0 .. W /\ a \in 0 .. W /\ closed = FALSE /\ panicked = FALSE
      /\ ioError \in BOOLEAN
  BY <1>2, OpenState
<1>4. /\ availBits \in 0 .. W /\ W \in Nat /\ remaining \in 0 .. availBits
      /\ out \in Seq(Nat) /\ Holds(out, d)
  BY <1>1, <1>3, WordSize DEF DataTypes, Layout
<1>5. /\ x \in Seq(Nat) /\ Len(x) = remaining /\ Holds(x, Taken)
      /\ InWord(current, availBits - remaining, Taken + remaining)
  BY <1>2, <1>4, TakeBitsHolds
<1>6. d \in Nat /\ Len(out) \in Nat /\ Taken = d + Len(out)
  BY <1>2, BitNumbers
<1> HIDE DEF x
<1>7. /\ out \o x \in Seq(Nat) /\ Len(out \o x) = Len(out) + remaining
      /\ Holds(out \o x, d)
  BY <1>4, <1>5, <1>6, HoldsJoin
<1>8. /\ delivered' \in Seq(Nat) /\ Len(delivered') = d + (Len(out) + remaining)
      /\ Holds(delivered', 0)
  <2>1. Holds(delivered, 0) /\ 0 + d = d
    BY <1>3, <1>6 DEF Delivered
  <2>2. Holds(out \o x, 0 + d)
    BY <1>7, <2>1
  <2> QED
    BY <1>1, <1>3, <1>7, <2>1, <2>2, HoldsJoin
<1>9. Taken' = Taken + remaining
  <2>1. Taken' = Len(delivered') + 0
    BY <1>1, HoldsNothing DEF Taken
  <2> QED
    BY <1>3, <1>6, <1>8, <2>1
<1>10. Delivered'
  <2>1. Taken + remaining <= Len(source)
    <3>1. /\ Taken + availBits + BitsOf(InBuffer) + BitsOf(LeftInSource) = Len(source)
          /\ BitsOf(InBuffer) \in Nat /\ BitsOf(LeftInSource) \in Nat /\ Taken \in Nat
      BY <1>2, BitNumbers
    <3> QED
      BY <1>3, <1>4, <3>1
  <2>2. Holds(delivered, 0)'
    BY <1>1, <1>8 DEF Holds
  <2>3. Len(delivered') = Taken + remaining
    BY <1>3, <1>6, <1>8
  <2> QED
    BY <1>1, <2>1, <2>2, <2>3 DEF Delivered
<1>11. size' = size /\ InBuffer' = InBuffer /\ LeftInSource' = LeftInSource /\ Base' = Base
       /\ Bytes' = Bytes
  BY <1>1 DEF refilled, size, InBuffer, LeftInSource, Base, Bytes
<1>12. WholeBytes' /\ BufferIs' /\ WholeWords'
  BY <1>1, <1>3, <1>11 DEF refilled, WholeBytes, BufferIs, Window, WholeWords, Multiple
<1>13. DataTypes'
  <2>1. availBits' \in 0 .. W
    BY <1>1, <1>4
  <2> QED
    BY <1>1, <1>3, <1>11, <2>1, HoldsNothing DEF refilled, DataTypes
<1>14. Layout'
  <2>1. Taken' + availBits' = BitsOf(Bytes')
    <3>1. Taken + availBits = BitsOf(Bytes) /\ Taken \in Nat
      BY <1>2, BitNumbers
    <3> QED
      BY <1>1, <1>3, <1>4, <1>9, <1>11, <3>1
  <2>2. InWord(current, availBits, Taken)'
    BY <1>1, <1>5, <1>9 DEF InWord
  <2>3. Holds(out, Len(delivered))'
    BY <1>1, HoldsNothing DEF Holds
  <2> QED
    BY <2>1, <2>2, <2>3 DEF Layout
<1>15. Loops' /\ Asked'
  BY <1>1, <1>2 DEF Loops, Splits, Asked, HasMoreIsRight
<1> QED
  <2>1. /\ delivered' \in Seq(Nat) /\ wanted' \in Nat /\ pc' \in Pcs /\ remaining' \in Nat
        /\ r' \in 0 .. W /\ a' \in 0 .. W /\ hasMore' \in {"unknown", "yes", "no"}
        /\ closed' = FALSE /\ panicked' = FALSE /\ ioError' \in BOOLEAN
    BY <1>1, <1>2, <1>3, <1>8 DEF Pcs
  <2> QED
    BY <1>10, <1>12, <1>13, <1>14, <1>15, <2>1, OpenIInv

(* What an action that pulls keeps. *)
Pulling ==
  /\ Pull /\ UNCHANGED <<source, closed, readCount, maxPosition, buffer, srcPos, r, a, hist>>

LEMMA PullingIInv ==
  ASSUME Fits, IInv, pc # "idle", Pulling, availBits' = BitsOf(PulledBytes),
         NEW x \in Seq(Nat), Holds(x, Taken), Len(x) = availBits, out' = out \o x,
         remaining' \in Nat, pc' \in Pcs \ {"idle", "array", "copy", "quad", "word"}
  PROVE  IInv'
<1>1. /\ Pull /\ InBuffer > 0 /\ delivered' = delivered /\ source' = source
      /\ UNCHANGED <<source, readCount, maxPosition, buffer, srcPos>>
  BY DEF Pulling, Pull, hist
<1>2. Open
  BY Busy
<1>3. Inside
  BY DEF Inside, Pulling
<1>4. /\ BufferIs' /\ WholeWords' /\ BitsOf(Bytes') = BitsOf(Bytes) + BitsOf(PulledBytes)
      /\ position' \in 0 .. maxPosition' + 1
      /\ readCount' \in Int /\ maxPosition' \in -1 .. BufferBytes - 1
      /\ srcPos' \in 0 .. size' /\ buffer' \in [Places -> Nat]
      /\ current' = Pulled /\ current' \in [1 .. W -> Nat]
  BY <1>1, <1>2, PullEffect
<1>5. /\ BitsOf(PulledBytes) \in 1 .. W /\ InWord(Pulled, BitsOf(PulledBytes), BitsOf(Bytes))
  BY <1>1, <1>2, PulledIs
<1>6. /\ out' \in Seq(Nat) /\ Taken' = Taken + availBits /\ Holds(out, Len(delivered))'
  BY <1>1, <1>2, OutGrows
<1>7. Taken + availBits = BitsOf(Bytes) /\ W \in Nat
  BY <1>2, BitNumbers, WordSize
<1>8. DataTypes'
  <2> DEFINE m == BitsOf(PulledBytes)
  <2>1. m \in 1 .. W /\ availBits' = m
    BY <1>5
  <2> HIDE DEF m
  <2>2. availBits' \in 0 .. W
    BY <1>7, <2>1
  <2> QED
    BY <1>4, <1>6, <2>2 DEF DataTypes
<1>9. Layout'
  <2>1. Taken' + availBits' = BitsOf(Bytes')
    BY <1>4, <1>6, <1>7
  <2>2. InWord(current, availBits, Taken)'
    BY <1>1, <1>4, <1>5, <1>6, <1>7 DEF InWord
  <2> QED
    BY <1>6, <2>1, <2>2 DEF Layout
<1>10. Loops'
  <2>1. closed = FALSE /\ panicked = FALSE /\ panicked' = panicked /\ closed' = closed
    BY <1>2, OpenState DEF Pulling, hist
  <2> QED
    BY <2>1 DEF Loops, Splits, Pcs
<1> QED
  BY <1>3, <1>4, <1>8, <1>9, <1>10, InsideIInv

LEMMA TakeAndPullIInv ==
  ASSUME Fits, IInv, TakeAndPull
  PROVE  IInv'
<1>1. /\ pc = "bits" /\ remaining > availBits /\ pc' = pc /\ Pulling
      /\ out' = out \o TakeBits(availBits) /\ remaining' = remaining - availBits
      /\ availBits' = BitsOf(PulledBytes)
  BY DEF TakeAndPull, Pulling
<1>2. Open
  BY <1>1, Busy
<1>3. availBits \in 0 .. W /\ W \in Nat /\ remaining \in Nat
  BY <1>2, OpenState, WordSize DEF DataTypes
<1>4. availBits \in 0 .. availBits /\ remaining' \in Nat
  BY <1>1, <1>3
<1>5. /\ TakeBits(availBits) \in Seq(Nat) /\ Len(TakeBits(availBits)) = availBits
      /\ Holds(TakeBits(availBits), Taken)
  BY <1>2, <1>4, TakeBitsHolds
<1> QED
  BY <1>1, <1>4, <1>5, PullingIInv DEF Pcs

LEMMA PullForArrayIInv ==
  ASSUME Fits, IInv, PullForArray
  PROVE  IInv'
<1>1. /\ pc = "array" /\ pc' = "empty" /\ Pulling /\ out' = out /\ remaining' = remaining
      /\ availBits' = BitsOf(PulledBytes)
  BY DEF PullForArray, Pulling
<1>2. Open
  BY <1>1, Busy
<1>3. availBits = 0 /\ remaining \in Nat /\ out \in Seq(Nat)
  BY <1>1, <1>2, OpenState DEF IInv, Loops, DataTypes
<1>4. out' = out \o <<>>
  BY <1>1, <1>3
<1>5. <<>> \in Seq(Nat) /\ Holds(<<>>, Taken) /\ Len(<<>>) = availBits
  BY <1>3, HoldsNothing
<1> QED
  BY <1>1, <1>3, <1>4, <1>5, PullingIInv DEF Pcs

LEMMA EmptyWordIInv ==
  ASSUME Fits, IInv, EmptyWord
  PROVE  IInv'
<1> DEFINE q == remaining \div ByteBits
           n == MinOf(availBits, BitsOf(q))
<1>1. /\ pc = "empty" /\ pc' = "copy" /\ out' = out \o TakeBits(n)
      /\ remaining' = remaining - n /\ availBits' = availBits - n
      /\ UNCHANGED <<source, closed, refilled, current, r, a, hist>>
  BY DEF EmptyWord
<1>2. Open
  BY <1>1, Busy
<1>3. /\ DataTypes /\ BufferIs /\ WholeWords /\ remaining \in Nat
      /\ availBits \in 0 .. W /\ W \in Nat /\ ByteBits \in Nat \ {0}
      /\ closed = FALSE /\ panicked = FALSE
  BY <1>2, OpenState, WordSize, ByteSize DEF DataTypes
<1>4. /\ q \in Nat /\ remaining = BitsOf(q) + (remaining % ByteBits)
      /\ remaining % ByteBits \in 0 .. ByteBits - 1 /\ BitsOf(q) \in Nat
  <2>1. /\ q \in Nat /\ remaining = q * ByteBits + (remaining % ByteBits)
        /\ remaining % ByteBits \in 0 .. ByteBits - 1
    BY <1>3, DivMod
  <2> HIDE DEF q
  <2>2. BitsOf(q) \in Nat /\ BitsOf(q) = q * ByteBits
    BY <2>1, BitsOfNat
  <2> QED
    BY <2>1, <2>2
<1> HIDE DEF q
<1>5. /\ n \in 0 .. availBits /\ n <= BitsOf(q) /\ (n = availBits \/ n = BitsOf(q))
  BY <1>3, <1>4 DEF MinOf
<1> HIDE DEF n
<1>6. /\ remaining' \in Nat /\ (availBits' = 0 \/ remaining' < ByteBits)
      /\ availBits' \in 0 .. W
  <2> DEFINE m == remaining % ByteBits
  <2> HIDE DEF m
  <2>1. m \in 0 .. ByteBits - 1 /\ remaining = BitsOf(q) + m
    BY <1>4 DEF m
  <2>2. /\ remaining' = BitsOf(q) + m - n /\ BitsOf(q) \in Nat /\ n \in Nat /\ n <= BitsOf(q)
        /\ n = availBits \/ n = BitsOf(q)
    BY <1>1, <1>3, <1>4, <1>5, <2>1
  <2>3. availBits' = availBits - n /\ availBits' \in 0 .. W
    BY <1>1, <1>3, <1>5
  <2>4. CASE n = availBits
    BY <1>3, <2>1, <2>2, <2>3, <2>4
  <2>5. CASE n = BitsOf(q)
    BY <1>3, <2>1, <2>2, <2>3, <2>5
  <2> QED
    BY <2>2, <2>4, <2>5
<1>7. /\ TakeBits(n) \in Seq(Nat) /\ Len(TakeBits(n)) = n /\ Holds(TakeBits(n), Taken)
      /\ InWord(current, availBits - n, Taken + n)
  BY <1>2, <1>5, TakeBitsHolds
<1>8. /\ out' \in Seq(Nat) /\ Taken' = Taken + n /\ Holds(out, Len(delivered))'
  BY <1>1, <1>2, <1>7, OutGrows DEF hist
<1>9. size' = size /\ InBuffer' = InBuffer /\ LeftInSource' = LeftInSource /\ Base' = Base
       /\ Bytes' = Bytes
  BY <1>1 DEF refilled, size, InBuffer, LeftInSource, Base, Bytes
<1>10. BufferIs' /\ WholeWords' /\ DataTypes'
  BY <1>1, <1>3, <1>6, <1>8, <1>9 DEF refilled, BufferIs, Window, WholeWords, Multiple, DataTypes
<1>11. Layout'
  <2>1. Taken' + availBits' = BitsOf(Bytes')
    <3>1. Taken + availBits = BitsOf(Bytes) /\ Taken \in Nat
      BY <1>2, BitNumbers
    <3> QED
      BY <1>1, <1>3, <1>5, <1>8, <1>9, <3>1
  <2>2. InWord(current, availBits, Taken)'
    BY <1>1, <1>7, <1>8 DEF InWord
  <2> QED
    BY <1>8, <2>1, <2>2 DEF Layout
<1>12. Inside /\ Loops'
  BY <1>1, <1>3, <1>6 DEF Inside, Loops, Splits, Pcs, hist
<1> QED
  BY <1>10, <1>11, <1>12, InsideIInv

LEMMA CopyCount ==
  ASSUME IInv, Open, pc = "copy"
  PROVE  LET bytes == remaining \div ByteBits
             n     == IF bytes > InBuffer THEN InBuffer ELSE WordsOf(bytes)
         IN /\ n \in Nat /\ n <= InBuffer /\ BitsOf(n) \in Nat /\ BitsOf(n) <= remaining
            /\ n = 0 \/ (availBits = 0 /\ n = InBuffer) \/ (availBits = 0 /\ Multiple(n))
<1> DEFINE bytes == remaining \div ByteBits
           n     == IF bytes > InBuffer THEN InBuffer ELSE WordsOf(bytes)
<1>1. /\ remaining \in Nat /\ ByteBits \in Nat \ {0} /\ WordBytes \in Nat \ {0}
      /\ InBuffer \in Nat /\ (availBits = 0 \/ remaining < ByteBits)
  BY OpenState, ByteSize, Numbers DEF IInv, Loops
<1>2. /\ bytes \in Nat /\ remaining = bytes * ByteBits + (remaining % ByteBits)
      /\ remaining % ByteBits \in 0 .. ByteBits - 1
  BY <1>1, DivMod
<1>3. remaining < ByteBits => bytes = 0
  BY <1>1, SmallQuotient
<1>4. BitsOf(bytes) \in Nat /\ BitsOf(bytes) = bytes * ByteBits
  <2> HIDE DEF bytes
  <2> QED
    BY <1>2, BitsOfNat
<1>5. BitsOf(bytes) <= remaining
  <2> DEFINE m == remaining % ByteBits
             b == bytes * ByteBits
  <2>1. remaining = b + m /\ m \in 0 .. ByteBits - 1 /\ b \in Nat /\ BitsOf(bytes) = b
    BY <1>2, <1>4
  <2> HIDE DEF m, b
  <2> QED
    BY <1>1, <2>1
<1> HIDE DEF bytes
<1>6. /\ WordsOf(bytes) \in Nat /\ WordsOf(bytes) <= bytes /\ Multiple(WordsOf(bytes))
  <2> DEFINE q == bytes \div WordBytes
             m == bytes % WordBytes
  <2>1. q \in Nat /\ bytes = q * WordBytes + m /\ m \in 0 .. WordBytes - 1
        /\ WordsOf(bytes) = q * WordBytes
    BY <1>1, <1>2, DivMod DEF WordsOf
  <2> HIDE DEF q, m
  <2>2. q * WordBytes \in Nat
    BY <1>1, <2>1
  <2>3. q * WordBytes <= bytes
    BY <1>1, <1>2, <2>1, <2>2
  <2> QED
    BY <2>1, <2>2, <2>3 DEF Multiple
<1>7. /\ n \in Nat /\ n <= InBuffer /\ n <= bytes /\ (n = InBuffer \/ Multiple(n))
      /\ bytes = 0 => n = 0
  <2>1. CASE bytes > InBuffer
    BY <1>1, <1>2, <2>1
  <2>2. CASE ~(bytes > InBuffer)
    BY <1>1, <1>2, <1>6, <2>2
  <2> QED
    BY <2>1, <2>2
<1> HIDE DEF n
<1>8. BitsOf(n) \in Nat /\ BitsOf(n) <= BitsOf(bytes)
  <2>1. n \in Int /\ bytes \in Int
    BY <1>2, <1>7
  <2> QED
    BY <1>7, <2>1, BitsOfIs, BitsOfNat
<1>9. BitsOf(n) <= remaining
  BY <1>1, <1>4, <1>5, <1>8
<1>10. n = 0 \/ availBits = 0
  BY <1>1, <1>3, <1>7
<1>11. n = 0 \/ (availBits = 0 /\ n = InBuffer) \/ (availBits = 0 /\ Multiple(n))
  BY <1>7, <1>10
<1>12. n \in Nat /\ n <= InBuffer /\ BitsOf(n) \in Nat /\ BitsOf(n) <= remaining
  BY <1>7, <1>8, <1>9
<1> QED
  BY <1>11, <1>12 DEF n, bytes

LEMMA CopyBytesIInv ==
  ASSUME Fits, IInv, CopyBytes
  PROVE  IInv'
<1> DEFINE bytes == remaining \div ByteBits
           n     == IF bytes > InBuffer THEN InBuffer ELSE WordsOf(bytes)
           x     == BytesAt(buffer, position, n)
<1>1. /\ pc = "copy" /\ pc' \in {"copy", "bits"} /\ out' = out \o x
      /\ position' = position + n /\ remaining' = remaining - BitsOf(n)
      /\ UNCHANGED <<source, closed, readCount, maxPosition, buffer, srcPos, availBits,
                     current, r, a, hist>>
  BY DEF CopyBytes
<1>2. Open
  BY <1>1, Busy
<1>3. /\ n \in Nat /\ n <= InBuffer /\ BitsOf(n) \in Nat /\ BitsOf(n) <= remaining
      /\ n = 0 \/ (availBits = 0 /\ n = InBuffer) \/ (availBits = 0 /\ Multiple(n))
  BY <1>1, <1>2, CopyCount
<1> HIDE DEF n
<1>4. /\ DataTypes /\ Layout /\ WholeWords /\ remaining \in Nat /\ availBits \in 0 .. W
      /\ W \in Nat /\ closed = FALSE /\ panicked = FALSE /\ ByteBits \in Nat \ {0}
  BY <1>2, OpenState, WordSize, ByteSize DEF DataTypes
<1>5. /\ BufferIs' /\ Bytes' = Bytes + n /\ InBuffer' = InBuffer - n
      /\ LeftInSource' = LeftInSource /\ position' \in 0 .. maxPosition' + 1
      /\ readCount' \in Int /\ maxPosition' \in -1 .. BufferBytes - 1
      /\ srcPos' \in 0 .. size' /\ buffer' \in [Places -> Nat]
  BY <1>1, <1>2, <1>3, Advance
<1>6. /\ position \in Nat /\ maxPosition \in Int /\ InBuffer = maxPosition + 1 - position
      /\ Bytes = Base + position /\ Bytes \in Nat /\ InBuffer \in Nat
  BY <1>2, Numbers
<1>7. x \in Seq(Nat) /\ Len(x) = BitsOf(n) /\ Holds(x, BitsOf(Bytes))
  <2>1. position <= position /\ position + n <= maxPosition + 1
    BY <1>3, <1>6
  <2> QED
    BY <1>2, <1>3, <1>6, <2>1, BytesHold
<1>8. Taken \in Nat /\ Taken + availBits = BitsOf(Bytes) /\ BitsOf(Bytes) \in Nat
  BY <1>2, BitNumbers
<1>9. Holds(x, Taken)
  <2>1. CASE n = 0
    <3>1. Len(x) = 0
      BY <1>7, <2>1, SomeBits
    <3> QED
      BY <3>1 DEF Holds
  <2>2. CASE availBits = 0
    BY <1>7, <1>8, <2>2
  <2> QED
    BY <1>3, <2>1, <2>2
<1> HIDE DEF x
<1>10. /\ out' \in Seq(Nat) /\ Taken' = Taken + BitsOf(n) /\ Holds(out, Len(delivered))'
  BY <1>1, <1>2, <1>7, <1>9, OutGrows DEF hist
<1>11. WholeWords'
  <2> SUFFICES ASSUME LeftInSource > 0, ~ShortReads PROVE Multiple(InBuffer - n)
    BY <1>5 DEF WholeWords, Multiple
  <2>1. Multiple(InBuffer)
    BY <1>4 DEF WholeWords
  <2>2. CASE n = 0
    BY <1>6, <2>1, <2>2
  <2>3. CASE n = InBuffer
    <3>1. 0 = 0 * WordBytes
      BY ByteSize
    <3>2. InBuffer - n = 0
      BY <1>6, <2>3
    <3> QED
      BY <3>1, <3>2 DEF Multiple
  <2>4. CASE Multiple(n)
    BY <1>3, <1>6, <2>1, <2>4, MultipleMinus
  <2> QED
    BY <1>3, <2>2, <2>3, <2>4
<1>12. DataTypes'
  BY <1>1, <1>4, <1>5, <1>10 DEF DataTypes
<1>13. Layout'
  <2>1. Taken' + availBits' = BitsOf(Bytes')
    <3>1. BitsOf(Bytes') = BitsOf(Bytes) + BitsOf(n)
      BY <1>3, <1>5, <1>6, BitsOfIs
    <3> QED
      BY <1>1, <1>3, <1>4, <1>8, <1>10, <3>1
  <2>2. InWord(current, availBits, Taken)'
    <3>1. CASE n = 0
      <4>1. Taken' = Taken
        BY <1>8, <1>10, <3>1, SomeBits
      <4> QED
        BY <1>1, <1>4, <4>1 DEF Layout, InWord
    <3>2. CASE availBits = 0
      BY <1>1, <3>2 DEF InWord
    <3> QED
      BY <1>3, <3>1, <3>2
  <2> QED
    BY <1>10, <2>1, <2>2 DEF Layout
<1>14. remaining' \in Nat /\ remaining' <= remaining
  BY <1>1, <1>3, <1>4
<1>15. Inside
  BY <1>1, <1>14 DEF Inside, Pcs
<1>16. Loops'
  <2>1. availBits = 0 \/ remaining < ByteBits
    BY <1>1 DEF IInv, Loops
  <2>2. availBits' = 0 \/ remaining' < ByteBits
    BY <1>1, <1>4, <1>14, <2>1
  <2> QED
    BY <1>1, <1>4, <2>2 DEF Loops, Splits, hist
<1> QED
  BY <1>5, <1>11, <1>12, <1>13, <1>15, <1>16, InsideIInv

-----------------------------------------------------------------------------
(* HasMoreToRead and Close. *)

LEMMA HasMoreToReadIInv ==
  ASSUME Fits, IInv, ~AtLastByte, HasMoreToRead
  PROVE  IInv'
<1>1. /\ pc = "idle" /\ pc' = "idle"
      /\ UNCHANGED <<source, closed, availBits, current, remaining, r, a, out, delivered,
                     panicked, wanted>>
  BY DEF HasMoreToRead, Ready
<1>2. Open
  BY DEF HasMoreToRead, Ready, Open
<1>3. /\ DataTypes /\ BufferIs /\ Layout /\ WholeWords /\ WholeBytes /\ Delivered
      /\ delivered \in Seq(Nat) /\ wanted \in Nat /\ remaining \in Nat
      /\ r \in 0 .. W /\ a \in 0 .. W /\ closed = FALSE /\ panicked = FALSE
      /\ out = <<>> /\ remaining = 0 /\ ioError \in BOOLEAN
  BY <1>1, <1>2, OpenState DEF IInv, Loops
<1>4. size' = size /\ WholeBytes' /\ Delivered'
  BY <1>1, <1>3 DEF size, WholeBytes, Delivered, Holds
<1>5. Loops'
  BY <1>1, <1>3 DEF Loops, Splits
<1>6. /\ Len(delivered) \in Nat /\ availBits \in 0 .. W /\ W \in Nat
      /\ BitsOf(InBuffer) \in Nat /\ BitsOf(LeftInSource) \in Nat /\ BitsOf(size) \in Nat
      /\ Len(delivered) + availBits + BitsOf(InBuffer) + BitsOf(LeftInSource) = BitsOf(size)
  <2>1. Len(out) = 0
    BY <1>3, HoldsNothing
  <2>2. /\ Len(delivered) \in Nat /\ Taken \in Nat /\ Taken = Len(delivered) + Len(out)
        /\ Taken + availBits = BitsOf(Bytes)
        /\ BitsOf(Bytes) + BitsOf(InBuffer) + BitsOf(LeftInSource) = BitsOf(size)
        /\ BitsOf(InBuffer) \in Nat /\ BitsOf(LeftInSource) \in Nat /\ BitsOf(size) \in Nat
    BY <1>2, BitNumbers
  <2>3. availBits \in 0 .. W /\ W \in Nat
    BY <1>2, Numbers
  <2> QED
    BY <2>1, <2>2, <2>3
<1>7. /\ InBuffer \in Nat /\ LeftInSource \in Nat /\ position \in Nat /\ maxPosition \in Int
      /\ InBuffer = maxPosition + 1 - position
  BY <1>2, Numbers
<1>8. /\ InBuffer > 0 => BitsOf(InBuffer) > 0
      /\ LeftInSource > 0 => BitsOf(LeftInSource) > 0
      /\ InBuffer = 0 => BitsOf(InBuffer) = 0
      /\ LeftInSource = 0 => BitsOf(LeftInSource) = 0
  <2>1. 0 \in Int /\ InBuffer \in Int /\ LeftInSource \in Int
    BY <1>7
  <2> QED
    BY <2>1, BitsOfIs, SomeBits
<1>9. ~MoreInHand => InBuffer = 0 /\ availBits = 0
  BY <1>6, <1>7 DEF MoreInHand, AtLastByte
<1>10. CASE MoreInHand /\ hasMore' = "yes" /\ UNCHANGED <<refilled, ioError>>
  <2>1. DataTypes' /\ BufferIs' /\ Layout' /\ WholeWords'
    BY <1>1, <1>2, <1>10, SameData DEF fields, refilled
  <2>2. Len(delivered) < BitsOf(size)
    BY <1>6, <1>7, <1>8, <1>10 DEF MoreInHand
  <2>3. Asked'
    BY <1>1, <1>4, <1>10, <2>2 DEF Asked, HasMoreIsRight
  <2> QED
    BY <1>1, <1>3, <1>4, <1>5, <1>10, <2>1, <2>3, OpenIInv DEF Pcs
<1>11. CASE /\ ~MoreInHand /\ (\E n \in Returns : Refill(n)) /\ hasMore' = "yes"
            /\ UNCHANGED ioError
  <2>1. PICK n \in Returns : Refill(n)
    BY <1>11
  <2>2. /\ BufferIs' /\ Bytes' = Bytes /\ WholeWords' /\ LeftInSource > 0
        /\ position' \in 0 .. maxPosition' + 1
        /\ readCount' \in Int /\ maxPosition' \in -1 .. BufferBytes - 1
        /\ srcPos' \in 0 .. size' /\ buffer' \in [Places -> Nat]
    BY <1>1, <1>2, <1>9, <1>11, <2>1, RefillEffect
  <2>3. Layout' /\ DataTypes'
    BY <1>1, <1>2, <1>3, <2>2, SameLayout DEF DataTypes
  <2>4. Len(delivered) < BitsOf(size)
    BY <1>6, <1>8, <2>2
  <2>5. Asked'
    BY <1>1, <1>4, <1>11, <2>4 DEF Asked, HasMoreIsRight
  <2> QED
    BY <1>1, <1>3, <1>4, <1>5, <1>11, <2>2, <2>3, <2>5, OpenIInv DEF Pcs
<1>12. CASE ~MoreInHand /\ SourceEnds /\ hasMore' = "no" /\ UNCHANGED ioError
  <2>1. /\ BufferIs' /\ Bytes' = Bytes /\ WholeWords' /\ LeftInSource = 0
        /\ position' \in 0 .. maxPosition' + 1
        /\ readCount' \in Int /\ maxPosition' \in -1 .. BufferBytes - 1
        /\ srcPos' \in 0 .. size' /\ buffer' \in [Places -> Nat]
    BY <1>1, <1>2, <1>9, <1>12, BufferSize, NoRefillEffect DEF SourceEnds
  <2>2. Layout' /\ DataTypes'
    BY <1>1, <1>2, <1>3, <2>1, SameLayout DEF DataTypes
  <2>3. ~(Len(delivered) < BitsOf(size))
    BY <1>6, <1>8, <1>9, <1>12, <2>1
  <2>4. Asked'
    BY <1>1, <1>4, <1>12, <2>3 DEF Asked, HasMoreIsRight
  <2> QED
    BY <1>1, <1>3, <1>4, <1>5, <1>12, <2>1, <2>2, <2>4, OpenIInv DEF Pcs
<1>13. CASE ~MoreInHand /\ RefillFails /\ hasMore' = "no"
  <2>1. /\ ioError' = TRUE
        /\ NoRefill \/ \E n \in Returns : Refill(n)
    BY <1>13 DEF RefillFails
  <2>2. /\ BufferIs' /\ Bytes' = Bytes /\ WholeWords'
        /\ position' \in 0 .. maxPosition' + 1
        /\ readCount' \in Int /\ maxPosition' \in -1 .. BufferBytes - 1
        /\ srcPos' \in 0 .. size' /\ buffer' \in [Places -> Nat]
    <3>1. CASE NoRefill
      BY <1>1, <1>2, <1>9, <1>13, <3>1, BufferSize, NoRefillEffect
    <3>2. ASSUME NEW n \in Returns, Refill(n)
          PROVE  /\ BufferIs' /\ Bytes' = Bytes /\ WholeWords'
                 /\ position' \in 0 .. maxPosition' + 1
                 /\ readCount' \in Int /\ maxPosition' \in -1 .. BufferBytes - 1
                 /\ srcPos' \in 0 .. size' /\ buffer' \in [Places -> Nat]
      BY <1>1, <1>2, <1>9, <1>13, <3>2, RefillEffect
    <3> QED
      BY <2>1, <3>1, <3>2
  <2>3. Layout' /\ DataTypes'
    BY <1>1, <1>2, <1>3, <2>2, SameLayout DEF DataTypes
  <2>4. Asked'
    BY <1>1, <2>1 DEF Asked, HasMoreIsRight
  <2> QED
    BY <1>1, <1>3, <1>4, <1>5, <1>13, <2>1, <2>2, <2>3, <2>4, OpenIInv DEF Pcs
<1> QED
  BY <1>10, <1>11, <1>12, <1>13 DEF HasMoreToRead

LEMMA CloseIInv ==
  ASSUME Fits, IInv, Close
  PROVE  IInv'
<1>1. /\ pc = "idle" /\ closed = FALSE /\ closed' = TRUE /\ readCount' = readCount - availBits
      /\ availBits' = 0 /\ maxPosition' = -1
      /\ UNCHANGED <<source, position, current, buffer, srcPos, pc, remaining, r, a, out, hist>>
  BY DEF Close, IInv, Types, TypeOK
<1>2. BufferBytes \in Nat \ {0} /\ W \in Nat
  BY BufferSize, WordSize
<1>3. /\ panicked \in BOOLEAN /\ ioError \in BOOLEAN /\ readCount \in Int /\ availBits \in 0 .. W
      /\ srcPos \in 0 .. size /\ Len(current) = W
      /\ remaining \in Nat /\ r \in 0 .. W /\ a \in 0 .. W
      /\ hasMore \in {"unknown", "yes", "no"}
  BY <1>1 DEF IInv, Types, TypeOK
<1>4. size' = size
  BY <1>1 DEF size
<1>5. TypeOK'
  <2>1. {closed', panicked', ioError'} \subseteq BOOLEAN
    BY <1>1, <1>3 DEF hist
  <2> QED
    BY <1>1, <1>2, <1>3, <1>4, <2>1 DEF TypeOK, hist
<1>6. Types' /\ WholeBytes' /\ Delivered' /\ EndIsReal' /\ Asked'
  BY <1>1, <1>4, <1>5 DEF IInv, Types, WholeBytes, Delivered, Holds, EndIsReal, Asked,
                          HasMoreIsRight, hist
<1>7. Loops' /\ ~Open'
  BY <1>1 DEF IInv, Loops, Splits, Open
<1> QED
  BY <1>6, <1>7 DEF IInv

-----------------------------------------------------------------------------
(* Arrays that are not aligned. *)

(* The word between two words: the last bits of the one, the first of the  *)
(* other.                                                                  *)
LEMMA JoinWords ==
  ASSUME NEW u \in [1 .. W -> Nat], NEW v \in [1 .. W -> Nat], NEW c \in 1 .. W - 1,
         NEW m \in c .. W, NEW s \in Nat, InWord(u, W - c, s), InWord(v, m, s + (W - c)),
         \A i \in 1 .. W - m : v[i] = 0
  PROVE  LET x == Flat(Or(ShiftLeft(u, c), ShiftRight(v, m - c)))
         IN /\ x \in Seq(Nat) /\ Len(x) = W /\ Holds(x, s) /\ InWord(v, m - c, s + W)
<1> DEFINE low == ShiftLeft(u, c)
           high == ShiftRight(v, m - c)
           w == Or(low, high)
<1>1. W \in Nat \ {0} /\ c \in Nat /\ m \in Nat
  BY WordSize
<1>2. w = [i \in 1 .. W |-> Merge(low[i], high[i])]
  BY DEF Or
<1>3. ASSUME NEW i \in 1 .. W
      PROVE  /\ low[i] = IF i + c <= W THEN u[i + c] ELSE 0
             /\ high[i] = IF i - (m - c) >= 1 THEN v[i - (m - c)] ELSE 0
  BY DEF ShiftLeft, ShiftRight
<1> HIDE DEF low, high, w
<1>4. ASSUME NEW i \in 1 .. W
      PROVE  w[i] \in Nat /\ w[i] = source[s + i]
  <2>1. CASE i + c <= W
    <3>1. i \in 1 .. W - c /\ W - (W - c) + i = i + c /\ i + c \in 1 .. W
      BY <1>1, <2>1
    <3>2. low[i] = u[i + c] /\ u[i + c] = source[s + i] /\ u[i + c] \in Nat
      BY <1>3, <2>1, <3>1 DEF InWord
    <3>3. high[i] = 0
      <4>1. CASE i - (m - c) >= 1
        <5>1. i - (m - c) \in 1 .. W - m
          BY <1>1, <2>1, <4>1
        <5> QED
          BY <1>3, <4>1, <5>1
      <4>2. CASE ~(i - (m - c) >= 1)
        BY <1>3, <4>2
      <4> QED
        BY <4>1, <4>2
    <3>4. w[i] = Merge(low[i], high[i])
      BY <1>2
    <3> QED
      BY <3>2, <3>3, <3>4 DEF Merge
  <2>2. CASE ~(i + c <= W)
    <3> DEFINE k == i - (W - c)
    <3>1. /\ k \in 1 .. m /\ W - m + k = i - (m - c) /\ i - (m - c) >= 1
          /\ i - (m - c) \in 1 .. W /\ s + (W - c) + k = s + i
      BY <1>1, <2>2
    <3> HIDE DEF k
    <3>2. v[W - m + k] = source[s + (W - c) + k]
      BY <3>1 DEF InWord
    <3>3. low[i] = 0 /\ high[i] = v[i - (m - c)] /\ high[i] \in Nat /\ high[i] = source[s + i]
      BY <1>3, <2>2, <3>1, <3>2
    <3>4. w[i] = Merge(low[i], high[i])
      BY <1>2
    <3> QED
      BY <3>3, <3>4 DEF Merge
  <2> QED
    BY <2>1, <2>2
<1>5. /\ Flat(w) \in Seq(Nat) /\ Len(Flat(w)) = W
      /\ \A i \in 1 .. W : Flat(w)[i] = w[i]
  BY <1>4, FlatIs
<1>6. Holds(Flat(w), s)
  BY <1>4, <1>5 DEF Holds
<1>7. InWord(v, m - c, s + W)
  <2>1. /\ m \in Nat /\ c \in 0 .. m /\ s + (W - c) \in Nat /\ s + (W - c) + c = s + W
    BY <1>1
  <2> QED
    BY <2>1, InWordPart
<1> QED
  BY <1>5, <1>6, <1>7 DEF w, low, high

LEMMA JoinWhole ==
  ASSUME NEW u \in [1 .. W -> Nat], NEW v \in [1 .. W -> Nat], NEW c \in 1 .. W - 1,
         NEW b, b = W - c, NEW s \in Nat, InWord(u, W - c, s), InWord(v, W, s + (W - c)),
         \A i \in 1 .. W - W : v[i] = 0
  PROVE  LET x == Flat(Or(ShiftLeft(u, c), ShiftRight(v, b)))
         IN /\ x \in Seq(Nat) /\ Len(x) = W /\ Holds(x, s) /\ InWord(v, W - c, s + W)
<1>1. W \in c .. W
  BY WordSize
<1> QED
  BY <1>1, JoinWords

LEMMA SplitState ==
  ASSUME IInv, Splits
  PROVE  /\ ~ShortReads /\ Open /\ pc # "idle" /\ r \in 1 .. W - 1 /\ a = W - r /\ a \in Nat
         /\ availBits < W /\ remaining \in Nat
         /\ InBuffer > 0 => availBits = a /\ InWord(current, W - r, Taken)
<1>1. pc # "idle" /\ Open
  BY Busy DEF Splits
<1>2. /\ r \in 1 .. W - 1 /\ a = W - r /\ availBits < W /\ (availBits = a \/ AtEnd)
      /\ ~ShortReads
  BY DEF IInv, Loops
<1>3. InWord(current, availBits, Taken) /\ remaining \in Nat /\ W \in Nat
  BY <1>1, OpenState, WordSize DEF Layout
<1> QED
  BY <1>1, <1>2, <1>3 DEF AtEnd

LEMMA OneWordIInv ==
  ASSUME Fits, IInv, Splits, remaining >= W, OneWord
  PROVE  IInv'
<1> DEFINE m == BitsOf(PulledBytes)
           x == Flat(Or(ShiftLeft(current, r), ShiftRight(Pulled, m - r)))
<1>1. /\ Pull /\ InBuffer > 0
      /\ UNCHANGED <<source, closed, readCount, maxPosition, buffer, srcPos, r, a, hasMore,
                     ioError>>
      /\ \/ m < r /\ Panic /\ availBits' = m
         \/ /\ m >= r /\ availBits' = m - r /\ out' = out \o x /\ remaining' = remaining - W
            /\ UNCHANGED <<pc, delivered, panicked, wanted>>
  BY DEF OneWord, Pull
<1>2. /\ Open /\ pc # "idle" /\ r \in 1 .. W - 1 /\ a = W - r /\ remaining \in Nat
      /\ availBits = a /\ InWord(current, W - r, Taken) /\ ~ShortReads
  BY <1>1, SplitState
<1>3. /\ PulledBytes \in 1 .. WordBytes /\ PulledBytes <= InBuffer /\ m \in 1 .. W
      /\ Pulled \in [1 .. W -> Nat] /\ InWord(Pulled, m, BitsOf(Bytes))
      /\ \A i \in 1 .. W - m : Pulled[i] = 0
      /\ \/ PulledBytes = WordBytes /\ m = W
         \/ PulledBytes = InBuffer /\ (LeftInSource = 0 \/ ShortReads)
  BY <1>1, <1>2, PulledIs
<1>4. /\ BufferIs' /\ WholeWords' /\ BitsOf(Bytes') = BitsOf(Bytes) + m
      /\ LeftInSource' = LeftInSource /\ InBuffer' = InBuffer - PulledBytes
      /\ position' \in 0 .. maxPosition' + 1
      /\ readCount' \in Int /\ maxPosition' \in -1 .. BufferBytes - 1
      /\ srcPos' \in 0 .. size' /\ buffer' \in [Places -> Nat]
      /\ current' = Pulled /\ current' \in [1 .. W -> Nat]
  BY <1>1, <1>2, PullEffect
<1>5. /\ W \in Nat \ {0} /\ InBuffer \in Nat /\ current \in [1 .. W -> Nat]
      /\ Taken \in Nat /\ Taken + availBits = BitsOf(Bytes) /\ BitsOf(Bytes) \in Nat
  BY <1>2, WordSize, Numbers, BitNumbers, OpenState DEF DataTypes
<1>6. BitsOf(PulledBytes) = m
  OBVIOUS
<1> HIDE DEF m
<1>7. CASE m < r /\ Panic /\ availBits' = m
  <2>1. PulledBytes = InBuffer /\ LeftInSource = 0
    BY <1>2, <1>3, <1>5, <1>7
  <2>2. Taken + remaining > BitsOf(size)
    <3>1. BitsOf(Bytes) + BitsOf(InBuffer) + BitsOf(LeftInSource) = BitsOf(size)
      BY <1>2, BitNumbers
    <3>2. BitsOf(InBuffer) = m /\ BitsOf(LeftInSource) = 0
      BY <1>6, <2>1, SomeBits
    <3> QED
      BY <1>2, <1>3, <1>5, <1>7, <3>1, <3>2
  <2>3. availBits' \in 0 .. W /\ out' \in Seq(Nat)
    BY <1>3, <1>5, <1>7, HoldsNothing DEF Panic
  <2>4. DataTypes'
    BY <1>4, <2>3 DEF DataTypes
  <2>5. ioError' \in BOOLEAN
    BY <1>1, <1>2, OpenState
  <2> QED
    BY <1>1, <1>2, <1>7, <2>2, <2>4, <2>5, PanicIInv
<1>8. CASE /\ m >= r /\ availBits' = m - r /\ out' = out \o x /\ remaining' = remaining - W
           /\ UNCHANGED <<pc, delivered, panicked, wanted>>
  <2>1. m \in r .. W /\ InWord(Pulled, m, Taken + (W - r))
    BY <1>2, <1>3, <1>5, <1>8
  <2>2. x \in Seq(Nat) /\ Len(x) = W /\ Holds(x, Taken) /\ InWord(Pulled, m - r, Taken + W)
    BY <1>2, <1>3, <1>5, <2>1, JoinWords
  <2> HIDE DEF x
  <2>3. out' \in Seq(Nat) /\ Taken' = Taken + W /\ Holds(out, Len(delivered))'
    BY <1>1, <1>2, <1>8, <2>2, OutGrows
  <2>4. availBits' \in 0 .. W /\ availBits' < W /\ remaining' \in Nat
    BY <1>2, <1>3, <1>5, <1>8
  <2>5. DataTypes'
    BY <1>4, <1>5, <2>3, <2>4 DEF DataTypes
  <2>6. Layout'
    <3>1. Taken' + availBits' = BitsOf(Bytes')
      BY <1>2, <1>3, <1>4, <1>5, <1>8, <2>3
    <3>2. InWord(current, availBits, Taken)'
      BY <1>1, <1>4, <1>8, <2>2, <2>3 DEF InWord
    <3> QED
      BY <2>3, <3>1, <3>2 DEF Layout
  <2>7. Inside
    <3>1. pc \in Pcs
      BY <1>2, OpenState
    <3> QED
      BY <1>1, <1>2, <1>8, <2>4, <3>1 DEF Inside, hist
  <2>8. availBits' = a \/ AtEnd'
    <3>1. CASE PulledBytes = WordBytes /\ m = W
      BY <1>2, <1>8, <3>1
    <3>2. CASE PulledBytes = InBuffer /\ (LeftInSource = 0 \/ ShortReads)
      BY <1>2, <1>4, <1>5, <3>2 DEF AtEnd
    <3> QED
      BY <1>3, <3>1, <3>2
  <2>9. Loops'
    <3>1. closed = FALSE /\ panicked = FALSE /\ availBits' < W
      BY <1>2, <1>5, <2>4, OpenState
    <3> QED
      BY <1>1, <1>2, <1>8, <2>8, <3>1 DEF Loops, Splits
  <2> QED
    BY <1>4, <2>5, <2>6, <2>7, <2>9, InsideIInv
<1> QED
  BY <1>1, <1>7, <1>8

(* A word of the buffer. *)
LEMMA WordAt ==
  ASSUME Fits, IInv, Open, NEW p \in Nat, position <= p, p + WordBytes <= maxPosition + 1
  PROVE  LET v == BytesAt(buffer, p, WordBytes)
         IN /\ v \in [1 .. W -> Nat] /\ InWord(v, W, BitsOf(Base + p))
            /\ \A i \in 1 .. W - W : v[i] = 0
<1> DEFINE v == BytesAt(buffer, p, WordBytes)
<1>1. /\ WordBytes \in Nat /\ W \in Nat /\ BitsOf(WordBytes) = W
  BY ByteSize, WordSize
<1>2. /\ v \in [1 .. W -> Nat]
      /\ \A i \in 1 .. W : v[i] = source[BitsOf(Base + p) + i]
  BY <1>1, BytesHold
<1> HIDE DEF v
<1>3. InWord(v, W, BitsOf(Base + p))
  <2>1. \A i \in 1 .. W : W - W + i = i
    BY <1>1
  <2> QED
    BY <1>2, <2>1 DEF InWord
<1>4. \A i \in 1 .. W - W : v[i] = 0
  BY <1>1
<1> QED
  BY <1>2, <1>3, <1>4 DEF v

LEMMA FourWordsIInv ==
  ASSUME Fits, IInv, Splits, remaining >= 4 * W, InBuffer > 4 * WordBytes, FourWords
  PROVE  IInv'
<1> DEFINE v1 == BytesAt(buffer, position + (1 - 1) * WordBytes, WordBytes)
           v2 == BytesAt(buffer, position + (2 - 1) * WordBytes, WordBytes)
           v3 == BytesAt(buffer, position + (3 - 1) * WordBytes, WordBytes)
           v4 == BytesAt(buffer, position + (4 - 1) * WordBytes, WordBytes)
           x1 == Flat(Or(ShiftLeft(current, r), ShiftRight(v1, a)))
           x2 == Flat(Or(ShiftLeft(v1, r), ShiftRight(v2, a)))
           x3 == Flat(Or(ShiftLeft(v2, r), ShiftRight(v3, a)))
           x4 == Flat(Or(ShiftLeft(v3, r), ShiftRight(v4, a)))
           d  == Len(delivered)
<1>1. /\ position' = position + 4 * WordBytes
      /\ out' = out \o x1 \o x2 \o x3 \o x4
      /\ current' = v4 /\ remaining' = remaining - 4 * W
      /\ UNCHANGED <<source, closed, readCount, maxPosition, buffer, srcPos, availBits, pc, r,
                     a, hist>>
  BY DEF FourWords
<1>2. WordBytes \in Nat \ {0} /\ W \in Nat \ {0} /\ BitsOf(WordBytes) = W
      /\ BitsOf(4 * WordBytes) = 4 * W
  BY ByteSize, WordSize
<1>3. InBuffer \in Nat /\ InBuffer > 0
  <2>1. InBuffer \in Nat
    BY SplitState, Numbers
  <2> QED
    BY <1>2, <2>1
<1>4. /\ Open /\ pc # "idle" /\ r \in 1 .. W - 1 /\ a = W - r /\ remaining \in Nat
      /\ availBits = a /\ InWord(current, W - r, Taken) /\ a \in Nat /\ ~ShortReads
  BY <1>3, SplitState
<1>5. /\ position \in Nat /\ maxPosition \in Int /\ InBuffer = maxPosition + 1 - position
      /\ Base + position = Bytes /\ Base \in Nat /\ Bytes \in Nat
      /\ DataTypes /\ WholeWords /\ Holds(out, d) /\ out \in Seq(Nat)
      /\ current \in [1 .. W -> Nat]
  BY <1>4, Numbers, OpenState DEF DataTypes, Layout
<1>6. /\ Taken \in Nat /\ Taken = d + Len(out) /\ d \in Nat /\ Len(out) \in Nat
      /\ Taken + a = BitsOf(Bytes) /\ BitsOf(Bytes) \in Nat
  BY <1>4, BitNumbers
<1>7. /\ BitsOf(Base + position) = Taken + (W - r)
      /\ BitsOf(Base + (position + WordBytes)) = Taken + W + (W - r)
      /\ BitsOf(Base + (position + 2 * WordBytes)) = Taken + 2 * W + (W - r)
      /\ BitsOf(Base + (position + 3 * WordBytes)) = Taken + 3 * W + (W - r)
  <2>1. /\ Base + (position + WordBytes) = Bytes + WordBytes
        /\ Base + (position + 2 * WordBytes) = (Bytes + WordBytes) + WordBytes
        /\ Base + (position + 3 * WordBytes) = ((Bytes + WordBytes) + WordBytes) + WordBytes
        /\ Bytes + WordBytes \in Int /\ (Bytes + WordBytes) + WordBytes \in Int
        /\ Bytes \in Int /\ WordBytes \in Int
    BY <1>2, <1>5
  <2>2. BitsOf(Bytes + WordBytes) = BitsOf(Bytes) + W
    BY <1>2, <2>1, BitsOfIs
  <2>3. BitsOf((Bytes + WordBytes) + WordBytes) = BitsOf(Bytes + WordBytes) + W
    BY <1>2, <2>1, BitsOfIs
  <2>4. BitsOf(((Bytes + WordBytes) + WordBytes) + WordBytes)
          = BitsOf((Bytes + WordBytes) + WordBytes) + W
    BY <1>2, <2>1, BitsOfIs
  <2>5. /\ BitsOf(Base + position) = BitsOf(Bytes)
        /\ BitsOf(Base + (position + WordBytes)) = BitsOf(Bytes) + W
        /\ BitsOf(Base + (position + 2 * WordBytes)) = BitsOf(Bytes) + W + W
        /\ BitsOf(Base + (position + 3 * WordBytes)) = BitsOf(Bytes) + W + W + W
    BY <1>5, <2>1, <2>2, <2>3, <2>4
  <2>6. /\ W \in Nat /\ r \in Nat /\ Taken \in Nat /\ BitsOf(Bytes) = Taken + (W - r)
    BY <1>2, <1>4, <1>6
  <2> QED
    BY <2>5, <2>6
<1>8. /\ position + (1 - 1) * WordBytes = position
      /\ position + (2 - 1) * WordBytes = position + WordBytes
      /\ position + (3 - 1) * WordBytes = position + 2 * WordBytes
      /\ position + (4 - 1) * WordBytes = position + 3 * WordBytes
      /\ position + WordBytes \in Nat /\ position + 2 * WordBytes \in Nat
      /\ position + 3 * WordBytes \in Nat
      /\ position <= position + WordBytes /\ position <= position + 2 * WordBytes
      /\ position <= position + 3 * WordBytes /\ position <= position
      /\ position + WordBytes <= maxPosition + 1
      /\ position + WordBytes + WordBytes <= maxPosition + 1
      /\ position + 2 * WordBytes + WordBytes <= maxPosition + 1
      /\ position + 3 * WordBytes + WordBytes <= maxPosition + 1
  BY <1>2, <1>5
<1>9. /\ v1 \in [1 .. W -> Nat] /\ InWord(v1, W, Taken + (W - r))
      /\ \A i \in 1 .. W - W : v1[i] = 0
  <2>1. v1 = BytesAt(buffer, position, WordBytes)
    BY <1>8
  <2> HIDE DEF v1
  <2> QED
    BY <1>4, <1>5, <1>7, <1>8, <2>1, WordAt
<1>10. /\ v2 \in [1 .. W -> Nat] /\ InWord(v2, W, Taken + W + (W - r))
       /\ \A i \in 1 .. W - W : v2[i] = 0
  <2>1. v2 = BytesAt(buffer, position + WordBytes, WordBytes)
    BY <1>8
  <2> HIDE DEF v2
  <2> QED
    BY <1>4, <1>7, <1>8, <2>1, WordAt
<1>11. /\ v3 \in [1 .. W -> Nat] /\ InWord(v3, W, Taken + 2 * W + (W - r))
       /\ \A i \in 1 .. W - W : v3[i] = 0
  <2>1. v3 = BytesAt(buffer, position + 2 * WordBytes, WordBytes)
    BY <1>8
  <2> HIDE DEF v3
  <2> QED
    BY <1>4, <1>7, <1>8, <2>1, WordAt
<1>12. /\ v4 \in [1 .. W -> Nat] /\ InWord(v4, W, Taken + 3 * W + (W - r))
       /\ \A i \in 1 .. W - W : v4[i] = 0
  <2>1. v4 = BytesAt(buffer, position + 3 * WordBytes, WordBytes)
    BY <1>8
  <2> HIDE DEF v4
  <2> QED
    BY <1>4, <1>7, <1>8, <2>1, WordAt
<1> HIDE DEF v1, v2, v3, v4
<1>13. /\ W \in r .. W /\ W - r = a /\ Taken + W \in Nat /\ Taken + 2 * W \in Nat
       /\ Taken + 3 * W \in Nat
       /\ Taken + W + W = Taken + 2 * W /\ Taken + 2 * W + W = Taken + 3 * W
       /\ Taken + 3 * W + W = Taken + 4 * W
  BY <1>2, <1>4, <1>6
<1>14. /\ x1 \in Seq(Nat) /\ Len(x1) = W /\ Holds(x1, Taken) /\ InWord(v1, W - r, Taken + W)
  BY <1>4, <1>5, <1>6, <1>9, <1>13, JoinWhole
<1>15. /\ x2 \in Seq(Nat) /\ Len(x2) = W /\ Holds(x2, Taken + W)
       /\ InWord(v2, W - r, Taken + 2 * W)
  <2> DEFINE s == Taken + W
  <2>1. s \in Nat /\ s + W = Taken + 2 * W /\ s = Taken + W
    BY <1>13
  <2>2. InWord(v1, W - r, s) /\ InWord(v2, W, s + (W - r))
    BY <1>10, <1>14
  <2> HIDE DEF s
  <2>3. /\ x2 \in Seq(Nat) /\ Len(x2) = W /\ Holds(x2, s) /\ InWord(v2, W - r, s + W)
    BY <1>4, <1>9, <1>10, <1>13, <2>1, <2>2, JoinWhole DEF x2
  <2> QED
    BY <2>1, <2>3
<1>16. /\ x3 \in Seq(Nat) /\ Len(x3) = W /\ Holds(x3, Taken + 2 * W)
       /\ InWord(v3, W - r, Taken + 3 * W)
  <2> DEFINE s == Taken + 2 * W
  <2>1. s \in Nat /\ s + W = Taken + 3 * W /\ s = Taken + 2 * W
    BY <1>13
  <2>2. InWord(v2, W - r, s) /\ InWord(v3, W, s + (W - r))
    BY <1>11, <1>15
  <2> HIDE DEF s
  <2>3. /\ x3 \in Seq(Nat) /\ Len(x3) = W /\ Holds(x3, s) /\ InWord(v3, W - r, s + W)
    BY <1>4, <1>10, <1>11, <1>13, <2>1, <2>2, JoinWhole DEF x3
  <2> QED
    BY <2>1, <2>3
<1>17. /\ x4 \in Seq(Nat) /\ Len(x4) = W /\ Holds(x4, Taken + 3 * W)
       /\ InWord(v4, W - r, Taken + 4 * W)
  <2> DEFINE s == Taken + 3 * W
  <2>1. s \in Nat /\ s + W = Taken + 4 * W /\ s = Taken + 3 * W
    BY <1>13
  <2>2. InWord(v3, W - r, s) /\ InWord(v4, W, s + (W - r))
    BY <1>12, <1>16
  <2> HIDE DEF s
  <2>3. /\ x4 \in Seq(Nat) /\ Len(x4) = W /\ Holds(x4, s) /\ InWord(v4, W - r, s + W)
    BY <1>4, <1>11, <1>12, <1>13, <2>1, <2>2, JoinWhole DEF x4
  <2> QED
    BY <2>1, <2>3
<1> HIDE DEF x1, x2, x3, x4, d
<1> DEFINE y1 == out \o x1
           y2 == y1 \o x2
           y3 == y2 \o x3
           y4 == y3 \o x4
<1>18. y1 \in Seq(Nat) /\ Len(y1) = Len(out) + W /\ Holds(y1, d)
  BY <1>5, <1>6, <1>14, HoldsJoin
<1> HIDE DEF y1
<1>19. y2 \in Seq(Nat) /\ Len(y2) = Len(out) + 2 * W /\ Holds(y2, d)
  <2>1. d + Len(y1) = Taken + W /\ Len(y1) + W = Len(out) + 2 * W
    BY <1>2, <1>6, <1>18
  <2> QED
    BY <1>6, <1>15, <1>18, <2>1, HoldsJoin
<1> HIDE DEF y2
<1>20. y3 \in Seq(Nat) /\ Len(y3) = Len(out) + 3 * W /\ Holds(y3, d)
  <2>1. d + Len(y2) = Taken + 2 * W /\ Len(y2) + W = Len(out) + 3 * W
    BY <1>2, <1>6, <1>19
  <2> QED
    BY <1>6, <1>16, <1>19, <2>1, HoldsJoin
<1> HIDE DEF y3
<1>21. y4 \in Seq(Nat) /\ Len(y4) = Len(out) + 4 * W /\ Holds(y4, d)
  <2>1. d + Len(y3) = Taken + 3 * W /\ Len(y3) + W = Len(out) + 4 * W
    BY <1>2, <1>6, <1>20
  <2> QED
    BY <1>6, <1>17, <1>20, <2>1, HoldsJoin
<1>22. out' = y4
  BY <1>1 DEF y1, y2, y3
<1> HIDE DEF y4
<1>23. /\ out' \in Seq(Nat) /\ Taken' = Taken + 4 * W /\ Holds(out, Len(delivered))'
  <2>1. delivered' = delivered /\ Taken' = Len(delivered') + Len(out')
    BY <1>1 DEF Taken, hist
  <2>2. Len(delivered') = d /\ Len(out') = Len(out) + 4 * W
    BY <1>21, <1>22, <2>1 DEF d
  <2>3. Taken' = Taken + 4 * W
    BY <1>2, <1>6, <2>1, <2>2
  <2>4. Holds(out, Len(delivered))'
    BY <1>1, <1>21, <1>22, <2>1, <2>2 DEF Holds
  <2> QED
    BY <1>21, <1>22, <2>3, <2>4
<1>24. /\ BufferIs' /\ Bytes' = Bytes + 4 * WordBytes /\ InBuffer' = InBuffer - 4 * WordBytes
       /\ LeftInSource' = LeftInSource /\ position' \in 0 .. maxPosition' + 1
       /\ readCount' \in Int /\ maxPosition' \in -1 .. BufferBytes - 1
       /\ srcPos' \in 0 .. size' /\ buffer' \in [Places -> Nat]
  <2>1. 4 * WordBytes \in Nat /\ 4 * WordBytes <= InBuffer
    BY <1>2, <1>3
  <2> QED
    BY <1>1, <1>4, <2>1, Advance
<1>25. WholeWords'
  <2> SUFFICES ASSUME LeftInSource > 0, ~ShortReads PROVE Multiple(InBuffer - 4 * WordBytes)
    BY <1>24 DEF WholeWords, Multiple
  <2>1. Multiple(InBuffer) /\ Multiple(4 * WordBytes)
    BY <1>2, <1>5 DEF WholeWords, Multiple
  <2>2. 4 * WordBytes \in Int /\ InBuffer \in Int /\ 4 * WordBytes <= InBuffer
    BY <1>2, <1>3
  <2> QED
    BY <2>1, <2>2, MultipleMinus
<1>26. DataTypes'
  BY <1>1, <1>5, <1>12, <1>23, <1>24 DEF DataTypes
<1>27. Layout'
  <2>1. Taken' + availBits' = BitsOf(Bytes')
    <3>1. BitsOf(Bytes') = BitsOf(Bytes) + 4 * W
      <4>1. Bytes \in Int /\ 4 * WordBytes \in Int
        BY <1>2, <1>5
      <4> QED
        BY <1>2, <1>24, <4>1, BitsOfIs
    <3> QED
      BY <1>1, <1>2, <1>4, <1>6, <1>23, <3>1
  <2>2. InWord(current, availBits, Taken)'
    BY <1>1, <1>4, <1>17, <1>23 DEF InWord
  <2> QED
    BY <1>23, <2>1, <2>2 DEF Layout
<1>28. remaining' \in Nat
  BY <1>1, <1>2, <1>4
<1>29. Inside
  <2>1. pc \in Pcs
    BY <1>4, OpenState
  <2> QED
    BY <1>1, <1>4, <1>28, <2>1 DEF Inside
<1>30. Loops'
  <2>1. closed = FALSE /\ panicked = FALSE /\ availBits < W
    BY <1>4, SplitState, OpenState
  <2> QED
    BY <1>1, <1>4, <2>1 DEF Loops, Splits, hist
<1> QED
  BY <1>24, <1>25, <1>26, <1>27, <1>29, <1>30, InsideIInv

LEMMA QuadWordsIInv ==
  ASSUME Fits, IInv, QuadWords
  PROVE  IInv'
<1>1. pc = "quad" /\ Splits
  BY DEF QuadWords, Splits
<1>2. Open /\ remaining \in Nat /\ W \in Nat \ {0} /\ InBuffer \in Nat /\ WordBytes \in Nat
  BY <1>1, SplitState, WordSize, Numbers, ByteSize
<1>3. CASE remaining >= 4 * W /\ InBuffer <= 4 * WordBytes /\ OneWord
  <2>1. remaining >= W
    BY <1>2, <1>3
  <2> QED
    BY <1>1, <1>3, <2>1, OneWordIInv
<1>4. CASE remaining >= 4 * W /\ InBuffer > 4 * WordBytes /\ FourWords
  BY <1>1, <1>4, FourWordsIInv
<1>5. CASE /\ remaining < 4 * W /\ pc' = "word"
           /\ UNCHANGED <<source, fields, remaining, r, a, out, hist>>
  <2>1. Loops'
    <3>1. AtEnd => AtEnd'
      BY <1>5 DEF AtEnd, InBuffer, LeftInSource, size, fields
    <3>2. /\ r \in 1 .. W - 1 /\ a = W - r /\ availBits < W /\ (availBits = a \/ AtEnd)
          /\ ~ShortReads /\ closed = FALSE /\ panicked = FALSE
      BY <1>1, <1>2, OpenState DEF IInv, Loops
    <3>3. UNCHANGED <<availBits, closed, panicked, r, a>>
      BY <1>5 DEF fields, hist
    <3> QED
      BY <1>5, <3>1, <3>2, <3>3 DEF Loops, Splits
  <2> QED
    BY <1>1, <1>5, <2>1, MoveIInv DEF Pcs
<1> QED
  BY <1>3, <1>4, <1>5 DEF QuadWords

LEMMA SingleWordsIInv ==
  ASSUME Fits, IInv, SingleWords
  PROVE  IInv'
<1>1. pc = "word" /\ Splits
  BY DEF SingleWords, Splits
<1>2. Open
  BY <1>1, SplitState
<1>3. CASE remaining >= W /\ OneWord
  BY <1>1, <1>3, OneWordIInv
<1>4. CASE /\ remaining < W /\ pc' = "bits"
           /\ UNCHANGED <<source, fields, remaining, r, a, out, hist>>
  <2>1. closed' = FALSE /\ panicked' = FALSE
    BY <1>2, <1>4, OpenState DEF fields, hist
  <2>2. Loops'
    BY <1>4, <2>1 DEF Loops, Splits
  <2> QED
    BY <1>1, <1>4, <2>2, MoveIInv DEF Pcs
<1> QED
  BY <1>3, <1>4 DEF SingleWords

-----------------------------------------------------------------------------
(* Every step. *)

LEMMA NextIInv ==
  ASSUME Fits, IInv, Next
  PROVE  IInv'
<1>1. CASE ReadBit
  BY <1>1, ReadBitsIInv DEF ReadBit
<1>2. CASE \E n \in BitCounts : ReadBits(n)
  <2>1. PICK n \in BitCounts : ReadBits(n)
    BY <1>2
  <2>2. n \in Nat
    BY BufferSize, WordSize
  <2> QED
    BY <2>1, <2>2, ReadBitsIInv
<1>3. CASE \E n \in ArraySizes : ReadArray(n)
  <2>1. PICK n \in ArraySizes : ReadArray(n)
    BY <1>3
  <2>2. n \in Nat \ {0} /\ ~ShortReads
    BY BufferSize DEF Fits
  <2> QED
    BY <2>1, <2>2, ReadArrayIInv
<1>4. CASE FillBuffer
  BY <1>4, FillBufferIInv
<1>5. CASE TakeLast
  BY <1>5, TakeLastIInv
<1>6. CASE TakeAndPull
  BY <1>6, TakeAndPullIInv
<1>7. CASE PullForArray
  BY <1>7, PullForArrayIInv
<1>8. CASE EmptyWord
  BY <1>8, EmptyWordIInv
<1>9. CASE CopyBytes
  BY <1>9, CopyBytesIInv
<1>10. CASE QuadWords
  BY <1>10, QuadWordsIInv
<1>11. CASE SingleWords
  BY <1>11, SingleWordsIInv
<1>12. CASE (AsksAtLastByte \/ ~AtLastByte) /\ HasMoreToRead
  <2>1. ~AtLastByte
    BY <1>12 DEF Fits
  <2> QED
    BY <1>12, <2>1, HasMoreToReadIInv
<1>13. CASE Close
  BY <1>13, CloseIInv
<1> QED
  BY <1>1, <1>2, <1>3, <1>4, <1>5, <1>6, <1>7, <1>8, <1>9, <1>10, <1>11, <1>12, <1>13 DEF Next

LEMMA IInvMeans ==
  ASSUME IInv
  PROVE  TypeOK /\ InOrder /\ EndIsReal /\ HasMoreIsRight
<1>1. TypeOK /\ EndIsReal /\ HasMoreIsRight
  BY DEF IInv, Types, Asked
<1>2. InOrder
  <2> DEFINE n == Len(delivered)
  <2>1. /\ delivered \in Seq(Nat) /\ source \in Seq(Nat) /\ n \in Nat /\ n <= Len(source)
        /\ \A i \in 1 .. n : delivered[i] = source[0 + i]
    BY DEF IInv, Types, WholeBytes, Delivered, Holds
  <2>2. /\ SubSeq(source, 1, n) \in Seq(Nat) /\ Len(SubSeq(source, 1, n)) = n
        /\ \A i \in 1 .. n : SubSeq(source, 1, n)[i] = source[i]
    <3>1. n \in 0 .. Len(source) /\ Len(source) \in Nat
      BY <2>1
    <3> HIDE DEF n
    <3> QED
      BY <2>1, <3>1, SubSeqProperties
  <2>3. \A i \in 1 .. Len(delivered) : delivered[i] = SubSeq(source, 1, n)[i]
    BY <2>1, <2>2
  <2> QED
    BY <2>1, <2>2, <2>3, SeqEqual DEF InOrder
<1> QED
  BY <1>1, <1>2

THEOREM Invariance ==
  ASSUME Fits, Sizes \subseteq Nat
  PROVE  Spec => []IInv
<1>1. Init => IInv
  BY InitIInv
<1>2. IInv /\ [Next]_vars => IInv'
  BY NextIInv, StutterIInv
<1> QED
  BY <1>1, <1>2, PTL DEF Spec

(* The types: the positions stay in the buffer, no more bits are unread    *)
(* than a word has, and the stream does not read beyond its source.        *)
THEOREM TypeCorrect ==
  ASSUME Fits, Sizes \subseteq Nat
  PROVE  Spec => []TypeOK
BY Invariance, IInvMeans, PTL

(* Whatever the calls and the sizes of the buffer and of the word, the     *)
(* calls return the bits of the source, in order: none is lost or read     *)
(* twice.                                                                  *)
THEOREM ReadsInOrder ==
  ASSUME Fits, Sizes \subseteq Nat
  PROVE  Spec => []InOrder
BY Invariance, IInvMeans, PTL

(* A call panics only when the source has less than it was asked for.      *)
THEOREM PanicsAtTheEnd ==
  ASSUME Fits, Sizes \subseteq Nat
  PROVE  Spec => []EndIsReal
BY Invariance, IInvMeans, PTL

(* HasMoreToRead tells whether a bit is left.                              *)
THEOREM AnswersRight ==
  ASSUME Fits, Sizes \subseteq Nat
  PROVE  Spec => []HasMoreIsRight
BY Invariance, IInvMeans, PTL

=============================================================================
