---------------------------- MODULE EntropyUtils ----------------------------
(***************************************************************************)
(* What the entropy coders share (src/v2/entropy/EntropyUtils.go,          *)
(* ExpGolombCodec.go, NullEntropyCodec.go): the alphabet of a chunk, the   *)
(* scaling of its frequencies, sizes of a variable length.  A bit stream   *)
(* is a sequence of bits; a reader is a position in it, and what it reads  *)
(* is a value with the position behind it.  Past the end it reads zeros: a *)
(* decoder that got there has failed (the stream of the code panics).      *)
(***************************************************************************)
EXTENDS Bytes

CONSTANT VarIntBytes   \* the most bytes ReadVarInt reads (4)

WriteBits(v, n) == Digits(v, n, 2)
WriteArray(s) == [i \in 1 .. ByteBits * Len(s) |->
                    WriteBits(s[((i - 1) \div ByteBits) + 1], ByteBits)
                             [((i - 1) % ByteBits) + 1]]

Bit(bits, at) == IF at < Len(bits) THEN At(bits, at) ELSE 0
ReadBits(bits, at, n) == Value([i \in 1 .. n |-> Bit(bits, at + i - 1)], 2)
ReadArray(bits, at, n) == <<>> \o [i \in 1 .. n |-> ReadBits(bits, at + (i - 1) * ByteBits, ByteBits)]

(* The outcome of a decoder: the bytes and the position behind them. *)
Decoded(out, at) == [ok |-> TRUE, out |-> out, at |-> at]
Invalid == [ok |-> FALSE, out |-> <<>>, at |-> 0]

(* The null coder: the bytes as they are. *)
NullWrite(block) == Done(WriteArray(block))
NullRead(bits, n) == Decoded(ReadArray(bits, 0, n), n * ByteBits)

-----------------------------------------------------------------------------
(* EncodeAlphabet: nothing, everything, or masks of presence flags up to   *)
(* that of the last symbol, each with its lowest symbol in its lowest bit. *)
Masks == ByteCount \div ByteBits
MaskBits == Log2(Masks)

EncodeAlphabet(alphabet) ==
  LET last == Greatest(alphabet) \div ByteBits
      flag(m, bit) == IF m * ByteBits + bit \in alphabet THEN 1 ELSE 0
  IN IF alphabet = {} THEN <<0, 1>>
     ELSE IF alphabet = Byte THEN <<0, 0>>
     ELSE <<1>> \o WriteBits(last, MaskBits) \o
          [i \in 1 .. ByteBits * (last + 1) |->
             flag((i - 1) \div ByteBits, ByteBits - 1 - ((i - 1) % ByteBits))]

DecodeAlphabet(bits, at) ==
  LET last == ReadBits(bits, at + 1, MaskBits)
      masks == at + 1 + MaskBits
      flag(s) == Bit(bits, masks + (s \div ByteBits) * ByteBits + ByteBits - 1 - (s % ByteBits))
  IN IF Bit(bits, at) = 0
     THEN [alphabet |-> IF Bit(bits, at + 1) = 1 THEN {} ELSE Byte, at |-> at + 2]
     ELSE [alphabet |-> {s \in 0 .. ByteBits * (last + 1) - 1 : flag(s) = 1},
           at |-> masks + ByteBits * (last + 1)]

-----------------------------------------------------------------------------
(* WriteVarInt: all but one bit of every byte, lowest first; the last bit  *)
(* says that there are more.  ReadVarInt stops after VarIntBytes of them.  *)
Half == ByteCount \div 2

RECURSIVE WriteVarInt(_)
WriteVarInt(v) ==
  IF v < Half THEN WriteBits(v, ByteBits)
  ELSE WriteBits(Half + (v % Half), ByteBits) \o WriteVarInt(v \div Half)

RECURSIVE VarInt(_, _, _)
VarInt(bits, at, k) ==
  LET v == ReadBits(bits, at, ByteBits)
      more == VarInt(bits, at + ByteBits, k + 1)
  IN IF v < Half \/ k = VarIntBytes THEN [value |-> v % Half, at |-> at + ByteBits]
     ELSE [value |-> (v % Half) + Half * more.value, at |-> more.at]

ReadVarInt(bits, at) == VarInt(bits, at, 1)

-----------------------------------------------------------------------------
(* EncodeByte of the signed Exp-Golomb coder, whose table _EXPG_VALUES     *)
(* holds these codes: the number of bits in unary, the value, its sign; a  *)
(* byte of the upper half is negative.                                     *)
ExpGolomb(byte) ==
  LET negative == byte >= Half
      v == 1 + IF negative THEN ByteCount - byte ELSE byte
      log2 == Log2(v)
  IN IF byte = 0 THEN <<1>>
     ELSE [i \in 1 .. log2 |-> 0] \o WriteBits(v, log2 + 1)
          \o <<IF negative THEN 1 ELSE 0>>

(* DecodeByte: the size is clamped, a corrupted one is not detected. *)
ReadExpGolomb(bits, at) ==
  LET one == Least({k \in at .. Larger(at, Len(bits)) : k >= Len(bits) \/ Bit(bits, k) = 1})
      log2 == (one - at) % ByteBits
      abs == ReadBits(bits, one + 1, log2) + 2 ^ log2 - 1
      negative == Bit(bits, one + 1 + log2) = 1
  IN IF one = at THEN [byte |-> 0, at |-> at + 1]
     ELSE [byte |-> (IF negative THEN ByteCount - abs ELSE abs) % ByteCount,
           at |-> one + log2 + 2]

-----------------------------------------------------------------------------
Sum(s) == LET upTo[i \in 0 .. Len(s)] == IF i = 0 THEN 0 ELSE upTo[i - 1] + s[i]
          IN upTo[Len(s)]

(* NormalizeFrequencies, one step at a time.  A frequency is scaled, to    *)
(* the nearest value but never to none.                                    *)
(* Mutant: to none too.                                                    *)
ScaledToNone(f, total, scale) == (2 * f * scale + total) \div (2 * total)
Scaled(f, total, scale) ==
  LET q == (f * scale) \div total
      up == (q + 1) * total - f * scale < f * scale - q * total
  IN IF f = 0 THEN 0 ELSE IF f * scale <= total THEN 1 ELSE IF up THEN q + 1 ELSE q

(* A small error goes to the greatest one.  A large one goes to it in part *)
(* and is then spread, one by one, over those that are not small, by       *)
(* decreasing value, round and round.                                      *)
RECURSIVE Spread(_, _, _, _)
Spread(freqs, queue, inc, left) ==
  IF left = 0 \/ queue = <<>> THEN [freqs |-> freqs, left |-> left]
  ELSE IF freqs[Head(queue)] = -inc THEN Spread(freqs, Tail(queue), inc, left)
  ELSE Spread([freqs EXCEPT ![Head(queue)] = @ + inc],
              Append(Tail(queue), Head(queue)), inc, left - 1)

(* What is still left is spread over all, in the order of the alphabet. *)
RECURSIVE SpreadRest(_, _, _, _)
SpreadRest(freqs, i, inc, left) ==
  IF left = 0 \/ i > Len(freqs) THEN freqs
  ELSE IF freqs[i] \in {0, -inc} THEN SpreadRest(freqs, i + 1, inc, left)
  ELSE SpreadRest([freqs EXCEPT ![i] = @ + inc], i + 1, inc, left - 1)

Adjust(freqs, scale) ==
  LET idxMax == Least({i \in DOMAIN freqs : \A j \in DOMAIN freqs : freqs[j] <= freqs[i]})
      delta == Sum(freqs) - scale
      inc == IF delta < 0 THEN 1 ELSE -1
      abs == inc * (-delta)
      errThr == freqs[idxMax] \div 16
      first == [freqs EXCEPT ![idxMax] = @ + inc * errThr]
      large == {i \in DOMAIN freqs : first[i] > 2}
      ahead(i) == {j \in large : first[j] > first[i] \/ (first[j] = first[i] /\ j > i)}
      queue == [k \in 1 .. Cardinality(large) |->
                  CHOOSE i \in large : Cardinality(ahead(i)) = k - 1]
      spread == Spread(first, queue, inc, abs - errThr)
  IN IF abs <= errThr THEN [freqs EXCEPT ![idxMax] = @ - delta]
     ELSE SpreadRest(spread.freqs, 1, inc, spread.left)

(* The frequencies that add up to scale.  freqs is the slice the caller    *)
(* passes; with nothing to scale its length is taken to be that of a full  *)
(* alphabet, and a shorter slice makes the encoder panic.                  *)
Panics(freqs, total, scale) == total = scale /\ Len(freqs) < ByteCount

NormalizeFrequencies(freqs, total, scale) ==
  LET present == {i \in DOMAIN freqs : freqs[i] # 0}
      scaled == <<>> \o [i \in DOMAIN freqs |-> Scaled(freqs[i], total, scale)]
  IN IF total \in {0, scale} \/ present = {} THEN freqs
     ELSE IF Cardinality(present) = 1
     THEN [i \in DOMAIN freqs |-> IF i \in present THEN scale ELSE 0]
     ELSE Adjust(scaled, scale)
=============================================================================
