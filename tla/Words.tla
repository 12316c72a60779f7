-------------------------------- MODULE Words --------------------------------
(***************************************************************************)
(* The machine words of the bitstreams.  A bit is named by its position in *)
(* the sequence of bits that goes through the stream (1, 2, ...); 0 is a   *)
(* bit that was never set.  A word is a function from 1 .. W, most         *)
(* significant bit first.  uint64 has W = 64, in 8 bytes of 8 bits.        *)
(***************************************************************************)
EXTENDS Integers, Sequences

CONSTANTS
  ByteBits,   \* bits in a byte (8)
  WordBytes   \* bytes in a word (8)

ASSUME WordsAssumption == ByteBits \in Nat \ {0} /\ WordBytes \in Nat \ {0}

W == ByteBits * WordBytes

(* n bytes, in bits. *)
BitsOf(n) == n * ByteBits

MinOf(a, b) == IF a <= b THEN a ELSE b

(* The name of a bit that two different bits were merged into. *)
Clash == -1
Merge(x, y) == IF x = 0 THEN y ELSE IF y = 0 THEN x ELSE Clash

(* Go's << and >> (a shift by W or more yields 0) and |. *)
Zero == [i \in 1 .. W |-> 0]
ShiftLeft(w, n) == [i \in 1 .. W |-> IF i + n <= W THEN w[i + n] ELSE 0]
ShiftRight(w, n) == [i \in 1 .. W |-> IF i - n >= 1 THEN w[i - n] ELSE 0]
Or(v, w) == [i \in 1 .. W |-> Merge(v[i], w[i])]

(* A value whose count low bits are the bits from first on. *)
Value(first, count) ==
  [i \in 1 .. W |-> IF i > W - count THEN first + i - (W - count) - 1 ELSE 0]

(* The bits of a word, as a sequence. *)
Flat(w) == [i \in 1 .. W |-> w[i]]

(* The bits from a to b, in order. *)
BitRange(a, b) == [i \in 1 .. b - a + 1 |-> a + i - 1]
=============================================================================
