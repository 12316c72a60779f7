----------------------------- MODULE OutputBits -----------------------------
(***************************************************************************)
(* DefaultOutputBitStream (bitstream/DefaultOutputBitStream.go): bits are  *)
(* collected in a word (current), words in a buffer, and the buffer is     *)
(* written to an io.Writer when it is nearly full and when the stream is   *)
(* closed.  WriteBit and WriteBits are one step; WriteArray is one step    *)
(* per turn of its loops, because the io.Writer may fail in each of them.  *)
(* The bits written are numbered 1, 2, ... in the order of the calls.      *)
(***************************************************************************)
EXTENDS Words

CONSTANTS
  BufferBytes,  \* the size of the buffer
  MaxBits,      \* bound: bits written in total
  BitCounts,    \* the counts passed to WriteBits
  ArraySizes,   \* the lengths (in bits) of the arrays passed to WriteArray
  MaxFailures,  \* bound: how often the io.Writer fails
  ShortArrays   \* TRUE: an array may end less than 8 bytes behind its last
                \* whole byte

ASSUME OutputBitsAssumption ==
  /\ BufferBytes \in Nat /\ BufferBytes % WordBytes = 0
  /\ BufferBytes > 5 * WordBytes
  /\ MaxBits \in Nat /\ BitCounts \subseteq 1 .. W
  /\ ArraySizes \subseteq Nat \ {0} /\ MaxFailures \in Nat
  /\ ShortArrays \in BOOLEAN

VARIABLES
  \* The fields of the stream (buffer: bit by bit; a word at byte p starts
  \* at bit p * ByteBits)
  closed, written, position, availBits, current, buffer,
  \* What the io.Writer got, bit by bit
  sink,
  \* WriteArray: which loop it is in ("idle": no call is active), how many
  \* bits remain, and availBits at its start
  pc, remaining, a,
  \* History: bits accepted; failures of the io.Writer; whether a call
  \* panicked
  accepted, failures, panicked

fields == <<closed, written, position, availBits, current, buffer, sink>>
call == <<pc, remaining, a>>
hist == <<accepted, failures, panicked>>
vars == <<fields, call, hist>>

-----------------------------------------------------------------------------
Blank == [i \in 0 .. BufferBytes * ByteBits - 1 |-> 0]

Init ==
  /\ closed = FALSE /\ written = 0 /\ position = 0 /\ availBits = W
  /\ current = Zero /\ buffer = Blank
  /\ sink = <<>>
  /\ pc = "idle" /\ remaining = 0 /\ a = 0
  /\ accepted = 0 /\ failures = 0 /\ panicked = FALSE

(* The buffer with a word, or a sequence of bits, at byte p. *)
Put(buf, p, bits) ==
  [i \in DOMAIN buf |->
     IF i \in p * ByteBits .. p * ByteBits + Len(bits) - 1
     THEN bits[i - p * ByteBits + 1] ELSE buf[i]]

(* flush, with pos bytes of buf in use. *)
Flush(buf, pos) ==
  /\ sink' = sink \o [i \in 1 .. pos * ByteBits |-> buf[i - 1]]
  /\ written' = written + BitsOf(pos) /\ position' = 0
  /\ UNCHANGED failures

(* The io.Writer fails, and the caller of flush panics: nothing is reset.  *)
FlushFails(pos) ==
  /\ pos > 0 /\ failures < MaxFailures /\ failures' = failures + 1
  /\ position' = pos /\ UNCHANGED <<sink, written>>

(* The buffer is nearly full. *)
Full(pos) == pos >= BufferBytes - WordBytes

(* push(val) and what follows it when it returns: the next current and     *)
(* availBits, n bits being accepted.  If it panics, current is atPanic.    *)
Push(val, atPanic, nextCurrent, nextAvail, n) ==
  LET buf == Put(buffer, position, Flat(val))
      pos == position + WordBytes
  IN /\ buffer' = buf
     /\ \/ /\ Full(pos) /\ Flush(buf, pos)
           /\ current' = nextCurrent /\ availBits' = nextAvail
           /\ accepted' = accepted + n /\ UNCHANGED panicked
        \/ /\ Full(pos) /\ FlushFails(pos)
           /\ panicked' = TRUE /\ current' = atPanic /\ UNCHANGED <<availBits, accepted>>
        \/ /\ ~Full(pos) /\ position' = pos
           /\ current' = nextCurrent /\ availBits' = nextAvail
           /\ accepted' = accepted + n
           /\ UNCHANGED <<sink, written, failures, panicked>>

(* The current word with the first of count bits behind what it holds, and *)
(* the word that the others start.                                         *)
WithBits(count) ==
  Or(current, ShiftRight(ShiftLeft(Value(accepted + 1, count), W - count), W - availBits))
RestOf(count) == ShiftLeft(Value(accepted + 1, count), W - (count - availBits))

AppendBits(count) ==
  \/ /\ count >= availBits
     /\ Push(WithBits(count), WithBits(count), RestOf(count), W - (count - availBits),
             count)
  \/ /\ count < availBits
     /\ current' = WithBits(count) /\ availBits' = availBits - count
     /\ accepted' = accepted + count
     /\ UNCHANGED <<written, position, buffer, sink, failures, panicked>>

Ready == pc = "idle" /\ ~closed /\ ~panicked
WriteBits(count) ==
  Ready /\ AppendBits(count) /\ UNCHANGED <<closed, call>>

(* WriteBit: the same with one bit.                                        *)
WriteBit ==
  /\ Ready
  /\ IF availBits <= 1
     THEN Push(Or(current, Value(accepted + 1, 1)), current, Zero, W, 1)
     ELSE /\ current' = Or(current, ShiftLeft(Value(accepted + 1, 1), availBits - 1))
          /\ availBits' = availBits - 1 /\ accepted' = accepted + 1
          /\ UNCHANGED <<written, position, buffer, sink, failures, panicked>>
  /\ UNCHANGED <<closed, call>>

-----------------------------------------------------------------------------
(* WriteArray(bits, count) on an open stream: the loops it goes through.   *)
(* After a panic (an I/O error) the call is over.                          *)
Goto(loop) == pc' = IF panicked' THEN "idle" ELSE loop
Aligned == availBits % ByteBits = 0
WriteArray(count) ==
  /\ Ready /\ remaining' = count /\ a' = availBits
  /\ pc' = CASE Aligned -> "fill"
             [] ~Aligned /\ count >= W -> "quad"
             [] OTHER -> "tail"
  /\ UNCHANGED <<fields, hist>>

(* Byte by byte until the current word is empty. *)
FillWord ==
  /\ pc = "fill"
  /\ \/ /\ availBits # W /\ remaining >= ByteBits
        /\ AppendBits(ByteBits) /\ remaining' = remaining - ByteBits /\ Goto("fill")
     \/ /\ ~(availBits # W /\ remaining >= ByteBits)
        /\ pc' = "copy"
        /\ UNCHANGED <<written, position, availBits, current, buffer, sink, remaining, hist>>
  /\ UNCHANGED <<closed, a>>

(* The next n bytes of the array go to the buffer.  *)
PutBytes(n) == Put(buffer, position, BitRange(accepted + 1, accepted + n * ByteBits))

(* Copy and flush while the array is longer than the room that is left;    *)
(* then copy the rest of its words.                                        *)
CopyBytes ==
  LET room  == BufferBytes - WordBytes - position
      words == (remaining \div W) * WordBytes
  IN /\ pc = "copy"
     /\ \/ /\ remaining \div ByteBits >= room
           /\ buffer' = PutBytes(room)
           /\ remaining' = remaining - BitsOf(room) /\ accepted' = accepted + BitsOf(room)
           /\ \/ Flush(buffer', position + room) /\ UNCHANGED panicked
              \/ FlushFails(position + room) /\ panicked' = TRUE
           /\ Goto("copy")
        \/ /\ remaining \div ByteBits < room
           /\ buffer' = PutBytes(words) /\ position' = position + words
           /\ remaining' = remaining - BitsOf(words) /\ accepted' = accepted + BitsOf(words)
           /\ pc' = "tail"
           /\ UNCHANGED <<written, sink, failures, panicked>>
     /\ UNCHANGED <<closed, availBits, current, a>>

(* Not byte aligned: the array is written with its words split in two.     *)
(* Four words at a time go straight to the buffer, ...                     *)
Word(k) == Value(accepted + k * W + 1, W)
Split(k) == Or(ShiftLeft(Word(k - 1), a), ShiftRight(Word(k), W - a))
LastPart(w) == ShiftLeft(w, a)
QuadWords ==
  LET first == Or(current, ShiftRight(Word(0), W - a))
      pos   == IF position >= BufferBytes - 4 * WordBytes THEN 0 ELSE position
      bits  == Flat(first) \o Flat(Split(1)) \o Flat(Split(2)) \o Flat(Split(3))
  IN /\ pc = "quad"
     /\ \/ /\ remaining >= 4 * W /\ position >= BufferBytes - 4 * WordBytes
           /\ FlushFails(position) /\ panicked' = TRUE /\ pc' = "idle"
           /\ current' = first
           /\ UNCHANGED <<availBits, buffer, remaining, accepted>>
        \/ /\ remaining >= 4 * W
           /\ IF position >= BufferBytes - 4 * WordBytes
              THEN /\ sink' = sink \o [i \in 1 .. position * ByteBits |-> buffer[i - 1]]
                   /\ written' = written + BitsOf(position)
              ELSE UNCHANGED <<sink, written>>
           /\ buffer' = Put(buffer, pos, bits) /\ position' = pos + 4 * WordBytes
           /\ current' = LastPart(Word(3)) /\ availBits' = W
           /\ remaining' = remaining - 4 * W /\ accepted' = accepted + 4 * W
           /\ UNCHANGED <<pc, failures, panicked>>
        \/ /\ remaining < 4 * W /\ pc' = "word"
           /\ UNCHANGED <<written, position, availBits, current, buffer, sink, remaining,
                          hist>>
     /\ UNCHANGED <<closed, a>>

(* ... the others go through push; then availBits gets its value back.     *)
SingleWords ==
  /\ pc = "word"
  /\ \/ /\ remaining >= W
        /\ Push(Or(current, ShiftRight(Word(0), W - a)), current, LastPart(Word(0)), W, W)
        /\ remaining' = remaining - W /\ Goto("word")
     \/ /\ remaining < W
        /\ availBits' = a /\ pc' = "tail"
        /\ UNCHANGED <<written, position, current, buffer, sink, remaining, hist>>
  /\ UNCHANGED <<closed, a>>

(* The last bytes, and the last bits, for which 8 bytes of the array are   *)
(* loaded: a panic if they are not there.                                  *)
TailBits ==
  /\ pc = "tail"
  /\ \/ /\ remaining > 0
        /\ LET n == MinOf(remaining, ByteBits)
           IN AppendBits(n) /\ remaining' = remaining - n
        /\ Goto("tail")
     \/ /\ ShortArrays /\ remaining \in 1 .. ByteBits - 1
        /\ panicked' = TRUE /\ pc' = "idle"
        /\ UNCHANGED <<written, position, availBits, current, buffer, sink, remaining,
                       accepted, failures>>
     \/ /\ remaining = 0 /\ pc' = "idle"
        /\ UNCHANGED <<written, position, availBits, current, buffer, sink, remaining, hist>>
  /\ a' = (IF pc' = "idle" THEN 0 ELSE a)
  /\ UNCHANGED closed

-----------------------------------------------------------------------------
(* Close on an open stream: the last, possibly incomplete, byte is padded; *)
(* the counter is corrected by the padding; if the io.Writer fails, all    *)
(* but the counter gets its old value back.  (After a panic in push the    *)
(* buffer may be full: then Close runs past its end, a panic again.)       *)
(* Mutants: an incomplete last byte is not written; the padding is counted *)
(* like data.                                                              *)
LastBytesWhole == (W - availBits) \div ByteBits
LastBytes == (W - availBits + ByteBits - 1) \div ByteBits
PaddingCounted == 0
Padding == BitsOf(LastBytes) - (W - availBits)
Close ==
  LET pos == position + LastBytes
      buf == Put(buffer, position, SubSeq(Flat(current), 1, BitsOf(LastBytes)))
  IN /\ pc = "idle" /\ ~closed
     /\ \/ /\ pos <= BufferBytes
           /\ closed' = TRUE /\ availBits' = 0 /\ position' = 0
           /\ sink' = sink \o [i \in 1 .. BitsOf(pos) |-> buf[i - 1]]
           /\ written' = written - Padding + BitsOf(pos) - W
           /\ buffer' = Blank /\ UNCHANGED failures
        \/ /\ pos \in 1 .. BufferBytes
           /\ failures < MaxFailures /\ failures' = failures + 1
           /\ written' = written - Padding
           /\ buffer' = buf /\ UNCHANGED <<closed, availBits, position, sink>>
        \/ /\ pos > BufferBytes
           /\ position' = BufferBytes
           /\ availBits' = availBits + BitsOf(BufferBytes - position)
           /\ buffer' = buf /\ UNCHANGED <<closed, written, sink, failures>>
     /\ UNCHANGED <<current, call, accepted, panicked>>

(* Written() *)
Written == written + BitsOf(position) + (W - availBits)

Room(n) == accepted + n <= MaxBits

Next ==
  \/ \E n \in BitCounts : Room(n) /\ WriteBits(n)
  \/ Room(1) /\ WriteBit
  \/ \E n \in ArraySizes : Room(n) /\ WriteArray(n)
  \/ FillWord \/ CopyBytes \/ QuadWords \/ SingleWords \/ TailBits
  \/ Close

Spec == Init /\ [][Next]_vars

-----------------------------------------------------------------------------
(* Every variable has its type.  Between two calls there is room for a     *)
(* word at least in the buffer.                                            *)
Bits == 0 .. MaxBits
TypeOK ==
  /\ {closed, panicked} \subseteq BOOLEAN /\ written \in Int
  /\ position \in 0 .. BufferBytes - (IF panicked THEN 0 ELSE WordBytes)
  /\ availBits \in (IF closed THEN {0} ELSE 1 .. W)
  /\ current \in [1 .. W -> Bits] /\ \A i \in DOMAIN buffer : buffer[i] \in Bits
  /\ pc \in {"idle", "fill", "copy", "quad", "word", "tail"}
  /\ remaining \in Nat /\ a \in 0 .. W
  /\ accepted \in Bits /\ failures \in 0 .. MaxFailures

(* A Close that returned nil has put every bit there, padded with less     *)
(* than a byte of zeros - also when an attempt to close failed before      *)
(* ("Revert fields to allow subsequent attempts in case of transient       *)
(* failure").                                                              *)
ClosedIsComplete ==
  closed /\ ~panicked =>
    /\ Len(sink) \in accepted .. accepted + ByteBits - 1
    /\ SubSeq(sink, 1, accepted) = BitRange(1, accepted)
    /\ \A i \in accepted + 1 .. Len(sink) : sink[i] = 0

(* "Written returns the number of bits written so far": between two calls, *)
(* also after Close, as long as the io.Writer does not fail (a Close that  *)
(* fails has corrected the counter by the padding, and the next one        *)
(* corrects it again).                                                     *)
WrittenIsExact == pc = "idle" /\ failures = 0 => Written = accepted

=============================================================================
