------------------------------ MODULE InputBits ------------------------------
(***************************************************************************)
(* DefaultInputBitStream (bitstream/DefaultInputBitStream.go): bytes are   *)
(* read from an io.Reader into a buffer, words are pulled from the buffer  *)
(* into current, and bits are taken from current.  ReadBits and ReadArray  *)
(* are one step per pull or turn of their loops, because the io.Reader may *)
(* return any number of bytes each time.                                   *)
(***************************************************************************)
EXTENDS Words

CONSTANTS
  BufferBytes,  \* the size of the buffer
  Sizes,        \* the sizes of the source, in bytes
  BitCounts,    \* the counts passed to ReadBits
  ArraySizes,   \* the lengths (in bits) that the client passes to ReadArray
  ShortReads,   \* TRUE: the io.Reader may return less than it has (a pipe)
  ReadErrors,   \* TRUE: the io.Reader may return an error, with or without
                \* bytes (io.EOF with the last ones, say)
  AsksAtLastByte  \* FALSE: the client does not call HasMoreToRead when one
                  \* byte is left in the buffer and no bit in current

VARIABLES
  source,    \* the bits of the source: a whole number of bytes
  \* The fields of the stream (buffer: bit by bit; byte p starts at bit
  \* p * ByteBits)
  closed, readCount, position, availBits, maxPosition, current, buffer,
  srcPos,    \* bytes the io.Reader has delivered
  \* The call: which loop it is in ("idle": no call is active), how many
  \* bits remain, 64 - availBits and availBits at the start of ReadArray,
  \* the bits it has got so far
  pc, remaining, r, a, out,
  \* History: the bits of the calls that returned; whether a call panicked,
  \* and for how many bits; what HasMoreToRead returned; whether the
  \* io.Reader returned an error
  delivered, panicked, wanted, hasMore, ioError

fields == <<closed, readCount, position, availBits, maxPosition, current, buffer, srcPos>>
refilled == <<readCount, position, maxPosition, buffer, srcPos>>
hist == <<delivered, panicked, wanted, hasMore, ioError>>
vars == <<source, fields, pc, remaining, r, a, out, hist>>

-----------------------------------------------------------------------------
NewStream ==
  /\ closed = FALSE /\ readCount = 0 /\ position = 0 /\ availBits = 0
  /\ maxPosition = -1 /\ current = Zero
  /\ buffer = [i \in 0 .. BufferBytes * ByteBits - 1 |-> 0] /\ srcPos = 0
  /\ pc = "idle" /\ remaining = 0 /\ r = 0 /\ a = 0 /\ out = <<>>
  /\ delivered = <<>> /\ panicked = FALSE /\ wanted = 0 /\ hasMore = "unknown"
  /\ ioError = FALSE

Init == NewStream /\ \E n \in Sizes : source = BitRange(1, n * ByteBits)

size == Len(source) \div ByteBits
InBuffer == maxPosition + 1 - position       \* bytes that are still in the buffer

(* The bits of n bytes of the buffer, from byte p on. *)
BytesAt(buf, p, n) == [i \in 1 .. BitsOf(n) |-> buf[BitsOf(p) + i - 1]]

(* The n highest of the unread bits of current.                            *)
(* Mutant: the lowest ones.                                                *)
LowBits(n) == [i \in 1 .. n |-> current[W - n + i]]
TakeBits(n) == [i \in 1 .. n |-> current[W - availBits + i]]

(* A call returns with its bits, or panics. *)
Return(bits) ==
  /\ pc' = "idle" /\ delivered' = delivered \o bits /\ out' = <<>>
  /\ remaining' = 0 /\ UNCHANGED <<panicked, wanted>>
Panic ==
  /\ pc' = "idle" /\ panicked' = TRUE /\ wanted' = Len(out) + remaining
  /\ out' = <<>> /\ remaining' = 0 /\ UNCHANGED delivered

(* readFromInputStream, when the io.Reader returns n > 0 bytes ...         *)
(* Mutants: the index of the last byte is one too low, or one too high.   *)
LeftInSource == size - srcPos
Returns ==
  IF ShortReads THEN 1 .. MinOf(BufferBytes, LeftInSource)
  ELSE {MinOf(BufferBytes, LeftInSource)} \ {0}
CountConsumed == BitsOf(position)
LastIndexShort(n) == n - 2
LastIndexBeyond(n) == n
LastIndex(n) == n - 1
Refill(n) ==
  /\ readCount' = readCount + CountConsumed
  /\ buffer' = [i \in DOMAIN buffer |->
                  IF i < BitsOf(n) THEN source[BitsOf(srcPos) + i + 1]
                  ELSE buffer[i]]
  /\ position' = 0 /\ maxPosition' = LastIndex(n) /\ srcPos' = srcPos + n

(* ... when it returns none, ... *)
NoRefill ==
  /\ readCount' = readCount + CountConsumed /\ position' = 0 /\ maxPosition' = -1
  /\ UNCHANGED <<buffer, srcPos>>
SourceEnds == LeftInSource = 0 /\ NoRefill

(* ... and when it returns an error, the bytes that came with it are in    *)
(* the buffer, but the caller takes it for the end.                        *)
RefillFails ==
  /\ ReadErrors /\ ioError' = TRUE
  /\ NoRefill \/ \E n \in Returns : Refill(n)

(* pull, from a buffer that is not empty: a word, or what there is, in the *)
(* low bits of a word.                                                     *)
PulledBytes == MinOf(WordBytes, InBuffer)
Pulled ==
  LET gap == W - BitsOf(PulledBytes)
  IN [i \in 1 .. W |-> IF i > gap THEN buffer[BitsOf(position) + i - gap - 1] ELSE 0]
Pull ==
  /\ InBuffer > 0
  /\ current' = Pulled /\ position' = position + PulledBytes

-----------------------------------------------------------------------------
Ready == pc = "idle" /\ ~closed /\ ~panicked
Call(n, loop) ==
  /\ Ready /\ pc' = loop /\ remaining' = n /\ hasMore' = "unknown"
  /\ UNCHANGED <<source, fields, out, delivered, panicked, wanted, ioError>>

ReadBits(n) == Call(n, "bits") /\ UNCHANGED <<r, a>>
ReadBit == ReadBits(1)

(* ReadArray: an aligned stream is emptied and copied byte by byte, for    *)
(* another one the words of the array are put together from two words.     *)
Aligned == availBits % ByteBits = 0
ReadArray(n) ==
  /\ Call(n, CASE Aligned /\ availBits = 0 -> "array"
               [] Aligned /\ availBits # 0 -> "empty"
               [] OTHER -> "quad")
  /\ r' = W - availBits /\ a' = availBits

(* The loops that need more bytes when the buffer is empty.                *)
NeedsBytes ==
  \/ pc = "bits" /\ remaining > availBits
  \/ pc = "array"
  \/ pc = "copy" /\ remaining \div ByteBits > 0
  \/ pc = "quad" /\ remaining >= 4 * W
  \/ pc = "word" /\ remaining >= W
FillBuffer ==
  /\ NeedsBytes /\ InBuffer = 0
  /\ \/ /\ \E n \in Returns : Refill(n)
        /\ UNCHANGED <<pc, remaining, out, delivered, panicked, wanted, ioError>>
     \/ SourceEnds /\ Panic /\ UNCHANGED ioError
     \/ RefillFails /\ Panic
  /\ UNCHANGED <<source, closed, availBits, current, r, a, hasMore>>

(* ReadBits: what it needs is in current ...                               *)
TakeLast ==
  /\ pc = "bits" /\ remaining <= availBits
  /\ Return(out \o TakeBits(remaining)) /\ availBits' = availBits - remaining
  /\ UNCHANGED <<source, closed, refilled, current, r, a, hasMore, ioError>>

(* ... or the rest of it is in the next words.                             *)
TakeAndPull ==
  /\ pc = "bits" /\ remaining > availBits /\ Pull
  /\ out' = out \o TakeBits(availBits) /\ remaining' = remaining - availBits
  /\ availBits' = BitsOf(PulledBytes)
  /\ UNCHANGED <<source, closed, readCount, maxPosition, buffer, srcPos, pc, r, a, hist>>

PullForArray ==
  /\ pc = "array" /\ Pull /\ availBits' = BitsOf(PulledBytes) /\ pc' = "empty"
  /\ UNCHANGED <<source, closed, readCount, maxPosition, buffer, srcPos, remaining, r, a, out,
                 hist>>

(* Aligned: byte by byte until current is empty, ...                       *)
EmptyWord ==
  LET n == MinOf(availBits, BitsOf(remaining \div ByteBits))
  IN /\ pc = "empty" /\ pc' = "copy"
     /\ out' = out \o TakeBits(n) /\ remaining' = remaining - n
     /\ availBits' = availBits - n
     /\ UNCHANGED <<source, closed, refilled, current, r, a, hist>>

(* ... then whole buffers, then whole words; the rest is for ReadBits.     *)
WordsOf(n) == (n \div WordBytes) * WordBytes
CopyBytes ==
  LET bytes == remaining \div ByteBits
      n     == IF bytes > InBuffer THEN InBuffer ELSE WordsOf(bytes)
  IN /\ pc = "copy" /\ ~(NeedsBytes /\ InBuffer = 0)
     /\ out' = out \o BytesAt(buffer, position, n)
     /\ position' = position + n /\ remaining' = remaining - BitsOf(n)
     /\ pc' = IF bytes > InBuffer THEN "copy" ELSE "bits"
     /\ UNCHANGED <<source, closed, readCount, maxPosition, buffer, srcPos, availBits,
                    current, r, a, hist>>

(* Not aligned: one word of the array from current and the next word; the  *)
(* call panics if the next word is too short.                              *)
OneWord ==
  LET avail == BitsOf(PulledBytes)
  IN /\ Pull
     /\ \/ /\ avail < r /\ Panic /\ availBits' = avail
        \/ /\ avail >= r /\ availBits' = avail - r
           /\ out' = out \o Flat(Or(ShiftLeft(current, r), ShiftRight(Pulled, avail - r)))
           /\ remaining' = remaining - W
           /\ UNCHANGED <<pc, delivered, panicked, wanted>>
     /\ UNCHANGED <<source, closed, readCount, maxPosition, buffer, srcPos, r, a, hasMore,
                    ioError>>

(* Four words at once while there are more than four in the buffer.        *)
FourWords ==
  LET v(k) == BytesAt(buffer, position + (k - 1) * WordBytes, WordBytes)
      pair(x, y) == Flat(Or(ShiftLeft(x, r), ShiftRight(y, a)))
  IN /\ position' = position + 4 * WordBytes
     /\ out' = out \o pair(current, v(1)) \o pair(v(1), v(2)) \o pair(v(2), v(3))
                   \o pair(v(3), v(4))
     /\ current' = v(4) /\ remaining' = remaining - 4 * W
     /\ UNCHANGED <<source, closed, readCount, maxPosition, buffer, srcPos, availBits, pc, r,
                    a, hist>>

QuadWords ==
  /\ pc = "quad"
  /\ \/ remaining >= 4 * W /\ InBuffer <= 4 * WordBytes /\ OneWord
     \/ remaining >= 4 * W /\ InBuffer > 4 * WordBytes /\ FourWords
     \/ /\ remaining < 4 * W /\ pc' = "word"
        /\ UNCHANGED <<source, fields, remaining, r, a, out, hist>>

SingleWords ==
  /\ pc = "word"
  /\ \/ remaining >= W /\ OneWord
     \/ /\ remaining < W /\ pc' = "bits"
        /\ UNCHANGED <<source, fields, remaining, r, a, out, hist>>

(* HasMoreToRead on an open stream.                                        *)
MoreInHand == position < maxPosition \/ availBits # 0
HasMoreToRead ==
  /\ Ready
  /\ \/ MoreInHand /\ hasMore' = "yes" /\ UNCHANGED <<refilled, ioError>>
     \/ /\ ~MoreInHand /\ (\E n \in Returns : Refill(n)) /\ hasMore' = "yes"
        /\ UNCHANGED ioError
     \/ ~MoreInHand /\ SourceEnds /\ hasMore' = "no" /\ UNCHANGED ioError
     \/ ~MoreInHand /\ RefillFails /\ hasMore' = "no"
  /\ UNCHANGED <<source, closed, availBits, current, pc, remaining, r, a, out, delivered,
                 panicked, wanted>>

Close ==
  /\ pc = "idle" /\ ~closed
  /\ closed' = TRUE /\ readCount' = readCount - availBits
  /\ availBits' = 0 /\ maxPosition' = -1
  /\ UNCHANGED <<source, position, current, buffer, srcPos, pc, remaining, r, a, out, hist>>

(* Read() *)
Read == readCount + BitsOf(position) - availBits

AtLastByte == position = maxPosition /\ availBits = 0

Next ==
  \/ ReadBit \/ \E n \in BitCounts : ReadBits(n)
  \/ \E n \in ArraySizes : ReadArray(n)
  \/ FillBuffer \/ TakeLast \/ TakeAndPull
  \/ PullForArray \/ EmptyWord \/ CopyBytes \/ QuadWords \/ SingleWords
  \/ (AsksAtLastByte \/ ~AtLastByte) /\ HasMoreToRead
  \/ Close

Spec == Init /\ [][Next]_vars

-----------------------------------------------------------------------------
TypeOK ==
  /\ {closed, panicked, ioError} \subseteq BOOLEAN /\ readCount \in Int
  /\ maxPosition \in -1 .. BufferBytes - 1
  /\ ~closed => position \in 0 .. maxPosition + 1 /\ availBits \in 0 .. W
  /\ srcPos \in 0 .. size /\ Len(current) = W
  /\ pc \in {"idle", "bits", "array", "empty", "copy", "quad", "word"}
  /\ remaining \in Nat /\ r \in 0 .. W /\ a \in 0 .. W
  /\ hasMore \in {"unknown", "yes", "no"}

(* The calls return the bits of the source, in order: none is lost or read *)
(* twice, however the calls and the reads of the source cut them up        *)
(* ("ReadArray reads 'count' bits from the stream and returns them").      *)
InOrder == delivered = SubSeq(source, 1, Len(delivered))

(* A call panics for lack of data only when the source does not have the   *)
(* bits it was asked for, as long as the io.Reader returns no error.       *)
EndIsReal == panicked /\ ~ioError => Len(delivered) + wanted > BitsOf(size)

(* "HasMoreToRead returns false is the stream is closed or there is no     *)
(* more bit to read."                                                      *)
HasMoreIsRight ==
  hasMore # "unknown" /\ ~ioError => (hasMore = "yes") = (Len(delivered) < BitsOf(size))

=============================================================================
