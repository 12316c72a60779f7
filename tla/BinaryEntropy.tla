--------------------------- MODULE BinaryEntropy ---------------------------
(***************************************************************************)
(* The binary arithmetic coder (src/v2/entropy/BinaryEntropyCodec.go; the  *)
(* one of FPAQCodec.go is the same with a model of its own).  The interval *)
(* low .. high is split for every bit by the probability that the model    *)
(* gives; its first FlushBytes bytes are written as soon as both ends      *)
(* agree on them.  Bits above the interval are never looked at: dropped.   *)
(***************************************************************************)
EXTENDS EntropyUtils

CONSTANTS
  FlushBytes,        \* bytes written at a time (4)
  KeepBytes,         \* bytes kept below them (3)
  PredBits,          \* bits of a probability (12; 16 in FPAQ)
  Get(_),            \* the probability of a 1, 2 ^ PredBits being certain
  Update(_, _),      \* the model after a bit
  NewChunk(_),       \* the model when a chunk starts
  Model,             \* the model when the stream starts
  ChunkLength(_),    \* the length of the chunks of a block of n bytes
  BufferSize(_),     \* the size of the buffer for it
  TooLong(_, _)      \* a size of a chunk of it that the decoder refuses

FlushBits == FlushBytes * ByteBits
KeepBits == KeepBytes * ByteBits
Keep == 2 ^ KeepBits
ENTROPY_TOP == 2 ^ (FlushBits + KeepBits) - 1

(* The part of the interval that stands for a 1. *)
Split(st) == (((st.high - st.low) \div 2 ^ (PredBits - 8)) * Get(st.model)) \div 2 ^ 8

(* Both ends agree above what is kept: flush, and read. *)
Agree(st) == st.low \div Keep = st.high \div Keep
Moved(x, low) == (x % Keep) * 2 ^ FlushBits + low

(* EncodeBit, with flush.  The first bits of the interval go to buffer. *)
EncodeBit(st, bit) ==
  LET next == [st EXCEPT !.low = IF bit = 0 THEN @ + Split(st) + 1 ELSE @,
                         !.high = IF bit = 0 THEN @ ELSE st.low + Split(st),
                         !.model = Update(@, bit)]
  IN IF Agree(next)
     THEN [next EXCEPT !.low = Moved(@, 0), !.high = Moved(@, 2 ^ FlushBits - 1),
                       !.buffer = @ \o Digits((next.high \div Keep) % 2 ^ FlushBits,
                                              FlushBytes, ByteCount)]
     ELSE next

RECURSIVE EncodeBits(_, _, _)
EncodeBits(st, bits, k) ==
  IF k > Len(bits) THEN st ELSE EncodeBits(EncodeBit(st, bits[k]), bits, k + 1)

(* What is written when a chunk ends, and when the encoder is disposed of. *)
(* Mutant: as many bits as a flush writes.                                 *)
LowFlushed(st) == WriteBits(st.low \div Keep, FlushBits)
Low(st) == WriteBits((st.low \div Keep) * Keep + Keep - 1, FlushBits + KeepBits)

(* Write, with the last bits that Dispose writes.  The chunks of a block   *)
(* have one length, the last one may be shorter; the interval goes on from *)
(* chunk to chunk.  A full buffer makes the encoder panic.                 *)
RECURSIVE EncodeChunks(_, _, _, _, _)
EncodeChunks(block, length, room, st, out) ==
  LET chunk == Slice(block, 0, Smaller(length, Len(block)))
      next == EncodeBits([st EXCEPT !.model = NewChunk(@), !.buffer = <<>>], WriteArray(chunk), 1)
  IN IF block = <<>> THEN Done(out)
     ELSE IF Len(next.buffer) > room THEN Failed
     ELSE EncodeChunks(Slice(block, Len(chunk), Len(block)), length, room, next,
                       out \o WriteVarInt(Len(next.buffer)) \o WriteArray(next.buffer)
                       \o Low(next))

Write(block) ==
  EncodeChunks(block, ChunkLength(Len(block)), BufferSize(Len(block)),
               [low |-> 0, high |-> ENTROPY_TOP, model |-> Model, buffer |-> <<>>], <<>>)

-----------------------------------------------------------------------------
(* DecodeBit, with read: the bit is the part of the interval that current  *)
(* is in.  index is the position in the buffer of the chunk.               *)
Byte4(buffer, index) ==
  Value([i \in 1 .. FlushBytes |-> IF index + i <= Len(buffer) THEN buffer[index + i] ELSE 0],
        ByteCount)

DecodeBit(st) ==
  LET bit == IF st.low + Split(st) >= st.current THEN 1 ELSE 0
      next == [st EXCEPT !.low = IF bit = 0 THEN @ + Split(st) + 1 ELSE @,
                         !.high = IF bit = 0 THEN @ ELSE st.low + Split(st),
                         !.model = Update(@, bit), !.bits = Append(@, bit)]
  IN IF Agree(next)
     THEN [next EXCEPT !.low = Moved(@, 0), !.high = Moved(@, 2 ^ FlushBits - 1),
                       !.current = Moved(@, Byte4(st.buffer, st.index)),
                       !.index = @ + FlushBytes]
     ELSE next

RECURSIVE DecodeBits(_, _)
DecodeBits(st, n) == IF n = 0 THEN st ELSE DecodeBits(DecodeBit(st), n - 1)

(* Read.  What follows the size of a chunk is its first bits, then those   *)
(* that its buffer takes in.                                               *)
RECURSIVE DecodeChunks(_, _, _, _, _, _, _)
DecodeChunks(bits, at, length, n, left, st, out) ==
  LET count == Smaller(length, left)
      size == ReadVarInt(bits, at)
      data == size.at + FlushBits + KeepBits
      chunk == [st EXCEPT !.model = NewChunk(@), !.bits = <<>>, !.index = 0,
                          !.current = ReadBits(bits, size.at, FlushBits + KeepBits),
                          !.buffer = ReadArray(bits, data, size.value)]
      next == DecodeBits(chunk, count * ByteBits)
  IN IF left = 0 THEN Decoded(out, at)
     ELSE IF TooLong(size.value, n) THEN Invalid
     ELSE DecodeChunks(bits, data + size.value * ByteBits, length, n, left - count, next,
                       out \o ReadArray(next.bits, 0, count))

Read(bits, n) ==
  DecodeChunks(bits, 0, ChunkLength(n), n, n,
               [low |-> 0, high |-> ENTROPY_TOP, model |-> Model, buffer |-> <<>>,
                current |-> 0, index |-> 0, bits |-> <<>>], <<>>)
=============================================================================
