-------------------------------- MODULE FPAQ --------------------------------
(***************************************************************************)
(* The fast PAQ coder (src/v2/entropy/FPAQCodec.go): a probability for the *)
(* bits already known of a byte, in four sets, one per value of the first  *)
(* two bits of the byte before.                                            *)
(***************************************************************************)
EXTENDS EntropyUtils

CONSTANTS
  FlushBytes, KeepBytes,  \* of the interval (4, 3)
  ChunkSize,              \* _FPAQ_DEFAULT_CHUNK_SIZE (4 MB)
  RoomShift               \* the buffer is larger by 1 / 2 ^ RoomShift (3)

PScale == 65536

(* The model: its probabilities, the set and the context in it. *)
Model == [probs |-> <<>> \o [i \in 1 .. 4 |-> <<>> \o [j \in 1 .. ByteCount |-> PScale \div 2]],
          set |-> 1, ctx |-> 1]

Get(m) == m.probs[m.set][m.ctx]

Adapted(p, bit) == IF bit = 0 THEN p - (p \div 64) ELSE p - ((p - PScale + 64) \div 64)

Update(m, bit) ==
  LET ctx == 2 * m.ctx + bit
      byte == ctx - ByteCount
      probs == [m.probs EXCEPT ![m.set] = [@ EXCEPT ![m.ctx] = Adapted(@, bit)]]
  IN IF ctx < ByteCount THEN [probs |-> probs, set |-> m.set, ctx |-> ctx]
     ELSE [probs |-> probs, set |-> (byte \div (ByteCount \div 4)) + 1, ctx |-> 1]

NewChunk(m) == [m EXCEPT !.set = 1, !.ctx = 1]

ChunkLength(n) == ChunkSize
BufferSize(n) == LET c == Smaller(ChunkSize, n) IN c + c \div 2 ^ RoomShift
TooLong(size, n) == size >= 2 * n

Coder == INSTANCE BinaryEntropy WITH PredBits <- 16

Write(block) == Coder!Write(block)
Read(bits, n) == Coder!Read(bits, n)
=============================================================================
