--------------------------------- MODULE CM ---------------------------------
(***************************************************************************)
(* The context model (src/v2/entropy/CMPredictor.go) that the binary coder *)
(* (BinaryEntropyCodec.go) asks for the probability of the next bit.       *)
(* Counters are kept for the bits already known of a byte: one alone, one  *)
(* with the byte before it, and a correction of their mean, apart for the  *)
(* bytes that follow two equal ones.                                       *)
(***************************************************************************)
EXTENDS EntropyUtils

CONSTANTS
  FlushBytes, KeepBytes,  \* of the interval (4, 3)
  MinLength,              \* the length of the chunk of a shorter block (64)
  MaxChunk,               \* a longer block has several chunks (64 MB)
  ChunkShift,             \* 8 of them; twice as many from 8 times MaxChunk on (3)
  RoomShift               \* the buffer is larger by 1 / 2 ^ RoomShift (3)

PScale == 65536
Slots == 16

(* counter1[ctx] has a counter for every byte before, at its end one for   *)
(* all; counter2[run][ctx] one for every slot of the mean, and one more.   *)
Model ==
  [counter1 |-> <<>> \o [c \in 1 .. ByteCount - 1 |->
                  <<>> \o [j \in 1 .. ByteCount + 1 |-> PScale \div 2]],
   counter2 |-> <<>> \o [r \in 1 .. 2 |-> <<>> \o [c \in 1 .. ByteCount - 1 |->
                  <<>> \o [j \in 1 .. Slots + 1 |-> Smaller((j - 1) * (PScale \div Slots), PScale - 1)]]],
   ctx |-> 1, c1 |-> 0, c2 |-> 0, run |-> 1]

(* The mean of the counters, and its slot. *)
Mean(m) ==
  LET pc1 == m.counter1[m.ctx]
  IN (13 * (pc1[ByteCount + 1] + pc1[m.c1 + 1]) + 6 * pc1[m.c2 + 1]) \div 32
Slot(m) == Mean(m) \div (PScale \div Slots)

Get(m) ==
  LET pc2 == m.counter2[m.run][m.ctx]
      x1 == pc2[Slot(m) + 1]
      x2 == pc2[Slot(m) + 2]
  IN (2 * Mean(m) + 3 * (x1 + x2) + 64) \div 128

Adapted(p, bit, rate) ==
  IF bit = 0 THEN p - (p \div 2 ^ rate) ELSE p - ((p - PScale + 16) \div 2 ^ rate)

Update(m, bit) ==
  LET slot == Slot(m)
      ctx == 2 * m.ctx + bit
      pc1 == [m.counter1[m.ctx] EXCEPT ![ByteCount + 1] = Adapted(@, bit, 2)]
      pc2 == m.counter2[m.run][m.ctx]
      next == [m EXCEPT
        !.counter1[m.ctx] = [pc1 EXCEPT ![m.c1 + 1] = Adapted(@, bit, 4)],
        !.counter2[m.run][m.ctx] = [pc2 EXCEPT ![slot + 1] = Adapted(@, bit, 6),
                                               ![slot + 2] = Adapted(@, bit, 6)],
        !.ctx = ctx]
      byte == ctx - ByteCount
  IN IF ctx < ByteCount THEN next
     ELSE [next EXCEPT !.ctx = 1, !.c2 = m.c1, !.c1 = byte,
                       !.run = IF byte = m.c1 THEN 2 ELSE 1]

NewChunk(m) == m

(* The length of the chunks of a block of n bytes. *)
ChunkLength(n) ==
  IF n < MinLength THEN MinLength
  ELSE IF n < MaxChunk THEN n
  ELSE IF n < 8 * MaxChunk THEN n \div 2 ^ ChunkShift ELSE n \div 2 ^ (ChunkShift + 1)

BufferSize(n) == ChunkLength(n) + ChunkLength(n) \div 2 ^ RoomShift
TooLong(size, n) == size > BufferSize(n)

Coder == INSTANCE BinaryEntropy WITH PredBits <- 12

Write(block) == Coder!Write(block)
Read(bits, n) == Coder!Read(bits, n)
=============================================================================
