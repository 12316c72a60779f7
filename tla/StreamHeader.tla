---------------------------- MODULE StreamHeader ----------------------------
(***************************************************************************)
(* The header of a stream: Writer.writeHeader and Reader.readHeader of     *)
(* src/v2/io/CompressedStream.go, for the version of the format that is    *)
(* written.  What the tasks of the Writer were told has to reach those of  *)
(* the Reader in fields of fixed widths.                                   *)
(***************************************************************************)
EXTENDS Transforms, EntropyCoders

CONSTANTS
  MinBlockSize,   \* the least size of a block (1024)
  MaxBlockSize,   \* the greatest one (2^30)
  SizeUnit        \* bits in a unit of the size of the input (16)

TransformCode ==
  [NONE |-> 0, BWT |-> 1, BWTS |-> 2, LZ |-> 3, RLT |-> 5, ZRLT |-> 6, MTFT |-> 7, RANK |-> 8,
   SRT |-> 13, LZP |-> 14, MM |-> 15, LZX |-> 16, UTF |-> 17, PACK |-> 18, DNA |-> 19]
CoderCode ==
  [NONE |-> 0, HUFFMAN |-> 1, FPAQ |-> 2, RANGE |-> 4, ANS0 |-> 5, CM |-> 6, ANS1 |-> 8]
ChecksumCode == 0 :> 0 @@ 32 :> 1 @@ 64 :> 2

NameOf(codes, code) == CHOOSE n \in DOMAIN codes : codes[n] = code
Known(codes, code) == \E n \in DOMAIN codes : codes[n] = code

(* The size of the input takes one to three units.  Without one it is not  *)
(* known: none was given, or it is too large.                              *)
SizeMask(n) ==
  IF n = 0 \/ n >= 2 ^ (3 * SizeUnit) THEN 0 ELSE Least({u \in 1 .. 3 : n < 2 ^ (u * SizeUnit)})

(* What the checksum of the header is computed from; equal data have equal *)
(* checksums, others different ones.                                       *)
Check(coder, type, blockSize, mask, size) ==
  <<coder, type, blockSize>> \o IF mask = 0 THEN <<>> ELSE <<size>>

(* The parameters of a Writer: checksum, coder, type, blockSize, inputSize.*)
WriteStreamHeader(p) ==
  LET mask == SizeMask(p.inputSize)
  IN [bits |-> WriteBits(ChecksumCode[p.checksum], 2)
               \o WriteBits(CoderCode[p.coder], 5)
               \o [k \in 1 .. 6 * Fields |->
                     WriteBits(TransformCode[p.type[((k - 1) \div 6) + 1]], 6)[((k - 1) % 6) + 1]]
               \o WriteBits(p.blockSize \div 16, 28)
               \o WriteBits(mask, 2)
               \o WriteBits(p.inputSize, mask * SizeUnit)
               \o WriteBits(0, 15),
      check |-> Check(p.coder, p.type, p.blockSize, mask, p.inputSize)]

(* The parameters of the Reader, where the size of the output may be       *)
(* unknown (0), or the refusal of the header.                              *)
ReadStreamHeader(h) ==
  LET coder == ReadBits(h.bits, 2, 5)
      field(k) == ReadBits(h.bits, 7 + 6 * (k - 1), 6)
      blockSize == ReadBits(h.bits, 55, 28) * 16
      mask == ReadBits(h.bits, 83, 2)
      p == [checksum |-> NameOf(ChecksumCode, ReadBits(h.bits, 0, 2)),
            coder |-> NameOf(CoderCode, coder),
            type |-> [k \in 1 .. Fields |-> NameOf(TransformCode, field(k))],
            blockSize |-> blockSize,
            inputSize |-> ReadBits(h.bits, 85, mask * SizeUnit)]
  IN IF /\ Known(ChecksumCode, ReadBits(h.bits, 0, 2))
        /\ Known(CoderCode, coder)
        /\ \A k \in 1 .. Fields : Known(TransformCode, field(k))
        /\ blockSize >= MinBlockSize /\ blockSize <= MaxBlockSize
        /\ h.check = Check(p.coder, p.type, p.blockSize, mask, p.inputSize)
     THEN [ok |-> TRUE, parameters |-> p]
     ELSE [ok |-> FALSE, parameters |-> <<>>]
=============================================================================
