--------------------------- MODULE EntropyCoders ---------------------------
(***************************************************************************)
(* The entropy coders by their types (EntropyCodecFactory.go), each an     *)
(* instance of its module with limits scaled to bytes of four bits.  A     *)
(* block of some dozen bytes has several chunks, its Huffman codes reach   *)
(* the longest size, and its frequencies have to be adjusted.              *)
(***************************************************************************)
EXTENDS EntropyUtils

HuffmanCode == INSTANCE Huffman WITH MaxSymbolSize <- 4, Levels <- 2, ChunkSize <- 40, NormalScale <- 16
ANS == INSTANCE ANSRange WITH WordBits <- 8, LogRange <- 5, RawSize <- 3, ChunkSize <- 12, ChunkSize1 <- 24
Ranges == INSTANCE RangeCoder WITH RangeBits <- 22, MoveBits <- 10, BottomBits <- 6, LogRange <- 6,
                                   ChunkSize <- 40
Adaptive == INSTANCE FPAQ WITH FlushBytes <- 3, KeepBytes <- 2, ChunkSize <- 12, RoomShift <- 0
Mixing == INSTANCE CM WITH FlushBytes <- 3, KeepBytes <- 2, MinLength <- 8, MaxChunk <- 16,
                           ChunkShift <- 1, RoomShift <- 0

Coders == {"NONE", "HUFFMAN", "ANS0", "ANS1", "RANGE", "FPAQ", "CM"}

(* NewEntropyEncoder and the Write and Dispose of the encoder. *)
WriteWith(coder, block) ==
  CASE coder = "HUFFMAN" -> HuffmanCode!Write(block)
    [] coder = "ANS0" -> ANS!Write(0, block)
    [] coder = "ANS1" -> ANS!Write(1, block)
    [] coder = "RANGE" -> Ranges!Write(block)
    [] coder = "FPAQ" -> Adaptive!Write(block)
    [] coder = "CM" -> Mixing!Write(block)
    [] coder = "NONE" -> NullWrite(block)

(* NewEntropyDecoder and the Read of the decoder. *)
ReadWith(coder, bits, n) ==
  CASE coder = "HUFFMAN" -> HuffmanCode!Read(bits, n)
    [] coder = "ANS0" -> ANS!Read(0, bits, n)
    [] coder = "ANS1" -> ANS!Read(1, bits, n)
    [] coder = "RANGE" -> Ranges!Read(bits, n)
    [] coder = "FPAQ" -> Adaptive!Read(bits, n)
    [] coder = "CM" -> Mixing!Read(bits, n)
    [] coder = "NONE" -> NullRead(bits, n)

-----------------------------------------------------------------------------
(* What the coders rest on, for the statistics of a block.  Frequencies    *)
(* are adjusted to any scale: they add up to it, and no symbol that occurs *)
(* is left without one.                                                    *)
Adjusted(block, scale) ==
  LET all == Histogram(block)
      f == <<>> \o [k \in 1 .. ByteCount |-> all[k - 1]]
      g == NormalizeFrequencies(f, Len(block), scale)
  IN Sum(g) = scale /\ \A k \in DOMAIN f : g[k] = 0 <=> f[k] = 0

(* The Huffman codes of a chunk are not too long, and none is the beginning *)
(* of another one.                                                         *)
Decodable(chunk) ==
  LET code == HuffmanCode!CodeSizes(HuffmanCode!Frequencies(chunk))
      sizes == code.sizes
      codes == HuffmanCode!Codes(sizes)
      beginning(s, t) == codes[t] \div 2 ^ (sizes[t] - sizes[s])
  IN code.panic \/
     /\ \A s \in DOMAIN sizes : sizes[s] \in 1 .. 4 /\ codes[s] < 2 ^ sizes[s]
     /\ \A s, t \in DOMAIN sizes :
          s # t /\ sizes[s] <= sizes[t] => beginning(s, t) # codes[s]
=============================================================================
