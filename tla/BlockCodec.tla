----------------------------- MODULE BlockCodec -----------------------------
(***************************************************************************)
(* What an encoding task does to the bytes of a block, and a decoding task *)
(* to get them back: encodingTask.encode and decodingTask.decode of        *)
(* src/v2/io/CompressedStream.go around their turns at the shared stream   *)
(* (which are in Writer and Reader), and ByteTransformSequence.  The block *)
(* goes through the transforms, each of which may decline; the flags say   *)
(* which ones did; the result is coded behind a header.  The decoder undoes*)
(* the others in reverse order, in the buffers it has; what it knows of the*)
(* encoder comes from the header of the stream.                            *)
(***************************************************************************)
EXTENDS StreamHeader

CONSTANTS
  Requests,         \* what is asked for: see Request
  SmallBlock,       \* a block up to this size is copied (15)
  ExtraBuffer,      \* bytes a buffer of the decoder has beyond a block (512)
  MinTransformed    \* a transformed block may always be as long as that (2048)

VARIABLES
  request,   \* the request, which does not change
  header,    \* the header of the stream
  known,     \* the parameters of the Reader, as the header told them
  phase,     \* what happens next, or how it ended
  chain,     \* the transforms, and
  coder,     \* the entropy coder, of the task at work
  next,      \* the transform that comes next
  flags,     \* skipFlags: the transforms to skip, counted from 1
  data,      \* the bytes in hand: the slice in
  room,      \* the length of the buffer that the caller of the sequence gave
  stream,    \* the bits of the encoded block
  at,        \* how many of them have been read
  stages     \* history: for every transform taken, its number, what it got,
             \* what it returned and the room it had

vars == <<request, header, known, phase, chain, coder, next, flags, data, room, stream, at, stages>>

All == 1 .. Fields
Ended == {"restored", "unencoded", "refused"}
Phases == {"open", "start", "forward", "entropy", "openReader", "readHeader", "readData", "inverse"}
          \cup Ended

(* A request: the transforms and the coder by name, whether blocks that    *)
(* look incompressible are copied, the bits of the checksum, the block, the*)
(* block size of the stream, and the size of the input as it is announced. *)
Request == [names : Seq(Types \cup {None}), coder : Coders, skipBlocks : BOOLEAN,
            checksum : {0, 32, 64}, block : Seq(Byte), blockSize : Nat, inputSize : Nat]

BlockTypeOK ==
  /\ request \in Requests /\ phase \in Phases
  /\ \A k \in DOMAIN chain : chain[k] \in Types \cup {None}
  /\ coder \in Coders
  /\ next \in 0 .. Fields + 1 /\ flags \subseteq All
  /\ \A k \in DOMAIN data : data[k] \in Byte
  /\ room \in Nat /\ at \in Nat
  /\ \A k \in DOMAIN stream : stream[k] \in {0, 1}
  /\ \A k \in DOMAIN stages : stages[k].number \in DOMAIN chain

Init ==
  /\ request \in Requests
  /\ phase = "open" /\ header = <<>> /\ known = <<>>
  /\ chain = <<>> /\ coder = "NONE" /\ next = 1 /\ flags = All
  /\ data = request.block /\ room = 0
  /\ stream = <<>> /\ at = 0 /\ stages = <<>>

-----------------------------------------------------------------------------
(* The encoder.  The first block makes the Writer write the header, from   *)
(* what it was created with.                                               *)
Parameters ==
  [checksum |-> request.checksum, coder |-> request.coder, type |-> GetType(request.names),
   blockSize |-> request.blockSize, inputSize |-> request.inputSize]

Open ==
  /\ phase = "open"
  /\ header' = WriteStreamHeader(Parameters)
  /\ phase' = "start"
  /\ UNCHANGED <<request, known, chain, coder, next, flags, data, room, stream, at, stages>>

(* A small block is copied, with skipBlocks one that is      *)
(* already compressed by its first bytes or its entropy.  The buffer of    *)
(* the task has the required size, or that of a full block before.         *)
MustCopy == Len(request.block) <= SmallBlock
MayCopy == MustCopy \/ request.skipBlocks

Start ==
  /\ phase = "start"
  /\ \E copy \in BOOLEAN :
       /\ MustCopy => copy
       /\ copy => MayCopy
       /\ LET c == New(GetType(IF copy THEN <<None>> ELSE request.names))
          IN /\ chain' = c
             /\ \E n \in {Len(data), request.blockSize} : room' = MaxEncodedLen(c, n)
       /\ coder' = IF copy THEN "NONE" ELSE request.coder
       /\ phase' = "forward"
       \* The mode byte so far
       /\ stream' = IF copy THEN <<1>> ELSE <<0>>
  /\ next' = 1 /\ flags' = All
  /\ UNCHANGED <<request, header, known, data, at, stages>>

(* The buffers are swapped after every transform that is taken; the second *)
(* one is that of the block, cut or extended to the required size.  The    *)
(* checks behind the loop, of a destination shorter than the data, have no *)
(* action: encode passes a buffer of the required size, which is at least  *)
(* the length of the block.                                                *)
Even(n) == n % 2 = 0
ForwardRoom ==
  IF Even(Len(stages)) THEN room ELSE MaxEncodedLen(chain, Len(request.block))

Decline ==
  /\ phase = "forward" /\ next <= Len(chain)
  /\ \E o \in Forwards(chain[next], data, ForwardRoom) : ~o.ok
  /\ next' = next + 1
  /\ UNCHANGED <<request, header, known, phase, chain, coder, flags, data, room, stream, at, stages>>

Take ==
  /\ phase = "forward" /\ next <= Len(chain)
  /\ \E o \in Forwards(chain[next], data, ForwardRoom) :
       /\ o.ok
       /\ data' = o.out
       /\ stages' = Append(stages, [number |-> next, before |-> data, after |-> o.out,
                                    room |-> ForwardRoom])
  /\ flags' = flags \ {next}
  /\ next' = next + 1
  /\ UNCHANGED <<request, header, known, phase, chain, coder, room, stream, at>>

(* The header: the mode, with the size of the size and the flags, which    *)
(* have a byte of their own when there are more than four transforms; the  *)
(* size.  The checksum behind it is not among the bits: see Matches.       *)
DataSize(n) == IF n >= ByteCount THEN (Log2(n) \div ByteBits) + 1 ELSE 1
FlagBits(last) == [k \in 1 .. last |-> IF k \in flags THEN 1 ELSE 0]
Copied == stream[1] = 1
InMode == Copied \/ Len(chain) <= 4

Header(n) ==
  stream \o WriteBits(DataSize(n) - 1, 2)
         \o (IF InMode THEN <<0>> \o FlagBits(4) ELSE <<1, 0, 0, 0, 0>> \o FlagBits(Fields))
         \o WriteBits(n, ByteBits * DataSize(n))

WriteHeader ==
  /\ phase = "forward" /\ next > Len(chain)
  /\ IF DataSize(Len(data)) > 4
     THEN phase' = "unencoded" /\ UNCHANGED stream
     ELSE phase' = "entropy" /\ stream' = Header(Len(data))
  /\ UNCHANGED <<request, header, known, chain, coder, next, flags, data, room, at, stages>>

WriteData ==
  /\ phase = "entropy"
  /\ \E o \in {WriteWith(coder, data)} :
       IF o.ok THEN phase' = "openReader" /\ stream' = stream \o o.out
       ELSE phase' = "unencoded" /\ UNCHANGED stream
  /\ UNCHANGED <<request, header, known, chain, coder, next, flags, data, room, at, stages>>

-----------------------------------------------------------------------------
(* The decoder, which knows the bits and what the header of the stream     *)
(* says: the transforms, the coder, the size of the blocks.                *)
OpenReader ==
  /\ phase = "openReader"
  /\ LET h == ReadStreamHeader(header)
     IN known' = h.parameters /\ phase' = IF h.ok THEN "readHeader" ELSE "refused"
  /\ UNCHANGED <<request, header, chain, coder, next, flags, data, room, stream, at, stages>>

(* Mutant: no more than the block.                                         *)
PaddedNever == 0
Padded == Larger(ExtraBuffer, known.blockSize \div 16)
BlockLength == known.blockSize + Padded
MaxTransformed == Larger(BlockLength + BlockLength \div 2, MinTransformed)

SizeAt == IF Bit(stream, 0) = 0 /\ Bit(stream, 3) = 1 THEN 8 + Fields ELSE 8
SizeBits == (1 + ReadBits(stream, 1, 2)) * ByteBits
PreTransformLength == ReadBits(stream, SizeAt, SizeBits)
(* Mutant: the flags start with the mark of those in a byte of their own.  *)
DecodedFlagsEarly ==
  IF Bit(stream, 0) = 1 THEN {}
  ELSE IF Bit(stream, 3) = 1 THEN {k \in All : Bit(stream, 8 + k - 1) = 1}
  ELSE {k \in 1 .. 4 : Bit(stream, 3 + k - 1) = 1} \cup 5 .. Fields
DecodedFlags ==
  IF Bit(stream, 0) = 1 THEN {}
  ELSE IF Bit(stream, 3) = 1 THEN {k \in All : Bit(stream, 8 + k - 1) = 1}
  ELSE {k \in 1 .. 4 : Bit(stream, 4 + k - 1) = 1} \cup 5 .. Fields

ReadHeader ==
  /\ phase = "readHeader"
  /\ LET copy == Bit(stream, 0) = 1
         n == PreTransformLength
     IN /\ chain' = New(IF copy THEN GetType(<<None>>) ELSE known.type)
        /\ coder' = IF copy THEN "NONE" ELSE known.coder
        /\ flags' = DecodedFlags
        /\ at' = SizeAt + SizeBits
        /\ IF n = 0 \/ n > MaxTransformed THEN phase' = "refused" /\ UNCHANGED next
           ELSE phase' = "readData" /\ next' = Len(chain')
        \* The buffer holds the encoded block first, then the decoded one
        /\ room' = Larger(BlockLength, (Len(stream) + ByteBits - 1) \div ByteBits)
        /\ data' = [k \in 1 .. n |-> 0]
  /\ UNCHANGED <<request, header, known, stream, stages>>

ReadData ==
  /\ phase = "readData"
  /\ \E r \in {ReadWith(coder, SubSeq(stream, at + 1, Len(stream)), Len(data))} :
        /\ phase' = IF r.ok THEN "inverse" ELSE "refused"
        /\ data' = IF r.ok THEN r.out ELSE data
        /\ at' = at + r.at
  /\ UNCHANGED <<request, header, known, chain, coder, next, flags, room, stream, stages>>

(* The buffers are swapped here too; the second one is that of the coded   *)
(* bytes, which may be longer than the first.  (When all is skipped the    *)
(* copy is cut at the end of the destination, which has the length of a    *)
(* full block at least, and the data then are those of the block.)         *)
Undone == Cardinality({k \in next + 1 .. Len(chain) : k \notin flags})
InverseRoom == IF Even(Undone) THEN room ELSE Larger(room, PreTransformLength)

Skip ==
  /\ phase = "inverse" /\ next >= 1 /\ next \in flags
  /\ next' = next - 1
  /\ UNCHANGED <<request, header, known, phase, chain, coder, flags, data, room, stream, at, stages>>

Undo ==
  /\ phase = "inverse" /\ next >= 1 /\ next \notin flags
  /\ \E o \in Inverses(chain[next], data, InverseRoom) :
       IF o.ok THEN data' = o.out /\ next' = next - 1 /\ UNCHANGED phase
       ELSE phase' = "refused" /\ UNCHANGED <<data, next>>
  /\ UNCHANGED <<request, header, known, chain, coder, flags, room, stream, at, stages>>

(* The end: the block fits, and its checksum is that of the encoder, which *)
(* tells all blocks apart here; the Reader refuses one that is too long.   *)
Matches == known.checksum # 0 => data = request.block

Finish ==
  /\ phase = "inverse" /\ next = 0
  /\ phase' = IF Len(data) <= Smaller(room, known.blockSize) /\ Matches
              THEN "restored" ELSE "refused"
  /\ UNCHANGED <<request, header, known, chain, coder, next, flags, data, room, stream, at, stages>>

Next ==
  \/ Open \/ Start \/ Decline \/ Take \/ WriteHeader \/ WriteData
  \/ OpenReader \/ ReadHeader \/ ReadData \/ Skip \/ Undo \/ Finish

Spec == Init /\ [][Next]_vars

-----------------------------------------------------------------------------
(* What comes back is the block that went in, whatever the transforms,     *)
(* their order, the coder and the buffers (decode verifies it only if      *)
(* there is a checksum).                                                   *)
Restored == phase = "restored" => data = request.block

(* Every block can be encoded, and what was encoded is never refused: no   *)
(* size, index or buffer that the encoder accepts is too much for the      *)
(* decoder.                                                                *)
Accepted == phase \notin {"unencoded", "refused"}

(* The decoder works with the parameters of the encoder, a size of the     *)
(* input that is too large for the header apart.  It undoes the transforms *)
(* the encoder took, and only them, in reverse order: before every step it *)
(* has in hand what the encoder had behind the same one.                   *)
Mirrored ==
  phase = "inverse" =>
    /\ known = [Parameters EXCEPT !.inputSize = IF @ < 2 ^ (3 * SizeUnit) THEN @ ELSE 0]
    /\ {stages[k].number : k \in DOMAIN stages} = DOMAIN chain \ flags
    /\ LET left == {k \in DOMAIN stages : stages[k].number <= next}
       IN data = IF left = {} THEN request.block ELSE stages[Greatest(left)].after

(* A transform that does not decline has written within the buffer it was  *)
(* given, and within the length it announced (an index out of range ends   *)
(* the encoding of the block, and a longer one that of the next transform).*)
FitsRoom ==
  \A k \in DOMAIN stages :
    Len(stages[k].after) <= Smaller(stages[k].room,
                                    MaxEncodedLenOf(chain[stages[k].number], Len(stages[k].before)))

(* A decoder reads the bits the encoder wrote, all of them and none        *)
(* behind: beyond the last byte the local bitstream of the task panics.    *)
ReadsWhatWasWritten == phase \in {"inverse", "restored"} => at = Len(stream)

(* The frequencies the range and the ANS coder use add up to their scale,  *)
(* for any scale, and leave out no symbol of the block: one without a      *)
(* frequency cannot be coded, and the decoder finds its symbols in sums.   *)
FrequenciesAddUp ==
  phase = "entropy" => \A lr \in ByteBits .. ByteBits + 2 : Adjusted(data, 2 ^ lr)

(* Huffman codes stay within the longest size that the table of the        *)
(* decoder has, however the frequencies are skewed, and none begins        *)
(* another one.                                                            *)
CodesAreDecodable == phase = "entropy" /\ coder = "HUFFMAN" => Decodable(data)
=============================================================================
