# TLA+ models and proofs for kanzi-go

kanzi-go is a block based lossless compressor: a library (`v2/io`, `v2/bitstream`,
`v2/transform`, `v2/entropy`, `v2/hash`) and a command line program (`v2/app`).
This directory holds TLA+ modules translated from its Go source, the TLC
configurations that check them and the TLAPS proofs about them.  `PROJECT.json`
says which lines of the source each definition stands for, and which plausible
bug each property was seen to catch.

## 1. The system

| component | state | operations | talks to | hard behaviour |
|---|---|---|---|---|
| compressing stream, `Writer` (`v2/io/CompressedStream.go`) | buffers of input, `available`, `blockID`, `closed`, `initialized` | `Write`, `Close`; `processBlock`, one `encodingTask.encode` per block | its client; an `OutputBitStream` shared by the tasks; transforms and entropy encoders | goroutines take turns through one atomic counter; cancellation; what happens after an error |
| decompressing stream, `Reader` (same file) | decoded buffers, `available`, `consumed`, `blockID` | `Read`, `Close`; `processBlock`, one `decodingTask.decode` per block | its client; an `InputBitStream` shared by the tasks | the same counter, stored as soon as a block was read; end mark, error and cancellation at once; blocks skipped by from/to |
| output and input bitstreams (`v2/bitstream/Default*BitStream.go`) | a word `current`, a buffer, counters | `WriteBit(s)`, `WriteArray`, `Close`; `ReadBit(s)`, `ReadArray`, `HasMoreToRead`, `Close` | an `io.Writer`, an `io.Reader` | alignments, buffer limits, failed or short I/O, a failed `Close` that is tried again |
| worker pool (`v2/app/BlockCompressor.go`, `BlockDecompressor.go`) | three channels | `Compress`/`Decompress`, `fileCompressWorker`/`fileDecompressWorker` | one task per file; `main` (`Kanzi.go`) exits with its code | channels closed while workers run; panics end the process |
| file tasks (`fileCompressTask.call`, `fileDecompressTask.call`) | the input and output files, deferred `Close` calls | one call per file | the file system, the two streams | any step may fail, the process may be killed, the input may be removed or overwritten |
| header and parameters | fields of the stream | `writeHeader`, `readHeader`, the constructors | the streams | refused headers, headerless streams, sizes at the limit of a field |
| blocks (`encodingTask.encode`, `decodingTask.decode`, `v2/transform/Sequence.go`, `Factory.go`) | two buffers that are swapped, skip flags, the block header | the chain of transforms, the entropy coder, and back | one task, one block each | transforms that decline; buffers that are cut or reused; what the encoder accepts must fit the decoder |
| transforms (`v2/transform`) | tables, per block | `Forward`, `Inverse`, `MaxEncodedLen` | the sequence | inverse = identity; ends of blocks, escapes, sizes at the limit of a byte; parallel inverse of the BWT |
| entropy codecs and predictors (`v2/entropy`) | frequencies, codes, ranges, states | `Write`, `Read` | the tasks, a bitstream | encoder and decoder in step; arithmetic at the limits of a width; chunks |
| hashes (`v2/hash`) | - | `Hash` | the tasks | - |
| command line, info printer, events, debug bitstreams | options | parsing, printing | - | - |

What makes each of them correct:

* **Writer**: the bitstream gets the header, the blocks of the input in order,
  each once and whole, and the end mark; two goroutines never write to it at the
  same time; every call returns.
* **Reader**: the client gets exactly the units it asked for, in order;
  `io.EOF` never hides a missing part; every call returns.
* **Bitstreams**: what is written is read back, bit for bit, whatever calls it is
  cut into; the counters are exact.
* **Pool**: every file is processed by exactly one worker, the process ends, and
  its exit status 0 is true.
* **File tasks**: the user's data exist at any time in at least one of the two
  files, unless the user asked for an output that keeps nothing; code 0 means that the
  output is complete.
* **Blocks and codecs**: decoding is the inverse of encoding for every chain,
  every transform that declines and every coder; what was encoded is never refused.

## 2. The modules

| module | models | how |
|---|---|---|
| `Writer` | `Writer`, `encodingTask` | one action per step another goroutine can see |
| `BlockLog` | the abstract promise of a compressing stream | `Accept`, `Commit`, `BeginClose`, `EndClose`, `Fail` |
| `WriterRefinement` | Writer implements BlockLog | a refinement mapping and `Log!Spec` as a property |
| `WriterProofs` | theorems about the turns of the Writer, what it writes, and that it implements BlockLog | TLAPS |
| `Reader`, `MCReader` | `Reader`, `decodingTask`; the contexts TLC uses | as Writer |
| `Words` | Go's shifts and `|` on words of any width | operators |
| `OutputBits`, `InputBits` | the default bitstreams | one action per call, and per turn of the loops that do I/O |
| `BitPipe` | what `OutputBits` wrote, read by an `InputBits` | `INSTANCE InputBits WITH source <- sink, ...` |
| `WorkerPool` | `main`, `Compress`, the workers | one action per channel operation |
| `FileCompress`, `FileDecompress` | the `call` of one file | one action per system or stream call |
| `FileRoundTrip` | the two, one after the other, on the same file | `INSTANCE FileDecompress WITH size <- emitted, ...` |
| `ReaderProofs` | theorems about the turns of the Reader, and about what it hands out | TLAPS |
| `WordsProofs` | lemmas about bits, bytes, words and sequences of bits | TLAPS |
| `OutputBitsProofs`, `InputBitsProofs`, `BitPipeProofs` | theorems about each bitstream, and about the two together | TLAPS |
| `FileProofs`, `PoolProofs` | theorems about files, a compression and the decompression that follows, and the pool | TLAPS |
| `BlockCodec`, `MCBlockCodec` | a block through the chain and the coder, and back; the blocks TLC uses | one action per transform, header and coder |
| `StreamHeader` | `writeHeader`, `readHeader` | a record of bits, and its reading |
| `Transforms` | the factory and the sequence | each transform an `INSTANCE` with scaled limits |
| `RLT`, `ZRLT`, `SBRT`, `SRT`, `FSD`, `Alias`, `UTF`, `BWT`, `BWTS`, `LZX`, `LZP` | the transforms | `Forwards`: the set of what `Forward` may return; `Inverse` |
| `EntropyCoders` | the factory of the entropy coders | each coder an `INSTANCE` with scaled widths |
| `EntropyUtils`, `Frequencies`, `Huffman`, `ANSRange`, `RangeCoder`, `BinaryEntropy`, `FPAQ`, `CM` | alphabets, Exp-Golomb, VarInts, normalised frequencies, the coders, the predictors | operators on bits |
| `Bytes` | bytes, slices, `ComputeHistogram`, `ComputeJobsPerTask` | operators |

### Writer

A unit of input is the number of its position, so a buffer or a block on the
bitstream says which data it holds; `obs` is the sequence of items written:
header, size and data of each block, end mark.  `mainPc` is where the caller's
goroutine is (`fill`: the loop of `Write`; `process`, `batch`: `processBlock`;
`finish`: the end of `Close`), `pc[t]` where the task `t` of the batch is.
`AwaitTurn` is the loop that loads `processedBlockID`; `CheckTurn` and
`StoreTurn` are the load and the store of the deferred function - two steps,
because that is what the code does - and `Cancel` is its other branch.
`Encode` is everything a task does on its own (checksum, transforms, entropy
coder, all in private buffers): it succeeds or fails (`"encode"`).  The faults
`"emit"`, `"end"` and `"flush"` are those of the shared bitstream.

### Reader

The compressed stream is a sequence of blocks that are good, undecodable
(`bad`), have a wrong checksum (`crc`), or decode to too much (`big`), and that
ends with its end mark, between two blocks (`cut`) or inside one (`torn`).  Units
with a wrong checksum carry a minus sign.  `ReadSize` and `ReadData` are the
accesses to the shared bitstream, `PassTurn` the unconditional store behind
them, `Decode` what a task does on its own, `Defer` the deferred function.
`SkipResult`, `KeepResult` and `FailBatch` are one turn each of the loop over the
results behind `wg.Wait()`, with the copying down of blocks behind skipped ones;
`EndBatch` is what follows the loop.  `result`, `kept` and `sum` are its locals: the
next result, the `n` and the `decoded` of the code.  The variable `ctx` is how the stream was opened: the constructor,
from/to, and the number of blocks the header announces.

### Bitstreams

A bit is the number of its position in the stream.  `Words` defines shifts and
OR on such words; OR-ing two different bits yields `Clash`, so overlapping
writes show.  `OutputBits` and `InputBits` follow the Go functions loop by
loop: `FillWord`, `CopyBytes`, `QuadWords`, `SingleWords`, `TailBits` are the
loops of `WriteArray`.  The width of bytes and words is a constant; the code's
8 x 8 becomes 2 x 2, which keeps every alignment class (aligned word, aligned
byte, inside a byte) and every path.

Two constants add what few clients meet.  `ShortArrays`: an array of `WriteArray` may end
less than 8 bytes behind its last bit, and `TailBits`, which takes a slice of 8 bytes,
panics.  `ReadErrors`: the `io.Reader` may return an error, alone or with the last bytes
it has; `RefillFails` is what `readFromInputStream` makes of it - a panic, although bytes
came - and `ioError` remembers it.

### Pool and file tasks

`WorkerPool` has the channels with their capacities and the rules of Go: a
receive from a closed channel returns at once, a send on one panics, a panic in
any goroutine ends the process.  `FileCompress` and `FileDecompress` have one
file each; the stream they use is abstracted to what the checks of `Writer` and
`Reader` establish: it accepts units, emits them in order, and may fail at any
call.  A `Write` that fails drops what it has buffered, and the deferred `Close` may still
put an end mark behind the blocks that are there: a shorter stream that can be read.
Deferred `Close` calls of a return are actions of their own, since a crash may fall
between them.

The name of the output stands for one of seven things: nothing yet, another file, the
input by its own name or by another one (`same`, `alias`), the null device, `STDOUT` and
`NONE`.  The last two pass no guard and are not closed, but `remove` deletes the
input all the same.  The decompression reads whatever the compression left, damaged at any
place if `"corrupt"` may happen, and `cis.Close` is a step between the loop and the check
of the size.

### Blocks and codecs

A `request` is what a Writer is created with and one block.  `Open` writes the
header of the stream and `OpenReader` reads it: from there on the decoder uses what
it has read (`known`) and the bits (`stream`), never the request.  `Take` and
`Decline` are one turn of the loop of `ByteTransformSequence.Forward`, `Undo` and
`Skip` one of `Inverse`; `data` is the slice in hand, `room` the length of the
buffer for the next step, with the rules by which the code swaps, cuts and extends
its two buffers.  `stages` remembers what every transform that was taken got and
returned.

A transform is a pure function of its input and the room it has, except where the
detected type of the data matters (`DetectSimpleType`, magic numbers, text
statistics): the detector is a heuristic that must not matter for correctness, so
`Forwards` is a set, with the outcome for every verdict.  `Inverses` of the BWT is a
set too: its parallel tasks may write the byte where two chunks meet in either order.
An index out of range is the outcome `Failed`, as the panic ends in the same error of
the task; a panic nobody recovers is `panic`.

The code's limits are scaled so that short blocks reach them: bytes have 4 bits
(`ByteBits`), so that an alphabet has 16 symbols, a size class ends at 16, 256 and
4096, and escapes, run lengths, far distances and full tables happen in blocks of a
few dozen bytes.  `Transforms` and `EntropyCoders` give every module its scaled
limits, with the value of the code in the comment of the constant.  A relation between
two limits that the code relies on (the longest Huffman code and its table, the
bytes kept out of matches and the header, the scale of frequencies and the range) is
kept; the rest is free.

## 3. The runs

All runs use two TLC workers; `block_codec` takes about a minute, the others less
than half of one.

| run | question | bounds, and why they are enough |
|---|---|---|
| `writer_order` | do order, exclusion, completeness, termination and the refinement hold while the shared bitstream may fail? | 3 jobs, blocks of 2 units, 12 units: two full batches or one and a partial one, calls of any length, so every position of a chunk in a block and a buffer. The client only closes after an error |
| `writer_retry` | and with encoders that fail, and a client that goes on after errors: what may a turn that is stored over a cancellation cover up, and does every call return? | 2 jobs, blocks of 3, a size hint; with two jobs a task waits for at most one other |
| `reader_order` | are the right units delivered, from damaged or cut streams, with ranges, without a header, and to a client that reads on after errors? | 3 jobs, blocks of 2, at most 4 blocks of which one damaged, reads of 3 units (never aligned with a block): a full batch and a part of the next |
| `pool` | is no file lost or done twice, does it end, is its exit status right? | 4 files, 3 workers; two that may fail, one that may panic: workers both idle and busy when the channels close |
| `round_trip` | is there a moment or a failure that loses data, or passes off a part for the whole? | up to 4 units with reads of 2: empty, partial, exactly full and several buffers; every fault at every step, kills included, in both tasks; all options and all seven outputs, for files and pipes; what a `Write` that failed left behind is decompressed too |
| `bit_pipe` | do all bits come back, are the counters right, whatever the calls and alignments, with one failure of the `io.Writer`, errors of the `io.Reader` and arrays that end too early? | bytes of 2 and words of 4 bits; buffers of 3 and 3.5 words; up to 62 bits: several flushes and refills, every path of `WriteArray` and `ReadArray` in every alignment |
| `block_codec` | does every block come back, from every transform, chain and coder, and is nothing refused that was encoded? | some 2500 requests: every transform alone on runs, cycles, ramps, single symbols and all blocks of four bytes over three symbols; matches near, repeated, overlapping and beyond the short distance; texts cut inside a symbol; eight chains, one of them with more than four transforms; every coder on alphabets of 1 to 16 symbols and on skewed frequencies that exceed the longest code; input sizes at both sides of every limit of the header |

and five that show a statement of the repository that the code does not keep
(the findings of `PROJECT.json` quote it):

| run | what TLC finds |
|---|---|
| `writer_max_jobs` | with as many jobs as allowed (64, here 3) and at least that many blocks, a batch has one task fewer than full buffers; the data left behind are overwritten by the next chunk |
| `writer_hang` | the deferred function's load and store straddle a cancellation, which is lost; with 3 jobs a task waits for ever and `Write` never returns |
| `reader_hang` | the same in the Reader, where the store does not even look; it takes 4 jobs and a damaged block |
| `array_short_read` | an unaligned `ReadArray` on a source with short reads puts bits in the wrong place |
| `utf_prefix` | a block that starts with four bytes of no UTF-8 symbol, as one cut out of a text may, comes back changed: the encoder writes 4 where the decoder reads two bits |

Because of the two hangs, `CallsReturn` is claimed of fewer goroutines or fewer
faults: of the Writer with 3 jobs when only the bitstream fails, or with 2 when
encoders fail too; of the Reader with 3.

### Properties

Besides type invariants:

* *ordering*: `OrderedPrefix`, `DeliveredIsPrefix`, `PipeInOrder`
* *exclusion*: `TurnExclusion`, `RightBlock`, `PassedOn`
* *nothing lost*: `Conservation`, `SourceKept`, `CompressedKept`, `EachFileOnce`
  (and `AckedIsKept`, which `writer_max_jobs` refutes)
* *success is true*: `ClosedIsComplete`, `EOFIsComplete`, `FileZeroIsComplete`,
  `RoundTrip`, `ExitZeroMeansAllDone`, `EndIsReal`
* *no false alarm*: `UndamagedIsRead`, `CompleteIsAccepted`, `Accepted`
* *what is decoded*: `Restored` (the block), `Mirrored` (the parameters, and the data
  before every step), `ReadsWhatWasWritten` (the bits, all and no more)
* *limits*: `FitsRoom` (buffers), `FrequenciesAddUp`, `CodesAreDecodable` (statistics),
  `WrittenIsExact` (the counter)
* *steps*: `CancelStands`; *progress*: `CallsReturn`, `Exits`; and the refinement
  `ImplementsBlockLog`.

`Restored` alone would hold for a decoder that refuses everything, `Accepted` for one
that returns anything; `Mirrored` says where two errors that cancel each other out
happened, and `FitsRoom` and `ReadsWhatWasWritten` what no comparison of blocks shows.

### Deadlock

`CHECK_DEADLOCK FALSE` in every run: a closed stream, a returned task and an
exited process have nothing left to do, and that is their normal end.  Waiting for
ever is excluded by the liveness properties of `Writer`, `Reader` and
`WorkerPool`; the other modules have no step that waits.

### Fairness

Weak fairness for the caller's goroutine inside a call and for each task or
worker: the Go scheduler runs every runnable goroutine (since Go 1.14 also
preemptively, and the waiting loops call `runtime.Gosched`).  No fairness for the
client, which may stop calling, nor for any fault, which may never happen.  No
fairness is needed for a choice inside a step: a disjunct that fails and one that
succeeds are one action.

## 4. The proofs

### Writer

`WriterProofs` proves, for every `Jobs`, `BlockSize`, `MaxConcurrency`,
`FileSize`, `MaxInput`, `Faults` and `StopOnError` that satisfy
`WriterAssumption` (jobs between 1 and the maximum; the rest naturals):

* `TypeCorrect`: `Spec => []TypeOK`.  In particular the buffer index `Write`
  computes is always that of a buffer, also in the case of `writer_max_jobs`.
* `TurnsExclude`: `Spec => []TurnExclusion`.  It holds with every fault, thus also
  in the executions in which the counter goes wrong (`writer_hang`): they lose
  progress, never exclusion.
* `CancellationStands`: `Spec => CancelStands`, whatever fails.  The code does lose
  cancellations; the theorem says which: the one case is a task that looked at the counter
  before and stores its turn over the cancellation (`StaleStore`), and then every
  block before that task's was passed on without an error, and whoever failed is behind it
  and failed before its turn.  So no failure of the shared bitstream is covered up.

Neither `TypeOK` nor `TurnExclusion` is inductive.  The invariant is

    IInv == TypeOK /\ Room /\ BatchShape /\ TurnOrder

`Room`: outside a batch a buffer has room, unless `processBlock` is about to run;
without it `Fill` could step past the last buffer.  `BatchShape`: tasks exist
exactly during a batch and below `spawned`; it makes `pc` of a batch's start known.
`TurnOrder`: all tasks before one that has the turn (`size`, `data`, `store`) are
done, and so are all tasks before the one the counter points at.  The second part is
what makes the stale `StoreTurn` harmless for exclusion: the value it puts over a
cancellation still stands for tasks that are done.

`CancellationStands` needs to know who can have failed: `FailOrder`.  A task that has the
turn, and a counter that is not cancelled, have only tasks without an error before them, also
when the counter is a stale value (`NoneFailedBefore`); a task that failed with its turn had
only tasks before it that are done (`FailedAtTurn`), so none of them can store any more; and
only a task with an error cancels (`CancelledByError`).

Each action has a lemma (`FillIInv`, ..., `CancelIInv`) that it preserves `IInv`;
the steps of tasks that do not touch the counter share one (`TaskStepShape`,
`TaskStepOrder`).  The arithmetic of indices rests on `DivMod`, `TimesMonotonic`
and `BufferInRange`.

Of what is written it proves:

* `ConservationHolds`, `ClosedComplete`: `Spec => []Conservation`,
  `Spec => []ClosedIsComplete`, with every fault and client;
* `PrefixUntilError`: `OrderedPrefix` as long as no call and no task has failed;
* `PrefixOrdered`: `Spec => []OrderedPrefix`, also while a batch breaks down, if
  only the bitstream fails (`"encode" \notin Faults`) and the client stops after an
  error.  Both hypotheses are needed: without the first TLC finds a
  counterexample from four jobs on (section 5).

All four assume `EnoughTasks`: `NbTasks = Jobs \/ MaxInput <= NbTasks * BlockSize`.
What the code computes from the size of the input satisfies it as long as the client
writes no more than it announced and the number of blocks is not cut off at
`_MAX_CONCURRENCY - 1` (`HintIsEnough`); with the cut, `Conservation` is lost, which
is the finding of `writer_max_jobs`.

    DataInv == Shape /\ Placement /\ Written /\ ClosedIsComplete

`Shape` relates the program counter of the caller to the errors, counters and
buffers.  `Placement` says where every unit of the input is: between two batches the
counter stands for the full blocks written (`Position`) and the rest is in the buffers
(`Buffered`); in a batch the tasks take up the rest of the input (`BatchInput`), each
has its block in its buffer or encoded (`BatchBlocks`), the counter divides the
tasks into those that are done and those that have not written (`Turns`), and
together with the place of the task between them it gives the number of items on the
bitstream (`ItemCount`).  So the next item is known without a look at the sequence of
items; `Written` then says of each item what it is, until an error.  `PrefixOrdered` needs
an invariant that survives errors, `NoStrayBlock`: a task that fails has the turn and keeps
it until it cancels the others, so nobody writes any more (`Broken`), and a client that
gives up leaves nothing in the buffers (`GivenUp`).  `Broken` is what the stale store
breaks when an encoder fails before its turn.

It also proves `RefinesBlockLog`: under the hypotheses of
`PrefixOrdered`, `Spec => ImplementsBlockLog`.  Each action has a lemma that says which
action of `BlockLog` it is under the mapping of `WriterRefinement`, or that it
is none.  The step that counts is `EmitData`: `Commit` needs the block to be
the next one of the input, which is `Placement`.

### Reader

`ReaderProofs` proves, under `ReaderAssumption` and for every number of jobs,
stream, way of opening it and client, `Spec => []TurnExclusion`, `[]RightBlock`
and `[]PassedOn`.  The hang of `reader_hang` is among these executions: a turn
that is stored over a cancellation makes tasks wait for ever, never read out of turn.

    IInv == TurnTypes /\ BatchShape /\ Fresh /\ TurnOrder /\ Position /\ RightBlock

`TurnOrder`: all tasks before one that has the turn, or that has its block and did
not fail, have left, and so have all tasks up to the counter.  `RightBlock` alone
says nothing of the task that reads next; it needs `Position`: the bitstream is
one block behind the counter, except while the task whose turn it is has read its
block or has failed and is about to cancel the others.  `Fresh` (a task that has not
left has neither a result nor an error) is what tells failing tasks from others in
the deferred function.

Of what is handed out it proves:

* `PrefixDelivered`, `EndIsComplete`: `Spec => []DeliveredIsPrefix` and
  `Spec => []EOFIsComplete`, under `ReaderAssumption` alone;
* `TypesHold`: `Spec => []TypeOK` for a client that stops after an error; with
  one that reads on it is false (section 5);
* `UndamagedReads`: `Spec => []UndamagedIsRead` unless a stream is opened with
  `NewHeaderlessReader`; with that constructor it is false (section 5).

Its invariant `DataInv` adds to `IInv` three groups of facts.  Of the tasks: no task is
ahead of the stream (`Ahead`); a result says what its block is (`Outcomes`) and the
buffer has its content until it is copied down (`Contents`).  Of the
cancellation: a cancelled batch has a task that gave up, and a task that waits then has
one before it (`Reasons`); the first task that gives up without an error has found
the end mark, and its cancellation is not overwritten (`EndMark`).  The last is what
makes `io.EOF` true in spite of the race of `reader_hang`.  Of the caller: what was
handed out (`Got`); between two batches it and what is available are what is
wanted of the blocks passed on (`Account`); in the loop over the results it and `sum`
are what is wanted of the blocks looked at, either all of them there or the
stream at its end (`Progress`); in both cases the buffers hold the units that follow
(`Layout`).  How many units are wanted of the first `k` blocks is `UpTo(k)`;
`SkippedAddsNothing` and `KeptAddsAll` say how it grows.  `UndamagedReads` needs
`Sound` as well: no task fails, and the block size is known once the header was read.

### Pool

`PoolProofs` proves `TypeOK` (no channel exceeds its capacity), `EachFileOnce` and
`ExitZeroMeansAllDone`, for any number of files and workers and any sets of files
that fail or panic.

    IInv == TypeOK /\ NothingYet /\ OnePlace /\ Counted /\ Stops

Main counts results; it does not look which files they are of.  That a count of
`NbFiles` means all files needs `Counted`: the counter is the cardinality of the
set of files that were started and are nowhere any more (`Collected`), which with
`OnePlace` (a file waits, is held by one worker, or has its result in the channel)
grows by exactly one file with each receive.  `Receiving` and `Sending` say what a
receive and a send do to a channel without duplicates.

### Files

`FileProofs` proves about one compression, for every size, buffer, option, kind of output
and set of faults, kills included: `TypeOK`, `SourceKept`, `FileZeroIsComplete`.  It assumes
`FileCompressAssumption` and nothing else.  The two ways in which the code does lose the
input - an output that keeps nothing, with the option to remove the input, and an output
that is another path to the input - are in the model and named in the conclusions.

`ClosedMeansComplete` - after a `Close` of the stream without an error its output is
complete and nothing is added - is the heart of the invariant.  It follows from
`NothingAmiss` (until something fails the stream has accepted what was read, and is
open) and `AllRead` (the loop over a file ends when all was read; not so over a pipe,
which is why the property speaks of files).  `OpenedFirst` says that nothing is read before
there is an output, `EmptiedByAlias` that the guard on the names holds for the input's own
name, and `RemovedLast` that the input is removed by nothing but a success.

It also proves about a compression and the decompression that follows,
whatever failed in either: `RoundTrip`, `CompressedKept`, `CompleteIsAccepted`.  The
parts of that invariant (`BothInv`): what is on the output never exceeds what was accepted and
read (`InOrder`), the compressed file does not change any more once it is read
(`OneAfterTheOther`), the decompression has no code before it returns and wrote no
more than it was asked for (`SoFar`), and it compares the size with the header's before
it removes its input or returns 0 (`Checked`).  That the header announces more than a
shorter stream holds is what refuses the leftovers of a `Write` that failed.

### Bitstreams

The proofs hold for every size of a byte and of a word (`WordsAssumption`: both
positive), so for the code's 8 bits and 8 bytes, and for every size of the buffers.
`WordsProofs` has the lemmas both streams need: `DivMod`, `WholeQuotient` and their like,
which the SMT solver does not find for a variable divisor; `BitsOfIs`, which makes
counts of bytes and of bits one; `MultipleIs`, `MultipleMinus`: what is shorter than a
number of whole words is shorter by a whole word.

`OutputBitsProofs` proves, under `OutputBitsAssumption` (a buffer of more than five whole
words; the code takes at least 1024 bytes) and for every client and every failure of the
`io.Writer`, `Spec => []TypeOK`, `[]ClosedIsComplete` and `[]WrittenIsExact`.

    IInv == Types /\ Loops /\ Aligns /\ Layout /\ Counted /\ ClosedIsComplete

`Layout` says where each accepted bit is: in the sink, behind it in the buffer up to
`position`, behind that in `current`, with zeros in the rest of the word - so that a later
OR never meets a bit.  Between the split words of an unaligned `WriteArray` the field
`availBits` does not say how full `current` is (`QuadWords` sets it to 64): `Held` takes `a`
there, and `Loops` keeps `a` between 1 and W - 1.  `Aligns`: unless a call panicked the
buffer is filled by whole words, and what was flushed are whole bytes; so the word
that `push` stores fits.  `Counted` relates `written` to the sink, before and after `Close`.
A panic stops a call wherever it is: after one that an array causes nothing is lost, so
`Counted` still holds (`Sound`), while `Layout` no longer says where the bits are.
A `Close` that failed leaves `Layout` as it was, which is why the next one is complete; it
does not leave `Counted`, which therefore is about executions without a failure.

`InputBitsProofs` proves `Spec => []TypeOK`, `[]InOrder`, `[]EndIsReal` and
`[]HasMoreIsRight` for every source, buffer and client under `Fits`:

* buffers of whole words and counts of 1 .. W, which the code enforces;
* a client of `ReadArray` has a source without short reads; otherwise `InOrder` is false
  (`array_short_read`).  A client of `ReadBit` and `ReadBits` may have any source: the
  theorems hold for short reads of any length;
* `HasMoreToRead` is not called at the last byte of a buffer; otherwise it is false too
  (section 5).

The `io.Reader` may fail (`ReadErrors`): `EndIsReal` and `HasMoreIsRight` then say nothing
of an end that an error feigned, by name (`~ioError`); `InOrder` holds regardless.

    IInv == Types /\ WholeBytes /\ Delivered /\ Loops /\ EndIsReal /\ Asked
            /\ (Open => BufferIs /\ Layout /\ WholeWords)

`BufferIs`: the unread bytes of the buffer are those of the source that lie as far before
`srcPos`.  `Layout`: what the calls got and the unread bits of `current` are exactly the
bytes that have left the buffer.  The unaligned `ReadArray` assumes that every
word it pulls is whole; that needs `WholeWords` (while the source goes on, the buffer
holds whole words: `Multiple(InBuffer)`), and it is what a short read breaks.  At the end
of the source the last word is short: `Loops` then allows `availBits` to differ from `a`, since
`OneWord` can only panic after that, rightly (`EndIsReal`).  `JoinWords` is the heart of
`OneWord` and `FourWords`: the word made of the last bits of one word and the first of the
next one.  TLC checked this invariant on the instance of `bit_pipe` before it was proved.

`BitPipeProofs` puts the two together: `PipeSpec => []PipeTypeOK`, `[]PipeInOrder` and
`[]EndIsReal`, under the same premises for the reader (`Regular`).  The reader's lemmas
are used through `IP == INSTANCE InputBitsProofs WITH source <- sink, ...`; `SameNext`
and the lemmas before it say that this instance and the `In` of `BitPipe` are the same.  The
invariant: the writer's `IInv`, and once the reading has started the writer is closed for good
(`ClosedStops`) and the reader's `IInv` holds of the sink, which `Aligns` makes whole bytes.

### Only model-checked

* Blocks, transforms and coders: their modules have recursive operators, which the
  prover does not take, and their loops need induction over data as well.
* Liveness (`CallsReturn`, `Exits`): fairness needs `ENABLED`, which
  the prover does not know.

## 5. What is left out of the models that exist

* In `Writer` and `Reader` a block "works" or "fails"; what happens to its bytes is in
  `BlockCodec`, which has one task and no failures.  Listeners and timing are left out.
* Errors nobody looks at (the `Close` of an output file) and the disk's caches
  (there is no `fsync`): a written file counts as safe.
* The `io.Writer` of `OutputBits` writes everything or nothing.
* The magic number and the version of a stream are not among the bits of
  `StreamHeader`, and its checksum is the tuple of the fields that are hashed: equal
  data have equal checksums, different data different ones.  The checksum of a block
  is likewise the block.  Streams of older versions, which the decoders still read, are
  left out of all codecs.
* The detection of a type of data is any verdict the detector may come to, not the one it
  comes to; what depends on the machine's speed or the number of cores is a constant.
* The tasks of the inverse BWT share only the bytes where their chunks meet; such a byte may
  hold the value of either task.  Other interleavings cannot be told apart.

Some statements are violated by the code where the repository promises nothing that
could be quoted.  The models contain the behaviour and the hazards list has it; the
properties are stated so as to exclude it, by name, or the blocks of the run do not
have it:

* with four jobs or more, an encoder that fails and a stale store of the deferred
  function (the race of `writer_hang`), a task behind the gap gets the turn and writes
  its block in the place of the one that is missing: `OrderedPrefix` is violated.  The
  call has failed or will fail, so no success is claimed for such a stream; `writer_order`
  and `PrefixOrdered` leave the fault `"encode"` out;
* a `Read` after an error in one batch and another in the next leaves the buffers and
  panics, since `consumed` is not reset by an error: `TypeOK` of `Reader` is violated with
  two damaged blocks, `StopOnError = FALSE` (`reader_order` has one damaged block);
* a `Read` after an error gives data of the refused block or header (`OnlyVerified`,
  `RefusedHeaderYieldsNothing` of `Reader`); a `Write` after an error reports success for
  dropped data; `Written()` counts too much after a failed `Close`;
* a stream opened with `NewHeaderlessReader` expects a header, as `ctx["headerless"]` is
  not set; `UndamagedIsRead` is violated with it;
* `HasMoreToRead`, asked when one byte is left of the source, loses it and denies it
  (`AsksAtLastByte` of `InputBits` is FALSE in the runs);
* an output that is another path to the input empties it, because names are compared
  (`alias`), and `-o none` or the null device with the option to remove the input deletes
  the only copy (`KeepsNothing`): both are in `round_trip`, and `SourceKept` and
  `CompressedKept` except them by name;
* a pipe with a short read is compressed as far as it came, with code 0
  (`ZeroIsComplete`); an output that was longer keeps its tail when it is replaced
  (`OutputIsExact` of `FileDecompress`);
* an array that ends less than 8 bytes behind its last bit makes `WriteArray` panic
  (`ShortArrays`), and bytes that come together with an error are taken for the end of
  the source (`ReadErrors`): both are in `bit_pipe`;
* exit status 0 after `NewBlockCompressor` refused its arguments; a panic instead of an
  error code when a worker sends on the closed channel;
* `UTF`: the map of symbols is not counted when the output is estimated, so a long text of
  mostly different symbols passes the limit of its buffer;
* `RLT`: at the end of a full buffer an escape symbol out of a run can be dropped;
* `Huffman`: a chunk of exactly 2048 symbols whose codes are too long panics; `ANSRange`
  of order 1: a last chunk of two or three bytes panics; both are errors of the task;
* chains of many transforms that expand a full block can be refused by the decoder.

Not reached by any bound: VarInts of 2^28 and more, and headers of `SRT` with a frequency
of 2^28 and more (blocks of that size).

## 6. Not modelled

* `ROLZ`, `TEXT`, `EXE`: transforms whose steps are decided by large static tables
  (dictionaries, opcodes) and hash chains; the hazards of their kind - escapes, limits
  of buffers, two sides in step - are those of `LZX`, `UTF` and `RLT`.
* `TPAQ`: encoder and decoder run the same deterministic function of the bits seen so far,
  as in `CM`, which is modelled; what it predicts does not matter for correctness.
* `DivSufSort`: `BWT` takes its result, the sorted suffixes, by definition.
* Hashes: only compared.
* The command line parser and help texts, events, printers, debug bitstreams: wording.
* In-memory and null streams: wrappers of library types.
* Test and benchmark programs.

## 7. The plan

Done: `Writer`, `BlockLog`, the refinement; `Reader`; the bitstreams; pool and file
tasks; the header of the stream; blocks with their chains, eleven transforms and all
entropy coders; theorems about `Writer`, its refinement of
`BlockLog`, `Reader`, `WorkerPool`, the file tasks and the bitstreams, with which all safety
properties of the runs of these modules are proved.

Left, most important first:

1. An abstract specification of the Reader (a consumer of a block log) and the
   composition of Writer and Reader on one stream.
2. Listeners (`RemoveListener`) and partial writes of the `io.Writer`.
3. The remaining transforms, ROLZ first, and the formats of older streams.
