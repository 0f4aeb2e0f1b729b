# A verification project for base91

This directory holds TLA+ models of the Rust implementation of base91
(`rust/` in the repository) and of the C tool on top of it, the TLC
configurations that check them on small instances, and theorems about them
that the TLAPS proof system checks. Paths below are relative to the
repository's root.

## 1. The system

base91 encodes bytes as text, in two formats. Henke's format packs 13 or 14
bits into two characters, according to their value. The SIMD format always
packs 13 bits into two characters, hence 13 bytes into a block of 16; it
starts with `-`, may be wrapped in lines, and is decoded strictly: the first
error of a stream, by the precedence of five rules, is reported with its
offset (`docs/specs/0008-wire-format.md`).

| Component | Source | State | Operations | What is hard |
|---|---|---|---|---|
| SIMD streaming decoder | `rust/base91/src/simd/mod.rs`, `driver.rs` (`DecodeCore`) | phase, offset, terminator, width, line counters, pending whitespace run, carried characters, probe | `decode`, `decode_slice`, `finish`, `finish_slice` | two paths that must agree; input cut anywhere; a rejected batch is read again; errors by precedence; raw-pointer stores |
| SIMD streaming encoder | `driver.rs` (`EncodeCore`) | started, column, bit queue | `encode`, `finish`, their exact lengths | line boundaries met by three different writers; exact sizes |
| Block runners and kernels | `driver.rs`, `x86.rs`, `aarch64.rs` | output buffer, stack buffer, running maxima | `encode_blocks`, `decode_blocks`, line functions | whole registers loaded and stored for 13 bytes; stores made before the answer is known; the last block; odd lines |
| SIMD one-shot calls | `mod.rs` | none | `encode`, `decode`, sizes | sizes near `usize::MAX` |
| Henke codec | `codec.rs` | bit queue, pending character | `encode`, `decode`, `finish`, `from_state` | variable groups; the pair path against the byte path; size bounds |
| `std::io` adapters | `io.rs` | codec, buffer, position, done, failed | `write`, `flush`, `finish`; `read` | `Ok(0)`, `Interrupted`, errors between chunks, short writes |
| C interface | `rust/base91-capi/src/lib.rs`, `__capi.rs` | Henke's `struct basE91` | `basE91_*`, `base91_*` | overlapping buffers, copied chunk by chunk |
| C tool | `src/src/cli.c` | one buffer, line position | encode, wrap, decode | input and output in one buffer; lines cut in place |
| Command line | `rust/base91-cli/src/main.rs` | options, buffers, status | encode, decode, wrap | defaults by name and format; partial output; the status |
| Python binding | `python.rs` | codec and buffer | `update`, `finish` | sessions of one object, errors |
| Test kit | `rust/base91-testkit/src` | none | a reference decoder, mutations | it is the oracle of the tests |
| C library, Go port | `src/src/base91.c`, `go/base91.go` | as the Henke codec | as the Henke codec | as the Henke codec |

The adapters, the command line, the C interface and the binding call the
streaming types; the streaming types call the driver's cores; a core calls the
block runners, a batch at a time; a runner calls the kernels. All calls are
synchronous, and no type is shared between threads. What interleaves is the
caller's cuts of the stream with the driver's own batches, calls with errors
and resets, stores with the checks that come after them, a call's output with
its input when they share memory, and a process with the files and pipes at
its ends, which are short, interrupted, failing or full when they like.

What makes each component correct:

* decoder: the answer of every call is that of a byte-by-byte reading of the
  stream so far, wherever it was cut; no store passes the announced room; an
  error is final; every call returns;
* encoder: the text is the canonical one however the bytes were cut, and
  every call writes exactly the length it announced;
* runners and kernels: at every level of the processor, what the scalar code
  computes; no register is loaded or stored past a buffer;
* Henke codec: the same independence of cuts, a bounded queue, output within
  the size hints, decoding after encoding gives the bytes back;
* adapters: nothing lost, nothing twice, end of file only at the end;
* C interface and tool: no output over input that is not read yet, nothing
  outside the buffer, whole lines;
* command line: status 0 means a whole and right output; whatever failed, the
  output has nothing that does not belong there;
* Python classes: no session shows in a later one.

## 2. The modules

| Module | Role |
|---|---|
| `SimdFormat` | vocabulary of the SIMD format: bytes, terminators, errors, sizes of blocks |
| `SimdOracle` | the test kit's reference decoder, as operators on a complete stream |
| `StrictDecoder` | abstract specification: what each call of a decoder answers and delivers |
| `SimdDecoder` | the detailed machine of `simd::Decoder` and `DecodeCore` |
| `CanonicalText` | the one text of some bytes at a width, and the abstract specification of an encoder that writes it as bytes come |
| `SimdEncoder` | the detailed machine of `simd::Encoder` and `EncodeCore` |
| `BlockCode` | the code of one block: the scalar kernel |
| `Lanes`, `VectorKernel` | the vector instructions lane by lane; the SSE4.1 and AVX2 kernels |
| `BlockRuns` | a batch of blocks through the line functions of a level, store by store |
| `HenkeFormat` | vocabulary of Henke's format: groups, values, size hints |
| `HenkeReference` | the C library's encoder and the Go port's decoder, as functions on complete sequences |
| `HenkeEncoder`, `HenkeDecoder` | the detailed machines of the two halves of `codec.rs` |
| `HenkePipe` | both, joined by the text, with other cuts on each side and junk between |
| `BytePipe` | abstract specification: what comes out is what went in |
| `DecoderReader`, `EncoderWriter` | the adapters of `io.rs` |
| `IoPipe` | an adapter on a file, on a disk, or both joined by a pipe |
| `ByteSource` | abstract specification: what a reader promises its caller |
| `CompatCalls` | Henke's C functions on memory that input and output share |
| `CompatTool` | the C tool on top of them |
| `LineFormat` | the lines of some symbols, as the tools print them |
| `CommandLine` | the Rust tool, from its options to its status |
| `PythonClasses` | the four streaming classes of the Python binding |
| `FrontEnds` | the tool and the classes, each reading what the other wrote |
| `Arithmetic` | lemmas on `\div`, `%` and powers of two, the round trip of a Henke group, beginnings of sequences, induction |
| `SimdDecoderProofs`, `SimdEncoderProofs`, `HenkeProofs`, `IoPipeProofs`, `CompatProofs`, `KernelProofs`, `FrontEndsProofs` | inductive invariants and theorems |
| `MC...` | the streams, files, batches and calls that TLC gives each of them |

Composition: `HenkePipe` extends `HenkeEncoder` and `HenkeDecoder`, whose names
are apart (`Enc...`, `Dec...`); `IoPipe`
joins `EncoderWriter` and `DecoderReader`; `CompatTool` extends `CompatCalls`;
`BlockRuns` runs `VectorKernel` and `BlockCode`; `FrontEnds` joins
`CommandLine` and `PythonClasses`. Each machine instantiates the abstract
specification or the reference that it is compared with.

The models are layered as the code is. The codec models show that what a
codec has delivered depends on the bytes it was given and not on their cuts
(`ImplementsStrict`, `ImplementsCanonical`, `EncodesAsReference`,
`DecodesAsReference`). The layers above therefore take a codec as a function
of the bytes so far, and are about what they add: buffers, retries, errors and
ends. The layers below (`BlockRuns`) are about what the cores take as given.

Definitions named `...Bug` are not part of a model. Each is the definition
that follows it with a plausible mistake, which shows that a property would
notice it.

### Data

In the SIMD decoder, a byte is one of seven representatives: three characters
of the alphabet (`#`, `-`, `~`, with their real indices, so that a pair's
value is computed and only `~` after anything is too big), three whitespace
characters (a space, CR, LF) and one byte outside both. A decoded block is
represented by the characters it came from: the relation of characters to
bits is `BlockCode`'s, the order and the number of blocks are kept. The block
size, the width unit, the invalid tails, the batch sizes and the probe are
constants.

The encoders, Henke's decoder and the kernels have the real bytes, characters
and bits: there the packing is what can go wrong. In `CompatCalls` a cell of
memory says which byte of which stream it holds, so that an overwritten one
is seen.

### SimdDecoder

`core` is `DecodeCore`, field for field, except `run_head` and `carry`, which
are sequences whose length is the code's counter (`run_len` may be longer
than `run_head`, and is a field of its own). `mode` is `DecoderMode`. `stream`
is the whole stream of the session; `pos` is the next byte to read, `end` the
end of the chunk of the call in progress, `fed` what the calls that returned
were given. `w` is what this call has decoded, `cap` the room it asked for,
`wrote` how far into the room anything was stored, by rejected batches too.
`out` is what the caller has, `ret` the last answer.

Calls are actions of the caller: `Decode(n)`, `DecodeNothing` (a call with no
bytes), `DecodeTooSmall` and `FinishTooSmall` (a buffer shorter than needed),
`Finish`, and `Begin` (a new stream for the decoder that `finish` reset). A
decode call then runs by itself, and `pc` says where it is:

| Action | Code |
|---|---|
| `Header`, `HeaderCr` | the two header phases of `DecodeCore::decode` |
| `Body` | the choice between the fast and the slow path |
| `FastBatch`, `FastReject`, `FastReturn` | one turn of the loop of `fast`: a line break if there is one, then a batch accepted, rejected, or none |
| `SlowOk`, `SlowError` | one byte of `slow`, on its own (`pc = "slow"`) or while a batch is read again (`pc = "reread"`) |
| `ReturnOk`, `ReturnFailed` | the end of the call |

A `decode` call is atomic for its caller, so the division into steps is not
observable; it is what lets `CallsReturn` and the step properties be stated.
A rejected batch and a slow byte are separate steps because the state between
them is the one the code has between them.

### StrictDecoder and SimdOracle

`StrictDecoder` states the contract of `simd::Decoder` in terms of the
reference: after n bytes, the answer of `decode` is the reference's first
error in those n bytes, else the whole blocks of its payload are delivered;
`finish` adds the length rule and delivers the rest. `SimdOracle` is
translated from `oracle.rs`, which shares no code with the driver. A whitespace
run at the end of the bytes given so far is not yet judged by either.

`SimdDecoder` implements `StrictDecoder` (`ImplementsStrict`) by the mapping
`ended <- (pc = "ended")`; `stream`, `fed`, `out` and `ret` are the same
variables. Steps inside a call are stutters of the abstract specification.

### SimdEncoder and CanonicalText

`core` is `EncodeCore`. `stream` is the session's bytes; `pos`, `end` and
`fed` are as in the decoder; `blocks` is the count of whole blocks that the
block loop counts down; `w` is what this call has written, `promised` the
length that `encode_len` or `finish_len` announced for it, `text` what the
caller has. `reach` is how far the kernels of the last batch load, which is
beyond the bytes they encode.

| Action | Code |
|---|---|
| `Encode(n)` | `encode_slice`, `encode`: the length, the prefix at the first call |
| `AlignByte`, `Aligned` | the loop of `EncodeCore::encode` that empties the queue before the blocks |
| `LineBatch` | `encode_blocks` on whole lines, which the kernel terminates |
| `RowBatch` | `encode_blocks` on what is left of a line, or on all blocks when there are no lines; a filled line gets its LF |
| `BlocksDone`, `TailByte`, `Return` | the bytes after the last block, the end of the call |
| `Finish`, `Begin` | `finish_slice`, which leaves a new core; the next session |

The kernels are modelled as the scalar one: characters of a block, line breaks
and how far it loads; that every level does the same is the subject of
`BlockRuns`. A call with no bytes returns at once and a buffer that is too small is
refused before the core changes: neither changes anything, so neither is an
action.

`CanonicalText` defines the text of a complete sequence of bytes by its bits,
without a queue, a column or a block. The mapping is `width <- core.wrap`,
`given <- SubSeq(stream, 1, fed)` and `done <- (pc = "ended")`.

### BlockRuns, VectorKernel and BlockCode

`batch` is the arguments of `encode_blocks` or `decode_blocks`: lines, blocks
per line, the stride between lines, the input and the room. `out` is the
caller's output, address by address, `side` the stack buffer (`pad` or
`last`), `todo` the line functions still to call, `line` and `unit` the
progress of the first of them, `worst` its running maxima, `ok` the answer so
far.

| Definition | Code |
|---|---|
| `EncodeCalls`, `DecodeCalls` | `encode_blocks`, `decode_blocks`: one run, or the last block on its own when a register would pass the buffer |
| `EncodeRun`, `DecodeRun` | `encode_run`, `decode_run`: the kernel of the level; an odd number of blocks is AVX2 and one SSE4.1 block, line by line |
| `EncodeUnit`, `DecodeUnit` | a turn of a line function's loop, with its loads and its stores in their order |
| `LineEnd` | the LF, and the next line |
| `CallEnd` | `valid_sse41` or its like, and the next call |
| `CopyLast` | the copy of the last block's 13 bytes from the stack buffer |

`VectorKernel` translates the kernels of `x86.rs` instruction by instruction,
on the lanes that an instruction acts on; `Lanes` has the instructions. Both
halves of an AVX2 register do what SSE4.1 does on one, so a unit of AVX2 is
two of them.

### Henke's codec

`HenkeEncoder` and `HenkeDecoder` have the fields of the structs of
`codec.rs`, with the queue's real value. `bytes`, `given` are the session's
input; `chunk` and `i` the call's; `text`, `out` the session's output. `n`
and `held` exist for the properties: what the call has written, and the
queue's length and pending character when it began.

| Action | Code |
|---|---|
| `Encode(c)`, `Load`, `Take`, `Return` | a call of `encode`; a byte joins the queue; a group of 13 or 14 bits leaves it |
| `Decode(c)` | a call of `decode` |
| `FastPair` | the loop over pairs, when no character is pending and the next two symbols are characters |
| `SlowJunk`, `SlowFirst`, `SlowSecond` | one symbol otherwise |
| `Finish`, `Begin` | `finish`; the next session of the same struct |

All bytes outside the alphabet are one symbol, `Junk`, as the decoder skips
them all alike.

`EncodesAsReference` and `DecodesAsReference` compare each machine, between
calls, with what `src/` and `go/` compute of the whole input one symbol at a
time. `HenkePipe` gives the decoder the encoder's text as it is written, in
pieces of its own and with junk, and implements `BytePipe`.

### The adapters: DecoderReader, EncoderWriter, IoPipe, ByteSource

`DecoderReader` has the struct's fields (`decoded`, `decodedPos`, `done`,
`failed`); `stream` and `taken` are the inner reader's, `got` and `ret` the
caller's. `accepted` remembers how much was read when no error was known.

| Action | Code |
|---|---|
| `Read(n)` | a call with a buffer of n bytes |
| `ReturnData`, `ReturnInvalid`, `ReturnEof` | the three returns at the head of the loop |
| `InnerGives(n)`, `InnerEnds`, `InnerFails` | the inner read gives n bytes, nothing, an interruption or an error; what is read is decoded, or the decoder finished |
| `IntoInner`, `New` | `into_inner`, and another reader |

`EncoderWriter` has the encoder as the bytes it was `given`, the scratch text
of a call, and the `BufWriter` of the standard library with its buffer: it
spills when text does not fit, passes text of its buffer's size directly,
tries again when interrupted, keeps what the sink did not take, and tries once
more when dropped. `wpc` says where a call stands; `accepted` are the bytes of
the writes that succeeded. Actions: `Write`, `Flush`, `Finish`, `Drop`;
`PlaceBuffer`, `PlaceSpill`, `PlaceDirect`, `DirectDone` (`write_all`);
`SinkTakes(k)`, `SinkInterrupts`, `SinkFails`, `SyncFails`; `Drained`.

`IoPipe` uses them in three ways (`use`): a reader on a file of either format,
valid or not; a writer on a disk; and the two at the ends of a pipe of
`PipeSize` characters, where the writer waits when it is full, the reader when
it is empty, and a writer whose reader is gone fails. `ByteSource` is what a
reader promises; `ImplementsSource` maps `ready` to what the caller has and
what the buffer holds.

### The C functions and the C tool: CompatCalls, CompatTool

`CompatCalls` has the memory, the caller's struct (`nbits`, and whether a
character is `pending`) and a call's arguments. `EncodeChunk` and
`DecodeChunk` are a turn of the loops of `basE91_encode` and `basE91_decode`:
a chunk is copied, then output is written over whatever is there. How many
bits a group takes depends on its value, so it is any choice that the codec
can make. `EncodeEnd` and `DecodeEnd` are the `_end` functions.

`CompatTool` is `cli.c`'s `main` and its three loops: the layout of the one
buffer (`EncodeSize`, `DecodeSize`, `Ibuf`), `Fread`, the call, `Return`, and
for wrapped output `PutLine`, `PutRest` and `FlushLines`, which put a NUL into
the buffer, print, and put the character back.

### The front ends: CommandLine, PythonClasses, FrontEnds

`CommandLine` is a process of `base91-cli`: the name and options (`Decoding`,
`Wrap`, `Ibuf`, `Refused`), `Open`, the loops of `do_encode`,
`do_encode_simd` and `do_decode`, the `BufWriter` on standard output, and the
exit. `work` is text or bytes not yet handed to it, `obuf` what it holds,
`sink` what the file has. Mishaps: a file that does not open, a read that
fails or is interrupted, a write that fails, and SIGPIPE.

`PythonClasses` is an object of one of the four classes: `update` and
`finish`, which takes the buffer and replaces the codec before an error is
raised. `session` and `asked` exist for the property.

`FrontEnds` runs one of them on any of its inputs, and then gives its product
to a second one, with any options that do.

## 3. The runs

| Run | Instance | Checks |
|---|---|---|
| `streams` | blocks of 2, batches of 2, probe 1; every stream of `-` and 4 bytes; one-byte mutations of 5 LF lines and of 2 CR LF lines | `CarryIsPayloadTail`, `LinesDescribePayload`, `ImplementsStrict`, `CallsReturn` |
| `blocks` | blocks of 4; mutations of an unwrapped and a wrapped stream | `WritesInBounds`, `ErrorIsFinal`, `ImplementsStrict` |
| `probe` | batches of 8; first lines of 1 to 5 blocks with LF, of 2 to 4 with CR LF and a line feed and a space behind; pieces of 1, 2, 3 and 8 bytes | `RereadBoundedByLine` |
| `finish_error` | invalid streams | `FinishErrorRepeats`, violated |
| `simd_encoder` | one stream of 138 bytes and each of its prefixes that calls reach; widths 0, 32, 64, 96; batches of 4 blocks | `LengthExact`, `WritesInBounds`, `LoadsInBounds`, `SessionFits`, `ImplementsCanonical` |
| `kernels` | lines of 1 to 4 blocks, 1 to 3 lines; three levels; with and without room behind the last block; valid and invalid blocks | `AccessesInside`, `EncodesAsScalar`, `DecodesAsScalar` |
| `henke_encoder` | 6 bytes of {0, 32, 88, 89, 255} in calls of up to 2 | `EncQueueBounded`, `EncodeFits`, `EncNeverReallocates`, `EncodesAsReference` |
| `henke_decoder` | 7 symbols of {0, 88, 90, junk} in calls of up to 3 | `DecQueueBounded`, `DecodeFits`, `DecNeverReallocates`, `DecodesAsReference` |
| `henke_pipe` | 4 bytes of {0, 88, 255}; pieces of 1, 3 or all there is; one junk symbol | `ImplementsBytePipe` |
| `io` | files of both formats, valid or not; writes of 1, 2 and 4 bytes, 4 in all; buffers of 3, pipe of 2; two interruptions or errors on each side | `PipeRoundTrip`, `EofMeansAll`, `TextInOrder`, `FinishIsWhole`, `ReadsReturn`, `WritesReturn`, `ImplementsSource` |
| `capi` | buffers of 3 to 16 bytes, lines of 0 to 7, chunks of 2, 8 bytes of input in any reads | `InputInOrder`, `InsideBuffer`, `PrintsLines`, `WithinSlice` |
| `front_ends` | every name and options; inputs of 0, 3 and 14 bytes; buffers of 3 and 40; one mishap | `ToolIsHonest`, `SessionsApart`, `RoundTrip`, `ToolEnds` |

What they show. The SIMD decoder, cut anywhere, answers as the reference
reads, stores only in the room it asked for, and comes back from every call.
The SIMD encoder, cut anywhere, writes the canonical text and the lengths it
announced. The runners, at every level, do what the scalar code does on each
block and leave everything else alone. Henke's codec agrees with the C and Go
code on every input of these symbols, cut anywhere, and decoding what was
encoded gives it back. The adapters lose and repeat nothing through short
buffers, interruptions and errors, and calls return. The C tool never
overwrites a byte it has not read, although its input and output share a
buffer with hardly a byte to spare. The Rust tool's status is honest, and
either front end reads what either wrote. The run that is violated is the
subject of section 5.

### Bounds, and why they are enough

SIMD decoder. The driver's decisions depend on a character's class, on
positions modulo the block, the pair and the line, and on whether a batch
limit is reached: a block of 2 characters has pairs and carries, a block of 4
has tails of every parity, a batch of 2 is reached by the longer streams, a
line batch of 2 blocks holds one or two lines, and 5 lines give the first
line, one reached through its break, and batches of several. The mutations
replace, insert and remove one byte at every position, as the test kit does.
Pieces of 1 and 5 bytes (or 1, 3, 7) and the whole rest give every cut that
separates two states of the driver; a caller chooses a new size at each call.
The `probe` run cuts its streams into pieces of less than a block, one block,
one and a half and four, or the rest. That a first line is read again once is
asked of any cut; the bound by twice the line only of a call that has the whole
stream, as it does not hold otherwise (section 5).

SIMD encoder. Its decisions depend on positions modulo 13 bytes and modulo the
line, and on the batch. `Batch` is the code's batch of blocks, 4 here.
`ChunkSizes` has one byte, less than a block, a block less one, a block, a
block and the three bytes that its loads go beyond it, and three blocks and
one; with the whole rest they reach every alignment of the queue. 138 bytes
are ten blocks and a tail: with lines of 2, 4 and 6 blocks the batch holds two
lines, one, and less than one, and the line batch, the row batch and single
characters each meet line ends. The caller may finish after any call, so the
prefixes are streams of their own.

Kernels. What the runners decide depends on the parity of the blocks in a
line, on one line or several, and on the bytes behind the last block: shapes
of 1, 2, 3 and 4 blocks, 0, 2 and 3 bytes of input and 0, 2, 3 and 5 bytes of
room, on both sides of the three that decide. The invalid characters are those
next to the alphabet (34, 127), in its gap (39), beyond ASCII (200), and the
one that makes a pair too big (126). That one block's arithmetic is right for
all bytes is proved (section 4), so the run needs few blocks.

Henke. A decision depends on whether the low 13 bits of the queue are above 88
and on the queue's length: `MaxBytes` = 6 bytes are several turns of the
queue through all its lengths, and the bytes are those around 88 and around
the fourteenth bit. `MaxSymbols` = 7 symbols are three pairs and a pending
character, with values below and above 88 and above 8191, where a pair is
more than 13 bits. `MaxJunk` = 1 junk symbol separates every two characters
once.

Adapters. `Capacity` = 3 and `BufSize` = 3 are smaller than what one write or
one file is: a write of 4 bytes gives text that the buffer cannot hold, one of
a byte gives text that the encoder keeps or the buffer holds, and a read with
a buffer of 1 leaves decoded bytes behind. `PipeSize` = 2 is less than the
buffer, so a spill waits for the reader. `MaxTrouble` = 2 lets an error or an
interruption meet a retry after another. Files are every stream of `-` and 4
symbols out of two characters and an invalid byte, a wrapped one, blanks, and
Henke text with junk.

C tool. `CHUNK` = 2 makes several chunks of a full input. The buffer sizes are
the smallest that leave room for input in either direction (4 and 3) and some
that leave several bytes; widths of 1, 2, 3 and 7 are shorter than a call's
output, as long, and longer. The proofs have all of them.

Front ends. A size of 3 leaves the least input buffer there is and 40 more
than a block; 14 bytes are a block and a tail. One mishap of each kind at
every point is every way for a process to fail, as it does not go on after
one, interruptions while decoding excepted.

Streams are finite and a session begins again only after `finish`, so the
state spaces are finite without any other bound. Deadlock is checked in every
run but `front_ends`, whose processes exit.

### Fairness

`SimdDecoder` and `SimdEncoder` ask for weak fairness of `Step`, the steps of
a call in progress: a function that was called runs on. `IoPipe` asks for weak
fairness of `ReadStep` and, while a call is in progress, of `Write`; the
guards say what a call waits for (room in a pipe, text in it), and the steps
include interruptions and errors, of which a session has at most
`MaxTrouble`: a sink that interrupted for ever would keep a call for ever, in
the code too. `FrontEnds` asks for weak fairness of `ToolRuns`: a process
runs on, and its input ends. No call is ever promised by a caller, so
`CallsReturn`, `ReadsReturn` and `WritesReturn` are about calls that were
made, and `ToolEnds` about a process that was started. The other modules state
safety only.

## 4. The proofs

Each component's theorems hold for every value of its constants that meets
its assumptions, thus for streams, chunks, widths, buffers and batches of any
size. Where there is a state, they rest on an inductive invariant `IInv` and
on one lemma per action. `Types` and `TypeCorrect` are the type invariants.

### SIMD decoder: `SimdDecoderProofs`

Assumptions, `FormatAssumption` and `DecoderAssumption`, which are the
code's: a block has an even number of characters, a width unit is a multiple
of a block, the batch sizes are positive, and the probe is at most a batch.

| Theorem | Statement |
|---|---|
| `Invariance` | `Spec => []IInv` |
| `TypeCorrect` | `Spec => []TypeOK` |
| `NoOverrun` | `Spec => []WritesInBounds` |
| `CarryCorrect` | `Spec => []CarryIsPayloadTail` |
| `LinesCorrect` | `Spec => []LinesDescribePayload` |
| `ErrorFinal` | `Spec => ErrorIsFinal` |

None of the properties is inductive alone. `WritesInBounds` needs to know, in
the middle of a call, that the blocks written, the characters carried and the
bytes left fit in the room asked for (`RoomLeft`), and that needs the carry to
be shorter than a block (`CarryIsPayloadTail`) and the fast path to start with
an empty carry and no pending run (`CallShape`). A batch of lines moves `pos`
by its span and `payloadLen` by its characters, so `LinesDescribePayload`
needs the width to be a whole number of blocks and the line never to pass it.
`HeaderIsFresh` starts the counters, `OffsetIsPosition` ties the offset to the
position. `ErrorFinal` adds `FailureStands`: a failed core has its error, and
the decoder is between calls or at the head of the loop.

### SIMD encoder: `SimdEncoderProofs`

Assumptions: streams are sequences of bytes, a width is a multiple of 32 (or
0, no lines), a batch is positive.

| Theorem | Statement |
|---|---|
| `Invariance` | `Spec => []IInv` |
| `TypeCorrect` | `Spec => []TypeOK` |
| `LengthsAreExact` | `Spec => []LengthExact` |
| `BuffersHold` | `Spec => []WritesInBounds` |
| `LoadsHold` | `Spec => []LoadsInBounds` |
| `SessionsFit` | `Spec => []SessionFits` |

The code keeps a queue and a column and computes lengths from them; nothing in
it says how many bytes were read. The invariant does: the queue holds
`(8 * pos) % 13` bits and the column is that of the characters of `pos` bytes
(`CountersAgree`), so what has been written is `WrittenLen(pos)`, a function
of the bytes read alone (`LengthsAgree`). Every writer then has the same
obligation: the symbols it adds are the difference of two values of
`WrittenLen`, whether it writes a pair that may meet the end of a line in its
middle, a row that fills one, or lines with their LFs. `EncodeLenIs` and
`FinishLenIs` show that `encode_len` and `finish_len` are such differences
too, and `RoomForBlocks` that a batch ends before `promised`. `LoadsInBounds`
needs only that the blocks counted are in the chunk (`CallShape`).

### Henke: `HenkeProofs`, `Arithmetic`

Assumptions: chunks are sequences of bytes (of symbols), and the bound of a
session is a natural number.

| Encoder | Decoder | Statement |
|---|---|---|
| `EncInvariance` | `DecInvariance` | the inductive invariants `EncIInv`, `DecIInv` |
| `EncTypeCorrect` | `DecTypeCorrect` | `[]EncTypeOK`, `[]DecTypeOK` |
| `EncQueueStaysBounded` | `DecQueueStaysBounded` | `[]EncQueueBounded`: 13 bits; `[]DecQueueBounded`: 7 bits |
| `EncCallsFit` | `DecCallsFit` | `[]EncodeFits`, `[]DecodeFits` |
| `EncNoReallocation` | `DecNoReallocation` | `[]EncNeverReallocates`, `[]DecNeverReallocates` |
| `EncEncodesAsReference` | `DecDecodesAsReference` | `[]EncodesAsReference`, `[]DecodesAsReference` |

| Both | Statement |
|---|---|
| `ReferenceRoundTrip` | for any bytes b, the Go decoder makes b of the text that the C encoder makes of b, and a beginning of b of any beginning of the text |
| `UnfinishedRoundTrip` | and a beginning of b of the text that was never flushed |
| `PipeIsBytePipe` | `Spec => ImplementsBytePipe`, the refinement |
| `GroupRoundTrip` | the 13 or 14 bits that the encoder takes are those that the decoder puts back, with the same width |

`EncAccounted` and `DecAccounted` keep the books of a call and of a session:
every two characters carry at least 13 bits and at most 14, so what is
written, with what is still in the queue, is bounded by what was read. From
them and the bounded queues follow the size hints, whose rounding is what has
to be right.

The reference is a function of a whole sequence, so agreeing with it is a fact
about every sequence, and the machine has only one at a time. `EncFollows` and
`DecFollows` say that the machine, at any symbol of any call, is where the
reference is after the symbols read; a step then needs one unfolding of the
reference (`RunNext`), two for a pair of the fast path.

`ReferenceRoundTrip` is by induction on b. `Behind` is its hypothesis: when
the decoder has been given all the text so far, the decoder's queue and, above
it, the encoder's (`Joined`) hold the bits of the bytes that were read and not
delivered. A byte goes in on the encoder's side, a pair moves 13 or 14 bits
across the border (`GroupRoundTrip`), and the decoder's bytes leave at the
other end. `Prefixes` follows the decoder into the middle of a pair. The pipe
then adds `Linked`: the characters among the symbols given to the decoder are
the first ones of the text. With it, every step of the pair of machines is a
step of `BytePipe` or a stutter, junk and cuts included.

Induction over data is not a theorem that the provers can apply to a property
of one's own, as the library's ones take the property as an operator.
`Arithmetic` states it for sets instead (`SetInduction`, `SeqInduction`: a set
of naturals with 0 and every successor has them all; a set of sequences with
the empty one and every `Append` has them all), which a proof uses with the set
of the sequences that it is about. `RunNext` gives a recursive function over a
sequence its recursion in the same way.

### Kernels: `KernelProofs`

About one block, for all its bytes or characters, with no assumption:

| Theorem | Statement |
|---|---|
| `EncodesAsScalarCode` | `EncodeVector` of any 16 bytes is `EncodeScalar` of the first 13 |
| `ReportsWhatScalarFinds` | the indices and the sums that the vector decoder checks are within 90 and 8191 exactly for the blocks that `ValidScalar` accepts |
| `DecodesAsScalarCode` | for a valid block, the first 13 of the bytes stored are `DecodeScalar`'s |
| `BlockRoundTrip` | decoding an encoded block gives its bytes back |

The argument goes lane by lane. The encoder's part: a group's 13 bits are
where the shifts put them, the multiplication by 2881 and a shift by 18 is the
division by 91 for every 13-bit value, and the character is one more from the
apostrophe on. The decoder's part: an index computed with wrap-around is the
alphabet's for every byte of it and more than 90 for the others, and no sum
saturates before it is seen to be too big; the bytes where two groups meet are
a disjunction of disjoint bits, hence a sum.

About a batch, under `BlockRunsAssumption`: what the assertions of
`encode_blocks` and `decode_blocks` let through, and lines that do not overlap
(the stride of the callers is the width and its line break).

| Theorem | Statement |
|---|---|
| `Invariance` | `Spec => []IInv` |
| `AccessesStayInside` | `Spec => []AccessesInside` |
| `BatchesEncode` | `Spec => []EncodesAsScalar` |
| `BatchesDecode` | `Spec => []DecodesAsScalar` |

The blocks of a batch are numbered through its lines, and every call of a line
function does those from `First` on: a part of one line, or whole lines
(`InPlace`). `IInv` says that the calls to come do the blocks that are left in
order and without a gap (`InOrder`), and that the output is what the blocks
done make of it (`EncodedTo`, `DecodedTo`). That a batch starts so is a fact
about `EncodeCalls` and `DecodeCalls` (`BatchRuns`): a run at any level does
what one call of a block at a time would (`RunIs`), and the runs follow each
other. The order is what makes the decoder right: a store spills three bytes
into the next block's place, which only the next block's store repairs, so a
block's bytes are claimed once it is done and `DecodedTo` leaves the three
bytes behind the last one open. They are inside the room because every call
has three bytes behind its blocks, except the last block's, which goes to a
buffer of its own and is copied (`InSide`, `CopyLast`). A unit may end within
a line, so `Fed` counts the LFs apart from the blocks. The places of the
blocks and the LFs do not meet (`BlocksApart`, `FeedIs`), so a store leaves
the others alone.

### Adapters: `IoPipeProofs`

Assumptions: `PipeAssumption` (buffers and pipe hold something; texts and
writes are sequences), and two about the codecs, `DecoderAdds` and
`EncoderAdds`: more input only adds to what was delivered, and `finish` adds
again. `PipeGivesBack` has a third, `CodecsAgree`: the decoder rejects nothing
of Henke's format, gives back the bytes of a finished text, and a beginning of
them from an unfinished one. These are what the codec models show of the
codecs, the last two `ReferenceRoundTrip` and `UnfinishedRoundTrip`.

| Theorem | Statement |
|---|---|
| `Invariance` | `Spec => []IInv` |
| `Types` | `Spec => []TypeOK` |
| `ReaderLosesNothing` | `Spec => []NothingLost` |
| `EndIsTheEnd` | `Spec => []EofMeansAll` |
| `WriterKeepsOrder` | `Spec => []TextInOrder` |
| `FinishWritesAll` | `Spec => []FinishIsWhole` |
| `ReaderIsSource` | `Spec => ImplementsSource`, the refinement |
| `PipeGivesBack` | `Spec => []PipeRoundTrip` |

`ReaderSound` has `NothingLost`: what the caller has, and the rest of the
buffer, are what can be delivered of the accepted bytes. A refill happens only
when the rest is empty, so it appends exactly what the codec added. It also
says that an end or an error is only answered when it is known. `WriterSound`
has `TextInOrder` and says what the scratch is in each place of a call. When
a finish succeeds the buffer and the scratch are empty, so the sink is all of
the text. A pipe only changes `stream` by adding to it (`Starts(sink,
sink')`), which keeps the prefix already read. `PipeGivesBack` adds `Piped`:
the reader sees the end of a pipe only when the writer is gone and the pipe is
empty, and a writer whose reader is there goes with an empty buffer, dropped
or finished. What was read is then a whole text, and `CodecsAgree` says whose.

### C functions and tool: `CompatProofs`

Assumption: `ToolAssumption` (a chunk has a byte, a buffer at least two).

| Theorem | Statement |
|---|---|
| `Invariance` | `Spec => []IInv` |
| `Types` | `Spec => []TypeOK` |
| `OverlapIsSafe` | `Spec => []InputInOrder` |
| `SlicesAreClear` | `Spec => []SliceClear` |
| `BoundsHold` | `Spec => WithinSlice` |
| `ToolStaysInside` | `Spec => []InsideBuffer` |
| `PrintedInLines` | `Spec => []PrintsLines` |

The invariant is a balance of bits. A call that encodes has at all times
`13 * written + 2 * nbits <= 26 + 16 * read`, one that decodes
`8 * written + nbits + 7 * pending <= 14 + 7 * read`: the constants are what
the struct may hold from the call before. With the tool's ratios, 16/29 of
the buffer less two bytes and 8/15 of it less one, the output of a chunk ends
before the first byte not read yet (`SliceClear`), so what is not read is
still there (`Unread`), and the codec is given the input in order. For
decoding, the input begins one byte behind the output, and that byte is
needed.

`PrintsLines` has an invariant of its own, `LinesSound`. The tool knows only
where the line in progress ends, counted from the beginning of its buffer; the
invariant says of which byte of the whole output that is (`Lay`), and that the
buffer begins with the bytes that are not printed yet (`Held`). A slice printed,
a chunk that ends in the middle of a line, and the last line, which is ended
by another function, then all extend the same text: `Flow` of the bytes
printed so far.

### Front ends: `FrontEndsProofs`

Assumptions: `FrontEndsAssumption` on the constants (each option is on, off or
a number; a class has no other width than its own), and as for the adapters
what the codec models show of the codecs: `DecoderAdds`, `EncoderAdds` (more
input only adds to the output, `finish` adds again, an error stays one) and,
for the last theorem only, `FormatsAgree` (a decoder gives back the bytes of
every text that an encoder makes, with the tool's lines or without).
`MCFrontEnds` has TLC evaluate them on the functions of its instance
(`MCCodecsAdd`, `MCFormatsAgree`).

| Theorem | Statement |
|---|---|
| `Invariance` | `Spec => []IInv` |
| `OutputIsHonest` | `Spec => []ToolIsHonest` |
| `ObjectsForget` | `Spec => []SessionsApart` |
| `EitherReadsEither` | `Spec => []RoundTrip` |

`ToolSound` follows one process. What the file has and the `BufWriter` holds,
with `work` behind it, is what the codec has made of the bytes taken; where
the tool lays out lines, nothing is sent before the end, because the lines are
made of the whole text. A status other than 0 needs a mishap, options that are
refused or a text that is rejected. `ClassSound` says that the codec inside an
object has read its session until it reported an error; from there on the
codec may have read less, and the session is rejected whatever follows.
`Relayed` says whose bytes the second front end is given.

### Only model-checked

Out of this prover's reach: the liveness properties `CallsReturn`,
`ReadsReturn`, `WritesReturn` and `ToolEnds`. Not proved, for their size:
`ImplementsStrict` and `ImplementsCanonical`, which compare the SIMD machines
with functions of a whole stream, and `RereadBoundedByLine`, which speaks of the
streams that such a function accepts.

## 5. What was found

One statement of the documentation is refuted by a run. "Once it has reported
an error, the decoder reports it again on every call"
(`rust/base91/src/simd/mod.rs`, `Decoder`): `finish_slice`'s `InvalidLength`
does not last, and a later call with more bytes succeeds (`finish_error`). A
call with no bytes succeeds after any error.

Other places where a comment and the code differ, met while modelling. None
makes the output of a correct caller wrong:

* `io.rs`, `EncoderWriter`: dropping it without `finish` is said to discard
  silently what was buffered; the `BufWriter` inside flushes its buffer when
  dropped, and only the encoder's last bits are lost (`Drop`).
* `io.rs`, `DecoderReader`: bytes outside the alphabet are said to be skipped;
  that is true of Henke's format only.
* A reader's error may come before bytes that are decodable in the same chunk:
  how much is delivered before the error depends on the inner reader's
  chunks (`InnerGives`).
* A batch of whole lines "fails only on invalid input" (`driver.rs`,
  `LINE_BATCH`): it also fails on a valid stream that ends with a short line
  and blanks; the slow path then accepts it.
* Doubling the probe "bounds that re-read to about twice the line"
  (`driver.rs`, `FIRST_LINE_PROBE`): the probe doubles at every batch, also
  at the small ones that small chunks allow, so it can reach `BATCH` before
  the first line ends. The re-read still happens only once, in the batch that
  passes the end of the line (`RereadBoundedByLine`).
* `basE91_decode` asks in its comment (`rust/base91-capi/src/lib.rs`) for a
  buffer of 14/16 of the length "plus 1"; with a character pending, one more
  symbol writes two bytes. The header says "plus 2", which is right.
* `b91enc --simd` wraps at 64, where the comment on the names says "no line
  wrapping" of `b91enc` (`Wrap`); the checks for an input buffer below 1 are dead, as
  `Ibuf` is at least 1.
* The encoding loops of the tool end with an error when a read is
  interrupted; decoding tries again (`ReadInterrupted`).
* The Python `Encoder` and `Decoder` are documented as consumed by `finish`;
  it resets them. `SimdDecoder.finish` drops what was decoded when it raises.

## 6. Not modelled

* The NEON kernels of `aarch64.rs`: the same algorithm on the instructions of
  another architecture. They would be a second `Lanes` and `VectorKernel`.
* The `base91_*` functions of the C interface, the one-shot functions of the
  crate and of the Python binding: argument checks around one call and a
  `finish`, which the streaming models have among their cuts.
* The parsing of a SIZE (whose multiplication may overflow), messages,
  `--man` and `--completions`: text.
* The detection of the processor's level; `BlockRuns` takes it as a parameter.
* Size hints near `usize::MAX`: the models have unbounded integers.
* A Henke stream handed over inside `simd::Decoder`: from there on it is
  `HenkeDecoder`.
* The C tool with a buffer below two bytes, whose unsigned subtraction wraps
  around; its options and files.
* The C library's decoder and the Go port's encoder: the other half of each is
  the reference of `HenkeReference`, and the algorithms are `codec.rs`'s.
* The test kit's generators and readers, fuzz targets, benchmarks, examples,
  packaging and CI.
