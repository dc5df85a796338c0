# Formal model of `ryf`

`ryf` is a Rust library that reads and writes WAVE audio: RIFF, RIFX, RF64/BW64
and Wave64 containers; PCM, float, G.711, G.722, G.726, IMA and MS ADPCM and GSM
payloads; one-shot encoders and an incremental writer.  It runs on one thread.
What is hard in it is neither scheduling nor locking: it is *partial failure* (every
I/O call of a method may fail after part of the method was done), *order* (chunks
of a file, calls of a user, pieces of an in-place move) and *boundaries* (32-bit
limits, padding, codewords that straddle windows).

Sections: 1 inventory, 2 modules, 3 the writer, 4 the walk, the source under it and the
fmt chunk, 5 from the header to the samples, 6 runs, 7 theorems, 8 what is not modelled, 9 how to
run the checks.

## 1. Inventory

Paths are relative to the repository's `src/`.

| component | source | state | operations | interacts with |
|---|---|---|---|---|
| Incremental writer | `encode/writer.rs` | sink, layout, `data_bytes`, `WriterState` | `create*`, `new*`, `write_pcm`, `write_f32_samples`, `finalize`, drop | asks the header layouts for every size decision; owns the sink |
| Header layouts, one-shot encoders | `encode/{layout,header,mod}.rs` | none (pure) | header bytes, `overflows`, `promoted`, `encode*` | used by the writer; read back by the header walk |
| RIFF/RIFX/RF64 and W64 walk | `header/{riff,size_table,mod}.rs` | position, consumed count, RIFF limit, `fmt`, `fact`, `ds64`, size table, pending `data` | `parse_header*` | reads a byte source; calls the fmt parser; its result drives the decode plan |
| fmt chunk | `header/{fmt,params}.rs`, `g726/wave.rs` | none (consumes the source) | `parse_fmt_chunk` | called inside the walk |
| ByteSource | `source.rs` | `pos`, memory window or reader, `len` | `read`, `seek`, `ignore_bytes`, `read_window`, rewind | under everything that reads |
| Decode plan | `pull/{gate,special,mod}.rs`, `options.rs`, `header/mod.rs` | none (pure) | codec gate, frame layout, duration and output budget | between header and pull |
| Windowed pull | `pull/{input,stream,pcm,g711,g722,g726,gsm,adpcm}.rs` | bytes left, frames left, decoder state, output | `for_each_input`, streaming callbacks, collect paths | reads the source, calls decoders and the user's callback |
| G.726 | `g726/*` | bit accumulator, predictor | `decode_frames`, unpacker | under pull |
| ADPCM | `adpcm/*` | per-block predictor | block walk | under pull |
| G.722, GSM, G.711 | `g722/*`, `gsm/*`, `g711.rs` | filter state | block decode | under pull |
| Conversion | `convert/*` | none | scalar and SIMD sample conversion | under pull |
| Session | `wav.rs` | the source's position | `sniff`, `probe_with`, `decode_with`, readers | composes source, walk and pull |

What makes each of them correct:

* **writer** – whatever mix of calls, and whichever I/O call fails: accepted
  bytes are in the file in order; the move that makes room for an RF64 header
  loses none; the header finally written describes the payload; a file becomes
  RF64 exactly when 32 bits no longer suffice; a refused call changes nothing; a
  failed writer is never revived, not even by drop.
* **layouts** – the overflow decision, the header's sizes and the file length
  agree, with the pad byte counted once in each.
* **walk** – the pad decision follows the stream position over every chunk kind;
  the first `data` and the first `fmt ` win in every chunk order and the cursor ends
  on the payload; a `ds64` size reaches exactly the chunk it belongs to; every
  file ends in a result.
* **fmt chunk** – every accepted branch consumes exactly the chunk's length.
* **ByteSource** – `pos` counts what was delivered; a memory source and a streaming
  one deliver the same bytes; a failed seek does not skip twice.
* **decode plan** – what is delivered never exceeds what was admitted.
* **pull** – collecting and streaming give the same frames; an error stops at a
  window boundary; the last, partial window is right for every codec.
* **codecs** – frame estimates equal what the walk delivers; fixed-point kernels
  stay in range.
* **session** – probing leaves the source where decoding expects it.

`PROJECT.json` lists the hazards of this code one by one with their lines and the
properties that cover them; every one is covered.

## 2. Modules

| component | model | abstract specification | TLC instance | proofs |
|---|---|---|---|---|
| writer, layouts | `WavWriter` over `ByteSink` and `WriterLayout` | `WriterContract`, refined by `WavWriterContract` | `MCWavWriter` | `WavWriterInv`, `WavWriterProofs` |
| RIFF, RIFX, RF64 walk | `RiffWalk` over `ChunkSource` | | `MCRiffWalk` | `RiffWalkInv`, `RiffWalkProofs` |
| Wave64 walk | `W64Walk` over `ChunkSource` | | `MCW64Walk` | `SourceProofs` |
| ByteSource | `ByteSource` | `SourceContract` | `MCByteSource` | `SourceProofs` |
| fmt chunk, codec gate | `FmtChunk` | | `MCFmtChunk` | `HeaderProofs` |
| decode plan | `FrameBudget` over `FrameCounts` | | `MCFrameBudget` | `PlanProofs` |
| windowed pull | `PullWindows` | `DeliveryContract` | `MCPullWindows` | `PullWindowsProofs` |
| G.726 stream | `G726Stream` | | `MCG726Stream` | `G726StreamProofs` |
| G.726 core | `G726Scale` | | `MCKernels` | `KernelProofs` |
| GSM block | `GsmBlock` | | `MCKernels` | `KernelProofs` |
| ADPCM blocks | `AdpcmWalk` over `FrameCounts` | | `MCAdpcmWalk` | `PlanProofs` |
| session | `Session` | | `MCSession` | `HeaderProofs` |

The chain follows a file through the library: `Session` calls the walk, the walk stands on
`ByteSource` (through `ChunkSource`) and ends in a header whose format `FmtChunk` parsed;
`FrameBudget` turns header, length and options into a plan; `PullWindows`, `G726Stream` and
`AdpcmWalk` carry the plan out, one for each way the codecs cut their input.  Each module takes from
the one before what that one is shown to guarantee, and says so at its `Init`: a plan's total is capped by what the
payload holds, a format has neither zero channels nor an empty container.

Some proof modules are about two components that stand next to each other in this chain: `SourceProofs`
about `ByteSource` and the Wave64 walk on it, `HeaderProofs` about `FmtChunk` and `Session`, `PlanProofs` about
`FrameBudget` and the `AdpcmWalk` that carries its plan out, `KernelProofs` about the two kernels of `MCKernels`.  A
specification that shares a proof module with another has names of its own (`WalkSpec`, `SessionSpec`,
`BudgetSpec`); the theorems about the two are independent.

What is left to do: refusals of the writer that carry their reason into the contract; a promise for `W64Walk` and
`RiffWalk` together, that the header returned depends only on the chunks and not on the kind of source; the
composition of plan and windows in one specification.

## 3. The writer's modules

### State

| model | code |
|---|---|
| `sink`, `cursor` | the `Write + Seek` object and its position (`ByteSink`) |
| `readable` | the `OpenOptions` of `create`: RIFF and extensible files are opened for reading too, RF64 and RIFX files for writing only |
| `spec`, `asked` | the caller's `WriteSpec` and the constructor called |
| `layout`, `state`, `dataBytes` | the fields of `WavWriter` |
| `pc`, `op` | the I/O call that comes next and the method it belongs to |
| `next`, `sent`, `rest`, `remaining`, `scratch` | locals: size after this call, bytes already appended by RIFX chunks, float bytes still to convert, bytes still to move, the copy buffer |
| `result`, `faulted`, `stale` | last return value; history: an I/O call failed, and what a generic sink held before |

A cell of the sink is not a number but says what it holds: the *i*-th byte the
caller handed over, a byte of the header of layout *l* for *d* bytes, a zero, or a byte
that was there before.  This is all the properties need to tell apart, and lets a
misplaced, lost or duplicated byte show.  (The code's header bytes are a function
of the layout, the spec and *d*, which is what the cell records.)

### Steps

One step is one I/O call with the bookkeeping up to the next one, because that is
the granularity of failure: each of them may succeed, or fail (a write after any
proper prefix), and the `?` leaves the method with the state it had set before.

| actions | code |
|---|---|
| `RefuseSpec`, `CreateFile`, `OpenFails`, `NewOnSink`, `StartPosition`, `StartHeader` | constructors and `start` |
| `WritePcmCall`, `WritePcm`, `WritePayload` | `write_pcm`, with the RIFX swap of `write_payload` |
| `WriteF32Call`, `F32Part` | `write_f32_samples` and its chunk loop |
| `PromoteReadSeek` ... `PromoteTailSeek` | `promote_to_rf64` |
| `Finalize`, `FinalizePad` ... `FinalizeFlush` | `finalize` |
| `Drop` | `impl Drop` |

`Overflows`, `HeaderFits`, `FileLen`, `HeaderSizes` and `OneShotLayout` in
`WriterLayout` are the pure size functions of `layout.rs`, `header.rs` and `mod.rs`.
Checked arithmetic of the code (`checked_add` on `u64`) is the comparison with `WordMax`.
The operators whose name starts with `Bug` are seeded faults: no specification
uses them, they take the place of the definition they precede to show that a
property would notice.

### The contract

`WriterContract` has three variables and four actions: the writer opens, accepts
more bytes, fails, or finishes, and when it finishes the file reads back as all
accepted bytes in order.  `WavWriterContract` maps the writer to it.  `ReadBack` reads the
sink the way a parser would: layout and size from the header, and a payload only
if every header cell is of the same header write.  While a method is under way
the code has already stored `Failed` (so that a `?` leaves it so); the mapping shows
the phase as `Open` until the method really returns an error.

## 4. The walk's modules

`ChunkSource` is what a walk needs of the source: the length, whether it is known, the
position, and whether a read or a skip at a place succeeds.  A skip of
`SEEK_THRESHOLD` bytes or more in a source of unknown length is a seek that succeeds
beyond the end of the file: the position may then be behind the end.

`RiffWalk` is `parse_header_inner` over RIFF, RIFX and RF64, `W64Walk` is
`parse_header_w64`.

| model | code |
|---|---|
| `container`, `limit`, `consumed` | the marker read, `riff_data_len`, `consumed` |
| `chunk` | `id`, `chunk_size`, `data_len` of the chunk in hand |
| `fmt`, `pending` | `fmt` and `pending_data`; a fmt is the number of its chunk, 0 for `None` |
| `sawDs64`, `dsData`, `dsSamples`, `table`, `factSamples` | the locals of the same meaning; `NoSize` is `None` |
| `pc` | `start` the form, `loop` the top of the loop, `body` the match on the id, `end` after the loop |
| `result`, `header` | the `Result<WavHeader>` returned |
| `seen` | history, in no local: the chunk headers read, and what the walk read of their bodies |

The walk reads every byte at most once and in order before it ends, so the file need not be
chosen before: its length is chosen at the start, each header and field when it is
read.  `seen` is then the file as far as it was read, and the properties say
what a file with these chunks must give.  RIFX is folded into RIFF: they differ in the byte
order of fields that are values here.  A `fmt ` chunk that parses consumes exactly its
length and one that does not may fail at any point: the first is what `FmtChunk` proves
(`Consumes`), the second over-approximates it, since a parser that fails ends the walk.

Each kind of body has an action that succeeds and one that is refused.  A failure of any
read or seek is `ReadFails`, possible at every step.

`CounterOverflows` deserves a word: `consumed + 8` is an unchecked sum.  A size table entry
may be close to 2^64, passes the container check because the chunk's size field is
the sentinel, and saturates the counter.  The chunk's body must then be skipped,
which fails in every source that knows its length, so `CounterNeverOverflows` holds there (and is
proved).  Only with an unknown length, that is when seeking to the end failed at
construction, can the sum pass `u64::MAX`: a debug build panics and a release
build wraps and then meets the end of the file.

The numbers of a header come from the chunks they belong to (`SizeAndCountAreTheirOwn`): the payload length
is that of the data chunk returned, or of the `ds64`; the sample count that of the `ds64` if it states one, and otherwise
of the last `fact` that does.

### The source under the walk

`ByteSource` is the source itself, memory or a reader, one call of the inner reader at a
time.  `SourceContract` is what the walks, through `ChunkSource`, take it for: a position in a
file.  One step of it is one call with its answer, and the answer is judged by what that call asked for: a read
of `n` delivers the `n` bytes from there on and a skip of `n` moves by `n`; `Eof` is answered only
when there are fewer than `n`; a call that fails has moved by a part of `n` at most; a seek goes to its place or
stays.

| model | code |
|---|---|
| `backing`, `pos`, `lengthKnown` | `memory`, `pos`, `byte_len.is_some()` |
| `cur` | the position of the inner reader, which the source never asks for again |
| `op`, `want`, `left` | the method under way, the count it was given, `remaining` |
| `got`, `from` | history: places of the file delivered by this call, and where it began |
| `blind` | history: `stream_position` failed in the best-effort constructor |
| `answer` | the last call: its method, what it asked for, its `io::Result` and the bytes it delivered |

A delivered byte is the place it came from, so a byte skipped, repeated or taken from elsewhere
shows.  `InnerRead` delivers any number of bytes up to what was asked; `AdvanceFails` is
the fallback of `ignore_bytes` from a failed seek to reading.  Assumed of the reader: an inner
seek that fails leaves its cursor; it does not interrupt for ever; and a length that is
known is right (`from_read_seek` and `from_file` believe it).  The comment at `from_read_seek` allows a
source to start at a logical zero when the cursor cannot be learnt: in that case, and
only then, positions and places differ, always by the same distance, until a seek succeeds
(`PositionIsCursor`).  The contract has that distance as a variable, `ahead` (mapped to `Ahead`), and
holds of sources from every constructor: what is delivered are the bytes from where the reader stands.

While a call is under way the mapping shows the position at which it began: a
short read followed by another is one step of the contract, and the step is taken
when the call returns.

### The fmt chunk

`FmtChunk` is `parse_fmt_chunk` with its helpers, and `codec_gate`, which resolves tag 0x0064
behind it.  One step is one read or skip with the checks up to the next.

| model | code |
|---|---|
| `chunkLen`, `core` | `chunk_len` and the six fields of the first 16 bytes |
| `policy`, `maxRate`, `adpcm` | `DecodeOptions::tag_0064`, `max_sample_rate`; the `adpcm` feature |
| `pc`, `consumed` | the read that is next; bytes of the chunk consumed |
| `extra`, `skip`, `coefs`, `valid`, `sub` | `extra_size`, the bytes to ignore, coefficient pairs to read, `valid_bits_per_sample`, `sub_format_guid` |
| `codec`, `width` | `FmtFields`; for G.726 the codeword width, which the code keeps in `params` |
| `rate` | what `codec_gate` returns |

The walk goes on behind the chunk by its declared length, so what matters of the reads is that
they add up to it (`ConsumesExactly`), although the branches reckon with four sizes: the chunk length,
`cbSize`, `numCoefs` and the canonical forty bytes.  What matters of the fields is that
contradictory ones are refused or resolved in a way the decoders can live with
(`CanBeConverted`, which includes the assertion in `convert_sample`; `AdmittedIsPlayable`), and that
the two copies of the G.726 checks, in the parser for tag 0x0045 and in the gate for tag 0x0064, agree
(`TagsAgree`).

Not told apart: the reasons of a refusal and the GUID's and the fields' bytes.  `RateBits` leaves the
overflow check of `bits_from_byte_rate` out: a product beyond `u32` is `None` in the code, and
at the two rates for which the result is used its quotient is not in 2 .. 5.

## 5. From the header to the samples

### The plan

`FrameCounts` has the frame estimates of every codec in saturating words, `FrameBudget` what
`open_decode` and `probe_inner` do with them: the payload cut to what is there, the declared count
that trims and never inflates, the duration budget and the output budget.

| model | code |
|---|---|
| `available`, `lengthKnown` | bytes behind `data_pos`; `byte_len().is_some()` |
| `declaredLen`, `declaredCount` | `declared_data_len`, `declared_sample_count` |
| `secs`, `decodeRate`, `outputCap` | `max_duration_secs`, `max_decode_sample_rate`, `max_output_bytes` |
| `planned`, `count`, `probed` | the plan's payload and total; `WavProbe::declared_frames` |
| `used`, `delivered` | what a decoder behind the plan takes and makes of it |

`Decode` is each codec's own arithmetic (bytes to codewords, blocks to headers and nibbles), written
from the decoders and not from the estimates, so that `EstimateIsInTheData` and `NothingIsLost` compare two
pieces of code.  A whole number stands for the `f64` of the duration.

### The windows

`PullWindows` is `for_each_input` under the loops that stream or collect PCM, G.711, G.722
and GSM.  The payload is a row of input frames; a sample is the number of the PCM frame it was decoded
from.  Stateless codecs number by the source's position, G.722 and GSM by what their decoder was fed.

| model | code |
|---|---|
| `fmt`, `mode`, `total`, `max` | the `DecodePlan` |
| `entry` | `decode_collect` or `pull_decode` |
| `pos`, `offset`, `size` | the source's position, the window in hand |
| `fed`, `decoded`, `out` | input frames the decoder has seen; frames delivered, and which |
| `Routine` | the match arms of `pull_decode`, `collect_mono`, `fill_split` and `pull_generic`, as what the routine takes the bytes for |

A read fails before the callback has seen the window, a callback fails behind the read: both leave `pos` ahead of
`decoded`.  `DeliveryContract` is the promise: frames in order, `Ok` only behind the last.  The
conversion itself is external: a kernel makes of one input frame the PCM frames it holds.

### G.726

`G726Stream` is the unpacker with `push`, `finish` and `reset`, under its three users: the windowed
walk of a WAVE file, the headerless `decode_g726`, and a caller who pushes chunks of any length into buffers of any
length.  `codes` is the history of the codewords; what the core makes of one is in `G726Scale`, which has
the scale factor, the speed control, the tone detector and the two poles with the tables of the
code.  The six zeros and the signal estimate reach them only as a sign, which is any of three at
every step there.

### ADPCM and GSM

`AdpcmWalk` is `visit_adpcm` with both block decoders: `take_block`, the header of a block and the walk over its
nibbles, stereo IMA in groups of eight bytes.  The predictor's arithmetic is left out; `made`
counts the frames.  `GsmBlock` is `decode_ms_block` and `decode_frame`: the 520 bits of a block, the history
that carries prediction across subframes, frames and blocks, and the two sets of log area ratios that swap roles.
A sample there is the number of the sample it was computed as.

### The session

`Session` is a caller who sniffs, probes and decodes on one source in any order.  The peek that each
begins with is modelled read by read, because a short read decides which
path `parse_header` takes; header and payload are one step each, as their modules show what happens inside.
The marker and the form behind it are told apart: `kind` is the marker, `wave` whether the form is `WAVE`.
A file may hold another one in its payload (`w64At`), so a peek that begins elsewhere than at zero
may find something.

## 6. Runs

| run | question | bounds | distinct states |
|---|---|---|---|
| `wav_writer` | does the writer keep its promises and its contract, whatever is called and whichever I/O call fails, and does every method return? | five specs, calls up to 6 bytes or samples, copy scratch 2, conversion scratch 5, up to five stale bytes, which is more than the shortest header | 205 480 |
| `riff_walk` | every order of chunks, and every size in every place: the right chunks win, each gets its own size and the header its own count, the walk ends | files of 7, 31 and 62 bytes for the order, 33 and 66 for the sizes; known and unknown length; four RIFF sizes | 673 674 |
| `w64_walk` | the same order for Wave64 | files of up to five chunks | 248 619 |
| `byte_source` | does a source of either kind, from every constructor, answer each call by what it asked for? | files of up to eleven bytes, calls for 0, 1, 3, 4 and 6, seek threshold 4, any number of calls, failures and short reads | 303 779 |
| `fmt_chunk` | is an accepted chunk consumed exactly? can what is let through be converted and played? do the tags agree? | every length from 14 to 50 with fifteen values of `cbSize`; about 2 400 formats at three lengths | 1 198 680 |
| `frame_budget` | is what is delivered admitted, in the data, and all of it? | words of 0 .. 500; all codecs; payloads of 0, 5, 20, 60 and 64 bytes; five declarations; 27 budgets | 1 118 147 |
| `pull_windows` | do the plan's frames arrive once and in order, by the right routine, with the cursor at most a window ahead? | windows of eight bytes, all formats with one to three channels, totals up to nine frames | 44 788 |
| `g726_stream` | are the codewords those of the bit stream, is an admitted stream decoded, does every push return? | windows of two bytes, payloads of up to seven, all widths and packings, buffers of 0, 1, 2 and 5 samples | 92 944 |
| `adpcm_walk` | does the nibble walk make the frames the estimate counted? | blocks of 3 to 17 and of 24 bytes, payloads up to 51 | 43 948 |
| `adpcm_walk_short` | is a plan with frames ever refused for its `block_align`?  It is: a finding | the same | stops at the violation |
| `session` | where does the next call begin, do sniff and decode agree, whose header is read? | files cut before, at and behind each marker and form, of the form `WAVE` and of another; one file inside another; any number of calls, failures, short reads | 1 573 440 |
| `kernels` | bits and history of the GSM block; ranges of the G.726 scale and poles | six frames with nine lags; two bursts of 250 codewords of one magnitude and one pattern of signs | 445 845 |

The type invariants are conjuncts of the inductive invariants of the proofs (`IInv`, `WalkInv`, `SourceInv`,
`FmtInv`, `PullInv`, `StreamInv`, `Ledger`, `W64Inv`, `BudgetInv`, `GsmInv`, `SessionInv`), and are established there.

*Bounds of the writer.*  `HeaderLen`, `Marker`, `SizeMax` (for `u32::MAX`) and `WordMax` (for `u64::MAX`)
are constants.  The instance keeps what matters of the real values: the order and parity
of the header lengths, an odd 32-bit limit, and a promoted header longer than the
classic one by less than the payload, so that source and target of the move
overlap.  A payload of about ten bytes crosses `SizeMax` and one of about fifteen
crosses `WordMax`, so with calls of up to six bytes the behaviours include: several calls
before, at and after the promotion; a promotion of an empty and of an odd payload; up
to four relocation chunks, the last one partial;
conversion chunks that do not divide a call; odd payloads with their pad byte; size refusals
of both kinds.  The specs cover one- and two-byte samples, mono and stereo, with and
without `fact`, float or not, and one that validation refuses.

*Bounds of the walk.*  Headers and pads keep their real lengths, which decide parity;
the least lengths of `fmt ` and `ds64`, the table entry, the sentinel, the word and the
seek threshold are constants, small enough that a file of about sixty bytes holds
up to six chunks and a skip may be longer than the file.  The word is odd, as `u64::MAX` is.  The run holds two
studies, told apart by
the file's length: those of 7, 31 and 62 bytes have no `ds64` and the others no `LIST`, because the order
of chunks and the assignment of sizes are independent questions and one instance with everything
would not finish.  `InStudy` restricts the sizes a header may state and nothing else.  No walk is cut: nothing
counts chunks, and a walk goes on until the code returns.

*Bounds of the source.*  A request may be zero, shorter than the scratch, equal to
the seek threshold, above it or longer than the file, and skips add up to more than the word; the files are
shorter and longer than the threshold.  The requests are far enough apart, and the longest file long enough, that an answer
to another request, a second skip that stays inside the file and an early end of the file are all steps the contract does not have.
The constructor may or may not learn the length, the cursor and the way back to the start.  Nothing counts the calls: the state space is finite
because `pos` and `cur` are.

*Bounds of the fmt chunk.*  Two studies again: chunks of every length with one format for each
tag, and all formats in chunks of three lengths.  The lengths cover every boundary of the code (16, 18, 20, 40) from
both sides and leave room behind each; `cbSize` values lie around 2, 8, 22 and beyond the chunk.  The fields
of the second study include zero, each limit and one value beyond it, and alignments
that do and do not divide by the channels.  The theorems lift both bounds.

*Bounds of the decoders.*  In words of 500 eight bits to the byte saturate for a payload of 64 bytes, as
`u64` does with a sentinel length, and for no shorter one, so the properties speak of payloads with several blocks, whole and
cut, of every codec; the budgets cut below, at and above the counts.  A window of `PullWindows`
holds one or several input frames, of one or several PCM frames, and the total cuts
the last one at every place; a container may be wider than its sample.  In `G726Stream` codewords of three, four and
five bits straddle windows of two bytes, and a buffer may be empty.  ADPCM blocks lie around every
header (4, 7, 8 and 14 bytes) and around two groups of stereo IMA.  The G.726 bursts are long enough for the slow scale
factor to come from one end of its range to the other; that any codewords may follow is what the theorem adds.
GSM lags lie below, at, between and above the ends of the clamp, and six frames are three blocks.

*Deadlock.*  The session checks for it: in any state a caller may call again, and a call that has begun
comes to its end.  Elsewhere it is off, because the modelled system stops: after a drop there is no writer, after
`parse_header`, the gate or the last frame there is nothing left to do.  `byte_source` checks it too.

*Fairness.*  `EveryCallReturns` assumes `WF_vars(Run)`: `Run` is the code's own control
flow within a method, which proceeds on the caller's thread without waiting on
anyone.  Nothing is assumed about the caller (calling, finalizing or dropping), nor
about I/O calls succeeding.  `WalkReturns` assumes weak fairness of the control flow of `parse_header`, `WF_vars(Walk)` in `FairSpec`
and `WF_vars(StudiedWalk)` in the run.  Wherever the one can go on the other can, so no behaviour is
left out as unfair, and a walk that never ends is one TLC would show.
`ReadFails` is outside it, so the walk has to end without the help of a failing read.
`EveryPushReturns` assumes `WF_vars(Running)`: `push` and the two loops around it run on once entered; reads and
callbacks that fail, and the caller who pushes, are outside it.

*What each property is for.*  The comment in front of each in its module says it.
The least obvious ones: `RelocationKeepsPayload` is about the overlapping move;
`PromotionCanRead` ties the open flags of one constructor to a seek-and-read many calls
later; `PromotedExactlyWhenNeeded` puts the size decisions of three functions side by side;
`NoLateRefusal` is why the chunked float writer may check
the size once; `OnlyIoErrorsAreTerminal` is why the early `state = Failed` in `write_pcm` does
not turn a refusal into a loss.  `SniffForetells` compares a peek of forty bytes with one of sixteen under every split into short
reads; `HeaderIsOfTheFile` is about the caller who retries without a rewind: only a source whose cursor stands on
a Wave64 marker of the payload reads another header than the file's.  `AdmittedIsDecoded` is why `n == 0 || consumed != want`
may be an error: `bytes_needed` counts the pending bits.  `PolesAreStable` is why
`i32::clamp` does not panic.

*The finding.*  `adpcm_walk_short`: the estimate of `pull/adpcm.rs` counts two (MS) or one (IMA) frames for a
block that is shorter than its own header, its comment says that it "Matches the nibble walk", and the walk refuses such
blocks.  `probe` announces frames for such a file, and the decoders return an error for it.

## 7. Theorems

`WavWriterProofs` proves, for all header lengths, limits, scratch sizes, specs, call
sizes and stale lengths that satisfy `LayoutAssumption` and `WriterAssumption`:

* `Inductive`: `Spec => []IInv`;
* from it `TypeCorrect`, `RelocationSafe`, `PromotionReadable`, `OpenPositioned`,
  `PromotedRight`, `FinalizeNeverTooLarge`, `FinalizedComplete`, `RefusalsRecoverable`;
* `FailureStays`: `Spec => FailureIsTerminal`;
* with `FloatInv`, `SliceIsAllOrNothing`;
* `WriterRefinesContract`: `Spec => ImplementsContract`.

*Assumptions.*  `LayoutAssumption`: header lengths are positive, hold the RIFF marker, and a
promoted header is no shorter than the classic one (a shorter one would need the move to
start at the other end); `u32::MAX < u64::MAX`.  `WriterAssumption`: a frame is
whole samples and fits the conversion scratch; scratches are not empty.

*Argument.*  None of the invariants is inductive by itself: `OpenWriterIsPositioned` after
`tailSeek` and `payload` depends on where the cursor and the bytes were at each of the
eleven steps before.  `IInv` (in `WavWriterInv`) states that for every `pc`:
`ControlInv` says which locals and field values go with a step; `LayoutInv` which promotion may
have happened and that a sink that may be promoted is readable; `AlignmentInv` that
sizes are whole samples (the RIFX swap depends on it); `PayloadInv`, `PromoteInv` and
`FinalInv` what the sink holds between calls, during the move and during `finalize`;
`SizeInv` that what is accepted fits.  The proof has one lemma per action and under it one
step per part of `IInv`; the lemmas about `Splice`, `Slice` and the two kinds of writes (over
the header slot, behind the payload) carry the reasoning about bytes.  The
core of the move is that a chunk of `CopyLen` bytes goes to a place at or above
the one it came from, so everything below it stays.

`FloatInv` adds the books of `write_f32_samples`: what was written together with what is left to convert still has the verdict the whole
slice had, also behind a promotion in the middle of it; and where a size is accepted every smaller one is (`VerdictMonotone`), so
no chunk can be refused that the slice was not.

The refinement shows that every step of the writer is one step of `WriterContract` under the mapping of
`WavWriterContract`, or leaves the contract's variables alone.  While a method runs the code has already set the state it would
be left with, and the contract still sees an open writer.  `FileReadsBack` is where the bytes of a finalized
file meet what the contract promises of it: the header tells its own size, the payload is there, and the
reversal of every sample that RIFX needs is undone by the same reversal (`MirrorFacts`).

### The walk

`RiffWalkProofs` proves, for all file lengths, size fields, size tables and constants that satisfy
`SourceAssumption` (a file is at least 8 bytes shorter than `u64::MAX`) and `WalkAssumption`:

* `WalkInductive`: `Spec => []WalkInv`;
* from it `WalkTypeCorrect`, `CounterInStep`, `WalkStaysOnChunks`, `FirstWins`,
  `Rf64HasDs64`, `NoCounterOverflow`;
* with `CountInv`, `NumbersRight`; with `TableInv`, `LookupsInOrder`;
* `ReturnsInTime`: `Spec => WalkAdvances`.

*Argument.*  What the properties say holds at the end or before a chunk; the invariant
says it in every step.  `PlaceInv`: before a chunk, counter, position and end of the last
chunk agree or the position is behind the end of the file; in a body the counter has
already been advanced by the length of the chunk, except for a sentinel of `ds64`, `data` and `fmt `,
and it saturates.  `FmtInv`, `DataInv` and `Ds64Inv`: what the walk holds is the first chunk
of its kind among those passed, and if it holds none, none was passed.  The key lemma is
`PassKeeps`: whichever way a body is read or skipped, if the skip succeeded the walk stands
on its end or behind the end of the file.  `FirstStable` says that a first chunk stays first while
the history grows.  That a chunk's padding, decided from the counter, is the one the position needs
is the parity argument in `HeaderStep`: the form is twelve bytes, an even number.

The table of `ds64` only gets shorter, and what it was is in `seen`.  `TableInv` keeps two maps into the original
table, from the entries that are left and from the chunks whose size was looked up (`Origins`): both are
increasing, together they are onto, and of each tag what was taken lies before what is left.  A lookup takes the first
entry left with its tag and moves it from one map to the other; that it is the *n*-th of its tag for the *n*-th such chunk
is then a statement about two finite sets of the same cardinality.

`CountInv` says of the two sample counts in hand what `FmtInv` and `DataInv` say of the chunks: `dsSamples` is what the first
`ds64` states, `factSamples` what the last counting `fact` states among the bodies read.

`ReturnsInTime` is what can be proved of termination without fairness.  `ToGo` is the bytes in front of the walk and up to four steps,
by `pc`; `WalkAdvances` says that every step lowers it and that it stays a natural number.  So `parse_header` takes at most
as many steps as the file has bytes, and four, on every file: an empty chunk still costs its header of eight bytes,
and a position behind the end is followed by the end of the walk.

### The Wave64 walk

`SourceProofs` proves `WalkInvariant`, `ChunksFollow` and `FirstChunksReturned`, for all file lengths, size fields and
constants that satisfy `SourceAssumption` and `WalkAssumption` of `W64Walk`.  *Argument.*  `W64Place` says where
the walk stands by the last chunk seen, unless it is behind the end of the file: on its body, on its end, or on the
multiple of eight from there on (`RoundedUp`).  `FirstFmt` and `FirstData` are as for RIFF.  `LastCount` says that the
sample count held is that of the last `fact` that states one; a chunk whose body is not yet read states none.
`FinishStep` covers both ways the header is returned, from the data chunk in hand and from the pending one.

### The source

`SourceProofs` proves, for all file lengths, requests and scratch sizes that satisfy
`SourceAssumption` and `ByteSourceAssumption`:

* `SourceInvariant`: `Spec => []SourceInv`, and from it `TypeCorrect` and `PositionIsCursor`;
* `Implements`: `Spec => ImplementsContract`, for memory and readers from every constructor.

*Argument.*  `SourceInv` relates position, count to go and bytes delivered in the middle of a
call: `CallInv` (a read has moved by what it has counted, a skip that tries to seek has not
moved and lies inside a file whose end is known), `GotInv` (the bytes delivered are those from the
first position on, and once there are any the position is inside the file), `NotAhead` (also a count
that misses the reader's start is only behind, which bounds it).  Each action has a lemma
that it keeps the invariant and is a step of the contract or changes nothing the contract
sees; the answer carries the method and the number asked for, so the step has to be that of the very call; `PlacesJoin` says that two stretches of the file read one after the other are one.

### The fmt chunk

`HeaderProofs` proves, for every set of lengths, fields and options of the types in
`FmtAssumption`:

* `Invariance`: `Spec => []FmtInv`;
* from it `TypeCorrect`, `Consumes`, `StaysInChunk`;
* `Convertible` and `TagsAgreeAlways`;
* `Playable`.

*Argument.*  `ConsumesExactly` speaks of the end of a branch; `PlaceInv` says for every step how the
bytes consumed and the bytes to come add up to the chunk, or to its extra part.  `BranchInv` remembers
what the checks before the first read established, `CodecInv` that only tag 0x0064 is left open.
`FormatFacts` goes through the formats a branch can yield; `ForcedIsFixed` says that at the only rate
the gate admits, the two copies of the G.726 checks are one.  The invariant that is shown
inductive, `Kept`, adds `CanBeConverted` and `TagsAgree` to `FmtInv`.  `Playable` needs `G726Inv` as well, which carries from the parser,
or from the gate that resolves tag 0x0064, what the two fields that state the codeword width agreed on.

### The windows of the pull

`PullWindowsProofs` proves, for windows, blocks, totals and formats of every size that satisfy
`PullAssumption`:

* `PullInvariant`: `Spec => []PullInv`;
* from it `CursorStaysAhead`, `RouteIsRight`, and `DeliversThePlan`: the loops implement `DeliveryContract`.

*Argument.*  `PullInv` relates the plan, the window in hand, what the decoder was fed and what was delivered at every step:
the first `decoded` cells of the output are the numbers of the first frames, `decoded` is what the first
`offset` input frames hold, and in the callback the window is the stretch from `offset` to `pos`.  That the last window is
clipped to the total rests on `Inputs` being the rounded-up quotient.  Each action of the loop is `Deliver`, `Finish`,
`GiveUp` or a stutter of the contract.

### G.726

`G726StreamProofs` proves, for payloads, windows and buffers of every length (`G726Assumption`):

* `StreamInvariant`: `Spec => []StreamInv`, and from it `AdmittedStaysDecoded`;
* with `WordsInv`, `CodewordsAreTheStream`.

*Argument.*  `BitsAccounted`: eight times the bytes consumed since the last `finish` is the codewords made, in bits, and
what is pending, which is at most seven bits between pushes.  `Looping` says of a running push that its slice holds a
codeword more than was delivered and, in a window, no whole byte more than the samples asked for.  From the two, a
push that ends for want of bits has made a codeword, and one that ends for want of room has read its slice.
`BytesSuffice` is the arithmetic of `bytes_needed`.

That a codeword is the next run of bits is stated bit by bit (`Holds`), which needs no recursion and no theorem by
induction.  `WordsInv` says the same of what is pending: its `nbits` bits are those of the stream behind the codewords
made so far.  `TakenHolds`, `RestHolds` and `PushedHolds` are the three things `next_code` and `push` do to it, in each packing: a
quotient and a remainder by a power of two, and a sum with a shifted byte.  The powers are the thirteen that an accumulator
of twelve bits can need, so the arithmetic is decided case by case.

`KernelProofs` proves `ScaleStaysInRange` and `PolesStayStable` for any sequence of codewords and signs.
The ranges are inductive for the fast factor and the averages by their leaks; the mixed factor is a weighted mean of
the other two, so it keeps to their range; for the poles the bound of the new `a1` makes the clamp of `a0` well ordered.

### GSM

`KernelProofs` proves `BlocksAreUsedUp` and `HistoryContinues`, for any number of blocks with any lags and grids.  *Argument.*
`GsmInv`, whose parts are in `GsmBlock`: `BitsInv` counts the bits before every step, the second frame of a block beginning at
bit 260; `RefInv` says that `ref_buf` holds the stream without a gap up to the last subframe decoded; `RatioInv` that the set of ratios
that is not current is that of the frame before; `HistoryInv` that the source of a subframe lies in the 120 samples
behind it.  The last rests on the clamp of the lag to 40 .. 120 (`LagRange`, `SourceIndex`).

### The plan

`PlanProofs` proves, for payloads, formats, declarations, limits and words of every size that satisfy
`CountAssumption` and `BudgetAssumption`: `BudgetInvariant`, and from it `BudgetsHold`, `PlanIsInTheData` and `NoFrameIsLost`.
`CountAssumption` says of the constants of GSM that a block has more bits than samples, as 65 bytes and 320 samples do:
without that the count of frames could saturate before that of bits.  *Argument.*  A decoder moves by whole units (a
frame, a block, a byte of G.726), so `Decoding` says that it has taken *m* of them and delivered what *m* make.  `UnitIsThere`: as long
as fewer frames were delivered than planned, the estimate of the whole payload is above what *m* units make, hence there is
one more unit; this is where the estimates of `frame_layout` meet the arithmetic of the decoders, codec by codec.  `NoUnitIsLeft` is
the other direction: when everything planned is delivered and no smaller count was declared, less than a unit is left.

### The session

`HeaderProofs` proves, for every set of files that satisfies `SessionAssumption`, `SessionInvariant`, `NextCallIsFresh`,
`SniffIsRight` and `HeaderIsFound`.  *Argument.*  What two calls have in common is only the file and the cursor, so the
invariant says of each call what it has seen of the file.  `PeekIsFull`: a peek ends with its whole prefix or at the
end of the file, however it was split, so that from the start it is the file's own beginning.  `SniffIsTrue`: a
sniff from the start answers what the file is, and behind it the next call begins there.  `FormIs`: for a call that begins at the
start the form is accepted exactly of such a file, by either way of `parse_header`.  `AnswerFitsForm` keeps
the answer and the form together until the call returns.

### ADPCM

`PlanProofs` proves, for blocks and payloads of every length, `WalkInvariant`, `EstimateIsExact` and
`WalkIsComplete`.  *Argument.*  `Decoded` keeps the books of a block: the frames made are a function of the bytes reached, in whole groups for
stereo IMA.  `Ledger(m)` keeps those of the payload after `m` blocks: bytes read, bytes left, frames delivered.  `Promise` says
that the total is no more than the whole blocks give, so the walk never runs out of blocks, nor out of a budget the plan passed.

*Model-checked only.*  `EveryCallReturns`, `WalkReturns` and `EveryPushReturns`: they are liveness properties under
weak fairness, and the prover has no rules for `ENABLED`.  `ReturnsInTime` proves the part of `WalkReturns` that is safety:
the bound on the steps.  Every other property of a passing run is the statement of a theorem.

## 8. Not modelled, and why

* `force_rf64` of the writer: test-only code.
* The bytes the encoders write inside `fmt `, `fact` and the extensible GUIDs: constants of the encoder,
  compared with golden files by the repository's tests.
* `convert/*`: floating point and SIMD lanes, for which TLA+ has no numbers; the repository compares every lane width with
  the scalar code.  Which of them a plan reaches is modelled (`Routine`).
* The numeric kernels whose outcome no control depends on: the sub-band predictors of G.722, the zeros
  and the signal estimate of G.726, the lattice filter of GSM, the predictor of an ADPCM nibble, the G.711 tables.  The
  repository holds them to reference vectors.
* `read*` and `take_mono` of `wav.rs`: they open a path, call what `Session` models and report an empty result.
* The reasons and texts of errors, where no behaviour depends on them.
* Benches, fuzz targets and vendored code.

## 9. Running

In this directory: `tlc -config MCWavWriter.cfg MCWavWriter`, likewise for the other configurations (each is named after its
module; `MCAdpcmWalkShort.cfg` is the second one of `MCAdpcmWalk`), and `tlapm WavWriterProofs.tla`, likewise for the other
modules whose name ends in `Proofs`.
