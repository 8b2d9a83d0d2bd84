# rav1e's control logic in TLA+

rav1e is an AV1 encoder. Most of its lines compute on pixels; this project is
about the rest: the code that decides which frame is encoded when, from which
references, by which task, and what the application gets back. That code is
small, it is full of counters that must agree, and a mistake in it is not a
worse picture but a lost frame, a stream that no decoder can follow, a panic or
an encoder that never finishes. The repository also has a small codec of its own,
O3YV, with an encoder, a decoder and a player for the 3DS; its control is here
too.

Paths below are relative to the repository (`src/api/internal.rs` and so on).
Contents: [inventory](#1-inventory), [modules](#2-modules-and-the-code),
[runs](#3-runs), [bounds](#4-bounds), [fairness](#5-fairness),
[proofs](#6-proofs), [findings](#7-findings),
[what is left out](#8-what-is-not-modelled), [plan](#9-plan).

## 1. Inventory

### Frame pipeline: `src/api/context.rs`, `src/api/internal.rs`

State: `Context` has `is_flushing`; `ContextInner` has the input queue
`frame_q`, the number of accepted frames, the `limit`, the set of keyframes and
the next frame to decide about, the GOP start of every output position, one
`FrameData` (or a placeholder) per output position, the number of the next
output frame and of the frames finished, the bytes of the packet in progress,
and queues of opaque data and T.35 metadata.

Operations: `send_frame` (with a frame, or `None` to flush), which queues, takes
keyframe decisions and then builds frame invariants as far as the lookahead
allows; `receive_packet`, which skips placeholders, encodes one frame, hands its
reference buffer on to the frames built after it, emits a packet if the frame is
shown, and collects garbage. Everything is sequential: both take `&mut self`.

Hard: the three numberings (input, output, coded) and the re-ordering of groups
of four frames; a keyframe in the middle of a group, which turns the rest of it
into placeholders that are skipped later; decisions that must be taken before
the invariants that depend on them are built; what may be collected; the end of
the stream, where lookahead conditions change meaning.

Correct means: packets in display order, one per frame; forced and periodic
keyframes where they belong; per-frame data with its frame; every lookup that is
unwrapped succeeds; after a flush the encoder finishes and asks for nothing.

### Re-ordering arithmetic and references: `InterConfig`, `src/encoder.rs`

`InterConfig` is a stateless table of a group's positions. `FrameInvariants`
derives from it which of the eight reference slots a frame reads and refreshes;
`update_rec_buffer` applies the refresh. The decoder repeats this from the
headers alone. Correct means that the two never diverge.

### Single channel: `src/api/channel/mod.rs`, `data.rs`

A task on the pool owns a `ContextInner`, receives frames from a bounded
channel, sends packets through an unbounded one, and, in two-pass encodes, sends
or receives one packet of statistics per coded frame. The endpoints are held by
the application, which may use or drop each at any time. Hard: the loop decides
with one condition (`needs_more_fi_lookahead`) that another function's answers
will be acceptable, and panics otherwise; two inputs of different pace.

### By-GOP channel: `src/api/channel/by_gop.rs`

Four kinds of task on one pool: `scenechange` cuts the input into SubGops,
`encode` dispatches each GOP to a worker, workers run an encoder per GOP,
`reassemble` puts packets back in order and finally stops the workers. They
share six kinds of channel. Hard: everything that concurrency makes hard, and a
pool that may have fewer threads than there are blocking tasks.

### Rate control: `src/rate.rs`

Quantizer selection is numeric. The two-pass protocol around it (`twopass_in`,
`twopass_out`, a ring buffer of frame metrics, `ready`) is a state machine of
its own, called by `Context` and by the channels. The second pass wants metrics
for a window of TUs ahead; the window is counted in TUs, the buffer in frames,
and the data arrives in packets or in pieces of any size. Correct means that
each frame is coded with its own metrics, data of a first pass is never refused,
and the second pass never waits for data that does not exist.

### Tiles and the loop filter queue: `src/tiling/`, `src/lrf.rs`, `src/encoder.rs`

A frame is divided into tiles and, per plane, into loop restoration units of
other sizes. `encode_tile` keeps encoded superblocks in a queue until the units
they belong to are complete, has the filters decided for the area of the largest
unit, and codes a unit's parameters in front of its first superblock. Hard:
edges. Units stretch, tiles end anywhere, planes differ. Correct means that the
assertions hold, the queue drains, nothing is written undecided, and units are
coded where a decoder reads them.

### Writing symbols: `src/ec.rs`, `src/context/cdf_context.rs`

Mode decision writes blocks to a `Recorder`, adapting CDFs, and takes both back:
`CDFContextLog` saves the old words of every CDF, always a fixed number of them,
so entries overlap and the order of undoing them matters. What is kept is
replayed into the `Encoder`, whose carries are resolved at the end. Correct
means that rolling back restores, and that a decoder reads what was kept.

### O3YV: `src/bin/rav1e-o3yv.rs`, `minidecoder/`, `old3ds/`

The encoder codes raw keyframes and P-frames of macroblocks within a rolling
window of bytes and predicts from its own reconstruction. The decoder alternates
two pictures, fills in what a tile does not code, lazily or beforehand, and is
reused from stream to stream, after errors too. The player benchmarks the
decoder and then plays the stream in a loop until it is told to stop. Correct
means that the decoder shows the encoder's reconstruction, that the window is
exceeded only where the tool says so, and that the player stops.

### The rest

Lookahead cost estimation, mode decision, motion search, transforms,
prediction, loop filters, quantization, block syntax, SIMD kernels, OBU syntax,
the C API and the command line tools. Section 8 says why they are not modelled.

### How they interact

    application --frames--> Context / channel task / scenechange
                              |  (send_frame)            | SubGops
                              v                          v
                         ContextInner <--- one per --- workers <-- encode
                              |  (receive_packet)        | packets per GOP
                              v                          v
    application <--packets----+<------------------- reassemble
                   |
                   v
                 decoder (its eight slots must equal the encoder's)

## 2. Modules and the code

| Module | Models |
| --- | --- |
| `FrameService` | the promise: frames in, the same frames out in order, all of them after a close |
| `InterConfig` | `InterConfig`, and the slots of `FrameInvariants::new_inter_frame` |
| `EncoderPipeline` | `Context` and `ContextInner` |
| `EncoderPipelineProofs` | theorems about `EncoderPipeline`, and that it implements the order of `FrameService` |
| `DecoderSync` | the pipeline beside a decoder (external: the AV1 reference process) |
| `DecoderSyncProofs` | theorems about the reference buffers: `EncoderPipeline` alone and beside the decoder |
| `RcState` | the second pass of `RCState`: its window, its ring buffer, `ready` |
| `ChannelEncoder` | the single channel: a task around the pipeline and `RcState`, and its endpoints |
| `RateTwoPass` | both passes through `Context`, with the statistics file between them |
| `GopSplit` | `SceneChange::split` and `Config::scenechange` |
| `ByGop` | the by-GOP channel: application, four kinds of task, channels, pool |
| `ByGopProofs` | theorems about `ByGop` |
| `ChannelProofs` | theorems about `ChannelEncoder`, on top of those about the pipeline |
| `Tiling` | `TilingInfo`, tile rectangles, restoration units |
| `LfQueue` | `Sequence::new`'s search for tiles, `encode_tile`'s queue, which decisions `rdo_loop_decision` takes |
| `RangeCoder` | `Encoder`, `Recorder`, CDF adaptation, the `Reader` of the tests |
| `SymbolWriter` | `ContextWriter` and `CDFContextLog` over the writers of `RangeCoder` |
| `IntegerCodes` | Golomb, quasi-uniform and subexponential codes, and their bit counts |
| `TileProofs` | theorems about `LfQueue`, `SymbolWriter` (rollback) and `IntegerCodes` |
| `BitstreamProofs` | theorems about `RangeCoder` in `SymbolWriter`: the bytes decode |
| `O3yvCodec` | tiles of O3YV macroblocks, encoded and decoded |
| `O3yvLoop` | the O3YV encoder's loop beside the mini decoder |
| `O3yvRate` | which O3YV frames are keys, and which candidate a P-frame is written from |
| `StreamProofs` | theorems about `O3yvLoop`, `O3yvRate` and `RateTwoPass` |
| `BoundedRecursion` | induction and recursion on `0 .. n`, for the proofs |
| `Old3dsPlayer` | the 3DS program: benches, playback loop, exit |
| `MC*` | the sets that the configurations use; `MCSequential` joins six machines in one run |

Definitions keep the names of the code where TLA+ allows it. A definition whose
comment starts with "Mutation:" is a plausible mistake in the definition after
it; it is part of no specification and shows that a property can fail.

**EncoderPipeline.** Each variable is a field of the same name; maps are
functions with a finite domain, `Option` is `NoLimit` or a marker. `send_frame`
is not one step: `SendFrame` and `Flush` queue the input, and then `pc` goes
through keyframe placement (`PlaceKeyframe`, or `StartRemaining` and
`PlaceRemainingKeyframes` after an end mark) and through the rounds of
`compute_frame_invariants` (`BuildKeyFrame`, `BuildInterFrame`,
`BuildPlaceholder`, until `InvariantsDone`). No other call can start before `pc`
is back at "idle", as in the code. `receive_packet` is one step with four
outcomes; `Refusal` lists its early returns in their order, and a refused call
keeps the code's side effect of having skipped placeholders. Packets and the
parameters of accepted frames are kept as history (`packets`, `sent`).

Pixels are replaced by provenance: a reference is the output frame it came from,
with its order hint, and whether it is the original picture (the lookahead's) or
the reconstruction. That is what the properties about references need and no
guard in the code depends on more. The scene change detector is a separate crate
and may say anything about the frames of `SceneCuts`.

**DecoderSync.** `dec` holds eight slots and what was displayed. It sees only
what `BitstreamFrame` writes; `uses`, the pictures the encoder predicted from,
is compared with the decoder's own. Order hints have seven bits and
`get_relative_dist` wraps.

**RcState, ChannelEncoder, RateTwoPass.** `rc` is the part of `RCState` that
decides whether a frame can be coded and with whose metrics. Metrics are the
number of their frame and whether it was shown; the counts per frame type are
only ever summed, and are one number. `ChannelEncoder` extends the pipeline:
`task` is the position of the task's closure (in the `for` loop without a frame,
with a frame in hand, inside one of the two `send_frame` calls, in the final
loop, ended or panicked) and it calls the pipeline's own actions. `unwrap`,
`todo!` and `unreachable!` are the task value "panic". `RateTwoPass` has the byte
level that the channel does not: `twopass_in` with pieces that end anywhere in a
header or packet, beside the packet interface, and calls nobody had to make. Its
frames are given as flags, shown or hidden, with what `TwoPassAssumption` says of
the streams that the pipeline produces: the last frame is shown, and in no
stretch are there more than two more hidden frames than shown ones, since a group
hides two and shows them before it ends. That both passes code the same frames is
what `ChannelEncoder` shows (`PassDataComplete`, `SecondPassInStep`).

**GopSplit.** The lookahead vector always holds consecutive frames, so two
counters represent it. `split` is translated with the detector's answer as its
parameter and the send that follows it.

**ByGop.** Channels are counters or sequences with the capacity of the code's
(`SubGopCap`, `InputLen`; unbounded ones have none). A worker is waiting, in its
encode loop, or between offering itself and dropping its WorkLoad: the code does
these in that order and the gap is visible to others. A worker's encoder is the
service that `EncoderPipeline` is shown to implement. `started` is how many
tasks the pool has begun; a task holds its thread until it ends, also while it
is blocked.

**Tiling, LfQueue.** `Tiling` is the arithmetic, on one frame description `f`;
`LfQueue` chooses tiles as `Sequence::new` does, then encodes the tiles one after
the other (they share nothing), one superblock per step, each step with the whole
of `check_lf_queue` that follows it in the loop. A decision is whether all
the blocks it saw were encoded; costs and pixels are left out, and so is the early return
of `rdo_loop_decision` for areas without coefficients. Both values of
`enable_delayed_loopfilter_rdo`, `enable_large_lru` and `enable_restoration` are
covered.

**RangeCoder, SymbolWriter, IntegerCodes.** The arithmetic is the code's, with
its widths: 16-bit range, the window of bits, carries kept in 16-bit words.
`fc` in `SymbolWriter` is memory, a sequence of words with CDFs at offsets, so
that the overlap of log entries and the padding after the last CDF are what they
are in `CDFContext`; lengths and the limits of the two parts of the log are
scaled down. A rollback restores a checkpoint taken earlier; nested checkpoints
are `marks`. The AV1 decoding processes that `IntegerCodes` and
`BitstreamDecodes` compare with are external or the tests' `Reader`.

**O3yvCodec, O3yvLoop, O3yvRate.** The pixels of a macroblock are one value that
is copied from another macroblock of the reference (clamped at the borders), has
a residual added (clipped) or is raw. `COPY` stands for the eight copy modes. The
encoder's choice for each macroblock is arbitrary among those `choose_mb` can
make. In `O3yvLoop` the decoder's two pictures, `has_reference`, the swap and
the error paths are the code's, and a frame may be damaged on its way. `O3yvRate`
has the frame decisions on their own: candidates are a size, whether they satisfy
the caps, and a distortion class; whether the next frame is a scene change is
arbitrary but, as in the code, known one frame ahead.

**Old3dsPlayer.** `at` is the place in the program. The answers of the decoder
are a fixed stream of frames that ends or fails, the same after every reset, as
`O3yvLoop` has it; libctru (buttons, `aptMainLoop`, the Y2R hardware) is
external.

**MCTwoEncoders.** The re-ordering pipeline and the O3YV loop, which share
nothing, are checked in one run: `encoder` says which one a behaviour is of.

**MCSequential.** Six machines without concurrency between them share one run:
the variable `machine` says which one a behaviour is of, the others do not move,
and the fairness of a machine is assumed only in its own behaviours.

## 3. Runs

Passing runs; the properties' exact statements are in the modules.

| Run (configuration) | Question | What it shows |
| --- | --- | --- |
| `two_encoders` (`TwoEncoders`), rav1e | Can forced keyframes at any frames and a flush at any time, with polling in between, break what the application sees? | `InDisplayOrder`, `ForcedKeyframesHonoured`, `OpaqueDelivered`: no frame is lost, repeated, swapped, or given another's data. `NeverStarvedAfterFlush`: what was accepted is enough to finish. `LookaheadEnds`: `send_frame` lays out at most a group of positions for each frame, so its loop ends. |
| ... O3YV codec | Can any tile, skipped picture, failed frame or reuse of the decoder make it show something else than the encoder's reconstruction? | `ClosedLoop`: it shows that, to the pixel. `UndamagedDecodes`: a stream nobody damaged decodes. `LoopTypeOK`: pixels in range, whole pictures. |
| `sync_reorder` (`SyncReorder`) | Can scene cuts anywhere in a group leave a decision too late, a lookup empty or a decoder out of step? | `DecidedBeforeBuilt`, `NeededIsResident` with a lookahead of two, `KeyframeIntervalRespected` across interval, cuts and end of stream. `NoDrift`: every inter frame is predicted from the same pictures on both sides, with the same sign biases. `DisplaysInput`: show-existing-frames display the right picture, the packet's reconstruction is what is displayed. |
| `sync_lowlatency` (`SyncLowLatency`) | Without re-ordering, with S-frames that refresh every slot and a second pass that may not be ready: does a flush end? | `TypeOK` (slots stay within eight); `FlushCompletes`; `ImplementsService`: the pipeline refines `FrameService`, its liveness included. |
| `channel_two_pass` (`ChannelTwoPass`) | Is the first pass's data what a second pass with a ring buffer needs, at any relative pace of frames and data, with `None`s among the frames and receivers dropped at any time? | `PanicsOnlyIfAbandoned`: only dropping an endpoint makes the task panic. `PassDataComplete`: statistics for each coded frame. `SecondPassInStep`: each frame is coded with its own metrics. `ChannelEnds`: no wait for data that never comes. `ChannelImplementsService`. |
| `bygop_flush` (`ByGopFlush`) | Can the interleaving of five tasks corrupt the stream or the tables, and does dropping the sender flush? | `DeliveredInOrder`, `GopsStartAtCuts`, `OneGopPerWorker`, `SplitInBounds`, `TypeOK`; `DropFlushes`: all packets out and all tasks ended; `ImplementsService`: the order guarantee of `FrameService`. |
| `sequential` (`Sequential`), tiles | Do tiles, units and queue agree at every edge? | `DivisionSound`: the assertions on tiles and units hold. `QueueDrains`: the assertion at the end of `encode_tile`. `DecidedBeforeWritten`: only what was decided from encoded blocks is written. `LrfCodedWhereRead`: units are coded where a decoder reads them, once. |
| ... symbols, codes | Does what is tried and undone leave a trace, and can everything be read back? | `RollbackComplete`: the CDFs, the recorder and the encoder are what the symbols that were kept make them. `BitstreamDecodes`. `CodesInvert` (decoding gives the value and uses all bits; the bits counted are the bits written). |
| ... two passes | Data in packets or pieces, calls at any time, a ring buffer that wraps | `MetricsOfTheSameFrame`: and no data is refused. `SecondPassCompletes`: no wait for bytes that do not exist. |
| ... O3YV rate | Is the rate kept, and room for the keyframe that is known to come? | `OverrunsAnnounced`: only a keyframe by gap, or a frame with a warning, exceeds the window, and quality recovery does not, but for the slack that its reserve accounts for. `ReservedKeyFollows`: the reserve is used by the next frame and suffices. |
| ... player | Does the player end when the system asks? | `CloseExits`, from every place in the program. |

They explore, in this order, 60 000 and 4 200 000 (the first two rows are one
run), 147 000, 10 000, 161 000, 122 000 and 146 000 distinct states (the last five
rows are one run), each in about two minutes or less.

Runs that must end in a counterexample, `pipeline_t35`, `pipeline_limit`,
`channel_one_frame`, `bygop_few_threads`, `player_start` and `tiles_reached`, belong to the findings
of section 7.

`FrameService` ties the layers together. `EncoderPipeline` implements it;
`ByGop` uses it as the behaviour of a worker's encoder and implements its order
guarantee again; `ChannelEncoder` implements it as a whole.

## 4. Bounds

`MaxFrames` caps what the application sends. In re-ordering mode a group is four
input and six output frames:

- 9 frames (`two_encoders`) are a keyframe and two
  groups; with `MaxKeyFrameInterval = 5` the interval, a forced keyframe and the
  end of the stream can each fall on every position of a group.
- 24 frames (`sync_reorder`) with a keyframe interval of 21 allow five groups in
  a GOP. The level-0 slots rotate through four, so the slot of the first group is
  overwritten in the fifth; the interval is met after a cut and without one. Cuts {2, 5, 7, 8, 11} are
  first, middle and last positions of a group and two adjacent frames, and any
  subset of them may happen.
- 12 frames (`sync_lowlatency`) in groups of one rotate the slots more than
  twice, with an S-frame every third frame and an interval of 10.
- 13 frames (`channel_two_pass`) are two full groups, each followed by a keyframe
  by interval, and a partial group: enough for the task to poll with a frame in
  hand (the lookahead is full after 12) as well as after the end of the input,
  and 18 coded frames for a ring buffer of a delay of three TUs, so it fills and
  wraps. The application may send `None` and drop the packet receiver or the pass
  data sender. `MaxPassIn = 1` caps the pass data in flight, whose channel is
  unbounded: the task takes one packet at a time and only when it needs it, so
  packets that wait behind the first change nothing but the count.
- The i32::MAX frames of rate control are scaled to `RcFrameLimit`: 1000, out of
  reach, and 6 in `pipeline_limit`, which is about what happens there.

In the by-GOP run `pyramid_size = 2` makes SubGops of four frames and a
lookahead of four; 9 frames give up to five GOPs of very different lengths for
two workers, so workers are reused, finish in both orders and are idle. Cuts
{1, 3, 4, 6} include adjacent ones (a one-frame GOP) and one that falls on a full
SubGop. Input capacity 2 makes the sender block. Safety does not depend on these
numbers: section 6.

In `two_encoders` two eyes of two macroblocks with two pixel values are enough for
every relation a tile can have to the picture before it and the one before that:
a macroblock copied from itself, from its neighbour and from beyond the border,
skipped, raw, with a residual that clips; lazy base copy for at most one
macroblock, so that tiles fall on both sides of the limit. Section 6 proves the
properties for all sizes.

In `sequential`:

- frames of one to ten superblocks by one to six, in 4:2:0, 4:2:2, 4:4:4 and
  monochrome, with remainders of less and more than half a unit, large and small
  units, tiles by logarithms and by number, CDEF and restoration on and off. The
  limits on tiles are scaled down (512 pixels wide, 131072 pixels, four columns
  and rows) so that they apply to such frames;
- four symbols and two nested checkpoints over CDFs of two to five symbols in
  both parts of the log, next to each other and at the end of memory, even and
  extreme. The tests' `Reader` has a window of 24 bits instead of 32, which keep
  TLC's integers in range;
- integer codes: all values and references of all intervals up to 9 (17 for the
  quasi-uniform code) and of those of two Wiener taps, Golomb codes up to 69;
- streams of a single frame, of a short group and of groups that wrap the ring
  buffer; headers and packets of two bytes and pieces of up to five, so a piece
  may end within either, at the end of either, or hold several;
- 12 frames, keys at least every five, a window of four frames and eight bytes
  with keys of three: keys by gap and by scene, alone and together, fit and do
  not fit;
- a player with two bench iterations of at most three frames and five samples, so
  that streams are shorter than the bench, longer, and fill the samples.

No symmetry is declared: workers are in an ordered queue from the start, and the
other sets are ordered or of different things.

## 5. Fairness

- Pipeline (`FairSpec`, `SyncFairSpec`): a call that has started returns (`SendFrameReturns`),
  and the application keeps calling `receive_packet`, as the loops in the
  documentation of `Context` and in the binaries do. Nothing makes it send or
  flush.
- Channel (`ChanFairSpec`): the task's thread runs, and an application in a
  second pass sends the pass data it was given (`RcDataSender`); nothing is
  assumed of its frames.
- By-GOP (`Fairness`): weak fairness for each task separately, and for the pool.
  A worker is not required to output while its GOP is open, since its encoder's
  lookahead may hold frames back; once closed it must. Sending and dropping are
  up to the application.

- Two passes (`TpFairness`): the frames are coded, and the application writes
  and feeds the file, in packets or at least a byte at a time.
- Player (`PlayerFairness`): the program runs. The user need not press anything
  and the system need not close.
- The other machines have no liveness property and no fairness.

The passing runs check deadlock: in `ByGop` only `Terminated` remains when all
tasks have ended, in `ChannelEncoder` only `Ended`.

## 6. Proofs

TLC has checked every property below on the small instances of section 3; the
theorems hold for every value of the constants that the named assumptions allow.
Each proof has the same shape: an inductive invariant (checked by TLC before it
was proved), one lemma per action that preserves it, and the properties as
consequences.

### The frame pipeline: `EncoderPipelineProofs`

For both re-ordering modes, every lookahead, keyframe and S-frame interval, any
parameters of frames and any answers of the detector, with calls in any order
(`InterConfigAssumption`, `PipelineAssumption`):

- `InDisplayOrderHolds`: packets in display order, one per frame;
- `OpaqueDeliveredHolds`: with the opaque data of their own frames;
- `ForcedKeyframesHonouredHolds`, `KeyframeIntervalRespectedHolds`;
- `DecidedBeforeBuiltHolds`: nothing is built on a decision not yet taken;
- `NeverStarvedAfterFlushHolds`: a flushed encoder never asks for more;
- `LookaheadEndsHolds`: `send_frame` lays out no more positions than the groups
  of the frames sent have, so its loop ends;
- `TypeOKHolds`;
- `ImplementsServiceOrder`: `Spec` implements `FrameService!SafeSpec`, step by
  step, where `sent` maps to the frames in and `packets` to the frames out.

All have the hypothesis `MaxFrames < RcFrameLimit`. It is needed: at the limit
`send_frame` accepts a frame that is never output and does not return (section
7). In the code the limit is 2^31 - 1 frames.

`InDisplayOrder` is a statement about packets; why the next packet is the right
one is a matter of three numberings that have to agree at positions that were
built long before, partly before the keyframes that cut their group short were
known. `PipelineInv` says it with one notion: every output position belongs to a
GOP and so has a frame number, whether a frame is built there or not, and
`Due(n)` is the frame to be displayed next once the positions before `n` are
done. Its parts are

- `CallsInv`, `QueueInv`: which frames have been sent and are still queued, how
  far the keyframe decisions are at each point of a call, and that all keyframes,
  forced ones among them, were decided in order;
- `ResidentInv`: frame data and GOPs exist from the frame that is next, or the
  one before, up to the last position built;
- `PositionsInv`: at every position, what was built is what `InterConfig` says
  for its place in the GOP (a placeholder exactly when a keyframe has cut the
  group before it), the GOP begins with the frame that was due, and what is due
  after it has been decided and sent. So a later keyframe, or the end of the
  stream, does not change what is due at a position that is built;
- `PacketsInv`, `KeyOutput`: as many packets as frames were due at the position
  that is next, in order, and the keyframe of the current GOP is among them;
- `FlushedInv`: when the call that flushes returns, everything has been built.

`KeyframeIntervalRespected` and `NeverStarvedAfterFlush` are parts of the
invariant themselves. `LookaheadEnds` needs a second invariant beside it,
`LengthInv`: a GOP begins after no more positions than the groups of the frames
before it have, and the group that the last position is in has a frame, already
sent and decided. So placeholders fill up a group that a keyframe has cut, but no
group consists of them: at its beginning everything before the keyframe has been
shown, the last frame built is the one before it (`ShownIsComplete`), and a new
GOP begins instead.

### References and the decoder: `DecoderSyncProofs`

On top of `PipelineInv`, under the same assumptions:

- `NeededIsResidentHolds`: every lookup that the code unwraps finds its entry;
- `NoDriftHolds`: the decoder predicts every inter frame from the pictures, in
  the slots and with the sign biases that the encoder used;
- `DisplaysInputHolds`: one picture per packet is displayed, that of its frame,
  and it is the reconstruction that the packet carries.

Two inductive invariants are needed, since the frames of the lookahead are built
long before they are encoded and their buffers are filled in twice.

`BuffersInv` is about the encoder alone (`BuffersInvHolds`). A built frame uses
the slots of its position (`SlotsAt`); until it is next its buffer holds
originals, all of them of earlier frames, and afterwards a full buffer of
reconstructions (`DataInv`). It holds because no frame is built from one that has
been encoded: whenever a frame can be built, a coded frame is still waiting
(`ReadyInv`), which in turn holds because `receive_packet` keeps
`rdo_lookahead_frames` of them, at least one, until the flush.

`SyncInv` (`SyncInvHolds`) compares the encoder with `Ahead`, the decoder after the
frames of the packet that is being assembled. Its parts are

- `InLineInv`: the frames that will be encoded from the buffer as it is (the next
  coded frame and the show-existing-frames before it) hold the slots of `Ahead`,
  and their sign biases are those of these slots. All other frames may hold
  anything, which is why `encode_normal_packet` must hand the buffer on to
  exactly these;
- `HeldInv`: the hidden frames of the current group are in their slots until they
  are shown. A hidden frame is promised only while no keyframe cuts the group
  before it, so a later keyframe decision only weakens the promise, and after a
  skipped position nothing is promised.

One lemma per kind of step preserves both. What `DecodeFrames` does to a packet
with one more frame (`DecodeFramesFacts`) is proved by induction on its length.

### The single channel: `ChannelProofs`

For every configuration, channel size and order in which the application sends
frames and drops endpoints, in an encode that was given no summary (`FirstPass`):

- `ChannelDrivesPipeline`: `ChanSpec => Spec`. What the task does to its
  `ContextInner` is what an application may do to a `Context`, so every theorem
  about the pipeline is one about the channel;
- `PanicsOnlyIfAbandonedHolds`: the arms that are `todo!` or `unreachable!` are
  never taken. With a frame in hand the encoder has its lookahead, and so a frame
  whose source is still queued; after the end of the input it never starves;
- `ChannelImplementsServiceHolds`: the channel as a whole is the in-order frame
  service.

`ChanInv` says where the task and its call of `send_frame` can be together, and
that the frames in the channel, in hand and with the encoder are those that
`FrameSender` has counted. `FirstPass` excludes what is different: a second pass
starts with a limit (and, over one frame, does panic: section 7), a `None` among
the frames leaves an end mark in the queue, and in a still picture `Context`
refuses frames that the channel does not. The run `channel_two_pass` checks the
second pass, `None`s among its frames. The refinement needs care in one place: a
task that panics with a frame in hand still holds it, so `FramesSent` counts it.

### The by-GOP channel: `ByGopProofs`

For every number of workers, threads and frames, every channel capacity, every
`pyramid_size` and any answers of the detector (`ByGopAssumption`,
`PyramidAssumption`, which say only that these are natural numbers, positive
where zero makes no sense):

- `InvHolds`: `Spec => []Inv`;
- `DeliveredInOrderHolds`: packets come out in frame order, none lost or twice;
- `SplitInBoundsHolds`: `split` never indexes or splits past its lookahead;
- `TypeOKHolds`: the tables agree with each other;
- `ImplementsServiceHolds`: `ByGop` implements `FrameService!SafeSpec`;
- `OneGopPerWorkerHolds`: no worker ever has two GOPs;
- `GopsStartAtCutsHolds`: GOPs begin exactly at the cuts.

`DeliveredInOrder` is not inductive: it says nothing about why the next packet
that `reassemble` takes is the next frame's. `Inv` adds that, in the order of the
data flow:

- `SplitInv`: SubGops are not empty and form a gapless chain from frame 0, and
  `split`'s own counter is in step with the lookahead;
- `GopTypeOK`, `GopChain`: each GOP starts where the one before it ended; a
  closed GOP has received all frames up to the next one's start;
- `WorkInv`: a worker's mail and its current work are known GOPs or `None`; a GOP
  is done only when it is closed and has one packet per frame;
- `ReaInv`: `reassemble` has forwarded all of the GOPs before `last_idx` and
  `drained` packets of that one, so the number delivered is its first frame plus
  `drained`.

There is one lemma per task (`ScPreserves`, `GetWorkerPreserves`,
`DispatchPreserves`, `WorkerReceivesPreserves`, `ReassemblePreserves` and so on),
`NextInv` combines them, and the theorems follow. `EmitExtends` and
`SplitExtends` state once what a SubGop does to the chain. The refinement rests
on `ForwardsSent`: a packet that is forwarded belongs to a frame that was sent.

`OneGopPerWorkerHolds` and `GopsStartAtCutsHolds` need more than `Inv`, each its own
invariant on top of it. `OfferInv`: a worker is on offer once, or has one
message, or neither, and is not at work meanwhile. `CutInv` and `StartInv`: the
cuts are the ends of the SubGops that end a GOP, on the side of `scenechange` and
on the side of `encode`, which may still wait for the worker of the next GOP.

### Two passes: `StreamProofs`

For every reservoir delay, every stream that `TwoPassAssumption` allows (section
2), and every size of headers, packets and pieces:

- `MetricsOfTheSameFrameHolds`: a frame is coded with its own metrics, and
  `twopass_in` and `rc_send_pass_data` refuse nothing that a first pass wrote;
- `TpInvHolds`: the inductive invariant. The ring buffer holds the metrics of the
  next `window_nframes` frames from its head on, the window counts the shown ones
  among them, and the next metrics of the file are those of the frame after it.

That the ring buffer, sized from a delay in TUs and filled per frame, never
overflows is a count of hidden frames: a window that still lacks a TU has at most
two more hidden frames than shown ones. `twopass_in` reads packets in a loop; its
recursive function is unfolded with `RecursionUpTo`, and the loop's invariant is
`RcInv`.

### O3YV rate: `StreamProofs`

For every number of frames, window, budget, size of keyframes and number of search
steps (`RateAssumption`):

- `OverrunsAnnouncedHolds`, `ReservedKeyFollowsHolds` (an action property), and
  their invariant `RateInvHolds`. A frame that quality recovery chose stays within
  the window, unless a reserve replaced the test: that test leaves out the oldest
  frame and puts a raw key in its place (`OldestInWindow`). `ReserveKept` is the part that is not obvious: a
  recovered frame that left room for a keyframe is followed by a frame that is a
  keyframe, and the window, which slides by one frame in between, has the room.

The window's sum and the two searches of `encode_budgeted_p_frame` are recursive
functions; `SumOfLastSteps` and the lemmas on the search say what they compute.

### O3YV codec: `StreamProofs`

For every number of macroblocks, pixel values, eyes, motion vectors and residuals,
and every limit of the lazy base copy (`CodecAssumption`: the counts are natural
numbers, motion vectors and residuals integers, no motion and no residual among
them, the bands cover the tile; `NoFrameAssumption`):

- `TileDecodesToRecon`: `decode_tile` gives the encoder's reconstruction of the
  tile, with prefill or lazy base copy, whatever the buffer held before;
- `DecoderInStep`: `LoopSpec => []ClosedLoop`;
- `StreamDecodes`: `LoopSpec => []UndamagedDecodes`;
- `LoopTypeCorrect`: `LoopSpec => []LoopTypeOK`.

The inductive invariant `LoopInv` joins the three properties, none of which is
inductive alone, with `InStep`, where the two sides stand to each other: between
frames, while nothing has been lost, the encoder's reconstruction is what the
decoder should show; while a frame is on its way, it is what that frame makes of
it. `ReuseIsIdentity` says that the frames for which the
decoder does not even copy are those whose reconstruction is the reference. One
lemma per action preserves `LoopInv`.

### Rollback of the symbol writer: `TileProofs`

For every layout of the context, every set of symbols and every sequence of
writes, checkpoints, rollbacks and replays:

- `RollbackCompleteHolds`: the words of the CDFs are those that a context which
  had only ever seen the kept symbols would have, the recorder and the encoder
  likewise.

`LayoutAssumption` says what the order of the fields of `CDFContext` and the
padding of `NMVContext` guarantee: the CDFs do not overlap, what is logged of each
lies within the memory, and the words that an entry saves beyond its own CDF are
not of a CDF in the other part of the log (fields are sorted by length, and the
last CDF of each kind has the full length of an entry or is padded to it).
The invariant `SwInv` is about the log. A rollback copies entries back from the
last to the first, so what a word gets is what its *oldest* entry since the
checkpoint holds (`Oldest`); `Holds` says of every checkpoint,
not only the innermost, that these oldest entries, and the words that are in
none, are the words to be restored. An entry also saves words of the next
CDFs, of the same age or younger than their own entries, or padding, which never
changes. Replay (`ReplaysBy`) needs that the symbols recorded were adapted in the
order in which they will be written: `PendingInv` says that each token is the one
that the encoder would have been given, and that what `write_lrf` adapts between
recording and replay is not among the CDFs recorded (`DirectCdfs`).

### The bytes of a tile: `BitstreamProofs`

For every set of CDFs that the tables allow, tiles of any number of symbols, any
checkpoints and rollbacks, and a window of 24 or 32 bits:

- `BitstreamDecodesHolds`: a `Reader` of the bytes that adapts its CDFs from the
  same start finds every symbol, in its order;
- `EncoderWidthsHold`: in every state `rng` has 16 bits with the highest set,
  `cnt` is -9 to -1, `low` has at most 24 bits and a byte waiting for its carry at
  most 9, so that the widths of the code's variables suffice.

`TablesAssumption` says what CDFs are before the first symbol: 2 to 16 words of 15
bits that fall from symbol to symbol, with a zero count at the end. The tables of
`entropymode.rs` and `token_cdfs.rs` hold values that rise from 1 to at most 32767,
and `cdf` (`src/util/cdf.rs:10`) stores 32768 minus each and at least one zero;
`reset_counts` clears the counts of CDFs taken from an earlier frame, and
`UpdateKeepsCdf` proves that adaptation keeps the rest.

The whole output is one number. `Number` is what a sequence of bytes stands for,
where a byte may still be greater than 255, and `Exact(e)` is the lower end of the
encoder's range in units of that range; both are as long as the tile, so powers of
two are a recursive function (`Pow`), with what the proof needs of it as lemmas.
The argument has four parts:

1. *The encoder narrows a range* (`StoreFacts`, `AllCoded`). A token takes the part
   `lr_compute` gives it, which is within the range and not empty, and the shift
   multiplies that number and what is left of the range by the same power, whether
   no, one or two bytes leave `low`. With it come the widths (`EncoderSound`).
2. *The bytes name a number in the last range* (`TerminatedFacts`). The end that
   `done` rounds to lies in the range and needs only the bits that it writes.
   Ranges are nested, so the same bytes name a number in each range before it: the
   induction goes backwards (`AllNamed`). Resolving the carries keeps the number,
   and none leaves the first byte (`DoneFacts`), because every range lies
   within the bits written (`FitsUnit`).
3. *The reader's window is the distance to the upper end* (`ReaderOn`): from the
   bytes read so far to the upper end of the current range, with zeros where the
   reader is beyond the last byte. `ReaderReady` adds that enough bits are there
   to compare with, which `refill` restores after every `normalize`.
4. *So the reader finds the symbol* (`SymbolFound`, `WindowFinds`, `SymbolRead`).
   The number is in the part the encoder chose, the parts of different symbols
   do not overlap (`BoundFacts`, where `EC_MIN_PROB` leaves room for every
   symbol), and after the symbol the two ranges and CDFs are alike again.

`StoredInv` ties this to the state machine: what was stored are symbols of their
CDFs, and the bytes are `done` of the encoder; that the encoder holds
the symbols kept, with a decoder's CDFs, is `RollbackCompleteHolds`.

### Integer codes: `TileProofs`

- `CodesInvertHolds`: for every number below 2^30, every parameter k up to 15 and
  every reference (`JobsAssumption`; coefficients and filter taps stay far below
  that), decoding gives the number and takes all of the bits, and the bits
  that are counted are the bits that are written.

The code of a number is what the invariant says of the bits. The rest is about
functions: what a literal of n bits decodes to (`ValuesBy`, by induction on n),
that the interval of a sub-exponential code is the only one that holds the
number, and that recentring around the reference is a bijection.

### Tiles and the loop filter queue: `TileProofs`

For every frame below 2^16 pixels a side, chroma format, division into tiles,
size of the restoration units and combination of the speed settings
(`TilingAssumption`, `FramesAssumption`; they state how the limits on tiles relate
to each other and to the largest frame, which the bitstream's constants do):

- `QueueDrainsHolds`: at the end of a tile the queue is empty;
- `DecidedBeforeWrittenHolds`: whatever is written was decided from encoded
  blocks;
- `LrfCodedWhereReadHolds`: a unit is coded where a decoder reads it and nowhere
  else;
- `DivisionSoundHolds`: the assertions and clamps of `from_target_tiles` and the
  assertions of `get_units_region` hold, no tile is too wide.

`DivisionSoundHolds` has the hypothesis `RateFits`, which is not an assumption on
the bitstream but on the use: `from_target_tiles` raises the least number of rows
for high frame rates, and above about 140 frames per second, for the largest
frames (2243 for frames of at most 4096 rows), the least number of rows may be
more than the greatest, where `clamp` panics. Nothing in `Config::validate`
prevents it. The run's constants satisfy `RateFits`.

The invariant `LfInv` has these parts:

- `Geometry`, `Nested`, `Placed`: along each side a tile is whole units or ends
  with the frame, begins with a unit, and the units of luma are within those of
  chroma. They are what stretching the last unit and rounding the tile size do;
- `ReadyInv`, `ReadySound`: units become ready in raster order, a ready one is
  completely encoded, and the last superblock of a tile makes the last unit of
  every plane ready. So `check_lf_queue`, which looks at the queue only at the
  corner of a unit, takes the whole queue at the end;
- `DecisionInv`: `rdo_loop_decision` is called per superblock but decides for a
  unit and for all CDEF blocks in its area, and a call that finds a unit already
  decided does nothing. The superblocks written are exactly those covered in the
  coarsest plane (`WrittenCovered`), and those that will be skipped are settled
  already (`SkipsSettled`);
- `CodedInv`: `last_lru_coded` has passed exactly the units whose corner has been
  written.

`WalkInv` carries them through the loop of `check_lf_queue`, a recursive function
over the queue, unfolded with `RecursionUpTo`.

### What the proofs rest on

`BoundedRecursion` states induction and recursion on `0 .. n` with sets and
functions (`LeastElement`, `InductionUpTo`, `RecursionUpTo`), since the prover
cannot use theorems with an operator as parameter. They are proved from the
well-foundedness of the natural numbers and are what makes claims about recursive
functions provable here.

Only model-checked:

- the second pass in `ChannelEncoder` (`PassDataComplete`, `SecondPassInStep`,
  and `PanicsOnlyIfAbandoned` there): it relates two encodes frame by frame, and
  `PassDataComplete` folds over the keyframes of the whole stream;
- `Old3dsPlayer`;
- all liveness (`FlushCompletes`, `ChannelEnds`, `DropFlushes`,
  `SecondPassCompletes`, `CloseExits`, the fair part of `FrameService!Spec`),
  which is out of the prover's reach.

## 7. Findings

- **T.35 metadata of re-ordered frames is lost** (`pipeline_t35`).
  `build_frame_properties` takes the metadata from the queue for the input frame
  of the position it is building, before it knows which frame that position will
  hold. A hidden frame takes it and drops it; the show-existing-frame that
  displays the picture finds nothing.
- **`send_frame` does not return at the internal limit** (`pipeline_limit`).
  `Context::send_frame` (`src/api/context.rs:125`) sets the limit to the count
  before the frame it then queues, where line 73 promises `EnoughData`. A flush
  queues an end mark there; here `build_frame_properties` finds a frame, starts a
  GOP with it whose next keyframe is the limit again, and goes on with
  placeholders for ever (without re-ordering, with keyframes). It takes 2^31 - 1
  frames to get there; the run scales them to six.
- **A second pass over one frame panics** (`channel_one_frame`). With a limit of
  1, `needs_more_fi_lookahead` is false before anything was sent, so the loop
  polls and gets `NeedMoreData`, which it calls unreachable.
- **A pool with too few threads never starts `encode`** (`bygop_few_threads`).
  Blocking tasks spawned earlier keep every thread; a TODO in the code mentions
  the accounting tasks.
- **START does not end the playback** (`player_start`). `play_one_pass` returns
  0 for START as it does at the end of a pass, and `playback_loop` plays the next
  one. The log says "START exits".
- **Fewer tiles than asked for although more are possible** (`tiles_reached`).
  `Sequence::new` leaves its loop when both logarithms have reached their limits
  and does not try that pair: 191x64 with `tiles = 3` has two tiles.

Observed while modelling, without a run of their own:

- A by-GOP channel with one worker never flushes: `encode` asks for the next
  worker (`by_gop.rs:321`) while it holds the sender whose drop would free the
  only one. (`DropFlushes` fails with `Slots = 1`.)
- `twopass_out` is documented to give a placeholder header first
  (`context.rs:139`), but `pass1_data_retrieved` starts as `true`
  (`rate.rs:682`), so `emit_placeholder_summary` is never reached.
- `WriterRecorder`'s rollback does not restore `fake_bits_frac`. It is harmless:
  mode decision uses differences of `tell_frac` within one trial.

## 8. What is not modelled

The implementation has some 70 000 lines. Most of them are pixel kernels,
SIMD variants of them, tables of probabilities and scan orders, and bit-exact
syntax: there is no state machine in them, and a transcription would say what the
code says. The models cover the parts whose correctness depends on order, state
and agreement between components, which are a small share of the lines.

- Pixel computation (mode decision, motion search, transforms, prediction,
  filters, lookahead costs, SIMD): pure functions over data far beyond
  enumeration, with no protocol between them. The order of the loop filter
  decisions is in `LfQueue`.
- Quantizer selection: 64-bit fixed-point logarithms and exponentials.
- Block syntax and above/left contexts, OBU syntax, default CDFs, the mode
  streams of O3YV: bit-exact formats; the header fields a decoder's reference
  process needs are in `BitstreamFrame`.
- C API, command line programs, muxers: conversions and file I/O.
- In the pipeline, `SceneCuts` limits where the detector may report a cut, frame
  sizes and tiles never change, and the T.35 lists, opaque data and parameters
  are reduced to whether they are there.
- In two-pass encodes, malformed pass data, trial encodes, dropped frames, and
  `emit_frame_data`'s own limit of i32::MAX frames.
- In the by-GOP channel, frame parameters, which `scenechange` discards; an
  application that sends `None` or drops its packet receiver early; and rayon's
  work stealing. A worker encodes with parallel iterators on the same pool; a
  thread waiting in one may pick up a queued task and block inside it. Whether it
  does depends on rayon's scheduler.
- In the mini decoder, parsing and validation of bytes; a damaged frame is one
  that fails and may leave anything in the picture being decoded. In the player, conversion of pixels, pacing and
  statistics.

## 9. Plan

Done: the pipeline beside a decoder, both channels, the two-pass protocol, tiles
and the loop filter queue, symbol writing, O3YV and the player; proofs for
`EncoderPipeline`, `DecoderSync`, `ChannelEncoder` (first pass), `ByGop`,
`RateTwoPass`, `O3yvRate`, `O3yvLoop`, `LfQueue`, `SymbolWriter` (rollback and
decoding) and `IntegerCodes`.

Next, in this order:

1. Proofs: `PanicsOnlyIfAbandoned` in a second pass.
2. `guess_frame_subtypes` as an operator, checked against the frames that the
   pipeline really builds.
3. Frame parameters through `ByGop`; an early drop of its packet receiver.
4. The loop of `src/bin/rav1e.rs` around `Context`, with its two passes.
5. The windows of above and left contexts that a `ContextWriterCheckpoint` saves.
