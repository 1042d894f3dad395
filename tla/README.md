# A verification project for opus-rs

opus-rs is a pure-Rust port of the Opus codec. This directory holds TLA+
modules that model its control logic, TLC configurations that check them on
small instances, and TLAPS proofs of the properties that matter most for every
value of the constants. Paths below are relative to the repository's root
crate, so `lib.rs` is `src/src/lib.rs` in `PROJECT.json`.

Run a configuration with `tlc -config MCOpusDecoder.cfg MCOpusDecoder`, check
a proof module with `tlapm OpusDecoderProof.tla`.

## 1. Inventory

| component | source | state it keeps | operations | modelled by |
|---|---|---|---|---|
| lazy static mode | `compat.rs`, `modes.rs` | one atomic byte, one inline storage | `OnceCell::get` | `OnceCell`, refining `Once` |
| Opus decoder control | `lib.rs` 1750-2900 | previous mode and redundancy, channel count of the stream, SILK rate and its two resamplers, tail of the last output, the SILK and CELT decoders | `decode`, `decode_i16`, `decode_fec`, `decode_lost` | `OpusDecoder` |
| ToC byte | `lib.rs` 2905-2985, `gen_toc` | none | write and read | `OpusToc` |
| Opus encoder control | `lib.rs` 230-1750 | settings, previous mode, forced mode while splitting, FEC flag, the SILK and CELT encoders | `encode`, `encode_i16`, `enable_hybrid_mode`, the public settings | `OpusEncoder` |
| packet framing | `lib.rs` 1560-1740, 2985-3180 | none | put/parse sizes, codes 0-3, padding | `OpusFraming`, checked in `Coding` |
| multistream | `multistream.rs` | one decoder per stream | split a packet, `decode` | `OpusFraming`: packets, and which decoders moved |
| SILK decoder | `silk/dec_api.rs`, `decode_*.rs`, `init_decoder.rs` | per channel: rate, frames decoded, flags, loss count, last gain index; per decoder: channel count, mid-only flag, stereo predictors | `decode` per 20 ms frame: normal, LBRR, lost | `SilkCodec` (control; not changes of rate, length and channels) |
| SILK concealment | `silk/plc.rs`, `silk/cng.rs` | lag, gains, loss count, noise seed | `plc`, `glue_frames`, `cng` | planned (`SilkConcealment`) |
| SILK encoder | `silk/enc_api.rs`, `control_*.rs` | input buffer, frames coded, LBRR of the previous packet, rate control | `silk_encode`, `silk_encode_stereo_packet` | `SilkCodec` (control; not the rate search); its setup is in `OpusEncoder` |
| SILK stereo | `silk/stereo_*.rs` | predictors, width, mid-only | LR to MS and back | the mid-only flag is a choice of `SilkCodec`; the rest planned |
| SILK quantisation | `encode_pulses.rs`, `shell_coder.rs`, `nlsf_*.rs`, `gain_quant.rs`, `sort.rs` | none, or one previous index | pure functions | `SilkParameters` (pulses, frequencies, sort); gain contexts in `SilkCodec` |
| SILK analysis, noise shaping | `nsq*.rs`, `lpc_*.rs`, `pitch_*.rs`, `noise_shape_*.rs`, ... | signal histories | signal processing | no |
| SILK resampler | `silk/resampler*.rs` | filter histories | `process` | only which history is continued (`OpusDecoder`) |
| CELT encoder | `celt.rs` | energies, pre-filter, overlap, VBR reservoir, delayed intra, counts of transients | `encode_with_ec` | `CeltCodec`; its filters and overlaps on samples in `CeltSignal` |
| CELT decoder | `celt.rs` | energies, background, post-filter and its memory, overlap, loss duration | `decode_with_ec` | `CeltCodec`, `CeltSignal`; its history across modes in `OpusDecoder` |
| CELT concealment | `celt/plc.rs` | loss duration, skip flag, what the overlap holds | `decode_lost` | `CeltCodec` |
| bands and allocation | `bands.rs`, `rate.rs`, `quant_bands.rs` | none | `compute_allocation`, `quant_all_bands`, coarse and fine energies | `CeltAllocation`, `CeltBands` over `CeltCoder` |
| PVQ | `pvq.rs` | none | search, index and back, rotation | `Pvq` |
| range coder | `range_coder.rs` | rng, val, rem, ext, offsets, window | encode, decode, bits, patch, shrink, pad, done | `RangeCoder` |
| fixed vectors, no_std shims | `fixedvec.rs`, `compat.rs` | length and storage | Vec's interface | `OnceCell`; `FixedVec` planned |
| transforms and filters | `mdct.rs`, `kiss_fft.rs`, `pitch.rs`, `celt_lpc.rs`, ... | histories, tables | FFT, MDCT, comb filter; pitch and LPC | `CeltTransforms`, `CeltSignal`; pitch and LPC not |
| tests, benches, fuzz targets | `tests/`, `benches/`, `fuzz/` | | | read as documentation |

**How they interact.** A caller owns an `OpusEncoder` or an `OpusDecoder`; each
owns one SILK and one CELT codec and calls them in turn, sharing one range
coder per packet. Everything in a codec is sequential: the interleavings that
are hard are those of *calls*, not of threads. `decode`, `decode_fec` and
`decode_lost` come in any order, with any mode, rate, channel count and length;
the caller of `encode` may change every public field between two calls. Encoder
and decoder share nothing but packets, of which any may be lost: whatever one
says in a ToC byte, a flag or the order of its symbols the other must read the
same way. The single piece of shared memory is the static CELT mode, which any
number of threads may ask for at once.

**What is hard.** State that one layer keeps while the other runs (SILK during
a stretch of CELT and the reverse); the same decision taken in several places
from state that moved in between (mode, bandwidth, SILK rate, frame size, FEC);
a packet split into sub-frames, each an `encode` of its own; fallbacks (budget
too small, budget busted, buffer too small) whose packets must still say what
they hold; losses between any two of these; and the publication of the static
mode. `PROJECT.json` lists each under `hazards` at the line where it bites,
with the property that watches it, or the plan for one.

## 2. What is modelled

### `Once`, `OnceCell` — the lazy cell

One action per memory access of `get` and `get_slow`. The memory model is part
of the state: `seen[t]` is the newest store of the atomic that thread `t` has
to see, `Propagate` moves it forward, `synced` holds the threads that are
ordered after the write of the storage by an Acquire load of 2. A Relaxed
failure of `compare_exchange` moves `seen` and not `synced`. A read that is not
ordered after the write may return uninitialised memory. The closure may
panic, which leaves the byte at 1. `Once` promises that at most one value is
ever put in the cell and that every call returns that value; `ImplementsOnce`
is the refinement, with the cell empty until the byte is 2.

### `OpusToc` — the first byte of a packet

`gen_toc` and its readers on integers, modulo 256. A SILK-only ToC above
wideband is written as the code writes it: into the mode bits.

### `OpusEncoder` — the encoder's decisions

The integers of the code are kept: the equivalent rate, the mode threshold with
its hysteresis, the FEC thresholds with theirs, the byte budget, the conditions
of a starved packet. The audio and the codecs are abstracted to what a decoder
must learn from the packet. A frame records its payload (`audio`, `empty`,
`zero`: one zero byte, `header`: bytes of a packet header), its own ToC, the
mode, SILK rate, frame size and CELT end band it was coded with, where SILK's
history came from and whether SILK was reset for it. A call is one step, or a
`Split`, two or three `EncodeSub` and a `Join`, with `forced_mode` set in
between as in `encode_multiframe`. Each `Err` is a path of the step that leaves
what the code has already changed. Settings change only between calls.

### `OpusDecoder` — the decoder's switching

Each codec is reduced to its *source*: `reset`, `follows` (its history ends
where the output ends) or `stale` (output went on without it). `heard` holds
the pieces of audio the last step made and the source of each. A call is a
sequence of steps, one for the switch of mode, one per Opus frame or concealed
chunk, one at the end; `pc`, `packet`, `left`, `transition`, `bridged` and
`has_redundancy` are the locals that live across them. Whether a frame is
empty, has a CELT layer or carries redundancy is chosen freely, within what the
stream allows: `channel` is drawn once from `Impairments` and says whether this
stream has losses, empty frames, or redundant frames where an encoder does not
put them. A property guarded by `channel` is thus checked and proved for every
kind of stream in one specification.

### `SilkCodec` — SILK from the encoder to the decoder

A packet is the sequence of its symbols, each with its alphabet, its coding and
the frame it is relative to: flags, LBRR symbols, LBRR frames, then per frame
the stereo header and the channels' indices and pulses. `StartPacket` writes
the section of the last packet's copies (on a trial coder first: `fits`),
`EncodeFrame` one frame, with the activity of each channel chosen freely and
`off` for a mid-only frame. A network may lose packets, and the encoder may
leave SILK for CELT and come back. The decoder conceals (`Conceal`), reads the
copies frame by frame (`StartFec`, `DecodeFec`) or skips them in one go
(`StartDecode`) and decodes (`Decode`). It does not see the packet's symbols:
it works out what it should read from the flags and from its own state, and
`read` keeps what it read beside what was written. Per channel each side has
where `last_gain_index` and `ec_prev_*` come from (`gain`, `ec`: none, an older
packet, a main frame or a copy of this one), whether the synthesis history has
a gap (`mem`), and `prev_decode_only_middle` (`only`). The size of a packet,
the number of channels and the rate are fixed per instance.

### `RangeCoder` — one packet from the first symbol to the last

The encoder with its pending bytes and carry, the decoder, and the buffer they
share in time, at a width of `SymBits` and `CodeBits` (8 and 32 in the code).
A packet's bytes grow from the front, its raw bits from the end; between two
symbols the buffer may shrink, the reserved first bits may be patched and the
rest be padded, and `Done` trims and flushes. The decoder then reads symbol by
symbol. `sent` keeps what the encoder's range and bit count were after each
symbol, which everything that asks "is there room" depends on.

### `Pvq`, `OpusFraming`, `SilkParameters`, `CeltTransforms`, `CeltSignal`, composed by `Coding`

The pure halves of the codec, as operators. `Pvq` has the searches of the
different builds, with ties of floating-point scores left open, the index and
its two tables, and the rotation. `OpusFraming` has the writers of packets, the
one parser, and the multistream packets over them. `SilkParameters` has the
pulses' shell coder and the search and stabiliser of the spectral frequencies.
`CeltTransforms` is the FFT with its factors, bit reversal and sub-plans, and
the MDCT on it; `CeltSignal` runs an audio row through pre-emphasis, pre-filter,
windows, transform and back. Their samples are numbers modulo a prime and the
sines roots of unity in it, so that a transform and its inverse cancel exactly
and a wrong index or sign is not lost in rounding. A state of `Coding` is one
input, its job; its properties are what the two halves make of one another.

### `CeltCoder`, `CeltAllocation`, `CeltBands`, `CeltCodec` — CELT from the encoder to the decoder

`CeltCoder` is the entropy coder reduced to a list of symbols and a count of
bits; what it leaves out, `RangeCoder` shows. `CeltAllocation` and `CeltBands`
are walks that write or read, as the routines of the code do: the energies, the
allocation with its skips, intensity and dual stereo, the split of a band down
to its pulses, folding and collapse masks. `CeltCodec` puts an encoder and a
decoder around them. `Encode` is one frame, of any of `Inputs`, which name the
frame's size, bands, rate and energies and what the analysis of the signal found
(a choice, since it depends on the samples). `Decode` reads it knowing only the
packet; `Lose` conceals it; `Switch` resets the decoder as a mode switch does.
`heard` keeps, of the last packet, what it read beside what was written: bits
used and asked for, energies, the fade of the comb filter, whether a band was
folded from bins nobody wrote. `amiss` and `leaves` go with a packet and name the
three ways in which the code does not fade alike: the encoder drops a filter as it
does not look for one this time, uses one that the packet has no room to tell, or
remembers one with the tapset decided after it was coded. `doubts` says what happened that may set the two
sides' energies apart (a loss, other bands, a reset), until a frame coded
without prediction clears it; `good` and `noisy` count the packets heard in a row
and whether noise has been played since two were.

## 3. Runs

| run | instance | what it shows |
|---|---|---|
| `once_cell` | 3 threads, the closure may panic, fair | no data race, refinement of `Once`, every `get` returns unless the closure panicked |
| `decoder` | 16 kHz stereo, packets of up to 3 frames, losses of up to 32.5 ms, all impairments, fair | SILK, the right resampler, the bridges, the concealment rate; CELT and redundancy in whole streams; every call returns |
| `encoder` | mono 48 kHz, 10, 20 and 40 ms, buffers of 20 and 1276 bytes, seven settings around the thresholds, busts | every packet lasts as long as its input, all its sub-frames are of one configuration and were coded as its ToC says; the mode does not flap |
| `encoder_16k` | stereo 16 kHz, 60 ms, buffers of 2, 20 and 1276 bytes | SILK-only streams with split CELT fallbacks and starved packets, at settings that `FillersSound` allows: SILK's rate is the ToC's, it restarts after CELT, fillers are concealed |
| `encoder_rate` | wideband, 15 kb/s, FEC at 20 % loss | **violation**: finding 1 |
| `encoder_sizes` | 10 and 20 ms packets in turn | **violation**: finding 2 |
| `silk` | stereo, 40 ms packets, two losses in a row, stretches of CELT | the decoder reads what was written, from the same contexts; gains agree; the side never goes on from a gap; FEC repairs with the packet just lost; without loss both ends reset the same histories |
| `silk_lbrr` | mono, 40 ms packets, one loss | **violation**: finding 3 |
| `range_coder` | bytes of 3 bits, a range of 11, up to 4 of 8 symbols, buffers of 3, 6 and 9 bytes, clean or stale | what `tell()` says fits is written without error, and read back with the encoder's range and count after each symbol |
| `coding` | about 30 000 inputs of 15 kinds | pulse vectors, packets, SILK's parameters and CELT's audio come back from their coded form |
| `celt` | mono and stereo, 3 frames out of 11 inputs, losses, mode switches | the decoder asks for the symbols that were written, both predict from the same energies, filters fade alike but where a finding says otherwise, folding reads what was written, constrained VBR keeps its rate, the output goes on after losses, concealment only fades and repeats no old pitch |
| `celt_fade` | a frame with a pre-filter, then one at a lower complexity | **violation**: finding 4 |

**Bounds.** Three threads are one that constructs and two that race, one of
which may be anywhere while the other returns; the proof covers any number.
Packets of three frames have a first, a middle and a last one, the only ones
the code tells apart (`First`, `left = 1`); the ToC allows 48 short frames,
which repeat the middle. 13 units (32.5 ms) of loss give a chunk of 20 ms, one
of 10 ms and one cut short. 16 kHz is the output rate at which bridges from
wideband are copied and those from 8 and 12 kHz resampled, so both paths
happen. The encoder's settings lie on both sides of each threshold and inside
each hysteresis; the budgets give starved, tiny, busted and sufficient frames.
In `silk` two frames per packet are the fewest in which a frame follows one
with or without a copy, mid-only or not, and two losses in a row are one
concealed and one repaired; the proofs cover packets of one to three frames.

`range_coder`: a symbol of 3 bits gives a range of 11 with the same spare bits
in proportion (`WidthsFit`), and four symbols of the widest alphabet fill the
buffers of 3 bytes, run into the raw bits, and make chains of pending bytes with
and without a carry. `coding`: a length takes a second byte from 4 and not from
252, a block of pulses has 4 samples and not 16, so that both sides of every
such limit lie within inputs that can be enumerated; the transforms are the
code's own sizes (480, 240, 120, 60). `celt`: five bands with two to a Hybrid
frame; the inputs cover each of frame size, mono and stereo, CBR and VBR at its
limits, silence, transient with time-frequency changes, boosts, starved packets
and Hybrid frames with and without VBR; three frames are one before, one lost
and one after, or two that disagree and one that suffers from it.

**Fairness.** `OnceCell`: a thread inside `get` is scheduled again, and a store
reaches the other cores in finite time, both of which the platform gives; no
thread is required to call `get`. `OpusDecoder`: a call that has begun goes on,
since it is one sequential function. The other runs assume no fairness. Runs
whose behaviours are finite by their bound (`range_coder`, `coding`, `celt`)
do not check deadlock: they end when the packet is read, the input judged or
the last frame played.

Every property of a passing run has a mutant in `PROJECT.json`: an operator
`Mut<Name>` beside `<Name>` that makes the mistake the property is there for.

## 4. Proofs

`OnceCell` holds its own theorems, for any set of threads: `NoDataRace` and the
refinement of `Once`. The invariant `IInv` adds to the type that at most one thread owns
state 1, that such a thread implies the byte is 1, that no thread has seen more
than was stored, and that a thread about to dereference has synchronised.
Without the ownership clause a second `Claim` cannot be excluded.

`OpusDecoderProof`, for every output rate, channel count, packet length, loss
length and set of impairments: type correctness, `SilkContinuesOutput`,
`RightContinuesLeft`, `BridgeConceals`, `LossKeepsSilkRate`,
`CeltContinuesOutput`, `WholeRedundancyIsRecent`, `SentRedundancyContinues`.
`IInv` is the type and four parts. `CallInv` says what the locals hold at each
`pc`. `RateInv` relates `prev_internal_rate`, the resamplers' rate and the SILK
decoder's rate to `prev_mode`. `HistoryInv` says that whenever SILK is the next
layer to run its history is not stale, and the right resampler follows or is
about to be cloned. `BridgeInv` says that a pending transition has either a
bridge or a way to make one in the frame to come. The properties only look at
the last step's audio, so none of them is inductive alone: SILK's is, for
instance, a consequence of what the `Begin` of the call did. `CeltInv` extends
them for whole streams: CELT is stale only when the last mode was SILK-only
without redundancy, which is the mode from which a switch resets it.

`OpusEncoderProof`, for every rate, channel count, application, setting, frame
size and buffer: type correctness, `PacketLasts` and `ModeAgrees`. `Inv` is the
type, `IdleOK` (no sub-frames outside a split call), `SplitOK` (a split call is
of 40 or 60 ms and forces a mode), `SubOK` (every sub-frame of the running call
was coded in the forced mode with a ToC of 20 ms) and `PacketOK`. The table
lemmas (`SilkToc`, `HybridToc`, `CeltToc`) show what the readers of the ToC
read from what `gen_toc` wrote. Three theorems have a condition, which is part
of the statement: with `LowLoss` (packet loss set to at most 5 %, where
`decide_fec` may not lower the bandwidth) `SilkRateAgrees`, `SingleConfig` and,
but at 12 kHz, `CeltBandsAgree`; with frames of at most 20 ms
`SilkRestartsAfterCelt`. The findings show that the loss condition is needed.

Two more theorems stand there. `FillersAreConcealed` proves `FillersConceal`,
which says that no bytes of a packet that codes nothing are decoded as a frame if
`FillersSound` holds of the constants: no frame busts its budget and no CBR
setting lies between 600 and 1199 bit/s (where a 40 or 60 ms packet has bytes for
the whole call and too few for each sub-frame), or frames are of at most 20 ms
and only CBR may bust. Without the condition the code does not keep that
(`FillersAlwaysConceal`: section 5 has a busted and a starved frame for which
it fails). The run `encoder_16k` meets the condition with starved frames and no
busted ones; for busted CBR frames the theorem stands alone. `ModesSettle` proves the action property of that name for every setting:
the same call made twice is coded in the same mode, whatever was starved, busted
or rejected in between. `SettleInv` is the invariant: asked again, the last call
would get the mode it got. Two facts carry it. A hysteresis only widens the side
it is on, so a decision taken from the other side stands when taken from its own.
And `prev_enc_mode` differs from the call's mode only after a starved Hybrid
call, which needs at most 6000 bit/s, far below any threshold.

`SilkCodecProof`, for one channel and two, packets of one to three frames, any
number of losses: type correctness, `InStep`, `MainGainsAgree`,
`SideContinues`, `FecRepairs`. None is inductive: they compare what the two
ends did at different times. `PacketInv` therefore says that every written
frame is what an encoder that knew all the packet's flags beforehand would
write (`FrameIn`, a function of the flags alone), and `ContextInv` that an end
which has gone through the frames before `n_frames` knows the last of them:
its mid-only flag and, for the channels it coded, its contexts. The encoder's
step then makes `FrameIn` true (`EncodedIn`) and the decoder's reads it
(`DecodedIn`). For FEC, `ContextInv` says that after a copy the context is that
copy, which is what the encoder's section has (`LastOfPrevious`). `StaleInv`
says that a side left with a gap was left by a mid-only frame, so the next one
that runs it resets it. `CopiesInv` says that, unless CELT came after it, all
copies are of the last packet. TLC checked `IInv` on the instance of `silk` and
on a mono one of three frames before it was proved. `HistoriesAgree` proves
`MemoriesAgree` from it and `AheadInv`, which says how far the encoder is ahead
while a packet is under way: the channels still waiting for their first frame at
the decoder are those at the encoder and the ones the packet's frames to come
will start (`CodedAmong`), and the mid-only flag is that of the last frame
written or read.

`RangeCoderProof`, for every width of byte, range and raw window, every buffer
and any symbols: `FitMeansWritten`, that what `tell()` says fits is written
without error. The property looks at one call, `done()`; the invariant `IInv`
accounts for the whole packet. Every bit that was counted has its place in `val`,
among the pending bytes, in the buffer or in the raw window (`Balanced`), or more
bits were counted than the buffer has (`Overfull`), in which case the property
promises nothing. The range stays within its bounds, so a normalisation ends in
`Rounds` rounds. `FlagsAhead` keeps the reserved first bits from overlapping what
was coded since, so that patching them needs no carry. The cases of `done()` are
the trim of `val`, the last carry, the flush of the window and the bits of it
that share a byte with the front (`DoneIs`).

`RangeCoderReturn` proves `SymbolsReturn` for the same constants: every symbol of
a packet that fits is decoded as it was encoded, and leaves the decoder with the
encoder's range and bit count. The property compares an encoder and a decoder that
never are in the same state, so both are compared with a third thing, a `Place`:
an interval, in units that get finer by a byte at each normalisation, and a
number of raw bits. `Puts` says which part of the interval a symbol takes, and a
list of symbols is a `Trail` of places. The argument has five parts.

1. *The encoder is at the place* (`EncoderAt`, `PlaceOf`). Its lower end is `val`
   below the bytes at the front, where a byte in `rem` and a run of 0xFF may still
   wait for a carry: `OutNumber` counts the run as one short of the next
   number, so a carry is an addition like any other (`CarryOutNumber`), and
   `CarryFits` says that none goes where there is no byte to take it. Every
   operation moves it as `Puts` says (`EncodeSymbolMoves`).
2. *Flags are patched in later.* As long as the reserved first bits are zero all
   places stay in the lowest part of the interval (`Held`), so patching shifts
   the whole trail (`PatchMoves`, `ReachesPatched`), whether the first byte is in the
   buffer, in `rem` or still in `val`.
3. *`done()` ends inside the last interval* (`DoneBetween`), whatever raw bits share
   its last byte and whatever zeros follow; so does a packet that was padded
   (`PadMoves`) or trimmed (`DoneGap`, `TrimmedIs`).
4. *A number in the last interval is in every one before it* (`PutsBack`), and raw
   bits below the last ones stay as they are (`Agrees`).
5. *The decoder follows* (`Following`): `val` is the distance from the upper end of the
   current interval to that number, cut after as many bits as were read
   (`Point`), and its window is the next raw bits. Each decoding routine
   finds the part in which the number lies, which is the one that was taken
   (`DecodeSymbolFollows`).

The invariant is `Written /\ Readable` (`PlacesKept`), on top of `IInv`: while a packet
is written, parts 1 and 2; while it is read, the end of part 3 and part 5 after
as many symbols as were read. It quantifies over places and streams of digits
without bound, so TLC cannot evaluate it; what TLC checks is `SymbolsReturn`
itself. The proof needs two facts of the code's constants and callers that the
model states: a byte has at least two bits (`WidthsFit`), and `enc_bits()` is given
no value wider than its bits (`Codable`), of which it would only keep the lower
ones.

`CeltCodecProof`, for every table of bands, every input, channel count, and any
losses and mode switches: `OutputContinues` (`OutputHolds`) and
`FoldsWrittenBins` (`FoldsHold`). For the first, `OutputInv` relates what the
decoder's overlap holds to whether it was folded, and the post-filter's memory to
the end of the output; `WireInv` says that a packet has the geometry of some
input. For the second, `FoldInv` is an invariant of the loop over the bands of a
frame: before band `i` every bin below it is kept, and the band above the one to
fold from is one of those coded. It needs of the table that the second band of a
frame is at most twice as wide as the first, and no later one wider than all
below it (`BandsCanFold`), which holds of `EBANDS` with frames that start at
bands 0 and 17. What it says of the code is that `quant_all_bands` never reads a
bin of its uninitialised `norm` buffer. The walks below a band (allocation,
partitions, pulses) are opaque to this proof, which therefore holds of any.

The third is `RateIsKept` (`RateHolds`): what the constrained frames of a stream
take above their rate stays within `vbr_reservoir`, and the reservoir within one
frame. The arithmetic is short (`Opens`, `SizeSettles`): the first size is what
the rate and the reservoir allow, the second is at least what `tell` and the
boosts have used and at most the first, and the reservoir moves by what the
target and the size moved. What makes it long is that each of these numbers
comes out of a walk over the whole frame, and the next frame's out of the
energies this one leaves. The inductive invariant `RateInv` says that the
encoder has its fields, that its energies are a number for every band and channel,
that the reservoir is never negative, and `RateIsKept`; TLC checks it on the instance
of the run `celt` too. Its proof goes through the encoder in order (`FrontKeeps`,
`Allocates`, `BandsStay`, `LayersKeep`): the coder stays a writer of the same
buffer whose count is a number (`CodeKeeps`, with a price for every symbol a
routine may code: the halving that `Log8` is, is defined for every number), the
boosts are amounts, every band has at most 8 fine bits, and the fine and left-over
bits move energies by numbers. On the way it shows what bounds the allocation: the row that is
found costs no more than the bits there are (`RowsFit`, `WayFits`), skipping a band
and coding the stereo parameters keep that (`SkipKeeps`, `StereoKeeps`), so that
what is left to share is never negative (`ShareOuts`), and the fine bits of a
band are paid for by it (`FineShares`). One lemma per loop (`SettleLoop` to
`FinalLoop`) says that what each round keeps holds at the end; an operator cannot
be the parameter of a lemma here, so the rounds are operators of the model
(`SettleStep`, `SkipStep`, `CoarseStep`, ...) and each has its own.

It needs of the constants, beside their types: that a frame has at most 23 bands,
for which `LOG2_FRAC_TABLE` has entries (`FewBands`; the code has 21), that the
table of allocations starts with a row of zeros (`VectorsStart`; `BAND_ALLOCATION`
does), that a pitch is within the six octaves the symbol for it has
(`PeriodsInRange`; `COMBFILTER_MINPERIOD` is 15), and that a constrained
frame has a rate of at least three bytes and nothing before it in its packet
(`RatesAreEnough`: below that `encode` sends an empty packet, `lib.rs:872`). The
last is needed: the first bound leaves a frame two bytes whatever the reservoir
holds.

All three need induction over the naturals. The library's theorems take a predicate and
cannot be used; `Induction` takes a set with 0 in it and with each number the next,
and follows from the least element of its complement. From it come induction up
to a bound (`InductionTo`), the run of a loop whose step keeps to a set (`Runs`) and
functions defined from their value before (`Recursion`). With them the powers
of two, the rounds of a normalisation, the bands of a frame and the digits of a
buffer, all recursive functions, can be unfolded step by step.

`OpusFramingProof`, for every length from which sizes take a second byte:
`SizeReturns` (what `put_size` wrote `parse_frame_size` reads, whatever
follows), `ChainParsed` (a chain of padding bytes is read as the padding it was
written for, wherever it stands) and `SilkPacketReturns` (the SILK-only packet
of `encode` has the length asked for, and its parser returns the one frame).
They cover what the run `coding` enumerates at a limit of 4 for the code's 252.
The chain is a sequence given by its index, so no induction is needed:
`PadShape` says how many full bytes it has, `ChainEnds` that the parser's first
byte below the maximum is the chain's last, and `Part` and `Joined` cut and
join packets.

The assumptions are those named in the modules: the legal values of the
constants, and those each theorem states. Only model-checked:

- liveness (`GetReturns`, `CallReturns`), which needs ENABLED;
- `PacketsAreUnderstood` and `InStep` of `CeltCodec` and its action property
  `ConcealmentFades`: the first two depend on every symbol of a frame being read
  as it was written, through all the walks of the allocation and the bands, the
  third on the energies the decoder reads from them;
- `FadesMatch` of `CeltCodec`, which rests on the same symbols (its condition
  leaves out what section 5 says of `FadesAlwaysMatch`), and
  `PitchIsFresh`;
- `Coding`, but for the theorems about framing: what its recursive definitions
  compute for every input is induction over data.

## 5. Findings

Each is a run that TLC must find violated.

1. `encoder_rate`: FEC at a high loss lowers the ToC's bandwidth and not the
   rate SILK codes at (`lib.rs:972`).
2. `encoder_sizes`: SILK is not set up again for another frame size
   (`lib.rs:1011`).
3. `silk_lbrr`: the first LBRR copy of a run in the middle of a packet takes
   its gain index from a conditionally coded frame, where it is a difference;
   the encoder dequantises it as one and the packet codes it as an absolute
   index (`silk/enc_api.rs:569`).
4. `celt_fade`: the pre-filter is not run at a complexity below 5
   (`celt.rs:2417`), which the caller may set between two packets
   (`lib.rs:1320`). The encoder then drops the fade-out of the filter before,
   which the decoder will do, against the comment at `celt.rs:1566` and the test
   at `celt.rs:4071`. (Tonality, the other condition there, is never valid:
   `analysis` is private and never set.)

Some more disagreements have a property in their module which no run checks,
since the code does not have it; replacing an INVARIANT of the named
configuration by it gives a counterexample.

- `RedundancyIsRecent` (`MCOpusDecoder.cfg`): `decode_lost` leaves
  `prev_redundancy` set, so after a redundant frame followed by losses the next
  switch into CELT is spared its reset (`lib.rs:2613`). That this is the only
  way CELT starts stale under loss is `CeltStaleOnlyIfSpared`, which holds.
- `RedundancyContinuesOutput` (`MCOpusDecoder.cfg`): for every frame of a
  packet the test for a stale redundant frame looks at the previous packet's
  mode (`lib.rs:2122`).
- `FillersAlwaysConceal` (`MCOpusEncoder.cfg`). With `SmallFec`, mono 16 kHz, 20 ms
  and a buffer of 20 bytes: of a frame that busts its budget the comments say that
  its packet holds an empty frame, so that decoders conceal it (`lib.rs:1473`,
  1508). Under VBR the packet is `[toc, 0]`, which is one frame of one zero byte
  (`lib.rs:1510`); a decoder conceals packets of at most one byte and empty frames
  (`lib.rs:1834`, 2030), and decodes this one. With `StarvingCbr`, mono 48 kHz,
  40 ms: a starved CBR sub-frame is repacketized with its frame count and padding
  as its payload (`lib.rs:1634`). `FillersSound` says for which settings neither
  can happen.
- `FadesAlwaysMatch` (`MCCeltCodec_fade.cfg` with `VoiceInputs`): a frame is filtered
  and coded with the tapset decided before it, and remembered with the one that
  `spreading_decision()` takes after that (`celt.rs:3166` and 2794; libopus remembers the
  one coded). The next frame fades the old filter out with other taps than the decoder.
- `PitchFollowsTwo` (`MCCeltCodec.cfg` with `BandInputs`): "Pitch-based concealment only after
  two good frames in a row" (`celt.rs:3479`) holds after noise, which is
  `PitchIsFresh`, but not after a reset, nor after a loss that was concealed by
  pitch: there one packet is enough (`celt.rs:3480`).
- `SilkRestartsOnce` (`MCOpusEncoder_16k.cfg` with 20 ms frames and buffers of
  10 and 1276 bytes): SILK-only VBR packets do not update `prev_enc_mode`, so after
  CELT each of them resets SILK again (`lib.rs:1534`).
- `PaddedSymbolsReturn` (`MCRangeCoder.cfg`): `pad_to_bits` writes whole bytes
  past raw bits that still wait in the window, so they end up elsewhere than the
  decoder reads them (`range_coder.rs:210`, called at `celt.rs:3161`).
- `InStepAcrossBands` (`MCCeltCodec.cfg` with `BandInputs`): the decoder
  forgets the energies of bands a frame does not code, the encoder does not
  (`celt.rs:4009`).
- `InStepAcrossModes` (`MCCeltCodec.cfg`): the decoder resets CELT at mode
  switches (`lib.rs:1912`, 2101, 2279, 2333, 2490) and the encoder never does.

Divergences met while modelling that the models contain but no run states:
at 12 kHz CELT is coded with 17 bands and the ToC announces 13 (`lib.rs:1326`,
which is why `CeltBandsAgreed` excludes 12 kHz); the sub-frames of a split
packet may differ in bandwidth when FEC lowers it for some (`lib.rs:1641`); a split
starved packet sets `prev_enc_mode` though no sub-frame did (`lib.rs:1674`); the
CELT layer of an empty Hybrid frame is silence and not concealment (`lib.rs:2283` against 2213); a SILK encoder
restarted after CELT resets the side to its defaults and leaves the mid's
noise-shaping state, NLSFs and gain as they were (`init_encoder.rs:7`, against
`lib.rs:992`), so `MemoriesAgree` is stated for streams without CELT; the
pulses of a 10 ms frame at 12 kHz are coded to the next multiple of 16 samples,
with whatever stands behind the frame (`encode_pulses.rs:144`; `StaleTail`
exempts such inputs); a multistream packet moves the decoders before a
malformed stream (`multistream.rs:219`); a transient that could not be flagged
still takes short blocks' time-frequency tables in the encoder
(`celt.rs:2572`); a filter that is used in a frame without room for its flag is
heard by no decoder (`celt.rs:2557`, `Untold` in `CeltCodec`); a negative VBR
target wraps in a cast (`celt.rs:2931`); the intensity band of a Hybrid frame is
clamped from 0 and not from the first band (`celt.rs:2774`, which `InputShape`
keeps out: below it `rate.rs:383` would underflow).

## 6. Not modelled, and why

Signal processing (LPC, pitch search, noise shaping, resampling, high-pass): its
state is audio that is rounded at every step, which a finite model cannot tell
apart. Where such state is kept, reset or forgotten *is* modelled, as a source.
SIMD kernels do the arithmetic of the scalar ones, except the PVQ searches,
whose difference is modelled. Wording of errors and parsing of bytes that lead
to `Err` before any state is touched are left out of `OpusDecoder`.

What the models simplify, module by module:

- `SilkCodec`: the values of indices and pulses, the search for the bit rate
  (its retries restore the coder and the contexts) and the choice of mid-only
  frames (the code needs a frame of zero width first; the model allows more).
- `CeltCodec`: the decoder's output has the stream's channels; the VBR target
  and its drift are a choice (`target`); energies and history the encoder writes
  and never reads are left out; the noise and the anti-collapse noise are not
  values, only the count of draws from the generator is; the background rises
  by a unit per 2.5 ms and not by .001; the bits' difference between mid and
  side is linear in the angle; a concealed frame lasts as long as the one lost;
  the costs of symbols are a table.
- `CeltSignal`: no resampling; quantisation loses nothing; the pre-filter is run
  on every frame, the other case being `celt_fade`'s. Its filter is remembered with
  the tapset decided after it, as in the code, so `SignalReturns` asks that no
  frame with a filter decides another (`steady`); section 5 says why.
- `OpusFraming`: a ToC byte is a duration and a code; the stream's decoder is
  the count of its samples.
- `Pvq`: samples are small integers; scores are compared as exact fractions,
  with ties open.
- The types of `RangeCoder`, `CeltCodec` and `OnceCell` are stated as `TypeOK`
  and were checked with TLC, but are in no configuration; `OnceCell` proves its
  own.

## 7. Plan

In this order; each module is written to be proved about where it can be
(constants with named assumptions, one action per operation, no recursive
operators).

1. Proofs: the background of a concealment (`ConcealmentFades`) in `CeltCodec`,
   for which the lemmas behind `RateHolds` have to be said of a reader; then
   `PacketsAreUnderstood`, for which `RangeCoderReturn` shows the way: a trail of
   what each walk has done; the round trip of joined and multistream packets.
2. `SilkCodec`, continued: packets that change their length, rate and channels
   (copies kept across a change, `silk_init_decoder` of the side), the rate
   search of `silk_encode_frame` and mid-only hysteresis; then
   `SilkConcealment` (`loss_cnt`, the glue after a loss).
3. `Multistream` over several `OpusDecoder`s reduced to their packet counts, with
   calls of different streams failing in turn.
4. `OpusCodec`: `OpusEncoder`, a lossy channel and `OpusDecoder` composed; the
   abstract specification is a stream whose layers always continue. The two
   layers of an empty Hybrid frame belong to it.
5. `FixedVec`: written slots against visible ones.
