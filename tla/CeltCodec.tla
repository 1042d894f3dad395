----------------------------- MODULE CeltCodec ------------------------------
(***************************************************************************)
(* A CELT encoder and a CELT decoder, frame after frame: CeltEncoder and   *)
(* CeltDecoder of src/src/celt.rs with the concealment of                  *)
(* src/src/celt/plc.rs.  Packets may be lost, the decoder may be reset at  *)
(* a mode switch, and frames change their size, bands, rate and signal.    *)
(* What the signal analysis finds is a choice: an input names the energies *)
(* of a frame and every decision made from the samples.                    *)
(*                                                                         *)
(* An operator Mut<Name> is <Name> with a slip the properties must catch;  *)
(* nothing here uses it.                                                   *)
(***************************************************************************)
EXTENDS CeltBands

CONSTANTS
  Inputs,       \* the frames that may be coded: see InputShape
  Levels,       \* the energies a frame may have: band -> steps, by name
  MaxFrames,    \* how many frames a behaviour codes
  MaxLm,        \* the longest frame is of 2^MaxLm units of 2.5 ms
  HybridBits,   \* a Hybrid VBR frame is never cut below this many bits (37)
  PitchLimit,   \* pitch is repeated for at most this many units (40)
  MinPeriod,    \* COMBFILTER_MINPERIOD
  None

ASSUME PitchLimitReached == PitchLimit \in Nat \ {0}
ASSUME FrameLengths == MaxLm \in 0..3
ASSUME HybridFloor == HybridBits \in Nat
ASSUME PeriodsInRange == MinPeriod \in 15..1022
ASSUME InputShape ==
  /\ Inputs # {}
  /\ \A x \in Inputs :
       /\ x.lm \in 0..MaxLm /\ x.start \in Nat /\ x.end \in x.start + 1..NB
       /\ x.bytes \in Nat /\ x.before \in 0..x.bytes - 1 /\ x.rate \in Nat /\ x.target \in Int
       /\ x.vbr \in BOOLEAN /\ x.intensity \in Int /\ x.intensity >= x.start /\ x.seed \in Nat
       /\ x.complexity \in 0..10
       /\ x.trim \in Nat /\ x.spread \in Nat /\ x.gain \in Nat /\ x.tapset \in Nat
       /\ x.period \in MinPeriod..1022 /\ x.level \in DOMAIN Levels
       \* Neither is looked for at the lowest complexities.
       /\ x.complexity < 1 => ~x.transient
       /\ x.complexity < 2 => x.marks = Zero /\ ~x.select
ASSUME LevelShape == \A l \in DOMAIN Levels : Levels[l] \in [0..NB - 1 -> Int]
\* encode_internal() makes an empty packet of a frame whose rate is below
\* three bytes, and no SILK frame precedes one of all bands in a packet.
ASSUME RatesAreEnough ==
  \A x \in Inputs : x.vbr /\ x.start = 0 => x.before = 0 /\ x.rate >= 192
\* Below every band but the first two of a frame lie as many bins as it has,
\* and the second has at most twice the bins of the first.
ASSUME BandsCanFold ==
  \A x \in Inputs :
    /\ x.start + 1 < x.end => Width(x.start + 1) <= 2 * Width(x.start)
    /\ \A i \in x.start + 2..x.end - 1 : Width(i) <= Edges[i + 1] - Edges[x.start + 1]

VARIABLES
  channels,  \* of the stream, and of the encoder
  enc,       \* the encoder
  wire,      \* the packet under way, or None
  dec,       \* the decoder
  heard,     \* how the last packet was read
  doubts,    \* what set the decoder's energies apart since an intra frame
  good,      \* packets heard in a row, up to 2
  noisy,     \* whether noise was heard since two packets came in a row
  frames,    \* frames coded
  mode,      \* the first band of this mode's frames, None at a switch
  spent      \* eighths of bits sent at a constrained rate, above that rate

vars == <<channels, enc, wire, dec, heard, doubts, good, noisy, frames, mode, spent>>

Silent == -28 * Unit
NoFilter == [period |-> MinPeriod, gain |-> 0, tapset |-> 0]
Energies(e) == [c \in 0..1 |-> [i \in 0..NB - 1 |-> e]]
Geometry(x, c) == [start |-> x.start, end |-> x.end, c |-> c, lm |-> x.lm]

-----------------------------------------------------------------------------
(* The encoder.                                                            *)

NewEncoder ==
  [old |-> Energies(0), delayed |-> 0, tapset |-> 0, pf |-> NoFilter, consec |-> 0,
   reservoir |-> 0]

\* run_prefilter() fades from the last filter to this one; frames it is not
\* run for are left as they are.
PrefilterRuns(x) == x.start = 0 /\ x.complexity >= 5 /\ channels = 1
Prefilter(x) ==
  IF PrefilterRuns(x) /\ x.gain > 0
  THEN [period |-> x.period, gain |-> x.gain, tapset |-> enc.tapset]
  ELSE [NoFilter EXCEPT !.tapset = enc.tapset]
Heard(f) == IF f.gain = 0 THEN NoFilter ELSE f
Fade(x) == IF PrefilterRuns(x) THEN <<Heard(enc.pf), Heard(Prefilter(x))>> ELSE <<NoFilter, NoFilter>>

\* The packet's first symbols and its size after silence and the bound of
\* the constrained rate.
Constrained(x) == x.vbr /\ x.start = 0
Resize(rc, bytes) == [rc EXCEPT !.storage = bytes]

MutOpening(x) ==
  LET rc == Flag([Writer(x.bytes, x.seed) EXCEPT !.used = @ + 64 * x.before], 15, FALSE).rc
  IN  [rc |-> IF Constrained(x) THEN Resize(rc, Least(x.bytes, 2 + (2 * x.rate) \div 64)) ELSE rc,
       silence |-> FALSE, told |-> 8 + 64 * x.before]
Opening(x) ==
  LET rc0 == [Writer(x.bytes, x.seed) EXCEPT !.used = @ + 64 * x.before]
      first == Tell(rc0) = 1
      filled == (Tell(rc0) + 4) \div 8
      silence == first /\ x.silent
      rc1 == IF first THEN Flag(rc0, 15, silence).rc ELSE rc0
      size1 == IF silence /\ x.vbr THEN Least(x.bytes, filled + 2) ELSE x.bytes
      rc2 == IF silence THEN ReadAll(rc1, 8 * size1) ELSE rc1
      allowed == Most(IF first THEN 2 ELSE 0, (2 * x.rate - enc.reservoir) \div 64)
      size2 == IF Constrained(x) THEN Least(size1, filled + allowed) ELSE size1
  IN  [rc |-> Resize(rc2, size2), silence |-> silence, told |-> TellFrac(rc0)]

\* The comb filter's parameters, where there is room for them.
Octave(period) == CHOOSE o \in 0..5 : 16 * Pow2[o] <= period + 1 /\ period + 1 < 32 * Pow2[o]
CodePostfilter(rc, f) ==
  LET Tapset(t, period, gain) ==
        [rc |-> t.rc, pf |-> [period |-> period, gain |-> gain, tapset |-> t.value]]
      Gain(q, period) ==
        Tapset(IF rc.writing \/ Tell(q.rc) + 2 <= 8 * rc.storage
               THEN Code(q.rc, "icdf", 2, f.tapset) ELSE [rc |-> q.rc, value |-> 0],
               period, q.value + 1)
      Period(p, lowest) == Gain(Code(p.rc, "raw", 3, f.gain - 1), lowest + p.value - 1)
      Octaved(o) == Period(Code(o.rc, "raw", 4 + o.value, f.period + 1 - 16 * Pow2[o.value]),
                           16 * Pow2[o.value])
      Asked(flag) ==
        IF flag.value THEN Octaved(Code(flag.rc, "uint", 6, IF rc.writing THEN Octave(f.period) ELSE 0))
        ELSE [rc |-> flag.rc, pf |-> NoFilter]
  IN  Asked(Flag(rc, 1, f.gain > 0))

HasPostfilter(rc, start, silence) == start = 0 /\ ~silence /\ Tell(rc) + 16 <= 8 * rc.storage

\* A filter that no packet says was used, and, once the frame is coded, one
\* whose taps are remembered as others.
Untold(x, open) == Prefilter(x).gain > 0 /\ ~HasPostfilter(open.rc, x.start, open.silence)
Retapped(x, tapset) == Prefilter(x).gain > 0 /\ tapset # enc.tapset
\* A filter that is dropped, as this frame's is not looked for.
Dropped(x) == enc.pf.gain > 0 /\ ~PrefilterRuns(x)

\* How far the coefficients are rotated, coded where there is room for it;
\* only the longest frames look for a tapset with it.
Listened(x, rc) == ~x.transient /\ x.complexity >= 3 /\ Most(1, rc.storage) >= 10 * channels
SpreadOf(x, rc, coded) ==
  IF x.complexity = 0 THEN 0 ELSE IF coded /\ Listened(x, rc) THEN x.spread ELSE 2
TapsetOf(x, rc, coded) ==
  IF coded /\ Listened(x, rc) /\ x.lm = MaxLm THEN x.tapset ELSE enc.tapset

\* Everything up to the second choice of the size.
CodeFront(x, open) ==
  LET g == Geometry(x, channels)
      total == 8 * open.rc.storage
      Trimmed(short, energy, tf, spreads, boosts) ==
        LET trims == TellFrac(boosts.rc) + 48 <= 8 * total - boosts.total
        IN  [rc |-> IF trims THEN Code(boosts.rc, "icdf", 3, x.trim).rc ELSE boosts.rc,
             short |-> short, energy |-> energy, tf |-> tf.tf, boosts |-> boosts,
             spread |-> SpreadOf(x, open.rc, spreads), trim |-> IF trims THEN x.trim ELSE 5,
             tapset |-> TapsetOf(x, open.rc, spreads)]
      Boosted(short, energy, tf) ==
        LET spreads == Tell(tf.rc) + 4 <= total
        IN  Trimmed(short, energy, tf, spreads,
                    CodeBoosts(g, x.boosts,
                               IF spreads THEN Code(tf.rc, "icdf", 2, SpreadOf(x, open.rc, TRUE)).rc
                               ELSE tf.rc))
      Marked(short, energy) ==
        Boosted(short, energy, CodeTf(g, x.transient, x.marks, x.select, energy.rc))
      Energised(rc) ==
        LET says == x.lm > 0 /\ Tell(rc) + 3 <= total
        IN  Marked(says /\ x.transient,
                   QuantCoarse(g, [c \in 0..1 |-> Levels[x.level]], enc.old, total,
                               IF says THEN Flag(rc, 3, x.transient).rc ELSE rc,
                               enc.delayed, x.complexity >= 4))
  IN  Energised(IF HasPostfilter(open.rc, x.start, open.silence)
                THEN CodePostfilter(open.rc, Prefilter(x)).rc ELSE open.rc)

\* The smallest packet that the choices made so far agree with.
MutMinAllowed(x, open, front) == (TellFrac(front.rc) + front.boosts.total + 63) \div 64
MinAllowed(x, open, front) ==
  LET a == (TellFrac(front.rc) + front.boosts.total + 63) \div 64 + 2
      b == (open.told + 8 * HybridBits + front.boosts.total + 63) \div 64
  IN  IF x.start # 0 THEN Most(a, b) ELSE a

\* The size a variable rate gives, the reservoir and what it counted.  A
\* target below zero wraps around and asks for everything.
Settled(x, open, front) ==
  LET most == front.rc.storage
      target == x.target + TellFrac(front.rc)
      asked == IF target + 32 < 0 THEN most
               ELSE Least(most, Most((target + 32) \div 64, MinAllowed(x, open, front)))
      size == IF open.silence THEN 2 ELSE asked
      level == enc.reservoir + 64 * size - x.rate
      more == IF level < 0 /\ ~open.silence THEN (-level) \div 64 ELSE 0
  IN  IF ~x.vbr THEN [size |-> most, reservoir |-> enc.reservoir]
      ELSE IF Constrained(x) THEN [size |-> Least(most, size + more), reservoir |-> Most(0, level)]
      ELSE [size |-> Least(most, size), reservoir |-> enc.reservoir]

\* One bit is kept for anti-collapse in a long transient frame.
AntiCollapse(transient, lm, rc) ==
  IF transient /\ lm >= 2 /\ 64 * rc.storage - TellFrac(rc) - 1 >= 8 * (lm + 2) THEN 8 ELSE 0

Allocate(x, front, size) ==
  LET rc == Resize(front.rc, size)
      rsv == AntiCollapse(x.transient, x.lm, rc)
  IN  [rsv |-> rsv,
       alloc |-> ComputeAllocation(Geometry(x, channels), front.boosts.offsets, front.trim,
                                   x.intensity, x.dual, 64 * size - TellFrac(rc) - 1 - rsv, rc)]

\* Fine energy, the bands, the anti-collapse bit and what is left over.
Layers(x, front, a) ==
  LET g == Geometry(x, channels)
      alloc == a.alloc
      Finalised(fine, rc) ==
        FinaliseEnergy(g, [fine EXCEPT !.rc = rc], alloc.fine, alloc.priority,
                       8 * rc.storage - Tell(rc))
      Banded(fine, rc) ==
        Finalised(fine, IF a.rsv > 0
                        THEN Code(rc, "raw", 1, IF enc.consec < 2 THEN 1 ELSE 0).rc ELSE rc)
      Refined(fine) ==
        Banded(fine, QuantAllBands(g, fine.rc, alloc, front.tf, front.short, front.spread,
                                   64 * alloc.rc.storage - a.rsv,
                                   x.complexity >= 8 /\ channels = 2 /\ ~alloc.dual, TRUE).rc)
  IN  Refined(CodeFine(g, [rc |-> alloc.rc, old |-> front.energy.old, error |-> front.energy.error],
                       alloc.fine))

\* encode_impl(): a frame becomes a packet.  With it go, for the properties,
\* the fade of its filters, whether the decoder's must be another (amiss), and
\* whether the next frame's will be (leaves).
Encode ==
  /\ wire = None /\ frames < MaxFrames
  /\ \E x \in {y \in Inputs : mode \in {None, y.start}} : \E open \in {Opening(x)} : \E front \in {CodeFront(x, open)} :
     \E sized \in {Settled(x, open, front)} : \E a \in {Allocate(x, front, sized.size)} :
     \E out \in {Layers(x, front, a)} :
       LET old == IF open.silence THEN Energies(Silent) ELSE out.old
       IN  /\ enc' = [enc EXCEPT !.old = old, !.delayed = front.energy.delayed,
                                 !.tapset = front.tapset,
                                 !.pf = [Prefilter(x) EXCEPT !.tapset = front.tapset],
                                 !.consec = IF x.transient THEN Least(2, @ + 1) ELSE 0,
                                 !.reservoir = sized.reservoir]
           /\ wire' = [g |-> Geometry(x, channels), before |-> x.before, bytes |-> sized.size,
                       symbols |-> out.rc.symbols, used |-> TellFrac(out.rc), old |-> old,
                       intra |-> front.energy.intra, fade |-> Fade(x),
                       amiss |-> Dropped(x) \/ Untold(x, open),
                       leaves |-> Untold(x, open) \/ Retapped(x, front.tapset)]
           /\ mode' = x.start
           /\ spent' = IF Constrained(x) THEN spent + 64 * sized.size - x.rate ELSE spent
  /\ frames' = frames + 1
  /\ UNCHANGED <<channels, dec, heard, doubts, good, noisy>>

-----------------------------------------------------------------------------
(* The decoder.  Its memories are kept in units of 2.5 ms, each named by   *)
(* the frame it came from: hist is decode_mem, two of the longest frames,  *)
(* and memory is prefilter_mem, one.                                       *)

\* new() and reset_state().
Longest == Pow2[MaxLm] + 1
NewDecoder ==
  [old |-> Energies(0), e2 |-> Energies(Silent), e3 |-> Energies(Silent),
   background |-> Energies(0), pf |-> NoFilter, pfOld |-> NoFilter, loss |-> 0, plc |-> 0,
   skip |-> TRUE, last |-> "none", fold |-> FALSE, end |-> NB,
   hist |-> [k \in 1..2 * Longest |-> 0], memory |-> [k \in 1..Longest |-> 0],
   tail |-> "mdct", mixed |-> FALSE]

LastOf(s, n) == SubSeq(s, Len(s) - n + 1, Len(s))
Shift(s, n, name) == LastOf(s \o [k \in 1..n |-> name], Len(s))

\* After a loss a prediction must not jump up: it follows a falling trend,
\* or takes the lowest recent energy, and is lower still for short frames.
SafeEnergy(e0, e1, e2, missing, lm) ==
  LET slope == Least(2 * Unit, Most(e1 - e0, (e2 - e0) \div 2))
      trend == Most(e0 - Most(0, (1 + missing) * slope), -20 * Unit)
      safety == IF lm = 0 THEN (3 * Unit) \div 2 ELSE IF lm = 1 THEN Unit \div 2 ELSE 0
  IN  (IF e0 < Most(e1, e2) THEN trend ELSE Least(e0, Least(e1, e2))) - safety

MakeEnergyPredictionSafe(old, d, g) ==
  LET missing == Least(10, d.loss \div Pow2[g.lm])
  IN  [c \in 0..1 |-> [i \in 0..NB - 1 |->
        IF i \in g.start..g.end - 1
        THEN SafeEnergy(old[c][i], d.e2[c][i], d.e3[c][i], missing, g.lm) ELSE old[c][i]]]

\* A mono stream predicts from the louder half of a stereo frame before it.
Louder(old) == [old EXCEPT ![0] = [i \in 0..NB - 1 |-> Most(old[0][i], old[1][i])]]

\* A flag where there is room for it.
Maybe(rc, logp, room) == IF room THEN Flag(rc, logp, FALSE) ELSE [rc |-> rc, value |-> FALSE]

\* The packet's first symbols: silence and the comb filter.
ReadOpening(p) ==
  LET total == 8 * p.bytes
      Heeded(rc, silence) ==
        LET f == IF HasPostfilter(rc, p.g.start, silence) THEN CodePostfilter(rc, NoFilter)
                 ELSE [rc |-> rc, pf |-> NoFilter]
        IN  [rc |-> f.rc, pf |-> f.pf, silence |-> silence]
      Silenced(rc, silence) == Heeded(IF silence THEN ReadAll(rc, total) ELSE rc, silence)
      Opened(flag, full) == Silenced(flag.rc, full \/ flag.value)
      From(rc) == Opened(Maybe(rc, 15, Tell(rc) = 1 /\ Tell(rc) < total), Tell(rc) >= total)
  IN  From([Reader(p.symbols, p.bytes) EXCEPT !.used = @ + 64 * p.before])

\* Up to the coarse energies, predicted from what is safe.
ReadFront(p, d, open) ==
  LET g == p.g
      total == 8 * p.bytes
      old == IF g.c = 1 THEN Louder(d.old) ELSE d.old
      Read(energy, short) ==
        [rc |-> energy.rc, old |-> energy.old, silence |-> open.silence, pf |-> open.pf, short |-> short]
      Energised(intra, short) ==
        Read(UnquantCoarse(g, IF ~intra.value /\ d.loss # 0 THEN MakeEnergyPredictionSafe(old, d, g)
                              ELSE old, intra.rc, intra.value), short)
      Blocked(short) == Energised(Maybe(short.rc, 3, Tell(short.rc) + 3 <= total), short.value)
  IN  Blocked(Maybe(open.rc, 3, g.lm > 0 /\ Tell(open.rc) + 3 <= total))

ReadFlags(p, front) ==
  LET Trimmed(tf, spread, offsets, trim) ==
        [tf |-> tf, spread |-> spread, offsets |-> offsets, trim |-> trim.value, rc |-> trim.rc,
         rsv |-> AntiCollapse(front.short, p.g.lm, trim.rc)]
      Boosted(tf, spread, boosts) ==
        Trimmed(tf, spread, boosts.offsets,
                IF TellFrac(boosts.rc) + 48 <= 64 * p.bytes - boosts.total
                THEN Code(boosts.rc, "icdf", 3, 0) ELSE [rc |-> boosts.rc, value |-> 5])
      Spread(tf, spread) == Boosted(tf, spread.value, CodeBoosts(p.g, Zero, spread.rc))
      Marked(tf) ==
        Spread(tf.tf, IF Tell(tf.rc) + 4 <= 8 * p.bytes THEN Code(tf.rc, "icdf", 2, 0)
                        ELSE [rc |-> tf.rc, value |-> 2])
  IN  Marked(CodeTf(p.g, front.short, Zero, FALSE, front.rc))

ReadAllocation(p, flags) ==
  ComputeAllocation(p.g, flags.offsets, flags.trim, 0, TRUE,
                    64 * p.bytes - TellFrac(flags.rc) - 1 - flags.rsv, flags.rc)

ReadLayers(p, front, flags, alloc) ==
  LET none == Energies(0)
      Read(final, stale) ==
        [rc |-> final.rc, old |-> IF front.silence THEN Energies(Silent) ELSE final.old,
         stale |-> stale]
      Finalised(old, rc, stale) ==
        Read(FinaliseEnergy(p.g, [rc |-> rc, old |-> old, error |-> none], alloc.fine,
                            alloc.priority, 8 * p.bytes - Tell(rc)), stale)
      Banded(old, bands) ==
        Finalised(old, IF flags.rsv > 0 THEN Code(bands.rc, "raw", 1, 0).rc ELSE bands.rc, bands.stale)
      Refined(fine) ==
        Banded(fine.old, QuantAllBands(p.g, fine.rc, alloc, flags.tf, front.short, flags.spread,
                                       64 * p.bytes - flags.rsv, TRUE, FALSE))
  IN  Refined(CodeFine(p.g, [rc |-> alloc.rc, old |-> front.old, error |-> none], alloc.fine))

\* The history of energies and the background, which rises slowly (here by
\* one energy unit for each 2.5 ms, in the code by .001); bands that were
\* not coded forget theirs.
NextEnergies(d, p, old0, transient) ==
  LET old == IF p.g.c = 1 THEN [old0 EXCEPT ![1] = old0[0]] ELSE old0
      rise == Least(160, d.loss + Pow2[p.g.lm])
      Kept(f, forgotten) ==
        [c \in 0..1 |-> [i \in 0..NB - 1 |-> IF i \in p.g.start..p.g.end - 1 THEN f[c][i] ELSE forgotten]]
  IN  [d EXCEPT !.old = Kept(old, 0),
                !.e2 = Kept(IF transient
                            THEN [c \in 0..1 |-> [i \in 0..NB - 1 |-> Least(d.e2[c][i], old[c][i])]]
                            ELSE old, Silent),
                !.e3 = Kept(IF transient THEN d.e3 ELSE d.e2, Silent),
                !.background = [c \in 0..1 |-> [i \in 0..NB - 1 |->
                                 Least(d.background[c][i] + rise, old[c][i])]]]

\* An MDCT adds its first samples onto the overlap, which a concealed pitch
\* has left unfolded.
AddOverlap(d) == [d EXCEPT !.mixed = @ \/ d.fold # (d.tail = "raw"), !.tail = "mdct", !.fold = FALSE]

\* The postfilter fades from the current parameters to the new ones, in
\* short frames a frame late.
MutFilterFade(d, p, pf) == <<Heard(d.pfOld), Heard(pf)>>
FilterFade(d, p, pf) ==
  <<IF p.g.start # 0 THEN NoFilter ELSE Heard(d.pf), Heard(pf)>>
NextFilter(d, p, pf) ==
  LET current == IF p.g.start # 0 THEN [d.pf EXCEPT !.gain = 0] ELSE d.pf
  IN  [d EXCEPT !.pfOld = IF p.g.lm > 0 THEN pf ELSE current, !.pf = pf]

\* A packet after another, or the first one, lets a pitch be repeated.
MutUnskip(d) == FALSE
Unskip(d) == IF d.loss = 0 THEN FALSE ELSE d.skip

\* decode_impl_from_rc(): the packet becomes a frame of output.
Decode ==
  /\ wire # None
  /\ \E open \in {ReadOpening(wire)} : \E front \in {ReadFront(wire, dec, open)} :
     \E flags \in {ReadFlags(wire, front)} : \E alloc \in {ReadAllocation(wire, flags)} : \E out \in {ReadLayers(wire, front, flags, alloc)} :
       LET n == Pow2[wire.g.lm]
           d1 == NextFilter(AddOverlap(NextEnergies(dec, wire, out.old, front.short)), wire, front.pf)
           new == Shift(dec.hist, n, frames)
           memory == IF n >= Longest THEN LastOf(new, Longest) ELSE Shift(dec.memory, n, frames)
       IN  /\ dec' = [d1 EXCEPT !.skip = Unskip(dec), !.loss = 0, !.plc = 0,
                                !.last = "normal", !.end = wire.g.end,
                                !.hist = new, !.memory = memory]
           /\ heard' = [used |-> TellFrac(out.rc), wanted |-> wire.used, left |-> 64 * wire.bytes,
                        lost |-> out.rc.lost \/ out.rc.at # Len(wire.symbols),
                        stale |-> out.stale, old |-> wire.old, g |-> wire.g,
                        fade |-> FilterFade(dec, wire, front.pf), made |-> wire.fade,
                        amiss |-> wire.amiss \/ (heard # None /\ heard.leaves), leaves |-> wire.leaves]
           /\ doubts' = IF wire.intra \/ front.silence THEN {}
                        ELSE IF heard # None /\ <<heard.g.start, heard.g.end>> # <<wire.g.start, wire.g.end>>
                             THEN doubts \cup {"bands"} ELSE doubts
  /\ good' = Least(2, good + 1)
  /\ noisy' = (noisy /\ good = 0)
  /\ wire' = None
  /\ UNCHANGED <<channels, enc, frames, mode, spent>>

-----------------------------------------------------------------------------
(* Concealment.                                                            *)

\* conceal_noise(): the energies fall towards the background.
MutNoiseEnergies(d, start) ==
  LET decay == IF d.loss = 0 THEN (3 * Unit) \div 2 ELSE Unit \div 2
  IN  [c \in 0..1 |-> [i \in 0..NB - 1 |->
        IF c < channels /\ i \in start..d.end - 1
        THEN Most(d.background[c][i], d.e2[c][i] - decay) ELSE d.old[c][i]]]
NoiseEnergies(d, start) ==
  LET decay == IF d.loss = 0 THEN (3 * Unit) \div 2 ELSE Unit \div 2
  IN  [c \in 0..1 |-> [i \in 0..NB - 1 |->
        IF c < channels /\ i \in start..d.end - 1
        THEN Most(d.background[c][i], d.old[c][i] - decay) ELSE d.old[c][i]]]

ConcealNoise(d, start) ==
  [AddOverlap(d) EXCEPT !.old = NoiseEnergies(d, start), !.pfOld = d.pf, !.skip = TRUE]

\* conceal_periodic(): the last pitch is repeated, and its overlap is left
\* for the next frame to fold.
MutConcealPeriodic(d) == [d EXCEPT !.tail = "raw"]
ConcealPeriodic(d) == [d EXCEPT !.tail = "raw", !.fold = TRUE]

\* decode_lost()
DecodeLost(d, lm, start) ==
  LET periodic == d.plc < PitchLimit /\ start = 0 /\ ~d.skip
      made == IF periodic THEN ConcealPeriodic(d) ELSE ConcealNoise(d, start)
      hist == Shift(d.hist, Pow2[lm], frames)
      longer == [made EXCEPT !.loss = Least(10000, @ + Pow2[lm]), !.plc = Least(10000, @ + Pow2[lm])]
  IN  [longer EXCEPT !.last = IF periodic THEN "periodic" ELSE "noise", !.hist = hist,
                     !.memory = LastOf(hist, Longest)]

\* A packet that does not arrive.
Lose ==
  /\ wire # None
  /\ dec' = DecodeLost(dec, wire.g.lm, IF heard = None THEN 0 ELSE heard.g.start)
  /\ doubts' = doubts \cup {"loss"}
  /\ good' = 0 /\ noisy' = (noisy \/ dec'.last = "noise")
  /\ wire' = None
  /\ UNCHANGED <<channels, enc, heard, frames, mode, spent>>

\* A switch of modes: a stretch of SILK frames for which the encoder is not
\* run, or frames of another first band; the decoder is reset.
Switch ==
  /\ wire = None /\ frames > 0 /\ frames < MaxFrames /\ dec # NewDecoder
  /\ dec' = NewDecoder
  /\ doubts' = doubts \cup {"reset"}
  /\ good' = 0 /\ noisy' = FALSE
  /\ heard' = None /\ mode' = None
  /\ UNCHANGED <<channels, enc, wire, frames, spent>>

Init ==
  /\ channels \in {1, 2}
  /\ enc = NewEncoder /\ dec = NewDecoder
  /\ wire = None /\ heard = None
  /\ doubts = {} /\ good = 0 /\ noisy = FALSE /\ frames = 0 /\ mode = None /\ spent = 0

Next == Encode \/ Decode \/ Lose \/ Switch

Spec == Init /\ [][Next]_vars

-----------------------------------------------------------------------------
(* Properties.                                                             *)

\* The types of what the two sides keep.
TypeOK ==
  /\ channels \in {1, 2} /\ frames \in 0..MaxFrames /\ good \in 0..2 /\ noisy \in BOOLEAN
  /\ doubts \subseteq {"loss", "bands", "reset"}
  /\ enc.reservoir \in Nat /\ enc.consec \in 0..2
  /\ dec.last \in {"none", "normal", "noise", "periodic"} /\ dec.skip \in BOOLEAN
  /\ dec.loss \in 0..10000 /\ dec.plc \in 0..10000
  /\ Len(dec.hist) = 2 * Longest /\ Len(dec.memory) = Longest

\* Whatever was lost before, a packet is read as it was written: the
\* decoder asks for the symbols the encoder coded, in their order, though it
\* knows only the packet's final size, and both fit in that size.
PacketsAreUnderstood ==
  heard # None => /\ ~heard.lost /\ heard.used = heard.wanted /\ heard.used <= heard.left

InAgreement == \A c \in 0..heard.g.c - 1, i \in heard.g.start..heard.g.end - 1 :
                 dec.old[c][i] = heard.old[c][i]
JustHeard == heard # None /\ dec.last = "normal"

\* Encoder and decoder predict from the same energies: after an intra frame
\* they agree for as long as every packet arrives.
InStep == JustHeard /\ doubts = {} => InAgreement

\* The same when only the bands changed: bands a frame does not code forget
\* their energy and history.
InStepAcrossBands == JustHeard /\ doubts \subseteq {"bands"} => InAgreement

\* The same when only a switch of modes reset the decoder.
InStepAcrossModes == JustHeard /\ doubts \subseteq {"reset"} => InAgreement

\* The comb filter fades in the decoder as it did in the encoder, in the
\* second of two packets in a row, unless the encoder dropped a filter it
\* was fading from, used one without telling, or remembers other taps.
FadesMatch == JustHeard /\ good = 2 /\ ~heard.amiss => heard.fade = heard.made

\* The same of every such packet.
FadesAlwaysMatch == JustHeard /\ good = 2 => heard.fade = heard.made

\* A band is folded from bins that bands before it have written.
FoldsWrittenBins == heard # None => ~heard.stale

\* At a constrained rate all frames together stay within the rate and what
\* the reservoir holds, and it holds no more than one frame.
RateIsKept ==
  /\ spent <= enc.reservoir
  /\ \E x \in Inputs : enc.reservoir <= Most(x.rate, 128)

\* An MDCT adds onto an overlap that was folded if a pitch was repeated
\* into it, and the postfilter's memory is the end of the output, whether
\* it was decoded or concealed.
OutputContinues == ~dec.mixed /\ dec.memory = LastOf(dec.hist, Longest)

\* Concealment never raises a band above the energy it was heard with, and
\* noise is followed by noise until a packet arrives.
Concealed == dec'.loss > dec.loss
ConcealmentFades ==
  [][Concealed =>
       /\ \A c \in 0..channels - 1, i \in 0..dec.end - 1 : dec'.old[c][i] <= dec.old[c][i]
       /\ dec.last = "noise" => dec'.last = "noise"]_vars

\* Once noise was played the pitch is not repeated again until two packets
\* arrive in a row (or the decoder is reset).
PitchIsFresh == [][Concealed /\ dec'.last = "periodic" => ~noisy]_vars

\* A pitch is repeated only where two packets arrived in a row.
PitchFollowsTwo ==
  [][Concealed /\ dec'.last = "periodic" /\ dec.last # "periodic" => good = 2]_vars
=============================================================================
