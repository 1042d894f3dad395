----------------------------- MODULE CeltSignal -----------------------------
(***************************************************************************)
(* The audio of CELT from the encoder's input to the decoder's output,     *)
(* from src/src/celt.rs, with nothing lost to quantisation: pre-emphasis,  *)
(* the comb filter that the decoder undoes, long and short transforms      *)
(* overlapping from frame to frame, de-emphasis.  One channel, samples     *)
(* modulo a prime.                                                         *)
(*                                                                         *)
(* An operator Mut<Name> is <Name> with a slip the properties must catch;  *)
(* nothing here uses it.                                                   *)
(***************************************************************************)
EXTENDS CeltTransforms

CONSTANTS
  ShortSize,    \* samples of a short block, which is also the overlap
  MaxLm,        \* a frame has ShortSize * 2^lm samples, lm in 0..MaxLm
  Window,       \* of the overlap
  Taps,         \* PREFILTER_GAINS, a triple for each tapset
  Coef,         \* preemph[0]
  CombMin,      \* COMBFILTER_MINPERIOD
  CombMax       \* COMBFILTER_MAXPERIOD, and the length of its history

Overlap == ShortSize

ASSUME WindowKeepsPower ==
  \A i \in 1..Overlap : (Window[i] * Window[i] + Window[Overlap + 1 - i] * Window[Overlap + 1 - i]) % Modulus = 1
ASSUME PeriodsReach == 3 <= CombMin /\ CombMin + 2 <= CombMax

Mdct == NewMdct(2 * ShortSize * 2^MaxLm, MaxLm)
PlanOf(lm) == Mdct[MaxLm - lm + 1]
ZerosOf(n) == Now([i \in 1..n |-> 0])
LastOf(s, n) == SubSeq(s, Len(s) - n + 1, Len(s))

-----------------------------------------------------------------------------
(* The comb filter.  A filter is a period, a gain and a tapset.            *)

NoFilter == [period |-> CombMin, gain |-> 0, tapset |-> 1]

\* What filter f adds to sample i of x.
Echo(x, i, f, at) ==
  LET t == IF f.period < CombMin THEN CombMin ELSE IF f.period > at - 3 THEN at - 3 ELSE f.period
      g == [k \in 1..3 |-> (f.gain * Taps[f.tapset][k]) % Modulus]
  IN  (g[1] * x[i - t] + g[2] * ((x[i - t + 1] + x[i - t - 1]) % Modulus)
       + g[3] * ((x[i - t + 2] + x[i - t - 2]) % Modulus)) % Modulus

\* From one filter to another over the overlap; equal ones need no fade.
Fading(x, i, from, to, at) ==
  LET k == i - at + 1
      w == IF k <= Overlap THEN (Window[k] * Window[k]) % Modulus ELSE 1
  IN  IF from = to \/ k > Overlap THEN Echo(x, i, to, at)
      ELSE ((1 - w) * Echo(x, i, from, at) + w * Echo(x, i, to, at)) % Modulus

\* n samples from x[at] on, filtered: the echoes are of x itself.
CombFilter(x, at, n, from, to) ==
  Now([k \in 1..n |-> (x[at + k - 1] + Fading(x, at + k - 1, from, to, at)) % Modulus])

\* In place: the echoes are of what was filtered before.
CombFilterInplace(x, at, n, from, to) ==
  IF from.gain = 0 /\ to.gain = 0 THEN x
  ELSE FoldLeft(LAMBDA y, i : [y EXCEPT ![i] = (@ + Fading(y, i, from, to, at)) % Modulus],
                x, [k \in 1..n |-> at + k - 1])

Negated(f) == [f EXCEPT !.gain = -@]

-----------------------------------------------------------------------------
(* The encoder.                                                            *)

\* x[i] - Coef * x[i - 1], and what the next frame starts from.
Preemphasis(x, mem) ==
  Now([i \in DOMAIN x |-> (x[i] - (IF i = 1 THEN mem ELSE x[i - 1] * Coef)) % Modulus])

NewSignalEncoder == [preemph |-> 0, history |-> ZerosOf(CombMax), tail |-> ZerosOf(Overlap), filter |-> NoFilter]

\* A frame is coded with the tapset chosen so far.  Only then do the longest
\* frames choose it anew (spreading_decision()), and the filter is remembered
\* with that one.
Decided(e, frame) ==
  IF frame.lm = MaxLm /\ ~frame.short THEN frame.tapset ELSE e.filter.tapset
FilterOf(e, frame) == [period |-> frame.period, gain |-> frame.gain, tapset |-> e.filter.tapset]
CodedFilter(f) == IF f.gain = 0 THEN NoFilter ELSE f
Remembered(f, tapset) == [CodedFilter(f) EXCEPT !.tapset = tapset]

\* run_prefilter() once it has settled on a filter: the frame is filtered,
\* unless that made it no quieter; then the old filter is faded out.
MutRunPrefilter(e, body, frame) ==
  LET x == e.history \o body
      to == IF frame.cancelled THEN NoFilter ELSE FilterOf(e, frame)
  IN  [body |-> IF frame.cancelled THEN body
                ELSE CombFilter(x, CombMax + 1, Len(body), Negated(e.filter), Negated(to)),
       history |-> LastOf(x, CombMax), coded |-> CodedFilter(to),
       filter |-> Remembered(to, Decided(e, frame))]
RunPrefilter(e, body, frame) ==
  LET x == e.history \o body
      to == IF frame.cancelled THEN [FilterOf(e, frame) EXCEPT !.gain = 0] ELSE FilterOf(e, frame)
      filtered == CombFilter(x, CombMax + 1, Len(body), Negated(e.filter), Negated(to))
  IN  [body |-> IF frame.cancelled THEN SubSeq(filtered, 1, Overlap) \o SubSeq(body, Overlap + 1, Len(body))
                ELSE filtered,
       history |-> LastOf(x, CombMax), coded |-> CodedFilter(to),
       filter |-> Remembered(to, Decided(e, frame))]

\* Short blocks interleave their coefficients.
Analysed(in, lm, short) ==
  LET blocks == 2^lm
      each == Now([b \in 1..blocks |-> Forward(PlanOf(0), SubSeq(in, (b - 1) * ShortSize + 1, Len(in)), Window, Overlap)])
  IN  IF short THEN Now([k \in 1..blocks * ShortSize |-> each[((k - 1) % blocks) + 1][((k - 1) \div blocks) + 1]])
      ELSE Forward(PlanOf(lm), in, Window, Overlap)

EncodeSignal(e, pcm, frame) ==
  LET f == RunPrefilter(e, Preemphasis(pcm, e.preemph), frame)
      in == e.tail \o f.body
  IN  [enc |-> [preemph |-> (pcm[Len(pcm)] * Coef) % Modulus, history |-> f.history, filter |-> f.filter,
                tail |-> LastOf(in, Overlap)],
       coded |-> f.coded,
       spectrum |-> Analysed(in, frame.lm, frame.short)]

-----------------------------------------------------------------------------
(* The decoder.                                                            *)

NewSignalDecoder == [mem |-> ZerosOf(Overlap \div 2), history |-> ZerosOf(CombMax), preemph |-> 0,
                     old |-> NoFilter, filter |-> NoFilter]

\* The transforms of a frame, each into what the one before left.
Synthesised(mem, spectrum, lm, short) ==
  LET n == ShortSize * 2^lm
      blocks == IF short THEN 2^lm ELSE 1
      plan == IF short THEN PlanOf(0) ELSE PlanOf(lm)
      size == n \div blocks
      Block(b) == Now([k \in 1..size |-> spectrum[(k - 1) * blocks + b]])
      One(out, b) ==
        LET at == (b - 1) * size
        IN  SubSeq(out, 1, at) \o Backward(plan, Block(b), SubSeq(out, at + 1, Len(out)), Window, Overlap)
  IN  FoldLeft(One, mem \o ZerosOf(n), [b \in 1..blocks |-> b])

\* The first short block still fades to the filter of the frame before, as
\* the output lags by the overlap; the rest fades to this frame's.
Postfilter(d, lm, to, out) ==
  LET n == Len(out)
      x == d.history \o out
      first == CombFilterInplace(x, CombMax + 1, ShortSize, d.old, d.filter)
      both == IF lm = 0 THEN first
              ELSE CombFilterInplace(first, CombMax + 1 + ShortSize, n - ShortSize, d.filter, to)
      y == IF to.gain = 0 /\ d.filter.gain = 0 /\ d.old.gain = 0 THEN x ELSE both
  IN  [out |-> LastOf(y, n), history |-> LastOf(y, CombMax), filter |-> to,
       old |-> IF lm > 0 THEN to ELSE d.filter]

Deemphasis(x, mem) ==
  LET sum == FoldLeft(LAMBDA y, v : Append(y, (v + (IF y = << >> THEN mem ELSE y[Len(y)] * Coef)) % Modulus), << >>, x)
  IN  sum

DecodeSignal(d, spectrum, frame, filter) ==
  LET all == Synthesised(d.mem, spectrum, frame.lm, frame.short)
      n == ShortSize * 2^frame.lm
      f == Postfilter(d, frame.lm, filter, SubSeq(all, 1, n))
      pcm == Deemphasis(f.out, d.preemph)
  IN  [dec |-> [mem |-> LastOf(all, Overlap \div 2), history |-> f.history, old |-> f.old, filter |-> f.filter,
                preemph |-> (pcm[n] * Coef) % Modulus],
       pcm |-> pcm]

-----------------------------------------------------------------------------
(* Property of a row of frames: whatever their lengths, transforms and     *)
(* filters, the output is the input, an overlap later, if the tapset is    *)
(* chosen anew only in frames that no filter is on in.                     *)

\* Some audio.
Audio(a, n) == Now([i \in 1..n |-> ((a + i) * (a + i) * 37 + 5 * (a + i) + 11) % Modulus])

SignalReturns(frames) ==
  LET One(acc, frame) ==
        LET pcm == Audio(Len(acc.in), ShortSize * 2^frame.lm)
            e == EncodeSignal(acc.enc, pcm, frame)
            d == DecodeSignal(acc.dec, e.spectrum, frame, e.coded)
        IN  [enc |-> e.enc, dec |-> d.dec, in |-> acc.in \o pcm, out |-> acc.out \o d.pcm,
             steady |-> acc.steady /\ (e.coded.gain = 0 \/ e.enc.filter = e.coded)]
      done == FoldLeft(One, [enc |-> NewSignalEncoder, dec |-> NewSignalDecoder, in |-> << >>, out |-> << >>,
                             steady |-> TRUE], frames)
  IN  done.steady => done.out = SubSeq(ZerosOf(Overlap) \o done.in, 1, Len(done.out))
=============================================================================
