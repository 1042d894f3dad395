----------------------------- MODULE CeltBands ------------------------------
(***************************************************************************)
(* The bands of a CELT frame, src/src/bands.rs: how quant_all_bands()      *)
(* shares the bits that are left among bands, splits, channels and pulses, *)
(* what a band without pulses is filled with, which parts of the time axis *)
(* a band's pulses reached and how often the noise generator was run.      *)
(* The shapes themselves are the values of the coded symbols.              *)
(*                                                                         *)
(* An operator Mut<Name> is <Name> with a slip the properties must catch;  *)
(* nothing here uses it.                                                   *)
(***************************************************************************)
EXTENDS CeltAllocation

\* The steps of a split's angle that b bits are worth: 2^qb, made even.
Exp2 == <<16384, 17866, 19483, 21247, 23170, 25267, 27554, 30048>>
ComputeQn(n, b, offset, pulseCap, stereo) ==
  LET n2 == 2 * n - 1 - (IF stereo /\ n = 2 THEN 1 ELSE 0)
      qb == Least(Least(Quot(b + n2 * offset, n2), b - pulseCap - 32), 64)
  IN  IF qb < 4 THEN 1
      ELSE Least(256, 2 * ((Exp2[(qb % 8) + 1] \div Pow2[14 - (qb \div 8)] + 1) \div 2))

\* bitexact_cos() and bitexact_log2tan() of quarters of the way, as the
\* difference of bits between mid and side: what the even split costs a side.
Delta(n, theta, qn) == ((n - 1) * 4 * (2 * theta - qn)) \div qn

\* How a split shares the time blocks marked in fill.
Mask(blocks) == Pow2[blocks] - 1
And(x, y, n) == ForEach(LAMBDA s, k : s + (IF (x \div Pow2[k]) % 2 = 1 /\ (y \div Pow2[k]) % 2 = 1
                                           THEN Pow2[k] ELSE 0), 0, Upto(0, n))
Or(x, y) == x + y - And(x, y, 10)

\* The angle of a split: its symbol, what it cost and what it says.  ctx
\* holds the coder, the bits left for the frame, the noise count and the
\* band; th is the angle in steps, of qn.
AngleTold(ctx, n, blocks, fill, rc, th, qn, inv) ==
  [rc |-> rc, theta |-> th, qn |-> qn, inv |-> inv,
   cost |-> TellFrac(rc) - TellFrac(ctx.rc),
   delta |-> IF th = 0 THEN -16384 ELSE IF th = qn THEN 16384 ELSE Delta(n, th, qn),
   fill |-> IF th = 0 THEN And(fill, Mask(blocks), 10)
            ELSE IF th = qn THEN And(fill, Mask(blocks) * Pow2[blocks], 10) ELSE fill]
AngleAsked(ctx, n, blocks, fill, qn, pdf, inverts) ==
  LET Told(rc, th, inv) == AngleTold(ctx, n, blocks, fill, rc, th, qn, inv)
      Angled(s) == Told(s.rc, s.value, FALSE)
      Inverted(s) == Told(s.rc, 0, s.value)
  IN  IF qn # 1 THEN Angled(Code(ctx.rc, "theta", pdf, Wanted(ctx.rc, qn + 1)))
      ELSE IF inverts THEN Inverted(Flag(ctx.rc, 2, Wanted(ctx.rc, 2) = 1))
      ELSE Told(ctx.rc, 0, FALSE)
ComputeTheta(ctx, n, b, blocks, b0, lm, stereo, fill) ==
  LET pulseCap == LogN(ctx.band) + 8 * lm
      offset == pulseCap \div 2 - (IF stereo /\ n = 2 THEN 16 ELSE 4)
      Pdf(qn) == IF stereo /\ n > 2 THEN 3 * (qn \div 2 + 1) + qn \div 2
                 ELSE IF b0 > 1 \/ stereo THEN qn + 1 ELSE (qn \div 2 + 1)^2
      Asked(qn) == AngleAsked(ctx, n, blocks, fill, qn, Pdf(qn),
                              stereo /\ b > 16 /\ ctx.remaining > 16)
  IN  Asked(IF stereo /\ ctx.band >= ctx.intensity THEN 1
            ELSE ComputeQn(n, b, offset, pulseCap, stereo))

\* Low-energy blocks get more than the angle alone would give them.
Favour(t, mid, lm, b0) ==
  IF b0 = 1 \/ t.theta \in {0, t.qn} THEN t.delta
  ELSE IF 2 * t.theta > t.qn THEN t.delta - t.delta \div Pow2[4 - lm]
  ELSE Least(0, t.delta + (8 * mid) \div Pow2[5 - lm])

\* As many pulses as the bits and the frame allow.
PulsesThatFit(row, remaining, b) ==
  LET Fits(q) == q = 0 \/ remaining >= Pulses2Bits(row, q)
      Highest(q0) == CHOOSE q \in 0..q0 : Fits(q) /\ \A r \in q + 1..q0 : ~Fits(r)
  IN  Highest(Bits2Pulses(row, b))

\* A band without pulses: nothing, a copy of a lower band with noise added,
\* or noise.  An encoder only says which blocks it would have reached.
FillBand(ctx, n, blocks, folds, fill) ==
  LET reached == And(fill, Mask(blocks), 10)
  IN  IF ctx.rc.writing THEN [ctx |-> ctx, cm |-> IF folds THEN fill ELSE Mask(blocks)]
      ELSE IF reached = 0 THEN [ctx |-> ctx, cm |-> 0]
      ELSE [ctx |-> [ctx EXCEPT !.noise = @ + n], cm |-> IF folds THEN reached ELSE Mask(blocks)]

\* A symbol was coded, and the band's bits pay for it.
Charged(ctx, rc, bits) == [ctx EXCEPT !.rc = rc, !.remaining = @ - bits]

QuantLeaf(ctx, n, b, blocks, folds, lm, fill) ==
  LET Shaped(s, bits) ==
        [ctx |-> Charged(ctx, s.rc, bits), cm |-> 1 + (s.value % Mask(blocks))]
      Chosen(v, bits) == Shaped(Code(ctx.rc, "pvq", v, Wanted(ctx.rc, v)), bits)
      Pulsed(row, q) == IF q = 0 THEN FillBand(ctx, n, blocks, folds, fill)
                        ELSE Chosen(Codewords(n, GetPulses(q)), Pulses2Bits(row, q))
      From(row) == Pulsed(row, PulsesThatFit(row, ctx.remaining, b))
  IN  From(CacheFor(ctx.band, lm))

ShouldSplit(row, n, b, lm) == lm >= 0 /\ n > 2 /\ row # <<>> /\ b > row[MaxPseudo] + 12

\* How a split of `left` bits is spent.  Of mid and side the one with the
\* larger share is coded first; what it leaves is for the other, unless
\* that one is silent.
Parted(ctx, t, left, delta) ==
  LET Shares(mbits) ==
        [ctx |-> Charged(ctx, t.rc, t.cost), t |-> t, cm |-> 0, spare |-> 0, mid |-> mbits, side |-> left - mbits]
  IN  Shares(Least(Most(0, Quot(left - delta, 2)), left))
IsSide(s, k) == (k = 1) = (s.mid < s.side)
Share(s, k) ==
  LET silent == IF IsSide(s, k) THEN 0 ELSE s.t.qn
  IN  (IF IsSide(s, k) THEN s.side ELSE s.mid)
        + (IF s.spare > 24 /\ s.t.theta # silent THEN s.spare - 24 ELSE 0)
Spent(s, bits, part, cm) ==
  [s EXCEPT !.ctx = part.ctx, !.cm = Or(@, cm), !.spare = bits - (s.ctx.remaining - part.ctx.remaining)]

\* The two halves of a part: where they start, what of the mask each gets
\* and what each gives back.
PartStart(ctx, n, b, blocks, lm, fill) ==
  LET Split(t) == Parted(ctx, t, b - t.cost, Favour(t, n \div 2, lm - 1, blocks))
  IN  Split(ComputeTheta(ctx, n \div 2, b, (blocks + 1) \div 2, blocks, lm - 1, FALSE,
                         IF blocks = 1 THEN (fill % 2) * 3 ELSE fill))
PartFill(s, k, half) == IF IsSide(s, k) THEN s.t.fill \div Pow2[half] ELSE s.t.fill
PartJoined(s, k, blocks, p) ==
  Spent(s, Share(s, k), p, IF IsSide(s, k) THEN p.cm * Pow2[blocks \div 2] ELSE p.cm)

\* quant_partition() and, with writing coders, quant_partition_encode(): a
\* part that is worth more bits than its pulses can use is split in two, and
\* its halves again: lm, which is at most 3, says how often.
PartitionBy(Half(_, _, _, _, _, _, _), ctx, n, b, blocks, folds, lm, fill) ==
  LET half == (blocks + 1) \div 2
      Coded(s, k) ==
        PartJoined(s, k, blocks, Half(s.ctx, n \div 2, Share(s, k), half, folds, lm - 1,
                                      PartFill(s, k, half)))
      Both(s) == Coded(Coded(s, 1), 2)
  IN  IF ~ShouldSplit(CacheFor(ctx.band, lm), n, b, lm) THEN QuantLeaf(ctx, n, b, blocks, folds, lm, fill)
      ELSE Both(PartStart(ctx, n, b, blocks, lm, fill))

Partition0(ctx, n, b, blocks, folds, lm, fill) ==
  PartitionBy(QuantLeaf, ctx, n, b, blocks, folds, lm, fill)
Partition1(ctx, n, b, blocks, folds, lm, fill) ==
  PartitionBy(Partition0, ctx, n, b, blocks, folds, lm, fill)
Partition2(ctx, n, b, blocks, folds, lm, fill) ==
  PartitionBy(Partition1, ctx, n, b, blocks, folds, lm, fill)
QuantPartition(ctx, n, b, blocks, folds, lm, fill) ==
  PartitionBy(Partition2, ctx, n, b, blocks, folds, lm, fill)

\* A bin on its own has a sign.
Signed(c) == Charged(c, Code(c.rc, "raw", 1, Wanted(c.rc, 2)).rc, 8)
SignedIfRoom(c) == IF c.remaining >= 8 THEN Signed(c) ELSE c
QuantBandN1(ctx, channels) ==
  IF channels = 2 THEN SignedIfRoom(SignedIfRoom(ctx)) ELSE SignedIfRoom(ctx)

\* The four low bits of a mask, doubled or halved with the blocks.
BlocksJoined(fill) ==
  LET Pair(x) == IF x = 0 THEN 0 ELSE 1
  IN  Pair(fill % 4) + 2 * Pair((fill \div 4) % 4) + 4 * Pair((fill \div 16) % 4)
        + 8 * Pair((fill \div 64) % 4)
BlocksApart(cm) == ForEach(LAMBDA s, k : s + (IF (cm \div Pow2[k]) % 2 = 1 THEN 3 * Pow2[2 * k] ELSE 0),
                             0, Upto(0, 4))

\* Blocks joined or divided as the band's tf change says, and back.
QuantBand(ctx, n, b, blocks, folds, lm, fill) ==
  LET change == ctx.tf
      joins == Most(change, 0)
      size == (n \div blocks) * Pow2[joins]
      divides == CHOOSE d \in 0..Most(-change, 0) :
                   /\ size % Pow2[d] = 0
                   /\ d = -change \/ change >= 0 \/ size % Pow2[d + 1] # 0
      joined == ForEach(LAMBDA f, k : BlocksJoined(f), fill, Upto(0, joins))
      inner == blocks \div Pow2[joins]
      divided == ForEach(LAMBDA f, k : Or(f, f * Pow2[inner * Pow2[k]]), joined, Upto(0, divides))
      Undivided(cm) == ForEach(LAMBDA m, k : Or(m, m \div Pow2[inner * Pow2[divides - 1 - k]]), cm,
                               Upto(0, divides))
      Unjoined(cm) == ForEach(LAMBDA m, k : BlocksApart(m % 16), cm, Upto(0, joins))
      Whole(p) == [ctx |-> p.ctx,
                   cm |-> IF ctx.resynth
                          THEN And(Unjoined(Undivided(p.cm)), Mask(inner * Pow2[joins]), 10) ELSE p.cm]
  IN  IF n = 1 THEN [ctx |-> QuantBandN1(ctx, 1), cm |-> 1]
      ELSE Whole(QuantPartition(ctx, n, b, inner * Pow2[divides], folds, lm, divided))

\* Mid and side of a band; with two bins there is a mid and a sign.
StereoStart(ctx, n, b, blocks, lm, fill) ==
  LET Pair(s) == IF s.t.theta \in {0, s.t.qn} THEN s
                 ELSE [s EXCEPT !.ctx = Signed(@), !.mid = @ - 8, !.side = @ - 8]
      Alone(t) == Pair([ctx |-> Charged(ctx, t.rc, t.cost), t |-> [t EXCEPT !.fill = fill],
                        cm |-> 0, spare |-> 0, mid |-> b - t.cost, side |-> b - t.cost])
      Split(t) == IF n = 2 THEN Alone(t) ELSE Parted(ctx, t, b - t.cost, t.delta)
  IN  Split(ComputeTheta(ctx, n, b, blocks, blocks, lm, TRUE, fill))
StereoStep(s, k, n, blocks, folds, lm) ==
  LET Joined(p) == Spent(s, Share(s, k), p, p.cm)
  IN  Joined(QuantBand(s.ctx, n, Share(s, k), blocks, folds /\ ~IsSide(s, k), lm, PartFill(s, k, blocks)))
QuantBandStereo(ctx, n, b, blocks, folds, lm, fill) ==
  IF n = 1 THEN [ctx |-> QuantBandN1(ctx, 2), cm |-> 1]
  ELSE ForEach(LAMBDA s, k : StereoStep(s, k, n, blocks, folds, lm),
               StereoStart(ctx, n, b, blocks, lm, fill), IF n = 2 THEN <<1>> ELSE <<1, 2>>)

-----------------------------------------------------------------------------
(* Every band of a frame, from the lowest.                                 *)

Bin(g, i) == Pow2[g.lm] * Edges[i + 1]
NormSize(g) == Bin(g, NB - 1) - Bin(g, g.start)

\* Where band i folds from, in bins above the frame's first: low is the
\* band that lies above the one to copy.
MutFoldFrom(g, low, i) == Most(0, Bin(g, low) - Bin(g, g.start))
FoldFrom(g, low, i) == Most(0, Bin(g, low) - Bin(g, g.start) - Pow2[g.lm] * Width(i))

\* The bands a range of bins [from, from + n) touches, whose masks join.
FoldBands(g, low, i, from, n) ==
  LET at == from + Bin(g, g.start)
      below == {k \in 0..low - 1 : Bin(g, k) <= at}
      lo == IF below = {} THEN 0 ELSE CHOOSE k \in below : \A j \in below : j <= k
      above == {k \in low..i : k >= i \/ Bin(g, k) >= at + n}
      hi == CHOOSE k \in above : \A j \in above : k <= j
  IN  lo..Most(hi, lo + 1) - 1

\* prepare_lowband_views(): the bins to copy from and to keep this band in,
\* as sets; without scratch the two must not meet.
LowbandViews(g, from, pos, n, last, scratch) ==
  LET fits(a) == a + n <= NormSize(g)
      lb == IF from >= 0 /\ fits(from) THEN from..from + n - 1 ELSE {}
      out == IF ~last /\ fits(pos) THEN pos..pos + n - 1 ELSE {}
  IN  [lb |-> lb, out |-> IF lb # {} /\ ~scratch /\ lb \cap out # {} THEN {} ELSE out]

\* The band above the one to fold from, once band i of frame f is one.
NextLow(f, st, i) ==
  IF /\ f.resynth
     /\ Bin(f.g, i) - Pow2[f.g.lm] * Width(i) >= Bin(f.g, f.g.start) \/ i = f.g.start + 1
     /\ st.update \/ st.low = 0
  THEN i ELSE st.low

\* The bins kept for folding, among them copies for the second band of a
\* hybrid frame, which is wider than the first.
KeptBins(f, st, i) ==
  LET g == f.g
      d == Pow2[g.lm] * Width(g.start)
      wider == IF f.resynth /\ i = g.start + 1 /\ g.start + 2 <= NB
               THEN Most(0, Pow2[g.lm] * (Width(i) - Width(g.start))) ELSE 0
  IN  IF wider > 0 /\ d + wider <= NormSize(g)
      THEN st.norm \cup {k \in d..d + wider - 1 : k - wider \in st.norm} ELSE st.norm

\* Whether band i copies a band, and what it reads and keeps.
Folding(f, st, i) == NextLow(f, st, i) # 0 /\ (f.spread # 3 \/ f.blocks > 1 \/ f.tf[i] < 0)
FoldStart(f, st, i) ==
  IF Folding(f, st, i) THEN FoldFrom(f.g, NextLow(f, st, i), i) ELSE -1
BandView(f, st, i) ==
  LowbandViews(f.g, FoldStart(f, st, i), Bin(f.g, i) - Bin(f.g, f.g.start), Pow2[f.g.lm] * Width(i),
               i = f.g.end - 1, ~(i = f.g.end - 1 /\ ~f.writing))

\* The bits of band i: its own and a share of what is over so far.
BandBalance(f, st, i) == IF i # f.g.start THEN st.balance - TellFrac(st.rc) ELSE st.balance
BitsLeft(f, st) == f.total - TellFrac(st.rc) - 1
BandBits(f, st, i) ==
  LET share == Quot(BandBalance(f, st, i), Least(3, f.alloc.coded - i))
  IN  IF i >= f.alloc.coded THEN 0
      ELSE Most(0, Least(16383, Least(BitsLeft(f, st) + 1, f.alloc.pulses[i] + share)))

\* What a channel of band i folds from has pulses in these blocks.
FoldMask(f, st, i, c) ==
  IF Folding(f, st, i)
  THEN FoldSet(LAMBDA k, m : Or(m, st.masks[c][k]), 0,
               FoldBands(f.g, NextLow(f, st, i), i, FoldStart(f, st, i), Pow2[f.g.lm] * Width(i)))
  ELSE Mask(f.blocks)

\* The shape of band i: the coder and the bits and noise after it, and the
\* mask of each of its channels.
ChannelShaped(cms, part) == [ctx |-> part.ctx, cms |-> Append(cms, part.cm)]
ChannelStep(f, st, i, b, s, c) ==
  ChannelShaped(s.cms, QuantBand(s.ctx, Pow2[f.g.lm] * Width(i), b, f.blocks,
                                 BandView(f, st, i).lb # {}, f.g.lm, FoldMask(f, st, i, c)))
BandShape(f, st, i, dual) ==
  LET g == f.g
      ctx == [rc |-> st.rc, remaining |-> BitsLeft(f, st), noise |-> st.noise, band |-> i,
              intensity |-> f.alloc.intensity, tf |-> f.tf[i], resynth |-> f.resynth]
      channels == IF dual THEN <<0, 1>> ELSE <<0>>
      b == BandBits(f, st, i)
  IN  IF ~dual /\ g.c = 2
      THEN ChannelShaped(<<>>, QuantBandStereo(ctx, Pow2[g.lm] * Width(i), b, f.blocks,
                                               BandView(f, st, i).lb # {}, g.lm,
                                               Or(FoldMask(f, st, i, 0), FoldMask(f, st, i, 1))))
      ELSE ForEach(LAMBDA s, c : ChannelStep(f, st, i, b \div Len(channels), s, c),
                   [ctx |-> ctx, cms |-> <<>>], channels)

\* One band of frame f, and what the bands above may fold from it.
BandStep(f, st, i) ==
  LET dual == st.dual /\ i # f.alloc.intensity
      view == BandView(f, st, i)
      had == KeptBins(f, st, i)
      Coded(s) ==
        [rc |-> s.ctx.rc, noise |-> s.ctx.noise, dual |-> dual,
         masks |-> [st.masks EXCEPT ![0][i] = s.cms[1] % 256, ![1][i] = Last(s.cms) % 256],
         balance |-> BandBalance(f, st, i) + f.alloc.pulses[i] + TellFrac(st.rc),
         update |-> BandBits(f, st, i) > 8 * Pow2[f.g.lm] * Width(i), low |-> NextLow(f, st, i),
         norm |-> IF f.resynth THEN had \cup view.out ELSE had,
         stale |-> st.stale \/ (f.resynth /\ ~(view.lb \subseteq had)),
         over |-> st.over \/ s.ctx.remaining < -1]
  IN  Coded(BandShape(f, st, i, dual))

QuantAllBands(g, rc, alloc, tf, short, spread, total, resynth, writing) ==
  ForEach(LAMBDA st, i :
             BandStep([g |-> g, alloc |-> alloc, tf |-> tf, blocks |-> IF short THEN Pow2[g.lm] ELSE 1,
                       spread |-> spread, total |-> total, resynth |-> resynth,
                       writing |-> writing], st, i),
           [rc |-> rc, noise |-> 0, dual |-> alloc.dual, masks |-> [c \in 0..1 |-> Zero],
            balance |-> alloc.balance, update |-> TRUE, low |-> 0, norm |-> {},
            stale |-> FALSE, over |-> FALSE],
           Bands(g))
=============================================================================
