--------------------------- MODULE CeltAllocation ---------------------------
(***************************************************************************)
(* Band energies and bit allocation of a CELT frame: src/src/rate.rs,      *)
(* src/src/quant_bands.rs and the tf and boost flags of src/src/celt.rs.   *)
(* A frame's geometry is a record g: bands g.start..g.end-1, g.c channels, *)
(* blocks of 2^g.lm.  Energies are whole numbers of 1/Unit of a step.      *)
(*                                                                         *)
(* An operator Mut<Name> is <Name> with a slip the properties must catch;  *)
(* nothing here uses it.                                                   *)
(***************************************************************************)
EXTENDS CeltCoder

CONSTANTS
  Edges,        \* e_bands: band i holds the bins Edges[i+1]..Edges[i+2]-1
  AllocVectors, \* alloc_vectors: rows of bits per bin, in 1/32
  Caps,         \* cache.caps, here the same for every band
  DeepFrom,     \* coded bands above this must be worth it (17)
  MaxPseudo,    \* the largest pulse count of the cache, coded as its index
  Unit,         \* energies: 1 is 1/Unit of a coarse step
  Pred,         \* PRED_COEF, in 1/16
  Beta, BetaIntra   \* BETA_COEF and BETA_INTRA, in 1/16

ASSUME EdgesRise == Edges \in Seq(Nat) /\ \A i \in 1..Len(Edges) - 1 : Edges[i] < Edges[i + 1]
\* LOG2_FRAC_TABLE has an entry for as many bands as a frame may have.
ASSUME FewBands == Len(Edges) \in 2..24
\* The first row of the table gives nothing.
ASSUME VectorsStart ==
  /\ AllocVectors \in Seq([1..Len(Edges) - 1 -> Nat]) /\ Len(AllocVectors) > 0
  /\ \A j \in 1..Len(Edges) - 1 : AllocVectors[1][j] = 0
ASSUME VectorsGrow ==
  \A i \in 1..Len(AllocVectors) - 1, j \in 1..Len(Edges) - 1 :
    AllocVectors[i][j] <= AllocVectors[i + 1][j]
ASSUME WholeNumbers ==
  Caps \in Nat /\ Unit \in Nat \ {0} /\ Pred \in Nat /\ Beta \in Nat /\ BetaIntra \in Nat

NB == Len(Edges) - 1
Width(i) == Edges[i + 2] - Edges[i + 1]
LogN(i) == Log8[Width(i)]
Bands(g) == Upto(g.start, g.end)
Zero == [i \in 0..NB - 1 |-> 0]

\* Every band of each channel, in the order they are coded.
BandsOf(g) ==
  [k \in 1..g.c * (g.end - g.start) |-> <<g.start + (k - 1) \div g.c, (k - 1) % g.c>>]

-----------------------------------------------------------------------------
(* Coarse energy.                                                          *)

Floor9(e) == Most(e, -9 * Unit)
Predicted(old, intra) == IF intra THEN 0 ELSE (Pred * Floor9(old)) \div 16
\* What a step of q leaves for the band above.
Leak(prev, q, intra) == prev + q * Unit - ((IF intra THEN BetaIntra ELSE Beta) * q * Unit) \div 16

\* The coded step: what is wanted, held back as the packet runs out.
LimitStep(qi, g, i, left) ==
  LET low == IF i # g.start /\ left < 24 THEN Least(qi, 1) ELSE qi
  IN  IF i # g.start /\ left < 16 THEN Most(low, -1) ELSE low

\* The decay an inter frame may have, in steps.
DecayBound(old, bytes, g) ==
  Most(old, -28 * Unit) - (IF g.end - g.start > 10 THEN Least(16 * Unit, (bytes * Unit) \div 8)
                           ELSE 16 * Unit)

CodeStep(rc, qi, budget, i, intra) ==
  CASE Tell(rc) + 15 <= budget -> Code(rc, "laplace", <<i, intra>>, qi)
    [] Tell(rc) + 15 > budget /\ Tell(rc) + 2 <= budget ->
         LET q == Within(qi, -1, 1)
             Small(s) == [rc |-> s.rc, value |-> IF s.value = 1 THEN -1 ELSE s.value \div 2]
         IN  Small(Code(rc, "icdf", 2, IF q < 0 THEN 1 ELSE 2 * q))
    [] Tell(rc) + 2 > budget /\ Tell(rc) < budget ->
         LET Down(s) == [rc |-> s.rc, value |-> IF s.value THEN -1 ELSE 0]
         IN  Down(Flag(rc, 1, qi < 0))
    [] OTHER -> [rc |-> rc, value |-> -1]

\* The energy a band at leaves for the next frame and for the band above, once
\* its step q is coded.
Stepped(st, at, rc, q, intra) ==
  [st EXCEPT !.rc = rc, !.old[at[2]][at[1]] = Predicted(@, intra) + st.prev[at[2]] + q * Unit,
             !.prev[at[2]] = Leak(@, q, intra)]

\* One band of a channel, at = <<band, channel>>.
CoarseStep(g, want, budget, intra, bytes, st, at) ==
  LET x == want[at[2]][at[1]]
      old == st.old[at[2]][at[1]]
      f == x - Predicted(old, intra) - st.prev[at[2]]
      bound == DecayBound(old, bytes, g)
      Decayed(q0) == IF q0 < 0 /\ x < bound THEN Least(0, q0 + (bound - x) \div Unit) ELSE q0
      left == budget - Tell(st.rc) - 3 * g.c * (g.end - at[1])
      Coded(s, q0) ==
        [Stepped(st, at, s.rc, s.value, intra)
           EXCEPT !.bad = @ + Size(q0 - s.value), !.error[at[2]][at[1]] = f - s.value * Unit]
      Wants(q0) ==
        Coded(CodeStep(st.rc, LimitStep(Decayed(q0), g, at[1], left), budget, at[1], intra), q0)
  IN  Wants((f + Unit \div 2) \div Unit)

QuantCoarsePass(g, want, old, budget, rc, intra, bytes) ==
  ForEach(LAMBDA st, at : CoarseStep(g, want, budget, intra, bytes, st, at),
          [rc |-> IF Tell(rc) + 3 <= budget THEN Flag(rc, 3, intra).rc ELSE rc, bad |-> 0,
           error |-> [c \in 0..1 |-> Zero], old |-> old, prev |-> [c \in 0..1 |-> 0]],
          BandsOf(g))

LossDistortion(g, want, old) ==
  Least(200, ForEach(LAMBDA d, at : d + ((want[at[2]][at[1]] - old[at[2]][at[1]]) \div Unit)^2,
                      0, BandsOf(g)))

\* Both kinds of frame may be tried from the same coder; the better stays.
QuantCoarse(g, want, old, budget, rc, delayed, twoPass) ==
  LET bytes == budget \div 8
      room == Tell(rc) + 3 <= budget
      two == twoPass /\ room
      forced == room /\ ~twoPass /\ delayed > 2 * g.c * (g.end - g.start)
                /\ bytes > (g.end - g.start) * g.c
      Better(a, b) == a.bad < b.bad \/ (a.bad = b.bad /\ TellFrac(b.rc) > TellFrac(a.rc))
      distortion == LossDistortion(g, want, old)
      Kept(pass, intra) ==
        [rc |-> pass.rc, old |-> pass.old, error |-> pass.error, intra |-> intra,
         delayed |-> IF intra THEN distortion ELSE (Pred * Pred * delayed) \div 256 + distortion]
      Tried(intraPass, interPass) ==
        IF forced \/ (two /\ Better(intraPass, interPass)) THEN Kept(intraPass, TRUE)
        ELSE Kept(interPass, FALSE)
  IN  Tried(QuantCoarsePass(g, want, old, budget, rc, TRUE, bytes),
            QuantCoarsePass(g, want, old, budget, rc, FALSE, bytes))

MutUnquantCoarse(g, old, rc, intra) ==
  LET Step(st, at) ==
        LET Coded(s) ==
              [rc |-> s.rc, prev |-> Leak(st.prev, s.value, intra),
               old |-> [st.old EXCEPT ![at[2]][at[1]] = Predicted(@, intra) + st.prev + s.value * Unit]]
        IN  Coded(CodeStep(st.rc, 0, 8 * rc.storage, at[1], intra))
  IN  ForEach(Step, [rc |-> rc, old |-> old, prev |-> 0], BandsOf(g))
UncoarseStep(budget, intra, st, at) ==
  LET Coded(s) == Stepped(st, at, s.rc, s.value, intra)
  IN  Coded(CodeStep(st.rc, 0, budget, at[1], intra))
UnquantCoarse(g, old, rc, intra) ==
  ForEach(LAMBDA st, at : UncoarseStep(8 * rc.storage, intra, st, at),
          [rc |-> rc, old |-> old, prev |-> [c \in 0..1 |-> 0]], BandsOf(g))

-----------------------------------------------------------------------------
(* Fine energy: raw bits, then what the packet has left over.              *)

FineOffset(q, bits) == ((2 * q + 1) * Unit) \div Pow2[bits + 1] - Unit \div 2
FinalOffset(q, bits) == ((2 * q - 1) * Unit) \div Pow2[bits + 2]

\* The energy of a band, and what is still wrong with it.
Refine(s, at, rc, off) ==
  [s EXCEPT !.rc = rc, !.old[at[2]][at[1]] = @ + off, !.error[at[2]][at[1]] = @ - off]

\* Encoder and decoder; the decoder has no error to quantise.
FineStep(fine, s, at) ==
  LET bits == fine[at[1]]
      want == Within(((s.error[at[2]][at[1]] + Unit \div 2) * Pow2[bits]) \div Unit, 0, Pow2[bits] - 1)
      Coded(d) == Refine(s, at, d.rc, FineOffset(d.value, bits))
  IN  IF bits <= 0 THEN s ELSE Coded(Code(s.rc, "raw", bits, want))
CodeFine(g, st, fine) == ForEach(LAMBDA s, at : FineStep(fine, s, at), st, BandsOf(g))

\* One more bit for each channel of a band, of those of a priority.
FinalBit(fine, s, at) ==
  LET Coded(d) == [Refine(s, at, d.rc, FinalOffset(d.value, fine[at[1]])) EXCEPT !.left = @ - 1]
  IN  Coded(Code(s.rc, "raw", 1, IF s.error[at[2]][at[1]] < 0 THEN 0 ELSE 1))
FinalStep(g, fine, priority, s, at) ==
  IF s.left < g.c \/ fine[at[2]] >= 8 \/ priority[at[2]] # at[1] THEN s
  ELSE ForEach(LAMBDA t, c : FinalBit(fine, t, <<at[2], c>>), s, Upto(0, g.c))
FinaliseEnergy(g, st, fine, priority, bitsLeft) ==
  LET n == g.end - g.start
      Ended(end) == [rc |-> end.rc, old |-> end.old, error |-> end.error]
  IN  Ended(ForEach(LAMBDA s, at : FinalStep(g, fine, priority, s, at),
                    [rc |-> st.rc, old |-> st.old, error |-> st.error, left |-> bitsLeft],
                    [k \in 1..2 * n |-> <<(k - 1) \div n, g.start + ((k - 1) % n)>>]))

-----------------------------------------------------------------------------
(* How many bits a band gets.                                              *)

GetPulses(q) == IF q < 8 THEN q ELSE (8 + (q % 8)) * Pow2[(q \div 8) - 1]

\* Codewords of n dimensions and k pulses, V of Pvq written out for the
\* small bands: U(n, k) by rows.
NextRow(row) == ForEach(LAMBDA r, k : Append(r, Last(r) + row[k] + row[k + 1]), <<1>>,
                         Upto(1, Len(row)))
Codewords(n, k) ==
  ForEach(LAMBDA row, i : NextRow(row), [j \in 1..k + 1 |-> IF j = 1 THEN 1 ELSE 0], Upto(0, n))[k + 1]

\* The cache: for a band of n bins, the bits (less one) of each count.
CacheRow(n) == [q \in 1..MaxPseudo |-> Log8[Codewords(n, GetPulses(q))] - 1]
Cache == [n \in 1..Edges[Len(Edges)] * 8 |-> IF n <= 16 THEN CacheRow(n) ELSE <<>>]
\* A band of width w in blocks of 2^lm; lm = -1 is half of a bin's pair.
CacheFor(i, lm) == LET n == (Width(i) * Pow2[lm + 1]) \div 2 IN IF n = 0 THEN <<>> ELSE Cache[n]

Bits2Pulses(row, bits) ==
  LET b == bits - 1
      Halve(s, k) == LET mid == (s[1] + s[2] + 1) \div 2
                     IN  IF mid \in DOMAIN row /\ row[mid] < b THEN <<mid, s[2]>> ELSE <<s[1], mid>>
      Nearer(s) == IF b - (IF s[1] = 0 THEN -1 ELSE row[s[1]]) <= row[s[2]] - b THEN s[1] ELSE s[2]
  IN  IF row = <<>> THEN 0 ELSE Nearer(ForEach(Halve, <<0, MaxPseudo>>, Upto(0, 6)))

Pulses2Bits(row, q) == IF q = 0 \/ row = <<>> THEN 0 ELSE row[q] + 1

Thresh(g, i) == Most(8 * g.c, (3 * Width(i) * Pow2[g.lm + 3]) \div 16)
TrimOffset(g, i, trim) ==
  (g.c * Width(i) * (trim - 5 - g.lm) * (g.end - i - 1) * Pow2[g.lm + 3]) \div 64
    - (IF Width(i) * Pow2[g.lm] = 1 THEN 8 * g.c ELSE 0)
CapOf(g, i) == ((Caps + 64) * g.c * Width(i) * Pow2[g.lm]) \div 4

\* The bits of band i in row v of the table (0: the first), the trim and
\* the boost applied.
RowBits(g, v, i, trim) ==
  LET raw == IF v >= Len(AllocVectors) THEN CapOf(g, i)
             ELSE (g.c * Width(i) * AllocVectors[v + 1][i + 1] * Pow2[g.lm]) \div 4
  IN  IF raw > 0 THEN Most(0, raw + TrimOffset(g, i, trim)) ELSE raw

\* What bands cost when each gets want[i]: from the last one down, bands
\* below their threshold get the floor or nothing until one is above it.
SettleStep(g, want, s, i) ==
  LET above == s.done \/ want[i] >= Thresh(g, i)
      b == IF above THEN Least(want[i], CapOf(g, i))
           ELSE IF want[i] >= 8 * g.c THEN Least(8 * g.c, CapOf(g, i)) ELSE 0
  IN  [done |-> above, sum |-> s.sum + b, bits |-> [s.bits EXCEPT ![i] = b]]
Settle(g, want) ==
  ForEach(LAMBDA s, i : SettleStep(g, want, s, i), [done |-> FALSE, sum |-> 0, bits |-> Zero],
          Reverse(Bands(g)))

\* The last row that fits, and what lies between it and the next.
RowWant(g, offsets, trim, v) == [i \in 0..NB - 1 |-> RowBits(g, v, i, trim) + offsets[i]]
RowHalve(g, offsets, trim, total, s) ==
  LET mid == (s[1] + s[2]) \div 2
  IN  IF s[1] > s[2] THEN s
      ELSE IF Settle(g, RowWant(g, offsets, trim, mid)).sum <= total THEN <<mid + 1, s[2]>>
      ELSE <<s[1], mid - 1>>
RowSearch(g, offsets, trim, total) ==
  ForEach(LAMBDA s, k : RowHalve(g, offsets, trim, total, s), <<1, Len(AllocVectors) - 1>>,
          Upto(0, Len(AllocVectors)))[1]

\* 64ths of the way between the two rows, as far as the total allows.
Between(bits1, bits2, m) == [i \in 0..NB - 1 |-> bits1[i] + (m * bits2[i]) \div 64]
WayHalve(g, bits1, bits2, total, s) ==
  LET mid == (s[1] + s[2]) \div 2
  IN  IF Settle(g, Between(bits1, bits2, mid)).sum > total THEN <<s[1], mid>> ELSE <<mid, s[2]>>
Interpolate(g, bits1, bits2, total) ==
  Settle(g, Between(bits1, bits2,
                    ForEach(LAMBDA s, k : WayHalve(g, bits1, bits2, total, s), <<0, 64>>, Upto(0, 6))[1]))

\* The encoder skips bands from the top while they are poor; the decoder is
\* told.  A band given up pays its floor, and stereo needs a smaller number
\* for the first intensity band.
GiveUp(g, s, bits, spent) ==
  LET i == s.coded - 1
      rsv == IF s.rsv > 0 THEN Log2Frac[i - g.start + 1] ELSE 0
      floor == IF bits >= 8 * g.c THEN 8 * g.c ELSE 0
  IN  [s EXCEPT !.sum = @ + spent - s.bits[i] - s.rsv + rsv + floor, !.rsv = rsv,
                !.bits[i] = floor, !.coded = i]
\* What band i would have, with its share of what is left.
Holding(g, s, i) ==
  LET left == s.total - s.sum
      span == Edges[s.coded + 1] - Edges[g.start + 1]
      each == Quot(left, span)
  IN  s.bits[i] + each * Width(i) + Most(left - span * each - (Edges[i + 1] - Edges[g.start + 1]), 0)
SkipStep(g, skipStart, s) ==
  LET i == s.coded - 1
      Deep(bits) ==
        \/ s.coded <= g.start + 2
        \/ bits > ((IF s.coded > DeepFrom THEN 9 ELSE 0) * Width(i) * Pow2[g.lm + 3]) \div 16
      Judge(f, bits) ==
        IF f.value THEN [s EXCEPT !.rc = f.rc, !.stop = TRUE]
        ELSE GiveUp(g, [s EXCEPT !.rc = f.rc], bits - 8, 8)
      Judged(bits) ==
        CASE s.stop -> s
          [] ~s.stop /\ i <= skipStart -> [s EXCEPT !.total = @ + s.skipRsv, !.stop = TRUE]
          [] ~s.stop /\ i > skipStart /\ bits >= Most(Thresh(g, i), 8 * g.c + 8) ->
               Judge(Flag(s.rc, 1, Deep(bits)), bits)
          [] OTHER -> GiveUp(g, s, bits, 0)
  IN  Judged(Holding(g, s, i))
SkipBands(g, st, skipStart) == ForEach(LAMBDA s, i : SkipStep(g, skipStart, s), st, Bands(g))

\* The first intensity band, then the dual-stereo flag, where reserved: what
\* is reserved for a flag nobody needs is for the bands.
StereoTold(g, st, dualRsv, i, rc, dual) ==
  [st |-> [st EXCEPT !.rc = rc, !.total = IF i <= g.start THEN @ + dualRsv ELSE @],
   intensity |-> i, dual |-> dual]
DualAfter(g, st, dual, dualRsv, i, rc) ==
  LET Both(d) == StereoTold(g, st, dualRsv, i, d.rc, d.value)
  IN  IF i > g.start /\ dualRsv > 0 THEN Both(Flag(rc, 1, dual))
      ELSE StereoTold(g, st, dualRsv, i, rc, FALSE)
CodeStereo(g, st, intensity, dual, dualRsv) ==
  LET First(s) == DualAfter(g, st, dual, dualRsv, g.start + s.value, s.rc)
  IN  IF st.rsv > 0
      THEN First(Code(st.rc, "uint", st.coded + 1 - g.start, Least(intensity, st.coded) - g.start))
      ELSE DualAfter(g, st, dual, dualRsv, 0, st.rc)

\* What is left is spread over the coded bands, by width and from below.
SpreadStep(each, s, i) ==
  LET more == Least(s.left, Width(i))
  IN  [bits |-> [s.bits EXCEPT ![i] = @ + each * Width(i) + more], left |-> s.left - more]
SpreadLeft(g, bits, left, coded) ==
  LET span == Edges[coded + 1] - Edges[g.start + 1]
      each == Quot(left, span)
  IN  ForEach(LAMBDA s, i : SpreadStep(each, s, i), [bits |-> bits, left |-> left - span * each],
              Upto(g.start, coded)).bits

\* The share of fine energy in the bits of band i, which hold n > 1 bins.
FineShare(g, i, bits, stereo) ==
  LET n == Width(i) * Pow2[g.lm]
      den == g.c * n + (IF g.c = 2 /\ n > 2 /\ ~stereo.dual /\ i < stereo.intensity THEN 1 ELSE 0)
      logs == den * (LogN(i) + 8 * g.lm)
      base == logs \div 2 - den * 21 + (IF n = 2 THEN (8 * den) \div 4 ELSE 0)
      Capped(fine, offset) ==
        [fine |-> fine, priority |-> IF fine * 8 * den >= bits + offset THEN 1 ELSE 0]
      Held(share, offset) ==
        Capped(Least(IF g.c * share > bits \div 8 THEN (bits \div g.c) \div 8 ELSE share, 8), offset)
      Around(offset) == Held((Most(0, bits + offset + 4 * den) \div den) \div 8, offset)
      Raised(from) == from + (IF bits + from < 16 * den THEN logs \div 4
                             ELSE IF bits + from < 24 * den THEN logs \div 8 ELSE 0)
  IN  Around(Raised(base))

\* A band gives what its cap refuses to fine energy, and the rest of that
\* to the band above.
SplitBand(g, s, i, stereo) ==
  LET bit == s.bits[i] + s.balance
      one == Width(i) * Pow2[g.lm] = 1
      Given(excess, kept, f) ==
        LET more == IF excess > 0 THEN Least((excess \div g.c) \div 8, 8 - f.fine) ELSE 0
            extra == 8 * more * g.c
        IN  [bits |-> [s.bits EXCEPT ![i] = kept - 8 * g.c * f.fine],
             fine |-> [s.fine EXCEPT ![i] = f.fine + more],
             priority |-> [s.priority EXCEPT ![i] =
               IF excess > 0 THEN (IF extra >= excess - s.balance THEN 1 ELSE 0) ELSE f.priority],
             balance |-> excess - extra]
      Over(excess) ==
        Given(excess, bit - excess,
              IF one THEN [fine |-> 0, priority |-> 1] ELSE FineShare(g, i, bit - excess, stereo))
  IN  Over(Most(0, bit - (IF one THEN 8 * g.c ELSE CapOf(g, i))))

\* Bands that are not coded spend what they were given on fine energy.
UncodedBand(g, s, i) ==
  LET fine == (s.bits[i] \div g.c) \div 8
  IN  [s EXCEPT !.fine[i] = fine, !.bits[i] = 0, !.priority[i] = IF fine < 1 THEN 1 ELSE 0]

\* What is set aside of the bits: for the end of the skipping, the first
\* intensity band and the dual-stereo flag.
Reserves(g, bits) ==
  LET total == Most(bits, 0)
      skip == IF total >= 8 THEN 8 ELSE 0
      wanted == IF g.c = 2 THEN Log2Frac[g.end - g.start + 1] ELSE 0
      fits == wanted <= total - skip
      intensity == IF fits THEN wanted ELSE 0
  IN  [total |-> total, skip |-> skip, intensity |-> intensity,
       dual |-> IF g.c = 2 /\ fits /\ total - skip - intensity >= 8 THEN 8 ELSE 0]

\* The last row that fits, and what the one above it has more.
LowerRow(g, offsets, trim, row) ==
  [i \in 0..NB - 1 |-> RowBits(g, row - 1, i, trim) + (IF row > 1 THEN offsets[i] ELSE 0)]
UpperRow(g, offsets, trim, row, bits1) ==
  [i \in 0..NB - 1 |-> Most(0, RowBits(g, row, i, trim) + offsets[i] - bits1[i])]

\* Bands up to the last boosted one are never skipped.
SkipStart(g, offsets) ==
  LET boosted == {i \in g.start..g.end - 1 : offsets[i] > 0}
  IN  IF boosted = {} THEN g.start ELSE CHOOSE i \in boosted : \A j \in boosted : j <= i

\* The bits of every band, coded or not, split.
ShareOut(g, st, stereo) ==
  ForEach(LAMBDA s, i : SplitBand(g, s, i, stereo),
          [bits |-> SpreadLeft(g, st.bits, st.total - st.sum, st.coded),
           fine |-> Zero, priority |-> Zero, balance |-> 0],
          Upto(g.start, st.coded))
SpendRest(g, st, shared) ==
  ForEach(LAMBDA s, i : UncodedBand(g, s, i), shared, Upto(st.coded, g.end))

ComputeAllocation(g, offsets, trim, intensity, dual, bits, rc) ==
  LET rsv == Reserves(g, bits)
      total == rsv.total - rsv.skip - rsv.intensity - rsv.dual
      Above(row, bits1) == Interpolate(g, bits1, UpperRow(g, offsets, trim, row, bits1), total)
      From(row) == Above(row, LowerRow(g, offsets, trim, row))
      Skipped(settled) ==
        SkipBands(g, [rc |-> rc, bits |-> settled.bits, sum |-> settled.sum,
                      total |-> total, coded |-> g.end, rsv |-> rsv.intensity,
                      skipRsv |-> rsv.skip, stop |-> FALSE], SkipStart(g, offsets))
      Allocated(st, stereo, all) ==
        [rc |-> st.rc, pulses |-> all.bits, fine |-> all.fine, priority |-> all.priority,
         balance |-> all.balance, coded |-> st.coded,
         intensity |-> stereo.intensity, dual |-> stereo.dual, total |-> rsv.total]
      Split(stereo) ==
        Allocated(stereo.st, stereo, SpendRest(g, stereo.st, ShareOut(g, stereo.st, stereo)))
  IN  Split(CodeStereo(g, Skipped(From(RowSearch(g, offsets, trim, total))), intensity, dual, rsv.dual))

-----------------------------------------------------------------------------
(* Time-frequency changes and boosts.                                      *)

\* Rows of TF_SELECT_TABLE: the change of a plain and of a marked band, for
\* either table that may be selected.
TfTable(lm, transient, select, mark) ==
  LET rows == << << <<0, -1>>, <<0, -1>>, <<0, -1>>, <<0, -1>> >>,
                 << <<0, -1>>, <<0, -2>>, <<1, 0>>, <<1, -1>> >>,
                 << <<0, -2>>, <<0, -3>>, <<2, 0>>, <<1, -1>> >>,
                 << <<0, -2>>, <<0, -3>>, <<3, 0>>, <<1, -1>> >> >>
      at == (IF transient THEN 2 ELSE 0) + (IF select THEN 1 ELSE 0) + 1
  IN  rows[lm + 1][at][mark + 1]

\* Both tf_encode() and tf_decode(): marks are coded by their changes, and
\* the table's number only where it matters.
TfStep(transient, marks, budget, s, i) ==
  LET fits == Tell(s.rc) + s.logp <= budget
      Told(rc, mark) ==
        [rc |-> rc, mark |-> mark, changed |-> IF fits THEN Most(s.changed, mark) ELSE s.changed,
         res |-> [s.res EXCEPT ![i] = mark], logp |-> IF transient THEN 4 ELSE 5]
      Coded(f) == Told(f.rc, IF f.value THEN 1 - s.mark ELSE s.mark)
  IN  IF fits THEN Coded(Flag(s.rc, s.logp, marks[i] # s.mark)) ELSE Told(s.rc, s.mark)
CodeTf(g, transient, marks, select, rc) ==
  LET First == IF transient THEN 2 ELSE 4
      rsv == IF g.lm > 0 /\ Tell(rc) + First < 8 * rc.storage THEN 1 ELSE 0
      budget == 8 * rc.storage - rsv
      Chosen(res, rc1, chosen) ==
        [rc |-> rc1, tf |-> [i \in 0..NB - 1 |-> IF i \in g.start..g.end - 1
                                                 THEN TfTable(g.lm, transient, chosen, res[i]) ELSE 0]]
      Asked(res, f) == Chosen(res, f.rc, f.value)
      Marked(end) ==
        IF rsv = 1 /\ TfTable(g.lm, transient, FALSE, end.changed)
                       # TfTable(g.lm, transient, TRUE, end.changed)
        THEN Asked(end.res, Flag(end.rc, 1, select)) ELSE Chosen(end.res, end.rc, FALSE)
  IN  Marked(ForEach(LAMBDA s, i : TfStep(transient, marks, budget, s, i),
                     [rc |-> rc, mark |-> 0, changed |-> 0, res |-> Zero, logp |-> First], Bands(g)))

\* Boosts: a dear flag first, then one bit for each more; the next band's
\* first flag is cheaper after a boost.
Quanta(g, i) == LET w == g.c * Width(i) * Pow2[g.lm] IN Least(8 * w, Most(48, w))
BoostMore(g, i, wanted, t) ==
  LET Coded(f) ==
        IF ~f.value THEN [t EXCEPT !.rc = f.rc, !.stop = TRUE]
        ELSE [t EXCEPT !.rc = f.rc, !.boost = @ + Quanta(g, i), !.total = @ + Quanta(g, i),
                       !.logp = 1, !.n = @ + 1]
  IN  IF t.stop \/ TellFrac(t.rc) + 8 * t.logp >= 64 * t.rc.storage - t.total \/ t.boost >= CapOf(g, i)
      THEN [t EXCEPT !.stop = TRUE] ELSE Coded(Flag(t.rc, t.logp, t.n < wanted[i]))
BoostBand(g, wanted, s, i) ==
  LET Boosted(e) ==
        [rc |-> e.rc, total |-> e.total, offsets |-> [s.offsets EXCEPT ![i] = e.boost],
         logp |-> IF e.boost > 0 THEN Most(2, s.logp - 1) ELSE s.logp]
  IN  Boosted(ForEach(LAMBDA t, k : BoostMore(g, i, wanted, t),
                      [rc |-> s.rc, logp |-> s.logp, boost |-> 0, total |-> s.total,
                       n |-> 0, stop |-> FALSE],
                      Upto(0, CapOf(g, i) \div Quanta(g, i) + 2)))
CodeBoosts(g, wanted, rc) ==
  ForEach(LAMBDA s, i : BoostBand(g, wanted, s, i),
          [rc |-> rc, total |-> 0, offsets |-> Zero, logp |-> 6], Bands(g))
=============================================================================
