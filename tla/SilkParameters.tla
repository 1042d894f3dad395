--------------------------- MODULE SilkParameters ---------------------------
(***************************************************************************)
(* How SILK quantises and codes a frame: the excitation's pulses (the      *)
(* encoder's and the decoder's side of the shell coder) and the line       *)
(* spectral frequencies (codebook search, trellis, stabiliser), from       *)
(* src/src/silk.  The decoder must get back the pulses, and the trellis    *)
(* must return the cost of what the decoder will make of its indices.      *)
(*                                                                         *)
(* An operator Mut<Name> is <Name> with a slip the properties must catch;  *)
(* nothing here uses it.                                                   *)
(***************************************************************************)
EXTENDS Integers, Sequences, SequencesExt, FiniteSetsExt

CONSTANTS
  ShellLog,     \* a block of pulses has 2^ShellLog samples (4)
  MaxPulses,    \* SILK_MAX_PULSES_TABLE: most pulses in 2, 4, .. samples
  Escapes,      \* the read that may not escape again (10)
  Survivors,    \* NLSF_QUANT_DEL_DEC_STATES (4)
  MaxAmp,       \* NLSF_QUANT_MAX_AMPLITUDE (4), and its extension (10)
  MaxAmpExt,
  Unit,         \* one index step before scaling (1 << 10)
  LevelAdj,     \* NLSF_QUANT_LEVEL_ADJ (0.1)
  Step,         \* the codebook's step (of StepOne) and its inverse
  StepOne,
  PredOne,      \* 1.0 of a predictor coefficient (256)
  Full,         \* the frequency that is 1.0 (1 << 15)
  MaxLoops      \* MAX_LOOPS of the stabiliser (20)

\* A block of single pulses is never scaled down.
ASSUME OnesFit ==
  /\ ShellLog \in Nat \ {0} /\ Len(MaxPulses) = ShellLog
  /\ \A d \in 1..ShellLog : MaxPulses[d] >= 2^d
ASSUME TrellisSizes ==
  /\ Survivors \in Nat \ {0} /\ MaxAmp < MaxAmpExt /\ Unit > LevelAdj

ShellLength == 2^ShellLog
MaxSum == MaxPulses[ShellLog]
AbsOf(i) == IF i < 0 THEN -i ELSE i
Limit(x, lo, hi) == IF x < lo THEN lo ELSE IF x > hi THEN hi ELSE x
SumSeq(s) == FoldLeft(+, 0, s)

-----------------------------------------------------------------------------
(* The excitation.  A coded symbol is its table and its value; the decoder *)
(* must ask for the table that was used.                                   *)

Symbol(table, value) == <<table, value>>

\* The splits of 2^d samples from 0, each <<start, length>>, as both sides
\* walk them: a split, then its first half, then its second.
Splits[d \in 0..ShellLog] ==
  IF d = 0 THEN <<>>
  ELSE LET half == Splits[d - 1]
       IN  << <<0, 2^d>> >> \o half \o [i \in DOMAIN half |-> <<half[i][1] + 2^(d - 1), half[i][2]>>]

\* Pulses of a block in the split, or in one of its halves.
PulsesIn(block, split) == SumSeq(SubSeq(block, split[1] + 1, split[1] + split[2]))
FirstHalf(split) == <<split[1], split[2] \div 2>>
SecondHalf(split) == <<split[1] + split[2] \div 2, split[2] \div 2>>

\* combine_and_check(), at every level.
BlockFits(block) ==
  \A i \in DOMAIN Splits[ShellLog] : LET split == Splits[ShellLog][i] IN
    \A d \in 1..ShellLog : split[2] = 2^d => PulsesIn(block, split) <= MaxPulses[d]

Shifted(block, s) == [i \in DOMAIN block |-> block[i] \div 2^s]
ShiftsOf(block) ==
  CHOOSE s \in 0..Escapes : /\ BlockFits(Shifted(block, s))
                            /\ \A r \in 0..s - 1 : ~BlockFits(Shifted(block, r))

ShellEncoder(block) ==
  LET Coded(split) ==
        LET p == PulsesIn(block, split)
        IN  IF p = 0 THEN <<>> ELSE <<Symbol(<<"split", split[2], p>>, PulsesIn(block, FirstHalf(split)))>>
  IN  FlattenSeq([i \in DOMAIN Splits[ShellLog] |-> Coded(Splits[ShellLog][i])])

\* The table of a block's signs depends on its pulses, not on its shifts.
SignTable(sum) == <<"sign", IF sum < 6 THEN sum ELSE 6>>

\* The blocks of the first n pulses, the last filled up with zeros: sums and
\* shells are made of these, low bits and signs of the buffer itself.
Blocks(n) == (n + ShellLength - 1) \div ShellLength
BlockOf(pulses, i) == SubSeq(pulses, (i - 1) * ShellLength + 1, i * ShellLength)
FilledUp(pulses, n) == [i \in DOMAIN pulses |-> IF i <= n THEN AbsOf(pulses[i]) ELSE 0]

EncodeSilkPulses(pulses, n, rate) ==
  LET Scaled(block) == LET s == ShiftsOf(block) IN [shifts |-> s, shell |-> Shifted(block, s)]
      blocks == FoldLeft(LAMBDA all, i : Append(all, Scaled(BlockOf(FilledUp(pulses, n), i))),
                         <<>>, [i \in 1..Blocks(n) |-> i])
      Sum(b) == SumSeq(b.shell)
      Sums(i, b) ==
        IF b.shifts = 0 THEN <<Symbol(<<"sum", rate>>, Sum(b))>>
        ELSE <<Symbol(<<"sum", rate>>, MaxSum + 1)>>
             \o [s \in 1..b.shifts - 1 |-> Symbol(<<"sum", "last">>, MaxSum + 1)]
             \o <<Symbol(<<"sum", "last">>, Sum(b))>>
      Shell(i, b) == IF Sum(b) > 0 THEN ShellEncoder(b.shell) ELSE <<>>
      LowBits(q, s) == [k \in 1..s |-> Symbol("lsb", (AbsOf(q) \div 2^(s - k)) % 2)]
      Low(i, b) == FlattenSeq([k \in 1..ShellLength |-> LowBits(BlockOf(pulses, i)[k], b.shifts)])
      Sign(q, sum) == IF q = 0 THEN <<>> ELSE <<Symbol(SignTable(sum), IF q > 0 THEN 1 ELSE 0)>>
      Signs(i, b) == IF Sum(b) = 0 THEN <<>>
                     ELSE FlattenSeq([k \in 1..ShellLength |-> Sign(BlockOf(pulses, i)[k], Sum(b))])
      Each(Part(_, _)) == FlattenSeq([i \in DOMAIN blocks |-> Part(i, blocks[i])])
  IN  <<Symbol("rate", rate)>> \o Each(Sums) \o Each(Shell) \o Each(Low) \o Each(Signs)

\* A reader: the symbols left and whether each was read with its own table.
ReadSymbol(r, table) ==
  IF r.left # <<>> /\ Head(r.left)[1] = table
  THEN [left |-> Tail(r.left), ok |-> r.ok, value |-> Head(r.left)[2]]
  ELSE [left |-> r.left, ok |-> FALSE, value |-> 0]

\* How many pulses a block has and how many low bits each of them has.
ReadSum(r, rate) ==
  LET One(acc, k) ==
        LET table == IF k = 0 THEN <<"sum", rate>>
                     ELSE IF k = Escapes THEN <<"sum", "last, no escape">> ELSE <<"sum", "last">>
        IN  IF acc.done THEN acc
            ELSE LET s == ReadSymbol(acc.r, table)
                 IN  [r |-> s, low |-> k, sum |-> s.value, done |-> s.value # MaxSum + 1]
  IN  FoldLeft(One, [r |-> r, low |-> 0, sum |-> 0, done |-> FALSE], [k \in 1..Escapes + 1 |-> k - 1])

\* Each split gives the first half its pulses and the second what is left.
ShellDecoder(r, sum) ==
  LET One(acc, split) ==
        LET p == acc.in[split]
            s == IF p > 0 THEN ReadSymbol(acc.r, <<"split", split[2], p>>) ELSE [acc.r EXCEPT !.value = 0]
        IN  [r |-> s, in |-> [acc.in EXCEPT ![FirstHalf(split)] = s.value,
                                            ![SecondHalf(split)] = p - s.value]]
      parts == {<<i, 2^d>> : i \in 0..ShellLength - 1, d \in 0..ShellLog}
      done == FoldLeft(One, [r |-> r, in |-> [p \in parts |-> IF p[2] = ShellLength THEN sum ELSE 0]],
                       Splits[ShellLog])
  IN  [r |-> done.r, block |-> [i \in 1..ShellLength |-> done.in[<<i - 1, 1>>]]]

\* The low bits of a block, its pulses' sign bits.
ReadLow(r, block, low) ==
  LET Bit(acc, b) == LET s == ReadSymbol(acc.r, "lsb") IN [r |-> s, q |-> 2 * acc.q + s.value]
      One(acc, q) == LET s == FoldLeft(Bit, [r |-> acc.r, q |-> q], [b \in 1..low |-> b])
                     IN  [r |-> s.r, block |-> Append(acc.block, s.q)]
  IN  FoldLeft(One, [r |-> r, block |-> <<>>], block)

DecodeSigns(r, block, sum, low) ==
  LET One(acc, q) ==
        LET s == ReadSymbol(acc.r, SignTable(sum))
        IN  IF q > 0 /\ (sum > 0 \/ low > 0)
            THEN [r |-> s, block |-> Append(acc.block, IF s.value = 0 THEN -q ELSE q)]
            ELSE [acc EXCEPT !.block = Append(@, q)]
  IN  FoldLeft(One, [r |-> r, block |-> <<>>], block)

DecodeSilkPulses(symbols, n) ==
  LET start == ReadSymbol([left |-> symbols, ok |-> TRUE, value |-> 0], Head(symbols)[1])
      blocks == [i \in 1..Blocks(n) |-> i]
      sums == FoldLeft(LAMBDA acc, i : LET s == ReadSum(acc.r, start.value)
                                       IN  [r |-> s.r, all |-> Append(acc.all, s)],
                       [r |-> start, all |-> <<>>], blocks)
      OverBlocks(One(_, _, _), first, from) ==
        FoldLeft(LAMBDA acc, i : LET s == One(acc.r, i, from[i])
                                 IN  [r |-> s.r, all |-> Append(acc.all, s.block)],
                 [r |-> first, all |-> <<>>], blocks)
      shells == OverBlocks(LAMBDA r, i, b : ShellDecoder(r, b), sums.r, [i \in 1..Blocks(n) |-> sums.all[i].sum])
      lows == OverBlocks(LAMBDA r, i, b : ReadLow(r, b, sums.all[i].low), shells.r, shells.all)
      signs == OverBlocks(LAMBDA r, i, b : DecodeSigns(r, b, sums.all[i].sum, sums.all[i].low), lows.r, lows.all)
  IN  [pulses |-> FlattenSeq(signs.all), ok |-> signs.r.ok /\ signs.r.left = <<>>]

\* Property of one frame: the decoder reads exactly the symbols written, each
\* with its table, and gets the pulses back; the exception is stated: pulses
\* of an earlier, longer frame behind a frame that ends within a block.
StaleTail(pulses, n) == \E i \in n + 1..Len(pulses) : pulses[i] # 0
SilkPulsesReturn(pulses, n, rate) ==
  LET d == DecodeSilkPulses(EncodeSilkPulses(pulses, n, rate), n)
  IN  StaleTail(pulses, n) \/ (d.ok /\ SubSeq(d.pulses, 1, n) = SubSeq(pulses, 1, n))

-----------------------------------------------------------------------------
(* Insertion sort: the first k of a come out sorted, with the indices they *)
(* had; order is 1 for rising values and -1 for falling ones.              *)

Inserted(found, v, i, order) ==
  LET at == CHOOSE p \in 1..Len(found) + 1 :
              /\ \A q \in p..Len(found) : order * v < order * found[q][1]
              /\ p > 1 => order * v >= order * found[p - 1][1]
  IN  InsertAt(found, at, <<v, i>>)

InsertionSort(a, k, order) ==
  LET first == FoldLeft(LAMBDA found, i : Inserted(found, a[i], i, order), <<>>, [i \in 1..k |-> i])
      One(found, i) == IF order * a[i] < order * found[k][1]
                       THEN SubSeq(Inserted(SubSeq(found, 1, k - 1), a[i], i, order), 1, k) ELSE found
  IN  FoldLeft(One, first, [i \in 1..Len(a) - k |-> k + i])

SortIncreasing(a, k) == InsertionSort(a, k, 1)
SortDecreasing(a, k) == InsertionSort(a, k, -1)
SortAllValues(a) == LET s == SortIncreasing(a, Len(a)) IN [i \in DOMAIN a |-> s[i][1]]

\* Property: the k smallest, in order, the earlier one of equals first.
SortedFirst(a, k) ==
  LET s == SortIncreasing(a, k)
      Less(i, j) == a[i] < a[j] \/ (a[i] = a[j] /\ i < j)
      Rank(i) == Cardinality({j \in DOMAIN a : Less(j, i)}) + 1
      r == SortDecreasing([i \in DOMAIN a |-> -a[i]], k)
  IN  \A p \in 1..k : a[s[p][2]] = s[p][1] /\ Rank(s[p][2]) = p /\ r[p] = <<-s[p][1], s[p][2]>>

-----------------------------------------------------------------------------
(* Line spectral frequencies.  A vector of the codebook, a book record:    *)
(* element and weight of each frequency, its predictor and its rates.      *)

\* silk_nlsf_unpack(): each coefficient's predictor is one of two, each of
\* its rate tables one of several.
Unpack(cb, v) ==
  [pred |-> [i \in 1..cb.order |-> cb.pred[cb.vectors[v].select[i]][i]],
   rates |-> [i \in 1..cb.order |-> cb.rates[cb.vectors[v].table[i]]]]

\* One index, scaled: the dead zone moves each level towards zero.
Level(index) ==
  LET q == index * Unit
  IN  ((IF q > 0 THEN q - LevelAdj ELSE IF q < 0 THEN q + LevelAdj ELSE 0) * Step) \div StepOne

\* The decoder's residual, from the last coefficient to the first.
ResidualDequant(indices, pred) ==
  LET One(acc, i) == <<((IF acc = <<>> THEN 0 ELSE Head(acc)) * pred[i]) \div PredOne + Level(indices[i])>> \o acc
  IN  FoldRight(LAMBDA i, acc : One(acc, i), [i \in DOMAIN indices |-> i], <<>>)

\* The cost of an index: a table's inside, a line's outside.
RateOutside(index) == 280 + 43 * (AbsOf(index) - MaxAmp)
Rate(table, index) == IF AbsOf(index) >= MaxAmp THEN RateOutside(index) ELSE table[index + MaxAmp]

\* One coefficient for every survivor: rounded down, and one above that.
Candidates(states, x, w, pred, table, mu) ==
  LET Base(s) == Limit(((x - (pred * s.out) \div PredOne) * StepOne) \div (Step * Unit), -MaxAmpExt, MaxAmpExt - 1)
      Cand(s, up) ==
        LET index == Base(s) + up
            out == (pred * s.out) \div PredOne + Level(index)
        IN  [ind |-> <<index>> \o s.ind, out |-> out,
             rd |-> s.rd + w * (x - out) * (x - out) + mu * Rate(table, index)]
      Each(up) == FoldLeft(LAMBDA all, s : Append(all, Cand(s, up)), <<>>, states)
  IN  Each(0) \o Each(1)

\* The smallest entry, and the largest, the first of equals.
ArgMin(s) == CHOOSE i \in DOMAIN s : \A j \in DOMAIN s : s[i] < s[j] \/ (s[i] = s[j] /\ i <= j)
ArgMax(s) == CHOOSE i \in DOMAIN s : \A j \in DOMAIN s : s[i] > s[j] \/ (s[i] = s[j] /\ i <= j)
Infinite == 2^30

\* Each survivor keeps the better of its two; then, as long as the worst kept
\* is worse than the best dropped, it is replaced by it.
Prune(both) ==
  LET low(j) == both[j]
      high(j) == both[j + Survivors]
      kept == [j \in 1..Survivors |-> IF low(j).rd > high(j).rd THEN high(j) ELSE low(j)]
      dropped == [j \in 1..Survivors |-> IF low(j).rd > high(j).rd THEN low(j) ELSE high(j)]
      Round(acc, n) ==
        LET i == ArgMin(acc.max)
            j == ArgMax(acc.min)
        IN  IF acc.max[i] >= acc.min[j] THEN acc
            ELSE [kept |-> [acc.kept EXCEPT ![j] = dropped[i]],
                  min |-> [acc.min EXCEPT ![j] = 0], max |-> [acc.max EXCEPT ![i] = Infinite]]
      start == [kept |-> kept, min |-> [j \in 1..Survivors |-> kept[j].rd],
                max |-> [j \in 1..Survivors |-> dropped[j].rd]]
  IN  FoldLeft(Round, start, [n \in 1..Survivors + 1 |-> n]).kept

\* silk_nlsf_del_dec_quant(): the indices and their cost.
DelDecQuant(x, w, pred, rates, mu) ==
  LET One(i, states) ==
        LET both == Candidates(states, x[i], w[i], pred[i], rates[i], mu)
        IN  IF Len(both) <= Survivors THEN both ELSE Prune(both)
      last == FoldRight(One, [i \in DOMAIN x |-> i], << [ind |-> <<>>, out |-> 0, rd |-> 0] >>)
      best == ArgMin([j \in DOMAIN last |-> last[j].rd])
  IN  [indices |-> last[best].ind, rd |-> last[best].rd]

\* Property: the cost is that of what the decoder will make of the indices,
\* and these are within what the entropy coder can write.
CostIsTheDecoders(x, w, pred, rates, mu) ==
  LET q == DelDecQuant(x, w, pred, rates, mu)
      y == ResidualDequant(q.indices, pred)
      Cost(i) == w[i] * (x[i] - y[i]) * (x[i] - y[i]) + mu * Rate(rates[i], q.indices[i])
  IN  /\ q.rd = SumSeq([i \in DOMAIN x |-> Cost(i)])
      /\ \A i \in DOMAIN x : AbsOf(q.indices[i]) <= MaxAmpExt

-----------------------------------------------------------------------------
(* The stabiliser: frequency i at least min[i] above the one before, the   *)
(* last at least min[n+1] below Full.                                      *)

Gap(f, min, i) == (IF i > Len(f) THEN Full ELSE f[i]) - (IF i = 1 THEN 0 ELSE f[i - 1]) - min[i]

\* One round: the two frequencies of the worst gap move apart.
Spread(f, min, i) ==
  LET n == Len(f)
      lo == SumSeq(SubSeq(min, 1, i - 1)) + min[i] \div 2
      hi == Full - SumSeq(SubSeq(min, i + 1, n + 1)) - min[i] \div 2
      middle == (f[i - 1] + f[i] + 1) \div 2
      center == IF lo > hi THEN Limit(middle, hi, lo) ELSE Limit(middle, lo, hi)
  IN  CASE i = 1 -> [f EXCEPT ![1] = min[1]]
        [] i = n + 1 -> [f EXCEPT ![n] = Full - min[n + 1]]
        [] OTHER -> [f EXCEPT ![i - 1] = center - min[i] \div 2, ![i] = center - min[i] \div 2 + min[i]]

\* After too many rounds: sorted, pushed up from below, then down from above.
FallBack(f, min) ==
  LET n == Len(f)
      sorted == SortAllValues(f)
      Up(acc, i) == Append(acc, LET floor == (IF i = 1 THEN 0 ELSE Last(acc)) + min[i]
                                IN  IF sorted[i] < floor THEN floor ELSE sorted[i])
      up == FoldLeft(Up, <<>>, [i \in 1..n |-> i])
      Down(i, acc) == LET ceiling == (IF i = n THEN Full ELSE Head(acc)) - min[i + 1]
                      IN  <<IF up[i] > ceiling THEN ceiling ELSE up[i]>> \o acc
  IN  FoldRight(Down, [i \in 1..n |-> i], <<>>)

MutStabilize(f, min) ==
  LET Round(acc, k) ==
        LET worst == ArgMin([i \in DOMAIN min |-> Gap(acc, min, i)])
        IN  IF Gap(acc, min, worst) >= 0 THEN acc ELSE Spread(acc, min, worst)
  IN  FoldLeft(Round, f, [k \in 1..MaxLoops |-> k])
Stabilize(f, min) ==
  LET Round(acc, k) ==
        LET worst == ArgMin([i \in DOMAIN min |-> Gap(acc.f, min, i)])
        IN  IF acc.done \/ Gap(acc.f, min, worst) >= 0 THEN [acc EXCEPT !.done = TRUE]
            ELSE [acc EXCEPT !.f = Spread(acc.f, min, worst)]
      last == FoldLeft(Round, [f |-> f, done |-> FALSE], [k \in 1..MaxLoops |-> k])
  IN  IF last.done THEN last.f ELSE FallBack(last.f, min)

\* Property: the gaps are there, if they fit at all.
GapsAreKept(f, min) ==
  SumSeq(min) <= Full => \A i \in DOMAIN min : Gap(Stabilize(f, min), min, i) >= 0

-----------------------------------------------------------------------------
(* Encoder and decoder of a frame's frequencies.                           *)

\* silk_nlsf_vq(): the distance of f to a vector, predicted downwards.
VectorError(f, v) ==
  LET One(i, acc) == LET d == (f[i] - v.element[i]) * v.weight[i]
                     IN  [sum |-> acc.sum + AbsOf(d - acc.pred \div 2), pred |-> d]
  IN  FoldRight(One, [i \in DOMAIN f |-> i], [sum |-> 0, pred |-> 0]).sum

NlsfDecode(cb, code) ==
  LET v == cb.vectors[code.vector]
      res == ResidualDequant(code.indices, Unpack(cb, code.vector).pred)
      Q(a, b) == IF a >= 0 THEN a \div b ELSE -((-a) \div b)
  IN  Stabilize([i \in 1..cb.order |-> Limit(Q(res[i] * cb.one, v.weight[i]) + v.element[i], 0, Full - 1)], cb.min)

\* The best of the nearest vectors, each with its trellis; what is left in
\* place of the input is what the decoder will have.
NlsfEncode(cb, input, weights, mu, survivors) ==
  LET f == Stabilize(input, cb.min)
      near == SortIncreasing([v \in DOMAIN cb.vectors |-> VectorError(f, cb.vectors[v])], survivors)
      Quantised(v) ==
        LET book == cb.vectors[v]
            res == [i \in 1..cb.order |-> ((f[i] - book.element[i]) * book.weight[i]) \div cb.one]
            u == Unpack(cb, v)
            q == DelDecQuant(res, weights, u.pred, u.rates, mu)
        IN  [vector |-> v, indices |-> q.indices, rd |-> q.rd + mu * book.bits]
      all == FoldLeft(LAMBDA found, n : Append(found, Quantised(n[2])), <<>>, near)
      best == all[SortIncreasing([s \in DOMAIN all |-> all[s].rd], 1)[1][2]]
  IN  [code |-> [vector |-> best.vector, indices |-> best.indices], f |-> NlsfDecode(cb, best)]

\* Property: whatever the input, what the decoder makes of the code has the
\* gaps its predictor relies on, and every index is one that can be coded.
FrequenciesReturn(cb, input, weights, mu, survivors) ==
  LET e == NlsfEncode(cb, input, weights, mu, survivors)
  IN  /\ \A i \in DOMAIN cb.min : Gap(e.f, cb.min, i) >= 0
      /\ \A i \in 1..cb.order : AbsOf(e.code.indices[i]) <= MaxAmpExt
=============================================================================
