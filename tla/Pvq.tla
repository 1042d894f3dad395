-------------------------------- MODULE Pvq ---------------------------------
(***************************************************************************)
(* The pyramid vector quantiser of src/src/pvq.rs.  A band of n samples    *)
(* becomes k signed pulses; their vector becomes one number below V(n, k), *)
(* and the decoder's vector must be the encoder's.  Samples are small      *)
(* integers, and floating-point scores are compared as the fractions they  *)
(* approximate; equal scores leave the choice open, as the builds differ.  *)
(* The rotation that spreads pulses is taken modulo a prime with a c and   *)
(* an s such that c^2 + s^2 = 1.                                           *)
(*                                                                         *)
(* An operator Mut<Name> is <Name> with a slip the properties must catch;  *)
(* nothing here uses it.                                                   *)
(***************************************************************************)
EXTENDS Integers, Sequences, SequencesExt, FiniteSetsExt, Functions

CONSTANTS
  WideFrom,     \* bands from here on take the search for wide ones (32)
  NeonUpTo,     \* bands up to here take the NEON search on that build (16)
  SmallK,       \* up to so many pulses are placed without projection (4)
  BatchSize,    \* pulses placed from one set of scores (4)
  BatchFrom,    \* and the width from which they are (16)
  MaxN, MaxK,   \* bounds on n and k: the size of the table
  Prime, Cos, Sin

ASSUME OnCircle == (Cos * Cos + Sin * Sin) % Prime = 1
ASSUME SearchSizes ==
  /\ 4 < WideFrom /\ NeonUpTo < WideFrom /\ BatchFrom \in Nat
  /\ BatchSize \in 1..BatchFrom - 1

Abs(i) == IF i < 0 THEN -i ELSE i
SumOf(s) == FoldLeft(+, 0, s)
Magnitudes(s) == [i \in DOMAIN s |-> Abs(s[i])]

-----------------------------------------------------------------------------
(* The number of pulse vectors.                                            *)

\* The next row, from u(n, 0..): u(n+1, k) = u(n, k) + u(n, k-1) + u(n+1, k-1).
Unext(u) == FoldLeft(LAMBDA row, j : Append(row, u[j] + u[j - 1] + Last(row)), <<0>>,
                     [i \in 1..Len(u) - 1 |-> i + 1])

\* Rows of n from 0, columns of k from 0.
Rows == FoldLeft(LAMBDA rows, n : Append(rows, Unext(Last(rows))),
                 << <<1>> \o [k \in 1..MaxK + 1 |-> 0] >>, [n \in 1..MaxN + 1 |-> n])

U(n, k) == Rows[n + 1][k + 1]
V(n, k) == U(n, k) + U(n, k + 1)

\* The table row by row, as the search for one number in it computes it.
Ncwrs(n, k) ==
  CASE n = 0 -> 0
    [] n = 1 -> IF k > 0 THEN 2 ELSE 1
    [] OTHER -> LET start == [j \in 1..k + 2 |-> IF j = 1 THEN 0 ELSE 2 * j - 3]
                    last == FoldLeft(LAMBDA u, i : Unext(u), start, [i \in 1..n - 2 |-> i])
                IN  last[k + 1] + last[k + 2]

-----------------------------------------------------------------------------
(* A pulse vector and its index.                                           *)

\* Pulses from position j on.
Left(y, j) == SumOf(Magnitudes(SubSeq(y, j, Len(y))))

MutIcwrs(y) ==
  (IF y[Len(y)] < 0 THEN 1 ELSE 0)
    + SumOf([j \in 1..Len(y) - 1 |-> U(Len(y) - j + 1, Left(y, j + (IF y[j] < 0 THEN 0 ELSE 1)))])
Icwrs(y) ==
  LET n == Len(y)
      negative == IF y[n] < 0 THEN 1 ELSE 0
      Share(j) == U(n - j + 1, Left(y, j + 1)) +
                  (IF y[j] < 0 THEN U(n - j + 1, Left(y, j) + 1) ELSE 0)
  IN  negative + SumOf([j \in 1..n - 1 |-> Share(j)])

\* At each position the sign is read first, then the pulses that are left.
Cwrsi(n, k, index) ==
  LET Place(at, m) ==
        LET negative == at.i >= U(m, at.k + 1)
            i == IF negative THEN at.i - U(m, at.k + 1) ELSE at.i
            left == CHOOSE q \in 0..at.k : /\ U(m, q) <= i
                                           /\ \A r \in q + 1..at.k : U(m, r) > i
        IN  [y |-> Append(at.y, IF negative THEN left - at.k ELSE at.k - left),
             k |-> left, i |-> i - U(m, left)]
      rest == FoldLeft(Place, [y |-> <<>>, k |-> k, i |-> index], [j \in 1..n - 1 |-> n - j + 1])
  IN  Append(rest.y, IF rest.i = 0 THEN rest.k ELSE -rest.k)

-----------------------------------------------------------------------------
(* The search: the sets of vectors it may end with.                        *)

Zeros(x) == [i \in DOMAIN x |-> 0]
Dot(x, y) == SumOf([i \in DOMAIN x |-> x[i] * y[i]])

\* One more pulse at i: the correlation, and the energy.
Rxy(x, y, i) == Dot(x, y) + x[i]
Ryy(y, i) == Dot(y, y) + 2 * y[i] + 1

Better(x, y, i, j) ==
  Rxy(x, y, i) * Rxy(x, y, i) * Ryy(y, j) > Rxy(x, y, j) * Rxy(x, y, j) * Ryy(y, i)

Placed(y, S) == [i \in DOMAIN y |-> IF i \in S THEN y[i] + 1 ELSE y[i]]

\* b pulses on b different samples, none of the others better.
BestSets(x, y, b) ==
  {S \in kSubset(b, DOMAIN x) : \A i \in S, j \in DOMAIN x \ S : ~Better(x, y, j, i)}

\* All the ways to place k pulses over y, b at a time.
Greedy(x, y, k, b) ==
  LET One(results, size) == UNION {{Placed(r, S) : S \in BestSets(x, r, size)} : r \in results}
      sizes == [i \in 1..k \div b |-> b] \o (IF k % b > 0 THEN <<k % b>> ELSE <<>>)
  IN  FoldLeft(One, {y}, sizes)

\* The projection onto the pyramid: (k + 0.8) |x| / sum, truncated.
Project(x, k) == [i \in DOMAIN x |-> ((10 * k + 8) * x[i]) \div (10 * SumOf(x))]

\* What the projection leaves, and where it goes when it is too much.
Presearch(x, k, from) ==
  LET projects == k > from /\ SumOf(x) > 0
      y == IF projects THEN Project(x, k) ELSE Zeros(x)
      left == k - SumOf(y)
  IN  IF projects /\ left > Len(x) + 3 THEN [y |-> [y EXCEPT ![1] = @ + left], left |-> 0]
      ELSE [y |-> y, left |-> left]

\* One pulse goes to the largest sample, the first of equals.
SearchOne(x) ==
  {[Zeros(x) EXCEPT ![i] = 1] :
     i \in {i \in DOMAIN x : \A j \in DOMAIN x : IF j < i THEN x[j] < x[i] ELSE x[j] <= x[i]}}

\* Two samples share by their sizes, rounded.
SearchN2(x, k) ==
  LET sum == x[1] + x[2]
      y0 == (2 * k * x[1] + sum) \div (2 * sum)
  IN  IF sum = 0 THEN {<<k, 0>>} ELSE {<<y0, k - y0>>}

SearchN4(x, k, build) ==
  LET p == Presearch(x, k, 2) IN
  IF build = "neon" THEN Greedy(x, Zeros(x), k, 1) ELSE Greedy(x, p.y, p.left, 1)

SearchSmallK(x, k) == Greedy(x, Zeros(x), k, 1)

SearchScalar(x, k) ==
  LET p == Presearch(x, k, Len(x) \div 2) IN
  IF k <= SmallK THEN SearchSmallK(x, k) ELSE Greedy(x, p.y, p.left, 1)

SearchAvx2(x, k) == LET p == Presearch(x, k, Len(x) \div 2) IN Greedy(x, p.y, p.left, 1)

\* For few pulses NEON compares the scores without squaring the correlation.
SearchNeon(x, k) ==
  LET p == Presearch(x, k, Len(x) \div 2)
      Above(y, i, j) == Ryy(y, j) * Rxy(x, y, i) > Rxy(x, y, j) * Ryy(y, i)
      One(results, size) ==
        UNION {{Placed(r, {i}) : i \in {i \in DOMAIN x : \A j \in DOMAIN x : ~Above(r, j, i)}} : r \in results}
  IN  IF k <= SmallK THEN FoldLeft(One, {Zeros(x)}, [i \in 1..k |-> 1])
      ELSE Greedy(x, p.y, p.left, 1)

SearchFastSelect(x, k) ==
  LET p == Presearch(x, k, Len(x) \div 2)
      one == p.left < 2 * BatchSize \/ Len(x) < BatchFrom
  IN  Greedy(x, p.y, p.left, IF one THEN 1 ELSE BatchSize)

PvqSearch(samples, k, build) ==
  LET x == Magnitudes(samples)
      n == Len(x)
      found == CASE k = 1 -> SearchOne(x)
                 [] k # 1 /\ n = 2 -> SearchN2(x, k)
                 [] k # 1 /\ n = 4 -> SearchN4(x, k, build)
                 [] k # 1 /\ n >= WideFrom -> SearchFastSelect(x, k)
                 [] k # 1 /\ n \notin {2, 4} /\ n < WideFrom ->
                      CASE build = "neon" /\ n <= NeonUpTo -> SearchNeon(x, k)
                        [] build = "avx2" /\ k > SmallK -> SearchAvx2(x, k)
                        [] OTHER -> SearchScalar(x, k)
  IN  {[i \in 1..n |-> IF samples[i] < 0 THEN -y[i] ELSE y[i]] : y \in found}

-----------------------------------------------------------------------------
(* Spreading, the blocks that got pulses, and a band through the coder.    *)

\* A sweep of plane rotations forward, and back without the last ones.
ExpRotation1(x, stride, c, s) ==
  LET Turn(v, i) == [v EXCEPT ![i] = (c * v[i] - s * v[i + stride]) % Prime,
                              ![i + stride] = (c * v[i + stride] + s * v[i]) % Prime]
      there == [i \in 1..Len(x) - stride |-> i]
      back == IF Len(x) >= 2 * stride
              THEN [i \in 1..Len(x) - 2 * stride |-> Len(x) - 2 * stride + 1 - i] ELSE <<>>
  IN  FoldLeft(Turn, x, there \o back)

Stride2(length, stride) ==
  IF length < 8 * stride THEN 0
  ELSE CHOOSE t \in 1..length :
         /\ (t * t + t) * stride + stride \div 4 >= length
         /\ \A u \in 1..t - 1 : (u * u + u) * stride + stride \div 4 < length

\* dir > 0 spreads before the search, dir < 0 undoes it.
ExpRotation(x, dir, stride, k, spread) ==
  LET length == Len(x)
      block == length \div stride
      wide == Stride2(length, stride)
      Wide(v, c, s) == IF wide = 0 THEN v ELSE ExpRotation1(v, wide, c, s)
      Turned(v) == IF dir < 0 THEN ExpRotation1(Wide(v, Sin, Cos), 1, Cos, Sin)
                   ELSE Wide(ExpRotation1(v, 1, Cos, -Sin), Sin, -Cos)
      blocks == [b \in 1..stride |-> Turned(SubSeq(x, (b - 1) * block + 1, b * block))]
  IN  IF stride = 0 \/ 2 * k >= length \/ spread \notin 1..3 THEN x
      ELSE FlattenSeq(blocks) \o SubSeq(x, stride * block + 1, length)

\* Which of the b short blocks hold a pulse.
ExtractCollapseMask(y, b) ==
  LET size == Len(y) \div b IN
  IF b <= 1 THEN {0}
  ELSE {i \in 0..b - 1 : \E j \in 1..size : y[i * size + j] # 0}

\* What is sent (k pulses take a number below V(n, k), none take nothing),
\* and what each side makes of it.
EncodePulses(y, k) == IF k = 0 THEN <<>> ELSE <<[value |-> Icwrs(y), ft |-> V(Len(y), k)]>>

AlgQuant(samples, k, build, stride, spread) ==
  {[code |-> EncodePulses(y, k), y |-> y, mask |-> ExtractCollapseMask(y, stride),
    x |-> ExpRotation(y, -1, stride, k, spread)] : y \in PvqSearch(samples, k, build)}

DecodePulses(code, n, k) ==
  IF k = 0 THEN [i \in 1..n |-> 0]
  ELSE Cwrsi(n, k, Min({code[1].value, code[1].ft - 1}))

AlgUnquant(code, n, k, stride, spread) ==
  LET y == DecodePulses(code, n, k)
  IN  [y |-> y, mask |-> ExtractCollapseMask(y, stride), x |-> ExpRotation(y, -1, stride, k, spread)]
-----------------------------------------------------------------------------
(* Properties of one band.                                                 *)

\* Whichever of equal scores a build takes, all k pulses are placed, none
\* against the sign of its sample, their index is below V(n, k), and the
\* decoder gets the vector, its blocks and the rotated band back from it.
BandReturns(samples, k, build, stride, spread) ==
  \A q \in AlgQuant(samples, k, build, stride, spread) :
    LET n == Len(samples)
        d == AlgUnquant(q.code, n, k, stride, spread)
    IN  /\ SumOf(Magnitudes(q.y)) = k
        /\ \A i \in 1..n : q.y[i] * samples[i] >= 0
        /\ q.code[1].value \in 0..q.code[1].ft - 1
        /\ <<d.y, d.mask, d.x>> = <<q.y, q.mask, q.x>>

\* The vectors of n samples and k pulses, counted: the row-by-row count, the
\* table's and their number.
CountsAgree(n, k) ==
  /\ V(n, k) = Ncwrs(n, k)
  /\ V(n, k) = Cardinality({y \in [1..n -> -k..k] : SumOf(Magnitudes(y)) = k})

\* Spreading undone gives the band back.
SpreadReturns(x, stride) == ExpRotation(ExpRotation(x, 1, stride, 0, 1), -1, stride, 0, 1) = x
=============================================================================
