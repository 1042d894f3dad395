--------------------------- MODULE RangeCoderProof ---------------------------
(* Proofs about RangeCoder: for every width, every size, every alphabet and *)
(* a packet of any length: what the encoder writes, that it fits, and, in   *)
(* the second half, which place in a packet its state stands for.           *)
EXTENDS RangeCoder, WellFoundedInduction, TLAPS

-----------------------------------------------------------------------------
(* Induction in a form that the provers can use: over a set of naturals,     *)
(* where the library's theorems take a predicate as a parameter.  From it,   *)
(* that a loop over values of a set has a run, that a function defined from  *)
(* its value before exists, and what division is.                            *)

\* A set of naturals with 0 in it and, with every number, the next one, has
\* them all.
THEOREM Induction ==
  ASSUME NEW T, T \subseteq Nat, 0 \in T, \A k \in T : k + 1 \in T
  PROVE  T = Nat
<1> DEFINE R == OpToRel(<, Nat)
           U == Nat \ T
<1>1. IsWellFoundedOn(R, Nat)
  BY NatLessThanWellFounded, Zenon
<1>2. SUFFICES ASSUME U # {} PROVE FALSE
  OBVIOUS
<1>3. U \subseteq Nat
  OBVIOUS
<1>4. PICK x \in U : \A y \in U : <<y, x>> \notin R
  <2> HIDE DEF R
  <2> QED BY <1>1, <1>2, <1>3, WFMin
<1>5. \A y \in U : ~(y < x)
  BY <1>4, <1>3 DEF OpToRel
<1>6. x - 1 \in Nat /\ x - 1 < x
  BY <1>3
<1>7. x - 1 \in T
  BY <1>5, <1>6
<1>8. (x - 1) + 1 \in T /\ (x - 1) + 1 = x
  BY <1>7, <1>3
<1> QED BY <1>8

\* What holds of 0 and is kept from every number below n to the next one
\* holds up to n.
THEOREM InductionTo ==
  ASSUME NEW n \in Nat, NEW T, 0 \in T, \A k \in 0..n - 1 : k \in T => k + 1 \in T
  PROVE  0..n \subseteq T
<1> DEFINE U == {k \in Nat : k <= n => k \in T}
<1>1. U \subseteq Nat /\ 0 \in U
  OBVIOUS
<1>2. ASSUME NEW k \in U PROVE k + 1 \in U
  OBVIOUS
<1>3. U = Nat
  <2> HIDE DEF U
  <2> QED BY <1>1, <1>2, Induction
<1> QED BY <1>3

\* The values of a loop whose step keeps to a set.
IsRun(run, x, F, n) == run[0] = x /\ \A i \in 1..n : run[i] = F[run[i - 1]]
THEOREM Runs ==
  ASSUME NEW X, NEW x \in X, NEW F \in [X -> X], NEW n \in Nat
  PROVE  \E run \in [0..n -> X] : IsRun(run, x, F, n)
<1> DEFINE T == {k \in Nat : \E run \in [0..k -> X] : IsRun(run, x, F, k)}
<1>1. 0 \in T
  <2>1. [i \in 0..0 |-> x] \in [0..0 -> X] /\ IsRun([i \in 0..0 |-> x], x, F, 0)
    BY DEF IsRun
  <2> QED BY <2>1
<1>2. ASSUME NEW k \in T PROVE k + 1 \in T
  <2>1. k \in Nat
    OBVIOUS
  <2>2. PICK run \in [0..k -> X] : IsRun(run, x, F, k)
    OBVIOUS
  <2> DEFINE longer == [i \in 0..k + 1 |-> IF i = k + 1 THEN F[run[k]] ELSE run[i]]
  <2>3. longer \in [0..k + 1 -> X]
    BY <2>1
  <2>4. longer[0] = x
    BY <2>1, <2>2 DEF IsRun
  <2>5. ASSUME NEW i \in 1..k + 1 PROVE longer[i] = F[longer[i - 1]]
    <3>1. CASE i = k + 1
      BY <3>1, <2>1
    <3>2. CASE i # k + 1
      BY <3>2, <2>1, <2>2 DEF IsRun
    <3> QED BY <3>1, <3>2
  <2>6. IsRun(longer, x, F, k + 1)
    BY <2>4, <2>5 DEF IsRun
  <2>7. \E r \in [0..k + 1 -> X] : IsRun(r, x, F, k + 1)
    <3> HIDE DEF longer
    <3> QED BY <2>3, <2>6
  <2>8. k + 1 \in Nat
    BY <2>1
  <2> QED BY <2>7, <2>8
<1>3. T = Nat
  <2>1. T \subseteq Nat
    OBVIOUS
  <2> HIDE DEF T
  <2> QED BY <1>1, <1>2, <2>1, Induction
<1>4. n \in T
  BY <1>3
<1> QED BY <1>4

\* A function over the naturals that is defined from its value at the number
\* before.
IsRecursion(f, x, F) == f[0] = x /\ \A i \in Nat : f[i + 1] = F[<<i, f[i]>>]
THEOREM Recursion ==
  ASSUME NEW X, NEW x \in X, NEW F \in [Nat \X X -> X]
  PROVE  \E f \in [Nat -> X] : IsRecursion(f, x, F)
<1> DEFINE IsPart(n, g) == /\ g \in [0..n -> X] /\ g[0] = x
                         /\ \A i \in 0..n - 1 : g[i + 1] = F[<<i, g[i]>>]
           T == {n \in Nat : \E g : IsPart(n, g)}
<1>1. 0 \in T
  <2>1. IsPart(0, [i \in 0..0 |-> x])
    OBVIOUS
  <2> HIDE DEF IsPart
  <2> QED BY <2>1
<1>2. ASSUME NEW n \in T PROVE n + 1 \in T
  <2>1. n \in Nat
    OBVIOUS
  <2>2. PICK g : IsPart(n, g)
    OBVIOUS
  <2> DEFINE h == [i \in 0..n + 1 |-> IF i = n + 1 THEN F[<<n, g[n]>>] ELSE g[i]]
  <2>3. h \in [0..n + 1 -> X] /\ h[0] = x
    BY <2>1, <2>2
  <2>4. ASSUME NEW i \in 0..(n + 1) - 1 PROVE h[i + 1] = F[<<i, h[i]>>]
    <3>1. CASE i = n
      <4>1. h[n + 1] = F[<<n, g[n]>>] /\ h[n] = g[n]
        BY <2>1
      <4> QED BY <3>1, <4>1
    <3>2. CASE i # n
      <4>1. i \in 0..n - 1 /\ i + 1 # n + 1 /\ i # n + 1 /\ i + 1 \in 0..n + 1
        BY <3>2, <2>1
      <4>2. h[i + 1] = g[i + 1] /\ h[i] = g[i]
        BY <4>1
      <4> QED BY <4>1, <4>2, <2>2
    <3> QED BY <3>1, <3>2
  <2> HIDE DEF h
  <2>5. IsPart(n + 1, h)
    BY <2>3, <2>4
  <2> HIDE DEF IsPart
  <2>6. n + 1 \in Nat
    BY <2>1
  <2> QED BY <2>5, <2>6
<1>3. T = Nat
  <2>1. T \subseteq Nat
    OBVIOUS
  <2> HIDE DEF T
  <2> QED BY <1>1, <1>2, <2>1, Induction
<1> DEFINE part(n) == CHOOSE g : IsPart(n, g)
<1>4. ASSUME NEW n \in Nat PROVE IsPart(n, part(n))
  <2>1. \E g : IsPart(n, g)
    BY <1>3
  <2> HIDE DEF IsPart
  <2> QED BY <2>1
<1> HIDE DEF T, part
<1>5. ASSUME NEW n \in Nat PROVE part(n + 1)[n] = part(n)[n]
  <2> DEFINE S == {k \in Nat : k <= n => part(n + 1)[k] = part(n)[k]}
  <2>1. n + 1 \in Nat /\ IsPart(n, part(n)) /\ IsPart(n + 1, part(n + 1))
    BY <1>4
  <2>2. 0 \in S
    BY <2>1
  <2>3. ASSUME NEW k \in 0..n - 1, k \in S PROVE k + 1 \in S
    <3> DEFINE a == part(n)
               b == part(n + 1)
    <3>1. a[k + 1] = F[<<k, a[k]>>] /\ b[k + 1] = F[<<k, b[k]>>]
      BY <2>1
    <3> HIDE DEF a, b
    <3>2. a[k] = b[k]
      BY <2>3 DEF a, b
    <3>3. a[k + 1] = b[k + 1]
      BY <3>1, <3>2
    <3> QED BY <3>3 DEF a, b
  <2>4. 0..n \subseteq S
    <3> HIDE DEF S
    <3> QED BY <2>2, <2>3, InductionTo
  <2> QED BY <2>4
<1> DEFINE f == [n \in Nat |-> part(n)[n]]
<1>6. f \in [Nat -> X]
  BY <1>4
<1>7. f[0] = x
  BY <1>4
<1>8. ASSUME NEW i \in Nat PROVE f[i + 1] = F[<<i, f[i]>>]
  <2>1. i + 1 \in Nat /\ i \in 0..(i + 1) - 1
    OBVIOUS
  <2>2. part(i + 1)[i + 1] = F[<<i, part(i + 1)[i]>>]
    BY <1>4, <2>1
  <2> QED BY <2>1, <2>2, <1>5
<1> HIDE DEF f
<1>9. IsRecursion(f, x, F)
  BY <1>7, <1>8 DEF IsRecursion
<1> QED BY <1>6, <1>9

\* Quotient and remainder.
THEOREM Division ==
  ASSUME NEW a \in Nat, NEW b \in Nat \ {0}
  PROVE  /\ a \div b \in Nat /\ a % b \in 0..b - 1
         /\ a = b * (a \div b) + (a % b)
  OBVIOUS

\* More times as much.
THEOREM Product ==
  ASSUME NEW a \in Nat, NEW b \in Nat, NEW c \in Nat
  PROVE  /\ a * b \in Nat /\ a * (b + c) = a * b + a * c
         /\ a * b <= a * (b + c) /\ (a > 0 /\ c > 0 => a * b < a * (b + c))
  OBVIOUS


(***************************************************************************)
(* Powers of two.                                                          *)
(***************************************************************************)
LEMMA PowRecursive == Pow = [k \in 0..CodeBits |-> IF k = 0 THEN 1 ELSE 2 * Pow[k - 1]]
<1> DEFINE F == [x \in Nat |-> 2 * x]
<1>1. CodeBits \in Nat
  BY WidthsFit
<1>2. PICK run \in [0..CodeBits -> Nat] : IsRun(run, 1, F, CodeBits)
  <2>1. F \in [Nat -> Nat] /\ 1 \in Nat
    OBVIOUS
  <2> HIDE DEF F
  <2> QED BY <1>1, <2>1, Runs, Zenon
<1>3. run = [k \in 0..CodeBits |-> IF k = 0 THEN 1 ELSE 2 * run[k - 1]]
  <2>1. \A k \in 0..CodeBits : run[k] = IF k = 0 THEN 1 ELSE 2 * run[k - 1]
    <3> TAKE k \in 0..CodeBits
    <3>1. CASE k = 0
      BY <3>1, <1>2 DEF IsRun
    <3>2. CASE k # 0
      <4>1. k \in 1..CodeBits /\ run[k - 1] \in Nat
        BY <3>2, <1>1
      <4> QED BY <3>2, <4>1, <1>2 DEF IsRun
    <3> QED BY <3>1, <3>2
  <2> QED BY <2>1
<1> QED BY <1>3, Zenon DEF Pow

LEMMA PowStep ==
  /\ Pow[0] = 1
  /\ \A k \in 1..CodeBits : Pow[k] = 2 * Pow[k - 1]
<1>1. CodeBits \in Nat
  BY WidthsFit
<1> QED BY <1>1, PowRecursive

LEMMA PowPositive == \A k \in 0..CodeBits : Pow[k] \in Nat \ {0}
<1> DEFINE T == {k \in Nat : Pow[k] \in Nat \ {0}}
<1>1. CodeBits \in Nat
  BY WidthsFit
<1>2. 0 \in T
  BY PowStep
<1>3. ASSUME NEW k \in 0..CodeBits - 1, k \in T PROVE k + 1 \in T
  <2>1. Pow[k + 1] = 2 * Pow[k]
    BY <1>1, PowStep
  <2> QED BY <2>1, <1>3
<1>4. 0..CodeBits \subseteq T
  <2> HIDE DEF T
  <2> QED BY <1>1, <1>2, <1>3, InductionTo
<1> QED BY <1>4

LEMMA PowSum ==
  ASSUME NEW a \in Nat, NEW b \in Nat, a + b <= CodeBits
  PROVE  Pow[a + b] = Pow[a] * Pow[b]
<1> DEFINE T == {k \in Nat : a + k <= CodeBits => Pow[a + k] = Pow[a] * Pow[k]}
<1>1. CodeBits \in Nat
  BY WidthsFit
<1>2. 0 \in T
  <2>1. a \in 0..CodeBits
    BY <1>1
  <2>2. Pow[a] \in Nat /\ Pow[0] = 1
    BY <2>1, PowPositive, PowStep
  <2> QED BY <2>2
<1>3. ASSUME NEW k \in T PROVE k + 1 \in T
  <2>1. SUFFICES ASSUME a + (k + 1) <= CodeBits PROVE Pow[a + (k + 1)] = Pow[a] * Pow[k + 1]
    OBVIOUS
  <2>2. Pow[a + k] = Pow[a] * Pow[k]
    BY <2>1, <1>1
  <2>3. a + (k + 1) \in 1..CodeBits /\ k + 1 \in 1..CodeBits /\ (a + (k + 1)) - 1 = a + k /\ (k + 1) - 1 = k
    BY <2>1, <1>1
  <2>4. Pow[a + (k + 1)] = 2 * Pow[a + k] /\ Pow[k + 1] = 2 * Pow[k]
    BY <2>3, PowStep
  <2>5. Pow[a] \in Nat /\ Pow[k] \in Nat
    BY <2>1, <1>1, PowPositive
  <2> QED BY <2>2, <2>4, <2>5
<1>4. T = Nat
  <2>1. T \subseteq Nat
    OBVIOUS
  <2> HIDE DEF T
  <2> QED BY <1>2, <1>3, <2>1, Induction
<1> QED BY <1>4

LEMMA PowOrder ==
  ASSUME NEW a \in 0..CodeBits, NEW b \in 0..CodeBits
  PROVE  /\ a <= b => Pow[a] <= Pow[b]
         /\ a < b => 2 * Pow[a] <= Pow[b]
<1>1. CodeBits \in Nat
  BY WidthsFit
<1>2. ASSUME a <= b PROVE Pow[b] = Pow[a] * Pow[b - a]
  <2>1. b - a \in Nat /\ a + (b - a) = b
    BY <1>1, <1>2
  <2> QED BY <2>1, <1>1, PowSum
<1>3. Pow[a] \in Nat \ {0} /\ Pow[b] \in Nat \ {0} /\ (a <= b => Pow[b - a] \in Nat \ {0})
  BY <1>1, PowPositive
<1>4. CASE a = b
  BY <1>4, <1>3
<1>5. CASE a < b
  <2>1. Pow[b - a] = 2 * Pow[b - a - 1] /\ Pow[b - a - 1] \in Nat \ {0}
    BY <1>1, <1>5, PowStep, PowPositive
  <2> DEFINE p == Pow[a]
             q == Pow[b - a - 1]
  <2>2. p \in Nat \ {0} /\ q \in Nat \ {0} /\ Pow[b] = p * (2 * q)
    BY <2>1, <1>2, <1>3, <1>5
  <2> HIDE DEF p, q
  <2>3. p * (2 * q) = 2 * (p * q) /\ p * q >= p
    BY <2>2
  <2>4. Pow[b] >= 2 * p /\ p \in Nat
    BY <2>2, <2>3
  <2> QED BY <2>4, <1>3, <1>5, <1>1 DEF p
<1>6. CASE a > b
  BY <1>6
<1>7. a = b \/ a < b \/ a > b
  BY <1>1
<1> QED BY <1>4, <1>5, <1>6, <1>7

LEMMA Widths ==
  /\ SymBits \in Nat \ {0} /\ CodeBits \in Nat /\ UintBits \in Nat
  /\ CodeShift \in Nat /\ SymBits + 1 <= CodeShift /\ CodeShift + SymBits + 1 = CodeBits
  /\ UintBits <= CodeShift /\ SymBits <= UintBits + 1
  /\ Pow[SymBits] \in Nat /\ Pow[SymBits] >= 2
  /\ CodeBot \in Nat /\ CodeBot >= 4
  /\ CodeTop \in Nat /\ CodeTop = CodeBot * Pow[SymBits]
  /\ Word \in Nat /\ Word = 2 * CodeTop /\ CodeTop > CodeBot
<1>1. /\ SymBits \in Nat \ {0} /\ CodeBits \in Nat /\ UintBits \in Nat
      /\ CodeShift \in Nat /\ SymBits + 1 <= CodeShift /\ CodeShift + SymBits + 1 = CodeBits
      /\ UintBits <= CodeShift /\ SymBits <= UintBits + 1
  BY WidthsFit DEF CodeShift
<1>2. Pow[SymBits] \in Nat /\ CodeBot \in Nat /\ CodeTop \in Nat /\ Word \in Nat
  BY <1>1, PowPositive DEF CodeBot, CodeTop, Word
<1>3. Pow[0] = 1 /\ Pow[1] = 2 /\ Pow[2] = 4
  BY <1>1, PowStep
<1>4. Pow[SymBits] >= 2
  BY <1>1, <1>3, PowOrder
<1>5. CodeBot >= 4
  <2>1. 2 <= CodeBits - 1 - SymBits
    BY <1>1
  <2> QED BY <1>1, <1>3, <2>1, PowOrder DEF CodeBot
<1>6. CodeTop = CodeBot * Pow[SymBits]
  <2>1. (CodeBits - 1 - SymBits) + SymBits = CodeBits - 1
    BY <1>1
  <2>2. CodeBits - 1 - SymBits \in Nat
    BY <1>1
  <2>3. Pow[(CodeBits - 1 - SymBits) + SymBits] = Pow[CodeBits - 1 - SymBits] * Pow[SymBits]
    BY <1>1, <2>1, <2>2, PowSum
  <2> QED BY <2>1, <2>3 DEF CodeTop, CodeBot
<1>7. Word = 2 * CodeTop
  BY <1>1, PowStep DEF Word, CodeTop
<1>8. CodeTop > CodeBot
  <2>1. \A p \in Nat, q \in Nat : p >= 4 /\ q >= 2 => p * q > p
    OBVIOUS
  <2> QED BY <1>2, <1>4, <1>5, <1>6, <2>1
<1> QED BY <1>1, <1>2, <1>4, <1>5, <1>6, <1>7, <1>8

LEMMA ILogBounds ==
  ASSUME NEW x \in 1..Word - 1
  PROVE  ILog(x) \in 1..CodeBits /\ x < Pow[ILog(x)] /\ Pow[ILog(x) - 1] <= x
<1> DEFINE Is(n) == x < Pow[n] /\ (n = 0 \/ Pow[n - 1] <= x)
           T == {k \in Nat : Pow[k] <= x}
<1>1. CodeBits \in Nat /\ x \in Nat /\ x >= 1 /\ x < Pow[CodeBits]
  BY Widths DEF Word
<1>2. \E n \in 0..CodeBits : Is(n)
  <2> SUFFICES ASSUME \A n \in 0..CodeBits : ~Is(n) PROVE FALSE
    OBVIOUS
  <2>1. 0 \in T
    BY <1>1, PowStep
  <2>2. ASSUME NEW k \in 0..CodeBits - 1, k \in T PROVE k + 1 \in T
    <3>1. k + 1 \in 0..CodeBits /\ (k + 1) - 1 = k /\ Pow[k + 1] \in Nat
      BY <1>1, PowPositive
    <3>2. ~(x < Pow[k + 1])
      BY <3>1, <2>2
    <3> QED BY <3>1, <3>2, <1>1
  <2>3. 0..CodeBits \subseteq T
    <3> HIDE DEF T, Is
    <3> QED BY <1>1, <2>1, <2>2, InductionTo
  <2>4. CodeBits \in T
    BY <1>1, <2>3
  <2> QED BY <2>4, <1>1, PowPositive
<1>3. ILog(x) \in 0..CodeBits /\ Is(ILog(x))
  BY <1>2, Zenon DEF ILog
<1>4. ILog(x) # 0
  BY <1>1, <1>3, PowStep
<1> QED BY <1>1, <1>3, <1>4

(***************************************************************************)
(* The coders as records, and the inductive invariant.                     *)
(***************************************************************************)
Contents == UNION {[0..n - 1 -> Nat] : n \in Sizes}

\* The coders as records, whatever they hold; storage is within the buffer.
Records ==
  [buf : Contents, storage : Nat, offs : Nat, endOffs : Nat, endWindow : Nat, nendBits : Nat,
   nbitsTotal : Nat, rng : Nat, val : Nat, ext : Nat, rem : Nat \cup {-1}, error : {-1, 0, 1}]
Holds(rc) == 0..rc.storage - 1 \subseteq DOMAIN rc.buf
Coder == {rc \in Records : Holds(rc)}

\* Bytes that have left val: written, or kept back for a carry.
Pending(rc) == rc.offs + rc.ext + (IF rc.rem >= 0 THEN 1 ELSE 0)

\* Every bit that nbitsTotal counts has its place.
Balanced(rc) ==
  /\ rc.error = 0 /\ rc.offs + rc.endOffs <= rc.storage
  /\ rc.nbitsTotal = CodeBits + 1 + SymBits * (Pending(rc) + rc.endOffs) + rc.nendBits

\* More bits were counted than the buffer has.
Overfull(rc) == rc.nbitsTotal > CodeBits + SymBits * rc.storage

\* The encoder between two symbols.
EncoderOK(rc) ==
  /\ rc \in Coder /\ rc.nendBits <= CodeBits
  /\ rc.rng > CodeBot /\ rc.rng <= CodeTop
  /\ Balanced(rc) \/ Overfull(rc)

\* Until the first byte has left val, the reserved bits at its top are zero.
FlagsAhead ==
  (sent # <<>> /\ sent[1].symbol.op = "flags") =>
    /\ sent[1].symbol.n \in 1..SymBits
    /\ sent[1].symbol.value = 0 /\ enc.rem < 0 => enc.val + enc.rng <= High(CodeTop, sent[1].symbol.n)

Flags == [op : {"flags"}, value : Nat, n : 1..SymBits]
Entries == [symbol : Symbol \cup Flags, rng : Nat, total : Nat]

IInv ==
  /\ phase \in {"write", "read"}
  /\ phase = "write" => EncoderOK(enc) /\ FlagsAhead /\ sent \in Seq(Entries)
  /\ FitMeansWritten

\* n more bytes can be written.
HasRoom(rc, n) == rc.error = 0 /\ rc.offs + rc.endOffs + n <= rc.storage

\* n more bytes can leave val, and they did.
Ready(rc, n) ==
  /\ rc.error = 0 /\ rc.offs + rc.endOffs <= rc.storage
  /\ Pending(rc) + rc.endOffs + n <= rc.storage + 1
Emitted(out, rc, n) ==
  Ready(rc, n) => /\ out.error = 0 /\ out.offs + out.endOffs <= out.storage
                  /\ Pending(out) = Pending(rc) + n

\* What the front of the buffer leaves alone.
SameEnd(a, b) ==
  /\ a.storage = b.storage /\ a.endOffs = b.endOffs
  /\ a.endWindow = b.endWindow /\ a.nendBits = b.nendBits
SameCode(a, b) == a.nbitsTotal = b.nbitsTotal /\ a.rng = b.rng

(***************************************************************************)
(* Bytes at the front.                                                     *)
(***************************************************************************)
LEMMA LowHigh ==
  ASSUME NEW x \in Nat, NEW k \in 0..CodeBits
  PROVE  /\ Low(x, k) \in 0..Pow[k] - 1 /\ High(x, k) \in Nat
         /\ x = Pow[k] * High(x, k) + Low(x, k)
<1>1. Pow[k] \in Nat \ {0}
  BY PowPositive
<1> QED BY <1>1, Division DEF Low, High

LEMMA WriteBuffer ==
  ASSUME NEW f \in Contents, NEW i, NEW b \in Nat
  PROVE  [f EXCEPT ![i] = b] \in Contents /\ DOMAIN [f EXCEPT ![i] = b] = DOMAIN f
  BY DEF Contents

LEMMA CoderFields ==
  ASSUME NEW rc \in Coder, NEW n \in Nat
  PROVE  /\ n <= rc.storage => [rc EXCEPT !.storage = n] \in Coder
         /\ [rc EXCEPT !.offs = n] \in Coder
         /\ [rc EXCEPT !.endOffs = n] \in Coder /\ [rc EXCEPT !.endWindow = n] \in Coder
         /\ [rc EXCEPT !.nendBits = n] \in Coder /\ [rc EXCEPT !.nbitsTotal = n] \in Coder
         /\ [rc EXCEPT !.rng = n] \in Coder /\ [rc EXCEPT !.val = n] \in Coder
         /\ [rc EXCEPT !.ext = n] \in Coder /\ [rc EXCEPT !.rem = n] \in Coder
         /\ \A f \in Contents : DOMAIN f = DOMAIN rc.buf => [rc EXCEPT !.buf = f] \in Coder
         /\ \A e \in {-1, 0, 1} : [rc EXCEPT !.error = e] \in Coder
<1>1. n <= rc.storage => [rc EXCEPT !.storage = n] \in Coder
  BY DEF Coder, Records, Holds
<1>2. [rc EXCEPT !.offs = n] \in Coder
  BY DEF Coder, Records, Holds
<1>3. [rc EXCEPT !.endOffs = n] \in Coder
  BY DEF Coder, Records, Holds
<1>4. [rc EXCEPT !.endWindow = n] \in Coder
  BY DEF Coder, Records, Holds
<1>5. [rc EXCEPT !.nendBits = n] \in Coder
  BY DEF Coder, Records, Holds
<1>6. [rc EXCEPT !.nbitsTotal = n] \in Coder
  BY DEF Coder, Records, Holds
<1>7. [rc EXCEPT !.rng = n] \in Coder
  BY DEF Coder, Records, Holds
<1>8. [rc EXCEPT !.val = n] \in Coder
  BY DEF Coder, Records, Holds
<1>9. [rc EXCEPT !.ext = n] \in Coder
  BY DEF Coder, Records, Holds
<1>10. [rc EXCEPT !.rem = n] \in Coder
  BY DEF Coder, Records, Holds
<1>11. ASSUME NEW f \in Contents, DOMAIN f = DOMAIN rc.buf PROVE [rc EXCEPT !.buf = f] \in Coder
  <2> DEFINE w == [rc EXCEPT !.buf = f]
  <2>1. w \in Records
    BY <1>11 DEF Coder, Records
  <2>2. w.buf = f /\ w.storage = rc.storage
    BY DEF Coder, Records
  <2> HIDE DEF w
  <2>3. Holds(w)
    BY <1>11, <2>2 DEF Coder, Holds
  <2> QED BY <2>1, <2>3 DEF Coder, w
<1>12. ASSUME NEW e \in {-1, 0, 1} PROVE [rc EXCEPT !.error = e] \in Coder
  BY DEF Coder, Records, Holds
<1> QED BY <1>1, <1>2, <1>3, <1>4, <1>5, <1>6, <1>7, <1>8, <1>9, <1>10, <1>11, <1>12

LEMMA CoderTypes ==
  ASSUME NEW rc \in Coder
  PROVE  /\ rc.offs \in Nat /\ rc.ext \in Nat /\ rc.endOffs \in Nat /\ rc.storage \in Nat
         /\ rc.nendBits \in Nat /\ rc.nbitsTotal \in Nat /\ rc.rng \in Nat /\ rc.val \in Nat
         /\ rc.endWindow \in Nat /\ rc.rem \in Nat \cup {-1} /\ rc.error \in {-1, 0, 1}
         /\ rc.buf \in Contents
         /\ Pending(rc) \in Nat /\ rc.offs <= Pending(rc)
<1>1. rc.offs \in Nat /\ rc.ext \in Nat /\ rc.rem \in Nat \cup {-1}
  BY DEF Coder, Records
<1>2. Pending(rc) \in Nat /\ rc.offs <= Pending(rc)
  BY <1>1 DEF Pending
<1> QED BY <1>1, <1>2 DEF Coder, Records

LEMMA WriteByteIs ==
  ASSUME NEW rc \in Coder, NEW b \in 0..SymMax
  PROVE  /\ WriteByte(rc, b) \in Coder
         /\ SameEnd(WriteByte(rc, b), rc) /\ SameCode(WriteByte(rc, b), rc)
         /\ WriteByte(rc, b).val = rc.val /\ WriteByte(rc, b).ext = rc.ext /\ WriteByte(rc, b).rem = rc.rem
         /\ HasRoom(rc, 1) => WriteByte(rc, b).offs = rc.offs + 1 /\ WriteByte(rc, b).error = 0
<1>1. [rc.buf EXCEPT ![rc.offs] = b] \in Contents /\ DOMAIN [rc.buf EXCEPT ![rc.offs] = b] = DOMAIN rc.buf
  <2>1. b \in Nat /\ rc.buf \in Contents
    BY Widths DEF SymMax, Coder, Records
  <2> QED BY <2>1, WriteBuffer
<1>2. CASE Room(rc)
  <2>1. WriteByte(rc, b) = [rc EXCEPT !.buf = [rc.buf EXCEPT ![rc.offs] = b], !.offs = rc.offs + 1]
    BY <1>2 DEF WriteByte
  <2> DEFINE f == [rc.buf EXCEPT ![rc.offs] = b]
             w == [rc EXCEPT !.buf = f, !.offs = rc.offs + 1]
  <2>2. w \in Coder
    <3> DEFINE u == [rc EXCEPT !.buf = f]
    <3>1. u \in Coder
      BY <1>1, CoderFields
    <3>2. rc.offs + 1 \in Nat
      BY DEF Coder, Records
    <3>3. [u EXCEPT !.offs = rc.offs + 1] \in Coder
      <4> HIDE DEF u
      <4> QED BY <3>1, <3>2, CoderFields
    <3>4. w = [u EXCEPT !.offs = rc.offs + 1]
      <4> HIDE DEF f
      <4> QED BY DEF Coder, Records
    <3> QED BY <3>3, <3>4
  <2>3. /\ w.storage = rc.storage /\ w.endOffs = rc.endOffs /\ w.endWindow = rc.endWindow
        /\ w.nendBits = rc.nendBits /\ w.nbitsTotal = rc.nbitsTotal /\ w.rng = rc.rng
        /\ w.val = rc.val /\ w.ext = rc.ext /\ w.rem = rc.rem
        /\ w.offs = rc.offs + 1 /\ w.error = rc.error
    BY DEF Coder, Records
  <2> HIDE DEF w
  <2> QED BY <2>1, <2>2, <2>3 DEF SameEnd, SameCode, HasRoom, w
<1>3. CASE ~Room(rc)
  <2>1. WriteByte(rc, b) = [rc EXCEPT !.error = 1]
    BY <1>3 DEF WriteByte
  <2>2. ~HasRoom(rc, 1)
    BY <1>3 DEF HasRoom, Room, Coder, Records
  <2>3. [rc EXCEPT !.error = 1] \in Coder
    <3>1. 0 \in Nat /\ 1 \in {-1, 0, 1}
      OBVIOUS
    <3> QED BY <3>1, CoderFields
  <2> QED BY <2>1, <2>2, <2>3 DEF SameEnd, SameCode, Coder, Records
<1> QED BY <1>2, <1>3

LEMMA RunOfBytes ==
  ASSUME NEW rc \in Coder, NEW b \in 0..SymMax, NEW n \in Nat
  PROVE  LET out == WriteBytes(rc, b, n)
         IN  /\ out \in Coder
             /\ SameEnd(out, rc) /\ SameCode(out, rc)
             /\ out.val = rc.val /\ out.ext = rc.ext /\ out.rem = rc.rem
             /\ HasRoom(rc, n) => out.offs = rc.offs + n /\ out.error = 0
<1> DEFINE F == [r \in Coder |-> WriteByte(r, b)]
           after == CHOOSE f : f = [i \in 0..n |-> IF i = 0 THEN rc ELSE WriteByte(f[i - 1], b)]
           OK(i) == /\ SameEnd(after[i], rc) /\ SameCode(after[i], rc)
                    /\ after[i].val = rc.val /\ after[i].ext = rc.ext /\ after[i].rem = rc.rem
                    /\ HasRoom(rc, n) => after[i].offs = rc.offs + i /\ after[i].error = 0
           T == {i \in Nat : after[i] \in Coder /\ OK(i)}
<1>1. PICK run \in [0..n -> Coder] : IsRun(run, rc, F, n)
  <2>1. F \in [Coder -> Coder]
    BY WriteByteIs
  <2> HIDE DEF F
  <2> QED BY <2>1, Runs
<1>2. run = [i \in 0..n |-> IF i = 0 THEN rc ELSE WriteByte(run[i - 1], b)]
  <2>1. ASSUME NEW i \in 1..n PROVE run[i] = WriteByte(run[i - 1], b)
    <3>1. run[i - 1] \in Coder /\ run[i] = F[run[i - 1]]
      BY <1>1 DEF IsRun
    <3> QED BY <3>1
  <2>2. run[0] = rc
    BY <1>1 DEF IsRun
  <2>3. \A i \in 0..n : run[i] = IF i = 0 THEN rc ELSE WriteByte(run[i - 1], b)
    BY <2>1, <2>2
  <2> QED BY <2>3
<1>3. after = [i \in 0..n |-> IF i = 0 THEN rc ELSE WriteByte(after[i - 1], b)]
  BY <1>2, Zenon
<1> HIDE DEF after
<1>4. 0 \in T
  BY <1>3 DEF SameEnd, SameCode, HasRoom, Coder, Records
<1>5. ASSUME NEW i \in 0..n - 1, i \in T PROVE i + 1 \in T
  <2>1. after[i + 1] = WriteByte(after[i], b)
    BY <1>3
  <2>2. after[i] \in Coder /\ OK(i)
    BY <1>5
  <2> DEFINE r == after[i]
             w == WriteByte(r, b)
  <2>3. HasRoom(rc, n) => HasRoom(r, 1)
    <3>1. i + 1 <= n /\ i \in Nat /\ r.endOffs = rc.endOffs /\ r.storage = rc.storage
      BY <2>2 DEF SameEnd
    <3>2. rc.offs \in Nat /\ rc.endOffs \in Nat /\ rc.storage \in Nat
      BY DEF Coder, Records
    <3> HIDE DEF r
    <3> QED BY <2>2, <3>1, <3>2, SMTT(60) DEF HasRoom, r
  <2>4. /\ w \in Coder /\ SameEnd(w, r) /\ SameCode(w, r)
        /\ w.val = r.val /\ w.ext = r.ext /\ w.rem = r.rem
        /\ HasRoom(r, 1) => w.offs = r.offs + 1 /\ w.error = 0
    BY <2>2, WriteByteIs
  <2>5. HasRoom(rc, n) => w.offs = rc.offs + (i + 1) /\ w.error = 0
    <3>1. rc.offs \in Nat /\ i \in Nat
      BY DEF Coder, Records
    <3> QED BY <2>2, <2>3, <2>4, <3>1, SMTT(60)
  <2>6. SameEnd(w, rc) /\ SameCode(w, rc)
    BY <2>2, <2>4 DEF SameEnd, SameCode
  <2> QED BY <2>1, <2>2, <2>4, <2>5, <2>6
<1>6. 0..n \subseteq T
  <2> HIDE DEF T
  <2> QED BY <1>4, <1>5, InductionTo
<1>7. after[n] \in Coder /\ OK(n)
  BY <1>6
<1>8. WriteBytes(rc, b, n) = after[n]
  BY Zenon DEF WriteBytes, Repeat, after
<1> QED BY <1>7, <1>8

LEMMA CarryOutIs ==
  ASSUME NEW rc \in Coder, NEW c \in Nat
  PROVE  LET out == CarryOut(rc, c)
         IN  /\ out \in Coder
             /\ SameEnd(out, rc) /\ SameCode(out, rc) /\ out.val = rc.val
             /\ (rc.rem >= 0 \/ c # SymMax) => out.rem >= 0
             /\ c # SymMax => out.ext = 0
             /\ Emitted(out, rc, 1)
<1> DEFINE carry == High(c, SymBits)
           first == IF rc.rem >= 0 THEN WriteByte(rc, Low(rc.rem + carry, SymBits)) ELSE rc
           b == Low(SymMax + carry, SymBits)
           chain == WriteBytes(first, b, rc.ext)
<1>1. SymBits \in 0..CodeBits /\ SymMax \in Nat /\ Pow[SymBits] - 1 = SymMax
  BY Widths DEF SymMax
<1>2. carry \in Nat /\ Low(c, SymBits) \in 0..SymMax
  BY <1>1, LowHigh
<1>3. b \in 0..SymMax
  <2>1. SymMax + carry \in Nat
    BY <1>1, <1>2
  <2> QED BY <1>1, <2>1, LowHigh
<1>4. /\ rc.ext \in Nat /\ rc.offs \in Nat /\ rc.endOffs \in Nat /\ rc.storage \in Nat
      /\ rc.rem \in Nat \cup {-1}
  BY DEF Coder, Records
<1>5. CASE c = SymMax
  <2>1. CarryOut(rc, c) = [rc EXCEPT !.ext = rc.ext + 1]
    BY <1>5 DEF CarryOut
  <2> DEFINE w == [rc EXCEPT !.ext = rc.ext + 1]
  <2>2. w \in Coder
    <3>1. rc.ext + 1 \in Nat
      BY <1>4
    <3> QED BY <3>1, CoderFields
  <2>3. /\ SameEnd(w, rc) /\ SameCode(w, rc) /\ w.val = rc.val /\ w.rem = rc.rem
        /\ w.error = rc.error /\ w.offs = rc.offs /\ w.ext = rc.ext + 1
        /\ w.endOffs = rc.endOffs /\ w.storage = rc.storage
    BY DEF Coder, Records, SameEnd, SameCode
  <2> HIDE DEF w
  <2>4. Ready(rc, 1) => Pending(w) = Pending(rc) + 1 /\ w.offs + w.endOffs <= w.storage
    BY <2>3, <1>4 DEF Pending, Ready
  <2> QED BY <1>5, <2>1, <2>2, <2>3, <2>4 DEF w, Emitted, Ready
<1>6. CASE c # SymMax
  <2> DEFINE n == IF rc.rem >= 0 THEN 1 ELSE 0
  <2>1. /\ first \in Coder /\ SameEnd(first, rc) /\ SameCode(first, rc)
        /\ first.val = rc.val /\ first.ext = rc.ext /\ first.rem = rc.rem
        /\ HasRoom(rc, n) => first.offs = rc.offs + n /\ first.error = 0
    <3>1. CASE rc.rem >= 0
      <4>1. rc.rem + carry \in Nat
        BY <1>2, <1>4, <3>1
      <4>2. Low(rc.rem + carry, SymBits) \in 0..SymMax
        BY <1>1, <4>1, LowHigh
      <4>3. first = WriteByte(rc, Low(rc.rem + carry, SymBits)) /\ n = 1
        BY <3>1
      <4> HIDE DEF first, n
      <4> QED BY <4>2, <4>3, WriteByteIs
    <3>2. CASE ~(rc.rem >= 0)
      <4>1. first = rc /\ n = 0
        BY <3>2
      <4> HIDE DEF first, n
      <4> QED BY <4>1, <1>4 DEF SameEnd, SameCode, HasRoom
    <3> QED BY <3>1, <3>2
  <2> HIDE DEF first, b
  <2>2. /\ chain \in Coder /\ SameEnd(chain, first) /\ SameCode(chain, first)
        /\ chain.val = first.val
        /\ HasRoom(first, rc.ext) => chain.offs = first.offs + rc.ext /\ chain.error = 0
    BY <1>3, <1>4, <2>1, RunOfBytes, ZenonT(60)
  <2> DEFINE u == [chain EXCEPT !.ext = 0]
             w == [chain EXCEPT !.ext = 0, !.rem = Low(c, SymBits)]
  <2>3. CarryOut(rc, c) = w
    BY <1>6 DEF CarryOut, first, b
  <2> HIDE DEF chain
  <2>4. w \in Coder
    <3>1. u \in Coder
      BY <2>2, CoderFields
    <3>2. w = [u EXCEPT !.rem = Low(c, SymBits)]
      BY <2>2 DEF Coder, Records
    <3>3. Low(c, SymBits) \in Nat
      BY <1>2
    <3>4. [u EXCEPT !.rem = Low(c, SymBits)] \in Coder
      <4> HIDE DEF u
      <4> QED BY <3>1, <3>3, CoderFields
    <3> QED BY <3>2, <3>4
  <2>5. /\ w.storage = chain.storage /\ w.endOffs = chain.endOffs
        /\ w.endWindow = chain.endWindow /\ w.nendBits = chain.nendBits
        /\ w.nbitsTotal = chain.nbitsTotal /\ w.rng = chain.rng /\ w.val = chain.val
        /\ w.offs = chain.offs /\ w.error = chain.error /\ w.ext = 0 /\ w.rem = Low(c, SymBits)
    BY <2>2 DEF Coder, Records
  <2> HIDE DEF w
  <2>6. SameEnd(w, rc) /\ SameCode(w, rc) /\ w.val = rc.val
    BY <2>1, <2>2, <2>5 DEF SameEnd, SameCode
  <2>7. w.rem >= 0
    BY <1>2, <2>5, <1>1
  <2>8. ASSUME Ready(rc, 1) PROVE w.error = 0 /\ Pending(w) = Pending(rc) + 1 /\ w.offs + w.endOffs <= w.storage
    <3>1. n \in {0, 1} /\ Pending(rc) = rc.offs + rc.ext + n
      BY DEF Pending
    <3> HIDE DEF n
    <3>2. HasRoom(rc, n) /\ first.offs = rc.offs + n /\ first.error = 0
      BY <1>4, <2>1, <2>8, <3>1 DEF HasRoom, Ready
    <3>3. HasRoom(first, rc.ext)
      BY <1>4, <2>1, <2>8, <3>1, <3>2 DEF HasRoom, SameEnd, Ready
    <3>4. w.error = 0 /\ w.offs = rc.offs + n + rc.ext
      BY <2>2, <2>5, <3>2, <3>3
    <3>5. Pending(w) = w.offs + 1
      BY <2>5, <2>7, <2>4 DEF Pending, Coder, Records
    <3>6. w.endOffs = rc.endOffs /\ w.storage = rc.storage
      BY <2>6 DEF SameEnd
    <3> QED BY <1>4, <2>8, <3>1, <3>4, <3>5, <3>6 DEF Ready
  <2> QED BY <2>3, <2>4, <2>5, <2>6, <2>7, <2>8 DEF Emitted
<1> QED BY <1>5, <1>6

LEMMA ShiftOutIs ==
  ASSUME NEW rc \in Coder
  PROVE  LET out == ShiftOut(rc)
         IN  /\ out \in Coder
             /\ SameEnd(out, rc) /\ SameCode(out, rc) /\ out.val < CodeTop
             /\ (rc.rem >= 0 \/ High(rc.val, CodeShift) # SymMax) => out.rem >= 0
             /\ Emitted(out, rc, 1)
<1> DEFINE c == High(rc.val, CodeShift)
           v == Low(rc.val * Pow[SymBits], CodeBits - 1)
           e == CarryOut(rc, c)
           w == [e EXCEPT !.val = v]
<1>1. rc.val \in Nat
  BY DEF Coder, Records
<1>2. c \in Nat
  <2>1. CodeShift \in 0..CodeBits
    BY Widths
  <2> QED BY <1>1, <2>1, LowHigh
<1>3. v \in 0..CodeTop - 1
  <2>1. rc.val * Pow[SymBits] \in Nat
    BY <1>1, Widths
  <2>2. CodeBits - 1 \in 0..CodeBits
    BY Widths
  <2> QED BY <2>1, <2>2, LowHigh DEF CodeTop
<1>4. v \in Nat /\ v < CodeTop
  BY <1>3, Widths
<1>5. /\ e \in Coder /\ SameEnd(e, rc) /\ SameCode(e, rc)
      /\ (rc.rem >= 0 \/ c # SymMax) => e.rem >= 0
      /\ Emitted(e, rc, 1)
  BY <1>2, CarryOutIs
<1>6. ShiftOut(rc) = w
  BY DEF ShiftOut
<1> HIDE DEF e, v
<1>7. w \in Coder
  BY <1>4, <1>5, CoderFields
<1>8. /\ w.storage = e.storage /\ w.endOffs = e.endOffs /\ w.endWindow = e.endWindow
      /\ w.nendBits = e.nendBits /\ w.nbitsTotal = e.nbitsTotal /\ w.rng = e.rng
      /\ w.offs = e.offs /\ w.error = e.error /\ w.ext = e.ext /\ w.rem = e.rem /\ w.val = v
  BY <1>5 DEF Coder, Records
<1> HIDE DEF w
<1>9. SameEnd(w, rc) /\ SameCode(w, rc)
  BY <1>5, <1>8 DEF SameEnd, SameCode
<1>10. Emitted(w, rc, 1)
  BY <1>5, <1>8 DEF Emitted, Pending
<1> QED BY <1>4, <1>5, <1>6, <1>7, <1>8, <1>9, <1>10

LEMMA ShiftOutRuns ==
  ASSUME NEW rc \in Coder, NEW n \in Nat
  PROVE  LET out == Repeat(ShiftOut, rc, n)
         IN  out \in Coder /\ SameEnd(out, rc) /\ SameCode(out, rc) /\ Emitted(out, rc, n)
<1> DEFINE F == [r \in Coder |-> ShiftOut(r)]
           after == CHOOSE f : f = [i \in 0..n |-> IF i = 0 THEN rc ELSE ShiftOut(f[i - 1])]
           OK(i) == SameEnd(after[i], rc) /\ SameCode(after[i], rc) /\ (Ready(rc, n) => Emitted(after[i], rc, i))
           T == {i \in Nat : after[i] \in Coder /\ OK(i)}
<1>1. PICK run \in [0..n -> Coder] : IsRun(run, rc, F, n)
  <2>1. F \in [Coder -> Coder]
    BY ShiftOutIs
  <2> HIDE DEF F
  <2> QED BY <2>1, Runs
<1>2. run = [i \in 0..n |-> IF i = 0 THEN rc ELSE ShiftOut(run[i - 1])]
  <2>1. ASSUME NEW i \in 1..n PROVE run[i] = ShiftOut(run[i - 1])
    <3>1. run[i - 1] \in Coder /\ run[i] = F[run[i - 1]]
      BY <1>1 DEF IsRun
    <3> QED BY <3>1
  <2>2. run[0] = rc
    BY <1>1 DEF IsRun
  <2>3. \A i \in 0..n : run[i] = IF i = 0 THEN rc ELSE ShiftOut(run[i - 1])
    BY <2>1, <2>2
  <2> QED BY <2>3
<1>3. after = [i \in 0..n |-> IF i = 0 THEN rc ELSE ShiftOut(after[i - 1])]
  BY <1>2, Zenon
<1> HIDE DEF after
<1>4. 0 \in T
  <2>1. after[0] = rc
    BY <1>3
  <2>2. SameEnd(rc, rc) /\ SameCode(rc, rc)
    BY DEF SameEnd, SameCode
  <2>3. Pending(rc) \in Nat
    BY CoderTypes
  <2>4. Ready(rc, n) => Emitted(rc, rc, 0)
    BY <2>3 DEF Ready, Emitted
  <2> QED BY <2>1, <2>2, <2>4
<1>5. ASSUME NEW i \in 0..n - 1, i \in T PROVE i + 1 \in T
  <2> DEFINE r == after[i]
             w == ShiftOut(r)
  <2>1. after[i + 1] = w
    BY <1>3
  <2>2. r \in Coder /\ OK(i)
    BY <1>5
  <2>3. w \in Coder /\ SameEnd(w, r) /\ SameCode(w, r) /\ Emitted(w, r, 1)
    BY <2>2, ShiftOutIs
  <2> HIDE DEF w
  <2>4. SameEnd(w, rc) /\ SameCode(w, rc)
    BY <2>2, <2>3 DEF SameEnd, SameCode
  <2>5. ASSUME Ready(rc, n) PROVE Emitted(w, rc, i + 1)
    <3>1. i \in Nat /\ i + 1 <= n /\ rc.offs \in Nat /\ rc.ext \in Nat /\ rc.endOffs \in Nat /\ rc.storage \in Nat
      BY DEF Coder, Records
    <3>2. Pending(rc) \in Nat
      BY <3>1 DEF Pending
    <3>3. Ready(rc, i) /\ Ready(rc, i + 1)
      BY <2>5, <3>1, <3>2, SMTT(60) DEF Ready
    <3>4. r.error = 0 /\ r.offs + r.endOffs <= r.storage /\ Pending(r) = Pending(rc) + i
      BY <2>2, <2>5, <3>3 DEF Emitted
    <3>5. Ready(r, 1)
      BY <2>2, <2>5, <3>1, <3>2, <3>4, SMTT(60) DEF Ready, SameEnd
    <3>6. w.error = 0 /\ w.offs + w.endOffs <= w.storage /\ Pending(w) = Pending(r) + 1
      BY <2>3, <3>5 DEF Emitted
    <3> QED BY <3>1, <3>2, <3>4, <3>6 DEF Emitted
  <2> QED BY <2>1, <2>2, <2>3, <2>4, <2>5
<1>6. 0..n \subseteq T
  <2> HIDE DEF T
  <2> QED BY <1>4, <1>5, InductionTo
<1>7. after[n] \in Coder /\ OK(n)
  BY <1>6
<1>8. Repeat(ShiftOut, rc, n) = after[n]
  BY Zenon DEF Repeat, after
<1> QED BY <1>7, <1>8 DEF Emitted

(***************************************************************************)
(* Normalisation: the account of bits stays balanced, and no more rounds   *)
(* than Rounds are needed.                                                 *)
(***************************************************************************)
Accounted(rc) == Balanced(rc) \/ Overfull(rc)
RoundOK(rc) == rc \in Coder /\ rc.rng \in 1..CodeTop /\ Accounted(rc)

\* A byte that leaves val takes its bits from the account.
LEMMA ByteCounted ==
  ASSUME NEW rc \in Coder, NEW out \in Coder, SameEnd(out, rc), Emitted(out, rc, 1), Accounted(rc),
         out.nbitsTotal = rc.nbitsTotal + SymBits
  PROVE  Accounted(out)
<1> DEFINE p == Pending(rc) + rc.endOffs
<1>1. /\ rc.offs \in Nat /\ rc.endOffs \in Nat /\ rc.storage \in Nat /\ rc.nendBits \in Nat
      /\ rc.nbitsTotal \in Nat /\ p \in Nat /\ rc.offs <= Pending(rc) /\ Pending(rc) \in Nat
  BY CoderTypes
<1>2. SymBits \in Nat \ {0} /\ CodeBits \in Nat
  BY Widths
<1>3. out.storage = rc.storage /\ out.endOffs = rc.endOffs /\ out.nendBits = rc.nendBits
  BY DEF SameEnd
<1>4. SymBits * rc.storage \in Nat /\ SymBits * p \in Nat
  BY <1>1, <1>2
<1>5. CASE Overfull(rc)
  BY <1>1, <1>2, <1>3, <1>4, <1>5 DEF Overfull, Accounted
<1>6. CASE Balanced(rc) /\ p <= rc.storage
  <2>1. Ready(rc, 1)
    BY <1>1, <1>6 DEF Ready, Balanced
  <2>2. out.error = 0 /\ out.offs + out.endOffs <= out.storage /\ Pending(out) = Pending(rc) + 1
    BY <2>1 DEF Emitted
  <2>3. Pending(out) + out.endOffs = p + 1
    BY <1>1, <1>3, <2>2
  <2>4. SymBits * (p + 1) = SymBits * p + SymBits
    BY <1>1, <1>2
  <2>5. rc.nbitsTotal = CodeBits + 1 + SymBits * p + rc.nendBits
    BY <1>6 DEF Balanced
  <2>6. out.nbitsTotal = CodeBits + 1 + SymBits * (p + 1) + out.nendBits
    <3> DEFINE x == SymBits * p
    <3> HIDE DEF x, p
    <3>1. SymBits * (p + 1) = x + SymBits /\ rc.nbitsTotal = CodeBits + 1 + x + rc.nendBits /\ x \in Nat
      BY <2>4, <2>5, <1>4 DEF x
    <3> QED BY <3>1, <1>1, <1>2, <1>3
  <2> QED BY <2>2, <2>3, <2>6 DEF Balanced, Accounted
<1>7. CASE Balanced(rc) /\ p > rc.storage
  <2> DEFINE x == SymBits * rc.storage
             y == SymBits * p
  <2>1. y > x
    <3>1. p - rc.storage \in Nat /\ p - rc.storage > 0 /\ rc.storage + (p - rc.storage) = p
      BY <1>1, <1>7
    <3> HIDE DEF p
    <3> QED BY <1>1, <1>2, <3>1, Product
  <2>2. rc.nbitsTotal = CodeBits + 1 + y + rc.nendBits
    BY <1>7 DEF Balanced
  <2>3. x \in Nat /\ y \in Nat
    BY <1>4
  <2> HIDE DEF x, y
  <2>4. out.nbitsTotal > CodeBits + x
    BY <1>1, <1>2, <2>1, <2>2, <2>3
  <2> QED BY <1>3, <2>4 DEF Overfull, Accounted, x
<1> QED BY <1>1, <1>5, <1>6, <1>7 DEF Accounted

LEMMA EncoderRoundIs ==
  ASSUME NEW rc, RoundOK(rc)
  PROVE  LET out == EncoderRound(rc)
         IN  /\ RoundOK(out) /\ SameEnd(out, rc) /\ out.nbitsTotal >= rc.nbitsTotal
             /\ rc.rng > CodeBot => out = rc
             /\ rc.rng <= CodeBot => out.rng = rc.rng * Pow[SymBits]
             /\ rc.rem >= 0 => out.rem >= 0
             /\ (rc.rng <= CodeBot /\ High(rc.val, CodeShift) # SymMax) => out.rem >= 0
<1>1. rc \in Coder /\ rc.rng \in Nat /\ rc.rng >= 1 /\ rc.rng <= CodeTop /\ Accounted(rc) /\ rc.nbitsTotal \in Nat
  BY CoderTypes, Widths DEF RoundOK
<1>2. CASE rc.rng > CodeBot
  <2>1. EncoderRound(rc) = rc
    BY <1>2 DEF EncoderRound
  <2> QED BY <1>1, <1>2, <2>1, Widths DEF SameEnd
<1>3. CASE ~(rc.rng > CodeBot)
  <2> DEFINE e == ShiftOut(rc)
             n == e.nbitsTotal + SymBits
             g == e.rng * Pow[SymBits]
             u == [e EXCEPT !.rng = g]
             w == [e EXCEPT !.rng = g, !.nbitsTotal = n]
  <2>1. EncoderRound(rc) = w
    BY <1>3 DEF EncoderRound
  <2>2. /\ e \in Coder /\ SameEnd(e, rc) /\ SameCode(e, rc)
        /\ (rc.rem >= 0 \/ High(rc.val, CodeShift) # SymMax) => e.rem >= 0
        /\ Emitted(e, rc, 1)
    BY <1>1, ShiftOutIs
  <2> HIDE DEF e
  <2>3. e.rng = rc.rng /\ e.nbitsTotal = rc.nbitsTotal
    BY <2>2 DEF SameCode
  <2>4. g \in Nat /\ g >= 1 /\ g <= CodeTop /\ g = rc.rng * Pow[SymBits]
    <3>1. rc.rng <= CodeBot
      BY <1>1, <1>3, Widths
    <3>2. \A a \in Nat, b \in Nat, p \in Nat : a >= 1 /\ p >= 2 /\ a <= b => a * p \in Nat /\ a * p >= 1 /\ a * p <= b * p
      OBVIOUS
    <3> QED BY <1>1, <2>3, <3>1, <3>2, Widths
  <2>5. n \in Nat /\ n = rc.nbitsTotal + SymBits /\ n >= rc.nbitsTotal
    BY <1>1, <2>3, Widths
  <2> HIDE DEF g, n
  <2>6. w \in Coder
    <3>1. u \in Coder
      BY <2>2, <2>4, CoderFields
    <3>2. [u EXCEPT !.nbitsTotal = n] \in Coder
      <4> HIDE DEF u
      <4> QED BY <3>1, <2>5, CoderFields
    <3>3. w = [u EXCEPT !.nbitsTotal = n]
      BY <2>2 DEF Coder, Records
    <3> QED BY <3>2, <3>3
  <2>7. /\ w.storage = e.storage /\ w.endOffs = e.endOffs /\ w.endWindow = e.endWindow
        /\ w.nendBits = e.nendBits /\ w.nbitsTotal = n /\ w.rng = g
        /\ w.offs = e.offs /\ w.error = e.error /\ w.ext = e.ext /\ w.rem = e.rem
    BY <2>2 DEF Coder, Records
  <2> HIDE DEF w
  <2>8. SameEnd(w, rc)
    BY <2>2, <2>7 DEF SameEnd
  <2>9. Emitted(w, rc, 1)
    BY <2>2, <2>7 DEF Emitted, Pending
  <2>10. Accounted(w)
    BY <1>1, <2>5, <2>6, <2>7, <2>8, <2>9, ByteCounted
  <2>11. RoundOK(w)
    BY <2>4, <2>6, <2>7, <2>10, Widths DEF RoundOK
  <2> QED BY <1>3, <2>1, <2>2, <2>4, <2>5, <2>7, <2>8, <2>11
<1> QED BY <1>2, <1>3

\* Rounds is enough for any range that is not empty.
LEMMA RoundsSuffice ==
  /\ Rounds \in Nat
  /\ SymBits * Rounds > CodeBits
<1>1. CodeBits \in Nat /\ SymBits \in Nat \ {0}
  BY Widths
<1> DEFINE q == CodeBits \div SymBits
           m == CodeBits % SymBits
<1>2. q \in Nat /\ m \in 0..SymBits - 1 /\ CodeBits = SymBits * q + m
  BY <1>1, Division
<1>3. Rounds = q + 1
  BY DEF Rounds
<1> HIDE DEF q, m
<1>4. SymBits * (q + 1) = SymBits * q + SymBits /\ SymBits * q \in Nat
  BY <1>1, <1>2
<1> QED BY <1>1, <1>2, <1>3, <1>4

\* The range grows by a byte with every round, or is large enough.
Grown(rc, i) ==
  rc.rng > CodeBot \/ (SymBits * i <= CodeBits /\ rc.rng >= Pow[SymBits * i])

LEMMA RangeGrows ==
  ASSUME NEW rc, RoundOK(rc), NEW i \in Nat, Grown(rc, i)
  PROVE  Grown(EncoderRound(rc), i + 1)
<1> DEFINE out == EncoderRound(rc)
<1>1. CASE rc.rng > CodeBot
  BY <1>1, EncoderRoundIs DEF Grown
<1>2. CASE ~(rc.rng > CodeBot)
  <2> DEFINE k == SymBits * i
  <2>1. k \in Nat /\ SymBits * (i + 1) = k + SymBits
    BY Widths
  <2>2. k <= CodeBits /\ rc.rng >= Pow[k]
    BY <1>2 DEF Grown
  <2> HIDE DEF k
  <2>3. rc.rng \in Nat /\ rc.rng <= CodeBot
    BY <1>2, Widths DEF RoundOK
  <2>4. out.rng = rc.rng * Pow[SymBits]
    BY <2>3, EncoderRoundIs
  <2>5. Pow[k] \in Nat
    BY <2>1, <2>2, Widths, PowPositive
  <2>6. CASE k + SymBits <= CodeBits
    <3>1. Pow[k + SymBits] = Pow[k] * Pow[SymBits]
      BY <2>1, <2>6, Widths, PowSum
    <3>2. \A a \in Nat, b \in Nat, p \in Nat : a >= b => a * p >= b * p
      OBVIOUS
    <3>3. rc.rng * Pow[SymBits] >= Pow[k] * Pow[SymBits]
      BY <2>2, <2>3, <2>5, <3>2, Widths
    <3> QED BY <2>1, <2>4, <2>6, <3>1, <3>3 DEF Grown
  <2>7. CASE ~(k + SymBits <= CodeBits)
    <3>1. CodeBits - 1 - SymBits < k /\ CodeBits - 1 - SymBits \in 0..CodeBits /\ k \in 0..CodeBits
      BY <2>1, <2>2, <2>7, Widths
    <3>2. 2 * CodeBot <= Pow[k]
      BY <3>1, PowOrder DEF CodeBot
    <3> QED BY <2>2, <2>3, <2>5, <3>2, Widths
  <2> QED BY <2>6, <2>7
<1> QED BY <1>1, <1>2

LEMMA NormalizeEncoderIs ==
  ASSUME NEW rc, RoundOK(rc)
  PROVE  LET out == NormalizeEncoder(rc)
         IN  /\ RoundOK(out) /\ SameEnd(out, rc) /\ out.nbitsTotal >= rc.nbitsTotal
             /\ out.rng > CodeBot
             /\ rc.rem >= 0 => out.rem >= 0
             /\ out.rem < 0 /\ High(rc.val, CodeShift) # SymMax => out = rc
<1> DEFINE X == {r \in Coder : RoundOK(r)}
           F == [r \in X |-> EncoderRound(r)]
           n == Rounds
           after == CHOOSE f : f = [i \in 0..n |-> IF i = 0 THEN rc ELSE EncoderRound(f[i - 1])]
           OK(r, i) == /\ SameEnd(r, rc) /\ r.nbitsTotal >= rc.nbitsTotal /\ Grown(r, i)
                       /\ rc.rem >= 0 => r.rem >= 0
                       /\ High(rc.val, CodeShift) # SymMax => r.rem >= 0 \/ r = rc
           T == {i \in Nat : RoundOK(after[i]) /\ OK(after[i], i)}
<1>1. n \in Nat
  BY RoundsSuffice
<1>2. PICK run \in [0..n -> X] : IsRun(run, rc, F, n)
  <2>1. ASSUME NEW r \in X PROVE EncoderRound(r) \in X
    BY EncoderRoundIs DEF RoundOK
  <2>2. rc \in X
    BY DEF RoundOK
  <2>3. F \in [X -> X]
    BY <2>1
  <2> HIDE DEF F, X, n
  <2> QED BY <1>1, <2>2, <2>3, Runs
<1>3. run = [i \in 0..n |-> IF i = 0 THEN rc ELSE EncoderRound(run[i - 1])]
  <2> HIDE DEF n
  <2>1. ASSUME NEW i \in 1..n PROVE run[i] = EncoderRound(run[i - 1])
    <3>1. i - 1 \in 0..n
      BY <1>1
    <3>2. run[i - 1] \in X /\ run[i] = F[run[i - 1]]
      BY <1>2, <3>1 DEF IsRun
    <3> HIDE DEF X
    <3> QED BY <3>2
  <2>2. run[0] = rc
    BY <1>2 DEF IsRun
  <2>3. \A i \in 0..n : run[i] = IF i = 0 THEN rc ELSE EncoderRound(run[i - 1])
    BY <1>1, <2>1, <2>2
  <2>4. run = [i \in 0..n |-> run[i]]
    <3> HIDE DEF X
    <3> QED BY <1>2
  <2> QED BY <2>3, <2>4
<1>4. after = [i \in 0..n |-> IF i = 0 THEN rc ELSE EncoderRound(after[i - 1])]
  BY <1>3, Zenon
<1> HIDE DEF after, n
<1>5. 0 \in T
  <2>1. after[0] = rc
    BY <1>1, <1>4
  <2>2. rc.rng >= 1 /\ SymBits * 0 = 0 /\ Pow[0] = 1 /\ CodeBits \in Nat /\ rc.nbitsTotal \in Nat /\ rc \in Coder
    BY PowStep, Widths, CoderTypes, SMTT(60) DEF RoundOK
  <2>3. OK(rc, 0)
    BY <2>2 DEF SameEnd, Grown
  <2> QED BY <2>1, <2>3
<1>6. ASSUME NEW i \in 0..n - 1, i \in T PROVE i + 1 \in T
  <2> DEFINE r == after[i]
             w == EncoderRound(r)
  <2>1. after[i + 1] = w
    BY <1>1, <1>4
  <2>2. RoundOK(r) /\ OK(r, i) /\ i \in Nat
    BY <1>1, <1>6
  <2>3. /\ RoundOK(w) /\ SameEnd(w, r) /\ w.nbitsTotal >= r.nbitsTotal
        /\ r.rng > CodeBot => w = r
        /\ r.rem >= 0 => w.rem >= 0
        /\ (r.rng <= CodeBot /\ High(r.val, CodeShift) # SymMax) => w.rem >= 0
    BY <2>2, EncoderRoundIs
  <2>4. Grown(w, i + 1)
    BY <2>2, RangeGrows
  <2>5. SameEnd(w, rc)
    BY <2>2, <2>3 DEF SameEnd
  <2>6. w.nbitsTotal >= rc.nbitsTotal
    <3>1. w.nbitsTotal \in Nat /\ r.nbitsTotal \in Nat /\ rc.nbitsTotal \in Nat
      BY <2>2, <2>3, CoderTypes DEF RoundOK
    <3> QED BY <2>2, <2>3, <3>1
  <2>7. High(rc.val, CodeShift) # SymMax => w.rem >= 0 \/ w = rc
    <3>1. r.rng > CodeBot \/ r.rng <= CodeBot
      BY <2>2, Widths, SMTT(60) DEF RoundOK
    <3> HIDE DEF r, w
    <3> QED BY <2>2, <2>3, <3>1, SMTT(60)
  <2> HIDE DEF w
  <2>8. OK(w, i + 1)
    BY <2>2, <2>3, <2>4, <2>5, <2>6, <2>7
  <2>9. i + 1 \in Nat
    BY <2>2
  <2> HIDE DEF OK
  <2> QED BY <2>1, <2>3, <2>8, <2>9
<1>7. 0..n \subseteq T
  <2> HIDE DEF T
  <2> QED BY <1>1, <1>5, <1>6, InductionTo
<1>8. RoundOK(after[n]) /\ OK(after[n], n)
  BY <1>1, <1>7
<1>9. NormalizeEncoder(rc) = after[n]
  BY Zenon DEF NormalizeEncoder, Repeat, after, n
<1>10. after[n].rng > CodeBot
  <2>1. ~(SymBits * n <= CodeBits)
    BY RoundsSuffice, Widths DEF n
  <2> QED BY <1>8, <2>1 DEF Grown
<1>11. after[n].rem < 0 => ~(after[n].rem >= 0)
  <2>1. after[n] \in Coder
    BY <1>8 DEF RoundOK
  <2>2. after[n].rem \in Nat \cup {-1}
    BY <2>1, CoderTypes
  <2> QED BY <2>2
<1> QED BY <1>8, <1>9, <1>10, <1>11

(***************************************************************************)
(* Range-coded symbols: the interval after one lies in the interval before.*)
(***************************************************************************)
Ahead(rc, n) == rc.rem < 0 => rc.val + rc.rng <= High(CodeTop, n)

Coded(out, rc) ==
  /\ EncoderOK(out) /\ SameEnd(out, rc) /\ out.nbitsTotal >= rc.nbitsTotal
  /\ \A n \in 1..SymBits : Ahead(rc, n) => Ahead(out, n)

LEMMA OKTypes ==
  ASSUME NEW rc, EncoderOK(rc)
  PROVE  /\ rc \in Coder /\ rc.val \in Nat /\ rc.rng \in Nat /\ rc.nbitsTotal \in Nat
         /\ rc.rng > CodeBot /\ rc.rng <= CodeTop /\ rc.rng >= 1 /\ rc.rng < Word
         /\ rc.nendBits <= CodeBits /\ rc.rem \in Nat \cup {-1}
<1>1. rc \in Coder /\ rc.rng > CodeBot /\ rc.rng <= CodeTop /\ rc.nendBits <= CodeBits
  BY DEF EncoderOK
<1> QED BY <1>1, CoderTypes, Widths

\* Below half the code space, the byte that leaves val is not 0xFF.
LEMMA NoPendingByte ==
  ASSUME NEW x \in Nat, NEW n \in 1..SymBits, x < High(CodeTop, n)
  PROVE  High(CodeTop, n) < CodeTop /\ High(x, CodeShift) # SymMax
<1>1. /\ CodeTop \in Nat /\ CodeTop > 0 /\ SymBits \in Nat /\ CodeBits \in Nat /\ SymBits <= CodeBits /\ CodeShift \in 0..CodeBits
      /\ CodeShift + SymBits = CodeBits - 1 /\ SymMax = Pow[SymBits] - 1
  BY Widths DEF SymMax
<1>2. Pow[n] \in Nat /\ Pow[n] >= 2
  <2>1. n \in 0..CodeBits /\ 1 \in 0..CodeBits /\ 0 \in 0..CodeBits /\ 1 <= n
    BY <1>1
  <2>2. Pow[1] = 2 * Pow[1 - 1] /\ Pow[0] = 1
    BY <1>1, PowStep
  <2> QED BY <2>1, <2>2, PowOrder, PowPositive
<1> DEFINE p == Pow[n]
           h == CodeTop \div p
<1>3. h \in Nat /\ CodeTop = p * h + (CodeTop % p) /\ CodeTop % p \in Nat
  <2>1. p \in Nat \ {0} /\ CodeTop \in Nat
    BY <1>1, <1>2
  <2> HIDE DEF p
  <2>2. /\ CodeTop \div p \in Nat /\ CodeTop % p \in 0..p - 1
        /\ CodeTop = p * (CodeTop \div p) + (CodeTop % p)
    BY <2>1, Division
  <2> QED BY <2>1, <2>2
<1>4. 2 * h <= CodeTop
  <2>1. \A a \in Nat, b \in Nat : a >= 2 => a * b >= 2 * b
    OBVIOUS
  <2>2. p * h >= 2 * h /\ p * h \in Nat
    <3>1. p \in Nat /\ h \in Nat /\ p >= 2
      BY <1>2, <1>3
    <3> HIDE DEF p, h
    <3> QED BY <2>1, <3>1
  <2> HIDE DEF h, p
  <2> QED BY <1>1, <1>3, <2>2
<1>5. High(CodeTop, n) = h
  BY DEF High
<1> HIDE DEF h, p
<1> DEFINE s == Pow[CodeShift]
           q == High(x, CodeShift)
<1>6. s \in Nat \ {0} /\ CodeTop = s * Pow[SymBits]
  <2>1. CodeShift \in Nat /\ CodeShift + SymBits <= CodeBits
    BY <1>1
  <2>2. Pow[CodeShift + SymBits] = Pow[CodeShift] * Pow[SymBits]
    BY <1>1, <2>1, PowSum
  <2> QED BY <1>1, <2>2, PowPositive DEF CodeTop
<1>7. q \in Nat /\ s * q <= x
  <2>1. x = s * q + Low(x, CodeShift) /\ Low(x, CodeShift) \in Nat /\ q \in Nat
    <3>1. /\ Low(x, CodeShift) \in 0..s - 1 /\ q \in Nat
          /\ x = s * q + Low(x, CodeShift)
      BY <1>1, LowHigh
    <3> HIDE DEF s, q
    <3> QED BY <1>6, <3>1
  <2> HIDE DEF s, q
  <2>2. s * q \in Nat
    BY <1>6, <2>1
  <2> QED BY <2>1, <2>2
<1>8. 2 * (s * q) < s * Pow[SymBits]
  <2> DEFINE z == s * q
  <2>1. z \in Nat
    BY <1>6, <1>7
  <2> HIDE DEF z, q, s
  <2>2. z <= x /\ CodeTop = s * Pow[SymBits]
    BY <1>6, <1>7 DEF z
  <2>3. 2 * z < CodeTop
    BY <1>1, <1>3, <1>4, <1>5, <2>1, <2>2
  <2> QED BY <2>2, <2>3 DEF z
<1>9. 2 * q < Pow[SymBits]
  <2> HIDE DEF s, q
  <2>1. \A a \in Nat, b \in Nat, c \in Nat : 2 * (a * b) < a * c => 2 * b < c
    OBVIOUS
  <2> QED BY <1>6, <1>7, <1>8, <2>1, Widths
<1>10. q # SymMax
  <2> HIDE DEF q
  <2> QED BY <1>1, <1>7, <1>9, Widths
<1> QED BY <1>1, <1>3, <1>4, <1>5, <1>10

LEMMA Narrow ==
  ASSUME NEW rc, EncoderOK(rc), NEW v \in Nat, NEW g \in 1..rc.rng,
         rc.val + rc.rng <= CodeTop => v + g <= rc.val + rc.rng
  PROVE  Coded(NormalizeEncoder([rc EXCEPT !.val = v, !.rng = g]), rc)
<1> DEFINE p == [rc EXCEPT !.val = v, !.rng = g]
           u == [rc EXCEPT !.val = v]
           out == NormalizeEncoder(p)
<1>1. /\ rc \in Coder /\ rc.val \in Nat /\ rc.rng \in Nat /\ rc.rng <= CodeTop
      /\ rc.nendBits <= CodeBits /\ rc.rem \in Nat \cup {-1}
      /\ CodeTop \in Nat
  BY OKTypes, Widths
<1>2. g \in Nat /\ g >= 1 /\ g <= CodeTop
  BY <1>1
<1>3. p \in Coder
  <2>1. u \in Coder
    BY <1>1, CoderFields
  <2>2. [u EXCEPT !.rng = g] \in Coder
    <3> HIDE DEF u
    <3> QED BY <1>2, <2>1, CoderFields
  <2>3. p = [u EXCEPT !.rng = g]
    BY <1>1 DEF Coder, Records
  <2> QED BY <2>2, <2>3
<1>4. /\ p.storage = rc.storage /\ p.endOffs = rc.endOffs /\ p.endWindow = rc.endWindow
      /\ p.nendBits = rc.nendBits /\ p.nbitsTotal = rc.nbitsTotal /\ p.rng = g /\ p.val = v
      /\ p.offs = rc.offs /\ p.error = rc.error /\ p.ext = rc.ext /\ p.rem = rc.rem
  BY <1>1 DEF Coder, Records
<1> HIDE DEF p
<1>5. RoundOK(p)
  <2>1. Balanced(rc) \/ Overfull(rc)
    BY DEF EncoderOK
  <2>2. Balanced(p) \/ Overfull(p)
    BY <1>4, <2>1 DEF Balanced, Overfull, Pending
  <2> QED BY <1>2, <1>3, <1>4, <2>2 DEF RoundOK, Accounted
<1>6. /\ RoundOK(out) /\ SameEnd(out, p) /\ out.nbitsTotal >= p.nbitsTotal /\ out.rng > CodeBot
      /\ p.rem >= 0 => out.rem >= 0
      /\ out.rem < 0 /\ High(p.val, CodeShift) # SymMax => out = p
  BY <1>5, NormalizeEncoderIs
<1> HIDE DEF out
<1>7. SameEnd(out, rc) /\ out.nendBits = rc.nendBits
  BY <1>4, <1>6 DEF SameEnd
<1>8. EncoderOK(out)
  <2>1. out.rng <= CodeTop /\ out \in Coder /\ (Balanced(out) \/ Overfull(out))
    BY <1>1, <1>6 DEF RoundOK, Accounted
  <2> QED BY <1>1, <1>6, <1>7, <2>1 DEF EncoderOK
<1>9. ASSUME NEW n \in 1..SymBits, Ahead(rc, n), out.rem < 0 PROVE out.val + out.rng <= High(CodeTop, n)
  <2>1. rc.rem < 0
    <3>1. out \in Coder
      BY <1>8 DEF EncoderOK
    <3>2. out.rem \in Nat \cup {-1}
      BY <3>1, CoderTypes
    <3> QED BY <1>1, <1>4, <1>6, <1>9, <3>2
  <2>2. rc.val + rc.rng <= High(CodeTop, n)
    BY <1>9, <2>1 DEF Ahead
  <2>3. High(CodeTop, n) \in Nat
    <3>1. n \in 0..CodeBits
      BY Widths
    <3> QED BY <1>1, <3>1, LowHigh
  <2>4. rc.val < High(CodeTop, n)
    BY <1>1, <1>2, <2>2, <2>3
  <2>5. High(CodeTop, n) < CodeTop
    BY <1>1, <2>4, NoPendingByte
  <2>6. v + g <= rc.val + rc.rng
    BY <1>1, <2>2, <2>3, <2>5
  <2>7. v + g <= High(CodeTop, n)
    BY <1>1, <1>2, <2>2, <2>3, <2>6
  <2>8. v < High(CodeTop, n)
    BY <1>2, <2>3, <2>7
  <2>9. High(v, CodeShift) # SymMax
    BY <2>8, NoPendingByte
  <2>10. out = p
    BY <1>4, <1>6, <1>9, <2>9
  <2> QED BY <1>4, <2>7, <2>10
<1>10. \A n \in 1..SymBits : Ahead(rc, n) => Ahead(out, n)
  BY <1>9 DEF Ahead
<1> QED BY <1>4, <1>6, <1>7, <1>8, <1>10 DEF Coded, out, p

LEMMA Wrapped ==
  ASSUME NEW x \in Nat
  PROVE  x % Word \in Nat /\ x % Word <= x /\ (x < Word => x % Word = x)
<1>1. Word \in Nat \ {0}
  BY Widths
<1> HIDE DEF Word
<1> QED BY <1>1

\* The upper part of the interval, g wide, with d below its end.
LEMMA UpperPart ==
  ASSUME NEW rc, EncoderOK(rc), NEW d \in 1..rc.rng, NEW g \in 1..d
  PROVE  Coded(NormalizeEncoder([rc EXCEPT !.val = (rc.val + rc.rng - d) % Word, !.rng = g]), rc)
<1>1. rc.val \in Nat /\ rc.rng \in Nat /\ CodeTop \in Nat /\ Word = 2 * CodeTop /\ CodeTop > 0
  BY OKTypes, Widths
<1> DEFINE x == rc.val + rc.rng - d
           v == x % Word
<1>2. x \in Nat
  BY <1>1
<1>3. v \in Nat /\ v <= x
  <2> HIDE DEF x
  <2> QED BY <1>2, Wrapped
<1> HIDE DEF v
<1>4. g \in 1..rc.rng
  BY <1>1
<1>5. v + g <= rc.val + rc.rng
  BY <1>1, <1>3
<1>6. Coded(NormalizeEncoder([rc EXCEPT !.val = v, !.rng = g]), rc)
  BY <1>3, <1>4, <1>5, Narrow, ZenonT(60)
<1> QED BY <1>6 DEF v

\* The lower part, without the last c; some callers write val again.
LEMMA LowerPart ==
  ASSUME NEW rc, EncoderOK(rc), NEW c \in 0..rc.rng - 1
  PROVE  /\ Coded(NormalizeEncoder([rc EXCEPT !.rng = rc.rng - c]), rc)
         /\ Coded(NormalizeEncoder([rc EXCEPT !.val = rc.val % Word, !.rng = rc.rng - c]), rc)
<1>1. rc \in Coder /\ rc.val \in Nat /\ rc.rng \in Nat
  BY OKTypes
<1> DEFINE g == rc.rng - c
           v == rc.val % Word
<1>2. g \in 1..rc.rng
  BY <1>1
<1>3. v \in Nat /\ v <= rc.val
  BY <1>1, Wrapped
<1> HIDE DEF v
<1>4. v + g <= rc.val + rc.rng /\ rc.val + g <= rc.val + rc.rng
  BY <1>1, <1>3
<1> HIDE DEF g
<1>5. Coded(NormalizeEncoder([rc EXCEPT !.val = v, !.rng = g]), rc)
  BY <1>2, <1>3, <1>4, Narrow, ZenonT(60)
<1>6. Coded(NormalizeEncoder([rc EXCEPT !.val = rc.val, !.rng = g]), rc)
  BY <1>1, <1>2, <1>4, Narrow, ZenonT(60)
<1>7. [rc EXCEPT !.val = rc.val, !.rng = g] = [rc EXCEPT !.rng = g]
  BY <1>1 DEF Coder, Records
<1> QED BY <1>5, <1>6, <1>7 DEF g, v

\* The parts of a range shared out in f units.
LEMMA Share ==
  ASSUME NEW rng \in Nat, NEW f \in 1..CodeBot, rng > CodeBot,
         NEW a \in 0..f, NEW b \in 0..f
  PROVE  LET r == rng \div f
         IN  /\ a > 0 => r * a \in 1..rng
             /\ a > b => r * (a - b) \in 1..r * a /\ r * b \in 0..rng - 1
<1> DEFINE r == rng \div f
<1>1. f \in Nat \ {0} /\ f < rng
  BY Widths
<1>2. r \in Nat /\ rng = f * r + (rng % f) /\ rng % f \in 0..f - 1
  BY <1>1, Division
<1> HIDE DEF r
<1>3. r # 0
  <2> SUFFICES ASSUME r = 0 PROVE FALSE
    OBVIOUS
  <2>1. f * r = 0
    BY <1>1
  <2> QED BY <1>1, <1>2, <2>1
<1>4. r >= 1
  BY <1>2, <1>3
<1>5. r * a + r * (f - a) = f * r /\ r * a \in Nat /\ r * (f - a) \in Nat /\ r * b \in Nat
  BY <1>1, <1>2
<1>6. r * a <= rng
  <2> DEFINE x == r * a
             y == r * (f - a)
             z == f * r
             w == rng % f
  <2>1. x + y = z /\ x \in Nat /\ y \in Nat /\ w \in Nat /\ rng = z + w
    BY <1>1, <1>2, <1>5
  <2> HIDE DEF x, y, z, w
  <2>2. x <= rng
    BY <2>1
  <2> QED BY <2>2 DEF x
<1>7. ASSUME a > 0 PROVE r * a >= 1
  <2>1. \A x \in Nat, y \in Nat : x >= 1 /\ y >= 1 => x * y >= 1
    OBVIOUS
  <2> QED BY <1>1, <1>2, <1>4, <1>7, <2>1
<1>8. ASSUME a > b PROVE r * (a - b) \in Nat /\ r * (a - b) >= 1 /\ r * a = r * b + r * (a - b)
  BY <1>2, <1>4, <1>8
<1>9. ASSUME a > b PROVE r * (a - b) <= r * a /\ r * b <= rng - 1
  <2> DEFINE x == r * a
             y == r * (a - b)
             z == r * b
  <2>1. x = z + y /\ x \in Nat /\ y \in Nat /\ z \in Nat /\ y >= 1 /\ x <= rng
    BY <1>5, <1>6, <1>8, <1>9
  <2> HIDE DEF x, y, z
  <2>2. y <= x /\ z <= rng - 1
    BY <2>1
  <2> QED BY <2>2 DEF x, y, z
<1>10. a > 0 => r * a \in 1..rng
  BY <1>5, <1>6, <1>7
<1>11. a > b => r * (a - b) \in 1..r * a /\ r * b \in 0..rng - 1
  BY <1>5, <1>8, <1>9
<1> QED BY <1>10, <1>11 DEF r

LEMMA EncodeIs ==
  ASSUME NEW rc, EncoderOK(rc), NEW ft \in 1..CodeBot, NEW fl \in 0..ft, NEW fh \in 0..ft, fl < fh
  PROVE  Coded(Encode(rc, fl, fh, ft), rc)
<1> DEFINE r == rc.rng \div ft
           d == r * (ft - fl)
           g == r * (fh - fl)
           c == r * (ft - fh)
<1>1. rc.rng \in Nat /\ rc.rng > CodeBot /\ rc.val \in Nat /\ ft - fl \in 0..ft /\ ft - fh \in 0..ft
  BY OKTypes, Widths
<1>2. ft - fl > 0 /\ ft - fl > ft - fh /\ (ft - fl) - (ft - fh) = fh - fl /\ ft > ft - fh /\ ft \in 0..ft
  BY Widths
<1>3. d \in 1..rc.rng /\ g \in 1..d /\ c \in 0..rc.rng - 1
  BY <1>1, <1>2, Share
<1> HIDE DEF d, g, c
<1>4. CASE fl > 0
  <2>1. EncodeVal(rc, fl, ft) = rc.val + rc.rng - d /\ EncodeRng(rc, fl, fh, ft) = g
    BY <1>4 DEF EncodeVal, EncodeRng, d, g
  <2> QED BY <1>3, <2>1, UpperPart, ZenonT(60) DEF Encode
<1>5. CASE ~(fl > 0)
  <2>1. EncodeVal(rc, fl, ft) = rc.val /\ EncodeRng(rc, fl, fh, ft) = rc.rng - c
    BY <1>5 DEF EncodeVal, EncodeRng, c
  <2> QED BY <1>3, <2>1, LowerPart, ZenonT(60) DEF Encode
<1> QED BY <1>4, <1>5

LEMMA PowShare ==
  ASSUME NEW k \in 0..CodeShift
  PROVE  Pow[k] \in 1..CodeBot
<1>1. CodeShift \in 0..CodeBits /\ k \in 0..CodeBits /\ CodeBits - 1 - SymBits = CodeShift
  BY Widths
<1> QED BY <1>1, PowOrder, PowPositive DEF CodeBot

LEMMA EncodeBitLogpIs ==
  ASSUME NEW rc, EncoderOK(rc), NEW one, NEW logp \in 1..CodeShift
  PROVE  Coded(EncodeBitLogp(rc, one, logp), rc)
<1> DEFINE s == rc.rng \div Pow[logp]
<1>1. rc.rng \in Nat /\ rc.rng > CodeBot /\ rc.val \in Nat
  BY OKTypes
<1>2. Pow[logp] \in 1..CodeBot /\ Pow[logp] >= 2
  <2>1. 0 \in 0..CodeBits /\ logp \in 0..CodeBits /\ 0 < logp
    BY Widths
  <2> QED BY <2>1, PowShare, PowOrder, PowStep
<1>3. s * 1 \in 1..rc.rng /\ s * 1 \in 0..rc.rng - 1
  <2>1. 1 \in 0..Pow[logp] /\ 2 \in 0..Pow[logp]
    BY <1>2, Widths
  <2> QED BY <1>1, <1>2, <2>1, Share
<1>4. s \in Nat
  <2> DEFINE p == Pow[logp]
  <2>1. p \in Nat \ {0}
    BY <1>2, Widths
  <2> HIDE DEF p
  <2>2. rc.rng \div p \in Nat
    BY <1>1, <2>1, Division
  <2> QED BY <2>2 DEF p
<1> HIDE DEF s
<1>5. s \in 1..rc.rng /\ s \in 0..rc.rng - 1 /\ s \in 1..s
  BY <1>1, <1>3, <1>4
<1>6. CASE one
  <2>1. EncodeBitLogp(rc, one, logp) = NormalizeEncoder([rc EXCEPT !.val = (rc.val + rc.rng - s) % Word, !.rng = s])
    BY <1>6 DEF EncodeBitLogp, s
  <2> QED BY <1>5, <2>1, UpperPart, ZenonT(60)
<1>7. CASE ~one
  <2>1. EncodeBitLogp(rc, one, logp) = NormalizeEncoder([rc EXCEPT !.rng = rc.rng - s])
    BY <1>7 DEF EncodeBitLogp, s
  <2> QED BY <1>5, <2>1, LowerPart, ZenonT(60)
<1> QED BY <1>6, <1>7

\* A table: it falls from below Pow[ftb] to 0.
IsTable(icdf, ftb) ==
  /\ icdf \in Seq(Nat) /\ ftb \in 0..CodeShift
  /\ Len(icdf) > 0 => icdf[1] < Pow[ftb]
  /\ \A i \in 2..Len(icdf) : icdf[i] < icdf[i - 1]

LEMMA TableFalls ==
  ASSUME NEW icdf, NEW ftb, IsTable(icdf, ftb)
  PROVE  \A i \in 1..Len(icdf) : icdf[i] \in Nat /\ icdf[i] < Pow[ftb]
<1>1. Len(icdf) \in Nat /\ icdf \in Seq(Nat)
  BY DEF IsTable
<1>2. Pow[ftb] \in Nat
  BY PowShare, Widths, SMTT(60) DEF IsTable
<1> DEFINE n == Len(icdf)
           T == {i \in Nat : i + 1 <= n => icdf[i + 1] \in Nat /\ icdf[i + 1] < Pow[ftb]}
<1>3. CASE n = 0
  BY <1>3
<1>4. CASE n > 0
  <2>1. 0 \in T
    BY <1>1, <1>4 DEF IsTable
  <2>2. ASSUME NEW i \in 0..n - 1, i \in T PROVE i + 1 \in T
    <3>1. SUFFICES ASSUME (i + 1) + 1 <= n PROVE icdf[(i + 1) + 1] \in Nat /\ icdf[(i + 1) + 1] < Pow[ftb]
      BY <2>2
    <3>2. (i + 1) + 1 \in 2..n /\ ((i + 1) + 1) - 1 = i + 1 /\ i + 1 <= n /\ i + 1 \in 1..n
      BY <1>1, <3>1
    <3>3. icdf[(i + 1) + 1] < icdf[i + 1]
      <4>1. icdf[(i + 1) + 1] < icdf[((i + 1) + 1) - 1]
        BY <3>2 DEF IsTable
      <4> QED BY <3>2, <4>1
    <3>4. icdf[i + 1] < Pow[ftb] /\ icdf[i + 1] \in Nat
      BY <2>2, <3>2
    <3>5. icdf[(i + 1) + 1] \in Nat
      BY <1>1, <3>2
    <3> QED BY <1>2, <3>3, <3>4, <3>5
  <2>3. 0..n \subseteq T
    <3> HIDE DEF T
    <3> QED BY <1>1, <2>1, <2>2, InductionTo
  <2>4. ASSUME NEW i \in 1..n PROVE icdf[i] \in Nat /\ icdf[i] < Pow[ftb]
    <3>1. i - 1 \in 0..n /\ (i - 1) + 1 = i /\ i <= n
      BY <1>1
    <3>2. i - 1 \in T
      <4> HIDE DEF T
      <4> QED BY <2>3, <3>1
    <3> QED BY <3>1, <3>2
  <2> QED BY <2>4
<1> QED BY <1>1, <1>3, <1>4

LEMMA EncodeIcdfIs ==
  ASSUME NEW rc, EncoderOK(rc), NEW icdf, NEW ftb, IsTable(icdf, ftb), NEW s \in Nat, s < Len(icdf)
  PROVE  Coded(EncodeIcdf(rc, s, icdf, ftb), rc)
<1> DEFINE f == Pow[ftb]
           r == rc.rng \div f
<1>1. rc.rng \in Nat /\ rc.rng > CodeBot /\ rc.val \in Nat /\ f \in 1..CodeBot /\ CodeBot \in Nat
  BY OKTypes, PowShare, Widths DEF IsTable
<1>2. Len(icdf) \in Nat
  BY DEF IsTable
<1>3. CASE s > 0
  <2> DEFINE a == icdf[s]
             b == icdf[s + 1]
  <2>1. a \in Nat /\ b \in Nat /\ a < f /\ b < a
    <3>1. s \in 1..Len(icdf) /\ s + 1 \in 1..Len(icdf) /\ s + 1 \in 2..Len(icdf) /\ (s + 1) - 1 = s
      BY <1>2, <1>3
    <3>2. a \in Nat /\ b \in Nat /\ a < f
      BY <3>1, TableFalls
    <3>3. icdf[s + 1] < icdf[(s + 1) - 1]
      BY <3>1 DEF IsTable
    <3> QED BY <3>1, <3>2, <3>3
  <2>2. EncodeIcdf(rc, s, icdf, ftb) = NormalizeEncoder([rc EXCEPT !.val = (rc.val + rc.rng - r * a) % Word, !.rng = r * (a - b)])
    BY <1>3 DEF EncodeIcdf
  <2> HIDE DEF a, b, f
  <2>3. a \in 0..f /\ b \in 0..f /\ a > b /\ a > 0
    BY <1>1, <2>1
  <2>4. r * a \in 1..rc.rng /\ r * (a - b) \in 1..r * a
    BY <1>1, <2>3, Share
  <2> HIDE DEF r
  <2> QED BY <2>2, <2>4, UpperPart, ZenonT(60)
<1>4. CASE ~(s > 0)
  <2> DEFINE b == icdf[1]
  <2>1. b \in Nat /\ b < f
    <3>1. 1 \in 1..Len(icdf)
      BY <1>2, <1>4
    <3> QED BY <3>1, TableFalls
  <2>2. EncodeIcdf(rc, s, icdf, ftb) = NormalizeEncoder([rc EXCEPT !.rng = rc.rng - r * b])
    BY <1>4 DEF EncodeIcdf
  <2> HIDE DEF b, f
  <2>3. f \in 0..f /\ b \in 0..f /\ f > b
    BY <1>1, <2>1
  <2>4. r * b \in 0..rc.rng - 1
    BY <1>1, <2>3, Share
  <2> HIDE DEF r
  <2> QED BY <2>2, <2>4, LowerPart, ZenonT(60)
<1> QED BY <1>3, <1>4

(***************************************************************************)
(* Raw bits: a byte of the window that goes to the buffer keeps its place  *)
(* in the account.                                                         *)
(***************************************************************************)
SameFront(a, b) ==
  /\ a.offs = b.offs /\ a.ext = b.ext /\ a.rem = b.rem /\ a.val = b.val
  /\ a.storage = b.storage /\ SameCode(a, b)

EndBits(rc) == SymBits * rc.endOffs + rc.nendBits

\* The window's whole bytes have room.
Fitting(rc) == rc.error = 0 /\ SymBits * rc.offs + EndBits(rc) < SymBits * rc.storage + SymBits

\* Multiples of SymBits.
LEMMA Scaled ==
  ASSUME NEW a \in Nat, NEW b \in Nat
  PROVE  /\ SymBits * a \in Nat /\ SymBits * (a + b) = SymBits * a + SymBits * b
         /\ SymBits * (a + 1) = SymBits * a + SymBits
         /\ SymBits * a < SymBits * b + SymBits => a <= b
         /\ SymBits * a <= SymBits * b => a <= b
         /\ SymBits * a < SymBits * b => a < b
         /\ a <= b => SymBits * a <= SymBits * b
<1>1. SymBits \in Nat /\ SymBits >= 1
  BY Widths
<1>2. SymBits * a \in Nat /\ SymBits * (a + b) = SymBits * a + SymBits * b /\ SymBits * (a + 1) = SymBits * a + SymBits
  BY <1>1
<1>3. a > b => SymBits * a >= SymBits * b + SymBits
  <2>1. SUFFICES ASSUME a > b PROVE SymBits * a >= SymBits * b + SymBits
    OBVIOUS
  <2> DEFINE k == a - b - 1
  <2>2. k \in Nat /\ a = b + 1 + k
    BY <2>1
  <2> HIDE DEF k
  <2>3. SymBits * (b + 1 + k) = SymBits * b + SymBits + SymBits * k /\ SymBits * k >= 0
    BY <1>1, <2>2
  <2>4. SymBits * a = SymBits * b + SymBits + SymBits * k
    BY <2>2, <2>3
  <2> DEFINE x == SymBits * b
             y == SymBits * k
             z == SymBits * a
  <2>5. x \in Nat /\ y \in Nat /\ z = x + SymBits + y
    BY <1>1, <2>2, <2>4
  <2> HIDE DEF x, y, z
  <2>6. z >= x + SymBits
    BY <1>1, <2>5
  <2> QED BY <2>6 DEF x, z
<1>4. a <= b => SymBits * a <= SymBits * b
  <2>1. SUFFICES ASSUME a <= b PROVE SymBits * a <= SymBits * b
    OBVIOUS
  <2>2. a \in Nat /\ b - a \in Nat /\ a + (b - a) = b
    BY <2>1
  <2> QED BY <1>1, <2>2, Product
<1> DEFINE x == SymBits * a
           y == SymBits * b
<1>5. x \in Nat /\ y \in Nat
  BY <1>1
<1> HIDE DEF x, y
<1>6. (a > b => x >= y + SymBits) /\ (a <= b => x <= y)
  BY <1>3, <1>4 DEF x, y
<1>7. (x < y + SymBits => a <= b) /\ (x <= y => a <= b)
  BY <1>1, <1>5, <1>6
<1>8. x < y => a < b
  BY <1>1, <1>5, <1>6 DEF x, y
<1> QED BY <1>2, <1>6, <1>7, <1>8 DEF x, y

LEMMA FlushRoundIs ==
  ASSUME NEW rc \in Coder
  PROVE  LET out == FlushRound(rc)
         IN  /\ out \in Coder /\ SameFront(out, rc)
             /\ rc.nendBits < SymBits => out = rc
             /\ rc.nendBits >= SymBits => out.nendBits = rc.nendBits - SymBits
             /\ Fitting(rc) => Fitting(out) /\ EndBits(out) = EndBits(rc)
             /\ Accounted(rc) => Accounted(out)
<1>1. /\ rc.offs \in Nat /\ rc.ext \in Nat /\ rc.endOffs \in Nat /\ rc.storage \in Nat
      /\ rc.nendBits \in Nat /\ rc.nbitsTotal \in Nat /\ rc.endWindow \in Nat
      /\ rc.buf \in Contents /\ Pending(rc) \in Nat /\ rc.offs <= Pending(rc)
  BY CoderTypes
<1>2. SymBits \in Nat \ {0} /\ CodeBits \in Nat /\ SymBits \in 0..CodeBits
  BY Widths
<1>3. CASE rc.nendBits < SymBits
  <2>1. FlushRound(rc) = rc
    BY <1>3 DEF FlushRound
  <2> QED BY <1>1, <1>2, <1>3, <2>1 DEF SameFront, SameCode
<1>4. CASE ~(rc.nendBits < SymBits)
  <2> DEFINE b == Low(rc.endWindow, SymBits)
             e == WriteByteAtEnd(rc, b)
             n == rc.nendBits - SymBits
             h == High(rc.endWindow, SymBits)
             w == [e EXCEPT !.endWindow = h, !.nendBits = n]
  <2>1. b \in 0..SymMax /\ h \in Nat /\ n \in Nat
    <3>1. b \in 0..Pow[SymBits] - 1 /\ h \in Nat
      BY <1>1, <1>2, LowHigh
    <3> QED BY <1>1, <1>2, <1>4, <3>1 DEF SymMax
  <2>2. /\ e \in Coder /\ SameFront(e, rc) /\ e.nendBits = rc.nendBits /\ e.endWindow = rc.endWindow
        /\ IF Room(rc) THEN e.endOffs = rc.endOffs + 1 /\ e.error = rc.error ELSE e.endOffs = rc.endOffs /\ e.error = 1
    <3>1. CASE Room(rc)
      <4> DEFINE f == [rc.buf EXCEPT ![rc.storage - rc.endOffs - 1] = b]
                 u == [rc EXCEPT !.buf = f]
                 m == rc.endOffs + 1
      <4>1. f \in Contents /\ DOMAIN f = DOMAIN rc.buf
        <5> HIDE DEF b
        <5> QED BY <1>1, <2>1, WriteBuffer
      <4>2. e = [rc EXCEPT !.buf = f, !.endOffs = m]
        BY <3>1 DEF WriteByteAtEnd
      <4> HIDE DEF b, f, e
      <4>3. u \in Coder
        BY <4>1, CoderFields
      <4>7. m \in Nat
        BY <1>1
      <4>4. e = [u EXCEPT !.endOffs = m]
        <5> HIDE DEF m
        <5> QED BY <4>2 DEF Coder, Records
      <4>5. e \in Coder
        <5> HIDE DEF u, m
        <5> QED BY <4>3, <4>4, <4>7, CoderFields
      <4>6. /\ e.storage = rc.storage /\ e.endOffs = m /\ e.endWindow = rc.endWindow
            /\ e.nendBits = rc.nendBits /\ e.nbitsTotal = rc.nbitsTotal /\ e.rng = rc.rng /\ e.val = rc.val
            /\ e.offs = rc.offs /\ e.error = rc.error /\ e.ext = rc.ext /\ e.rem = rc.rem
        <5> HIDE DEF m
        <5> QED BY <4>2 DEF Coder, Records
      <4> QED BY <3>1, <4>5, <4>6 DEF SameFront, SameCode
    <3>2. CASE ~Room(rc)
      <4>1. e = [rc EXCEPT !.error = 1]
        BY <3>2 DEF WriteByteAtEnd
      <4>2. [rc EXCEPT !.error = 1] \in Coder
        <5>1. 0 \in Nat /\ 1 \in {-1, 0, 1}
          OBVIOUS
        <5> QED BY <5>1, CoderFields
      <4> HIDE DEF e, b
      <4> QED BY <3>2, <4>1, <4>2 DEF SameFront, SameCode, Coder, Records
    <3> QED BY <3>1, <3>2
  <2>3. FlushRound(rc) = w
    <3>1. FlushRound(rc) = [e EXCEPT !.endWindow = High(e.endWindow, SymBits), !.nendBits = e.nendBits - SymBits]
      BY <1>4 DEF FlushRound
    <3> HIDE DEF e, b
    <3> QED BY <2>2, <3>1
  <2> HIDE DEF e, h, n, b
  <2>4. w \in Coder
    <3> DEFINE u == [e EXCEPT !.endWindow = h]
    <3>1. u \in Coder
      BY <2>1, <2>2, CoderFields
    <3>2. w = [u EXCEPT !.nendBits = n]
      BY <2>2 DEF Coder, Records
    <3> HIDE DEF u
    <3> QED BY <2>1, <3>1, <3>2, CoderFields
  <2>5. /\ w.storage = e.storage /\ w.endOffs = e.endOffs /\ w.nendBits = n /\ w.nbitsTotal = e.nbitsTotal
        /\ w.rng = e.rng /\ w.val = e.val
        /\ w.offs = e.offs /\ w.error = e.error /\ w.ext = e.ext /\ w.rem = e.rem
    BY <2>2 DEF Coder, Records
  <2> HIDE DEF w
  <2>6. SameFront(w, rc)
    BY <2>2, <2>5 DEF SameFront, SameCode
  <2>7. /\ w.offs = rc.offs /\ w.storage = rc.storage /\ w.nbitsTotal = rc.nbitsTotal /\ Pending(w) = Pending(rc)
    BY <2>6 DEF SameFront, SameCode, Pending
  <2>8. w.nendBits = rc.nendBits - SymBits
    BY <2>5 DEF n
  <2>9. Room(rc) => w.endOffs = rc.endOffs + 1 /\ w.error = rc.error
    BY <2>2, <2>5
  <2>10. Room(rc) => EndBits(w) = EndBits(rc)
    <3>1. SymBits * (rc.endOffs + 1) = SymBits * rc.endOffs + SymBits /\ SymBits * rc.endOffs \in Nat
      BY <1>1, <1>2
    <3> DEFINE x == SymBits * rc.endOffs
    <3>2. SUFFICES ASSUME Room(rc) PROVE EndBits(w) = EndBits(rc)
      OBVIOUS
    <3>3. EndBits(w) = SymBits * (rc.endOffs + 1) + (rc.nendBits - SymBits)
      BY <2>8, <2>9, <3>2 DEF EndBits
    <3>4. EndBits(w) = x + SymBits + (rc.nendBits - SymBits) /\ EndBits(rc) = x + rc.nendBits /\ x \in Nat
      BY <3>1, <3>3 DEF EndBits
    <3> HIDE DEF x
    <3> QED BY <1>1, <1>2, <3>4
  <2>11. Fitting(rc) => Room(rc)
    <3>1. SUFFICES ASSUME Fitting(rc) PROVE Room(rc)
      OBVIOUS
    <3>2. SymBits * (rc.offs + rc.endOffs) = SymBits * rc.offs + SymBits * rc.endOffs
          /\ SymBits * rc.offs \in Nat /\ SymBits * rc.endOffs \in Nat /\ SymBits * rc.storage \in Nat
      BY <1>1, Scaled
    <3>3. SymBits * rc.offs + (SymBits * rc.endOffs + rc.nendBits) < SymBits * rc.storage + SymBits
      BY <3>1 DEF Fitting, EndBits
    <3> DEFINE x == SymBits * rc.offs
               y == SymBits * rc.endOffs
               z == SymBits * rc.storage
    <3>4. x + y < z
      <4>1. x \in Nat /\ y \in Nat /\ z \in Nat /\ x + (y + rc.nendBits) < z + SymBits
        BY <3>2, <3>3
      <4> HIDE DEF x, y, z
      <4> QED BY <1>1, <1>2, <1>4, <4>1
    <3>5. SymBits * (rc.offs + rc.endOffs) < SymBits * rc.storage
      BY <3>2, <3>4
    <3>6. rc.offs + rc.endOffs \in Nat
      BY <1>1
    <3>7. rc.offs + rc.endOffs < rc.storage
      BY <1>1, <3>5, <3>6, Scaled
    <3> QED BY <3>7 DEF Room
  <2>12. Fitting(rc) => Fitting(w) /\ EndBits(w) = EndBits(rc)
    BY <2>7, <2>9, <2>10, <2>11 DEF Fitting
  <2>13. ASSUME Accounted(rc) PROVE Accounted(w)
    <3>1. CASE Overfull(rc)
      BY <2>7, <3>1 DEF Accounted, Overfull
    <3>2. CASE Balanced(rc) /\ Room(rc)
      <4>1. w.error = 0 /\ w.offs + w.endOffs <= w.storage
        BY <1>1, <2>7, <2>9, <3>2 DEF Balanced, Room
      <4>2. /\ SymBits * (Pending(rc) + rc.endOffs) = SymBits * Pending(rc) + SymBits * rc.endOffs
            /\ SymBits * Pending(rc) \in Nat /\ SymBits * rc.endOffs \in Nat
        BY <1>1, Scaled
      <4>3. w.endOffs \in Nat
        BY <2>4, CoderTypes
      <4>4. SymBits * (Pending(w) + w.endOffs) = SymBits * Pending(rc) + SymBits * w.endOffs
        <5>1. SymBits * (Pending(rc) + w.endOffs) = SymBits * Pending(rc) + SymBits * w.endOffs
          BY <1>1, <4>3, Scaled
        <5> QED BY <2>7, <5>1
      <4>5. SymBits * w.endOffs + w.nendBits = SymBits * rc.endOffs + rc.nendBits
        BY <2>10, <3>2 DEF EndBits
      <4>6. rc.nbitsTotal = CodeBits + 1 + (SymBits * Pending(rc) + SymBits * rc.endOffs) + rc.nendBits
        BY <3>2, <4>2 DEF Balanced
      <4>7. SymBits * w.endOffs \in Nat /\ w.nendBits \in Nat
        BY <2>4, CoderTypes, Scaled
      <4> DEFINE x == SymBits * Pending(rc)
                 y == SymBits * rc.endOffs
                 z == SymBits * w.endOffs
      <4>8. rc.nbitsTotal = CodeBits + 1 + (x + z) + w.nendBits
        <5>1. /\ rc.nbitsTotal = CodeBits + 1 + (x + y) + rc.nendBits /\ z + w.nendBits = y + rc.nendBits
              /\ x \in Nat /\ y \in Nat /\ z \in Nat
          BY <4>2, <4>5, <4>6, <4>7
        <5> HIDE DEF x, y, z
        <5> QED BY <1>1, <1>2, <4>7, <5>1
      <4>9. w.nbitsTotal = CodeBits + 1 + SymBits * (Pending(w) + w.endOffs) + w.nendBits
        BY <2>7, <4>4, <4>8
      <4> QED BY <4>1, <4>9 DEF Balanced, Accounted
    <3>3. CASE Balanced(rc) /\ ~Room(rc)
      <4> DEFINE p == Pending(rc) + rc.endOffs
      <4>1. p \in Nat /\ rc.storage <= p
        BY <1>1, <3>3 DEF Room
      <4>2. SymBits * rc.storage <= SymBits * p /\ SymBits * p \in Nat /\ SymBits * rc.storage \in Nat
        BY <1>1, <4>1, Scaled
      <4>3. rc.nbitsTotal = CodeBits + 1 + SymBits * p + rc.nendBits
        BY <3>3 DEF Balanced
      <4> DEFINE x == SymBits * p
                 y == SymBits * rc.storage
      <4>4. rc.nbitsTotal > CodeBits + y
        <5>1. y <= x /\ x \in Nat /\ y \in Nat /\ rc.nbitsTotal = CodeBits + 1 + x + rc.nendBits
          BY <4>2, <4>3
        <5> HIDE DEF x, y
        <5> QED BY <1>1, <1>2, <5>1
      <4> QED BY <2>7, <4>4 DEF Overfull, Accounted
    <3> QED BY <2>13, <3>1, <3>2, <3>3 DEF Accounted
  <2> QED BY <1>1, <1>2, <1>4, <2>3, <2>4, <2>6, <2>8, <2>12, <2>13
<1> QED BY <1>3, <1>4

LEMMA FlushWindowIs ==
  ASSUME NEW rc \in Coder, rc.nendBits <= CodeBits
  PROVE  LET out == FlushWindow(rc)
         IN  /\ out \in Coder /\ SameFront(out, rc) /\ out.nendBits < SymBits
             /\ Fitting(rc) => Fitting(out) /\ EndBits(out) = EndBits(rc)
             /\ Accounted(rc) => Accounted(out)
<1> DEFINE F == [r \in Coder |-> FlushRound(r)]
           n == Rounds
           after == CHOOSE f : f = [i \in 0..n |-> IF i = 0 THEN rc ELSE FlushRound(f[i - 1])]
           OK(r, i) == /\ SameFront(r, rc)
                       /\ r.nendBits < SymBits \/ r.nendBits + SymBits * i <= CodeBits
                       /\ Fitting(rc) => Fitting(r) /\ EndBits(r) = EndBits(rc)
                       /\ Accounted(rc) => Accounted(r)
           T == {i \in Nat : after[i] \in Coder /\ OK(after[i], i)}
<1>1. n \in Nat
  BY RoundsSuffice
<1>2. PICK run \in [0..n -> Coder] : IsRun(run, rc, F, n)
  <2>1. F \in [Coder -> Coder]
    BY FlushRoundIs
  <2> HIDE DEF F, n
  <2> QED BY <1>1, <2>1, Runs
<1>3. run = [i \in 0..n |-> IF i = 0 THEN rc ELSE FlushRound(run[i - 1])]
  <2> HIDE DEF n
  <2>1. ASSUME NEW i \in 1..n PROVE run[i] = FlushRound(run[i - 1])
    <3>1. i - 1 \in 0..n
      BY <1>1
    <3>2. run[i - 1] \in Coder /\ run[i] = F[run[i - 1]]
      BY <1>2, <3>1 DEF IsRun
    <3> QED BY <3>2
  <2>2. run[0] = rc
    BY <1>2 DEF IsRun
  <2>3. \A i \in 0..n : run[i] = IF i = 0 THEN rc ELSE FlushRound(run[i - 1])
    BY <1>1, <2>1, <2>2
  <2> QED BY <1>2, <2>3
<1>4. after = [i \in 0..n |-> IF i = 0 THEN rc ELSE FlushRound(after[i - 1])]
  BY <1>3, Zenon
<1> HIDE DEF after, n
<1>5. 0 \in T
  <2>1. after[0] = rc
    BY <1>1, <1>4
  <2>2. rc.nendBits \in Nat /\ SymBits * 0 = 0 /\ CodeBits \in Nat
    BY CoderTypes, Widths
  <2>3. OK(rc, 0)
    BY <2>2 DEF SameFront, SameCode
  <2> HIDE DEF OK
  <2> QED BY <2>1, <2>3
<1>6. ASSUME NEW i \in 0..n - 1, i \in T PROVE i + 1 \in T
  <2> DEFINE r == after[i]
             w == FlushRound(r)
  <2>1. after[i + 1] = w
    BY <1>1, <1>4
  <2>2. r \in Coder /\ OK(r, i) /\ i \in Nat
    BY <1>1, <1>6
  <2>3. /\ w \in Coder /\ SameFront(w, r)
        /\ r.nendBits < SymBits => w = r
        /\ r.nendBits >= SymBits => w.nendBits = r.nendBits - SymBits
        /\ Fitting(r) => Fitting(w) /\ EndBits(w) = EndBits(r)
        /\ Accounted(r) => Accounted(w)
    BY <2>2, FlushRoundIs
  <2> HIDE DEF w
  <2>4. r.nendBits \in Nat
    BY <2>2, CoderTypes
  <2>5. SameFront(w, rc)
    BY <2>2, <2>3 DEF SameFront, SameCode
  <2>6. w.nendBits < SymBits \/ w.nendBits + SymBits * (i + 1) <= CodeBits
    <3> DEFINE x == SymBits * i
               z == SymBits * (i + 1)
               a == r.nendBits
               b == w.nendBits
    <3>1. z = x + SymBits /\ x \in Nat /\ SymBits \in Nat /\ CodeBits \in Nat /\ a \in Nat
      BY <2>2, <2>4, Scaled, Widths
    <3>2. a < SymBits \/ a + x <= CodeBits
      BY <2>2
    <3>3. (a < SymBits => b = a) /\ (a >= SymBits => b = a - SymBits)
      BY <2>3
    <3> HIDE DEF x, z, a, b
    <3>4. b < SymBits \/ b + z <= CodeBits
      BY <3>1, <3>2, <3>3
    <3> QED BY <3>4 DEF b, z
  <2>7. OK(w, i + 1)
    BY <2>2, <2>3, <2>5, <2>6
  <2>8. i + 1 \in Nat
    BY <2>2
  <2> HIDE DEF OK
  <2> QED BY <2>1, <2>3, <2>7, <2>8
<1>7. 0..n \subseteq T
  <2> HIDE DEF T
  <2> QED BY <1>1, <1>5, <1>6, InductionTo
<1>8. after[n] \in Coder /\ OK(after[n], n)
  BY <1>1, <1>7
<1>9. FlushWindow(rc) = after[n]
  BY Zenon DEF FlushWindow, Repeat, after, n
<1>10. after[n].nendBits < SymBits
  <2>1. SymBits * n > CodeBits /\ SymBits * n \in Nat /\ CodeBits \in Nat
    BY <1>1, RoundsSuffice, Widths, Scaled DEF n
  <2>2. after[n].nendBits \in Nat
    BY <1>8, CoderTypes
  <2>3. after[n].nendBits < SymBits \/ after[n].nendBits + SymBits * n <= CodeBits
    BY <1>8
  <2> DEFINE x == SymBits * n
  <2> HIDE DEF x
  <2>4. x > CodeBits /\ x \in Nat /\ (after[n].nendBits < SymBits \/ after[n].nendBits + x <= CodeBits)
    BY <2>1, <2>3 DEF x
  <2> QED BY <2>1, <2>2, <2>4
<1> QED BY <1>8, <1>9, <1>10

\* What raw bits change.
Rawed(out, rc) ==
  /\ out \in Coder /\ out.nendBits <= CodeBits /\ Accounted(out)
  /\ out.offs = rc.offs /\ out.ext = rc.ext /\ out.rem = rc.rem
  /\ out.rng = rc.rng /\ out.val = rc.val /\ out.storage = rc.storage

LEMMA EncBitsIs ==
  ASSUME NEW rc \in Coder, rc.nendBits <= CodeBits, Accounted(rc),
         NEW v \in Nat, NEW n \in 0..CodeBits - SymBits + 1
  PROVE  LET out == EncBits(rc, v, n)
         IN  Rawed(out, rc) /\ out.nbitsTotal = rc.nbitsTotal + n
<1>1. rc.nbitsTotal \in Nat /\ CodeBits \in Nat /\ SymBits \in Nat \ {0} /\ SymBits <= CodeBits /\ n \in 0..CodeBits /\ n \in Nat
  BY CoderTypes, Widths
<1>2. CASE n = 0
  <2>1. EncBits(rc, v, n) = rc
    BY <1>2 DEF EncBits
  <2> QED BY <1>1, <1>2, <2>1 DEF Rawed
<1>3. CASE n # 0
  <2> DEFINE r == IF rc.nendBits + n > CodeBits THEN FlushWindow(rc) ELSE rc
             m == r.nendBits + n
             t == r.nbitsTotal + n
             x == r.endWindow + Low(v, n) * Pow[r.nendBits]
             w == [r EXCEPT !.endWindow = x, !.nendBits = m, !.nbitsTotal = t]
  <2>1. EncBits(rc, v, n) = w
    BY <1>3 DEF EncBits
  <2>2. r \in Coder /\ SameFront(r, rc) /\ Accounted(r) /\ r.nendBits + n <= CodeBits /\ r.nendBits \in Nat
    <3>1. CASE rc.nendBits + n > CodeBits
      <4>1. r = FlushWindow(rc)
        BY <3>1
      <4> HIDE DEF r
      <4>2. r \in Coder /\ SameFront(r, rc) /\ Accounted(r) /\ r.nendBits < SymBits
        BY <4>1, FlushWindowIs
      <4>3. r.nendBits \in Nat
        BY <4>2, CoderTypes
      <4> QED BY <1>1, <4>2, <4>3
    <3>2. CASE ~(rc.nendBits + n > CodeBits)
      <4>1. r = rc
        BY <3>2
      <4> HIDE DEF r
      <4>2. rc.nendBits \in Nat
        BY CoderTypes
      <4> QED BY <1>1, <3>2, <4>1, <4>2 DEF SameFront, SameCode
    <3> QED BY <3>1, <3>2
  <2> HIDE DEF r
  <2>3. /\ r.nbitsTotal \in Nat /\ r.endWindow \in Nat /\ r.offs \in Nat /\ r.endOffs \in Nat /\ r.storage \in Nat
        /\ Pending(r) \in Nat
    BY <2>2, CoderTypes
  <2>4. m \in Nat /\ t \in Nat /\ m <= CodeBits /\ t = rc.nbitsTotal + n
    BY <1>1, <2>2, <2>3 DEF SameFront, SameCode
  <2>5. x \in Nat
    <3> DEFINE y == Low(v, n)
               p == Pow[r.nendBits]
    <3>1. r.nendBits \in 0..CodeBits
      BY <1>1, <2>2
    <3>2. p \in Nat
      BY <3>1, PowPositive
    <3>3. Pow[n] \in Nat /\ y \in 0..Pow[n] - 1
      BY <1>1, LowHigh, PowPositive
    <3>4. y \in Nat
      BY <3>3
    <3> HIDE DEF y, p
    <3> QED BY <2>3, <3>2, <3>4 DEF y, p
  <2> HIDE DEF m, t, x
  <2>6. w \in Coder
    <3> DEFINE u == [r EXCEPT !.endWindow = x]
               q == [u EXCEPT !.nendBits = m]
    <3>1. u \in Coder
      BY <2>2, <2>5, CoderFields
    <3>2. q \in Coder
      <4> HIDE DEF u
      <4> QED BY <2>4, <3>1, CoderFields
    <3>3. [q EXCEPT !.nbitsTotal = t] \in Coder
      <4> HIDE DEF q
      <4> QED BY <2>4, <3>2, CoderFields
    <3>4. w = [q EXCEPT !.nbitsTotal = t]
      BY <2>2 DEF Coder, Records
    <3> QED BY <3>3, <3>4
  <2>7. /\ w.storage = r.storage /\ w.endOffs = r.endOffs /\ w.nendBits = m /\ w.nbitsTotal = t
        /\ w.rng = r.rng /\ w.val = r.val
        /\ w.offs = r.offs /\ w.error = r.error /\ w.ext = r.ext /\ w.rem = r.rem
    BY <2>2 DEF Coder, Records
  <2> HIDE DEF w
  <2>8. Pending(w) = Pending(r)
    BY <2>7 DEF Pending
  <2>9. Accounted(w)
    <3>1. CASE Overfull(r)
      <4> DEFINE z == SymBits * r.storage
      <4>1. z \in Nat /\ r.nbitsTotal > CodeBits + z /\ w.storage = r.storage /\ w.nbitsTotal = r.nbitsTotal + n
        BY <2>3, <2>7, <3>1, Scaled DEF Overfull, t
      <4> HIDE DEF z
      <4>2. w.nbitsTotal > CodeBits + z
        BY <1>1, <2>3, <4>1
      <4> QED BY <4>1, <4>2 DEF Overfull, Accounted, z
    <3>2. CASE Balanced(r)
      <4> DEFINE z == SymBits * (Pending(r) + r.endOffs)
      <4>1. z \in Nat
        <5>1. Pending(r) + r.endOffs \in Nat
          BY <2>3
        <5> QED BY <5>1, Scaled
      <4>2. r.nbitsTotal = CodeBits + 1 + z + r.nendBits
        BY <3>2 DEF Balanced
      <4>3. w.nbitsTotal = CodeBits + 1 + z + w.nendBits
        <5>1. w.nbitsTotal = r.nbitsTotal + n /\ w.nendBits = r.nendBits + n
          BY <2>7 DEF t, m
        <5> HIDE DEF z
        <5> QED BY <1>1, <2>2, <2>3, <4>1, <4>2, <5>1
      <4>4. w.nbitsTotal = CodeBits + 1 + SymBits * (Pending(w) + w.endOffs) + w.nendBits
        BY <2>7, <2>8, <4>3
      <4>5. w.error = 0 /\ w.offs + w.endOffs <= w.storage
        BY <2>7, <3>2 DEF Balanced
      <4> QED BY <4>4, <4>5 DEF Balanced, Accounted
    <3> QED BY <2>2, <3>1, <3>2 DEF Accounted
  <2>10. Rawed(w, rc)
    BY <2>2, <2>4, <2>6, <2>7, <2>9 DEF Rawed, SameFront, SameCode
  <2> QED BY <2>1, <2>4, <2>7, <2>10
<1> QED BY <1>2, <1>3

(***************************************************************************)
(* Symbols.                                                                *)
(***************************************************************************)
Stepped(out, rc) ==
  /\ EncoderOK(out) /\ out.storage = rc.storage
  /\ \A n \in 1..SymBits : Ahead(rc, n) => Ahead(out, n)

LEMMA CodedSteps ==
  ASSUME NEW rc, NEW out, Coded(out, rc)
  PROVE  Stepped(out, rc)
  BY DEF Coded, Stepped, SameEnd

LEMMA RawSteps ==
  ASSUME NEW rc, EncoderOK(rc), NEW v \in Nat, NEW n \in 0..CodeBits - SymBits + 1
  PROVE  Stepped(EncBits(rc, v, n), rc)
<1> DEFINE out == EncBits(rc, v, n)
<1>1. rc \in Coder /\ rc.nendBits <= CodeBits /\ Accounted(rc) /\ rc.rng > CodeBot /\ rc.rng <= CodeTop
  BY DEF EncoderOK, Accounted
<1>2. Rawed(out, rc)
  BY <1>1, EncBitsIs
<1> HIDE DEF out
<1>3. EncoderOK(out)
  BY <1>1, <1>2 DEF Rawed, EncoderOK, Accounted
<1>4. \A k \in 1..SymBits : Ahead(rc, k) => Ahead(out, k)
  BY <1>2 DEF Rawed, Ahead
<1> QED BY <1>2, <1>3, <1>4 DEF Stepped, Rawed, out

LEMMA StepsCompose ==
  ASSUME NEW a, NEW b, NEW c, Stepped(b, a), Stepped(c, b)
  PROVE  Stepped(c, a)
  BY DEF Stepped

\* The top of a number below ft has its share, the rest fits the window.
LEMMA SplitIs ==
  ASSUME NEW ft \in 2..Word - 1, NEW v \in Nat, v < ft
  PROVE  LET s == Split(ft)
         IN  /\ s \in 0..CodeBits - SymBits + 1
             /\ High(ft - 1, s) + 1 \in 1..CodeBot
             /\ High(v, s) \in 0..High(ft - 1, s) /\ Low(v, s) \in Nat
<1>1. /\ Word \in Nat /\ CodeBits \in Nat /\ UintBits \in Nat /\ CodeShift \in Nat /\ SymBits \in Nat
      /\ UintBits <= CodeShift /\ SymBits <= UintBits + 1 /\ CodeShift + SymBits + 1 = CodeBits /\ SymBits > 0
  BY Widths
<1> DEFINE x == ft - 1
           b == ILog(x)
           s == Split(ft)
<1>2. x \in 1..Word - 1 /\ x \in Nat /\ v <= x
  BY <1>1
<1>3. b \in 1..CodeBits /\ x < Pow[b]
  <2> HIDE DEF x
  <2> QED BY <1>2, ILogBounds
<1>4. s = IF b > UintBits THEN b - UintBits ELSE 0
  BY DEF Split
<1> HIDE DEF b, s, x
<1>5. s \in 0..CodeBits /\ s \in 0..CodeBits - SymBits + 1
  BY <1>1, <1>3, <1>4
<1> DEFINE p == Pow[s]
           q == High(x, s)
           t == High(v, s)
           z == Low(x, s)
           y == Low(v, s)
<1>6. /\ p \in Nat \ {0} /\ q \in Nat /\ t \in Nat /\ z \in 0..p - 1 /\ y \in 0..p - 1
      /\ x = p * q + z /\ v = p * t + y
  BY <1>2, <1>5, LowHigh, PowPositive
<1> HIDE DEF p, q, t, z, y
<1>7. t <= q
  <2>1. SUFFICES ASSUME t > q PROVE FALSE
    BY <1>6
  <2> DEFINE k == t - q - 1
  <2>2. k \in Nat /\ t = q + 1 + k
    BY <1>6, <2>1
  <2> HIDE DEF k
  <2>3. p * t = p * q + p + p * k
    BY <1>6, <2>2
  <2> DEFINE pq == p * q
             pk == p * k
             pt == p * t
  <2>4. pq \in Nat /\ pk \in Nat /\ pt = pq + p + pk /\ x = pq + z /\ v = pt + y
    BY <1>6, <2>2, <2>3
  <2> HIDE DEF pq, pk, pt
  <2> QED BY <1>2, <1>6, <2>4
<1>8. q < Pow[UintBits]
  <2>1. UintBits \in 0..CodeBits /\ Pow[UintBits] \in Nat
    BY <1>1, PowPositive
  <2>2. CASE b > UintBits
    <3>1. s \in Nat /\ s + UintBits = b /\ b <= CodeBits
      BY <1>1, <1>3, <1>4, <2>2
    <3>2. Pow[s + UintBits] = Pow[s] * Pow[UintBits]
      BY <1>1, <3>1, PowSum
    <3>3. x < p * Pow[UintBits]
      BY <1>3, <3>1, <3>2 DEF p
    <3> DEFINE u == Pow[UintBits]
    <3> HIDE DEF u
    <3>4. u \in Nat /\ x < p * u
      BY <2>1, <3>3 DEF u
    <3>5. p * q <= x
      <4>1. p * q \in Nat
        BY <1>6
      <4> DEFINE pq == p * q
      <4> HIDE DEF pq
      <4>2. x = pq + z /\ pq \in Nat
        BY <1>6, <4>1 DEF pq
      <4>3. pq <= x
        BY <1>6, <4>2
      <4> QED BY <4>3 DEF pq
    <3>6. p * q < p * u
      <4>1. p * q \in Nat /\ p * u \in Nat
        BY <1>6, <3>4
      <4> DEFINE pq == p * q
                 pu == p * u
      <4> HIDE DEF pq, pu
      <4>2. pq <= x /\ x < pu /\ pq \in Nat /\ pu \in Nat
        BY <3>4, <3>5, <4>1 DEF pq, pu
      <4>3. pq < pu
        BY <1>2, <4>2
      <4> QED BY <4>3 DEF pq, pu
    <3>7. q < u
      <4>1. SUFFICES ASSUME u <= q PROVE FALSE
        BY <1>6, <3>4
      <4>2. u \in Nat /\ q - u \in Nat /\ u + (q - u) = q
        BY <1>6, <3>4, <4>1
      <4>3. p * u <= p * (u + (q - u))
        BY <1>6, <4>2, Product
      <4>4. p * u \in Nat /\ p * q \in Nat
        BY <1>6, <3>4
      <4> QED BY <3>6, <4>2, <4>3, <4>4
    <3> QED BY <3>7 DEF u
  <2>3. CASE ~(b > UintBits)
    <3>1. s = 0 /\ p = 1
      BY <1>4, <2>3, PowStep DEF p
    <3>2. z = 0 /\ x = q
      <4>1. z = 0
        BY <1>6, <3>1
      <4> QED BY <1>6, <3>1, <4>1
    <3>3. b <= UintBits /\ b \in 0..CodeBits
      BY <1>1, <1>3, <2>3
    <3>4. Pow[b] <= Pow[UintBits] /\ Pow[b] \in Nat
      BY <2>1, <3>3, PowOrder, PowPositive
    <3> QED BY <1>2, <1>3, <2>1, <3>2, <3>4
  <2> QED BY <2>2, <2>3
<1>9. Pow[UintBits] \in 1..CodeBot /\ CodeBot \in Nat
  BY <1>1, PowShare, Widths
<1>10. q + 1 \in 1..CodeBot /\ t \in 0..q /\ y \in Nat
  BY <1>6, <1>7, <1>8, <1>9
<1> QED BY <1>5, <1>10 DEF q, t, y, s, x

LEMMA EncUintSteps ==
  ASSUME NEW rc, EncoderOK(rc), NEW ft \in 1..Word - 1, NEW v \in Nat, v < ft
  PROVE  Stepped(EncUint(rc, v, ft), rc)
<1>1. CASE ft <= 1
  <2>1. EncUint(rc, v, ft) = rc
    BY <1>1 DEF EncUint
  <2> QED BY <2>1 DEF Stepped
<1>2. CASE ~(ft <= 1)
  <2> DEFINE s == Split(ft)
             t == High(v, s)
             n == High(ft - 1, s) + 1
             e == Encode(rc, t, t + 1, n)
             y == Low(v, s)
  <2>1. EncUint(rc, v, ft) = EncBits(e, y, s)
    BY <1>2 DEF EncUint
  <2>2. ft \in 2..Word - 1
    BY <1>2, Widths
  <2>3. s \in 0..CodeBits - SymBits + 1 /\ n \in 1..CodeBot /\ t \in 0..High(ft - 1, s) /\ y \in Nat
    BY <2>2, SplitIs
  <2>4. t \in 0..n /\ t + 1 \in 0..n /\ t < t + 1
    <3> DEFINE h == High(ft - 1, s)
    <3>1. n = h + 1 /\ h + 1 \in 1..CodeBot /\ t \in 0..h
      BY <2>3
    <3>2. h \in Int
      <4>1. ft - 1 \in Nat /\ s \in 0..CodeBits
        BY <2>2, <2>3, Widths
      <4> HIDE DEF s
      <4>2. High(ft - 1, s) \in Nat
        BY <4>1, LowHigh
      <4> QED BY <4>2
    <3> HIDE DEF h, t, n
    <3> QED BY <3>1, <3>2, Widths
  <2> HIDE DEF t, n, s, y
  <2>5. Coded(e, rc)
    BY <2>3, <2>4, EncodeIs
  <2> HIDE DEF e
  <2>6. Stepped(e, rc) /\ EncoderOK(e)
    BY <2>5, CodedSteps DEF Stepped
  <2>7. Stepped(EncBits(e, y, s), e)
    BY <2>3, <2>6, RawSteps
  <2> QED BY <2>1, <2>6, <2>7, StepsCompose
<1> QED BY <1>1, <1>2

LEMMA EncodeSymbolSteps ==
  ASSUME NEW rc, EncoderOK(rc), NEW s, Codable(s)
  PROVE  Stepped(EncodeSymbol(rc, s), rc)
<1>1. s \in Symbol
  BY DEF Codable
<1>2. s.op \in {"bit", "icdf", "uint", "raw"}
  BY <1>1 DEF Symbol
<1>3. CASE s.op = "bit"
  <2>1. s.logp \in 1..CodeShift
    BY <1>1, <1>3 DEF Symbol
  <2>2. EncodeSymbol(rc, s) = EncodeBitLogp(rc, s.value = 1, s.logp)
    BY <1>3 DEF EncodeSymbol
  <2>3. Coded(EncodeBitLogp(rc, s.value = 1, s.logp), rc)
    BY <2>1, EncodeBitLogpIs
  <2> QED BY <2>2, <2>3, CodedSteps
<1>4. CASE s.op = "icdf"
  <2>1. s.value \in Nat /\ s.icdf \in Seq(Nat) /\ s.ftb \in 0..CodeShift
    BY <1>1, <1>4 DEF Symbol
  <2>2. EncodeSymbol(rc, s) = EncodeIcdf(rc, s.value, s.icdf, s.ftb)
    BY <1>4 DEF EncodeSymbol
  <2>3. s.value < Len(s.icdf) /\ IsTable(s.icdf, s.ftb)
    BY <1>4, <2>1 DEF Codable, IsTable
  <2>4. Coded(EncodeIcdf(rc, s.value, s.icdf, s.ftb), rc)
    BY <2>1, <2>3, EncodeIcdfIs
  <2> QED BY <2>2, <2>4, CodedSteps
<1>5. CASE s.op = "uint"
  <2>1. s.value \in Nat /\ s.ft \in 1..Word - 1
    BY <1>1, <1>5 DEF Symbol
  <2>2. EncodeSymbol(rc, s) = EncUint(rc, s.value, s.ft)
    BY <1>5 DEF EncodeSymbol
  <2>3. s.value < s.ft
    BY <1>5 DEF Codable
  <2> QED BY <2>1, <2>2, <2>3, EncUintSteps
<1>6. CASE s.op = "raw"
  <2>1. s.value \in Nat /\ s.n \in 0..CodeBits - SymBits + 1
    BY <1>1, <1>6 DEF Symbol
  <2>2. EncodeSymbol(rc, s) = EncBits(rc, s.value, s.n)
    BY <1>6 DEF EncodeSymbol
  <2> QED BY <2>1, <2>2, RawSteps
<1> QED BY <1>2, <1>3, <1>4, <1>5, <1>6

(***************************************************************************)
(* The start of a packet.                                                  *)
(***************************************************************************)
LEMMA Exact ==
  ASSUME NEW a \in Nat, NEW b \in Nat \ {0}
  PROVE  (a * b) \div b = a
<1> DEFINE q == (a * b) \div b
           m == (a * b) % b
<1>1. q \in Nat /\ m \in 0..b - 1 /\ a * b = b * q + m
  <2>1. a * b \in Nat
    OBVIOUS
  <2> QED BY <2>1, Division
<1> HIDE DEF q, m
<1>2. \A x \in Nat, y \in Nat : x < y => b * x + b <= b * y
  <2>1. SUFFICES ASSUME NEW x \in Nat, NEW y \in Nat, x < y PROVE b * x + b <= b * y
    OBVIOUS
  <2>2. x + 1 \in Nat /\ y - (x + 1) \in Nat /\ (x + 1) + (y - (x + 1)) = y
    BY <2>1
  <2>3. b * (x + 1) <= b * ((x + 1) + (y - (x + 1)))
    BY <2>2, Product
  <2>4. b * (x + 1) = b * x + b
    OBVIOUS
  <2> QED BY <2>2, <2>3, <2>4
<1> DEFINE z == a * b
           w == b * q
<1>3. z = b * a /\ z \in Nat /\ w \in Nat /\ z = w + m
  BY <1>1
<1>4. ~(q < a)
  <2>1. SUFFICES ASSUME q < a PROVE FALSE
    OBVIOUS
  <2>2. w + b <= z
    BY <1>1, <1>2, <1>3, <2>1
  <2> HIDE DEF w, z
  <2> QED BY <1>1, <1>3, <2>2
<1>5. ~(a < q)
  <2>1. SUFFICES ASSUME a < q PROVE FALSE
    OBVIOUS
  <2>2. z + b <= w
    BY <1>1, <1>2, <1>3, <2>1
  <2> HIDE DEF w, z
  <2> QED BY <1>1, <1>3, <2>2
<1>6. q = a
  BY <1>1, <1>4, <1>5
<1> QED BY <1>6 DEF q

LEMMA ResetIs ==
  ASSUME NEW old \in Stale, NEW size \in Sizes
  PROVE  LET fresh == ResetForEncode(old, size)
         IN  /\ EncoderOK(fresh)
             /\ fresh.rng = CodeTop /\ fresh.val = 0 /\ fresh.rem = -1
<1> DEFINE fresh == ResetForEncode(old, size)
           b == [i \in 0..size - 1 |-> IF i \in DOMAIN old THEN old[i] ELSE 0]
<1>1. SymMax \in Nat /\ CodeTop \in Nat /\ CodeBits \in Nat /\ size \in Nat /\ SymBits * 0 = 0 /\ CodeTop > CodeBot
  BY Widths, SizesPositive DEF SymMax
<1>2. b \in Contents
  <2>1. b \in [0..size - 1 -> Nat]
    BY <1>1, StaleBytes
  <2> HIDE DEF b
  <2> QED BY <2>1 DEF Contents
<1>3. fresh = [buf |-> b, storage |-> size, endOffs |-> 0, endWindow |-> 0, nendBits |-> 0,
               nbitsTotal |-> CodeBits + 1, offs |-> 0, rng |-> CodeTop, val |-> 0,
               ext |-> 0, rem |-> -1, error |-> 0]
  BY DEF ResetForEncode
<1> HIDE DEF b, fresh
<1>4. fresh \in Coder
  <2>1. CodeBits + 1 \in Nat
    BY <1>1
  <2>2. fresh \in Records
    BY <1>1, <1>2, <1>3, <2>1 DEF Records
  <2>3. fresh.buf = b /\ fresh.storage = size
    BY <1>3
  <2>4. DOMAIN b = 0..size - 1
    BY DEF b
  <2> QED BY <2>2, <2>3, <2>4 DEF Coder, Holds
<1>5. Pending(fresh) = 0
  BY <1>3 DEF Pending
<1>6. Balanced(fresh)
  <2>1. fresh.error = 0 /\ fresh.offs = 0 /\ fresh.endOffs = 0 /\ fresh.storage = size
        /\ fresh.nbitsTotal = CodeBits + 1 /\ fresh.nendBits = 0
    BY <1>3
  <2> QED BY <1>1, <1>5, <2>1 DEF Balanced
<1>7. fresh.nendBits <= CodeBits /\ fresh.rng = CodeTop /\ fresh.val = 0 /\ fresh.rem = -1
  BY <1>1, <1>3
<1> QED BY <1>1, <1>4, <1>6, <1>7, Widths DEF EncoderOK, fresh

\* Of the reserved bits, the symbol leaves the first share of the range.
LEMMA ReserveIs ==
  ASSUME NEW old \in Stale, NEW size \in Sizes, NEW n \in 1..SymBits
  PROVE  LET out == EncodeSymbol(ResetForEncode(old, size), Reserve(n))
         IN  EncoderOK(out) /\ Ahead(out, n)
<1> DEFINE fresh == ResetForEncode(old, size)
           out == EncodeSymbol(fresh, Reserve(n))
           m == SymBits - n
           a == Pow[SymBits] - Pow[m]
           table == <<a, 0>>
<1>1. EncoderOK(fresh) /\ fresh.rng = CodeTop /\ fresh.val = 0 /\ fresh.rem = -1 /\ fresh \in Coder
  BY ResetIs, OKTypes
<1>2. m \in Nat /\ m \in 0..CodeBits /\ SymBits \in 0..CodeBits /\ m < SymBits /\ n \in Nat /\ n \in 0..CodeBits
      /\ m + n = SymBits /\ SymBits <= CodeBits /\ SymBits \in 0..CodeShift /\ CodeBits \in Nat
  BY Widths
<1>3. Pow[m] \in Nat \ {0} /\ Pow[n] \in Nat \ {0} /\ Pow[SymBits] \in Nat \ {0}
      /\ 2 * Pow[m] <= Pow[SymBits] /\ Pow[SymBits] = Pow[m] * Pow[n]
  BY <1>2, PowPositive, PowOrder, PowSum
<1>4. a \in Nat /\ a > 0 /\ a < Pow[SymBits] /\ Pow[SymBits] - a = Pow[m]
  <2>1. \A x \in Nat, y \in Nat : y > 0 /\ 2 * y <= x => x - y \in Nat /\ x - y > 0 /\ x - y < x /\ x - (x - y) = y
    OBVIOUS
  <2>2. Pow[m] \in Nat /\ Pow[m] > 0 /\ Pow[SymBits] \in Nat
    BY <1>3
  <2> HIDE DEF m
  <2> QED BY <1>3, <2>1, <2>2
<1> HIDE DEF a, fresh
<1>5. out = EncodeIcdf(fresh, 0, table, SymBits)
  <2>1. Reserve(n) = [op |-> "icdf", value |-> 0, icdf |-> table, ftb |-> SymBits]
    BY DEF Reserve, a
  <2> HIDE DEF table
  <2>2. Reserve(n).op = "icdf" /\ Reserve(n).value = 0 /\ Reserve(n).icdf = table /\ Reserve(n).ftb = SymBits
    BY <2>1
  <2> HIDE DEF Reserve
  <2> QED BY <2>2 DEF EncodeSymbol
<1>6. IsTable(table, SymBits) /\ 0 \in Nat /\ 0 < Len(table) /\ table[1] = a
  BY <1>2, <1>4 DEF IsTable
<1> HIDE DEF table, out
<1>7. EncoderOK(out)
  <2>1. Coded(EncodeIcdf(fresh, 0, table, SymBits), fresh)
    BY <1>1, <1>6, EncodeIcdfIs
  <2> QED BY <1>5, <2>1 DEF Coded
<1> DEFINE g == High(CodeTop, n)
           p == [fresh EXCEPT !.rng = g]
<1>8. CodeTop \div Pow[SymBits] = CodeBot /\ g = CodeBot * Pow[m] /\ CodeBot \in Nat \ {0}
  <2>1. CodeBot \in Nat \ {0} /\ CodeTop = CodeBot * Pow[SymBits]
    BY Widths
  <2>2. CodeTop \div Pow[SymBits] = CodeBot
    BY <1>3, <2>1, Exact
  <2>3. CodeTop = (CodeBot * Pow[m]) * Pow[n]
    <3>1. \A x \in Nat, y \in Nat, z \in Nat : x * (y * z) = (x * y) * z
      OBVIOUS
    <3> QED BY <1>3, <2>1, <3>1
  <2>4. CodeBot * Pow[m] \in Nat
    BY <1>3, <2>1
  <2>5. CodeTop \div Pow[n] = CodeBot * Pow[m]
    BY <1>3, <2>3, <2>4, Exact
  <2> QED BY <2>1, <2>2, <2>5 DEF High
<1>9. EncodeIcdf(fresh, 0, table, SymBits) = NormalizeEncoder(p)
  <2>1. EncodeIcdf(fresh, 0, table, SymBits) = NormalizeEncoder([fresh EXCEPT !.rng = fresh.rng - (fresh.rng \div Pow[SymBits]) * table[1]])
    BY DEF EncodeIcdf
  <2>2. CodeTop - CodeBot * a = CodeBot * Pow[m]
    <3>1. \A x \in Nat, y \in Nat, z \in Nat, t \in Nat : y - z = t /\ z <= y => x * y - x * z = x * t
      OBVIOUS
    <3>2. CodeBot * Pow[SymBits] - CodeBot * a = CodeBot * Pow[m]
      BY <1>3, <1>4, <1>8, <3>1
    <3> QED BY <3>2, Widths
  <2>3. fresh.rng - (fresh.rng \div Pow[SymBits]) * table[1] = g
    BY <1>1, <1>6, <1>8, <2>2
  <2> QED BY <2>1, <2>3
<1>10. g \in Nat /\ g >= 1 /\ g <= CodeTop
  <2>1. \A x \in Nat, y \in Nat : x >= 1 /\ y >= 1 => x * y \in Nat /\ x * y >= 1
    OBVIOUS
  <2>2. g \in Nat /\ g >= 1
    BY <1>3, <1>8, <2>1
  <2>3. CodeTop \in Nat
    BY Widths
  <2>4. \A x \in Nat, y \in Nat : y >= 1 => x <= x * y
    OBVIOUS
  <2>5. g <= g * Pow[n]
    BY <1>3, <2>2, <2>4
  <2>6. CodeTop = g * Pow[n]
    <3>1. \A x \in Nat, y \in Nat, z \in Nat : x * (y * z) = (x * y) * z
      OBVIOUS
    <3> QED BY <1>3, <1>8, <3>1, Widths
  <2> QED BY <2>2, <2>5, <2>6
<1> HIDE DEF g
<1>11. /\ p \in Coder /\ p.rng = g /\ p.val = 0 /\ p.error = fresh.error /\ p.offs = fresh.offs
       /\ p.endOffs = fresh.endOffs /\ p.storage = fresh.storage /\ p.nbitsTotal = fresh.nbitsTotal
       /\ p.nendBits = fresh.nendBits /\ p.ext = fresh.ext /\ p.rem = fresh.rem
  <2>1. p \in Coder
    BY <1>1, <1>10, CoderFields
  <2> QED BY <1>1, <2>1 DEF Coder, Records
<1> HIDE DEF p
<1>12. RoundOK(p)
  <2>1. Balanced(fresh) \/ Overfull(fresh)
    BY <1>1 DEF EncoderOK
  <2>2. Accounted(p)
    BY <1>11, <2>1 DEF Accounted, Balanced, Overfull, Pending
  <2> QED BY <1>10, <1>11, <2>2, Widths DEF RoundOK
<1>13. out.rem < 0 => out = p
  <2>1. High(0, CodeShift) # SymMax
    <3>1. CodeShift \in 0..CodeBits /\ SymMax >= 1
      BY Widths DEF SymMax
    <3>2. Pow[CodeShift] \in Nat \ {0}
      BY <3>1, PowPositive
    <3>3. 0 \div Pow[CodeShift] = 0
      <4>1. (0 * Pow[CodeShift]) \div Pow[CodeShift] = 0
        BY <3>2, Exact
      <4>2. 0 * Pow[CodeShift] = 0
        BY <3>2
      <4> QED BY <4>1, <4>2
    <3> QED BY <3>1, <3>3 DEF High
  <2> QED BY <1>5, <1>9, <1>11, <1>12, <2>1, NormalizeEncoderIs
<1>14. out.rem < 0 => out.val + out.rng <= g
  BY <1>10, <1>11, <1>13
<1> QED BY <1>7, <1>14 DEF Ahead, out, fresh, g

LEMMA InitOK ==
  ASSUME Init
  PROVE  IInv
<1>1. phase = "write"
  BY DEF Init
<1>2. PICK old \in Stale, size \in Sizes, n \in Reserves :
        IF n = 0 THEN enc = ResetForEncode(old, size) /\ sent = <<>>
        ELSE /\ enc = EncodeSymbol(ResetForEncode(old, size), Reserve(n))
             /\ sent = <<Entry([op |-> "flags", value |-> 0, n |-> n], EncodeSymbol(ResetForEncode(old, size), Reserve(n)))>>
  BY DEF Init
<1>3. n \in 0..SymBits
  BY ReservesFit
<1>4. CASE n = 0
  <2>1. EncoderOK(enc) /\ sent = <<>>
    BY <1>2, <1>4, ResetIs
  <2>2. sent \in Seq(Entries) /\ FlagsAhead
    BY <2>1 DEF FlagsAhead
  <2> QED BY <1>1, <2>1, <2>2 DEF IInv, FitMeansWritten
<1>5. CASE n # 0
  <2>1. n \in 1..SymBits
    BY <1>3, <1>5, Widths
  <2>2. EncoderOK(enc) /\ Ahead(enc, n)
    BY <1>2, <1>5, <2>1, ReserveIs
  <2> DEFINE e == Entry([op |-> "flags", value |-> 0, n |-> n], enc)
  <2>3. sent = <<e>>
    BY <1>2, <1>5
  <2>4. e.symbol.n = n /\ e.symbol.value = 0
    BY DEF Entry
  <2>7. e \in Entries
    <3>1. enc.rng \in Nat /\ enc.nbitsTotal \in Nat
      BY <2>2, OKTypes
    <3> DEFINE f == [op |-> "flags", value |-> 0, n |-> n]
    <3>2. f \in Flags
      BY <2>1 DEF Flags
    <3> HIDE DEF f
    <3>3. Entry(f, enc) \in Entries
      BY <3>1, <3>2 DEF Entry, Entries
    <3> QED BY <3>3 DEF f
  <2> HIDE DEF e
  <2>5. sent[1] = e
    BY <2>3
  <2>6. FlagsAhead
    BY <2>1, <2>2, <2>4, <2>5 DEF FlagsAhead, Ahead
  <2>8. sent \in Seq(Entries)
    BY <2>3, <2>7
  <2> QED BY <1>1, <2>2, <2>6, <2>8 DEF IInv, FitMeansWritten
<1> QED BY <1>4, <1>5

(***************************************************************************)
(* The steps of a packet that is being written.                            *)
(***************************************************************************)
LEMMA EntryIn ==
  ASSUME NEW s \in Symbol, NEW rc \in Coder
  PROVE  Entry(s, rc) \in Entries /\ Entry(s, rc).symbol = s
  BY CoderTypes DEF Entry, Entries

LEMMA WriteOK ==
  ASSUME IInv, NEW s \in Alphabet, Write(s)
  PROVE  IInv'
<1>1. /\ phase = "write" /\ phase' = "write" /\ enc' = EncodeSymbol(enc, s)
      /\ sent' = Append(sent, Entry(s, enc'))
  BY DEF Write
<1>2. EncoderOK(enc) /\ FlagsAhead /\ sent \in Seq(Entries)
  BY <1>1 DEF IInv
<1>3. Codable(s) /\ s \in Symbol
  BY AlphabetCodable DEF Codable
<1>4. Stepped(enc', enc) /\ EncoderOK(enc') /\ enc' \in Coder
  BY <1>1, <1>2, <1>3, EncodeSymbolSteps DEF Stepped, EncoderOK
<1> DEFINE e == Entry(s, enc')
<1>5. e \in Entries /\ e.symbol = s
  BY <1>3, <1>4, EntryIn
<1> HIDE DEF e
<1>6. sent' \in Seq(Entries)
  BY <1>1, <1>2, <1>5 DEF e
<1>7. FlagsAhead'
  <2>1. CASE sent = <<>>
    <3>1. sent'[1] = e
      BY <1>1, <2>1 DEF e
    <3>2. s.op # "flags"
      BY <1>3 DEF Symbol
    <3> QED BY <1>5, <3>1, <3>2 DEF FlagsAhead
  <2>2. CASE sent # <<>>
    <3>1. sent'[1] = sent[1]
      BY <1>1, <1>2, <1>5, <2>2 DEF e
    <3>2. SUFFICES ASSUME sent'[1].symbol.op = "flags"
                   PROVE  /\ sent[1].symbol.n \in 1..SymBits
                          /\ sent[1].symbol.value = 0 /\ enc'.rem < 0 =>
                               enc'.val + enc'.rng <= High(CodeTop, sent[1].symbol.n)
      BY <3>1 DEF FlagsAhead
    <3> DEFINE n == sent[1].symbol.n
    <3>3. n \in 1..SymBits /\ (sent[1].symbol.value = 0 => Ahead(enc, n))
      BY <1>2, <2>2, <3>1, <3>2 DEF FlagsAhead, Ahead
    <3> HIDE DEF n
    <3>4. Ahead(enc, n) => Ahead(enc', n)
      BY <1>4, <3>3 DEF Stepped
    <3> QED BY <3>3, <3>4 DEF Ahead, n
  <2> QED BY <2>1, <2>2
<1>8. FitMeansWritten'
  BY <1>1 DEF FitMeansWritten
<1> QED BY <1>1, <1>4, <1>6, <1>7, <1>8 DEF IInv

LEMMA ShrinkToIs ==
  ASSUME NEW rc, EncoderOK(rc), NEW size \in Nat, rc.offs + rc.endOffs <= size, size < rc.storage
  PROVE  LET out == ShrinkTo(rc, size)
         IN  EncoderOK(out) /\ out.val = rc.val /\ out.rng = rc.rng /\ out.rem = rc.rem
<1> DEFINE f == [i \in DOMAIN rc.buf |->
                   IF i \in size - rc.endOffs..size - 1 THEN rc.buf[i + rc.storage - size] ELSE rc.buf[i]]
           w == [rc EXCEPT !.storage = size, !.buf = f]
           u == [rc EXCEPT !.storage = size]
<1>1. rc \in Coder /\ rc.nendBits <= CodeBits /\ rc.rng > CodeBot /\ rc.rng <= CodeTop /\ Accounted(rc)
  BY DEF EncoderOK, Accounted
<1>2. rc.storage \in Nat /\ rc.offs \in Nat /\ rc.endOffs \in Nat /\ rc.buf \in Contents /\ rc.nbitsTotal \in Nat
  BY <1>1, CoderTypes
<1>3. f \in Contents
  <2>1. PICK n \in Sizes : rc.buf \in [0..n - 1 -> Nat]
    BY <1>2 DEF Contents
  <2>2. n \in Nat
    BY SizesPositive
  <2>3. \A j \in 0..rc.storage - 1 : j \in 0..n - 1
    BY <1>1, <2>1, <2>2 DEF Coder, Holds
  <2>4. f \in [0..n - 1 -> Nat]
    <3>1. ASSUME NEW i \in 0..n - 1 PROVE f[i] \in Nat
      <4>1. CASE i \in size - rc.endOffs..size - 1
        <5>1. i + rc.storage - size \in 0..rc.storage - 1
          BY <1>2, <2>2, <4>1
        <5>2. rc.buf[i + rc.storage - size] \in Nat
          BY <2>1, <2>3, <5>1
        <5> QED BY <2>1, <4>1, <5>2
      <4>2. CASE ~(i \in size - rc.endOffs..size - 1)
        BY <2>1, <4>2
      <4> QED BY <4>1, <4>2
    <3>2. f = [i \in 0..n - 1 |-> f[i]]
      BY <2>1
    <3> HIDE DEF f
    <3> QED BY <3>1, <3>2
  <2> HIDE DEF f
  <2> QED BY <2>4 DEF Contents
<1>4. DOMAIN f = DOMAIN rc.buf
  OBVIOUS
<1>5. ShrinkTo(rc, size) = w
  BY DEF ShrinkTo
<1> HIDE DEF f
<1>6. w \in Coder
  <2>1. u \in Coder
    <3>1. size <= rc.storage
      BY <1>2
    <3> QED BY <1>1, <3>1, CoderFields
  <2>2. u.buf = rc.buf
    BY <1>1 DEF Coder, Records
  <2>3. [u EXCEPT !.buf = f] \in Coder
    <3> HIDE DEF u
    <3>1. 0 \in Nat
      OBVIOUS
    <3> QED BY <1>3, <1>4, <2>1, <2>2, <3>1, CoderFields
  <2>4. w = [u EXCEPT !.buf = f]
    BY <1>1 DEF Coder, Records
  <2> QED BY <2>3, <2>4
<1>7. /\ w.storage = size /\ w.endOffs = rc.endOffs /\ w.nendBits = rc.nendBits /\ w.nbitsTotal = rc.nbitsTotal
      /\ w.rng = rc.rng /\ w.val = rc.val
      /\ w.offs = rc.offs /\ w.error = rc.error /\ w.ext = rc.ext /\ w.rem = rc.rem
  BY <1>1 DEF Coder, Records
<1> HIDE DEF w
<1>8. Balanced(rc) => Balanced(w)
  BY <1>7 DEF Balanced, Pending
<1>9. Overfull(rc) => Overfull(w)
  <2> DEFINE x == SymBits * rc.storage
             y == SymBits * size
  <2>1. y <= x /\ y \in Nat /\ x \in Nat /\ CodeBits \in Nat
    BY <1>2, Scaled, Widths
  <2> HIDE DEF x, y
  <2>2. rc.nbitsTotal > CodeBits + x => rc.nbitsTotal > CodeBits + y
    BY <1>2, <2>1
  <2> QED BY <1>7, <2>2 DEF Overfull, x, y
<1>10. EncoderOK(w)
  BY <1>1, <1>6, <1>7, <1>8, <1>9 DEF EncoderOK, Accounted
<1> QED BY <1>5, <1>7, <1>10

LEMMA ShrinkOK ==
  ASSUME IInv, NEW size \in Sizes, Shrink(size)
  PROVE  IInv'
<1>1. /\ phase = "write" /\ phase' = "write" /\ enc' = ShrinkTo(enc, size) /\ sent' = sent
      /\ enc.offs + enc.endOffs <= size /\ size < enc.storage
  BY DEF Shrink
<1>2. EncoderOK(enc) /\ FlagsAhead /\ sent \in Seq(Entries) /\ size \in Nat
  BY <1>1, SizesPositive DEF IInv
<1>3. EncoderOK(enc') /\ enc'.val = enc.val /\ enc'.rng = enc.rng /\ enc'.rem = enc.rem
  BY <1>1, <1>2, ShrinkToIs
<1>4. FlagsAhead'
  BY <1>1, <1>2, <1>3 DEF FlagsAhead
<1> QED BY <1>1, <1>2, <1>3, <1>4 DEF IInv, FitMeansWritten

LEMMA PatchedIs ==
  ASSUME NEW x \in Nat, NEW v \in Nat, NEW above \in 0..CodeBits, NEW n \in Nat, above + n <= CodeBits
  PROVE  Low(x, above) + v * Pow[above] + High(x, above + n) * Pow[above + n] \in Nat
<1>1. above + n \in 0..CodeBits
  BY Widths
<1> DEFINE a == Low(x, above)
           b == Pow[above]
           c == High(x, above + n)
           d == Pow[above + n]
<1>2. b \in Nat \ {0} /\ d \in Nat \ {0}
  BY <1>1, PowPositive
<1>3. a \in 0..b - 1 /\ c \in Nat
  BY <1>1, LowHigh
<1> HIDE DEF a, b, c, d
<1>4. a + v * b + c * d \in Nat
  BY <1>2, <1>3
<1> QED BY <1>4 DEF a, b, c, d

LEMMA PatchOK ==
  ASSUME IInv, NEW v \in 1..SymMax, Patch(v)
  PROVE  IInv'
<1> DEFINE n == sent[1].symbol.n
           above == SymBits - n
           P(x, k) == Low(x, k) + v * Pow[k] + High(x, k + n) * Pow[k + n]
<1>1. /\ phase = "write" /\ phase' = "write" /\ sent # <<>> /\ sent[1].symbol.op = "flags"
      /\ sent[1].symbol.value = 0
      /\ enc' = PatchInitialBits(enc, v, n) /\ sent' = [sent EXCEPT ![1].symbol.value = v]
  BY DEF Patch
<1>2. EncoderOK(enc) /\ FlagsAhead /\ sent \in Seq(Entries) /\ v \in Nat /\ v # 0
  <2>1. EncoderOK(enc) /\ FlagsAhead /\ sent \in Seq(Entries)
    BY <1>1 DEF IInv
  <2>2. v \in Nat /\ v # 0
    BY Widths DEF SymMax
  <2> QED BY <2>1, <2>2
<1>3. n \in 1..SymBits /\ (enc.rem < 0 => enc.val + enc.rng <= High(CodeTop, n))
  BY <1>1, <1>2 DEF FlagsAhead
<1>4. sent' \in Seq(Entries) /\ sent' # <<>> /\ sent'[1].symbol.n = n /\ sent'[1].symbol.value = v
  <2>1. sent[1] \in Entries /\ 1 \in 1..Len(sent)
    BY <1>1, <1>2
  <2>2. sent[1].symbol \in Flags
    BY <1>1, <2>1 DEF Entries, Symbol
  <2> DEFINE e == [sent[1] EXCEPT !.symbol.value = v]
  <2>3. e \in Entries /\ e.symbol.n = n /\ e.symbol.value = v
    BY <1>2, <2>1, <2>2 DEF Entries, Flags
  <2>4. sent' = [sent EXCEPT ![1] = e]
    BY <1>1
  <2> HIDE DEF e, n
  <2>5. sent' \in Seq(Entries) /\ sent' # <<>> /\ sent'[1] = e
    BY <1>1, <1>2, <2>1, <2>3, <2>4
  <2> QED BY <2>3, <2>5
<1>5. FlagsAhead'
  BY <1>2, <1>3, <1>4 DEF FlagsAhead
<1> HIDE DEF n
<1>6. enc \in Coder /\ enc.nendBits <= CodeBits /\ enc.rng > CodeBot /\ enc.rng <= CodeTop /\ Accounted(enc)
      /\ enc.offs \in Nat /\ enc.rem \in Nat \cup {-1} /\ enc.val \in Nat /\ enc.rng \in Nat /\ enc.buf \in Contents
  BY <1>2, CoderTypes DEF EncoderOK, Accounted
<1>7. above \in 0..CodeBits /\ above + n = SymBits /\ above + n <= CodeBits /\ n \in Nat
      /\ CodeShift + SymBits - n \in 0..CodeBits /\ (CodeShift + SymBits - n) + n <= CodeBits
  BY <1>3, Widths
<1>8. EncoderOK(enc')
  <2>1. CASE enc.offs > 0
    <3> DEFINE x == enc.buf[0]
               f == [enc.buf EXCEPT ![0] = P(x, above)]
               w == [enc EXCEPT !.buf = f]
    <3>1. enc' = w
      BY <1>1, <2>1 DEF PatchInitialBits
    <3>2. f \in Contents /\ DOMAIN f = DOMAIN enc.buf
      <4>1. CASE 0 \in DOMAIN enc.buf
        <5>1. x \in Nat
          BY <1>6, <4>1 DEF Contents
        <5> HIDE DEF x, above
        <5>2. P(x, above) \in Nat
          BY <1>2, <1>7, <5>1, PatchedIs
        <5> HIDE DEF P
        <5> QED BY <1>6, <5>2, WriteBuffer
      <4>2. CASE 0 \notin DOMAIN enc.buf
        <5>1. f = enc.buf
          <6> HIDE DEF P
          <6> QED BY <1>6, <4>2 DEF Contents
        <5> QED BY <1>6, <5>1
      <4> QED BY <4>1, <4>2
    <3> HIDE DEF f
    <3>3. w \in Coder
      <4>1. 0 \in Nat
        OBVIOUS
      <4> QED BY <1>6, <3>2, <4>1, CoderFields
    <3>4. /\ w.storage = enc.storage /\ w.endOffs = enc.endOffs /\ w.nendBits = enc.nendBits
          /\ w.nbitsTotal = enc.nbitsTotal /\ w.rng = enc.rng
          /\ w.offs = enc.offs /\ w.error = enc.error /\ w.ext = enc.ext /\ w.rem = enc.rem
      BY <1>6 DEF Coder, Records
    <3> HIDE DEF w
    <3> QED BY <1>6, <3>1, <3>3, <3>4 DEF EncoderOK, Accounted, Balanced, Overfull, Pending
  <2>2. CASE enc.offs = 0 /\ enc.rem >= 0
    <3> DEFINE y == P(enc.rem, above)
               w == [enc EXCEPT !.rem = y]
    <3>1. enc' = w
      <4> DEFINE a == enc.offs > 0
                 b == enc.offs = 0 /\ enc.rem >= 0
                 c == enc.offs = 0 /\ enc.rem < 0 /\ enc.rng <= High(CodeTop, n)
      <4>1. ~a /\ b /\ ~c
        BY <1>6, <2>2
      <4>2. enc' = CASE a -> [enc EXCEPT !.buf[0] = P(@, above)]
                     [] b -> w
                     [] c -> [enc EXCEPT !.val = P(@, CodeShift + SymBits - n)]
                     [] OTHER -> [enc EXCEPT !.error = -1]
        BY <1>1, Zenon DEF PatchInitialBits
      <4> HIDE DEF a, b, c, w
      <4> QED BY <4>1, <4>2
    <3>2. y \in Nat
      <4>1. enc.rem \in Nat
        BY <1>6, <2>2
      <4> HIDE DEF above
      <4> QED BY <1>2, <1>7, <4>1, PatchedIs
    <3> HIDE DEF y
    <3>3. w \in Coder
      BY <1>6, <3>2, CoderFields
    <3>4. /\ w.storage = enc.storage /\ w.endOffs = enc.endOffs /\ w.nendBits = enc.nendBits
          /\ w.nbitsTotal = enc.nbitsTotal /\ w.rng = enc.rng
          /\ w.offs = enc.offs /\ w.error = enc.error /\ w.ext = enc.ext /\ w.rem = y
      BY <1>6 DEF Coder, Records
    <3> HIDE DEF w
    <3>5. Pending(w) = Pending(enc)
      BY <2>2, <3>2, <3>4 DEF Pending
    <3> QED BY <1>6, <3>1, <3>3, <3>4, <3>5 DEF EncoderOK, Accounted, Balanced, Overfull
  <2>3. CASE enc.offs = 0 /\ enc.rem < 0
    <3>1. enc.rng <= High(CodeTop, n)
      <4>1. High(CodeTop, n) \in Nat
        <5>1. n \in 0..CodeBits /\ CodeTop \in Nat
          BY <1>3, Widths
        <5> QED BY <5>1, LowHigh
      <4> QED BY <1>3, <1>6, <2>3, <4>1
    <3> DEFINE k == CodeShift + SymBits - n
               y == P(enc.val, k)
               w == [enc EXCEPT !.val = y]
    <3>2. enc' = w
      <4>1. ~(enc.offs > 0) /\ ~(enc.rem >= 0)
        BY <1>6, <2>3
      <4> DEFINE a == enc.offs > 0
                 b == enc.offs = 0 /\ enc.rem >= 0
                 c == enc.offs = 0 /\ enc.rem < 0 /\ enc.rng <= High(CodeTop, n)
      <4>2. ~a /\ ~b /\ c
        BY <2>3, <3>1, <4>1
      <4>3. enc' = CASE a -> [enc EXCEPT !.buf[0] = P(@, above)]
                     [] b -> [enc EXCEPT !.rem = P(@, above)]
                     [] c -> w
                     [] OTHER -> [enc EXCEPT !.error = -1]
        BY <1>1, Zenon DEF PatchInitialBits
      <4> HIDE DEF a, b, c, w
      <4> QED BY <4>2, <4>3
    <3>3. y \in Nat
      <4> HIDE DEF k
      <4>1. k \in 0..CodeBits /\ k + n <= CodeBits
        BY <1>7 DEF k
      <4> QED BY <1>2, <1>6, <1>7, <4>1, PatchedIs
    <3> HIDE DEF y
    <3>4. w \in Coder
      BY <1>6, <3>3, CoderFields
    <3>5. /\ w.storage = enc.storage /\ w.endOffs = enc.endOffs /\ w.nendBits = enc.nendBits
          /\ w.nbitsTotal = enc.nbitsTotal /\ w.rng = enc.rng
          /\ w.offs = enc.offs /\ w.error = enc.error /\ w.ext = enc.ext /\ w.rem = enc.rem
      BY <1>6 DEF Coder, Records
    <3> HIDE DEF w
    <3> QED BY <1>6, <3>2, <3>4, <3>5 DEF EncoderOK, Accounted, Balanced, Overfull, Pending
  <2>4. enc.offs > 0 \/ (enc.offs = 0 /\ enc.rem >= 0) \/ (enc.offs = 0 /\ enc.rem < 0)
    BY <1>6
  <2> QED BY <2>1, <2>2, <2>3, <2>4
<1> QED BY <1>1, <1>4, <1>5, <1>8 DEF IInv, FitMeansWritten

(***************************************************************************)
(* Padding: the bytes it needs are there.                                  *)
(***************************************************************************)
LEMMA PaddedIs ==
  ASSUME NEW rc, EncoderOK(rc), Balanced(rc), NEW n \in Nat, SymBits * (Pending(rc) + rc.endOffs + n) <= SymBits * rc.storage
  PROVE  LET room == rc.storage - rc.offs - rc.endOffs
             m == IF n < room THEN n ELSE room
             w == [rc EXCEPT !.buf = [i \in DOMAIN rc.buf |->
                                        IF i \in rc.storage - rc.endOffs - m..rc.storage - rc.endOffs - 1
                                        THEN 0 ELSE rc.buf[i]],
                             !.endOffs = @ + m,
                             !.error = IF m < n THEN 1 ELSE @,
                             !.nbitsTotal = @ + n * SymBits]
         IN  EncoderOK(w) /\ w.nbitsTotal = rc.nbitsTotal + n * SymBits
<1> DEFINE room == rc.storage - rc.offs - rc.endOffs
           m == IF n < room THEN n ELSE room
           f == [i \in DOMAIN rc.buf |->
                   IF i \in rc.storage - rc.endOffs - m..rc.storage - rc.endOffs - 1 THEN 0 ELSE rc.buf[i]]
           w == [rc EXCEPT !.buf = f, !.endOffs = @ + m, !.error = IF m < n THEN 1 ELSE @,
                           !.nbitsTotal = @ + n * SymBits]
<1>1. rc \in Coder /\ rc.nendBits <= CodeBits /\ rc.rng > CodeBot /\ rc.rng <= CodeTop
  BY DEF EncoderOK
<1>2. /\ rc.storage \in Nat /\ rc.offs \in Nat /\ rc.endOffs \in Nat /\ rc.buf \in Contents /\ rc.nbitsTotal \in Nat
      /\ Pending(rc) \in Nat /\ rc.offs <= Pending(rc) /\ rc.error = 0 /\ rc.nendBits \in Nat
  BY <1>1, CoderTypes DEF Balanced
<1>3. Pending(rc) + rc.endOffs + n <= rc.storage
  <2>1. Pending(rc) + rc.endOffs + n \in Nat
    BY <1>2
  <2> QED BY <1>2, <2>1, Scaled
<1>4. m = n
  BY <1>2, <1>3
<1> HIDE DEF m
<1>5. f \in Contents /\ DOMAIN f = DOMAIN rc.buf
  <2>1. PICK k \in Sizes : rc.buf \in [0..k - 1 -> Nat]
    BY <1>2 DEF Contents
  <2>2. f \in [0..k - 1 -> Nat]
    BY <2>1
  <2> QED BY <2>1, <2>2 DEF Contents
<1> DEFINE e == rc.endOffs + n
           t == rc.nbitsTotal + n * SymBits
<1>6. e \in Nat /\ t \in Nat
  BY <1>2, Widths
<1>7. w = [rc EXCEPT !.buf = f, !.endOffs = e, !.nbitsTotal = t]
  <2>1. w = [rc EXCEPT !.buf = f, !.endOffs = e, !.error = rc.error, !.nbitsTotal = t]
    <3>1. ~(m < n)
      BY <1>4
    <3> HIDE DEF f
    <3> QED BY <1>4, <3>1
  <2> HIDE DEF w, f, e, t
  <2> QED BY <1>1, <2>1 DEF Coder, Records
<1> HIDE DEF f, e, t, w
<1>8. w \in Coder
  <2> DEFINE a == [rc EXCEPT !.buf = f]
             b == [a EXCEPT !.endOffs = e]
  <2>1. a \in Coder
    <3>1. 0 \in Nat
      OBVIOUS
    <3> QED BY <1>1, <1>5, <3>1, CoderFields
  <2>2. b \in Coder
    <3> HIDE DEF a
    <3> QED BY <1>6, <2>1, CoderFields
  <2>3. [b EXCEPT !.nbitsTotal = t] \in Coder
    <3> HIDE DEF b
    <3> QED BY <1>6, <2>2, CoderFields
  <2>4. w = [b EXCEPT !.nbitsTotal = t]
    BY <1>1, <1>7 DEF Coder, Records
  <2> QED BY <2>3, <2>4
<1>9. /\ w.storage = rc.storage /\ w.endOffs = e /\ w.nendBits = rc.nendBits /\ w.nbitsTotal = t
      /\ w.rng = rc.rng /\ w.offs = rc.offs /\ w.error = rc.error /\ w.ext = rc.ext /\ w.rem = rc.rem
  BY <1>1, <1>7 DEF Coder, Records
<1>10. Pending(w) = Pending(rc)
  BY <1>9 DEF Pending
<1>11. Balanced(w)
  <2> DEFINE p == Pending(rc) + rc.endOffs
             x == SymBits * p
             y == SymBits * n
  <2>1. p \in Nat /\ Pending(rc) + e = p + n
    BY <1>2 DEF e
  <2>2. SymBits * (p + n) = x + y /\ x \in Nat /\ y \in Nat /\ n * SymBits = y
    BY <2>1, Scaled, Widths
  <2>3. rc.nbitsTotal = CodeBits + 1 + x + rc.nendBits
    BY DEF Balanced
  <2>4. t = CodeBits + 1 + (x + y) + rc.nendBits
    <3>1. t = rc.nbitsTotal + y
      BY <2>2 DEF t
    <3> HIDE DEF x, y
    <3> QED BY <1>2, <2>2, <2>3, <3>1, Widths
  <2>5. w.offs + w.endOffs <= w.storage
    BY <1>2, <1>3, <1>9 DEF e
  <2>6. w.nbitsTotal = CodeBits + 1 + SymBits * (Pending(w) + w.endOffs) + w.nendBits
    BY <1>9, <1>10, <2>1, <2>2, <2>4
  <2> QED BY <1>2, <1>9, <2>5, <2>6 DEF Balanced
<1>12. EncoderOK(w)
  BY <1>1, <1>8, <1>9, <1>11 DEF EncoderOK
<1> QED BY <1>9, <1>12 DEF w, f, t, m

LEMMA PadToBitsIs ==
  ASSUME NEW rc, EncoderOK(rc)
  PROVE  EncoderOK(PadToBits(rc, SymBits * rc.storage)) /\ PadToBits(rc, SymBits * rc.storage).storage = rc.storage
<1> DEFINE target == SymBits * rc.storage
           left == target - rc.nbitsTotal
           partial == (SymBits - (rc.nendBits % SymBits)) % SymBits
           p == PadBytes(rc, target)
           r == p.aligned
           n == p.bytes
<1>1. rc \in Coder /\ rc.storage \in Nat /\ rc.nbitsTotal \in Nat /\ rc.nendBits \in Nat
  BY OKTypes, CoderTypes
<1>2. target \in Nat /\ SymBits \in Nat \ {0} /\ CodeBits \in Nat /\ SymBits <= CodeBits - SymBits + 1 /\ 0 \in Nat
  BY <1>1, Scaled, Widths
<1>3. CASE target <= rc.nbitsTotal
  <2>1. PadToBits(rc, target) = rc
    BY <1>3 DEF PadToBits
  <2> QED BY <2>1
<1>4. CASE ~(target <= rc.nbitsTotal)
  <2>1. left \in Nat
    BY <1>1, <1>2, <1>4
  <2>2. partial \in 0..SymBits - 1
    <3>1. rc.nendBits % SymBits \in 0..SymBits - 1
      BY <1>1, <1>2
    <3> DEFINE x == rc.nendBits % SymBits
    <3> HIDE DEF x
    <3>2. SymBits - x \in Nat
      BY <1>2, <3>1 DEF x
    <3>3. (SymBits - x) % SymBits \in 0..SymBits - 1
      BY <1>2, <3>2
    <3> QED BY <3>3 DEF x
  <2>3. r = (IF left >= partial THEN EncBits(rc, 0, partial) ELSE rc)
        /\ n = (IF left >= partial THEN left - partial ELSE left) \div SymBits
    BY DEF PadBytes
  <2> DEFINE whole == IF left >= partial THEN left - partial ELSE left
  <2> HIDE DEF p, partial, left
  <2>4. EncoderOK(r) /\ r.storage = rc.storage /\ r.nbitsTotal + whole = target
        /\ whole \in Nat /\ r.nbitsTotal \in Nat
    <3>1. CASE left >= partial
      <4>1. partial \in 0..CodeBits - SymBits + 1 /\ partial \in Nat
        BY <1>2, <2>2
      <4>2. r = EncBits(rc, 0, partial)
        BY <2>3, <3>1
      <4>3. Stepped(r, rc)
        BY <1>2, <4>1, <4>2, RawSteps
      <4>4. r.nbitsTotal = rc.nbitsTotal + partial
        <5>1. rc.nendBits <= CodeBits /\ Accounted(rc)
          BY DEF EncoderOK, Accounted
        <5> HIDE DEF r
        <5>2. EncBits(rc, 0, partial).nbitsTotal = rc.nbitsTotal + partial
          BY <1>1, <1>2, <4>1, <5>1, EncBitsIs
        <5> QED BY <4>2, <5>2
      <4>5. EncoderOK(r) /\ r.storage = rc.storage
        BY <4>3 DEF Stepped
      <4>6. whole = left - partial
        BY <3>1
      <4> HIDE DEF target, whole
      <4> QED BY <1>1, <1>2, <2>1, <2>2, <3>1, <4>1, <4>4, <4>5, <4>6 DEF left
    <3>2. CASE ~(left >= partial)
      <4>1. r = rc /\ whole = left
        BY <2>3, <3>2
      <4> HIDE DEF target, whole
      <4> QED BY <1>1, <1>2, <2>1, <4>1 DEF left
    <3> QED BY <3>1, <3>2
  <2> HIDE DEF whole
  <2>5. n \in Nat /\ whole % SymBits \in 0..SymBits - 1 /\ whole = SymBits * n + (whole % SymBits)
    <3>1. n = whole \div SymBits
      BY <2>3 DEF whole
    <3> HIDE DEF n
    <3> QED BY <1>2, <2>4, <3>1, Division
  <2> HIDE DEF r, n
  <2> DEFINE rest == whole % SymBits
             y == SymBits * n
  <2>6. rest \in 0..SymBits - 1 /\ y \in Nat /\ whole = y + rest /\ n * SymBits = y
    BY <1>2, <2>5
  <2> HIDE DEF rest, y
  <2> DEFINE room == r.storage - r.offs - r.endOffs
             m == IF n < room THEN n ELSE room
             w == [r EXCEPT !.buf = [i \in DOMAIN r.buf |->
                                       IF i \in r.storage - r.endOffs - m..r.storage - r.endOffs - 1
                                       THEN 0 ELSE r.buf[i]],
                            !.endOffs = @ + m,
                            !.error = IF m < n THEN 1 ELSE @,
                            !.nbitsTotal = @ + n * SymBits]
             end == IF n > 0 THEN w ELSE r
  <2>7. PadToBits(rc, target) = EncBits(end, 0, target - end.nbitsTotal)
    BY <1>4, Zenon DEF PadToBits, r, n, p
  <2>8. EncoderOK(w) /\ w.nbitsTotal = r.nbitsTotal + n * SymBits
    <3>1. Balanced(r)
      <4>1. ~Overfull(r)
        BY <1>2, <2>4 DEF Overfull
      <4> QED BY <2>4, <4>1 DEF EncoderOK
    <3>2. r \in Coder /\ Pending(r) \in Nat /\ r.endOffs \in Nat /\ r.nendBits \in Nat /\ r.storage \in Nat
      BY <2>4, OKTypes, CoderTypes
    <3> DEFINE q == Pending(r) + r.endOffs
               x == SymBits * q
    <3>7. q \in Nat
      BY <3>2
    <3>3. q \in Nat /\ x \in Nat /\ SymBits * (q + n) = x + y
      <4> HIDE DEF q
      <4> QED BY <2>5, <3>7, Scaled DEF y
    <3>4. r.nbitsTotal = CodeBits + 1 + x + r.nendBits
      BY <3>1 DEF Balanced
    <3> HIDE DEF x
    <3>5. x + y <= target
      <4> HIDE DEF target
      <4> QED BY <1>2, <2>4, <2>6, <3>2, <3>3, <3>4
    <3>6. SymBits * (Pending(r) + r.endOffs + n) <= SymBits * r.storage
      BY <2>4, <3>3, <3>5
    <3> QED BY <2>4, <2>5, <3>1, <3>6, PaddedIs, ZenonT(60)
  <2>9. w.storage = r.storage
    <3>1. r \in Coder
      BY <2>4, OKTypes
    <3> HIDE DEF m
    <3> QED BY <3>1 DEF Coder, Records
  <2> HIDE DEF w
  <2>10. EncoderOK(end) /\ end.storage = rc.storage /\ end.nbitsTotal + rest = target
    <3>1. CASE n > 0
      <4>1. end = w
        BY <3>1
      <4> HIDE DEF target
      <4> QED BY <1>2, <2>4, <2>6, <2>8, <2>9, <4>1
    <3>2. CASE ~(n > 0)
      <4>1. end = r /\ n = 0
        BY <2>5, <3>2
      <4>2. y = 0
        BY <1>2, <4>1 DEF y
      <4> HIDE DEF target
      <4> QED BY <1>2, <2>4, <2>6, <4>1, <4>2
    <3> QED BY <3>1, <3>2
  <2> HIDE DEF end, target
  <2>11. end.nbitsTotal \in Nat
    BY <2>10, OKTypes
  <2>12. target - end.nbitsTotal = rest /\ rest \in 0..CodeBits - SymBits + 1
    BY <1>2, <2>6, <2>10, <2>11
  <2>13. Stepped(EncBits(end, 0, rest), end)
    BY <1>2, <2>10, <2>12, RawSteps
  <2> QED BY <2>7, <2>10, <2>12, <2>13 DEF Stepped, target
<1> QED BY <1>3, <1>4

(***************************************************************************)
(* The end of a packet: its code, its raw bits and what tell() counted.    *)
(***************************************************************************)
LEMMA FinalBitsAre ==
  ASSUME NEW rc, EncoderOK(rc)
  PROVE  LET f == FinalBits(rc)
         IN  f.end \in Nat /\ f.l \in {CodeBits - ILog(rc.rng), CodeBits - ILog(rc.rng) + 1}
             /\ ILog(rc.rng) \in 1..CodeBits
<1> DEFINE b == ILog(rc.rng)
           l == CodeBits - b
           Up(k) == ((rc.val + Pow[CodeBits - 1 - k] - 1) \div Pow[CodeBits - 1 - k]) * Pow[CodeBits - 1 - k]
           Last(k) == Up(k) + Pow[CodeBits - 1 - k] - 1
<1>1. rc.rng \in 1..Word - 1 /\ rc.val \in Nat /\ rc.rng > CodeBot /\ CodeBot >= 4 /\ CodeBot \in Nat /\ CodeBits \in Nat
      /\ rc.rng \in Nat
  BY OKTypes, Widths
<1>2. b \in 1..CodeBits /\ rc.rng < Pow[b]
  BY <1>1, ILogBounds
<1> HIDE DEF b
<1>3. b > 2
  <2>1. SUFFICES ASSUME b <= 2 PROVE FALSE
    BY <1>1, <1>2
  <2>2. 2 \in 0..CodeBits /\ 1 \in 1..CodeBits /\ 2 \in 1..CodeBits /\ b \in 0..CodeBits
    BY <1>1, <1>2, Widths
  <2>3. Pow[2] = 2 * Pow[2 - 1] /\ Pow[1] = 2 * Pow[1 - 1] /\ Pow[0] = 1
    BY <2>2, PowStep
  <2>4. Pow[b] <= Pow[2] /\ Pow[b] \in Nat
    BY <2>1, <2>2, PowOrder, PowPositive
  <2> QED BY <1>1, <1>2, <2>3, <2>4
<1>4. ASSUME NEW k \in {l, l + 1} PROVE Up(k) \in Nat
  <2>1. CodeBits - 1 - k \in 0..CodeBits
    BY <1>1, <1>2, <1>3
  <2> DEFINE p == Pow[CodeBits - 1 - k]
             x == rc.val + p - 1
             q == x \div p
  <2>2. p \in Nat \ {0}
    BY <2>1, PowPositive
  <2>3. x \in Nat
    <3> HIDE DEF p
    <3> QED BY <1>1, <2>2
  <2>4. q \in Nat
    <3> HIDE DEF p, x
    <3> QED BY <2>2, <2>3, Division
  <2> HIDE DEF p, q
  <2>5. q * p \in Nat
    BY <2>2, <2>4
  <2> QED BY <2>5 DEF p, q
<1>5. FinalBits(rc) = IF Last(l) >= rc.val + rc.rng THEN [end |-> Up(l + 1), l |-> l + 1]
                      ELSE [end |-> Up(l), l |-> l]
  BY Zenon DEF FinalBits, b
<1> HIDE DEF l, Up, Last
<1>6. FinalBits(rc).end \in Nat /\ FinalBits(rc).l \in {l, l + 1}
  <2>1. CASE Last(l) >= rc.val + rc.rng
    BY <1>4, <1>5, <2>1
  <2>2. CASE ~(Last(l) >= rc.val + rc.rng)
    BY <1>4, <1>5, <2>2
  <2> QED BY <2>1, <2>2
<1> QED BY <1>2, <1>6 DEF l, b

LEMMA BytesHold ==
  ASSUME NEW n \in Nat
  PROVE  Bytes(n) \in Nat /\ SymBits * Bytes(n) >= n /\ SymBits * Bytes(n) < n + SymBits
<1>1. SymBits \in Nat \ {0}
  BY Widths
<1> DEFINE a == n + SymBits - 1
           q == a \div SymBits
           m == a % SymBits
           x == SymBits * q
<1>2. a \in Nat
  BY <1>1
<1>3. q \in Nat /\ m \in 0..SymBits - 1 /\ a = x + m
  <2> HIDE DEF a
  <2> QED BY <1>1, <1>2, Division
<1>4. x \in Nat
  BY <1>1, <1>3
<1> HIDE DEF q, m, x
<1>5. x >= n /\ x < n + SymBits
  BY <1>1, <1>3, <1>4
<1>6. Bytes(n) = q
  BY DEF Bytes, q
<1> QED BY <1>3, <1>5, <1>6 DEF x

LEMMA FrontDoneIs ==
  ASSUME NEW rc, EncoderOK(rc)
  PROVE  LET out == FrontDone(rc)
             k == Bytes(FinalBits(rc).l)
         IN  /\ out \in Coder /\ SameEnd(out, rc)
             /\ Ready(rc, k + 1) => out.error = 0 /\ out.offs = Pending(rc) + k
<1> DEFINE f == FinalBits(rc)
           end == f.end
           k == Bytes(f.l)
           u == [rc EXCEPT !.val = end]
           v == Repeat(ShiftOut, u, k)
           r == [v EXCEPT !.val = rc.val]
           out == FrontDone(rc)
<1>1. rc \in Coder /\ rc.val \in Nat /\ Pending(rc) \in Nat /\ rc.endOffs \in Nat /\ rc.storage \in Nat /\ rc.offs \in Nat
      /\ rc.offs <= Pending(rc)
  BY OKTypes, CoderTypes
<1>2. end \in Nat /\ f.l \in Nat
  BY FinalBitsAre, Widths
<1>3. k \in Nat
  BY <1>2, BytesHold
<1>4. out = IF r.rem >= 0 \/ r.ext > 0 THEN CarryOut(r, 0) ELSE r
  BY Zenon DEF FrontDone
<1> HIDE DEF end, k, out, f
<1>5. u \in Coder
  BY <1>1, <1>2, CoderFields
<1>6. /\ u.storage = rc.storage /\ u.endOffs = rc.endOffs /\ u.endWindow = rc.endWindow /\ u.nendBits = rc.nendBits
      /\ u.offs = rc.offs /\ u.error = rc.error /\ u.ext = rc.ext /\ u.rem = rc.rem
  BY <1>1 DEF Coder, Records
<1> HIDE DEF u
<1>7. v \in Coder /\ SameEnd(v, u) /\ Emitted(v, u, k)
  BY <1>3, <1>5, ShiftOutRuns
<1> HIDE DEF v
<1>8. r \in Coder
  BY <1>1, <1>7, CoderFields
<1>9. /\ r.storage = v.storage /\ r.endOffs = v.endOffs /\ r.endWindow = v.endWindow /\ r.nendBits = v.nendBits
      /\ r.offs = v.offs /\ r.error = v.error /\ r.ext = v.ext /\ r.rem = v.rem
  BY <1>7 DEF Coder, Records
<1> HIDE DEF r
<1>10. SameEnd(r, rc) /\ r.storage = rc.storage /\ r.endOffs = rc.endOffs
  BY <1>6, <1>7, <1>9 DEF SameEnd
<1>11. ASSUME Ready(rc, k + 1)
       PROVE  r.error = 0 /\ r.offs + r.endOffs <= r.storage /\ Pending(r) = Pending(rc) + k /\ Ready(r, 1)
  <2>1. Ready(rc, k)
    BY <1>1, <1>3, <1>11 DEF Ready
  <2>2. Ready(u, k) /\ Pending(u) = Pending(rc)
    BY <1>6, <2>1 DEF Ready, Pending
  <2>3. v.error = 0 /\ v.offs + v.endOffs <= v.storage /\ Pending(v) = Pending(rc) + k
    BY <1>7, <2>2 DEF Emitted
  <2>4. r.error = 0 /\ r.offs + r.endOffs <= r.storage /\ Pending(r) = Pending(rc) + k
    BY <1>9, <2>3 DEF Pending
  <2> QED BY <1>1, <1>3, <1>10, <1>11, <2>4 DEF Ready
<1>12. r.rem \in Nat \cup {-1} /\ r.ext \in Nat /\ r.offs \in Nat
  BY <1>8, CoderTypes
<1>13. CASE r.rem >= 0 \/ r.ext > 0
  <2>1. out = CarryOut(r, 0)
    BY <1>4, <1>13
  <2>2. 0 \in Nat /\ 0 # SymMax
    BY Widths DEF SymMax
  <2>3. out \in Coder /\ SameEnd(out, r) /\ out.rem >= 0 /\ out.ext = 0 /\ Emitted(out, r, 1)
    BY <1>8, <2>1, <2>2, CarryOutIs
  <2>4. SameEnd(out, rc)
    BY <1>10, <2>3 DEF SameEnd
  <2>5. ASSUME Ready(rc, k + 1) PROVE out.error = 0 /\ out.offs = Pending(rc) + k
    <3>1. out.error = 0 /\ Pending(out) = Pending(rc) + k + 1
      BY <1>11, <2>3, <2>5 DEF Emitted
    <3>2. Pending(out) = out.offs + 1 /\ out.offs \in Nat
      BY <2>3, CoderTypes DEF Pending
    <3> QED BY <1>1, <1>3, <3>1, <3>2
  <2> QED BY <2>3, <2>4, <2>5 DEF out, k, f
<1>14. CASE ~(r.rem >= 0 \/ r.ext > 0)
  <2>1. out = r
    BY <1>4, <1>14
  <2>2. Pending(r) = r.offs
    BY <1>12, <1>14 DEF Pending
  <2>3. Ready(rc, k + 1) => out.error = 0 /\ out.offs = Pending(rc) + k
    BY <1>11, <2>1, <2>2
  <2> QED BY <1>8, <1>10, <2>1, <2>3 DEF out, k, f
<1> QED BY <1>13, <1>14

LEMMA TellCounts ==
  ASSUME NEW rc, EncoderOK(rc), Tell(rc) <= SymBits * rc.storage
  PROVE  LET l == FinalBits(rc).l
         IN  Balanced(rc) /\ SymBits * (Pending(rc) + rc.endOffs) + rc.nendBits + l <= SymBits * rc.storage
<1> DEFINE l == FinalBits(rc).l
           b == ILog(rc.rng)
           x == SymBits * rc.storage
           y == SymBits * (Pending(rc) + rc.endOffs)
<1>1. l \in {CodeBits - b, CodeBits - b + 1} /\ b \in 1..CodeBits
  BY FinalBitsAre
<1>2. rc \in Coder /\ rc.nbitsTotal \in Nat /\ rc.nendBits \in Nat /\ rc.storage \in Nat /\ CodeBits \in Nat
      /\ Pending(rc) \in Nat /\ rc.endOffs \in Nat
  BY OKTypes, CoderTypes, Widths
<1>3. x \in Nat /\ y \in Nat
  <2>1. Pending(rc) + rc.endOffs \in Nat
    BY <1>2
  <2> QED BY <1>2, <2>1, Scaled
<1>4. rc.nbitsTotal - b <= x
  BY DEF Tell
<1> HIDE DEF x, l, b
<1>5. ~(rc.nbitsTotal > CodeBits + x)
  BY <1>1, <1>2, <1>3, <1>4
<1>6. Balanced(rc)
  BY <1>5 DEF EncoderOK, Overfull, x
<1>7. rc.nbitsTotal = CodeBits + 1 + y + rc.nendBits
  BY <1>6 DEF Balanced
<1> HIDE DEF y
<1>8. y + rc.nendBits + l <= x
  BY <1>1, <1>2, <1>3, <1>4, <1>7
<1> QED BY <1>6, <1>8 DEF l, x, y

LEMMA DoneIs ==
  ASSUME NEW rc, EncoderOK(rc)
  PROVE  /\ Done(rc).storage = rc.storage
         /\ Tell(rc) <= SymBits * rc.storage => Done(rc).error = 0
<1> DEFINE l == FinalBits(rc).l
           k == Bytes(l)
           spare == SymBits * Bytes(l) - l
           front == FrontDone(rc)
           flushed == FlushWindow(front)
           used == flushed.nendBits
           r == [flushed EXCEPT !.endWindow = rc.endWindow, !.nendBits = rc.nendBits]
           f == [i \in DOMAIN r.buf |-> IF i \in r.offs..r.storage - r.endOffs - 1 THEN 0 ELSE r.buf[i]]
           gap == [r EXCEPT !.buf = f]
           busted == ~Room(r) /\ spare < used
           window == IF busted THEN Low(flushed.endWindow, spare) ELSE flushed.endWindow
           g1 == r.error # 0
           g2 == r.error = 0 /\ used = 0
           g3 == r.error = 0 /\ used > 0 /\ r.endOffs >= r.storage
           w3 == [gap EXCEPT !.error = -1]
           w4 == [gap EXCEPT !.buf[r.storage - r.endOffs - 1] = @ + window,
                             !.error = IF busted THEN -1 ELSE @]
<1>1. Done(rc) = CASE g1 -> r [] g2 -> gap [] g3 -> w3 [] OTHER -> w4
  BY Zenon DEF Done
<1>2. rc \in Coder /\ Pending(rc) \in Nat /\ rc.endOffs \in Nat /\ rc.storage \in Nat /\ rc.nendBits \in Nat
      /\ rc.nendBits <= CodeBits /\ SymBits \in Nat \ {0} /\ rc.offs \in Nat
  BY OKTypes, CoderTypes, Widths
<1>3. l \in Nat
  <2>1. l \in {CodeBits - ILog(rc.rng), CodeBits - ILog(rc.rng) + 1} /\ ILog(rc.rng) \in 1..CodeBits /\ CodeBits \in Nat
    BY FinalBitsAre, Widths
  <2> DEFINE b == ILog(rc.rng)
  <2> HIDE DEF b, l
  <2>2. l \in {CodeBits - b, CodeBits - b + 1} /\ b \in 1..CodeBits
    BY <2>1 DEF b
  <2> QED BY <2>1, <2>2
<1>4. front \in Coder /\ SameEnd(front, rc) /\ (Ready(rc, k + 1) => front.error = 0 /\ front.offs = Pending(rc) + k)
  BY FrontDoneIs
<1> HIDE DEF l, front
<1>5. k \in Nat /\ SymBits * k >= l /\ SymBits * k < l + SymBits
  BY <1>3, BytesHold
<1>6. /\ flushed \in Coder /\ SameFront(flushed, front) /\ used < SymBits
      /\ Fitting(front) => Fitting(flushed) /\ EndBits(flushed) = EndBits(front)
  <2>1. front.nendBits <= CodeBits
    BY <1>2, <1>4 DEF SameEnd
  <2> QED BY <1>4, <2>1, FlushWindowIs
<1> HIDE DEF flushed
<1>7. /\ r.storage = flushed.storage /\ r.offs = flushed.offs /\ r.endOffs = flushed.endOffs /\ r.error = flushed.error
  BY <1>6 DEF Coder, Records
<1>8. used \in Nat /\ flushed.storage \in Nat /\ flushed.offs \in Nat /\ flushed.endOffs \in Nat
  BY <1>6, CoderTypes
<1>9. r.storage = rc.storage
  BY <1>4, <1>6, <1>7 DEF SameEnd, SameFront
<1>10. gap.storage = r.storage /\ gap.error = r.error /\ w3.storage = r.storage
       /\ w4.storage = r.storage /\ w4.error = IF busted THEN -1 ELSE r.error
  <2>1. DOMAIN r = DOMAIN flushed
    OBVIOUS
  <2>2. DOMAIN flushed = {"buf", "storage", "offs", "endOffs", "endWindow", "nendBits", "nbitsTotal", "rng", "val", "ext", "rem", "error"}
    BY <1>6 DEF Coder, Records
  <2> HIDE DEF f, r, window, busted
  <2> QED BY <2>1, <2>2
<1> HIDE DEF r, gap, w3, w4, busted
<1>11. Done(rc).storage = rc.storage
  BY <1>1, <1>9, <1>10
<1>12. ASSUME Tell(rc) <= SymBits * rc.storage PROVE Done(rc).error = 0
  <2> DEFINE p == Pending(rc)
             sp == SymBits * p
             se == SymBits * rc.endOffs
             sk == SymBits * k
             st == SymBits * rc.storage
             so == SymBits * flushed.offs
             sq == SymBits * flushed.endOffs
  <2>1. Balanced(rc) /\ SymBits * (p + rc.endOffs) + rc.nendBits + l <= st
    BY <1>12, TellCounts DEF l
  <2>2. sp \in Nat /\ se \in Nat /\ sk \in Nat /\ st \in Nat /\ so \in Nat /\ sq \in Nat
        /\ SymBits * (p + rc.endOffs) = sp + se
    BY <1>2, <1>5, <1>8, Scaled
  <2>3. p + rc.endOffs + k <= rc.storage
    <3>1. p + rc.endOffs \in Nat /\ p + rc.endOffs + k \in Nat
      BY <1>2, <1>5
    <3>2. SymBits * ((p + rc.endOffs) + k) = SymBits * (p + rc.endOffs) + sk
      BY <1>5, <3>1, Scaled
    <3> DEFINE z == SymBits * (p + rc.endOffs)
    <3>3. z + rc.nendBits + l <= st /\ sk < l + SymBits /\ z \in Nat
      BY <1>5, <2>1, <2>2
    <3>4. z + sk < st + SymBits
      <4> HIDE DEF z, sk, st
      <4> QED BY <1>2, <1>3, <2>2, <3>3
    <3>5. SymBits * ((p + rc.endOffs) + k) < SymBits * rc.storage + SymBits
      BY <3>2, <3>4
    <3> QED BY <1>2, <3>1, <3>5, Scaled
  <2>4. Ready(rc, k + 1)
    BY <1>2, <1>5, <2>1, <2>3 DEF Ready, Balanced
  <2>5. front.error = 0 /\ front.offs = p + k /\ front.endOffs = rc.endOffs /\ front.nendBits = rc.nendBits
        /\ front.storage = rc.storage
    BY <1>4, <2>4 DEF SameEnd
  <2>6. SymBits * (p + k) = sp + sk
    BY <1>2, <1>5, Scaled
  <2> HIDE DEF p, k, sp, se, sk, st, so, sq
  <2>7. SymBits * front.offs = sp + sk /\ EndBits(front) = se + rc.nendBits
    BY <2>5, <2>6 DEF EndBits, se
  <2>8. sp + se + rc.nendBits + l <= st /\ sk < l + SymBits /\ sk >= l
    BY <1>5, <2>1, <2>2 DEF sk
  <2>9. Fitting(front)
    <3>1. (sp + sk) + (se + rc.nendBits) < st + SymBits
      BY <1>2, <1>3, <2>2, <2>8
    <3> QED BY <2>5, <2>7, <3>1 DEF Fitting, st
  <2>10. Fitting(flushed) /\ EndBits(flushed) = se + rc.nendBits /\ flushed.offs = p + k
    BY <1>6, <2>5, <2>7, <2>9 DEF SameFront
  <2>11. so = sp + sk /\ sq + used = se + rc.nendBits /\ flushed.error = 0
    BY <2>6, <2>10 DEF so, sq, EndBits, Fitting
  <2>12. flushed.storage = rc.storage
    BY <1>7, <1>9
  <2>13. ~busted
    <3>1. SUFFICES ASSUME ~Room(r), spare < used PROVE FALSE
      BY DEF busted
    <3>2. rc.storage <= flushed.offs + flushed.endOffs /\ flushed.offs + flushed.endOffs \in Nat
      BY <1>2, <1>7, <1>8, <1>9, <3>1 DEF Room
    <3>3. st <= SymBits * (flushed.offs + flushed.endOffs)
      BY <1>2, <3>2, Scaled DEF st
    <3>4. st <= so + sq
      BY <1>8, <3>3, Scaled DEF so, sq
    <3>5. spare = sk - l
      BY DEF sk, k
    <3> HIDE DEF spare
    <3> QED BY <1>2, <1>3, <1>8, <2>2, <2>8, <2>11, <3>1, <3>4, <3>5
  <2>14. used > 0 => ~(r.endOffs >= r.storage)
    <3>1. SUFFICES ASSUME used > 0, r.endOffs >= r.storage PROVE FALSE
      OBVIOUS
    <3>2. rc.storage <= flushed.endOffs
      BY <1>7, <1>9, <1>2, <1>8, <3>1
    <3>3. st <= sq
      BY <1>2, <1>8, <3>2, Scaled DEF st, sq
    <3> QED BY <1>2, <1>3, <1>8, <2>2, <2>8, <2>11, <3>1, <3>3
  <2>15. ~g1 /\ ~g3
    BY <1>7, <2>11, <2>14
  <2>16. gap.error = 0 /\ w4.error = 0
    BY <1>7, <1>10, <2>11, <2>13
  <2> HIDE DEF g1, g2, g3
  <2> QED BY <1>1, <2>15, <2>16
<1> QED BY <1>11, <1>12

LEMMA FinishOK ==
  ASSUME IInv, NEW pads \in BOOLEAN, Finish(pads)
  PROVE  IInv'
<1> DEFINE padded == IF pads THEN PadToBits(enc, SymBits * enc.storage) ELSE enc
<1>1. phase = "write" /\ phase' = "read" /\ enc' = Done(padded) /\ bits' = Tell(padded)
  BY DEF Finish
<1>2. EncoderOK(padded)
  <2>1. EncoderOK(enc)
    BY <1>1 DEF IInv
  <2> QED BY <2>1, PadToBitsIs
<1> HIDE DEF padded
<1>3. enc'.storage = padded.storage /\ (Tell(padded) <= SymBits * padded.storage => enc'.error = 0)
  BY <1>1, <1>2, DoneIs
<1> QED BY <1>1, <1>3 DEF IInv, FitMeansWritten, Fits

LEMMA FinishTrimmedOK ==
  ASSUME IInv, FinishTrimmed
  PROVE  IInv'
<1>1. phase = "write" /\ phase' = "read" /\ enc' = Done(enc) /\ bits' = Tell(enc)
  BY DEF FinishTrimmed
<1>2. EncoderOK(enc)
  BY <1>1 DEF IInv
<1>3. enc'.storage = enc.storage /\ (Tell(enc) <= SymBits * enc.storage => enc'.error = 0)
  BY <1>1, <1>2, DoneIs
<1> QED BY <1>1, <1>3 DEF IInv, FitMeansWritten, Fits

\* IInv is inductive: every packet that is being written accounts for its
\* bits, or has more of them than its buffer.
THEOREM Accounts == Spec => []IInv
<1>1. Init => IInv
  BY InitOK
<1>2. ASSUME IInv, [Next]_vars PROVE IInv'
  <2>1. CASE \E s \in Alphabet : Write(s)
    BY <1>2, <2>1, WriteOK
  <2>2. CASE \E size \in Sizes : Shrink(size)
    BY <1>2, <2>2, ShrinkOK
  <2>3. CASE \E v \in 1..SymMax : Patch(v)
    BY <1>2, <2>3, PatchOK
  <2>4. CASE \E pads \in BOOLEAN : Finish(pads)
    BY <1>2, <2>4, FinishOK
  <2>5. CASE FinishTrimmed
    BY <1>2, <2>5, FinishTrimmedOK
  <2>6. CASE Read
    BY <1>2, <2>6 DEF Read, IInv, EncoderOK, FlagsAhead, FitMeansWritten, Fits
  <2>7. CASE UNCHANGED vars
    BY <1>2, <2>7 DEF vars, IInv, EncoderOK, FlagsAhead, FitMeansWritten, Fits
  <2> QED BY <1>2, <2>1, <2>2, <2>3, <2>4, <2>5, <2>6, <2>7 DEF Next
<1> QED BY <1>1, <1>2, PTL DEF Spec

\* Theorem: a packet whose tell() fits its buffer is written without error,
\* whatever widths, sizes, symbols and number of symbols.
THEOREM FitIsEnough == Spec => []FitMeansWritten
<1>1. IInv => FitMeansWritten
  BY DEF IInv
<1> QED BY <1>1, Accounts, PTL

-----------------------------------------------------------------------------
(* Numbers and places, for the packets that are read back.                  *)

(***************************************************************************)
(* Powers of two without a bound.                                          *)
(***************************************************************************)
\* A function of all naturals, where Pow stops at CodeBits.
IsPower(f) == f \in [Nat -> Nat] /\ f[0] = 1 /\ \A i \in Nat : f[i + 1] = 2 * f[i]
Power == CHOOSE f : IsPower(f)

\* There is such a function.
LEMMA PowerIs == IsPower(Power)
<1> DEFINE F == [p \in Nat \X Nat |-> 2 * p[2]]
<1>1. F \in [Nat \X Nat -> Nat] /\ 1 \in Nat
  OBVIOUS
<1>2. \A i \in Nat, a \in Nat : F[<<i, a>>] = 2 * a
  OBVIOUS
<1> HIDE DEF F
<1>3. PICK f \in [Nat -> Nat] : IsRecursion(f, 1, F)
  BY <1>1, Recursion
<1>4. IsPower(f)
  BY <1>2, <1>3 DEF IsRecursion, IsPower
<1> QED BY <1>4, Zenon DEF Power

\* Its equations.
LEMMA PowerStep == /\ Power \in [Nat -> Nat] /\ Power[0] = 1
                   /\ \A i \in Nat : Power[i + 1] = 2 * Power[i] /\ Power[i] \in Nat
  BY PowerIs DEF IsPower

\* No power of two is 0.
LEMMA PowerPositive == \A i \in Nat : Power[i] \in Nat \ {0}
<1> DEFINE T == {i \in Nat : Power[i] \in Nat \ {0}}
<1>1. 0 \in T
  BY PowerStep
<1>2. ASSUME NEW i \in T PROVE i + 1 \in T
  <2>1. Power[i + 1] = 2 * Power[i]
    BY PowerStep
  <2> QED BY <2>1
<1>3. T = Nat
  <2>1. T \subseteq Nat
    OBVIOUS
  <2> HIDE DEF T
  <2> QED BY <1>1, <1>2, <2>1, Induction
<1> QED BY <1>3

\* The power of a sum is the product of the powers.
LEMMA PowerSum ==
  ASSUME NEW a \in Nat, NEW b \in Nat
  PROVE  Power[a + b] = Power[a] * Power[b] /\ Power[a + b] \in Nat
<1> DEFINE T == {i \in Nat : Power[a + i] = Power[a] * Power[i]}
<1>1. 0 \in T
  <2>1. a + 0 = a /\ Power[a] \in Nat
    BY PowerStep
  <2> QED BY <2>1, PowerStep
<1>2. ASSUME NEW i \in T PROVE i + 1 \in T
  <2>1. i \in Nat /\ a + i \in Nat /\ a + (i + 1) = (a + i) + 1
    OBVIOUS
  <2>2. Power[a + (i + 1)] = 2 * Power[a + i] /\ Power[i + 1] = 2 * Power[i]
    BY <2>1, PowerStep
  <2>3. PICK p, q : p = Power[a] /\ q = Power[i] /\ p \in Nat /\ q \in Nat
    BY <2>1, PowerStep
  <2>4. Power[a + i] = p * q
    BY <1>2, <2>3
  <2>5. 2 * (p * q) = p * (2 * q)
    BY <2>3
  <2> QED BY <2>1, <2>2, <2>3, <2>4, <2>5
<1>3. T = Nat
  <2>1. T \subseteq Nat
    OBVIOUS
  <2> HIDE DEF T
  <2> QED BY <1>1, <1>2, <2>1, Induction
<1>4. Power[a + b] = Power[a] * Power[b]
  BY <1>3
<1> QED BY <1>4, PowerStep

\* Where Pow is defined, it is the same.
LEMMA PowerPow == \A k \in 0..CodeBits : Pow[k] = Power[k]
<1> DEFINE T == {k \in Nat : Pow[k] = Power[k]}
<1>1. CodeBits \in Nat
  BY Widths
<1>2. 0 \in T
  BY PowStep, PowerStep
<1>3. ASSUME NEW k \in 0..CodeBits - 1, k \in T PROVE k + 1 \in T
  <2>1. k + 1 \in 1..CodeBits /\ (k + 1) - 1 = k /\ k \in Nat
    BY <1>1
  <2>2. Pow[k + 1] = 2 * Pow[k]
    BY <2>1, PowStep
  <2> QED BY <1>3, <2>1, <2>2, PowerStep
<1>4. 0..CodeBits \subseteq T
  <2> HIDE DEF T
  <2> QED BY <1>1, <1>2, <1>3, InductionTo
<1> QED BY <1>4

\* 2^(SymBits k), what k bytes weigh.
Base == Pow[SymBits]
\* 2^(SymBits k), what k bytes weigh.
Weight(k) == Power[SymBits * k]

\* There are at least four values of a byte, and the largest is SymMax.
LEMMA BaseIs == Base \in Nat /\ Base >= 4 /\ SymMax = Base - 1
<1>1. Pow[0] = 1 /\ Pow[1] = 2 /\ Pow[2] = 4
  BY Widths, PowStep
<1>2. Pow[2] <= Pow[SymBits]
  <2>1. 2 \in 0..CodeBits /\ SymBits \in 0..CodeBits /\ 2 <= SymBits
    BY WidthsFit
  <2> QED BY <2>1, PowOrder
<1> QED BY <1>1, <1>2, Widths DEF Base, SymMax

\* The weight of bytes, one after the other.
LEMMA WeightIs ==
  /\ Weight(0) = 1
  /\ \A k \in Nat : Weight(k) \in Nat \ {0} /\ Weight(k + 1) = Base * Weight(k)
<1>1. SymBits \in Nat /\ SymBits * 0 = 0
  BY Widths
<1>2. ASSUME NEW k \in Nat PROVE Weight(k) \in Nat \ {0} /\ Weight(k + 1) = Base * Weight(k)
  <2>1. SymBits * k \in Nat /\ SymBits * (k + 1) = SymBits * k + SymBits
    BY <1>1
  <2>2. Power[SymBits] = Base
    BY PowerPow, Widths DEF Base
  <2>3. Power[SymBits * k + SymBits] = Power[SymBits * k] * Power[SymBits]
    BY <1>1, <2>1, PowerSum
  <2>4. Power[SymBits * k] \in Nat \ {0}
    BY <2>1, PowerPositive
  <2> DEFINE w == Power[SymBits * k]
  <2>5. w \in Nat /\ w * Base = Base * w
    BY <2>4, BaseIs
  <2> QED BY <2>1, <2>2, <2>3, <2>4, <2>5 DEF Weight
<1> QED BY <1>1, <1>2, PowerStep DEF Weight

\* The weight of bytes after bytes.
LEMMA WeightSum ==
  ASSUME NEW a \in Nat, NEW b \in Nat
  PROVE  Weight(a + b) = Weight(a) * Weight(b)
<1>1. SymBits * a \in Nat /\ SymBits * b \in Nat /\ SymBits * (a + b) = SymBits * a + SymBits * b
  BY Widths
<1>2. Power[SymBits * a + SymBits * b] = Power[SymBits * a] * Power[SymBits * b]
  BY <1>1, PowerSum
<1> QED BY <1>1, <1>2, Zenon DEF Weight

\* The weight of one byte and of two.
LEMMA WeightBase == Weight(1) = Base /\ Weight(2) = Base * Base
<1>1. Weight(0) = 1 /\ Weight(0 + 1) = Base * Weight(0) /\ Weight(1 + 1) = Base * Weight(1)
  BY WeightIs
<1> QED BY <1>1, BaseIs

(***************************************************************************)
(* The numbers that bytes are: with the first byte on top, as at the front *)
(* of the buffer, or below, as at its end.                                 *)
(***************************************************************************)
\* Digits without an end.
Stream == [Nat -> Nat]
\* Bytes without an end: after the last one of a buffer come zeros.
ByteStream == [Nat -> 0..SymMax]
\* d[n] is the number whose digits are the first n of f, the first on top.
Leads(f, d) == d \in [Nat -> Nat] /\ d[0] = 0 /\ \A i \in Nat : d[i + 1] = Base * d[i] + f[i]
Digits(f) == CHOOSE d : Leads(f, d)
\* d[n] is the number whose digits are the first n of f, the first below.
Trails(f, d) == d \in [Nat -> Nat] /\ d[0] = 0 /\ \A i \in Nat : d[i + 1] = d[i] + f[i] * Weight(i)
EndDigits(f) == CHOOSE d : Trails(f, d)

\* The numbers of the first digits exist.
LEMMA DigitsAre ==
  ASSUME NEW f \in Stream
  PROVE  /\ Digits(f)[0] = 0
         /\ \A i \in Nat : Digits(f)[i] \in Nat /\ Digits(f)[i + 1] = Base * Digits(f)[i] + f[i]
<1> DEFINE F == [p \in Nat \X Nat |-> Base * p[2] + f[p[1]]]
<1>1. \A i \in Nat, a \in Nat : F[<<i, a>>] = Base * a + f[i]
  OBVIOUS
<1>2. F \in [Nat \X Nat -> Nat]
  <2>1. \A i \in Nat, a \in Nat : Base * a + f[i] \in Nat
    BY BaseIs DEF Stream
  <2> QED BY <2>1
<1> HIDE DEF F
<1>3. PICK d \in [Nat -> Nat] : IsRecursion(d, 0, F)
  BY <1>2, Recursion
<1>4. Leads(f, d)
  BY <1>1, <1>3 DEF IsRecursion, Leads
<1>5. Leads(f, Digits(f))
  BY <1>4, Zenon DEF Digits
<1> QED BY <1>5 DEF Leads

\* So do those with the first digit below.
LEMMA EndDigitsAre ==
  ASSUME NEW f \in Stream
  PROVE  /\ EndDigits(f)[0] = 0
         /\ \A i \in Nat : EndDigits(f)[i] \in Nat /\ EndDigits(f)[i + 1] = EndDigits(f)[i] + f[i] * Weight(i)
<1> DEFINE F == [p \in Nat \X Nat |-> p[2] + f[p[1]] * Weight(p[1])]
<1>1. \A i \in Nat, a \in Nat : F[<<i, a>>] = a + f[i] * Weight(i)
  OBVIOUS
<1>2. F \in [Nat \X Nat -> Nat]
  <2>1. \A i \in Nat, a \in Nat : a + f[i] * Weight(i) \in Nat
    BY WeightIs DEF Stream
  <2> QED BY <2>1
<1> HIDE DEF F
<1>3. PICK d \in [Nat -> Nat] : IsRecursion(d, 0, F)
  BY <1>2, Recursion
<1>4. Trails(f, d)
  BY <1>1, <1>3 DEF IsRecursion, Trails
<1>5. Trails(f, EndDigits(f))
  BY <1>4, Zenon DEF EndDigits
<1> QED BY <1>5 DEF Trails

\* What lies at n and above does not matter to the first n bytes.
LEMMA SameNumbers ==
  ASSUME NEW f \in Stream, NEW g \in Stream, NEW n \in Nat, \A i \in 0..n - 1 : f[i] = g[i]
  PROVE  Digits(f)[n] = Digits(g)[n] /\ EndDigits(f)[n] = EndDigits(g)[n]
<1> DEFINE T == {i \in Nat : Digits(f)[i] = Digits(g)[i] /\ EndDigits(f)[i] = EndDigits(g)[i]}
<1>1. 0 \in T
  BY DigitsAre, EndDigitsAre
<1>2. ASSUME NEW i \in 0..n - 1, i \in T PROVE i + 1 \in T
  <2>1. i \in Nat /\ f[i] = g[i]
    OBVIOUS
  <2>2. Digits(f)[i + 1] = Base * Digits(f)[i] + f[i] /\ Digits(g)[i + 1] = Base * Digits(g)[i] + g[i]
    BY <2>1, DigitsAre
  <2>3. EndDigits(f)[i + 1] = EndDigits(f)[i] + f[i] * Weight(i) /\ EndDigits(g)[i + 1] = EndDigits(g)[i] + g[i] * Weight(i)
    BY <2>1, EndDigitsAre
  <2>4. Digits(f)[i] = Digits(g)[i] /\ EndDigits(f)[i] = EndDigits(g)[i]
    BY <1>2
  <2> QED BY <2>1, <2>2, <2>3, <2>4
<1>3. 0..n \subseteq T
  <2> HIDE DEF T
  <2> QED BY <1>1, <1>2, InductionTo
<1> QED BY <1>3

\* More bytes are digits after the point.
LEMMA DigitsGrow ==
  ASSUME NEW f \in ByteStream, NEW a \in Nat, NEW n \in Nat
  PROVE  /\ Digits(f)[a] * Weight(n) <= Digits(f)[a + n]
         /\ Digits(f)[a + n] < (Digits(f)[a] + 1) * Weight(n)
<1> DEFINE D == Digits(f)
           x == D[a]
           T == {i \in Nat : x * Weight(i) <= D[a + i] /\ D[a + i] < (x + 1) * Weight(i)}
<1>0. SymMax \in Nat /\ Base \in Nat /\ SymMax = Base - 1
  BY BaseIs
<1>1. f \in Stream
  BY <1>0 DEF Stream, ByteStream
<1>2. \A i \in Nat : D[i] \in Nat /\ D[i + 1] = Base * D[i] + f[i]
  BY <1>1, DigitsAre
<1> HIDE DEF D
<1>3. 0 \in T
  <2>1. x \in Nat /\ a + 0 = a /\ Weight(0) = 1
    BY <1>2, WeightIs
  <2> HIDE DEF x
  <2>2. x * 1 = x /\ (x + 1) * 1 = x + 1
    BY <2>1
  <2> QED BY <2>1, <2>2 DEF x
<1>4. ASSUME NEW i \in T PROVE i + 1 \in T
  <2>1. PICK w, y, z : w = Weight(i) /\ y = D[a + i] /\ z = f[a + i]
    OBVIOUS
  <2>2. i \in Nat /\ a + i \in Nat /\ a + (i + 1) = (a + i) + 1
    OBVIOUS
  <2>3. w \in Nat /\ y \in Nat /\ x \in Nat /\ z \in Nat /\ z <= Base - 1
    BY <1>0, <1>2, <2>1, <2>2, WeightIs DEF ByteStream
  <2>4. Weight(i + 1) = Base * w /\ D[a + (i + 1)] = Base * y + z
    BY <1>2, <2>1, <2>2, WeightIs
  <2>5. x * w <= y /\ y < (x + 1) * w
    BY <1>4, <2>1
  <2>6. PICK u, v : u = x * w /\ v = (x + 1) * w
    OBVIOUS
  <2>7. u \in Nat /\ v \in Nat /\ u <= y /\ y + 1 <= v
    BY <2>3, <2>5, <2>6
  <2>8. Base * u <= Base * y /\ Base * y + Base <= Base * v
    <3>1. \A p \in Nat, q \in Nat, r \in Nat : q <= r => p * q <= p * r
      OBVIOUS
    <3>2. Base * (y + 1) = Base * y + Base
      BY <1>0, <2>3
    <3>3. Base * (y + 1) <= Base * v
      BY <3>1, <1>0, <2>3, <2>7
    <3> QED BY <1>0, <2>3, <2>7, <3>1, <3>2, <3>3
  <2>9. x * (Base * w) = Base * u /\ (x + 1) * (Base * w) = Base * v
    <3>1. \A p \in Nat, q \in Nat, r \in Nat : p * (q * r) = q * (p * r)
      OBVIOUS
    <3>2. x + 1 \in Nat
      BY <2>3
    <3> QED BY <1>0, <2>3, <2>6, <3>1, <3>2
  <2>10. Base * u \in Nat /\ Base * v \in Nat /\ Base * y \in Nat
    BY <1>0, <2>3, <2>7
  <2>11. x * Weight(i + 1) <= D[a + (i + 1)] /\ D[a + (i + 1)] < (x + 1) * Weight(i + 1)
    <3> HIDE DEF x
    <3> QED BY <1>0, <2>3, <2>4, <2>8, <2>9, <2>10
  <2> QED BY <2>2, <2>11
<1>5. T = Nat
  <2>1. T \subseteq Nat
    OBVIOUS
  <2> HIDE DEF T
  <2> QED BY <1>3, <1>4, <2>1, Induction
<1> QED BY <1>5 DEF D

\* n bytes are a number below their weight.
LEMMA EndDigitsBelow ==
  ASSUME NEW f \in ByteStream, NEW n \in Nat
  PROVE  EndDigits(f)[n] \in 0..Weight(n) - 1
<1> DEFINE T == {i \in Nat : EndDigits(f)[i] < Weight(i)}
<1>0. SymMax \in Nat /\ Base \in Nat /\ SymMax = Base - 1
  BY BaseIs
<1>1. f \in Stream
  BY <1>0 DEF Stream, ByteStream
<1>2. 0 \in T
  BY <1>1, EndDigitsAre, WeightIs
<1>3. ASSUME NEW i \in T PROVE i + 1 \in T
  <2>1. PICK w, y, z : w = Weight(i) /\ y = EndDigits(f)[i] /\ z = f[i]
    OBVIOUS
  <2>2. w \in Nat /\ y \in Nat /\ z \in Nat /\ z + 1 <= Base /\ y < w
    BY <1>0, <1>1, <1>3, <2>1, WeightIs, EndDigitsAre DEF ByteStream
  <2>3. Weight(i + 1) = Base * w /\ EndDigits(f)[i + 1] = y + z * w
    BY <1>1, <2>1, WeightIs, EndDigitsAre
  <2>4. (z + 1) * w <= Base * w /\ (z + 1) * w = z * w + w /\ z * w \in Nat /\ Base * w \in Nat
    <3>1. \A p \in Nat, q \in Nat, r \in Nat : q <= r => q * p <= r * p
      OBVIOUS
    <3>2. z + 1 \in Nat
      BY <2>2
    <3> QED BY <1>0, <2>2, <3>1, <3>2
  <2> QED BY <2>2, <2>3, <2>4
<1>4. T = Nat
  <2>1. T \subseteq Nat
    OBVIOUS
  <2> HIDE DEF T
  <2> QED BY <1>2, <1>3, <2>1, Induction
<1>5. EndDigits(f)[n] < Weight(n) /\ EndDigits(f)[n] \in Nat /\ Weight(n) \in Nat
  BY <1>1, <1>4, EndDigitsAre, WeightIs
<1> QED BY <1>5

(***************************************************************************)
(* What an encoder has written, as numbers.                                *)
(***************************************************************************)
\* The bytes from the front of the buffer on, and from its end backwards.
FrontOf(rc) == [i \in Nat |-> IF i < rc.storage THEN rc.buf[i] ELSE 0]
BackOf(rc) == [i \in Nat |-> IF i < rc.storage THEN rc.buf[rc.storage - 1 - i] ELSE 0]
\* What the bytes at the front are, those at the end, and those at the end
\* with the raw bits that still wait in the window.
FrontNumber(rc) == Digits(FrontOf(rc))[rc.offs]
EndNumber(rc) == EndDigits(BackOf(rc))[rc.endOffs]
RawNumber(rc) == EndNumber(rc) + rc.endWindow * Weight(rc.endOffs)

\* The two parts do not overlap, and every slot holds a byte.
Clean(rc) ==
  /\ rc \in Coder /\ rc.offs + rc.endOffs <= rc.storage
  /\ \A i \in DOMAIN rc.buf : rc.buf[i] \in 0..SymMax
\* With the byte and the run of 0xFF that wait for a carry.
KeptNumber(rc) == IF rc.rem < 0 THEN 0 ELSE Base * FrontNumber(rc) + rc.rem
OutNumber(rc) == (KeptNumber(rc) + 1) * Weight(rc.ext) - 1
\* With val: the lower end of the interval, in units of the last bit of val.
Whole(rc) == OutNumber(rc) * CodeTop + rc.val

\* A carry can still go into the byte that waits.
Sound(rc) ==
  /\ Clean(rc) /\ rc.rem <= SymMax
  /\ rc.rem < 0 => rc.offs = 0
\* Where no carry can go, what x is the upper bound of never makes one.
CarryFits(rc, x) == x < Word /\ (rc.rem < 0 \/ rc.rem = SymMax => x <= CodeTop)

\* The buffer of a clean coder is bytes.
LEMMA StreamsAre ==
  ASSUME NEW rc, Clean(rc)
  PROVE  /\ FrontOf(rc) \in ByteStream /\ BackOf(rc) \in ByteStream
         /\ FrontOf(rc) \in Stream /\ BackOf(rc) \in Stream
         /\ \A i \in 0..rc.storage - 1 : /\ rc.buf[i] \in 0..SymMax /\ i \in DOMAIN rc.buf
                                         /\ FrontOf(rc)[i] = rc.buf[i]
                                         /\ BackOf(rc)[i] = rc.buf[rc.storage - 1 - i]
<1>1. rc.storage \in Nat /\ 0..rc.storage - 1 \subseteq DOMAIN rc.buf /\ SymMax \in Nat
  BY BaseIs, CoderTypes DEF Clean, Coder, Holds
<1>2. \A i \in 0..rc.storage - 1 : rc.buf[i] \in 0..SymMax /\ i \in DOMAIN rc.buf
  BY <1>1 DEF Clean
<1>3. \A i \in Nat : i < rc.storage => i \in 0..rc.storage - 1 /\ rc.storage - 1 - i \in 0..rc.storage - 1
  BY <1>1
<1>4. \A i \in Nat : FrontOf(rc)[i] \in 0..SymMax
  BY <1>1, <1>2, <1>3 DEF FrontOf
<1>5. \A i \in Nat : BackOf(rc)[i] \in 0..SymMax
  BY <1>1, <1>2, <1>3 DEF BackOf
<1>6. FrontOf(rc) \in ByteStream
  BY <1>4 DEF FrontOf, ByteStream
<1>7. BackOf(rc) \in ByteStream
  BY <1>5 DEF BackOf, ByteStream
<1>8. \A f \in ByteStream : f \in Stream
  BY <1>1 DEF Stream, ByteStream
<1>9. ASSUME NEW i \in 0..rc.storage - 1
      PROVE  FrontOf(rc)[i] = rc.buf[i] /\ BackOf(rc)[i] = rc.buf[rc.storage - 1 - i]
  <2>1. i \in Nat /\ i < rc.storage
    BY <1>1
  <2> QED BY <2>1 DEF FrontOf, BackOf
<1> QED BY <1>2, <1>6, <1>7, <1>8, <1>9

\* These are numbers.
LEMMA NumbersAre ==
  ASSUME NEW rc, Clean(rc)
  PROVE  FrontNumber(rc) \in Nat /\ EndNumber(rc) \in Nat /\ RawNumber(rc) \in Nat
<1>1. rc.offs \in Nat /\ rc.endOffs \in Nat /\ rc.endWindow \in Nat
  BY CoderTypes DEF Clean
<1>2. FrontNumber(rc) \in Nat /\ EndNumber(rc) \in Nat
  BY <1>1, StreamsAre, DigitsAre, EndDigitsAre DEF FrontNumber, EndNumber
<1>3. Weight(rc.endOffs) \in Nat
  BY <1>1, WeightIs
<1> QED BY <1>1, <1>2, <1>3 DEF RawNumber

\* So are these.
LEMMA OutNumberIs ==
  ASSUME NEW rc, Sound(rc)
  PROVE  /\ KeptNumber(rc) \in Nat /\ Weight(rc.ext) \in Nat \ {0}
         /\ OutNumber(rc) \in Nat /\ OutNumber(rc) + 1 = (KeptNumber(rc) + 1) * Weight(rc.ext)
         /\ Whole(rc) \in Nat
<1>1. rc.ext \in Nat /\ rc.rem \in Nat \cup {-1} /\ rc.val \in Nat
  BY CoderTypes DEF Sound, Clean
<1>2. KeptNumber(rc) \in Nat
  <2>1. FrontNumber(rc) \in Nat
    BY NumbersAre DEF Sound
  <2>2. Base * FrontNumber(rc) \in Nat
    BY <2>1, BaseIs
  <2> QED BY <1>1, <2>2 DEF KeptNumber
<1>3. Weight(rc.ext) \in Nat \ {0}
  BY <1>1, WeightIs
<1> DEFINE k == KeptNumber(rc)
           w == Weight(rc.ext)
<1>4. (k + 1) * w \in Nat /\ (k + 1) * w >= 1
  <2>1. k \in Nat /\ w \in Nat \ {0}
    BY <1>2, <1>3
  <2> HIDE DEF k, w
  <2>2. \A x \in Nat, y \in Nat : x >= 1 /\ y >= 1 => x * y \in Nat /\ x * y >= 1
    OBVIOUS
  <2> QED BY <2>1, <2>2
<1>5. OutNumber(rc) = (k + 1) * w - 1
  BY DEF OutNumber
<1> HIDE DEF k, w
<1>6. OutNumber(rc) \in Nat /\ OutNumber(rc) + 1 = (k + 1) * w
  <2>1. PICK y : y = (k + 1) * w
    OBVIOUS
  <2> QED BY <1>4, <1>5, <2>1
<1>7. OutNumber(rc) * CodeTop \in Nat
  BY <1>6, Widths
<1> QED BY <1>1, <1>2, <1>3, <1>6, <1>7 DEF Whole, k, w

\* A byte written at the front is one digit more.
LEMMA WriteByteNumber ==
  ASSUME NEW rc, Clean(rc), NEW b \in 0..SymMax, WriteByte(rc, b).error = 0
  PROVE  LET out == WriteByte(rc, b)
         IN  /\ rc.error = 0 /\ Clean(out) /\ out.offs = rc.offs + 1
             /\ FrontNumber(out) = Base * FrontNumber(rc) + b
             /\ EndNumber(out) = EndNumber(rc)
<1> DEFINE out == WriteByte(rc, b)
<1>1. rc.offs \in Nat /\ rc.endOffs \in Nat /\ rc.storage \in Nat /\ rc \in Coder
  BY CoderTypes DEF Clean
<1>2. Room(rc)
  <2> SUFFICES ASSUME ~Room(rc) PROVE FALSE
    OBVIOUS
  <2>1. out = [rc EXCEPT !.error = 1]
    BY DEF WriteByte
  <2>2. out.error = 1
    BY <1>1, <2>1 DEF Coder, Records
  <2> QED BY <2>2
<1>3. out = [rc EXCEPT !.buf[rc.offs] = b, !.offs = rc.offs + 1]
  BY <1>2 DEF WriteByte
<1>4. out \in Coder /\ out.storage = rc.storage /\ out.endOffs = rc.endOffs
  BY <1>1, WriteByteIs DEF SameEnd
<1>5. out.offs = rc.offs + 1 /\ out.error = rc.error /\ out.buf = [rc.buf EXCEPT ![rc.offs] = b]
  BY <1>1, <1>3 DEF Coder, Records
<1> HIDE DEF out
<1>6. rc.offs \in 0..rc.storage - 1 /\ rc.offs + rc.endOffs < rc.storage
  BY <1>1, <1>2 DEF Room
<1>7. rc.offs \in DOMAIN rc.buf
  BY <1>6, StreamsAre
<1>8. /\ DOMAIN out.buf = DOMAIN rc.buf
      /\ \A i \in DOMAIN rc.buf : out.buf[i] = IF i = rc.offs THEN b ELSE rc.buf[i]
  BY <1>5
<1>9. Clean(out)
  <2>1. out.offs + out.endOffs <= out.storage
    BY <1>1, <1>4, <1>5, <1>6
  <2> QED BY <1>4, <1>8, <2>1 DEF Clean
<1>10. \A i \in 0..rc.offs - 1 : FrontOf(out)[i] = FrontOf(rc)[i]
  <2> TAKE i \in 0..rc.offs - 1
  <2>1. i \in 0..rc.storage - 1 /\ i # rc.offs
    BY <1>1, <1>6
  <2> QED BY <2>1, <1>4, <1>8, <1>9, StreamsAre
<1>11. \A i \in 0..rc.endOffs - 1 : BackOf(out)[i] = BackOf(rc)[i]
  <2> TAKE i \in 0..rc.endOffs - 1
  <2>1. i \in 0..rc.storage - 1 /\ rc.storage - 1 - i # rc.offs /\ rc.storage - 1 - i \in 0..rc.storage - 1
    BY <1>1, <1>6
  <2> QED BY <2>1, <1>4, <1>8, <1>9, StreamsAre
<1>12. FrontOf(out)[rc.offs] = b
  BY <1>4, <1>6, <1>7, <1>8, <1>9, StreamsAre
<1>13. Digits(FrontOf(out))[rc.offs] = Digits(FrontOf(rc))[rc.offs] /\ EndNumber(out) = EndNumber(rc)
  BY <1>1, <1>4, <1>9, <1>10, <1>11, StreamsAre, SameNumbers DEF EndNumber
<1>14. Digits(FrontOf(out))[rc.offs + 1] = Base * Digits(FrontOf(out))[rc.offs] + FrontOf(out)[rc.offs]
  BY <1>1, <1>9, StreamsAre, DigitsAre
<1> QED BY <1>5, <1>9, <1>12, <1>13, <1>14 DEF FrontNumber, out

\* A loop of writes, round by round.
LEMMA ByteRun ==
  ASSUME NEW rc \in Coder, NEW b \in 0..SymMax, NEW n \in Nat
  PROVE  \E run \in [0..n -> Coder] :
           /\ run[0] = rc /\ run[n] = WriteBytes(rc, b, n)
           /\ \A i \in 0..n - 1 : run[i + 1] = WriteByte(run[i], b)
<1> DEFINE F == [r \in Coder |-> WriteByte(r, b)]
           after == CHOOSE f : f = [i \in 0..n |-> IF i = 0 THEN rc ELSE WriteByte(f[i - 1], b)]
<1>1. PICK run \in [0..n -> Coder] : IsRun(run, rc, F, n)
  <2>1. F \in [Coder -> Coder]
    BY WriteByteIs
  <2> HIDE DEF F
  <2> QED BY <2>1, Runs
<1>2. \A i \in 1..n : run[i] = WriteByte(run[i - 1], b)
  <2> TAKE i \in 1..n
  <2>1. run[i - 1] \in Coder /\ run[i] = F[run[i - 1]]
    BY <1>1 DEF IsRun
  <2> QED BY <2>1
<1>3. run[0] = rc
  BY <1>1 DEF IsRun
<1>4. run = [i \in 0..n |-> IF i = 0 THEN rc ELSE WriteByte(run[i - 1], b)]
  <2>1. \A i \in 0..n : run[i] = IF i = 0 THEN rc ELSE WriteByte(run[i - 1], b)
    BY <1>2, <1>3
  <2> QED BY <2>1
<1>5. after = [i \in 0..n |-> IF i = 0 THEN rc ELSE WriteByte(after[i - 1], b)]
  BY <1>4, Zenon
<1>6. WriteBytes(rc, b, n) = after[n]
  BY Zenon DEF WriteBytes, Repeat
<1> HIDE DEF after, F
<1>7. after \in [0..n -> Coder] /\ after[0] = rc /\ \A i \in 0..n - 1 : after[i + 1] = WriteByte(after[i], b)
  <2>1. after[0] = rc /\ \A i \in 0..n - 1 : after[i + 1] = WriteByte(after[i], b)
    BY <1>5
  <2> DEFINE T == {i \in Nat : after[i] \in Coder}
  <2>2. 0 \in T
    BY <2>1
  <2>3. \A i \in 0..n - 1 : i \in T => i + 1 \in T
    BY <2>1, WriteByteIs
  <2>4. 0..n \subseteq T
    <3> HIDE DEF T
    <3> QED BY <2>2, <2>3, InductionTo
  <2>5. \A i \in 0..n : after[i] \in Coder
    BY <2>4
  <2> QED BY <1>5, <2>1, <2>5
<1>8. after \in [0..n -> Coder] /\ after[0] = rc /\ after[n] = WriteBytes(rc, b, n)
  BY <1>6, <1>7
<1>9. \A i \in 0..n - 1 : after[i + 1] = WriteByte(after[i], b)
  BY <1>7
<1> QED BY <1>8, <1>9, Zenon

\* A run of zeros, or one of 0xFF, which is one short of a carry.
LEMMA RunNumber ==
  ASSUME NEW rc, Clean(rc), NEW z \in {0, 1}, NEW n \in Nat, WriteBytes(rc, z * SymMax, n).error = 0
  PROVE  LET out == WriteBytes(rc, z * SymMax, n)
         IN  /\ rc.error = 0 /\ Clean(out) /\ out.offs = rc.offs + n
             /\ FrontNumber(out) + z = (FrontNumber(rc) + z) * Weight(n)
             /\ EndNumber(out) = EndNumber(rc)
<1> DEFINE b == z * SymMax
<1>1. b \in 0..SymMax /\ b = Base * z - z /\ rc \in Coder /\ SymMax = Base - 1 /\ Base \in Nat
  BY BaseIs DEF Clean
<1> HIDE DEF b
<1>2. PICK run \in [0..n -> Coder] :
        /\ run[0] = rc /\ run[n] = WriteBytes(rc, b, n)
        /\ \A i \in 0..n - 1 : run[i + 1] = WriteByte(run[i], b)
  <2>1. rc \in Coder /\ b \in 0..SymMax
    BY <1>1
  <2> QED BY ONLY <2>1, ByteRun, Zenon
<1> DEFINE OK(r, i) == /\ rc.error = 0 /\ Clean(r) /\ r.offs = rc.offs + i
                       /\ FrontNumber(r) + z = (FrontNumber(rc) + z) * Weight(i)
                       /\ EndNumber(r) = EndNumber(rc)
           T == {i \in Nat : run[i].error = 0 => OK(run[i], i)}
           x == FrontNumber(rc) + z
<1>3. rc.offs \in Nat /\ x \in Nat
  BY CoderTypes, NumbersAre DEF Clean
<1>4. 0 \in T
  <2>1. x * Weight(0) = x /\ rc.offs + 0 = rc.offs
    <3>1. x * 1 = x
      BY <1>3
    <3>2. Weight(0) = 1
      BY WeightIs
    <3> HIDE DEF x
    <3> QED BY <1>3, <3>1, <3>2
  <2>2. rc.error = 0 => OK(rc, 0)
    BY <2>1
  <2> HIDE DEF OK
  <2> QED BY <1>2, <2>2
<1>5. ASSUME NEW i \in 0..n - 1, i \in T PROVE i + 1 \in T
  <2> DEFINE r == run[i]
             w == WriteByte(r, b)
  <2>1. run[i + 1] = w /\ i \in Nat /\ r \in Coder
    BY <1>2
  <2>2. SUFFICES ASSUME w.error = 0 PROVE OK(w, i + 1)
    BY <2>1
  <2>3. r.error = 0
    <3>1. CASE Room(r)
      <4>1. w = [r EXCEPT !.buf[r.offs] = b, !.offs = r.offs + 1]
        BY <3>1 DEF WriteByte
      <4> QED BY <2>1, <2>2, <4>1 DEF Coder, Records
    <3>2. CASE ~Room(r)
      <4>1. w = [r EXCEPT !.error = 1]
        BY <3>2 DEF WriteByte
      <4> QED BY <2>1, <2>2, <4>1 DEF Coder, Records
    <3> QED BY <3>1, <3>2
  <2>4. OK(r, i)
    BY <1>5, <2>3
  <2>5. /\ Clean(w) /\ w.offs = r.offs + 1 /\ FrontNumber(w) = Base * FrontNumber(r) + b
        /\ EndNumber(w) = EndNumber(r)
    BY <1>1, <2>2, <2>4, WriteByteNumber
  <2>6. FrontNumber(w) + z = x * Weight(i + 1)
    <3>1. PICK y, v : y = FrontNumber(r) /\ v = Weight(i)
      OBVIOUS
    <3>2. y \in Nat /\ v \in Nat /\ Weight(i + 1) = Base * v
      BY <2>1, <2>4, <3>1, WeightIs, NumbersAre
    <3>3. y + z = x * v /\ FrontNumber(w) = Base * y + b
      BY <2>4, <2>5, <3>1
    <3>4. Base * y + b + z = Base * (y + z)
      <4>1. Base * (y + z) = Base * y + Base * z
        BY <1>1, <3>2
      <4>2. Base * y \in Nat /\ Base * z \in Nat /\ b \in Nat
        BY <1>1, <3>2
      <4> QED BY <1>1, <4>1, <4>2
    <3>5. Base * (x * v) = x * (Base * v)
      <4> HIDE DEF x
      <4> QED BY <1>1, <1>3, <3>2
    <3> HIDE DEF x
    <3> QED BY <3>2, <3>3, <3>4, <3>5
  <2>7. w.offs = rc.offs + (i + 1)
    BY <1>3, <2>1, <2>4, <2>5
  <2> QED BY <2>4, <2>5, <2>6, <2>7
<1>6. 0..n \subseteq T
  <2> HIDE DEF T
  <2> QED BY <1>4, <1>5, InductionTo
<1>7. run[n].error = 0 => OK(run[n], n)
  BY <1>6
<1> QED BY <1>2, <1>7 DEF b

\* An error of a write is still there after the next ones.
LEMMA ErrorStays == \A r \in Coder, b \in 0..SymMax, n \in Nat : WriteBytes(r, b, n).error = 0 => r.error = 0
<1> SUFFICES ASSUME NEW rc \in Coder, NEW b \in 0..SymMax, NEW n \in Nat, WriteBytes(rc, b, n).error = 0
             PROVE  rc.error = 0
  OBVIOUS
<1>1. PICK run \in [0..n -> Coder] :
        /\ run[0] = rc /\ run[n] = WriteBytes(rc, b, n)
        /\ \A i \in 0..n - 1 : run[i + 1] = WriteByte(run[i], b)
  <2>1. rc \in Coder /\ b \in 0..SymMax /\ n \in Nat
    OBVIOUS
  <2> QED BY ONLY <2>1, ByteRun, Zenon
<1> DEFINE T == {i \in Nat : run[i].error = 0 => rc.error = 0}
<1>2. 0 \in T
  BY <1>1
<1>3. ASSUME NEW i \in 0..n - 1, i \in T PROVE i + 1 \in T
  <2> DEFINE r == run[i]
  <2>1. run[i + 1] = WriteByte(r, b) /\ i \in Nat /\ r \in Coder
    BY <1>1
  <2>2. WriteByte(r, b).error = 0 => r.error = 0
    <3>1. CASE Room(r)
      <4>1. WriteByte(r, b) = [r EXCEPT !.buf[r.offs] = b, !.offs = r.offs + 1]
        BY <3>1 DEF WriteByte
      <4> QED BY <2>1, <4>1 DEF Coder, Records
    <3>2. CASE ~Room(r)
      <4>1. WriteByte(r, b) = [r EXCEPT !.error = 1]
        BY <3>2 DEF WriteByte
      <4> QED BY <2>1, <4>1 DEF Coder, Records
    <3> QED BY <3>1, <3>2
  <2> QED BY <1>3, <2>1, <2>2
<1>4. 0..n \subseteq T
  <2> HIDE DEF T
  <2> QED BY <1>2, <1>3, InductionTo
<1>5. run[n].error = 0 => rc.error = 0
  BY <1>4
<1> QED BY <1>1, <1>5

\* A carry and the byte below it.
LEMMA CarryBits ==
  ASSUME NEW c \in 0..2 * Base - 1
  PROVE  LET z == High(c, SymBits)
         IN  /\ z \in {0, 1} /\ Low(c, SymBits) \in 0..SymMax /\ c = Base * z + Low(c, SymBits)
             /\ z = 0 <=> c < Base
             /\ Low(SymMax + z, SymBits) = (1 - z) * SymMax
             /\ \A r \in 0..SymMax : r + z <= SymMax => Low(r + z, SymBits) = r + z
<1> DEFINE z == High(c, SymBits)
           l == Low(c, SymBits)
<1>1. Base \in Nat \ {0} /\ SymMax = Base - 1 /\ c \in Nat
  BY BaseIs
<1>2. z = c \div Base /\ l = c % Base
  BY DEF High, Low, Base
<1>3. z \in Nat /\ l \in 0..Base - 1 /\ c = Base * z + l
  BY <1>1, <1>2, Division
<1> HIDE DEF z, l
<1>4. z \in {0, 1}
  <2>1. ASSUME z >= 2 PROVE FALSE
    <3>1. Base * z >= Base * 2
      BY <1>1, <1>3, <2>1, Product
    <3> QED BY <1>1, <1>3, <3>1
  <2> QED BY <1>3, <2>1
<1>5. z = 0 <=> c < Base
  BY <1>1, <1>3, <1>4
<1>6. \A x \in 0..Base - 1 : x % Base = x
  BY <1>1
<1>7. Base % Base = 0
  BY <1>1
<1>8. Low(SymMax + z, SymBits) = (1 - z) * SymMax
  <2>1. CASE z = 0
    <3>1. SymMax + z = Base - 1 /\ (1 - z) * SymMax = Base - 1
      BY <1>1, <2>1
    <3> QED BY <1>1, <1>6, <3>1 DEF Low, Base
  <2>2. CASE z = 1
    <3>1. SymMax + z = Base /\ (1 - z) * SymMax = 0
      BY <1>1, <2>2
    <3> QED BY <1>1, <1>7, <3>1 DEF Low, Base
  <2> QED BY <1>4, <2>1, <2>2
<1>9. \A r \in 0..SymMax : r + z <= SymMax => Low(r + z, SymBits) = r + z
  BY <1>1, <1>4, <1>6 DEF Low, Base
<1> QED BY <1>1, <1>3, <1>4, <1>5, <1>8, <1>9 DEF z, l

\* What CarryOut() does to the number: the byte joins it, carry and all.
LEMMA CarryOutNumber ==
  ASSUME NEW rc, Sound(rc), NEW c \in 0..2 * Base - 1, c >= Base => rc.rem >= 0 /\ rc.rem < SymMax,
         CarryOut(rc, c).error = 0
  PROVE  LET out == CarryOut(rc, c)
         IN  /\ rc.error = 0 /\ Sound(out)
             /\ OutNumber(out) = Base * OutNumber(rc) + c /\ EndNumber(out) = EndNumber(rc)
             /\ Pending(out) = Pending(rc) + 1 /\ SameEnd(out, rc) /\ SameCode(out, rc) /\ out.val = rc.val
             /\ out.rem = SymMax => rc.rem = SymMax \/ c = 2 * Base - 1
             /\ out.rem < 0 => rc.rem < 0 /\ c = SymMax
<1> DEFINE out == CarryOut(rc, c)
           z == High(c, SymBits)
           l == Low(c, SymBits)
           f == FrontNumber(rc)
           k == KeptNumber(rc)
           w == Weight(rc.ext)
           o == OutNumber(rc)
           OK == /\ rc.error = 0 /\ Sound(out)
                 /\ OutNumber(out) = Base * OutNumber(rc) + c /\ EndNumber(out) = EndNumber(rc)
                 /\ Pending(out) = Pending(rc) + 1 /\ SameEnd(out, rc) /\ SameCode(out, rc) /\ out.val = rc.val
                 /\ out.rem = SymMax => rc.rem = SymMax \/ c = 2 * Base - 1
                 /\ out.rem < 0 => rc.rem < 0 /\ c = SymMax
<1>1. /\ rc \in Coder /\ rc.offs \in Nat /\ rc.ext \in Nat /\ rc.rem \in Nat \cup {-1} /\ rc.rem <= SymMax
      /\ (rc.rem < 0 => rc.offs = 0) /\ Clean(rc)
  BY CoderTypes DEF Sound, Clean
<1>2. Base \in Nat /\ Base >= 4 /\ SymMax = Base - 1 /\ c \in Nat
  BY BaseIs
<1>3. /\ z \in {0, 1} /\ l \in 0..SymMax /\ c = Base * z + l /\ (z = 0 <=> c < Base)
      /\ Low(SymMax + z, SymBits) = (1 - z) * SymMax
      /\ \A r \in 0..SymMax : r + z <= SymMax => Low(r + z, SymBits) = r + z
  BY CarryBits
<1>4. SameEnd(out, rc) /\ SameCode(out, rc) /\ out.val = rc.val /\ out \in Coder
  BY <1>1, <1>2, CarryOutIs
<1>5. k \in Nat /\ w \in Nat \ {0} /\ o \in Nat /\ o + 1 = (k + 1) * w /\ f \in Nat
  BY <1>1, OutNumberIs, NumbersAre
<1>6. ASSUME c = SymMax PROVE OK
  <2>1. out = [rc EXCEPT !.ext = rc.ext + 1]
    BY <1>6 DEF CarryOut
  <2>2. /\ out.ext = rc.ext + 1 /\ out.rem = rc.rem /\ out.offs = rc.offs /\ out.buf = rc.buf
        /\ out.error = rc.error /\ out.storage = rc.storage /\ out.endOffs = rc.endOffs
    BY <1>1, <2>1 DEF Coder, Records
  <2>3. Sound(out) /\ FrontNumber(out) = FrontNumber(rc) /\ EndNumber(out) = EndNumber(rc)
    BY <1>1, <1>4, <2>2, Zenon DEF Sound, Clean, FrontNumber, FrontOf, EndNumber, BackOf
  <2>4. KeptNumber(out) = k /\ Weight(out.ext) = Base * w
    BY <1>1, <2>2, <2>3, WeightIs DEF KeptNumber
  <2>5. OutNumber(out) = (k + 1) * (Base * w) - 1
    BY <2>4 DEF OutNumber
  <2>6. (k + 1) * (Base * w) = Base * (o + 1)
    <3>1. \A x \in Nat, y \in Nat, b \in Nat : x * (b * y) = b * (x * y)
      OBVIOUS
    <3>2. k + 1 \in Nat /\ w \in Nat
      BY <1>5
    <3> HIDE DEF k, w, o
    <3> QED BY <1>2, <1>5, <3>1, <3>2
  <2>7. OutNumber(out) = Base * o + c
    <3>1. Base * (o + 1) = Base * o + Base /\ Base * o \in Nat
      BY <1>2, <1>5
    <3> HIDE DEF o
    <3> QED BY <1>2, <1>6, <2>5, <2>6, <3>1
  <2>8. Pending(out) = Pending(rc) + 1
    BY <1>1, <2>2 DEF Pending
  <2> HIDE DEF out, o
  <2> QED BY <1>4, <1>6, <2>2, <2>3, <2>7, <2>8 DEF out, o
<1>7. ASSUME c # SymMax PROVE OK
  <2> DEFINE first == IF rc.rem >= 0 THEN WriteByte(rc, Low(rc.rem + z, SymBits)) ELSE rc
             chain == WriteBytes(first, (1 - z) * SymMax, rc.ext)
  <2>1. out = [chain EXCEPT !.ext = 0, !.rem = l]
    BY <1>3, <1>7 DEF CarryOut
  <2>2. rc.rem >= 0 => rc.rem + z \in 0..SymMax /\ Low(rc.rem + z, SymBits) = rc.rem + z
    BY <1>1, <1>2, <1>3
  <2>3. first \in Coder /\ SameEnd(first, rc)
    BY <1>1, <2>2, WriteByteIs DEF SameEnd
  <2>4. (1 - z) \in {0, 1} /\ (1 - z) * SymMax \in 0..SymMax
    BY <1>2, <1>3
  <2>5. chain \in Coder /\ SameEnd(chain, first)
    BY <1>1, <2>3, <2>4, RunOfBytes
  <2> HIDE DEF chain
  <2>6. out.ext = 0 /\ out.rem = l /\ out.offs = chain.offs /\ out.buf = chain.buf /\ out.error = chain.error
        /\ out.storage = chain.storage /\ out.endOffs = chain.endOffs
    BY <2>1, <2>5 DEF Coder, Records
  <2>7. chain.error = 0
    BY <2>6
  <2>8. /\ rc.error = 0 /\ Clean(first) /\ first.offs = rc.offs + (IF rc.rem >= 0 THEN 1 ELSE 0)
        /\ FrontNumber(first) = k + z /\ EndNumber(first) = EndNumber(rc)
    <3>0. first.error = 0 /\ first \in Coder
      <4> HIDE DEF first
      <4>1. first \in Coder /\ rc.ext \in Nat
        BY <1>1, <2>3
      <4>2. \A r \in Coder, b \in 0..SymMax, n \in Nat : WriteBytes(r, b, n).error = 0 => r.error = 0
        BY ErrorStays
      <4> QED BY <2>4, <2>7, <4>1, <4>2 DEF chain
    <3>1. CASE rc.rem >= 0
      <4>1. first = WriteByte(rc, rc.rem + z)
        BY <2>2, <3>1
      <4>2. /\ rc.error = 0 /\ Clean(first) /\ first.offs = rc.offs + 1
            /\ FrontNumber(first) = Base * f + (rc.rem + z) /\ EndNumber(first) = EndNumber(rc)
        <5> HIDE DEF first
        <5> QED BY <1>1, <2>2, <3>0, <3>1, <4>1, WriteByteNumber
      <4>3. k = Base * f + rc.rem
        BY <1>1, <3>1 DEF KeptNumber
      <4>4. Base * f \in Nat
        BY <1>2, <1>5
      <4> HIDE DEF first, f, k
      <4> QED BY <1>1, <1>3, <3>1, <4>2, <4>3, <4>4
    <3>2. CASE rc.rem < 0
      <4>1. first = rc /\ k = 0 /\ rc.offs = 0 /\ rc.rem = -1
        BY <1>1, <3>2 DEF KeptNumber
      <4>2. FrontNumber(rc) = 0
        BY <1>1, <4>1, StreamsAre, DigitsAre DEF FrontNumber
      <4>3. z = 0
        BY <1>2, <1>3, <4>1
      <4> QED BY <1>1, <3>0, <4>1, <4>2, <4>3
    <3> QED BY <1>1, <3>1, <3>2
  <2> HIDE DEF first
  <2>9. /\ Clean(chain) /\ chain.offs = first.offs + rc.ext /\ EndNumber(chain) = EndNumber(first)
        /\ FrontNumber(chain) + (1 - z) = (FrontNumber(first) + (1 - z)) * w
    BY <1>1, <2>4, <2>7, <2>8, RunNumber DEF chain
  <2>10. FrontNumber(chain) = o + z
    <3>1. FrontNumber(first) + (1 - z) = k + 1
      BY <1>3, <1>5, <2>8
    <3>2. FrontNumber(chain) \in Nat
      BY <2>9, NumbersAre
    <3> HIDE DEF k, w, o
    <3> QED BY <1>3, <1>5, <2>9, <3>1, <3>2
  <2>11. FrontNumber(out) = FrontNumber(chain) /\ EndNumber(out) = EndNumber(chain)
    BY <2>6, Zenon DEF FrontNumber, FrontOf, EndNumber, BackOf
  <2>12. Clean(out) /\ Sound(out)
    BY <1>2, <1>3, <1>4, <2>6, <2>9 DEF Sound, Clean
  <2>13. KeptNumber(out) = Base * (o + z) + l /\ Weight(out.ext) = 1
    BY <1>2, <1>3, <2>6, <2>10, <2>11, WeightIs DEF KeptNumber
  <2>14. OutNumber(out) = Base * o + c
    <3>1. Base * (o + z) = Base * o + Base * z /\ Base * o \in Nat /\ Base * z \in Nat
      BY <1>2, <1>3, <1>5
    <3>2. OutNumber(out) = (Base * (o + z) + l + 1) * 1 - 1
      BY <2>13 DEF OutNumber
    <3> HIDE DEF o, z, l
    <3> QED BY <1>2, <1>3, <3>1, <3>2
  <2>15. Pending(out) = Pending(rc) + 1
    BY <1>1, <1>3, <2>6, <2>8, <2>9 DEF Pending
  <2>16. out.rem = SymMax => c = 2 * Base - 1
    <3>1. c # SymMax => (l = SymMax => z = 1)
      BY <1>2, <1>3
    <3>2. z = 1 /\ l = SymMax => c = 2 * Base - 1
      BY <1>2, <1>3
    <3> QED BY <1>7, <2>6, <3>1, <3>2
  <2>17. ~ (out.rem < 0)
    BY <1>2, <1>3, <2>6
  <2> HIDE DEF out, o
  <2> QED BY <1>4, <2>8, <2>9, <2>11, <2>12, <2>14, <2>15, <2>16, <2>17 DEF out, o
<1>8. OK
  <2> HIDE DEF OK
  <2> QED BY <1>6, <1>7
<1> QED BY <1>8

\* Powers grow.
LEMMA PowerOrder ==
  ASSUME NEW a \in Nat, NEW b \in Nat, a <= b
  PROVE  Power[a] <= Power[b]
<1>1. b - a \in Nat /\ a + (b - a) = b
  OBVIOUS
<1>2. Power[b] = Power[a] * Power[b - a]
  BY <1>1, PowerSum
<1>3. PICK p, q : p = Power[a] /\ q = Power[b - a]
  OBVIOUS
<1>4. p \in Nat /\ q \in Nat \ {0}
  BY <1>1, <1>3, PowerPositive
<1>5. p <= p * q
  BY <1>4
<1> QED BY <1>2, <1>3, <1>5

\* The bounds of the range are powers of two.
LEMMA TopIs == CodeTop = Power[CodeBits - 1] /\ CodeBot = Power[CodeShift] /\ CodeBot = Pow[CodeShift]
<1>1. CodeBits - 1 \in 0..CodeBits /\ CodeShift \in 0..CodeBits /\ CodeBits - 1 - SymBits = CodeShift
  BY Widths
<1> QED BY <1>1, PowerPow DEF CodeTop, CodeBot

\* So few bytes are as heavy as CodeTop that the rounds are enough.
LEMMA HeavyWeight ==
  ASSUME NEW k \in Nat, Weight(k) <= CodeTop
  PROVE  SymBits * k < CodeBits /\ k < Rounds
<1>1. SymBits * k \in Nat /\ CodeBits \in Nat \ {0}
  BY Widths
<1>2. SymBits * k < CodeBits
  <2> SUFFICES ASSUME SymBits * k >= CodeBits PROVE FALSE
    BY <1>1
  <2>1. Power[CodeBits] <= Power[SymBits * k]
    BY <1>1, PowerOrder
  <2>2. CodeBits - 1 \in Nat /\ (CodeBits - 1) + 1 = CodeBits
    BY <1>1
  <2>3. Power[CodeBits] = 2 * Power[CodeBits - 1]
    BY <2>2, PowerStep
  <2>4. CodeTop \in Nat /\ CodeTop > 0
    BY Widths
  <2>5. PICK w : w = Power[SymBits * k]
    OBVIOUS
  <2>6. w <= CodeTop /\ 2 * CodeTop <= w /\ w \in Nat
    <3>1. w \in Nat
      BY <1>1, <2>5, PowerPositive
    <3> QED BY <2>1, <2>3, <2>5, <3>1, TopIs DEF Weight
  <2> QED BY <2>4, <2>6
<1>3. SymBits * k < SymBits * Rounds /\ Rounds \in Nat
  BY <1>1, <1>2, RoundsSuffice, Widths
<1>4. k < Rounds
  BY <1>3, Scaled
<1> QED BY <1>2, <1>4

\* A range grows in less than Rounds rounds, and no round is lost.
LEMMA RoundsNeeded ==
  ASSUME NEW g \in Nat \ {0}, NEW k \in Nat, g * Weight(k) <= CodeTop
  PROVE  k < Rounds /\ \A i \in 0..k - 1 : g * Weight(i) <= CodeBot
<1>1. CodeTop = CodeBot * Base /\ CodeBot \in Nat /\ Base \in Nat \ {0} /\ CodeTop \in Nat
  BY Widths, BaseIs DEF Base
<1>2. k < Rounds
  <2>1. Weight(k) \in Nat
    BY WeightIs
  <2>2. Weight(k) <= g * Weight(k)
    <3> DEFINE w == Weight(k)
    <3> HIDE DEF w
    <3>1. \A x \in Nat, y \in Nat \ {0} : x <= y * x
      OBVIOUS
    <3> QED BY <2>1, <3>1 DEF w
  <2>3. g * Weight(k) \in Nat
    BY <2>1
  <2> QED BY <1>1, <2>1, <2>2, <2>3, HeavyWeight
<1>3. ASSUME NEW i \in 0..k - 1 PROVE g * Weight(i) <= CodeBot
  <2>1. i \in Nat /\ k - 1 - i \in Nat /\ i + 1 \in Nat /\ (i + 1) + (k - 1 - i) = k
    OBVIOUS
  <2>2. PICK w, v : w = Weight(i) /\ v = Weight(k - 1 - i)
    OBVIOUS
  <2>3. w \in Nat /\ v \in Nat \ {0} /\ Weight(i + 1) = Base * w /\ Weight(k) = (Base * w) * v
    BY <2>1, <2>2, WeightIs, WeightSum
  <2>4. g * ((Base * w) * v) <= CodeBot * Base
    BY <1>1, <2>3
  <2>5. g * ((Base * w) * v) = ((g * w) * v) * Base /\ (g * w) * v >= g * w /\ g * w \in Nat /\ (g * w) * v \in Nat
    <3>1. \A a \in Nat, b \in Nat, c \in Nat, d \in Nat : a * ((b * c) * d) = ((a * c) * d) * b
      OBVIOUS
    <3>2. \A a \in Nat, b \in Nat \ {0} : a * b >= a
      OBVIOUS
    <3>3. g * w \in Nat
      BY <2>3
    <3> QED BY <1>1, <2>3, <3>1, <3>2, <3>3
  <2>6. \A a \in Nat, b \in Nat : a * Base <= b * Base => a <= b
    BY <1>1
  <2>7. (g * w) * v <= CodeBot
    BY <1>1, <2>4, <2>5, <2>6
  <2> QED BY <1>1, <2>2, <2>5, <2>7
<1> QED BY <1>2, <1>3

\* Some number of bytes brings a range between the bounds.
LEMMA RoundsExist ==
  ASSUME NEW g \in 1..CodeTop
  PROVE  \E k \in Nat : g * Weight(k) \in CodeBot + 1..CodeTop
<1>1. CodeTop = CodeBot * Base /\ CodeBot \in Nat /\ Base \in Nat \ {0} /\ CodeTop \in Nat /\ CodeBot <= CodeTop /\ g \in Nat \ {0}
  BY Widths, BaseIs DEF Base
<1> SUFFICES ASSUME \A k \in Nat : ~ (g * Weight(k) \in CodeBot + 1..CodeTop) PROVE FALSE
  OBVIOUS
<1> DEFINE T == {i \in Nat : g * Weight(i) <= CodeBot}
<1>2. \A i \in Nat : g * Weight(i) \in Nat /\ (g * Weight(i) <= CodeTop => g * Weight(i) <= CodeBot)
  <2> TAKE i \in Nat
  <2>1. Weight(i) \in Nat
    BY WeightIs
  <2>2. g * Weight(i) \in Nat
    BY <1>1, <2>1
  <2> QED BY <1>1, <2>2
<1>3. 0 \in T
  <2>1. Weight(0) = 1 /\ g * 1 = g
    BY <1>1, WeightIs
  <2> QED BY <1>2, <2>1
<1>4. ASSUME NEW i \in T PROVE i + 1 \in T
  <2>1. PICK w : w = Weight(i)
    OBVIOUS
  <2>2. w \in Nat /\ Weight(i + 1) = Base * w /\ g * w <= CodeBot
    BY <2>1, WeightIs
  <2>3. g * (Base * w) = (g * w) * Base /\ g * w \in Nat
    BY <1>1, <2>2
  <2>4. (g * w) * Base <= CodeBot * Base
    <3>1. \A a \in Nat, b \in Nat : a <= b => a * Base <= b * Base
      BY <1>1
    <3> QED BY <1>1, <2>2, <2>3, <3>1
  <2>5. g * Weight(i + 1) <= CodeTop /\ i + 1 \in Nat
    BY <1>1, <2>2, <2>3, <2>4
  <2> QED BY <1>2, <2>5
<1>5. T = Nat
  <2>1. T \subseteq Nat
    OBVIOUS
  <2> HIDE DEF T
  <2> QED BY <1>3, <1>4, <2>1, Induction
<1>6. Rounds \in Nat
  BY RoundsSuffice
<1>7. g * Weight(Rounds) <= CodeTop
  BY <1>1, <1>2, <1>5, <1>6
<1>8. Rounds < Rounds
  BY <1>1, <1>6, <1>7, RoundsNeeded
<1> QED BY <1>6, <1>8

\* CarryOut and ShiftOut keep an error.
LEMMA ErrorKept ==
  /\ \A rc \in Coder, c \in Nat : CarryOut(rc, c).error = 0 => rc.error = 0
  /\ \A rc \in Coder : ShiftOut(rc).error = 0 => rc.error = 0
<1>1. ASSUME NEW rc \in Coder, NEW c \in Nat, CarryOut(rc, c).error = 0 PROVE rc.error = 0
  <2>1. CASE c = SymMax
    <3>1. CarryOut(rc, c) = [rc EXCEPT !.ext = rc.ext + 1]
      BY <2>1 DEF CarryOut
    <3> QED BY <1>1, <3>1 DEF Coder, Records
  <2>2. CASE c # SymMax
    <3> DEFINE z == High(c, SymBits)
               first == IF rc.rem >= 0 THEN WriteByte(rc, Low(rc.rem + z, SymBits)) ELSE rc
               b == Low(SymMax + z, SymBits)
               chain == WriteBytes(first, b, rc.ext)
    <3>0. SymMax \in Nat /\ SymBits \in 0..CodeBits /\ Pow[SymBits] - 1 = SymMax /\ rc.ext \in Nat /\ rc.rem \in Nat \cup {-1}
      BY Widths, BaseIs, CoderTypes DEF SymMax
    <3>1. z \in Nat /\ b \in 0..SymMax /\ (rc.rem >= 0 => Low(rc.rem + z, SymBits) \in 0..SymMax)
      <4>1. z \in Nat
        BY <3>0, LowHigh
      <4>2. \A x \in Nat : Low(x, SymBits) \in 0..SymMax
        BY <3>0, LowHigh
      <4>3. SymMax + z \in Nat /\ (rc.rem >= 0 => rc.rem + z \in Nat)
        BY <3>0, <4>1
      <4> QED BY <4>1, <4>2, <4>3
    <3>2. CarryOut(rc, c) = [chain EXCEPT !.ext = 0, !.rem = Low(c, SymBits)]
      BY <2>2 DEF CarryOut
    <3>3. first \in Coder
      BY <3>1, WriteByteIs
    <3>4. first.error = 0
      <4> HIDE DEF first, b, z
      <4>1. chain \in Coder
        BY <3>0, <3>1, <3>3, RunOfBytes
      <4>2. chain.error = 0
        <5> HIDE DEF chain
        <5> QED BY <1>1, <3>2, <4>1 DEF Coder, Records
      <4> QED BY <3>0, <3>1, <3>3, <4>2, ErrorStays
    <3>5. CASE rc.rem >= 0
      <4>1. PICK x \in 0..SymMax : first = WriteByte(rc, x)
        BY <3>1, <3>5
      <4>2. CASE Room(rc)
        <5>1. first = [rc EXCEPT !.buf[rc.offs] = x, !.offs = rc.offs + 1]
          BY <4>1, <4>2 DEF WriteByte
        <5> HIDE DEF first
        <5> QED BY <3>4, <5>1 DEF Coder, Records
      <4>3. CASE ~Room(rc)
        <5>1. first = [rc EXCEPT !.error = 1]
          BY <4>1, <4>3 DEF WriteByte
        <5> HIDE DEF first
        <5> QED BY <3>4, <5>1 DEF Coder, Records
      <4> QED BY <4>2, <4>3
    <3>6. CASE ~(rc.rem >= 0)
      BY <3>4, <3>6
    <3> QED BY <3>5, <3>6
  <2> QED BY <2>1, <2>2
<1>2. ASSUME NEW rc \in Coder, ShiftOut(rc).error = 0 PROVE rc.error = 0
  <2> DEFINE c == High(rc.val, CodeShift)
             r == CarryOut(rc, c)
  <2>1. c \in Nat
    <3>1. rc.val \in Nat /\ CodeShift \in 0..CodeBits
      BY CoderTypes, Widths
    <3> QED BY <3>1, LowHigh
  <2>2. r \in Coder
    BY <2>1, CarryOutIs
  <2>3. ShiftOut(rc) = [r EXCEPT !.val = Low(rc.val * Pow[SymBits], CodeBits - 1)]
    BY DEF ShiftOut
  <2>4. r.error = 0
    <3> HIDE DEF r
    <3> QED BY <1>2, <2>2, <2>3 DEF Coder, Records
  <2> QED BY <1>1, <2>1, <2>4
<1> QED BY <1>1, <1>2

\* A byte that is not 0xFF ends the run that waits.
LEMMA CarryOutEnds ==
  ASSUME NEW rc \in Coder, NEW c \in Nat, c # SymMax
  PROVE  \E q \in Coder : CarryOut(rc, c) = [q EXCEPT !.ext = 0, !.rem = Low(c, SymBits)]
<1> DEFINE z == High(c, SymBits)
           first == IF rc.rem >= 0 THEN WriteByte(rc, Low(rc.rem + z, SymBits)) ELSE rc
           b == Low(SymMax + z, SymBits)
           chain == WriteBytes(first, b, rc.ext)
<1>1. /\ SymMax \in Nat /\ SymBits \in 0..CodeBits /\ Pow[SymBits] - 1 = SymMax /\ rc.ext \in Nat
      /\ rc.rem \in Nat \cup {-1}
  BY Widths, BaseIs, CoderTypes DEF SymMax
<1>2. z \in Nat /\ b \in 0..SymMax /\ (rc.rem >= 0 => Low(rc.rem + z, SymBits) \in 0..SymMax)
  <2>1. z \in Nat
    BY <1>1, LowHigh
  <2>2. \A x \in Nat : Low(x, SymBits) \in 0..SymMax
    BY <1>1, LowHigh
  <2>3. SymMax + z \in Nat /\ (rc.rem >= 0 => rc.rem + z \in Nat)
    BY <1>1, <2>1
  <2> QED BY <2>1, <2>2, <2>3
<1>3. CarryOut(rc, c) = [chain EXCEPT !.ext = 0, !.rem = Low(c, SymBits)]
  BY DEF CarryOut
<1>4. first \in Coder
  BY <1>2, WriteByteIs
<1>5. chain \in Coder
  <2> HIDE DEF first, b
  <2> QED BY <1>1, <1>2, <1>4, RunOfBytes
<1> HIDE DEF chain
<1> QED BY <1>3, <1>5

\* Quotient and remainder of a multiple and a bit.
LEMMA Remainder ==
  ASSUME NEW n \in Nat \ {0}, NEW a \in Nat, NEW b \in 0..n - 1
  PROVE  (a * n + b) % n = b /\ (a * n + b) \div n = a
<1> DEFINE x == a * n + b
           q == x \div n
           r == x % n
<1>1. x \in Nat /\ a * n = n * a /\ n * a \in Nat
  OBVIOUS
<1>2. q \in Nat /\ r \in 0..n - 1 /\ x = n * q + r
  <2> HIDE DEF x
  <2> QED BY <1>1, Division
<1>3. n * q + r = n * a + b
  BY <1>1, <1>2
<1> HIDE DEF q, r
<1>4. ~ (q < a)
  <2> SUFFICES ASSUME q < a PROVE FALSE
    OBVIOUS
  <2>1. n * (q + 1) <= n * a /\ n * (q + 1) = n * q + n /\ n * q \in Nat
    <3>1. a - (q + 1) \in Nat /\ (q + 1) + (a - (q + 1)) = a /\ q + 1 \in Nat
      BY <1>2
    <3> QED BY <1>2, <3>1, Product
  <2> QED BY <1>1, <1>2, <1>3, <2>1
<1>5. ~ (a < q)
  <2> SUFFICES ASSUME a < q PROVE FALSE
    OBVIOUS
  <2>1. n * (a + 1) <= n * q /\ n * (a + 1) = n * a + n /\ n * q \in Nat
    <3>1. q - (a + 1) \in Nat /\ (a + 1) + (q - (a + 1)) = q /\ a + 1 \in Nat
      BY <1>2
    <3> QED BY <1>2, <3>1, Product
  <2> QED BY <1>1, <1>2, <1>3, <2>1
<1>6. q = a
  BY <1>2, <1>4, <1>5
<1>7. r = b
  BY <1>1, <1>2, <1>3, <1>6
<1> QED BY <1>6, <1>7 DEF q, r

\* The upper bits of val leave, the others move up by one byte.
LEMMA ShiftBits ==
  ASSUME NEW v \in 0..Word - 1
  PROVE  LET c == High(v, CodeShift)
             l == Low(v * Pow[SymBits], CodeBits - 1)
         IN  /\ c \in 0..2 * Base - 1 /\ l \in 0..CodeTop - 1 /\ Base * v = c * CodeTop + l
             /\ v < CodeTop => c < Base
<1> DEFINE c == High(v, CodeShift)
           d == Low(v, CodeShift)
<1>1. /\ CodeTop = CodeBot * Base /\ CodeBot \in Nat \ {0} /\ Base \in Nat \ {0} /\ CodeTop \in Nat \ {0}
      /\ Word = 2 * CodeTop /\ CodeShift \in 0..CodeBits /\ CodeBot = Pow[CodeShift]
      /\ CodeTop = Pow[CodeBits - 1]
  BY Widths, BaseIs, TopIs DEF Base, CodeTop
<1>2. c \in Nat /\ d \in 0..CodeBot - 1 /\ v = CodeBot * c + d
  BY <1>1, LowHigh
<1> HIDE DEF c, d
<1>3. \A x \in Nat : v < CodeBot * x => c < x
  <2> SUFFICES ASSUME NEW x \in Nat, v < CodeBot * x, c >= x PROVE FALSE
    BY <1>2
  <2>1. CodeBot * c >= CodeBot * x
    BY <1>1, <1>2, Product
  <2>2. CodeBot * c \in Nat /\ CodeBot * x \in Nat
    BY <1>1, <1>2
  <2> QED BY <1>2, <2>1, <2>2
<1>4. c < 2 * Base
  <2>1. CodeBot * (2 * Base) = 2 * CodeTop /\ 2 * Base \in Nat
    BY <1>1
  <2> QED BY <1>1, <1>3, <2>1
<1>5. v < CodeTop => c < Base
  BY <1>1, <1>3
<1>6. Base * v = c * CodeTop + Base * d /\ Base * d \in 0..CodeTop - 1
  <2>1. Base * (CodeBot * c + d) = c * (CodeBot * Base) + Base * d
    BY <1>1, <1>2
  <2>2. d + 1 <= CodeBot /\ d + 1 \in Nat
    BY <1>1, <1>2
  <2>3. Base * (d + 1) <= Base * CodeBot /\ Base * (d + 1) = Base * d + Base /\ Base * d \in Nat /\ Base * CodeBot = CodeTop
    <3>1. \A a \in Nat, b \in Nat : a <= b => Base * a <= Base * b
      BY <1>1
    <3>2. d \in Nat
      BY <1>2
    <3> QED BY <1>1, <2>2, <3>1, <3>2
  <2> QED BY <1>1, <1>2, <2>1, <2>3
<1>7. (v * Base) % CodeTop = Base * d
  <2>1. \A a \in Nat, b \in 0..CodeTop - 1 : (a * CodeTop + b) % CodeTop = b
    BY <1>1, Remainder
  <2>2. v * Base = Base * v
    BY <1>1
  <2> QED BY <1>2, <1>6, <2>1, <2>2
<1>8. Low(v * Pow[SymBits], CodeBits - 1) = Base * d
  BY <1>1, <1>7 DEF Low, Base
<1> QED BY <1>1, <1>2, <1>4, <1>5, <1>6, <1>8 DEF c

\* One byte leaves: the lower end is the same, in units that are finer.
LEMMA ShiftOutNumber ==
  ASSUME NEW rc, Sound(rc), NEW g \in Nat \ {0}, CarryFits(rc, rc.val + g), ShiftOut(rc).error = 0
  PROVE  LET out == ShiftOut(rc)
         IN  /\ rc.error = 0 /\ Sound(out) /\ Whole(out) = Base * Whole(rc) /\ out.val < CodeTop
             /\ EndNumber(out) = EndNumber(rc) /\ Pending(out) = Pending(rc) + 1
             /\ SameEnd(out, rc) /\ SameCode(out, rc)
             /\ Base * g <= CodeTop => CarryFits(out, out.val + Base * g)
<1> DEFINE out == ShiftOut(rc)
           c == High(rc.val, CodeShift)
           l == Low(rc.val * Pow[SymBits], CodeBits - 1)
           r == CarryOut(rc, c)
           o == OutNumber(rc)
<1>0. /\ rc \in Coder /\ rc.rem \in Nat \cup {-1} /\ rc.val \in Nat /\ rc.rem <= SymMax
      /\ Base \in Nat /\ Base >= 4 /\ SymMax = Base - 1 /\ CodeTop \in Nat \ {0} /\ Word = 2 * CodeTop
  BY BaseIs, Widths, CoderTypes DEF Sound, Clean
<1>1. rc.val \in 0..Word - 1 /\ (rc.rem < 0 \/ rc.rem = SymMax => rc.val < CodeTop)
  BY <1>0 DEF CarryFits
<1>2. /\ c \in 0..2 * Base - 1 /\ l \in 0..CodeTop - 1 /\ Base * rc.val = c * CodeTop + l
      /\ (rc.val < CodeTop => c < Base)
  BY <1>1, ShiftBits
<1>3. out = [r EXCEPT !.val = l]
  BY DEF ShiftOut
<1>4. r \in Coder /\ c \in Nat /\ out \in Coder
  <2>1. c \in Nat
    BY <1>0, <1>2
  <2>2. r \in Coder
    BY <1>0, <2>1, CarryOutIs
  <2>3. l \in Nat
    BY <1>2
  <2> HIDE DEF r, c, l, out
  <2> QED BY <1>3, <2>1, <2>2, <2>3, CoderFields
<1>5. /\ out.val = l /\ out.error = r.error /\ out.buf = r.buf /\ out.offs = r.offs /\ out.storage = r.storage
      /\ out.endOffs = r.endOffs /\ out.rem = r.rem /\ out.ext = r.ext /\ out.endWindow = r.endWindow
      /\ out.nendBits = r.nendBits /\ out.nbitsTotal = r.nbitsTotal /\ out.rng = r.rng
  <2> HIDE DEF r, l, out
  <2> QED BY <1>3, <1>4 DEF Coder, Records
<1>6. r.error = 0
  BY <1>5
<1>7. c >= Base => rc.rem >= 0 /\ rc.rem < SymMax
  BY <1>0, <1>1, <1>2
<1>8. /\ rc.error = 0 /\ Sound(r)
      /\ OutNumber(r) = Base * o + c /\ EndNumber(r) = EndNumber(rc)
      /\ Pending(r) = Pending(rc) + 1 /\ SameEnd(r, rc) /\ SameCode(r, rc) /\ r.val = rc.val
      /\ (r.rem = SymMax => rc.rem = SymMax \/ c = 2 * Base - 1)
      /\ (r.rem < 0 => rc.rem < 0 /\ c = SymMax)
  <2> HIDE DEF c
  <2> QED BY <1>2, <1>6, <1>7, CarryOutNumber
<1> HIDE DEF r, c, l, out
<1>9. Sound(out) /\ EndNumber(out) = EndNumber(rc) /\ Pending(out) = Pending(rc) + 1 /\ OutNumber(out) = Base * o + c
  <2>1. FrontNumber(out) = FrontNumber(r) /\ EndNumber(out) = EndNumber(r)
    BY <1>5, Zenon DEF FrontNumber, FrontOf, EndNumber, BackOf
  <2>2. Pending(out) = Pending(r)
    BY <1>5 DEF Pending
  <2>3. KeptNumber(out) = KeptNumber(r)
    BY <1>5, <2>1 DEF KeptNumber
  <2>4. OutNumber(out) = OutNumber(r)
    BY <1>5, <2>3 DEF OutNumber
  <2>5. Sound(out)
    BY <1>4, <1>5, <1>8 DEF Sound, Clean
  <2> QED BY <1>8, <2>1, <2>2, <2>4, <2>5
<1>10. SameEnd(out, rc) /\ SameCode(out, rc)
  BY <1>5, <1>8 DEF SameEnd, SameCode
<1>11. o \in Nat
  BY OutNumberIs
<1>12. Whole(out) = Base * Whole(rc)
  <2>1. Whole(out) = (Base * o + c) * CodeTop + l /\ Whole(rc) = o * CodeTop + rc.val
    BY <1>5, <1>9 DEF Whole
  <2>2. (Base * o + c) * CodeTop = Base * (o * CodeTop) + c * CodeTop
    <3> HIDE DEF o
    <3> QED BY <1>0, <1>4, <1>11
  <2>3. Base * (o * CodeTop + rc.val) = Base * (o * CodeTop) + Base * rc.val
    <3>1. \A a \in Nat, b \in Nat : Base * (a + b) = Base * a + Base * b
      BY <1>0
    <3>2. o * CodeTop \in Nat
      BY <1>0, <1>11
    <3> QED BY <1>0, <3>1, <3>2
  <2>4. PICK x, y : x = Base * (o * CodeTop) /\ y = c * CodeTop
    OBVIOUS
  <2>5. x \in Nat /\ y \in Nat /\ l \in Nat
    <3>1. o * CodeTop \in Nat
      BY <1>0, <1>11
    <3> QED BY <1>0, <1>2, <1>4, <2>4, <3>1
  <2> QED BY <1>2, <2>1, <2>2, <2>3, <2>4, <2>5
<1>13. Base * g <= CodeTop => CarryFits(out, out.val + Base * g)
  <2> SUFFICES ASSUME Base * g <= CodeTop PROVE CarryFits(out, out.val + Base * g)
    OBVIOUS
  <2>1. PICK bg, bv, x : bg = Base * g /\ bv = Base * rc.val /\ x = c * CodeTop
    OBVIOUS
  <2>2. bg \in Nat /\ bv \in Nat /\ x \in Nat /\ bv = x + l /\ l \in Nat /\ l < CodeTop /\ bg <= CodeTop
    <3>1. Base * g \in Nat /\ Base * rc.val \in Nat /\ c * CodeTop \in Nat
      BY <1>0, <1>4
    <3>2. l \in Nat /\ l < CodeTop
      BY <1>0, <1>2
    <3>3. bg <= CodeTop /\ bv = x + l
      BY <1>2, <2>1
    <3> QED BY <2>1, <3>1, <3>2, <3>3
  <2>3. \A m \in Nat : rc.val + g <= m => bv + bg <= Base * m
    <3>1. Base * (rc.val + g) = bv + bg
      BY <1>0, <2>1
    <3>2. \A a \in Nat, m \in Nat : a <= m => Base * a <= Base * m
      BY <1>0
    <3>3. rc.val + g \in Nat
      BY <1>0
    <3> QED BY <3>1, <3>2, <3>3
  <2>4. ASSUME rc.rem < 0 \/ rc.rem = SymMax, c = SymMax PROVE l + bg <= CodeTop
    <3>1. rc.val + g <= CodeTop
      BY <2>4 DEF CarryFits
    <3>2. bv + bg <= Base * CodeTop
      BY <1>0, <2>3, <3>1
    <3>3. x = (Base - 1) * CodeTop /\ (Base - 1) * CodeTop = Base * CodeTop - CodeTop /\ Base * CodeTop \in Nat
      BY <1>0, <2>1, <2>4
    <3> QED BY <1>0, <2>2, <3>2, <3>3
  <2>5. ASSUME rc.rem = SymMax, c # SymMax PROVE out.rem # SymMax \/ l + bg <= CodeTop
    <3>1. rc.val + g <= CodeTop
      BY <2>5 DEF CarryFits
    <3>2. CASE out.rem = SymMax
      <4>1. c < Base
        BY <1>0, <1>2, <3>1
      <4>2. c < SymMax
        BY <1>0, <1>4, <2>5, <4>1
      <4>3. r.rem = c
        <5>1. r.rem = Low(c, SymBits)
          <6>1. PICK q \in Coder : r = [q EXCEPT !.ext = 0, !.rem = Low(c, SymBits)]
            BY <1>0, <1>4, <2>5, CarryOutEnds DEF r
          <6> QED BY <6>1 DEF Coder, Records
        <5>2. c % Base = c
          BY <1>0, <1>4, <4>1
        <5> QED BY <5>1, <5>2 DEF Low, Base
      <4>4. c # SymMax /\ out.rem = c
        BY <1>5, <2>5, <4>3
      <4> QED BY <3>2, <4>4
    <3> QED BY <3>2
  <2>6. ASSUME c = 2 * Base - 1 PROVE l + bg <= CodeTop
    <3>1. rc.val + g <= Word
      <4>1. rc.val + g < Word
        BY DEF CarryFits
      <4> QED BY <1>0, <4>1, Widths
    <3>2. bv + bg <= Base * (2 * CodeTop)
      BY <1>0, <2>3, <3>1
    <3>3. x = (2 * Base - 1) * CodeTop /\ (2 * Base - 1) * CodeTop = Base * (2 * CodeTop) - CodeTop /\ Base * (2 * CodeTop) \in Nat
      BY <1>0, <2>1, <2>6
    <3> QED BY <1>0, <2>2, <3>2, <3>3
  <2>7. out.rem < 0 \/ out.rem = SymMax => l + bg <= CodeTop
    BY <1>5, <1>8, <2>4, <2>5, <2>6
  <2> QED BY <1>0, <1>5, <2>1, <2>2, <2>7 DEF CarryFits
<1>14. out.val < CodeTop /\ rc.error = 0
  BY <1>0, <1>2, <1>5, <1>8
<1> QED BY <1>9, <1>10, <1>12, <1>13, <1>14 DEF out

\* An encoder k bytes further, with the same interval in finer units.
Moved(out, rc, k) ==
  /\ Sound(out) /\ CarryFits(out, out.val + out.rng)
  /\ Whole(out) = Whole(rc) * Weight(k) /\ out.rng = rc.rng * Weight(k)
  /\ Pending(out) = Pending(rc) + k /\ out.nbitsTotal = rc.nbitsTotal + SymBits * k
  /\ SameEnd(out, rc) /\ EndNumber(out) = EndNumber(rc)

\* What one round of the normalisation changes.
LEMMA EncoderRoundFields ==
  ASSUME NEW rc \in Coder
  PROVE  /\ EncoderRound(rc) \in Coder
         /\ EncoderRound(rc).error = 0 => rc.error = 0
         /\ rc.rng > CodeBot => EncoderRound(rc) = rc
         /\ ~(rc.rng > CodeBot) =>
              LET e == ShiftOut(rc)
                  w == EncoderRound(rc)
              IN  /\ w.rng = e.rng * Base /\ w.nbitsTotal = e.nbitsTotal + SymBits
                  /\ w.buf = e.buf /\ w.storage = e.storage /\ w.endOffs = e.endOffs
                  /\ w.endWindow = e.endWindow /\ w.nendBits = e.nendBits /\ w.offs = e.offs
                  /\ w.error = e.error /\ w.ext = e.ext /\ w.rem = e.rem /\ w.val = e.val
<1>1. CASE rc.rng > CodeBot
  <2>1. EncoderRound(rc) = rc
    BY <1>1 DEF EncoderRound
  <2> QED BY <1>1, <2>1
<1>2. CASE ~(rc.rng > CodeBot)
  <2> DEFINE e == ShiftOut(rc)
             n == e.nbitsTotal + SymBits
             g == e.rng * Pow[SymBits]
             u == [e EXCEPT !.rng = g]
             w == [e EXCEPT !.rng = g, !.nbitsTotal = n]
  <2>1. EncoderRound(rc) = w
    BY <1>2 DEF EncoderRound
  <2>2. e \in Coder
    BY ShiftOutIs
  <2> HIDE DEF e
  <2>3. g \in Nat /\ n \in Nat /\ g = e.rng * Base
    BY <2>2, CoderTypes, BaseIs, Widths DEF Base
  <2> HIDE DEF g, n
  <2>4. w \in Coder
    <3>1. u \in Coder
      BY <2>2, <2>3, CoderFields
    <3>2. [u EXCEPT !.nbitsTotal = n] \in Coder
      <4> HIDE DEF u
      <4> QED BY <3>1, <2>3, CoderFields
    <3>3. w = [u EXCEPT !.nbitsTotal = n]
      BY <2>2 DEF Coder, Records
    <3> QED BY <3>2, <3>3
  <2>5. /\ w.storage = e.storage /\ w.endOffs = e.endOffs /\ w.endWindow = e.endWindow
        /\ w.nendBits = e.nendBits /\ w.nbitsTotal = n /\ w.rng = g /\ w.buf = e.buf /\ w.val = e.val
        /\ w.offs = e.offs /\ w.error = e.error /\ w.ext = e.ext /\ w.rem = e.rem
    BY <2>2 DEF Coder, Records
  <2> HIDE DEF w
  <2>6. w.error = 0 => rc.error = 0
    BY <2>5, ErrorKept DEF e
  <2> QED BY <1>2, <2>1, <2>3, <2>4, <2>5, <2>6 DEF e, n
<1> QED BY <1>1, <1>2

\* One round scales both ends of the interval by a byte.
LEMMA EncoderRoundMoves ==
  ASSUME NEW rc, Sound(rc), rc.rng > 0, ~(rc.rng > CodeBot), CarryFits(rc, rc.val + rc.rng), EncoderRound(rc).error = 0
  PROVE  rc.error = 0 /\ Moved(EncoderRound(rc), rc, 1)
<1> DEFINE e == ShiftOut(rc)
           w == EncoderRound(rc)
<1>0. rc \in Coder
  BY DEF Sound, Clean
<1>1. /\ w \in Coder /\ w.rng = e.rng * Base /\ w.nbitsTotal = e.nbitsTotal + SymBits
      /\ w.buf = e.buf /\ w.storage = e.storage /\ w.endOffs = e.endOffs
      /\ w.endWindow = e.endWindow /\ w.nendBits = e.nendBits /\ w.offs = e.offs
      /\ w.error = e.error /\ w.ext = e.ext /\ w.rem = e.rem /\ w.val = e.val
  BY <1>0, EncoderRoundFields
<1> HIDE DEF w, e
<1>2. e.error = 0
  BY <1>1 DEF w
<1>3. rc.rng \in Nat \ {0} /\ rc.rng <= CodeBot /\ CodeTop = CodeBot * Base /\ Base \in Nat /\ CodeBot \in Nat
  BY <1>0, CoderTypes, Widths, BaseIs DEF Base
<1>4. Base * rc.rng <= CodeTop /\ Base * rc.rng = rc.rng * Base
  <2>1. \A a \in Nat, b \in Nat : a <= b => Base * a <= b * Base
    BY <1>3
  <2> QED BY <1>3, <2>1
<1>5. /\ rc.error = 0 /\ Sound(e) /\ Whole(e) = Base * Whole(rc)
      /\ EndNumber(e) = EndNumber(rc) /\ Pending(e) = Pending(rc) + 1
      /\ SameEnd(e, rc) /\ SameCode(e, rc) /\ CarryFits(e, e.val + Base * rc.rng)
  BY <1>2, <1>3, <1>4, ShiftOutNumber DEF e
<1>6. Sound(w)
  BY <1>1, <1>5 DEF Sound, Clean
<1>7. FrontNumber(w) = FrontNumber(e) /\ EndNumber(w) = EndNumber(e)
  BY <1>1, Zenon DEF FrontNumber, FrontOf, EndNumber, BackOf
<1>8. Whole(w) = Whole(e) /\ Pending(w) = Pending(e)
  BY <1>1, <1>7 DEF Whole, OutNumber, KeptNumber, Pending
<1>9. Weight(1) = Base /\ SymBits * 1 = SymBits /\ Whole(rc) \in Nat /\ Base * Whole(rc) = Whole(rc) * Base
  <2>1. Whole(rc) \in Nat
    BY OutNumberIs
  <2> QED BY <1>3, <2>1, WeightBase, Widths
<1>10. w.rng = rc.rng * Weight(1) /\ w.nbitsTotal = rc.nbitsTotal + SymBits * 1
  BY <1>1, <1>5, <1>9 DEF SameCode
<1>11. SameEnd(w, rc)
  BY <1>1, <1>5 DEF SameEnd
<1>12. CarryFits(w, w.val + w.rng)
  <2>1. w.rng = Base * rc.rng
    BY <1>4, <1>9, <1>10
  <2> QED BY <1>1, <1>5, <2>1 DEF CarryFits
<1>13. Whole(w) = Whole(rc) * Weight(1)
  BY <1>5, <1>8, <1>9
<1> QED BY <1>5, <1>6, <1>7, <1>8, <1>10, <1>11, <1>12, <1>13 DEF Moved, w

\* Rounds one after the other.
LEMMA MovedOn ==
  ASSUME NEW a \in Coder, NEW b, NEW c, NEW i \in Nat, Moved(b, a, i), Moved(c, b, 1), Sound(a)
  PROVE  Moved(c, a, i + 1)
<1>1. PICK u : u = Weight(i)
  OBVIOUS
<1>2. u \in Nat /\ Weight(1) = Base /\ Weight(i + 1) = Base * u /\ Base \in Nat
  BY <1>1, WeightIs, WeightBase, BaseIs
<1>3. \A x \in Nat : (x * u) * Base = x * (Base * u)
  BY <1>2
<1>4. a.rng \in Nat /\ Whole(a) \in Nat /\ a.nbitsTotal \in Nat /\ Pending(a) \in Nat
  BY CoderTypes, OutNumberIs
<1>5. c.rng = a.rng * Weight(i + 1) /\ Whole(c) = Whole(a) * Weight(i + 1)
  BY <1>1, <1>2, <1>3, <1>4 DEF Moved
<1>6. SymBits * (i + 1) = SymBits * i + SymBits * 1 /\ SymBits * i \in Nat /\ SymBits * 1 \in Nat
  BY Widths
<1>7. c.nbitsTotal = a.nbitsTotal + SymBits * (i + 1) /\ Pending(c) = Pending(a) + (i + 1)
  <2>1. PICK s, t : s = SymBits * i /\ t = SymBits * 1
    OBVIOUS
  <2> QED BY <1>4, <1>6, <2>1 DEF Moved
<1>8. SameEnd(c, a) /\ EndNumber(c) = EndNumber(a)
  BY DEF Moved, SameEnd
<1> QED BY <1>5, <1>7, <1>8 DEF Moved

\* The rounds of the normalisation, as a run.
LEMMA EncoderRun ==
  ASSUME NEW rc \in Coder
  PROVE  \E run \in [0..Rounds -> Coder] :
           /\ run[0] = rc /\ run[Rounds] = NormalizeEncoder(rc)
           /\ \A i \in 0..Rounds - 1 : run[i + 1] = EncoderRound(run[i])
<1> DEFINE F == [r \in Coder |-> EncoderRound(r)]
           n == Rounds
           after == CHOOSE f : f = [i \in 0..n |-> IF i = 0 THEN rc ELSE EncoderRound(f[i - 1])]
<1>0. n \in Nat
  BY RoundsSuffice
<1>1. PICK run \in [0..n -> Coder] : IsRun(run, rc, F, n)
  <2>1. F \in [Coder -> Coder]
    BY EncoderRoundFields
  <2> HIDE DEF F, n
  <2> QED BY <1>0, <2>1, Runs
<1>2. \A i \in 1..n : run[i] = EncoderRound(run[i - 1])
  <2> TAKE i \in 1..n
  <2>1. run[i - 1] \in Coder /\ run[i] = F[run[i - 1]]
    <3> HIDE DEF F, n
    <3> QED BY <1>0, <1>1 DEF IsRun
  <2> QED BY <2>1
<1>3. run[0] = rc
  BY <1>1 DEF IsRun
<1>4. run = [i \in 0..n |-> IF i = 0 THEN rc ELSE EncoderRound(run[i - 1])]
  <2>1. \A i \in 0..n : run[i] = IF i = 0 THEN rc ELSE EncoderRound(run[i - 1])
    <3> HIDE DEF F, n
    <3> QED BY <1>0, <1>2, <1>3
  <2> HIDE DEF n
  <2> QED BY <2>1
<1>5. after = [i \in 0..n |-> IF i = 0 THEN rc ELSE EncoderRound(after[i - 1])]
  BY <1>4, Zenon
<1>6. NormalizeEncoder(rc) = after[n]
  BY Zenon DEF NormalizeEncoder, Repeat
<1> HIDE DEF after, F, n
<1>7. after \in [0..n -> Coder] /\ after[0] = rc /\ \A i \in 0..n - 1 : after[i + 1] = EncoderRound(after[i])
  <2>1. after[0] = rc /\ \A i \in 0..n - 1 : after[i + 1] = EncoderRound(after[i])
    BY <1>0, <1>5
  <2> DEFINE T == {i \in Nat : after[i] \in Coder}
  <2>2. 0 \in T
    BY <2>1
  <2>3. \A i \in 0..n - 1 : i \in T => i + 1 \in T
    BY <1>0, <2>1, EncoderRoundFields
  <2>4. 0..n \subseteq T
    <3> HIDE DEF T
    <3> QED BY <1>0, <2>2, <2>3, InductionTo
  <2>5. \A i \in 0..n : after[i] \in Coder
    BY <2>4
  <2> QED BY <1>5, <2>1, <2>5
<1>8. after \in [0..n -> Coder] /\ after[0] = rc /\ after[n] = NormalizeEncoder(rc)
  BY <1>6, <1>7
<1>9. \A i \in 0..n - 1 : after[i + 1] = EncoderRound(after[i])
  BY <1>7
<1>10. \E f \in [0..n -> Coder] : f[0] = rc /\ f[n] = NormalizeEncoder(rc) /\ \A i \in 0..n - 1 : f[i + 1] = EncoderRound(f[i])
  BY <1>8, <1>9, Zenon
<1> QED BY <1>10 DEF n

\* The loop goes k rounds, then rests.
LEMMA NormalizeEncoderMoves ==
  ASSUME NEW rc, Sound(rc), CarryFits(rc, rc.val + rc.rng), rc.rng \in Nat \ {0},
         NEW k \in Nat, rc.rng * Weight(k) \in CodeBot + 1..CodeTop, NormalizeEncoder(rc).error = 0
  PROVE  rc.error = 0 /\ Moved(NormalizeEncoder(rc), rc, k)
<1>0. rc \in Coder /\ Rounds \in Nat /\ CodeTop \in Nat /\ CodeBot \in Nat
  BY RoundsSuffice, Widths DEF Sound, Clean
<1>1. k < Rounds /\ \A i \in 0..k - 1 : rc.rng * Weight(i) <= CodeBot
  <2>1. rc.rng * Weight(k) <= CodeTop
    BY <1>0
  <2> QED BY <2>1, RoundsNeeded
<1>2. PICK run \in [0..Rounds -> Coder] :
        /\ run[0] = rc /\ run[Rounds] = NormalizeEncoder(rc)
        /\ \A i \in 0..Rounds - 1 : run[i + 1] = EncoderRound(run[i])
  BY <1>0, EncoderRun, Zenon
<1> DEFINE T == {i \in Nat : run[i].error = 0 => rc.error = 0 /\ Moved(run[i], rc, IF i <= k THEN i ELSE k)}
<1>3. 0 \in T
  <2>1. Weight(0) = 1 /\ SymBits * 0 = 0 /\ rc.rng * 1 = rc.rng /\ Whole(rc) * 1 = Whole(rc)
        /\ rc.nbitsTotal + 0 = rc.nbitsTotal /\ Pending(rc) + 0 = Pending(rc)
    <3>1. Whole(rc) \in Nat /\ rc.rng \in Nat /\ rc.nbitsTotal \in Nat /\ Pending(rc) \in Nat
      BY <1>0, OutNumberIs, CoderTypes
    <3>2. \A x \in Nat : x * 1 = x /\ x + 0 = x
      OBVIOUS
    <3>3. SymBits * 0 = 0
      BY Widths
    <3>4. Weight(0) = 1
      BY WeightIs
    <3> QED BY <3>1, <3>2, <3>3, <3>4
  <2>2. Moved(rc, rc, 0)
    BY <2>1 DEF Moved, SameEnd
  <2> QED BY <1>2, <2>2
<1>4. ASSUME NEW i \in 0..Rounds - 1, i \in T PROVE i + 1 \in T
  <2> DEFINE r == run[i]
             w == EncoderRound(r)
             j == IF i <= k THEN i ELSE k
  <2>1. run[i + 1] = w /\ r \in Coder /\ i \in Nat
    BY <1>0, <1>2
  <2>2. SUFFICES ASSUME w.error = 0 PROVE rc.error = 0 /\ Moved(w, rc, IF i + 1 <= k THEN i + 1 ELSE k)
    BY <2>1
  <2>3. rc.error = 0 /\ Moved(r, rc, j)
    BY <1>4, <2>1, <2>2, EncoderRoundFields
  <2> HIDE DEF w, r
  <2>4. CASE i < k
    <3>1. j = i /\ i \in 0..k - 1
      BY <2>1, <2>4
    <3>2. r.rng = rc.rng * Weight(i) /\ ~(r.rng > CodeBot) /\ r.rng > 0
      <4>1. r.rng = rc.rng * Weight(i) /\ Weight(i) \in Nat \ {0}
        BY <2>1, <2>3, <3>1, WeightIs DEF Moved
      <4>2. \A a \in Nat \ {0}, b \in Nat \ {0} : a * b \in Nat \ {0}
        OBVIOUS
      <4>3. r.rng \in Nat \ {0} /\ r.rng <= CodeBot
        BY <1>1, <3>1, <4>1, <4>2
      <4> QED BY <1>0, <4>1, <4>3
    <3>3. Moved(w, r, 1)
      BY <2>2, <2>3, <3>2, EncoderRoundMoves DEF Moved, w
    <3>4. Moved(w, rc, i + 1)
      BY <1>0, <2>1, <2>3, <3>1, <3>3, MovedOn
    <3>5. i + 1 <= k
      BY <2>1, <2>4
    <3> QED BY <2>3, <3>4, <3>5
  <2>5. CASE ~(i < k)
    <3>1. j = k
      BY <2>1, <2>5
    <3>2. r.rng > CodeBot
      BY <1>0, <2>3, <3>1 DEF Moved
    <3>3. w = r
      BY <2>1, <3>2, EncoderRoundFields DEF w
    <3>4. ~(i + 1 <= k)
      BY <2>1, <2>5
    <3> QED BY <2>3, <3>1, <3>3, <3>4
  <2> QED BY <2>4, <2>5
<1>5. 0..Rounds \subseteq T
  <2> HIDE DEF T
  <2> QED BY <1>0, <1>3, <1>4, InductionTo
<1>6. run[Rounds].error = 0 => rc.error = 0 /\ Moved(run[Rounds], rc, IF Rounds <= k THEN Rounds ELSE k)
  BY <1>0, <1>5
<1>7. ~(Rounds <= k)
  BY <1>0, <1>1
<1> QED BY <1>2, <1>6, <1>7

(***************************************************************************)
(* A place in a packet: an interval, low..low + rng - 1, in units that get *)
(* finer with every byte that went out, and a number of raw bits.  The     *)
(* encoder goes from place to place and the decoder follows it.            *)
(***************************************************************************)
\* Its interval is within the bounds of the range.
Place == [low : Nat, rng : CodeBot + 1..CodeTop, outs : Nat, raw : Nat, rawBits : Nat]
IsPlace(p) == p \in Place /\ p.raw < Power[p.rawBits]

\* A range-coded symbol takes the part of the interval that is g wide, o above its lower end.
Narrows(p, q, o, g) ==
  /\ o \in Nat /\ g \in Nat \ {0} /\ o + g <= p.rng
  /\ \E k \in Nat : q = [low |-> (p.low + o) * Weight(k), rng |-> g * Weight(k), outs |-> p.outs + k,
                         raw |-> p.raw, rawBits |-> p.rawBits]
  /\ q.rng \in CodeBot + 1..CodeTop

\* Where an encoder is.
PlaceOf(rc) ==
  [low |-> Whole(rc), rng |-> rc.rng, outs |-> Pending(rc), raw |-> RawNumber(rc), rawBits |-> EndBits(rc)]

\* What an encoder keeps, besides EncoderOK, as long as nothing is lost.
EncoderAt(rc) ==
  /\ Sound(rc) /\ CarryFits(rc, rc.val + rc.rng) /\ rc.rng \in CodeBot + 1..CodeTop
  /\ rc.nendBits <= CodeBits /\ rc.endWindow < Power[rc.nendBits]
  /\ rc.nbitsTotal = CodeBits + 1 + SymBits * Pending(rc) + EndBits(rc)

\* The raw bits are whole bytes and those of the window.
LEMMA EndBitsAre ==
  ASSUME NEW rc \in Coder
  PROVE  EndBits(rc) \in Nat /\ Power[EndBits(rc)] = Weight(rc.endOffs) * Power[rc.nendBits]
<1>1. rc.endOffs \in Nat /\ rc.nendBits \in Nat /\ SymBits \in Nat
  BY CoderTypes, Widths
<1>2. SymBits * rc.endOffs \in Nat
  BY <1>1
<1>3. Power[SymBits * rc.endOffs + rc.nendBits] = Power[SymBits * rc.endOffs] * Power[rc.nendBits]
  BY <1>1, <1>2, PowerSum
<1>4. EndBits(rc) \in Nat
  <2>1. PICK x : x = SymBits * rc.endOffs
    OBVIOUS
  <2> QED BY <1>1, <1>2, <2>1 DEF EndBits
<1> QED BY <1>3, <1>4 DEF Weight, EndBits

\* An encoder is at a place.
LEMMA PlaceOfIs ==
  ASSUME NEW rc, EncoderAt(rc)
  PROVE  IsPlace(PlaceOf(rc))
<1>0. rc \in Coder /\ Clean(rc) /\ rc.endOffs \in Nat /\ rc.nendBits \in Nat /\ rc.endWindow \in Nat
  BY CoderTypes DEF EncoderAt, Sound, Clean
<1>1. Whole(rc) \in Nat /\ Pending(rc) \in Nat /\ RawNumber(rc) \in Nat /\ EndBits(rc) \in Nat
  BY <1>0, OutNumberIs, NumbersAre, EndBitsAre, CoderTypes DEF EncoderAt
<1>2. EndNumber(rc) \in 0..Weight(rc.endOffs) - 1
  BY <1>0, StreamsAre, EndDigitsBelow DEF EndNumber
<1>3. RawNumber(rc) < Power[EndBits(rc)]
  <2>1. PICK u, v, x : u = Weight(rc.endOffs) /\ v = Power[rc.nendBits] /\ x = rc.endWindow
    OBVIOUS
  <2>2. u \in Nat /\ v \in Nat /\ x \in Nat /\ x + 1 <= v
    BY <1>0, <2>1, WeightIs, PowerPositive DEF EncoderAt
  <2>3. x * u + u <= u * v /\ x * u \in Nat /\ u * v \in Nat
    <3>1. \A a \in Nat, b \in Nat : a <= b => a * u <= u * b
      BY <2>2
    <3>2. (x + 1) * u = x * u + u
      BY <2>2
    <3>3. x + 1 \in Nat
      BY <2>2
    <3> QED BY <2>2, <3>1, <3>2, <3>3
  <2>4. RawNumber(rc) = EndNumber(rc) + x * u
    BY <2>1 DEF RawNumber
  <2>5. Power[EndBits(rc)] = u * v
    BY <1>0, <2>1, EndBitsAre
  <2> QED BY <1>2, <2>1, <2>2, <2>3, <2>4, <2>5
<1> QED BY <1>1, <1>3 DEF IsPlace, Place, PlaceOf, EncoderAt

\* The numbers depend on the buffer alone.
LEMMA SameBytes ==
  ASSUME NEW a, NEW b, a.buf = b.buf, a.storage = b.storage
  PROVE  /\ FrontOf(a) = FrontOf(b) /\ BackOf(a) = BackOf(b)
         /\ a.offs = b.offs => FrontNumber(a) = FrontNumber(b)
         /\ a.endOffs = b.endOffs => EndNumber(a) = EndNumber(b)
<1>1. FrontOf(a) = FrontOf(b) /\ BackOf(a) = BackOf(b)
  BY Zenon DEF FrontOf, BackOf
<1> QED BY <1>1, Zenon DEF FrontNumber, EndNumber

\* Any part of the interval that is taken, with the normalisation after it.
LEMMA NarrowMoves ==
  ASSUME NEW rc, EncoderAt(rc), NEW o \in Nat, NEW g \in Nat \ {0}, o + g <= rc.rng,
         NEW w, w = [rc EXCEPT !.val = rc.val + o, !.rng = g], NormalizeEncoder(w).error = 0
  PROVE  LET out == NormalizeEncoder(w)
         IN  rc.error = 0 /\ EncoderAt(out) /\ Narrows(PlaceOf(rc), PlaceOf(out), o, g)
<1>0. rc \in Coder /\ rc.val \in Nat /\ rc.rng \in Nat /\ rc.rng <= CodeTop /\ CodeTop \in Nat /\ CodeBot \in Nat
  BY CoderTypes, Widths DEF EncoderAt, Sound, Clean
<1>1. w \in Coder
  <2>1. PICK v : v = rc.val + o
    OBVIOUS
  <2>2. v \in Nat /\ g \in Nat /\ w = [rc EXCEPT !.val = v, !.rng = g]
    BY <1>0, <2>1
  <2>3. [rc EXCEPT !.val = v] \in Coder
    BY <1>0, <2>2, CoderFields
  <2>4. [[rc EXCEPT !.val = v] EXCEPT !.rng = g] \in Coder
    BY <2>2, <2>3, CoderFields
  <2>5. w = [[rc EXCEPT !.val = v] EXCEPT !.rng = g]
    BY <1>0, <2>2 DEF Coder, Records
  <2> QED BY <2>4, <2>5
<1>2. /\ w.val = rc.val + o /\ w.rng = g /\ w.error = rc.error /\ w.buf = rc.buf /\ w.offs = rc.offs
      /\ w.storage = rc.storage /\ w.endOffs = rc.endOffs /\ w.rem = rc.rem /\ w.ext = rc.ext
      /\ w.endWindow = rc.endWindow /\ w.nendBits = rc.nendBits /\ w.nbitsTotal = rc.nbitsTotal
  BY <1>0 DEF Coder, Records
<1>3. FrontNumber(w) = FrontNumber(rc) /\ EndNumber(w) = EndNumber(rc) /\ Pending(w) = Pending(rc)
  <2>1. FrontNumber(w) = FrontNumber(rc) /\ EndNumber(w) = EndNumber(rc)
    BY <1>2, SameBytes
  <2>2. Pending(w) = Pending(rc)
    BY <1>2 DEF Pending
  <2> QED BY <2>1, <2>2
<1>4. OutNumber(w) = OutNumber(rc)
  BY <1>2, <1>3 DEF OutNumber, KeptNumber
<1>5. Whole(w) = Whole(rc) + o
  <2>1. OutNumber(rc) * CodeTop \in Nat
    <3>1. OutNumber(rc) \in Nat
      BY OutNumberIs DEF EncoderAt
    <3> QED BY <1>0, <3>1
  <2> QED BY <1>0, <1>2, <1>4, <2>1 DEF Whole
<1>6. Sound(w)
  BY <1>1, <1>2 DEF EncoderAt, Sound, Clean
<1>7. CarryFits(w, w.val + w.rng)
  <2>1. w.val + w.rng <= rc.val + rc.rng /\ w.val + w.rng \in Nat /\ rc.val + rc.rng \in Nat
    BY <1>0, <1>2
  <2> QED BY <1>0, <1>2, <2>1, Widths DEF EncoderAt, CarryFits
<1>8. g \in 1..CodeTop
  BY <1>0
<1>9. PICK k \in Nat : g * Weight(k) \in CodeBot + 1..CodeTop
  BY <1>8, RoundsExist
<1> DEFINE out == NormalizeEncoder(w)
<1>10. w.error = 0 /\ Moved(out, w, k)
  BY <1>2, <1>6, <1>7, <1>9, NormalizeEncoderMoves
<1> HIDE DEF out
<1>11. EndBits(out) = EndBits(rc) /\ RawNumber(out) = RawNumber(rc)
  BY <1>2, <1>3, <1>10 DEF Moved, SameEnd, EndBits, RawNumber
<1>12. Pending(out) = Pending(rc) + k /\ out.rng = g * Weight(k) /\ Whole(out) = (Whole(rc) + o) * Weight(k)
  BY <1>2, <1>3, <1>5, <1>10 DEF Moved
<1>13. Narrows(PlaceOf(rc), PlaceOf(out), o, g)
  BY <1>9, <1>11, <1>12 DEF Narrows, PlaceOf
<1>14. out.nbitsTotal = CodeBits + 1 + SymBits * Pending(out) + EndBits(out)
  <2>1. Pending(rc) \in Nat /\ EndBits(rc) \in Nat
    BY <1>0, CoderTypes, EndBitsAre
  <2>2. SymBits * (Pending(rc) + k) = SymBits * Pending(rc) + SymBits * k /\ SymBits * Pending(rc) \in Nat /\ SymBits * k \in Nat
    BY <2>1, Widths
  <2>3. PICK s, t, u : s = SymBits * Pending(rc) /\ t = SymBits * k /\ u = SymBits * (Pending(rc) + k)
    OBVIOUS
  <2>4. out.nbitsTotal = rc.nbitsTotal + t
    BY <1>2, <1>10, <2>3 DEF Moved
  <2>5. rc.nbitsTotal = CodeBits + 1 + s + EndBits(rc)
    BY <2>3 DEF EncoderAt
  <2> QED BY <1>11, <1>12, <2>1, <2>2, <2>3, <2>4, <2>5, Widths
<1>15. EncoderAt(out)
  BY <1>2, <1>9, <1>10, <1>12, <1>14 DEF EncoderAt, Moved, SameEnd
<1> QED BY <1>2, <1>10, <1>13, <1>15 DEF out

\* The parts that the code measures from the upper end, in 32 bits.
LEMMA UpperMoves ==
  ASSUME NEW rc, EncoderAt(rc), NEW d \in 1..rc.rng, NEW g \in 1..d,
         NormalizeEncoder([rc EXCEPT !.val = (rc.val + rc.rng - d) % Word, !.rng = g]).error = 0
  PROVE  LET out == NormalizeEncoder([rc EXCEPT !.val = (rc.val + rc.rng - d) % Word, !.rng = g])
         IN  rc.error = 0 /\ EncoderAt(out) /\ Narrows(PlaceOf(rc), PlaceOf(out), rc.rng - d, g)
<1>0. rc \in Coder /\ rc.val \in Nat /\ rc.rng \in Nat /\ rc.rng <= CodeTop /\ CodeTop \in Nat /\ CodeBot \in Nat /\ Word \in Nat
  BY CoderTypes, Widths DEF EncoderAt, Sound, Clean
<1>1. (rc.val + rc.rng - d) % Word = rc.val + (rc.rng - d)
  <2>1. rc.val + rc.rng - d \in Nat /\ rc.val + rc.rng - d < Word /\ rc.val + rc.rng - d = rc.val + (rc.rng - d)
    BY <1>0 DEF EncoderAt, CarryFits
  <2> QED BY <2>1, Wrapped
<1>2. rc.rng - d \in Nat /\ g \in Nat \ {0} /\ (rc.rng - d) + g <= rc.rng
  BY <1>0
<1> DEFINE w == [rc EXCEPT !.val = (rc.val + rc.rng - d) % Word, !.rng = g]
<1>3. w = [rc EXCEPT !.val = rc.val + (rc.rng - d), !.rng = g]
  BY <1>1
<1>4. NormalizeEncoder(w).error = 0
  OBVIOUS
<1> HIDE DEF w
<1>5. rc.error = 0 /\ EncoderAt(NormalizeEncoder(w)) /\ Narrows(PlaceOf(rc), PlaceOf(NormalizeEncoder(w)), rc.rng - d, g)
  BY <1>2, <1>3, <1>4, NarrowMoves
<1> QED BY <1>5 DEF w

\* The first part, whose lower end is the one of the interval.
LEMMA LowerMoves ==
  ASSUME NEW rc, EncoderAt(rc), NEW c \in 0..rc.rng - 1, NEW w,
         w = [rc EXCEPT !.rng = rc.rng - c] \/ w = [rc EXCEPT !.val = rc.val % Word, !.rng = rc.rng - c],
         NormalizeEncoder(w).error = 0
  PROVE  LET out == NormalizeEncoder(w)
         IN  rc.error = 0 /\ EncoderAt(out) /\ Narrows(PlaceOf(rc), PlaceOf(out), 0, rc.rng - c)
<1>0. rc \in Coder /\ rc.val \in Nat /\ rc.rng \in Nat /\ rc.rng <= CodeTop /\ CodeTop \in Nat /\ CodeBot \in Nat /\ Word \in Nat
      /\ rc.rng > CodeBot
  BY CoderTypes, Widths DEF EncoderAt, Sound, Clean
<1>1. rc.val % Word = rc.val
  <2>1. rc.val < Word
    BY <1>0 DEF EncoderAt, CarryFits
  <2> QED BY <1>0, <2>1, Wrapped
<1> DEFINE g == rc.rng - c
<1>2. 0 \in Nat /\ g \in Nat \ {0} /\ 0 + g <= rc.rng
  BY <1>0
<1>3. rc.val + 0 = rc.val
  BY <1>0
<1>4. w = [rc EXCEPT !.val = rc.val + 0, !.rng = g]
  <2> HIDE DEF g
  <2>1. [rc EXCEPT !.rng = g] = [rc EXCEPT !.val = rc.val, !.rng = g]
    BY <1>0 DEF Coder, Records
  <2> QED BY <1>1, <1>3, <2>1 DEF g
<1> HIDE DEF g
<1>5. rc.error = 0 /\ EncoderAt(NormalizeEncoder(w)) /\ Narrows(PlaceOf(rc), PlaceOf(NormalizeEncoder(w)), 0, g)
  BY <1>2, <1>4, NarrowMoves
<1> QED BY <1>5 DEF g

\* Raw bits join above those already there.
Grows(p, q, v, n) ==
  /\ v \in Nat /\ n \in Nat /\ v < Power[n]
  /\ q = [low |-> p.low, rng |-> p.rng, outs |-> p.outs,
          raw |-> p.raw + v * Power[p.rawBits], rawBits |-> p.rawBits + n]

\* The bytes that leave the window do not change the number.
Flushed(out, rc) ==
  /\ Clean(out) /\ SameFront(out, rc) /\ FrontNumber(out) = FrontNumber(rc)
  /\ RawNumber(out) = RawNumber(rc) /\ EndBits(out) = EndBits(rc) /\ out.endWindow < Power[out.nendBits]

\* A byte written at the end leaves the window alone and keeps an error.
LEMMA WriteByteAtEndIs ==
  ASSUME NEW rc \in Coder, NEW b \in 0..SymMax
  PROVE  LET out == WriteByteAtEnd(rc, b)
         IN  /\ out \in Coder /\ out.endWindow = rc.endWindow /\ out.nendBits = rc.nendBits
             /\ out.error = 0 => rc.error = 0
<1> DEFINE out == WriteByteAtEnd(rc, b)
           at == rc.storage - rc.endOffs - 1
<1>1. rc.endOffs \in Nat /\ rc.endOffs + 1 \in Nat /\ SymMax \in Nat /\ b \in Nat /\ rc.buf \in Contents
  BY CoderTypes, BaseIs
<1>2. CASE Room(rc)
  <2> DEFINE f == [rc.buf EXCEPT ![at] = b]
             u == [rc EXCEPT !.buf = f]
  <2>1. f \in Contents /\ DOMAIN f = DOMAIN rc.buf
    BY <1>1, WriteBuffer
  <2>2. out = [rc EXCEPT !.buf = f, !.endOffs = rc.endOffs + 1]
    BY <1>2 DEF WriteByteAtEnd
  <2> HIDE DEF f, out
  <2>3. u \in Coder
    BY <2>1, CoderFields
  <2>4. out = [u EXCEPT !.endOffs = rc.endOffs + 1]
    BY <2>2 DEF Coder, Records
  <2>5. out \in Coder
    <3> HIDE DEF u
    <3> QED BY <1>1, <2>3, <2>4, CoderFields
  <2>6. out.endWindow = rc.endWindow /\ out.nendBits = rc.nendBits /\ out.error = rc.error
    BY <2>2 DEF Coder, Records
  <2> QED BY <2>5, <2>6 DEF out
<1>3. CASE ~Room(rc)
  <2>1. out = [rc EXCEPT !.error = 1]
    BY <1>3 DEF WriteByteAtEnd
  <2>2. [rc EXCEPT !.error = 1] \in Coder
    <3>1. 0 \in Nat /\ 1 \in {-1, 0, 1}
      OBVIOUS
    <3> QED BY <3>1, CoderFields
  <2> HIDE DEF out
  <2>3. out.endWindow = rc.endWindow /\ out.nendBits = rc.nendBits /\ out.error = 1
    BY <2>1 DEF Coder, Records
  <2> QED BY <2>1, <2>2, <2>3 DEF out
<1> QED BY <1>2, <1>3

\* It is one digit more, on top of the others.
LEMMA WriteEndNumber ==
  ASSUME NEW rc, Clean(rc), NEW b \in 0..SymMax, WriteByteAtEnd(rc, b).error = 0
  PROVE  LET out == WriteByteAtEnd(rc, b)
         IN  /\ rc.error = 0 /\ Clean(out) /\ out.endOffs = rc.endOffs + 1
             /\ EndNumber(out) = EndNumber(rc) + b * Weight(rc.endOffs)
             /\ FrontNumber(out) = FrontNumber(rc) /\ SameFront(out, rc)
             /\ out.endWindow = rc.endWindow /\ out.nendBits = rc.nendBits
<1> DEFINE out == WriteByteAtEnd(rc, b)
           at == rc.storage - rc.endOffs - 1
<1>1. rc.offs \in Nat /\ rc.endOffs \in Nat /\ rc.storage \in Nat /\ rc \in Coder /\ SymMax \in Nat /\ b \in Nat
  BY CoderTypes, BaseIs DEF Clean
<1>2. Room(rc)
  <2> SUFFICES ASSUME ~Room(rc) PROVE FALSE
    OBVIOUS
  <2>1. out = [rc EXCEPT !.error = 1]
    BY DEF WriteByteAtEnd
  <2>2. out.error = 1
    BY <1>1, <2>1 DEF Coder, Records
  <2> QED BY <2>2
<1>3. out = [rc EXCEPT !.buf[at] = b, !.endOffs = rc.endOffs + 1]
  BY <1>2 DEF WriteByteAtEnd
<1>4. /\ out.endOffs = rc.endOffs + 1 /\ out.error = rc.error /\ out.buf = [rc.buf EXCEPT ![at] = b]
      /\ out.storage = rc.storage /\ out.offs = rc.offs /\ out.endWindow = rc.endWindow /\ out.nendBits = rc.nendBits
      /\ out.ext = rc.ext /\ out.rem = rc.rem /\ out.val = rc.val /\ out.nbitsTotal = rc.nbitsTotal /\ out.rng = rc.rng
  <2> HIDE DEF at, out
  <2> QED BY <1>1, <1>3 DEF Coder, Records
<1>5. out \in Coder
  <2> DEFINE f == [rc.buf EXCEPT ![at] = b]
             u == [rc EXCEPT !.buf = f]
  <2>1. f \in Contents /\ DOMAIN f = DOMAIN rc.buf
    BY <1>1, WriteBuffer, CoderTypes
  <2>2. u \in Coder
    <3> HIDE DEF f
    <3> QED BY <1>1, <2>1, CoderFields
  <2>3. out = [u EXCEPT !.endOffs = rc.endOffs + 1]
    <3>1. out = [rc EXCEPT !.buf = f, !.endOffs = rc.endOffs + 1]
      BY <1>3
    <3> HIDE DEF f, out
    <3> QED BY <1>1, <3>1 DEF Coder, Records
  <2>4. rc.endOffs + 1 \in Nat
    BY <1>1
  <2> HIDE DEF u, out
  <2> QED BY <2>2, <2>3, <2>4, CoderFields
<1> HIDE DEF out
<1>6. rc.offs + rc.endOffs < rc.storage /\ at \in 0..rc.storage - 1 /\ at \in DOMAIN rc.buf
  <2>1. rc.offs + rc.endOffs < rc.storage /\ at \in 0..rc.storage - 1
    BY <1>1, <1>2 DEF Room
  <2> HIDE DEF at
  <2> QED BY <2>1, StreamsAre
<1>7. /\ DOMAIN out.buf = DOMAIN rc.buf
      /\ \A i \in DOMAIN rc.buf : out.buf[i] = IF i = at THEN b ELSE rc.buf[i]
  <2> HIDE DEF at
  <2> QED BY <1>4
<1>8. Clean(out)
  <2> HIDE DEF at
  <2>1. out.offs + out.endOffs <= out.storage
    BY <1>1, <1>4, <1>6
  <2> QED BY <1>5, <1>7, <2>1 DEF Clean
<1>9. \A i \in 0..rc.offs - 1 : FrontOf(out)[i] = FrontOf(rc)[i]
  <2> TAKE i \in 0..rc.offs - 1
  <2>1. i \in 0..rc.storage - 1 /\ i # at
    BY <1>1, <1>6
  <2> HIDE DEF at
  <2> QED BY <2>1, <1>4, <1>7, <1>8, StreamsAre
<1>10. \A i \in 0..rc.endOffs - 1 : BackOf(out)[i] = BackOf(rc)[i]
  <2> TAKE i \in 0..rc.endOffs - 1
  <2>1. i \in 0..rc.storage - 1 /\ rc.storage - 1 - i # at /\ rc.storage - 1 - i \in 0..rc.storage - 1
    BY <1>1, <1>6
  <2> HIDE DEF at
  <2> QED BY <2>1, <1>4, <1>7, <1>8, StreamsAre
<1>11. BackOf(out)[rc.endOffs] = b
  <2>1. rc.endOffs \in 0..rc.storage - 1 /\ rc.storage - 1 - rc.endOffs = at
    BY <1>1, <1>6
  <2> HIDE DEF at
  <2> QED BY <2>1, <1>4, <1>6, <1>7, <1>8, StreamsAre
<1>12. FrontNumber(out) = FrontNumber(rc) /\ EndDigits(BackOf(out))[rc.endOffs] = EndNumber(rc)
  BY <1>1, <1>4, <1>8, <1>9, <1>10, StreamsAre, SameNumbers DEF EndNumber, FrontNumber
<1>13. EndDigits(BackOf(out))[rc.endOffs + 1] = EndDigits(BackOf(out))[rc.endOffs] + BackOf(out)[rc.endOffs] * Weight(rc.endOffs)
  BY <1>1, <1>8, StreamsAre, EndDigitsAre
<1>14. EndNumber(out) = EndNumber(rc) + b * Weight(rc.endOffs)
  BY <1>4, <1>11, <1>12, <1>13 DEF EndNumber
<1>15. SameFront(out, rc)
  BY <1>4 DEF SameFront, SameCode
<1> QED BY <1>4, <1>8, <1>12, <1>14, <1>15 DEF out

\* One byte of the window goes to the end.
LEMMA FlushRoundNumber ==
  ASSUME NEW rc, Clean(rc), rc.endWindow < Power[rc.nendBits], FlushRound(rc).error = 0
  PROVE  rc.error = 0 /\ Flushed(FlushRound(rc), rc)
<1> DEFINE out == FlushRound(rc)
<1>1. /\ rc.endOffs \in Nat /\ rc.endWindow \in Nat /\ rc.nendBits \in Nat /\ rc \in Coder
      /\ Base \in Nat \ {0} /\ SymBits \in 0..CodeBits /\ SymBits \in Nat
  BY CoderTypes, BaseIs, Widths DEF Clean
<1>2. CASE rc.nendBits < SymBits
  <2>1. out = rc
    BY <1>2 DEF FlushRound
  <2> QED BY <2>1 DEF Flushed, SameFront, SameCode
<1>3. CASE ~(rc.nendBits < SymBits)
  <2> DEFINE b == Low(rc.endWindow, SymBits)
             h == High(rc.endWindow, SymBits)
             e == WriteByteAtEnd(rc, b)
             n == rc.nendBits - SymBits
  <2>1. b \in 0..SymMax /\ h \in Nat /\ n \in Nat /\ rc.endWindow = Base * h + b
    <3>1. b \in 0..Pow[SymBits] - 1 /\ h \in Nat /\ rc.endWindow = Pow[SymBits] * h + b
      BY <1>1, LowHigh
    <3>2. n \in Nat
      BY <1>1, <1>3
    <3> HIDE DEF b, h, n
    <3> QED BY <3>1, <3>2 DEF Base, SymMax
  <2>2. out = [e EXCEPT !.endWindow = h, !.nendBits = e.nendBits - SymBits] \/
        out = [e EXCEPT !.endWindow = High(e.endWindow, SymBits), !.nendBits = e.nendBits - SymBits]
    BY <1>3 DEF FlushRound
  <2>3. e \in Coder /\ e.endWindow = rc.endWindow /\ e.nendBits = rc.nendBits
    BY <1>1, <2>1, WriteByteAtEndIs
  <2>4. out = [e EXCEPT !.endWindow = h, !.nendBits = n]
    <3> HIDE DEF e
    <3> QED BY <2>2, <2>3
  <2> HIDE DEF e, b, h, out
  <2>5. /\ out.endWindow = h /\ out.nendBits = n /\ out.error = e.error /\ out.buf = e.buf /\ out.storage = e.storage
        /\ out.offs = e.offs /\ out.endOffs = e.endOffs /\ out.ext = e.ext /\ out.rem = e.rem /\ out.val = e.val
        /\ out.nbitsTotal = e.nbitsTotal /\ out.rng = e.rng
    <3> HIDE DEF n
    <3> QED BY <2>3, <2>4 DEF Coder, Records
  <2>6. e.error = 0
    BY <2>5 DEF out
  <2>7. /\ rc.error = 0 /\ Clean(e) /\ e.endOffs = rc.endOffs + 1
        /\ EndNumber(e) = EndNumber(rc) + b * Weight(rc.endOffs)
        /\ FrontNumber(e) = FrontNumber(rc) /\ SameFront(e, rc)
    BY <2>1, <2>6, WriteEndNumber DEF e
  <2>8. out \in Coder
    <3>1. FlushRound(rc) \in Coder
      BY <1>1, FlushRoundIs
    <3> QED BY <3>1 DEF out
  <2>9. Clean(out)
    BY <2>5, <2>7, <2>8 DEF Clean
  <2>10. FrontNumber(out) = FrontNumber(rc) /\ EndNumber(out) = EndNumber(rc) + b * Weight(rc.endOffs)
    BY <2>5, <2>7, SameBytes
  <2>11. RawNumber(out) = RawNumber(rc)
    <3>1. PICK w : w = Weight(rc.endOffs)
      OBVIOUS
    <3>2. w \in Nat /\ Weight(out.endOffs) = Base * w
      BY <1>1, <2>5, <2>7, <3>1, WeightIs
    <3>3. RawNumber(out) = EndNumber(rc) + b * w + h * (Base * w)
      BY <2>5, <2>10, <3>1, <3>2 DEF RawNumber
    <3>4. (Base * h + b) * w = b * w + h * (Base * w)
      BY <1>1, <2>1, <3>2
    <3>5. RawNumber(rc) = EndNumber(rc) + (Base * h + b) * w
      BY <2>1, <3>1 DEF RawNumber
    <3>6. EndNumber(rc) \in Nat /\ b * w \in Nat /\ h * (Base * w) \in Nat
      <4>1. b \in Nat /\ Base * w \in Nat
        BY <1>1, <2>1, <3>2
      <4> QED BY <2>1, <3>2, <4>1, NumbersAre
    <3> QED BY <3>3, <3>4, <3>5, <3>6
  <2>12. EndBits(out) = EndBits(rc)
    <3>1. SymBits * (rc.endOffs + 1) = SymBits * rc.endOffs + SymBits /\ SymBits * rc.endOffs \in Nat
      BY <1>1
    <3>2. PICK x, y : x = SymBits * rc.endOffs /\ y = SymBits * (rc.endOffs + 1)
      OBVIOUS
    <3> QED BY <1>1, <2>5, <2>7, <3>1, <3>2 DEF EndBits
  <2>13. h < Power[n]
    <3> SUFFICES ASSUME h >= Power[n] PROVE FALSE
      <4>1. Power[n] \in Nat
        BY <2>1, PowerPositive
      <4> QED BY <2>1, <4>1
    <3>1. Power[SymBits + n] = Power[SymBits] * Power[n] /\ Power[SymBits] = Base /\ SymBits + n = rc.nendBits
      <4>1. Power[SymBits + n] = Power[SymBits] * Power[n]
        <5> HIDE DEF n
        <5> QED BY <1>1, <2>1, PowerSum
      <4>2. Power[SymBits] = Base
        BY <1>1, PowerPow DEF Base
      <4>3. SymBits + n = rc.nendBits
        BY <1>1
      <4> QED BY <4>1, <4>2, <4>3
    <3>2. PICK p : p = Power[n]
      OBVIOUS
    <3>3. p \in Nat /\ h >= p /\ rc.endWindow < Base * p
      BY <2>1, <3>1, <3>2, PowerPositive
    <3>4. Base * p <= Base * h /\ Base * p \in Nat /\ Base * h \in Nat
      <4>1. \A x \in Nat, y \in Nat : x <= y => Base * x <= Base * y
        BY <1>1
      <4> QED BY <1>1, <2>1, <3>3, <4>1
    <3> QED BY <2>1, <3>3, <3>4
  <2>14. SameFront(out, rc)
    BY <2>5, <2>7 DEF SameFront, SameCode
  <2> QED BY <2>5, <2>7, <2>9, <2>10, <2>11, <2>12, <2>13, <2>14 DEF Flushed, out
<1> QED BY <1>2, <1>3

\* An error is kept.
LEMMA FlushErrorKept ==
  ASSUME NEW rc \in Coder, FlushRound(rc).error = 0
  PROVE  rc.error = 0
<1>1. CASE rc.nendBits < SymBits
  BY <1>1 DEF FlushRound
<1>2. CASE ~(rc.nendBits < SymBits)
  <2> DEFINE b == Low(rc.endWindow, SymBits)
             e == WriteByteAtEnd(rc, b)
  <2>1. b \in 0..SymMax
    <3>1. rc.endWindow \in Nat /\ SymBits \in 0..CodeBits
      BY CoderTypes, Widths
    <3> QED BY <3>1, LowHigh DEF SymMax
  <2>2. FlushRound(rc) = [e EXCEPT !.endWindow = High(e.endWindow, SymBits), !.nendBits = e.nendBits - SymBits]
    BY <1>2 DEF FlushRound
  <2>3. e \in Coder /\ (e.error = 0 => rc.error = 0)
    BY <2>1, WriteByteAtEndIs
  <2>4. e.error = 0
    <3> HIDE DEF e
    <3> QED BY <2>2, <2>3 DEF Coder, Records
  <2> QED BY <2>3, <2>4
<1> QED BY <1>1, <1>2

\* The rounds of the flush, as a run.
LEMMA FlushRun ==
  ASSUME NEW rc \in Coder
  PROVE  \E run \in [0..Rounds -> Coder] :
           /\ run[0] = rc /\ run[Rounds] = FlushWindow(rc)
           /\ \A i \in 0..Rounds - 1 : run[i + 1] = FlushRound(run[i])
<1> DEFINE F == [r \in Coder |-> FlushRound(r)]
           n == Rounds
           after == CHOOSE f : f = [i \in 0..n |-> IF i = 0 THEN rc ELSE FlushRound(f[i - 1])]
<1>0. n \in Nat
  BY RoundsSuffice
<1>1. PICK run \in [0..n -> Coder] : IsRun(run, rc, F, n)
  <2>1. F \in [Coder -> Coder]
    BY FlushRoundIs
  <2> HIDE DEF F, n
  <2> QED BY <1>0, <2>1, Runs
<1>2. \A i \in 1..n : run[i] = FlushRound(run[i - 1])
  <2> TAKE i \in 1..n
  <2>1. run[i - 1] \in Coder /\ run[i] = F[run[i - 1]]
    <3> HIDE DEF F, n
    <3> QED BY <1>0, <1>1 DEF IsRun
  <2> QED BY <2>1
<1>3. run[0] = rc
  BY <1>1 DEF IsRun
<1>4. run = [i \in 0..n |-> IF i = 0 THEN rc ELSE FlushRound(run[i - 1])]
  <2>1. \A i \in 0..n : run[i] = IF i = 0 THEN rc ELSE FlushRound(run[i - 1])
    <3> HIDE DEF F, n
    <3> QED BY <1>0, <1>2, <1>3
  <2> HIDE DEF n
  <2> QED BY <2>1
<1>5. after = [i \in 0..n |-> IF i = 0 THEN rc ELSE FlushRound(after[i - 1])]
  BY <1>4, Zenon
<1>6. FlushWindow(rc) = after[n]
  BY Zenon DEF FlushWindow, Repeat
<1> HIDE DEF after, F, n
<1>7. after \in [0..n -> Coder] /\ after[0] = rc /\ \A i \in 0..n - 1 : after[i + 1] = FlushRound(after[i])
  <2>1. after[0] = rc /\ \A i \in 0..n - 1 : after[i + 1] = FlushRound(after[i])
    BY <1>0, <1>5
  <2> DEFINE T == {i \in Nat : after[i] \in Coder}
  <2>2. 0 \in T
    BY <2>1
  <2>3. \A i \in 0..n - 1 : i \in T => i + 1 \in T
    BY <1>0, <2>1, FlushRoundIs
  <2>4. 0..n \subseteq T
    <3> HIDE DEF T
    <3> QED BY <1>0, <2>2, <2>3, InductionTo
  <2>5. \A i \in 0..n : after[i] \in Coder
    BY <2>4
  <2> QED BY <1>5, <2>1, <2>5
<1>8. after \in [0..n -> Coder] /\ after[0] = rc /\ after[n] = FlushWindow(rc)
  BY <1>6, <1>7
<1>9. \A i \in 0..n - 1 : after[i + 1] = FlushRound(after[i])
  BY <1>7
<1>10. \E f \in [0..n -> Coder] : f[0] = rc /\ f[n] = FlushWindow(rc) /\ \A i \in 0..n - 1 : f[i + 1] = FlushRound(f[i])
  BY <1>8, <1>9, Zenon
<1> QED BY <1>10 DEF n

\* All whole bytes of the window go to the end.
LEMMA FlushWindowNumber ==
  ASSUME NEW rc, Clean(rc), rc.endWindow < Power[rc.nendBits], FlushWindow(rc).error = 0
  PROVE  rc.error = 0 /\ Flushed(FlushWindow(rc), rc)
<1>0. rc \in Coder /\ Rounds \in Nat
  BY RoundsSuffice DEF Clean
<1>1. PICK run \in [0..Rounds -> Coder] :
        /\ run[0] = rc /\ run[Rounds] = FlushWindow(rc)
        /\ \A i \in 0..Rounds - 1 : run[i + 1] = FlushRound(run[i])
  BY <1>0, FlushRun, Zenon
<1> DEFINE T == {i \in Nat : run[i].error = 0 => rc.error = 0 /\ Flushed(run[i], rc)}
<1>2. 0 \in T
  BY <1>1 DEF Flushed, SameFront, SameCode
<1>3. ASSUME NEW i \in 0..Rounds - 1, i \in T PROVE i + 1 \in T
  <2> DEFINE r == run[i]
             w == FlushRound(r)
  <2>1. run[i + 1] = w /\ r \in Coder /\ i \in Nat
    BY <1>0, <1>1
  <2>2. SUFFICES ASSUME w.error = 0 PROVE rc.error = 0 /\ Flushed(w, rc)
    BY <2>1
  <2>3. rc.error = 0 /\ Flushed(r, rc)
    BY <1>3, <2>1, <2>2, FlushErrorKept
  <2> HIDE DEF r
  <2>4. Flushed(w, r)
    BY <2>2, <2>3, FlushRoundNumber DEF Flushed
  <2> QED BY <2>3, <2>4 DEF Flushed, SameFront, SameCode
<1>4. 0..Rounds \subseteq T
  <2> HIDE DEF T
  <2> QED BY <1>0, <1>2, <1>3, InductionTo
<1>5. run[Rounds].error = 0 => rc.error = 0 /\ Flushed(run[Rounds], rc)
  BY <1>0, <1>4
<1> QED BY <1>1, <1>5

\* An error is kept by them all.
LEMMA FlushWindowKept ==
  ASSUME NEW rc \in Coder
  PROVE  FlushWindow(rc) \in Coder /\ (FlushWindow(rc).error = 0 => rc.error = 0)
<1>2. PICK run \in [0..Rounds -> Coder] :
         /\ run[0] = rc /\ run[Rounds] = FlushWindow(rc)
         /\ \A i \in 0..Rounds - 1 : run[i + 1] = FlushRound(run[i])
  BY FlushRun
<1>3. Rounds \in Nat
  BY RoundsSuffice
<1>4. FlushWindow(rc) \in Coder
  <2>1. Rounds \in 0..Rounds
    BY <1>3
  <2>2. run[Rounds] \in Coder
    BY <2>1
  <2> QED BY <1>2, <2>2
<1>8. FlushWindow(rc).error = 0 => rc.error = 0
  <2> SUFFICES ASSUME FlushWindow(rc).error = 0 PROVE rc.error = 0
    OBVIOUS
  <2> DEFINE T == {i \in 0..Rounds : run[Rounds - i].error = 0}
  <2>1. 0 \in T
    BY <1>2, <1>3
  <2>2. ASSUME NEW i \in 0..Rounds - 1, i \in T PROVE i + 1 \in T
    <3>1. PICK j : j = Rounds - (i + 1)
      OBVIOUS
    <3>2. j \in 0..Rounds - 1 /\ j \in 0..Rounds /\ j + 1 = Rounds - i /\ i + 1 \in 0..Rounds
      BY <1>3, <3>1
    <3>3. run[j + 1] = FlushRound(run[j]) /\ run[j] \in Coder /\ run[j + 1].error = 0
      BY <1>2, <2>2, <3>2
    <3>4. run[j].error = 0
      BY <3>3, FlushErrorKept
    <3> QED BY <3>1, <3>2, <3>4
  <2>3. 0..Rounds \subseteq T
    <3> HIDE DEF T
    <3> QED BY <1>3, <2>1, <2>2, InductionTo
  <2>4. Rounds \in T /\ Rounds - Rounds = 0
    BY <1>3, <2>3
  <2> QED BY <1>2, <2>4
<1> QED BY <1>4, <1>8

-----------------------------------------------------------------------------
(* The symbols.                                                             *)

\* One of ft equal shares, or several: from fl up to fh.
Shares(p, q, fl, fh, ft) ==
  LET r == p.rng \div ft
  IN  IF fl > 0 THEN Narrows(p, q, p.rng - r * (ft - fl), r * (fh - fl))
      ELSE Narrows(p, q, 0, p.rng - r * (ft - fh))

\* The place after a symbol.
Puts(s, p, q) ==
  /\ s.op = "bit" =>
       LET h == p.rng \div Pow[s.logp]
       IN  IF s.value = 1 THEN Narrows(p, q, p.rng - h, h) ELSE Narrows(p, q, 0, p.rng - h)
  /\ s.op = "icdf" =>
       LET r == p.rng \div Pow[s.ftb]
       IN  IF s.value > 0
           THEN Narrows(p, q, p.rng - r * s.icdf[s.value], r * (s.icdf[s.value] - s.icdf[s.value + 1]))
           ELSE Narrows(p, q, 0, p.rng - r * s.icdf[1])
  /\ s.op = "uint" =>
       IF s.ft <= 1 THEN q = p
       ELSE LET k == Split(s.ft)
                top == High(s.value, k)
            IN  \E m : /\ IsPlace(m) /\ Shares(p, m, top, top + 1, High(s.ft - 1, k) + 1)
                       /\ Grows(m, q, Low(s.value, k), k)
  /\ s.op = "raw" => Grows(p, q, s.value, s.n)
  /\ s.op = "flags" => Narrows(p, q, s.value * High(CodeTop, s.n), High(CodeTop, s.n))

\* An encoder that wrote without error got to the next place.

\* enc_bits() adds raw bits, and its value is not cut.
LEMMA EncBitsMoves ==
  ASSUME NEW rc, EncoderAt(rc), NEW v \in Nat, NEW n \in 0..CodeBits - SymBits + 1, v < Pow[n],
         EncBits(rc, v, n).error = 0
  PROVE  LET out == EncBits(rc, v, n)
         IN  rc.error = 0 /\ EncoderAt(out) /\ Grows(PlaceOf(rc), PlaceOf(out), v, n)
<1>0. /\ rc \in Coder /\ Clean(rc) /\ rc.endOffs \in Nat /\ rc.nendBits \in Nat /\ rc.endWindow \in Nat
      /\ rc.nbitsTotal \in Nat /\ CodeBits \in Nat /\ SymBits \in Nat \ {0} /\ SymBits <= CodeBits
      /\ n \in Nat /\ n \in 0..CodeBits /\ RawNumber(rc) \in Nat /\ EndBits(rc) \in Nat /\ Pow[n] = Power[n]
  <2>1. rc \in Coder /\ Clean(rc)
    BY DEF EncoderAt, Sound, Clean
  <2>2. n \in Nat /\ n \in 0..CodeBits /\ CodeBits \in Nat /\ SymBits \in Nat \ {0} /\ SymBits <= CodeBits
    BY Widths
  <2> QED BY <2>1, <2>2, CoderTypes, NumbersAre, EndBitsAre, PowerPow
<1>1. CASE n = 0
  <2>1. EncBits(rc, v, n) = rc
    BY <1>1 DEF EncBits
  <2>2. Power[0] = 1 /\ v = 0
    BY <1>0, <1>1, PowerStep
  <2>3. v * Power[EndBits(rc)] = 0
    BY <1>0, <2>2, PowerPositive
  <2>4. RawNumber(rc) + v * Power[EndBits(rc)] = RawNumber(rc) /\ EndBits(rc) + n = EndBits(rc)
    BY <1>0, <1>1, <2>3
  <2>5. Grows(PlaceOf(rc), PlaceOf(rc), v, n)
    BY <1>0, <1>1, <2>2, <2>4 DEF Grows, PlaceOf
  <2>6. rc.error = 0
    BY <2>1
  <2> QED BY <2>1, <2>5, <2>6
<1>2. CASE n # 0
  <2> DEFINE r == IF rc.nendBits + n > CodeBits THEN FlushWindow(rc) ELSE rc
             m == r.nendBits + n
             t == r.nbitsTotal + n
             x == r.endWindow + Low(v, n) * Pow[r.nendBits]
             w == [r EXCEPT !.endWindow = x, !.nendBits = m, !.nbitsTotal = t]
  <2>1. EncBits(rc, v, n) = w
    BY <1>2 DEF EncBits
  <2>2. r \in Coder
    BY <1>0, FlushWindowIs DEF EncoderAt
  <2>3. /\ w.endWindow = x /\ w.nendBits = m /\ w.nbitsTotal = t /\ w.error = r.error /\ w.buf = r.buf
        /\ w.storage = r.storage /\ w.offs = r.offs /\ w.endOffs = r.endOffs /\ w.ext = r.ext /\ w.rem = r.rem
        /\ w.val = r.val /\ w.rng = r.rng
    <3> HIDE DEF r, m, t, x
    <3> QED BY <2>2 DEF Coder, Records
  <2>4. r.error = 0
    BY <2>1, <2>3
  <2>5. rc.error = 0 /\ Flushed(r, rc) /\ m <= CodeBits
    <3>1. CASE rc.nendBits + n > CodeBits
      <4>1. r = FlushWindow(rc)
        BY <3>1
      <4>2. rc.error = 0 /\ Flushed(r, rc)
        BY <1>0, <2>4, <4>1, FlushWindowNumber DEF EncoderAt
      <4>3. r.nendBits < SymBits
        BY <1>0, <4>1, FlushWindowIs DEF EncoderAt
      <4>4. r.nendBits \in Nat
        BY <2>2, CoderTypes
      <4> HIDE DEF r
      <4> QED BY <1>0, <4>2, <4>3, <4>4
    <3>2. CASE ~(rc.nendBits + n > CodeBits)
      <4>1. r = rc
        BY <3>2
      <4> HIDE DEF r
      <4> QED BY <1>0, <2>4, <3>2, <4>1 DEF EncoderAt, Flushed, SameFront, SameCode
    <3> QED BY <3>1, <3>2
  <2> HIDE DEF r
  <2>6. r.nendBits \in Nat /\ r.endWindow \in Nat /\ r.endOffs \in Nat /\ r.nbitsTotal \in Nat /\ r.nendBits \in 0..CodeBits
    <3>1. r.nendBits \in Nat /\ r.endWindow \in Nat /\ r.endOffs \in Nat /\ r.nbitsTotal \in Nat
      BY <2>2, CoderTypes
    <3> QED BY <1>0, <2>5, <3>1
  <2>7. Low(v, n) = v /\ Pow[r.nendBits] = Power[r.nendBits]
    <3>1. Pow[n] \in Nat \ {0}
      BY <1>0, PowPositive
    <3>2. \A a \in Nat \ {0} : v < a => v % a = v
      OBVIOUS
    <3> QED BY <2>6, <3>1, <3>2, PowerPow DEF Low
  <2>8. PICK p, z : p = Power[r.nendBits] /\ z = Power[n]
    OBVIOUS
  <2>9. p \in Nat \ {0} /\ z \in Nat /\ v + 1 <= z /\ r.endWindow + 1 <= p /\ x = r.endWindow + v * p
    <3>1. p \in Nat \ {0} /\ z \in Nat
      BY <1>0, <2>6, <2>8, PowerPositive
    <3>2. r.endWindow < p
      BY <2>5, <2>8 DEF Flushed
    <3>3. v < z
      BY <1>0, <2>8
    <3>4. x = r.endWindow + v * p
      BY <2>7, <2>8
    <3> HIDE DEF x
    <3> QED BY <2>6, <3>1, <3>2, <3>3, <3>4
  <2>10. v * p \in Nat /\ v * p + p <= p * z /\ p * z \in Nat
    <3>1. \A a \in Nat, b \in Nat : a <= b => a * p <= p * b
      BY <2>9
    <3>2. (v + 1) * p = v * p + p /\ v + 1 \in Nat
      BY <2>9
    <3> QED BY <2>9, <3>1, <3>2
  <2>11. x \in Nat /\ m \in Nat /\ t \in Nat
    <3>1. x \in Nat
      <4> HIDE DEF x
      <4> QED BY <2>6, <2>9, <2>10
    <3> QED BY <1>0, <2>6, <3>1
  <2>12. x < Power[m]
    <3>1. Power[m] = p * z
      BY <1>0, <2>6, <2>8, PowerSum
    <3> HIDE DEF x, m
    <3> QED BY <2>6, <2>9, <2>10, <3>1
  <2>13. w \in Coder
    <3> DEFINE u == [r EXCEPT !.endWindow = x]
               q == [u EXCEPT !.nendBits = m]
    <3> HIDE DEF x, m, t
    <3>1. u \in Coder
      BY <2>2, <2>11, CoderFields
    <3>2. q \in Coder
      <4> HIDE DEF u
      <4> QED BY <2>11, <3>1, CoderFields
    <3>3. w = [q EXCEPT !.nbitsTotal = t]
      BY <2>2 DEF Coder, Records
    <3> HIDE DEF q
    <3> QED BY <2>11, <3>2, <3>3, CoderFields
  <2> HIDE DEF w
  <2>14. Clean(w)
    BY <2>3, <2>5, <2>13 DEF Flushed, Clean
  <2>15. FrontNumber(w) = FrontNumber(rc) /\ EndNumber(w) = EndNumber(r)
    BY <2>3, <2>5, SameBytes DEF Flushed
  <2>16. /\ w.offs = rc.offs /\ w.ext = rc.ext /\ w.rem = rc.rem /\ w.val = rc.val /\ w.rng = rc.rng
         /\ w.nbitsTotal = rc.nbitsTotal + n
    <3> HIDE DEF m, x
    <3> QED BY <2>3, <2>5 DEF Flushed, SameFront, SameCode
  <2>17. Whole(w) = Whole(rc) /\ Pending(w) = Pending(rc)
    BY <2>15, <2>16 DEF Whole, OutNumber, KeptNumber, Pending
  <2>18. EndBits(w) = EndBits(rc) + n
    <3>1. EndBits(r) = EndBits(rc)
      BY <2>5 DEF Flushed
    <3>2. SymBits * r.endOffs \in Nat
      BY <1>0, <2>6
    <3>3. PICK s : s = SymBits * r.endOffs
      OBVIOUS
    <3> QED BY <1>0, <2>3, <2>6, <3>1, <3>2, <3>3 DEF EndBits
  <2>19. RawNumber(w) = RawNumber(rc) + v * Power[EndBits(rc)]
    <3>1. PICK u : u = Weight(r.endOffs)
      OBVIOUS
    <3>2. u \in Nat /\ Power[EndBits(rc)] = u * p
      <4>1. Power[EndBits(r)] = u * p
        BY <2>2, <2>8, <3>1, EndBitsAre
      <4> QED BY <2>5, <2>6, <3>1, <4>1, WeightIs DEF Flushed
    <3>3. RawNumber(w) = EndNumber(r) + (r.endWindow + v * p) * u
      BY <2>3, <2>9, <2>15, <3>1 DEF RawNumber
    <3>4. RawNumber(rc) = EndNumber(r) + r.endWindow * u
      BY <2>5, <3>1 DEF Flushed, RawNumber
    <3>5. (r.endWindow + v * p) * u = r.endWindow * u + v * (u * p)
      BY <2>6, <2>9, <3>2
    <3>6. EndNumber(r) \in Nat /\ r.endWindow * u \in Nat /\ v * (u * p) \in Nat
      <4>1. u * p \in Nat
        BY <2>9, <3>2
      <4> QED BY <2>5, <2>6, <3>2, <4>1, NumbersAre DEF Flushed
    <3> QED BY <3>2, <3>3, <3>4, <3>5, <3>6
  <2>20. Grows(PlaceOf(rc), PlaceOf(w), v, n)
    BY <1>0, <2>16, <2>17, <2>18, <2>19 DEF Grows, PlaceOf
  <2>21. EncoderAt(w)
    <3>1. Sound(w)
      BY <2>14, <2>16 DEF EncoderAt, Sound
    <3>2. CarryFits(w, w.val + w.rng)
      BY <2>16 DEF EncoderAt, CarryFits
    <3>3. w.nbitsTotal = CodeBits + 1 + SymBits * Pending(w) + EndBits(w)
      <4>1. PICK s : s = SymBits * Pending(rc)
        OBVIOUS
      <4>2. s \in Nat /\ rc.nbitsTotal = CodeBits + 1 + s + EndBits(rc)
        <5>1. Pending(rc) \in Nat
          BY <1>0, CoderTypes
        <5> QED BY <1>0, <4>1, <5>1 DEF EncoderAt
      <4> QED BY <1>0, <2>16, <2>17, <2>18, <4>1, <4>2
    <3>4. w.nendBits <= CodeBits /\ w.endWindow < Power[w.nendBits]
      BY <2>3, <2>5, <2>12
    <3> QED BY <2>16, <3>1, <3>2, <3>3, <3>4 DEF EncoderAt
  <2> QED BY <2>1, <2>5, <2>20, <2>21
<1> QED BY <1>1, <1>2

\* The fields of an encoder at a place.
LEMMA AtTypes ==
  ASSUME NEW rc, EncoderAt(rc)
  PROVE  /\ rc \in Coder /\ rc.val \in Nat /\ rc.rng \in Nat /\ rc.rng > CodeBot /\ rc.rng <= CodeTop
         /\ PlaceOf(rc).rng = rc.rng
<1>1. rc \in Coder
  BY DEF EncoderAt, Sound, Clean
<1> QED BY <1>1, CoderTypes, Widths DEF EncoderAt, PlaceOf

\* encode() takes the shares from fl up to fh.
LEMMA EncodeMoves ==
  ASSUME NEW rc, EncoderAt(rc), NEW ft \in 1..CodeBot, NEW fl \in 0..ft, NEW fh \in 0..ft, fl < fh,
         Encode(rc, fl, fh, ft).error = 0
  PROVE  LET out == Encode(rc, fl, fh, ft)
         IN  rc.error = 0 /\ EncoderAt(out) /\ Shares(PlaceOf(rc), PlaceOf(out), fl, fh, ft)
<1> DEFINE r == rc.rng \div ft
           d == r * (ft - fl)
           g == r * (fh - fl)
           c == r * (ft - fh)
           p == PlaceOf(rc)
           out == Encode(rc, fl, fh, ft)
           q == PlaceOf(out)
<1>1. rc.rng \in Nat /\ rc.rng > CodeBot /\ rc.val \in Nat /\ ft - fl \in 0..ft /\ ft - fh \in 0..ft /\ p.rng = rc.rng
  BY AtTypes, Widths
<1>2. ft - fl > 0 /\ ft - fl > ft - fh /\ (ft - fl) - (ft - fh) = fh - fl /\ ft > ft - fh /\ ft \in 0..ft
  BY Widths
<1>3. d \in 1..rc.rng /\ g \in 1..d
  BY <1>1, <1>2, Share
<1>3a. c \in 0..rc.rng - 1
  BY <1>1, <1>2, Share
<1>4. CASE fl > 0
  <2>1. EncodeVal(rc, fl, ft) = rc.val + rc.rng - d /\ EncodeRng(rc, fl, fh, ft) = g
    BY <1>4 DEF EncodeVal, EncodeRng
  <2>2. Shares(p, q, fl, fh, ft) <=> Narrows(p, q, rc.rng - d, g)
    <3> HIDE DEF p, q
    <3> QED BY <1>1, <1>4 DEF Shares
  <2> HIDE DEF d, g, p
  <2>3. out = NormalizeEncoder([rc EXCEPT !.val = (rc.val + rc.rng - d) % Word, !.rng = g])
    BY <2>1 DEF Encode
  <2> HIDE DEF out, q
  <2>4. rc.error = 0 /\ EncoderAt(out) /\ Narrows(PlaceOf(rc), PlaceOf(out), rc.rng - d, g)
    <3>1. NormalizeEncoder([rc EXCEPT !.val = (rc.val + rc.rng - d) % Word, !.rng = g]).error = 0
      BY <2>3 DEF out
    <3> QED BY <1>3, <2>3, <3>1, UpperMoves
  <2> QED BY <2>2, <2>4 DEF out, p, q
<1>5. CASE ~(fl > 0)
  <2>1. EncodeVal(rc, fl, ft) = rc.val /\ EncodeRng(rc, fl, fh, ft) = rc.rng - c
    BY <1>5 DEF EncodeVal, EncodeRng
  <2>2. Shares(p, q, fl, fh, ft) <=> Narrows(p, q, 0, rc.rng - c)
    <3> HIDE DEF p, q
    <3> QED BY <1>1, <1>5 DEF Shares
  <2> HIDE DEF c, p
  <2> DEFINE w == [rc EXCEPT !.val = rc.val % Word, !.rng = rc.rng - c]
  <2>3. out = NormalizeEncoder(w)
    BY <2>1 DEF Encode
  <2>4. NormalizeEncoder(w).error = 0
    BY <2>3
  <2> HIDE DEF out, q
  <2>5. rc.error = 0 /\ EncoderAt(out) /\ Narrows(PlaceOf(rc), PlaceOf(out), 0, rc.rng - c)
    <3>1. w = [rc EXCEPT !.val = rc.val % Word, !.rng = rc.rng - c]
      OBVIOUS
    <3> HIDE DEF w
    <3> QED BY <1>3a, <2>3, <2>4, <3>1, LowerMoves
  <2> QED BY <2>2, <2>5 DEF out, p, q
<1> QED BY <1>4, <1>5

\* The share of an even number of parts: not all of the range.
LEMMA LogShare ==
  ASSUME NEW rng \in Nat, rng > CodeBot, NEW logp \in 1..CodeShift
  PROVE  LET s == rng \div Pow[logp]
         IN  s \in 1..rng - 1
<1> DEFINE s == rng \div Pow[logp]
<1>1. Pow[logp] \in 1..CodeBot /\ Pow[logp] >= 2
  <2>1. 0 \in 0..CodeBits /\ logp \in 0..CodeBits /\ 0 < logp
    BY Widths
  <2> QED BY <2>1, PowShare, PowOrder, PowStep
<1>2. s * 1 \in 1..rng /\ s * 1 \in 0..rng - 1
  <2>1. 1 \in 0..Pow[logp] /\ 2 \in 0..Pow[logp]
    BY <1>1, Widths
  <2> QED BY <1>1, <2>1, Share
<1>3. s \in Nat
  <2> DEFINE p == Pow[logp]
  <2>1. p \in Nat \ {0}
    BY <1>1, Widths
  <2> HIDE DEF p
  <2>2. rng \div p \in Nat
    BY <2>1, Division
  <2> QED BY <2>2 DEF p
<1> HIDE DEF s
<1>4. s \in 1..rng - 1
  BY <1>2, <1>3
<1> QED BY <1>4 DEF s

\* encode_bit_logp() takes the upper part for a one, the rest for a zero.
LEMMA EncodeBitMoves ==
  ASSUME NEW rc, EncoderAt(rc), NEW one \in BOOLEAN, NEW logp \in 1..CodeShift, EncodeBitLogp(rc, one, logp).error = 0
  PROVE  LET out == EncodeBitLogp(rc, one, logp)
             h == rc.rng \div Pow[logp]
         IN  /\ rc.error = 0 /\ EncoderAt(out)
             /\ one => Narrows(PlaceOf(rc), PlaceOf(out), rc.rng - h, h)
             /\ ~one => Narrows(PlaceOf(rc), PlaceOf(out), 0, rc.rng - h)
<1> DEFINE s == rc.rng \div Pow[logp]
           out == EncodeBitLogp(rc, one, logp)
<1>1. rc.rng \in Nat /\ rc.rng > CodeBot /\ rc.val \in Nat
  BY AtTypes
<1>2. s \in 1..rc.rng - 1
  BY <1>1, LogShare
<1> HIDE DEF s
<1>3. s \in 1..rc.rng /\ s \in 0..rc.rng - 1 /\ s \in 1..s
  BY <1>1, <1>2
<1>4. CASE one
  <2>1. out = NormalizeEncoder([rc EXCEPT !.val = (rc.val + rc.rng - s) % Word, !.rng = s])
    BY <1>4 DEF EncodeBitLogp, s
  <2>2. NormalizeEncoder([rc EXCEPT !.val = (rc.val + rc.rng - s) % Word, !.rng = s]).error = 0
    BY <2>1
  <2> HIDE DEF out
  <2>3. rc.error = 0 /\ EncoderAt(out) /\ Narrows(PlaceOf(rc), PlaceOf(out), rc.rng - s, s)
    BY <1>3, <2>1, <2>2, UpperMoves
  <2> QED BY <1>4, <2>3 DEF out, s
<1>5. CASE ~one
  <2> DEFINE w == [rc EXCEPT !.rng = rc.rng - s]
  <2>1. out = NormalizeEncoder(w)
    BY <1>5 DEF EncodeBitLogp, s
  <2>2. NormalizeEncoder(w).error = 0
    BY <2>1
  <2>3. w = [rc EXCEPT !.rng = rc.rng - s]
    OBVIOUS
  <2> HIDE DEF out, w
  <2>4. rc.error = 0 /\ EncoderAt(out) /\ Narrows(PlaceOf(rc), PlaceOf(out), 0, rc.rng - s)
    BY <1>3, <2>1, <2>2, <2>3, LowerMoves
  <2> QED BY <1>5, <2>4 DEF out, s
<1> QED BY <1>4, <1>5

\* What a table gives the symbol s.
LEMMA TableShare ==
  ASSUME NEW rng \in Nat, rng > CodeBot, NEW icdf, NEW ftb, IsTable(icdf, ftb), NEW s \in Nat, s < Len(icdf)
  PROVE  LET r == rng \div Pow[ftb]
         IN  /\ r \in Nat /\ icdf[s + 1] \in Nat
             /\ s > 0 => /\ icdf[s] \in Nat /\ icdf[s] > icdf[s + 1]
                         /\ r * icdf[s] \in 1..rng /\ r * (icdf[s] - icdf[s + 1]) \in 1..r * icdf[s]
             /\ s = 0 => r * icdf[1] \in 0..rng - 1
<1> DEFINE f == Pow[ftb]
           r == rng \div f
<1>1. f \in 1..CodeBot /\ CodeBot \in Nat
  BY PowShare, Widths DEF IsTable
<1>2. Len(icdf) \in Nat
  BY DEF IsTable
<1>3. r \in Nat
  <2>1. f \in Nat \ {0}
    BY <1>1
  <2> HIDE DEF f
  <2> QED BY <2>1, Division
<1>4. icdf[s + 1] \in Nat /\ icdf[s + 1] < f
  <2>1. s + 1 \in 1..Len(icdf)
    BY <1>2
  <2> QED BY <2>1, TableFalls
<1>5. ASSUME s > 0
      PROVE  /\ icdf[s] \in Nat /\ icdf[s] > icdf[s + 1]
             /\ r * icdf[s] \in 1..rng /\ r * (icdf[s] - icdf[s + 1]) \in 1..r * icdf[s]
  <2> DEFINE a == icdf[s]
             b == icdf[s + 1]
  <2>1. a \in Nat /\ b \in Nat /\ a < f /\ b < a
    <3>1. s \in 1..Len(icdf) /\ s + 1 \in 1..Len(icdf) /\ s + 1 \in 2..Len(icdf) /\ (s + 1) - 1 = s
      BY <1>2, <1>5
    <3>2. a \in Nat /\ b \in Nat /\ a < f
      BY <3>1, TableFalls
    <3>3. icdf[s + 1] < icdf[(s + 1) - 1]
      BY <3>1 DEF IsTable
    <3> QED BY <3>1, <3>2, <3>3
  <2> HIDE DEF a, b, f
  <2>2. a \in 0..f /\ b \in 0..f /\ a > b /\ a > 0
    BY <1>1, <2>1
  <2>3. r * a \in 1..rng /\ r * (a - b) \in 1..r * a
    BY <1>1, <2>2, Share
  <2> QED BY <2>1, <2>2, <2>3 DEF a, b
<1>6. ASSUME s = 0 PROVE r * icdf[1] \in 0..rng - 1
  <2> DEFINE b == icdf[1]
  <2>1. b \in Nat /\ b < f
    BY <1>4, <1>6
  <2> HIDE DEF b, f
  <2>2. f \in 0..f /\ b \in 0..f /\ f > b
    BY <1>1, <2>1
  <2>3. r * b \in 0..rng - 1
    BY <1>1, <2>2, Share
  <2> QED BY <2>3 DEF b
<1> QED BY <1>3, <1>4, <1>5, <1>6

\* encode_icdf() takes the part of its symbol.
LEMMA EncodeIcdfMoves ==
  ASSUME NEW rc, EncoderAt(rc), NEW icdf, NEW ftb, IsTable(icdf, ftb), NEW s \in Nat, s < Len(icdf),
         EncodeIcdf(rc, s, icdf, ftb).error = 0
  PROVE  LET out == EncodeIcdf(rc, s, icdf, ftb)
             r == rc.rng \div Pow[ftb]
         IN  /\ rc.error = 0 /\ EncoderAt(out)
             /\ s > 0 => Narrows(PlaceOf(rc), PlaceOf(out), rc.rng - r * icdf[s], r * (icdf[s] - icdf[s + 1]))
             /\ s = 0 => Narrows(PlaceOf(rc), PlaceOf(out), 0, rc.rng - r * icdf[1])
<1> DEFINE r == rc.rng \div Pow[ftb]
           out == EncodeIcdf(rc, s, icdf, ftb)
<1>1. rc.rng \in Nat /\ rc.rng > CodeBot
  BY AtTypes
<1>2. CASE s > 0
  <2> DEFINE d == r * icdf[s]
             g == r * (icdf[s] - icdf[s + 1])
  <2>1. d \in 1..rc.rng /\ g \in 1..d
    BY <1>1, <1>2, TableShare
  <2>2. out = NormalizeEncoder([rc EXCEPT !.val = (rc.val + rc.rng - d) % Word, !.rng = g])
    BY <1>2 DEF EncodeIcdf
  <2>3. NormalizeEncoder([rc EXCEPT !.val = (rc.val + rc.rng - d) % Word, !.rng = g]).error = 0
    BY <2>2
  <2> HIDE DEF d, g, out
  <2>4. rc.error = 0 /\ EncoderAt(out) /\ Narrows(PlaceOf(rc), PlaceOf(out), rc.rng - d, g)
    BY <2>1, <2>2, <2>3, UpperMoves
  <2> QED BY <1>2, <2>4 DEF out, d, g
<1>3. CASE ~(s > 0)
  <2> DEFINE c == r * icdf[1]
             w == [rc EXCEPT !.rng = rc.rng - c]
  <2>0. s = 0
    BY <1>3
  <2>1. c \in 0..rc.rng - 1
    BY <1>1, <2>0, TableShare
  <2>2. out = NormalizeEncoder(w)
    BY <1>3 DEF EncodeIcdf
  <2>3. NormalizeEncoder(w).error = 0
    BY <2>2
  <2> HIDE DEF c
  <2>4. w = [rc EXCEPT !.rng = rc.rng - c]
    OBVIOUS
  <2> HIDE DEF out, w
  <2>5. rc.error = 0 /\ EncoderAt(out) /\ Narrows(PlaceOf(rc), PlaceOf(out), 0, rc.rng - c)
    BY <2>1, <2>2, <2>3, <2>4, LowerMoves
  <2> QED BY <1>3, <2>5 DEF out, c
<1> QED BY <1>2, <1>3

\* enc_bits() keeps an error.
LEMMA EncBitsErrorKept ==
  ASSUME NEW rc \in Coder, NEW v \in Nat, NEW n \in Nat, EncBits(rc, v, n).error = 0
  PROVE  rc.error = 0
<1>1. CASE n = 0
  BY <1>1 DEF EncBits
<1>2. CASE n # 0
  <2> DEFINE r == IF rc.nendBits + n > CodeBits THEN FlushWindow(rc) ELSE rc
             x == r.endWindow + Low(v, n) * Pow[r.nendBits]
             w == [r EXCEPT !.endWindow = x, !.nendBits = r.nendBits + n, !.nbitsTotal = r.nbitsTotal + n]
  <2>1. EncBits(rc, v, n) = w
    BY <1>2 DEF EncBits
  <2>4. FlushWindow(rc) \in Coder /\ (FlushWindow(rc).error = 0 => rc.error = 0)
    BY FlushWindowKept
  <2>5. r \in Coder
    BY <2>4
  <2>6. w.error = r.error
    <3> HIDE DEF r, x
    <3> QED BY <2>5 DEF Coder, Records
  <2>7. r.error = 0
    BY <2>1, <2>6
  <2> QED BY <2>4, <2>7
<1> QED BY <1>1, <1>2

\* enc_uint() takes a share for the top bits and adds the others as raw bits.
LEMMA EncUintMoves ==
  ASSUME NEW rc, EncoderOK(rc), EncoderAt(rc), NEW ft \in 2..Word - 1, NEW v \in Nat, v < ft,
         EncUint(rc, v, ft).error = 0
  PROVE  LET out == EncUint(rc, v, ft)
             k == Split(ft)
             top == High(v, k)
         IN  /\ rc.error = 0 /\ EncoderAt(out)
             /\ \E m : /\ IsPlace(m) /\ Shares(PlaceOf(rc), m, top, top + 1, High(ft - 1, k) + 1)
                       /\ Grows(m, PlaceOf(out), Low(v, k), k)
<1> DEFINE k == Split(ft)
           t == High(v, k)
           n == High(ft - 1, k) + 1
           e == Encode(rc, t, t + 1, n)
           y == Low(v, k)
           out == EncBits(e, y, k)
<1>1. EncUint(rc, v, ft) = out
  <2>1. ~(ft <= 1)
    BY Widths
  <2> QED BY <2>1 DEF EncUint
<1>2. k \in 0..CodeBits - SymBits + 1 /\ n \in 1..CodeBot /\ t \in 0..High(ft - 1, k) /\ y \in Nat
  BY SplitIs
<1>3. k \in 0..CodeBits
  BY <1>2, WidthsFit
<1>4. y < Pow[k]
  <2>1. Low(v, k) \in 0..Pow[k] - 1 /\ Pow[k] \in Nat
    BY <1>3, LowHigh, PowPositive
  <2> HIDE DEF k
  <2> QED BY <2>1
<1>5. t \in 0..n /\ t + 1 \in 0..n /\ t < t + 1
  <2> DEFINE h == High(ft - 1, k)
  <2>1. n = h + 1 /\ h + 1 \in 1..CodeBot /\ t \in 0..h
    BY <1>2
  <2>2. h \in Nat
    <3>1. ft - 1 \in Nat
      BY Widths
    <3> HIDE DEF k
    <3> QED BY <1>3, <3>1, LowHigh
  <2> HIDE DEF h, t, n
  <2> QED BY <2>1, <2>2
<1> HIDE DEF k, t, n, y
<1>6. EncoderOK(e) /\ e \in Coder
  <2>1. Coded(e, rc)
    BY <1>2, <1>5, EncodeIs
  <2> QED BY <2>1 DEF Coded, EncoderOK
<1>7. e.error = 0
  <2>1. k \in Nat
    BY <1>3
  <2>2. EncBits(e, y, k).error = 0
    BY <1>1
  <2> HIDE DEF e
  <2> QED BY <1>2, <1>6, <2>1, <2>2, EncBitsErrorKept
<1>8. rc.error = 0 /\ EncoderAt(e) /\ Shares(PlaceOf(rc), PlaceOf(e), t, t + 1, n)
  <2>1. Encode(rc, t, t + 1, n).error = 0
    BY <1>7
  <2> HIDE DEF e
  <2>2. t \in 0..n /\ t + 1 \in 0..n /\ n \in 1..CodeBot /\ t < t + 1
    BY <1>2, <1>5
  <2> QED BY <2>1, <2>2, EncodeMoves DEF e
<1>9. EncoderAt(out) /\ Grows(PlaceOf(e), PlaceOf(out), y, k)
  <2>1. EncBits(e, y, k).error = 0
    BY <1>1
  <2> HIDE DEF e
  <2> QED BY <1>2, <1>4, <1>8, <2>1, EncBitsMoves
<1>10. IsPlace(PlaceOf(e))
  BY <1>8, PlaceOfIs
<1> HIDE DEF out, e
<1> QED BY <1>1, <1>8, <1>9, <1>10, Zenon DEF k, t, n, y

\* Encoding a symbol without error leads to a place the symbol may lead to.
LEMMA EncodeSymbolMoves ==
  ASSUME NEW rc, EncoderOK(rc), EncoderAt(rc), NEW s, Codable(s), EncodeSymbol(rc, s).error = 0
  PROVE  LET out == EncodeSymbol(rc, s)
         IN  rc.error = 0 /\ EncoderAt(out) /\ Puts(s, PlaceOf(rc), PlaceOf(out))
<1> DEFINE out == EncodeSymbol(rc, s)
           p == PlaceOf(rc)
           q == PlaceOf(out)
<1>1. s \in Symbol
  BY DEF Codable
<1>2. s.op \in {"bit", "icdf", "uint", "raw"} /\ p.rng = rc.rng
  BY <1>1 DEF Symbol, PlaceOf
<1>3. CASE s.op = "bit"
  <2>1. s.logp \in 1..CodeShift /\ s.value \in {0, 1}
    BY <1>1, <1>3 DEF Symbol
  <2> DEFINE one == s.value = 1
             h == rc.rng \div Pow[s.logp]
  <2>2. out = EncodeBitLogp(rc, one, s.logp)
    BY <1>3 DEF EncodeSymbol
  <2>3. one \in BOOLEAN /\ EncodeBitLogp(rc, one, s.logp).error = 0
    BY <2>2
  <2> HIDE DEF out, one
  <2>4. /\ rc.error = 0 /\ EncoderAt(out)
        /\ one => Narrows(PlaceOf(rc), PlaceOf(out), rc.rng - h, h)
        /\ ~one => Narrows(PlaceOf(rc), PlaceOf(out), 0, rc.rng - h)
    BY <2>1, <2>2, <2>3, EncodeBitMoves
  <2> HIDE DEF p, q
  <2>5. Puts(s, p, q)
    BY <1>2, <1>3, <2>4 DEF Puts, one, p, q
  <2> QED BY <2>4, <2>5 DEF out, p, q
<1>4. CASE s.op = "icdf"
  <2>1. s.value \in Nat /\ s.icdf \in Seq(Nat) /\ s.ftb \in 0..CodeShift
    BY <1>1, <1>4 DEF Symbol
  <2>2. out = EncodeIcdf(rc, s.value, s.icdf, s.ftb)
    BY <1>4 DEF EncodeSymbol
  <2>3. s.value < Len(s.icdf) /\ IsTable(s.icdf, s.ftb)
    BY <1>4, <2>1 DEF Codable, IsTable
  <2>4. EncodeIcdf(rc, s.value, s.icdf, s.ftb).error = 0
    BY <2>2
  <2> DEFINE r == rc.rng \div Pow[s.ftb]
  <2> HIDE DEF out
  <2>5. /\ rc.error = 0 /\ EncoderAt(out)
        /\ s.value > 0 => Narrows(PlaceOf(rc), PlaceOf(out), rc.rng - r * s.icdf[s.value],
                                  r * (s.icdf[s.value] - s.icdf[s.value + 1]))
        /\ s.value = 0 => Narrows(PlaceOf(rc), PlaceOf(out), 0, rc.rng - r * s.icdf[1])
    BY <2>1, <2>2, <2>3, <2>4, EncodeIcdfMoves
  <2>6. s.value > 0 \/ (s.value = 0 /\ ~(s.value > 0))
    BY <2>1
  <2> HIDE DEF p, q
  <2>7. Puts(s, p, q)
    BY <1>2, <1>4, <2>5, <2>6 DEF Puts, p, q
  <2> QED BY <2>5, <2>7 DEF out, p, q
<1>5. CASE s.op = "uint"
  <2>1. s.value \in Nat /\ s.ft \in 1..Word - 1 /\ s.value < s.ft
    BY <1>1, <1>5 DEF Symbol, Codable
  <2>2. out = EncUint(rc, s.value, s.ft)
    BY <1>5 DEF EncodeSymbol
  <2>3. CASE s.ft <= 1
    <3>1. out = rc
      BY <2>2, <2>3 DEF EncUint
    <3>2. rc.error = 0
      BY <3>1
    <3> HIDE DEF out
    <3>3. q = p
      BY <3>1
    <3> HIDE DEF p, q
    <3>4. Puts(s, p, q)
      BY <1>5, <2>3, <3>3 DEF Puts
    <3> QED BY <3>1, <3>2, <3>4 DEF out, p, q
  <2>4. CASE ~(s.ft <= 1)
    <3>1. s.ft \in 2..Word - 1
      BY <2>1, <2>4, Widths
    <3>2. EncUint(rc, s.value, s.ft).error = 0
      BY <2>2
    <3> DEFINE k == Split(s.ft)
               top == High(s.value, k)
    <3> HIDE DEF out
    <3>3. /\ rc.error = 0 /\ EncoderAt(out)
          /\ \E m : /\ IsPlace(m) /\ Shares(PlaceOf(rc), m, top, top + 1, High(s.ft - 1, k) + 1)
                    /\ Grows(m, PlaceOf(out), Low(s.value, k), k)
      BY <2>1, <2>2, <3>1, <3>2, EncUintMoves
    <3> HIDE DEF p, q
    <3>4. Puts(s, p, q)
      <4>1. s.op # "bit" /\ s.op # "icdf" /\ s.op # "raw" /\ s.op # "flags"
        BY <1>5
      <4> QED BY <1>5, <2>4, <3>3, <4>1, Zenon DEF Puts, p, q, k, top
    <3> QED BY <3>3, <3>4 DEF out, p, q
  <2> QED BY <2>3, <2>4
<1>6. CASE s.op = "raw"
  <2>1. s.value \in Nat /\ s.n \in 0..CodeBits - SymBits + 1 /\ s.value < Pow[s.n]
    BY <1>1, <1>6 DEF Symbol, Codable
  <2>2. out = EncBits(rc, s.value, s.n)
    BY <1>6 DEF EncodeSymbol
  <2>3. EncBits(rc, s.value, s.n).error = 0
    BY <2>2
  <2> HIDE DEF out
  <2>4. rc.error = 0 /\ EncoderAt(out) /\ Grows(PlaceOf(rc), PlaceOf(out), s.value, s.n)
    BY <2>1, <2>2, <2>3, EncBitsMoves
  <2> HIDE DEF p, q
  <2>5. Puts(s, p, q)
    BY <1>6, <2>4 DEF Puts, p, q
  <2> QED BY <2>4, <2>5 DEF out, p, q
<1> QED BY <1>2, <1>3, <1>4, <1>5, <1>6

-----------------------------------------------------------------------------
(* The first byte: its flags are reserved first and patched in at the end.  *)

\* The whole interval, and no raw bits.
Start == [low |-> 0, rng |-> CodeTop, outs |-> 0, raw |-> 0, rawBits |-> 0]

\* A reset encoder is there, whatever it was used for before.
LEMMA FreshPlace ==
  ASSUME NEW old \in Stale, NEW size \in Sizes
  PROVE  LET fresh == ResetForEncode(old, size)
         IN  EncoderAt(fresh) /\ PlaceOf(fresh) = Start
<1> DEFINE fresh == ResetForEncode(old, size)
           b == [i \in 0..size - 1 |-> IF i \in DOMAIN old THEN old[i] ELSE 0]
<1>1. fresh \in Coder /\ size \in Nat
  BY ResetIs, SizesPositive DEF EncoderOK
<1>2. /\ fresh.buf = b /\ fresh.storage = size /\ fresh.endOffs = 0 /\ fresh.endWindow = 0 /\ fresh.nendBits = 0
      /\ fresh.nbitsTotal = CodeBits + 1 /\ fresh.offs = 0 /\ fresh.rng = CodeTop /\ fresh.val = 0
      /\ fresh.ext = 0 /\ fresh.rem = -1 /\ fresh.error = 0
  <2> HIDE DEF b
  <2> QED BY DEF ResetForEncode, b
<1>3. \A i \in DOMAIN fresh.buf : fresh.buf[i] \in 0..SymMax
  <2>1. \A i \in DOMAIN b : b[i] \in 0..SymMax
    BY StaleBytes, BaseIs
  <2> HIDE DEF b, fresh
  <2> QED BY <1>2, <2>1
<1> HIDE DEF fresh, b
<1>4. Clean(fresh)
  BY <1>1, <1>2, <1>3 DEF Clean
<1>5. Sound(fresh)
  BY <1>2, <1>4, BaseIs DEF Sound
<1>6. Pending(fresh) = 0 /\ EndBits(fresh) = 0
  <2>1. SymBits * 0 = 0
    BY Widths
  <2> QED BY <1>2, <2>1 DEF Pending, EndBits
<1>7. OutNumber(fresh) = 0
  <2>1. KeptNumber(fresh) = 0
    BY <1>2 DEF KeptNumber
  <2> QED BY <1>2, <2>1, WeightIs DEF OutNumber
<1>8. Whole(fresh) = 0
  BY <1>2, <1>7, Widths DEF Whole
<1>9. RawNumber(fresh) = 0
  <2>1. EndNumber(fresh) = 0
    BY <1>2, <1>4, StreamsAre, EndDigitsAre DEF EndNumber
  <2> QED BY <1>2, <2>1, WeightIs DEF RawNumber
<1>10. PlaceOf(fresh) = Start
  BY <1>2, <1>6, <1>8, <1>9 DEF PlaceOf, Start
<1>11. EncoderAt(fresh)
  <2>1. CarryFits(fresh, fresh.val + fresh.rng)
    BY <1>2, Widths DEF CarryFits
  <2>2. fresh.rng \in CodeBot + 1..CodeTop /\ fresh.nendBits <= CodeBits
    BY <1>2, Widths
  <2>3. fresh.endWindow < Power[fresh.nendBits]
    BY <1>2, PowerStep
  <2>4. fresh.nbitsTotal = CodeBits + 1 + SymBits * Pending(fresh) + EndBits(fresh)
    BY <1>2, <1>6, Widths
  <2> QED BY <1>5, <2>1, <2>2, <2>3, <2>4 DEF EncoderAt
<1> QED BY <1>10, <1>11 DEF fresh

\* The share of n reserved bits.
LEMMA ReservedShare ==
  ASSUME NEW n \in 0..SymBits
  PROVE  LET h == High(CodeTop, n)
         IN  /\ h \in Nat \ {0} /\ h = CodeBot * Pow[SymBits - n] /\ CodeTop = h * Pow[n]
             /\ h = Pow[CodeBits - 1 - n]
             /\ CodeTop - (CodeTop \div Pow[SymBits]) * (Pow[SymBits] - Pow[SymBits - n]) = h
<1> DEFINE m == SymBits - n
           h == High(CodeTop, n)
           a == Pow[SymBits] - Pow[m]
<1>1. m \in Nat /\ m \in 0..CodeBits /\ SymBits \in 0..CodeBits /\ n \in Nat /\ n \in 0..CodeBits
      /\ m + n = SymBits /\ m <= SymBits /\ CodeShift \in Nat /\ CodeShift \in 0..CodeBits
      /\ CodeShift + m <= CodeBits /\ CodeShift + m = CodeBits - 1 - n
  BY Widths
<1>2. Pow[m] \in Nat \ {0} /\ Pow[n] \in Nat \ {0} /\ Pow[SymBits] \in Nat \ {0}
      /\ Pow[m] <= Pow[SymBits] /\ Pow[SymBits] = Pow[m] * Pow[n]
  BY <1>1, PowPositive, PowOrder, PowSum
<1>3. CodeBot \in Nat \ {0} /\ CodeTop = CodeBot * Pow[SymBits] /\ CodeTop \in Nat
  BY Widths
<1>4. CodeTop \div Pow[SymBits] = CodeBot
  BY <1>2, <1>3, Exact
<1>5. CodeTop = (CodeBot * Pow[m]) * Pow[n] /\ CodeBot * Pow[m] \in Nat
  <2>1. \A x \in Nat, y \in Nat, z \in Nat : x * (y * z) = (x * y) * z /\ x * y \in Nat
    OBVIOUS
  <2> QED BY <1>2, <1>3, <2>1
<1>6. h = CodeBot * Pow[m]
  BY <1>2, <1>5, Exact DEF High
<1>7. h \in Nat \ {0}
  <2>1. \A x \in Nat \ {0}, y \in Nat \ {0} : x * y \in Nat \ {0}
    OBVIOUS
  <2> HIDE DEF h, m
  <2> QED BY <1>2, <1>3, <1>6, <2>1
<1>8. h = Pow[CodeBits - 1 - n]
  <2>1. Pow[CodeShift + m] = Pow[CodeShift] * Pow[m]
    BY <1>1, PowSum
  <2> QED BY <1>1, <1>6, <2>1, TopIs
<1>9. CodeTop - CodeBot * a = h
  <2>1. \A x \in Nat, y \in Nat, z \in Nat : z <= y => x * y - x * (y - z) = x * z
    OBVIOUS
  <2>2. CodeBot * Pow[SymBits] - CodeBot * a = CodeBot * Pow[m]
    <3> HIDE DEF m
    <3> QED BY <1>2, <1>3, <2>1
  <2> QED BY <1>3, <1>6, <2>2
<1> QED BY <1>4, <1>5, <1>6, <1>7, <1>8, <1>9

\* The place held for the flags is the lowest part of the interval.
LEMMA ReserveMoves ==
  ASSUME NEW old \in Stale, NEW size \in Sizes, NEW n \in 1..SymBits,
         EncodeSymbol(ResetForEncode(old, size), Reserve(n)).error = 0
  PROVE  LET out == EncodeSymbol(ResetForEncode(old, size), Reserve(n))
         IN  EncoderAt(out) /\ Narrows(Start, PlaceOf(out), 0, High(CodeTop, n))
<1> DEFINE fresh == ResetForEncode(old, size)
           out == EncodeSymbol(fresh, Reserve(n))
           a == Pow[SymBits] - Pow[SymBits - n]
           table == <<a, 0>>
<1>1. EncoderAt(fresh) /\ PlaceOf(fresh) = Start /\ fresh.rng = CodeTop
  BY FreshPlace, ResetIs
<1>2. out.error = 0
  OBVIOUS
<1> HIDE DEF fresh
<1>3. a \in Nat /\ a < Pow[SymBits] /\ SymBits \in 0..CodeShift
  <2> DEFINE m == SymBits - n
  <2>1. m \in 0..CodeBits /\ SymBits \in 0..CodeBits /\ m < SymBits /\ SymBits \in 0..CodeShift
    BY Widths
  <2>2. Pow[m] \in Nat \ {0} /\ Pow[SymBits] \in Nat /\ Pow[m] <= Pow[SymBits]
    BY <2>1, PowPositive, PowOrder
  <2> HIDE DEF m
  <2> QED BY <2>1, <2>2 DEF m
<1>3a. a > 0
  <2> DEFINE m == SymBits - n
  <2>1. m \in 0..CodeBits /\ SymBits \in 0..CodeBits /\ m < SymBits
    BY Widths
  <2>2. Pow[m] \in Nat \ {0} /\ Pow[SymBits] \in Nat /\ 2 * Pow[m] <= Pow[SymBits]
    BY <2>1, PowPositive, PowOrder
  <2> HIDE DEF m
  <2> QED BY <2>1, <2>2 DEF m
<1>4. out = EncodeIcdf(fresh, 0, table, SymBits)
  <2>1. Reserve(n) = [op |-> "icdf", value |-> 0, icdf |-> table, ftb |-> SymBits]
    BY DEF Reserve
  <2> HIDE DEF table
  <2>2. Reserve(n).op = "icdf" /\ Reserve(n).value = 0 /\ Reserve(n).icdf = table /\ Reserve(n).ftb = SymBits
    BY <2>1
  <2> HIDE DEF Reserve
  <2> QED BY <2>2 DEF EncodeSymbol
<1>5. IsTable(table, SymBits) /\ 0 \in Nat /\ 0 < Len(table) /\ table[1] = a
  <2> HIDE DEF a
  <2> QED BY <1>3, <1>3a DEF IsTable
<1> HIDE DEF table, out
<1>6. (fresh.rng \div Pow[SymBits]) * table[1] = (CodeTop \div Pow[SymBits]) * a
  BY <1>1, <1>5
<1>7. EncodeIcdf(fresh, 0, table, SymBits).error = 0
  BY <1>2, <1>4
<1>8. EncoderAt(out) /\ Narrows(PlaceOf(fresh), PlaceOf(out), 0, fresh.rng - (fresh.rng \div Pow[SymBits]) * table[1])
  BY <1>1, <1>4, <1>5, <1>7, EncodeIcdfMoves
<1>9. fresh.rng - (fresh.rng \div Pow[SymBits]) * table[1] = High(CodeTop, n)
  <2>1. n \in 0..SymBits
    BY Widths
  <2> HIDE DEF a
  <2>2. CodeTop - (CodeTop \div Pow[SymBits]) * a = High(CodeTop, n)
    BY <2>1, ReservedShare DEF a
  <2> QED BY <1>1, <1>6, <2>2
<1> QED BY <1>1, <1>8, <1>9 DEF out, fresh

\* shrink() moves the end of the buffer and nothing else.
LEMMA ShrinkMoves ==
  ASSUME NEW rc, EncoderOK(rc), EncoderAt(rc), NEW size \in Nat, rc.offs + rc.endOffs <= size, size < rc.storage
  PROVE  LET out == ShrinkTo(rc, size)
         IN  EncoderAt(out) /\ PlaceOf(out) = PlaceOf(rc) /\ out.error = rc.error
<1> DEFINE f == [i \in DOMAIN rc.buf |->
                   IF i \in size - rc.endOffs..size - 1 THEN rc.buf[i + rc.storage - size] ELSE rc.buf[i]]
           w == ShrinkTo(rc, size)
<1>1. Clean(rc) /\ rc \in Coder /\ Sound(rc)
  BY DEF EncoderAt, Sound, Clean
<1>2. rc.storage \in Nat /\ rc.offs \in Nat /\ rc.endOffs \in Nat /\ rc.buf \in Contents
  BY <1>1, CoderTypes
<1>3. w \in Coder
  BY ShrinkToIs DEF EncoderOK
<1>4. /\ w.storage = size /\ w.buf = f /\ w.endOffs = rc.endOffs /\ w.nendBits = rc.nendBits
      /\ w.endWindow = rc.endWindow /\ w.nbitsTotal = rc.nbitsTotal /\ w.rng = rc.rng /\ w.val = rc.val
      /\ w.offs = rc.offs /\ w.error = rc.error /\ w.ext = rc.ext /\ w.rem = rc.rem
  <2>1. w = [rc EXCEPT !.storage = size, !.buf = f]
    BY DEF ShrinkTo
  <2> HIDE DEF f, w
  <2> QED BY <1>1, <2>1 DEF Coder, Records
<1> HIDE DEF w
<1>5. \A i \in 0..rc.storage - 1 : i \in DOMAIN rc.buf /\ rc.buf[i] \in 0..SymMax
  BY <1>1, StreamsAre
<1>6. DOMAIN f = DOMAIN rc.buf
  OBVIOUS
<1>7. \A i \in size - rc.endOffs..size - 1 : i \in 0..rc.storage - 1 /\ i + rc.storage - size \in 0..rc.storage - 1
  BY <1>2
<1>8. \A i \in DOMAIN f : f[i] \in 0..SymMax
  <2> TAKE i \in DOMAIN f
  <2>1. i \in DOMAIN rc.buf
    BY <1>6
  <2>2. CASE i \in size - rc.endOffs..size - 1
    BY <1>5, <1>7, <2>1, <2>2
  <2>3. CASE ~(i \in size - rc.endOffs..size - 1)
    BY <1>1, <2>1, <2>3 DEF Clean
  <2> QED BY <2>2, <2>3
<1>9. Clean(w)
  <2> HIDE DEF f
  <2> QED BY <1>3, <1>4, <1>8 DEF Clean
<1>10. \A i \in 0..rc.offs - 1 : FrontOf(w)[i] = FrontOf(rc)[i]
  <2> TAKE i \in 0..rc.offs - 1
  <2>1. i \in 0..size - 1 /\ i \in 0..rc.storage - 1 /\ ~(i \in size - rc.endOffs..size - 1)
    BY <1>2
  <2>2. f[i] = rc.buf[i]
    BY <1>5, <2>1
  <2>3. FrontOf(w)[i] = w.buf[i] /\ FrontOf(rc)[i] = rc.buf[i]
    <3> HIDE DEF f
    <3>1. i \in 0..w.storage - 1
      BY <1>4, <2>1
    <3> QED BY <1>1, <1>9, <2>1, <3>1, StreamsAre
  <2> HIDE DEF f
  <2> QED BY <1>4, <2>2, <2>3
<1>11. \A i \in 0..rc.endOffs - 1 : BackOf(w)[i] = BackOf(rc)[i]
  <2> TAKE i \in 0..rc.endOffs - 1
  <2> DEFINE j == size - 1 - i
  <2>1. i \in 0..size - 1 /\ i \in 0..rc.storage - 1 /\ j \in size - rc.endOffs..size - 1
        /\ j + rc.storage - size = rc.storage - 1 - i /\ j \in 0..rc.storage - 1
    BY <1>2
  <2> HIDE DEF j
  <2>2. f[j] = rc.buf[j + rc.storage - size]
    BY <1>5, <2>1
  <2>3. BackOf(w)[i] = w.buf[j] /\ BackOf(rc)[i] = rc.buf[rc.storage - 1 - i]
    <3> HIDE DEF f
    <3>1. i \in 0..w.storage - 1 /\ w.storage - 1 - i = j
      BY <1>4, <2>1 DEF j
    <3>2. BackOf(w)[i] = w.buf[w.storage - 1 - i]
      BY <1>9, <3>1, StreamsAre
    <3>3. BackOf(rc)[i] = rc.buf[rc.storage - 1 - i]
      BY <1>1, <2>1, StreamsAre
    <3> QED BY <3>1, <3>2, <3>3
  <2> HIDE DEF f
  <2> QED BY <1>4, <2>1, <2>2, <2>3
<1>12. FrontNumber(w) = FrontNumber(rc)
  <2>1. FrontOf(w) \in Stream /\ FrontOf(rc) \in Stream
    BY <1>1, <1>9, StreamsAre
  <2>2. Digits(FrontOf(w))[rc.offs] = Digits(FrontOf(rc))[rc.offs]
    BY <1>2, <1>10, <2>1, SameNumbers
  <2> QED BY <1>4, <2>2 DEF FrontNumber
<1>13. EndNumber(w) = EndNumber(rc)
  <2>1. BackOf(w) \in Stream /\ BackOf(rc) \in Stream
    BY <1>1, <1>9, StreamsAre
  <2>2. EndDigits(BackOf(w))[rc.endOffs] = EndDigits(BackOf(rc))[rc.endOffs]
    BY <1>2, <1>11, <2>1, SameNumbers
  <2> QED BY <1>4, <2>2 DEF EndNumber
<1> HIDE DEF f
<1>14. Whole(w) = Whole(rc) /\ Pending(w) = Pending(rc) /\ RawNumber(w) = RawNumber(rc) /\ EndBits(w) = EndBits(rc)
  BY <1>4, <1>12, <1>13 DEF Whole, OutNumber, KeptNumber, Pending, RawNumber, EndBits
<1>15. PlaceOf(w) = PlaceOf(rc)
  BY <1>4, <1>14 DEF PlaceOf
<1>16. Sound(w) /\ CarryFits(w, w.val + w.rng)
  BY <1>1, <1>4, <1>9 DEF Sound, CarryFits, EncoderAt
<1>17. EncoderAt(w)
  BY <1>4, <1>14, <1>16 DEF EncoderAt
<1> QED BY <1>4, <1>15, <1>17 DEF w

(***************************************************************************)
(* Patching the reserved bits.                                             *)
(***************************************************************************)

\* All of the interval has zeros for its first n bits.
Held(p, n) == p.low + p.rng <= High(CodeTop, n) * Weight(p.outs)
\* The interval moved up by x, a number of the very first digits.
Shifted(p, x) == [p EXCEPT !.low = p.low + x * Weight(p.outs)]

\* Narrowing stays in the part held for the flags.
LEMMA NarrowsHeld ==
  ASSUME NEW p \in Place, NEW q, NEW o, NEW g, Narrows(p, q, o, g), NEW n \in 0..SymBits, Held(p, n)
  PROVE  Held(q, n)
<1> DEFINE h == High(CodeTop, n)
<1>1. PICK k \in Nat : q = [low |-> (p.low + o) * Weight(k), rng |-> g * Weight(k), outs |-> p.outs + k,
                            raw |-> p.raw, rawBits |-> p.rawBits]
  BY DEF Narrows
<1>2. o \in Nat /\ g \in Nat \ {0} /\ o + g <= p.rng /\ p.low \in Nat /\ p.rng \in Nat /\ p.outs \in Nat
  BY Widths DEF Narrows, Place
<1>3. h \in Nat
  BY ReservedShare
<1>4. PICK w, x, a : w = Weight(k) /\ x = Weight(p.outs) /\ a = p.low + o
  OBVIOUS
<1>5. w \in Nat /\ x \in Nat /\ Weight(p.outs + k) = x * w /\ a \in Nat
  <2>1. w \in Nat /\ x \in Nat /\ a \in Nat
    BY <1>2, <1>4, WeightIs
  <2>2. Weight(p.outs + k) = Weight(p.outs) * Weight(k)
    BY <1>2, WeightSum
  <2> QED BY <1>4, <2>1, <2>2
<1> HIDE DEF h
<1>6. a + g <= h * x
  <2>1. p.low + p.rng <= h * x
    BY <1>4 DEF Held, h
  <2>2. h * x \in Nat
    BY <1>3, <1>5
  <2>3. PICK y : y = h * x
    OBVIOUS
  <2> QED BY <1>2, <1>4, <2>1, <2>2, <2>3
<1>7. a * w + g * w <= h * (x * w)
  <2>1. \A r \in Nat, s \in Nat, t \in Nat : r <= s => r * t <= s * t
    OBVIOUS
  <2>2. h * x \in Nat /\ a + g \in Nat
    BY <1>2, <1>3, <1>5
  <2>3. (a + g) * w <= (h * x) * w
    BY <1>5, <1>6, <2>1, <2>2
  <2>4. (a + g) * w = a * w + g * w /\ (h * x) * w = h * (x * w)
    BY <1>2, <1>3, <1>5
  <2> QED BY <2>3, <2>4
<1>8. q.low = a * w /\ q.rng = g * w /\ q.outs = p.outs + k
  BY <1>1, <1>4
<1> QED BY <1>5, <1>7, <1>8 DEF Held, h

\* It is the same step when all is shifted.
LEMMA NarrowsShifted ==
  ASSUME NEW p \in Place, NEW q, NEW o, NEW g, Narrows(p, q, o, g), NEW x \in Nat
  PROVE  Narrows(Shifted(p, x), Shifted(q, x), o, g)
<1>1. PICK k \in Nat : q = [low |-> (p.low + o) * Weight(k), rng |-> g * Weight(k), outs |-> p.outs + k,
                            raw |-> p.raw, rawBits |-> p.rawBits]
  BY DEF Narrows
<1>2. o \in Nat /\ p.low \in Nat /\ p.outs \in Nat
  BY DEF Narrows, Place
<1>3. PICK w, y : w = Weight(k) /\ y = Weight(p.outs)
  OBVIOUS
<1>4. w \in Nat /\ y \in Nat /\ Weight(p.outs + k) = y * w
  BY <1>2, <1>3, WeightIs, WeightSum
<1>5. (p.low + o) * w + x * (y * w) = (p.low + x * y + o) * w
  <2>1. \A a \in Nat, b \in Nat, c \in Nat, d \in Nat, e \in Nat : (a + b) * e + c * (d * e) = (a + c * d + b) * e
    OBVIOUS
  <2> QED BY <1>2, <1>4, <2>1
<1>6. Shifted(p, x) = [low |-> p.low + x * y, rng |-> p.rng, outs |-> p.outs, raw |-> p.raw, rawBits |-> p.rawBits]
  BY <1>3 DEF Shifted, Place
<1>7. Shifted(q, x) = [low |-> (p.low + x * y + o) * w, rng |-> g * w, outs |-> p.outs + k,
                       raw |-> p.raw, rawBits |-> p.rawBits]
  <2>1. Shifted(q, x) = [low |-> (p.low + o) * w + x * (y * w), rng |-> g * w, outs |-> p.outs + k,
                         raw |-> p.raw, rawBits |-> p.rawBits]
    BY <1>1, <1>3, <1>4 DEF Shifted
  <2> QED BY <1>5, <2>1
<1>8. Shifted(p, x).rng = p.rng /\ Shifted(q, x).rng = q.rng
  BY <1>1, <1>3, <1>6, <1>7
<1> HIDE DEF Shifted
<1> DEFINE P == Shifted(p, x)
           Q == Shifted(q, x)
<1>9. P.low = p.low + x * y /\ P.outs = p.outs /\ P.raw = p.raw /\ P.rawBits = p.rawBits /\ P.rng = p.rng
  BY <1>6
<1>10. Q = [low |-> (P.low + o) * Weight(k), rng |-> g * Weight(k), outs |-> P.outs + k, raw |-> P.raw, rawBits |-> P.rawBits]
  BY <1>3, <1>7, <1>9
<1>11. P.rng = p.rng /\ Q.rng = q.rng
  BY <1>8
<1> HIDE DEF P, Q
<1>12. Narrows(P, Q, o, g)
  BY <1>10, <1>11 DEF Narrows
<1> QED BY <1>12 DEF P, Q

\* So are raw bits.
LEMMA GrowsShifted ==
  ASSUME NEW p \in Place, NEW q, NEW v, NEW n, Grows(p, q, v, n), NEW x \in Nat
  PROVE  /\ Grows(Shifted(p, x), Shifted(q, x), v, n)
         /\ \A k \in Nat : Held(p, k) => Held(q, k)
  BY DEF Grows, Shifted, Place, Held

\* A shifted place is a place.
LEMMA ShiftedIs ==
  ASSUME NEW p, IsPlace(p), NEW x \in Nat
  PROVE  /\ IsPlace(Shifted(p, x)) /\ Shifted(p, x).rng = p.rng
         /\ Shifted(p, x).outs = p.outs /\ Shifted(p, x).rawBits = p.rawBits
<1>1. p.low \in Nat /\ p.outs \in Nat /\ p \in Place
  BY DEF IsPlace, Place
<1>2. p.low + x * Weight(p.outs) \in Nat
  BY <1>1, WeightIs
<1>3. Shifted(p, x) = [low |-> p.low + x * Weight(p.outs), rng |-> p.rng, outs |-> p.outs,
                       raw |-> p.raw, rawBits |-> p.rawBits]
  BY <1>1 DEF Shifted, Place
<1> HIDE DEF Shifted
<1>4. Shifted(p, x) \in Place
  BY <1>1, <1>2, <1>3 DEF Place
<1> QED BY <1>3, <1>4 DEF IsPlace

\* So is a share.
LEMMA SharesShifted ==
  ASSUME NEW p \in Place, NEW q, NEW fl, NEW fh, NEW ft, Shares(p, q, fl, fh, ft), NEW x \in Nat
  PROVE  /\ Shares(Shifted(p, x), Shifted(q, x), fl, fh, ft)
         /\ \A k \in 0..SymBits : Held(p, k) => Held(q, k)
<1>1. Shifted(p, x).rng = p.rng
  BY DEF Shifted, Place
<1>2. \A o, g : Narrows(p, q, o, g) => Narrows(Shifted(p, x), Shifted(q, x), o, g)
  BY NarrowsShifted
<1>3. \A o, g : \A k \in 0..SymBits : Narrows(p, q, o, g) /\ Held(p, k) => Held(q, k)
  BY NarrowsHeld
<1> DEFINE r == p.rng \div ft
<1>4. CASE fl > 0
  <2>1. Narrows(p, q, p.rng - r * (ft - fl), r * (fh - fl))
    BY <1>4 DEF Shares
  <2>2. \A k \in 0..SymBits : Held(p, k) => Held(q, k)
    BY <1>3, <2>1
  <2>3. Narrows(Shifted(p, x), Shifted(q, x), p.rng - r * (ft - fl), r * (fh - fl))
    BY <1>2, <2>1
  <2> HIDE DEF Shifted
  <2> QED BY <1>1, <1>4, <2>2, <2>3 DEF Shares
<1>5. CASE ~(fl > 0)
  <2>1. Narrows(p, q, 0, p.rng - r * (ft - fh))
    BY <1>5 DEF Shares
  <2>2. \A k \in 0..SymBits : Held(p, k) => Held(q, k)
    BY <1>3, <2>1
  <2>3. Narrows(Shifted(p, x), Shifted(q, x), 0, p.rng - r * (ft - fh))
    BY <1>2, <2>1
  <2> HIDE DEF Shifted
  <2> QED BY <1>1, <1>5, <2>2, <2>3 DEF Shares
<1> QED BY <1>4, <1>5

\* A symbol's place is relative: the shift goes with it.
LEMMA PutsShifted ==
  ASSUME NEW p, IsPlace(p), NEW q, NEW s \in Symbol, Puts(s, p, q), NEW x \in Nat
  PROVE  /\ Puts(s, Shifted(p, x), Shifted(q, x))
         /\ \A k \in 0..SymBits : Held(p, k) => Held(q, k)
<1>1. Shifted(p, x).rng = p.rng /\ p \in Place
  BY ShiftedIs DEF IsPlace
<1>2. \A o, g : Narrows(p, q, o, g) => Narrows(Shifted(p, x), Shifted(q, x), o, g)
  BY <1>1, NarrowsShifted
<1>3. \A o, g : \A k \in 0..SymBits : Narrows(p, q, o, g) /\ Held(p, k) => Held(q, k)
  BY <1>1, NarrowsHeld
<1>4. s.op \in {"bit", "icdf", "uint", "raw"}
  BY DEF Symbol
<1> HIDE DEF Shifted
<1>5. CASE s.op = "bit"
  <2> DEFINE h == p.rng \div Pow[s.logp]
  <2>1. CASE s.value = 1
    <3>1. Narrows(p, q, p.rng - h, h)
      BY <1>5, <2>1 DEF Puts
    <3>2. Narrows(Shifted(p, x), Shifted(q, x), p.rng - h, h) /\ \A k \in 0..SymBits : Held(p, k) => Held(q, k)
      BY <1>2, <1>3, <3>1
    <3> QED BY <1>1, <1>5, <2>1, <3>2 DEF Puts
  <2>2. CASE s.value # 1
    <3>1. Narrows(p, q, 0, p.rng - h)
      BY <1>5, <2>2 DEF Puts
    <3>2. Narrows(Shifted(p, x), Shifted(q, x), 0, p.rng - h) /\ \A k \in 0..SymBits : Held(p, k) => Held(q, k)
      BY <1>2, <1>3, <3>1
    <3> QED BY <1>1, <1>5, <2>2, <3>2 DEF Puts
  <2> QED BY <2>1, <2>2
<1>6. CASE s.op = "icdf"
  <2> DEFINE r == p.rng \div Pow[s.ftb]
  <2>1. CASE s.value > 0
    <3>1. Narrows(p, q, p.rng - r * s.icdf[s.value], r * (s.icdf[s.value] - s.icdf[s.value + 1]))
      BY <1>6, <2>1 DEF Puts
    <3>2. /\ Narrows(Shifted(p, x), Shifted(q, x), p.rng - r * s.icdf[s.value], r * (s.icdf[s.value] - s.icdf[s.value + 1]))
          /\ \A k \in 0..SymBits : Held(p, k) => Held(q, k)
      BY <1>2, <1>3, <3>1
    <3> QED BY <1>1, <1>6, <2>1, <3>2 DEF Puts
  <2>2. CASE ~(s.value > 0)
    <3>1. Narrows(p, q, 0, p.rng - r * s.icdf[1])
      BY <1>6, <2>2 DEF Puts
    <3>2. Narrows(Shifted(p, x), Shifted(q, x), 0, p.rng - r * s.icdf[1]) /\ \A k \in 0..SymBits : Held(p, k) => Held(q, k)
      BY <1>2, <1>3, <3>1
    <3> QED BY <1>1, <1>6, <2>2, <3>2 DEF Puts
  <2> QED BY <2>1, <2>2
<1>7. CASE s.op = "uint"
  <2>0. s.op # "bit" /\ s.op # "icdf" /\ s.op # "raw" /\ s.op # "flags"
    BY <1>7
  <2>1. CASE s.ft <= 1
    <3>1. q = p
      BY <1>7, <2>1 DEF Puts
    <3> QED BY <2>0, <2>1, <3>1 DEF Puts
  <2>2. CASE ~(s.ft <= 1)
    <3> DEFINE k == Split(s.ft)
               top == High(s.value, k)
    <3>1. PICK m : /\ IsPlace(m) /\ Shares(p, m, top, top + 1, High(s.ft - 1, k) + 1)
                   /\ Grows(m, q, Low(s.value, k), k)
      BY <1>7, <2>2, Zenon DEF Puts
    <3>2. m \in Place /\ IsPlace(Shifted(m, x))
      BY <3>1, ShiftedIs DEF IsPlace
    <3> HIDE DEF k, top
    <3>3. /\ Shares(Shifted(p, x), Shifted(m, x), top, top + 1, High(s.ft - 1, k) + 1)
          /\ \A i \in 0..SymBits : Held(p, i) => Held(m, i)
      BY <1>1, <3>1, SharesShifted
    <3>4. /\ Grows(Shifted(m, x), Shifted(q, x), Low(s.value, k), k)
          /\ \A i \in Nat : Held(m, i) => Held(q, i)
      BY <3>1, <3>2, GrowsShifted
    <3>5. \A i \in 0..SymBits : i \in Nat
      BY Widths
    <3>6. \A i \in 0..SymBits : Held(p, i) => Held(q, i)
      BY <3>3, <3>4, <3>5
    <3>7. Puts(s, Shifted(p, x), Shifted(q, x))
      BY <2>0, <2>2, <3>2, <3>3, <3>4, Zenon DEF Puts, k, top
    <3> QED BY <3>6, <3>7
  <2> QED BY <2>1, <2>2
<1>8. CASE s.op = "raw"
  <2>1. Grows(p, q, s.value, s.n)
    BY <1>8 DEF Puts
  <2>2. Grows(Shifted(p, x), Shifted(q, x), s.value, s.n) /\ \A i \in Nat : Held(p, i) => Held(q, i)
    BY <1>1, <2>1, GrowsShifted
  <2>3. \A i \in 0..SymBits : i \in Nat
    BY Widths
  <2>4. Puts(s, Shifted(p, x), Shifted(q, x))
    BY <1>8, <2>2 DEF Puts
  <2> QED BY <2>2, <2>3, <2>4
<1> QED BY <1>4, <1>5, <1>6, <1>7, <1>8
=============================================================================
