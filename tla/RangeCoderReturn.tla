--------------------------- MODULE RangeCoderReturn ---------------------------
(***************************************************************************)
(* What was encoded is what is decoded, for any sizes of a byte and of a   *)
(* code, any tables and symbols.  The buffer is two numbers: its front is  *)
(* a point that lies in the interval of every symbol that was sent, and    *)
(* its end the raw bits.  The decoder keeps the distance of the point from *)
(* the upper end of the interval of the symbols that it has read.          *)
(***************************************************************************)
EXTENDS RangeCoderProof

\* A new first digit.
LEMMA FirstDigit ==
  ASSUME NEW f \in Stream, NEW g \in Stream, NEW k \in Nat, NEW d \in Nat,
         g[0] = f[0] + d, \A i \in 1..k : g[i] = f[i]
  PROVE  Digits(g)[k + 1] = Digits(f)[k + 1] + d * Weight(k)
<1> DEFINE T == {i \in Nat : Digits(g)[i + 1] = Digits(f)[i + 1] + d * Weight(i)}
<1>1. f[0] \in Nat /\ g[0] \in Nat /\ Base \in Nat
  BY BaseIs DEF Stream
<1>2. 0 \in T
  <2>1. Digits(g)[0 + 1] = Base * 0 + g[0] /\ Digits(f)[0 + 1] = Base * 0 + f[0]
    BY DigitsAre
  <2>2. Weight(0) = 1
    BY WeightIs
  <2> QED BY <1>1, <2>1, <2>2
<1>3. ASSUME NEW i \in 0..k - 1, i \in T PROVE i + 1 \in T
  <2>1. i \in Nat /\ i + 1 \in Nat /\ i + 1 \in 1..k /\ g[i + 1] = f[i + 1]
    OBVIOUS
  <2>2. PICK a, b, w, z : a = Digits(g)[i + 1] /\ b = Digits(f)[i + 1] /\ w = Weight(i) /\ z = f[i + 1]
    OBVIOUS
  <2>3. a \in Nat /\ b \in Nat /\ w \in Nat /\ z \in Nat
    BY <2>1, <2>2, DigitsAre, WeightIs DEF Stream
  <2>4. Digits(g)[(i + 1) + 1] = Base * a + z /\ Digits(f)[(i + 1) + 1] = Base * b + z
    BY <2>1, <2>2, DigitsAre
  <2>5. Weight(i + 1) = Base * w
    BY <2>1, <2>2, WeightIs
  <2>6. a = b + d * w
    BY <1>3, <2>2
  <2>7. Base * (b + d * w) + z = Base * b + z + d * (Base * w)
    BY <1>1, <2>3
  <2> QED BY <2>1, <2>4, <2>5, <2>6, <2>7
<1>4. 0..k \subseteq T
  <2> HIDE DEF T
  <2> QED BY <1>2, <1>3, InductionTo
<1> QED BY <1>4

\* The zeros, in the bytes.
LEMMA HeldBits ==
  ASSUME NEW rc, EncoderAt(rc), NEW n \in 1..SymBits, Held(PlaceOf(rc), n)
  PROVE  LET h == High(CodeTop, n)
             m == Pow[SymBits - n]
         IN  /\ rc.rem >= 0 => /\ KeptNumber(rc) + 1 <= m * Weight(rc.offs)
                               /\ KeptNumber(rc) + 1 = m * Weight(rc.offs) => rc.val + rc.rng <= CodeTop
             /\ rc.rem < 0 => rc.ext = 0 /\ rc.val + rc.rng <= h
<1> DEFINE h == High(CodeTop, n)
           m == Pow[SymBits - n]
<1>1. rc \in Coder /\ Sound(rc) /\ rc.rng \in Nat \ {0}
  BY Widths DEF EncoderAt, Sound, Clean
<1>2. rc.offs \in Nat /\ rc.ext \in Nat /\ rc.val \in Nat /\ rc.rem \in Nat \cup {-1}
  BY <1>1, CoderTypes
<1>3. h \in Nat \ {0} /\ h = CodeBot * m /\ m \in Nat \ {0} /\ CodeTop \in Nat \ {0} /\ CodeTop = CodeBot * Base /\ CodeBot \in Nat
      /\ CodeTop = h * Pow[n] /\ Pow[n] \in Nat /\ Pow[n] >= 2
  <2>1. n \in 0..SymBits /\ SymBits - n \in 0..CodeBits /\ n \in 0..CodeBits /\ 0 \in 0..CodeBits /\ 0 < n
    BY Widths
  <2>2. h \in Nat \ {0} /\ h = CodeBot * m /\ CodeTop = h * Pow[n]
    BY <2>1, ReservedShare
  <2>3. m \in Nat \ {0} /\ Pow[n] \in Nat
    BY <2>1, PowPositive
  <2>4. Pow[n] >= 2
    <3>1. 2 * Pow[0] <= Pow[n] /\ Pow[0] = 1
      BY <2>1, PowOrder, PowStep
    <3> QED BY <2>3, <3>1
  <2> QED BY <2>2, <2>3, <2>4, Widths DEF Base
<1> HIDE DEF h, m
<1>4. PICK w, o, k : w = Weight(rc.ext) /\ o = Weight(rc.offs) /\ k = KeptNumber(rc)
  OBVIOUS
<1>5. w \in Nat \ {0} /\ o \in Nat \ {0} /\ k \in Nat
  BY <1>1, <1>2, <1>4, WeightIs, OutNumberIs
<1>6. OutNumber(rc) \in Nat /\ OutNumber(rc) + 1 = (k + 1) * w
  BY <1>1, <1>4, OutNumberIs
<1>7. OutNumber(rc) * CodeTop + rc.val + rc.rng <= h * Weight(Pending(rc))
  <2>1. PlaceOf(rc).low = OutNumber(rc) * CodeTop + rc.val /\ PlaceOf(rc).rng = rc.rng /\ PlaceOf(rc).outs = Pending(rc)
    BY DEF PlaceOf, Whole
  <2> QED BY <2>1 DEF Held, h
<1>8. PICK u : u = OutNumber(rc)
  OBVIOUS
<1>9. u \in Nat /\ u + 1 = (k + 1) * w
  BY <1>6, <1>8
<1>10. ASSUME rc.rem >= 0
       PROVE  /\ k + 1 <= m * o
              /\ k + 1 = m * o => rc.val + rc.rng <= CodeTop
  <2>1. Pending(rc) = (rc.offs + rc.ext) + 1 /\ rc.offs + rc.ext \in Nat
    BY <1>2, <1>10 DEF Pending
  <2>2. Weight(Pending(rc)) = Base * (o * w)
    <3>1. Weight((rc.offs + rc.ext) + 1) = Base * Weight(rc.offs + rc.ext)
      BY <2>1, WeightIs
    <3>2. Weight(rc.offs + rc.ext) = o * w
      BY <1>2, <1>4, WeightSum
    <3> QED BY <2>1, <3>1, <3>2
  <2>3. h * Weight(Pending(rc)) = ((m * o) * w) * CodeTop
    <3>1. \A a \in Nat, b \in Nat, c \in Nat, d \in Nat, e \in Nat : (a * b) * (c * (d * e)) = ((b * d) * e) * (a * c)
      OBVIOUS
    <3>2. (CodeBot * m) * (Base * (o * w)) = ((m * o) * w) * (CodeBot * Base)
      BY <1>3, <1>5, BaseIs, <3>1
    <3> QED BY <1>3, <2>2, <3>2
  <2>4. PICK x, y : x = m * o /\ y = x * w
    OBVIOUS
  <2>5. x \in Nat /\ y \in Nat
    BY <1>3, <1>5, <2>4
  <2>6. u * CodeTop + rc.val + rc.rng <= y * CodeTop
    BY <1>7, <1>8, <2>3, <2>4
  <2>7. u < y
    <3> SUFFICES ASSUME y <= u PROVE FALSE
      BY <1>9, <2>5
    <3>1. \A a \in Nat, b \in Nat : a <= b => a * CodeTop <= b * CodeTop
      BY <1>3
    <3>2. y * CodeTop <= u * CodeTop
      BY <1>9, <2>5, <3>1
    <3>3. y * CodeTop \in Nat /\ u * CodeTop \in Nat
      BY <1>3, <1>9, <2>5
    <3> QED BY <1>1, <1>2, <2>6, <3>2, <3>3
  <2>8. (k + 1) * w <= x * w
    BY <1>9, <2>4, <2>5, <2>7
  <2>9. k + 1 <= x
    <3> SUFFICES ASSUME x < k + 1 PROVE FALSE
      BY <1>5, <2>5
    <3>1. \A a \in Nat, b \in Nat : a < b => a * w < b * w
      BY <1>5
    <3>2. x * w < (k + 1) * w
      BY <1>5, <2>5, <3>1
    <3>3. x * w \in Nat /\ (k + 1) * w \in Nat
      BY <1>5, <2>5
    <3> QED BY <2>8, <3>2, <3>3
  <2>10. ASSUME k + 1 = x PROVE rc.val + rc.rng <= CodeTop
    <3>1. u + 1 = y
      BY <1>9, <2>4, <2>10
    <3>2. (u + 1) * CodeTop = u * CodeTop + CodeTop /\ u * CodeTop \in Nat
      BY <1>3, <1>9
    <3> QED BY <1>1, <1>2, <1>3, <2>6, <3>1, <3>2
  <2> QED BY <2>4, <2>9, <2>10
<1>11. ASSUME rc.rem < 0
       PROVE  rc.ext = 0 /\ rc.val + rc.rng <= h
  <2>1. rc.offs = 0 /\ Pending(rc) = rc.ext /\ k = 0
    BY <1>1, <1>2, <1>4, <1>11 DEF Sound, Pending, KeptNumber
  <2>2. u + 1 = w
    BY <1>5, <1>9, <2>1
  <2>3. u * CodeTop + rc.val + rc.rng <= h * w
    BY <1>4, <1>7, <1>8, <2>1
  <2>4. 2 * h <= CodeTop
    <3>1. \A a \in Nat, b \in Nat : b >= 2 => 2 * a <= a * b
      OBVIOUS
    <3> QED BY <1>3, <3>1
  <2>5. u = 0
    <3> SUFFICES ASSUME u >= 1 PROVE FALSE
      BY <1>9
    <3>1. u * (2 * h) <= u * CodeTop
      <4>1. \A a \in Nat, b \in Nat : a <= b => u * a <= u * b
        BY <1>9
      <4>2. 2 * h \in Nat
        BY <1>3
      <4> QED BY <1>3, <2>4, <4>1, <4>2
    <3>2. h * w = u * h + h /\ u * (2 * h) = u * h + u * h /\ u * h \in Nat /\ u * CodeTop \in Nat
      <4>1. h * (u + 1) = u * h + h /\ u * (2 * h) = u * h + u * h /\ u * h \in Nat /\ u * CodeTop \in Nat
        BY <1>3, <1>9
      <4> QED BY <2>2, <4>1
    <3>3. h <= u * h
      <4>1. \A a \in Nat, b \in Nat : a >= 1 => b <= a * b
        OBVIOUS
      <4> QED BY <1>3, <1>9, <4>1
    <3> QED BY <1>1, <1>2, <1>3, <2>3, <3>1, <3>2, <3>3
  <2>6. w = 1
    BY <2>2, <2>5
  <2>7. rc.ext = 0
    <3> SUFFICES ASSUME rc.ext # 0 PROVE FALSE
      OBVIOUS
    <3>1. rc.ext - 1 \in Nat /\ (rc.ext - 1) + 1 = rc.ext
      BY <1>2
    <3>2. PICK z : z = Weight(rc.ext - 1)
      OBVIOUS
    <3>3. z \in Nat \ {0} /\ w = Base * z
      BY <1>4, <3>1, <3>2, WeightIs
    <3>4. \A a \in Nat, b \in Nat \ {0} : a >= 4 => a * b >= 4
      OBVIOUS
    <3> QED BY <2>6, <3>3, <3>4, BaseIs
  <2>8. h * w = h /\ u * CodeTop = 0
    BY <1>3, <2>5, <2>6
  <2> QED BY <1>1, <1>2, <1>3, <2>3, <2>7, <2>8
<1> QED BY <1>4, <1>10, <1>11 DEF h, m

\* Bits patched over zeros.
LEMMA PatchedOver ==
  ASSUME NEW above \in 0..CodeBits, NEW n \in Nat, above + n <= CodeBits,
         NEW x \in Nat, x < Pow[above], NEW v \in 1..Pow[n] - 1
  PROVE  /\ Low(x, above) + v * Pow[above] + High(x, above + n) * Pow[above + n] = x + v * Pow[above]
         /\ x + v * Pow[above] < Pow[above + n]
<1>1. above + n \in 0..CodeBits /\ n \in 0..CodeBits /\ above \in Nat
  BY Widths
<1>2. PICK a, b, c : a = Pow[above] /\ b = Pow[n] /\ c = Pow[above + n]
  OBVIOUS
<1>3. a \in Nat \ {0} /\ b \in Nat \ {0} /\ c = a * b /\ c \in Nat \ {0}
  BY <1>1, <1>2, PowPositive, PowSum
<1>4. v \in Nat /\ v + 1 <= b
  BY <1>2, <1>3
<1>5. v * a + a <= c /\ v * a \in Nat
  <2>1. \A p \in Nat, q \in Nat : p <= q => p * a <= q * a
    BY <1>3
  <2>2. (v + 1) * a = v * a + a /\ (v + 1) \in Nat /\ b * a = a * b
    BY <1>3, <1>4
  <2> QED BY <1>3, <1>4, <2>1, <2>2
<1>6. x < c
  <2>1. x < a
    BY <1>2
  <2> QED BY <1>3, <1>5, <2>1
<1>7. Low(x, above) = x /\ High(x, above + n) = 0
  <2>1. \A p \in Nat, q \in Nat \ {0} : p < q => p % q = p /\ p \div q = 0
    <3>1. \A p \in Nat, q \in Nat \ {0} : p < q => 0 * q + p = p /\ p \in 0..q - 1
      OBVIOUS
    <3>2. ASSUME NEW p \in Nat, NEW q \in Nat \ {0}, p < q PROVE p % q = p /\ p \div q = 0
      <4>1. 0 * q + p = p /\ p \in 0..q - 1
        BY <3>1, <3>2
      <4>2. (0 * q + p) % q = p /\ (0 * q + p) \div q = 0
        BY <4>1, Remainder
      <4> QED BY <4>1, <4>2
    <3> QED BY <3>2
  <2>2. x % a = x /\ x \div c = 0
    BY <1>2, <1>3, <1>6, <2>1
  <2> QED BY <1>2, <2>2 DEF Low, High
<1>8. x < a /\ High(x, above + n) * c = 0
  BY <1>2, <1>3, <1>7
<1>9. Low(x, above) + v * a + High(x, above + n) * c = x + v * a /\ x + v * a < c
  BY <1>3, <1>5, <1>7, <1>8
<1> QED BY <1>2, <1>9

\* Bits changed in the first byte move the whole interval.
LEMMA PatchedWhole ==
  ASSUME NEW rc, Sound(rc), rc.rem >= 0, NEW n \in 0..SymBits, NEW v \in Nat, NEW out,
         KeptNumber(out) = KeptNumber(rc) + v * (Pow[SymBits - n] * Weight(rc.offs)),
         out.ext = rc.ext, out.val = rc.val
  PROVE  Whole(out) = Whole(rc) + (v * High(CodeTop, n)) * Weight(Pending(rc))
<1> DEFINE h == High(CodeTop, n)
           m == Pow[SymBits - n]
<1>1. rc \in Coder
  BY DEF Sound, Clean
<1>2. rc.offs \in Nat /\ rc.ext \in Nat /\ rc.val \in Nat
  BY <1>1, CoderTypes
<1>3. h \in Nat /\ h = CodeBot * m /\ m \in Nat /\ CodeTop \in Nat /\ CodeTop = CodeBot * Base /\ CodeBot \in Nat /\ Base \in Nat
  <2>1. SymBits - n \in 0..CodeBits
    BY Widths
  <2>2. m \in Nat
    BY <2>1, PowPositive
  <2> QED BY <2>2, ReservedShare, Widths DEF Base
<1> HIDE DEF h, m
<1>4. PICK w, o, k : w = Weight(rc.ext) /\ o = Weight(rc.offs) /\ k = KeptNumber(rc)
  OBVIOUS
<1>5. w \in Nat /\ o \in Nat /\ k \in Nat
  BY <1>2, <1>4, WeightIs, OutNumberIs
<1>6. Weight(Pending(rc)) = Base * (o * w)
  <2>1. Pending(rc) = (rc.offs + rc.ext) + 1 /\ rc.offs + rc.ext \in Nat
    BY <1>2 DEF Pending
  <2>2. Weight((rc.offs + rc.ext) + 1) = Base * Weight(rc.offs + rc.ext)
    BY <2>1, WeightIs
  <2>3. Weight(rc.offs + rc.ext) = o * w
    BY <1>2, <1>4, WeightSum
  <2> QED BY <2>1, <2>2, <2>3
<1>7. PICK y : y = m * o
  OBVIOUS
<1>8. y \in Nat
  BY <1>3, <1>5, <1>7
<1>9. (v * h) * Weight(Pending(rc)) = ((v * y) * w) * CodeTop
  <2>1. \A a \in Nat, b \in Nat, c \in Nat, d \in Nat, e \in Nat, f \in Nat :
          (f * (a * b)) * (c * (d * e)) = ((f * (b * d)) * e) * (a * c)
    OBVIOUS
  <2>2. (v * (CodeBot * m)) * (Base * (o * w)) = ((v * (m * o)) * w) * (CodeBot * Base)
    BY <1>3, <1>5, <2>1
  <2> QED BY <1>3, <1>6, <1>7, <2>2
<1>10. PICK z : z = v * y
  OBVIOUS
<1>11. z \in Nat /\ KeptNumber(out) = k + z
  <2>1. z \in Nat
    BY <1>8, <1>10
  <2>2. KeptNumber(out) = k + v * (m * o)
    BY <1>4 DEF m
  <2> QED BY <1>7, <1>10, <2>1, <2>2
<1>12. OutNumber(out) = (k + z + 1) * w - 1 /\ OutNumber(rc) = (k + 1) * w - 1
  BY <1>4, <1>11 DEF OutNumber
<1>13. (k + z + 1) * w = (k + 1) * w + z * w /\ (k + 1) * w \in Nat /\ z * w \in Nat
  BY <1>5, <1>11
<1>14. PICK p, q : p = (k + 1) * w /\ q = z * w
  OBVIOUS
<1>15. OutNumber(out) = (p - 1) + q /\ OutNumber(rc) = p - 1 /\ p - 1 \in Int /\ q \in Nat /\ p \in Nat
  BY <1>12, <1>13, <1>14
<1>16. ((p - 1) + q) * CodeTop = (p - 1) * CodeTop + q * CodeTop
  BY <1>3, <1>15
<1>17. Whole(out) = ((p - 1) + q) * CodeTop + rc.val /\ Whole(rc) = (p - 1) * CodeTop + rc.val
  BY <1>15 DEF Whole
<1>18. (v * h) * Weight(Pending(rc)) = q * CodeTop
  BY <1>9, <1>10, <1>14
<1>19. (p - 1) * CodeTop \in Int /\ q * CodeTop \in Int
  BY <1>3, <1>15
<1> QED BY <1>2, <1>16, <1>17, <1>18, <1>19 DEF h

\* A patched encoder, but for the number it wrote.
Patches(out, rc) ==
  /\ out.storage = rc.storage /\ out.endOffs = rc.endOffs /\ out.nendBits = rc.nendBits
  /\ out.endWindow = rc.endWindow /\ out.nbitsTotal = rc.nbitsTotal /\ out.rng = rc.rng
  /\ out.offs = rc.offs /\ out.error = rc.error /\ out.ext = rc.ext

\* An encoder whose first byte was patched is at the shifted place.
LEMMA PatchedAt ==
  ASSUME NEW rc, EncoderAt(rc), NEW out, Clean(out), Patches(out, rc), NEW x \in Nat,
         out.rem <= SymMax, out.rem < 0 <=> rc.rem < 0, CarryFits(out, out.val + out.rng),
         EndNumber(out) = EndNumber(rc), Whole(out) = Whole(rc) + x * Weight(Pending(rc))
  PROVE  EncoderAt(out) /\ PlaceOf(out) = Shifted(PlaceOf(rc), x) /\ out.error = rc.error
<1>1. rc \in Coder /\ out \in Coder /\ Sound(rc)
  BY DEF EncoderAt, Sound, Clean
<1>2. rc.rem \in Nat \cup {-1} /\ out.rem \in Nat \cup {-1}
  BY <1>1, CoderTypes
<1>3. Pending(out) = Pending(rc)
  BY <1>2 DEF Pending, Patches
<1>4. RawNumber(out) = RawNumber(rc) /\ EndBits(out) = EndBits(rc)
  BY DEF RawNumber, EndBits, Patches
<1>5. PlaceOf(out) = Shifted(PlaceOf(rc), x)
  BY <1>3, <1>4 DEF PlaceOf, Shifted, Patches
<1>6. Sound(out)
  BY <1>1, <1>2 DEF Sound, Patches
<1>7. EncoderAt(out)
  BY <1>3, <1>4, <1>6 DEF EncoderAt, Patches
<1> QED BY <1>5, <1>7 DEF Patches

\* The first byte is in the buffer.
LEMMA PatchBuffer ==
  ASSUME NEW rc, EncoderAt(rc), NEW n \in 1..SymBits, NEW v \in 1..Pow[n] - 1, Held(PlaceOf(rc), n), rc.offs > 0
  PROVE  LET out == PatchInitialBits(rc, v, n)
         IN  EncoderAt(out) /\ PlaceOf(out) = Shifted(PlaceOf(rc), v * High(CodeTop, n)) /\ out.error = rc.error
<1> DEFINE m == SymBits - n
           P(x) == Low(x, m) + v * Pow[m] + High(x, m + n) * Pow[m + n]
           out == PatchInitialBits(rc, v, n)
           b == rc.buf[0]
           f == [rc.buf EXCEPT ![0] = P(b)]
           h == High(CodeTop, n)
<1>1. rc \in Coder /\ Sound(rc) /\ Clean(rc) /\ rc.rem >= 0
  <2>1. rc \in Coder /\ Sound(rc) /\ Clean(rc)
    BY DEF EncoderAt, Sound, Clean
  <2>2. rc.offs \in Nat /\ rc.rem \in Nat \cup {-1}
    BY <2>1, CoderTypes
  <2> QED BY <2>1, <2>2 DEF Sound
<1>2. /\ rc.offs \in Nat /\ rc.endOffs \in Nat /\ rc.storage \in Nat /\ rc.ext \in Nat /\ rc.rem \in Nat
      /\ rc.buf \in Contents /\ rc.offs + rc.endOffs <= rc.storage /\ rc.rem <= SymMax
  BY <1>1, CoderTypes DEF Clean, Sound
<1>3. m \in 0..CodeBits /\ m + n = SymBits /\ m + n <= CodeBits /\ n \in Nat /\ n \in 0..SymBits /\ n \in 0..CodeBits
  BY Widths
<1>4. PICK k \in Nat : rc.offs = k + 1
  <2>1. rc.offs - 1 \in Nat /\ rc.offs = (rc.offs - 1) + 1
    BY <1>2
  <2> QED BY <2>1
<1>5. 0 \in 0..rc.storage - 1 /\ 0 \in DOMAIN rc.buf /\ b \in 0..SymMax /\ FrontOf(rc)[0] = b /\ b \in Nat
  <2>1. 0 \in 0..rc.storage - 1
    BY <1>2
  <2> HIDE DEF b
  <2> QED BY <1>1, <2>1, StreamsAre DEF b
<1>6. Pow[m] \in Nat \ {0} /\ Pow[n] \in Nat \ {0} /\ v \in Nat /\ Pow[m + n] = Base /\ h \in Nat
  <2>1. Pow[m] \in Nat \ {0} /\ Pow[n] \in Nat \ {0} /\ Pow[m + n] = Base
    BY <1>3, PowPositive DEF Base
  <2>2. h \in Nat
    BY <1>3, ReservedShare
  <2> HIDE DEF m
  <2> QED BY <2>1, <2>2
<1>7. FrontNumber(rc) \in Nat /\ KeptNumber(rc) = Base * FrontNumber(rc) + rc.rem
  <2>1. FrontNumber(rc) \in Nat
    BY <1>1, NumbersAre
  <2>2. ~(rc.rem < 0)
    BY <1>2
  <2> QED BY <2>1, <2>2 DEF KeptNumber
<1>8. b < Pow[m]
  <2>1. KeptNumber(rc) + 1 <= Pow[m] * Weight(rc.offs)
    BY <1>1, HeldBits
  <2>2. PICK w, F, a : w = Weight(k) /\ F = FrontNumber(rc) /\ a = Pow[m]
    OBVIOUS
  <2>3. w \in Nat \ {0} /\ Weight(rc.offs) = Base * w /\ F \in Nat /\ a \in Nat /\ Base \in Nat \ {0}
    BY <1>4, <1>6, <1>7, <2>2, WeightIs, BaseIs
  <2>4. b * w <= F
    <3>1. FrontOf(rc) \in ByteStream /\ FrontOf(rc) \in Stream
      BY <1>1, StreamsAre
    <3>2. Digits(FrontOf(rc))[1] * Weight(k) <= Digits(FrontOf(rc))[1 + k]
      BY <3>1, DigitsGrow
    <3>3. Digits(FrontOf(rc))[0 + 1] = Base * 0 + b
      BY <1>5, <3>1, DigitsAre
    <3>4. Base * 0 + b = b /\ 0 + 1 = 1 /\ 1 + k = rc.offs
      BY <1>4, <1>5, BaseIs
    <3> HIDE DEF b
    <3> QED BY <2>2, <3>2, <3>3, <3>4 DEF FrontNumber
  <2>5. F < a * w
    <3>1. Base * F + rc.rem + 1 <= a * (Base * w)
      BY <1>7, <2>1, <2>2, <2>3
    <3>2. a * (Base * w) = Base * (a * w) /\ a * w \in Nat
      BY <2>3
    <3>3. PICK y : y = a * w
      OBVIOUS
    <3>4. y \in Nat /\ Base * F < Base * y /\ Base * y \in Nat /\ Base * F \in Nat
      <4>1. y \in Nat /\ Base * y \in Nat /\ Base * F \in Nat
        BY <2>3, <3>2, <3>3
      <4> QED BY <1>2, <3>1, <3>2, <3>3, <4>1
    <3>5. F < y
      <4> SUFFICES ASSUME y <= F PROVE FALSE
        BY <2>3, <3>4
      <4>1. \A c \in Nat, d \in Nat : c <= d => Base * c <= Base * d
        BY <2>3
      <4>2. Base * y <= Base * F
        BY <2>3, <3>4, <4>1
      <4> QED BY <3>4, <4>2
    <3> QED BY <3>3, <3>5
  <2>6. b < a
    <3> SUFFICES ASSUME a <= b PROVE FALSE
      BY <1>5, <2>3
    <3>1. \A c \in Nat, d \in Nat : c <= d => c * w <= d * w
      BY <2>3
    <3>2. a * w <= b * w
      BY <1>5, <2>3, <3>1
    <3>3. a * w \in Nat /\ b * w \in Nat
      BY <1>5, <2>3
    <3> HIDE DEF b
    <3> QED BY <2>3, <2>4, <2>5, <3>2, <3>3
  <2> QED BY <2>2, <2>6
<1>9. P(b) = b + v * Pow[m] /\ P(b) < Base
  <2> HIDE DEF m, b
  <2>1. /\ P(b) = b + v * Pow[m]
        /\ b + v * Pow[m] < Pow[m + n]
    BY <1>3, <1>5, <1>8, PatchedOver
  <2> QED BY <1>6, <2>1
<1>10. P(b) \in 0..SymMax /\ P(b) \in Nat
  <2>1. b + v * Pow[m] \in Nat
    <3> HIDE DEF m, b
    <3> QED BY <1>5, <1>6
  <2> HIDE DEF P, m, b
  <2> QED BY <1>9, <2>1, BaseIs
<1>11. out = [rc EXCEPT !.buf = f]
  <2> DEFINE a1 == rc.offs > 0
             b1 == rc.offs = 0 /\ rc.rem >= 0
             c1 == rc.offs = 0 /\ rc.rem < 0 /\ rc.rng <= High(CodeTop, n)
             w1 == [rc EXCEPT !.buf[0] = P(@)]
             z1 == P(b)
  <2>1. a1 /\ ~b1 /\ ~c1
    BY <1>2
  <2>2. out = CASE a1 -> w1
                [] b1 -> [rc EXCEPT !.rem = P(@)]
                [] c1 -> [rc EXCEPT !.val = Low(@, CodeShift + SymBits - n) + v * Pow[CodeShift + SymBits - n]
                            + High(@, (CodeShift + SymBits - n) + n) * Pow[(CodeShift + SymBits - n) + n]]
                [] OTHER -> [rc EXCEPT !.error = -1]
    BY Zenon DEF PatchInitialBits
  <2>3. w1 = [rc EXCEPT !.buf = [rc.buf EXCEPT ![0] = z1]]
    BY Zenon
  <2>4. out = w1
    <3> HIDE DEF a1, b1, c1, w1, out
    <3> QED BY <2>1, <2>2
  <2> QED BY <2>3, <2>4
<1> HIDE DEF out, P
<1>12. f \in Contents /\ DOMAIN f = DOMAIN rc.buf
  <2> HIDE DEF b
  <2> QED BY <1>2, <1>10, WriteBuffer
<1>13. \A i \in DOMAIN rc.buf : f[i] = IF i = 0 THEN P(b) ELSE rc.buf[i]
  <2> HIDE DEF b
  <2> QED OBVIOUS
<1> HIDE DEF f
<1>14. out \in Coder
  <2>1. 0 \in Nat
    OBVIOUS
  <2> QED BY <1>1, <1>11, <1>12, <2>1, CoderFields
<1>15. Patches(out, rc) /\ out.buf = f /\ out.rem = rc.rem /\ out.val = rc.val
  BY <1>1, <1>11 DEF Coder, Records, Patches
<1>16. Clean(out)
  <2>1. \A i \in DOMAIN out.buf : out.buf[i] \in 0..SymMax
    <3> TAKE i \in DOMAIN out.buf
    <3>1. i \in DOMAIN rc.buf
      BY <1>12, <1>15
    <3> HIDE DEF b
    <3> QED BY <1>1, <1>10, <1>13, <1>15, <3>1 DEF Clean
  <2> QED BY <1>2, <1>14, <1>15, <2>1 DEF Clean, Patches
<1>17. \A i \in 0..rc.storage - 1 : /\ FrontOf(out)[i] = out.buf[i] /\ BackOf(out)[i] = out.buf[rc.storage - 1 - i]
                                    /\ FrontOf(rc)[i] = rc.buf[i] /\ BackOf(rc)[i] = rc.buf[rc.storage - 1 - i]
                                    /\ i \in DOMAIN rc.buf
  BY <1>1, <1>15, <1>16, StreamsAre DEF Patches
<1>18. FrontNumber(out) = FrontNumber(rc) + (v * Pow[m]) * Weight(k)
  <2>1. FrontOf(out) \in Stream /\ FrontOf(rc) \in Stream
    BY <1>1, <1>16, StreamsAre
  <2>2. FrontOf(out)[0] = FrontOf(rc)[0] + v * Pow[m]
    <3>1. FrontOf(out)[0] = f[0] /\ FrontOf(rc)[0] = b
      BY <1>5, <1>15, <1>17
    <3>2. f[0] = P(b)
      BY <1>5, <1>13
    <3> QED BY <1>9, <3>1, <3>2
  <2>3. ASSUME NEW i \in 1..k PROVE FrontOf(out)[i] = FrontOf(rc)[i]
    <3>1. i \in 0..rc.storage - 1 /\ i # 0
      BY <1>2, <1>4
    <3>2. FrontOf(out)[i] = f[i] /\ FrontOf(rc)[i] = rc.buf[i] /\ i \in DOMAIN rc.buf
      BY <1>15, <1>17, <3>1
    <3> QED BY <1>13, <3>1, <3>2
  <2>4. v * Pow[m] \in Nat
    BY <1>6
  <2>5. Digits(FrontOf(out))[k + 1] = Digits(FrontOf(rc))[k + 1] + (v * Pow[m]) * Weight(k)
    <3> HIDE DEF m
    <3> QED BY <2>1, <2>2, <2>3, <2>4, FirstDigit
  <2> QED BY <1>4, <1>15, <2>5 DEF FrontNumber, Patches
<1>19. EndNumber(out) = EndNumber(rc)
  <2>1. BackOf(out) \in Stream /\ BackOf(rc) \in Stream
    BY <1>1, <1>16, StreamsAre
  <2>2. ASSUME NEW i \in 0..rc.endOffs - 1 PROVE BackOf(out)[i] = BackOf(rc)[i]
    <3>1. i \in 0..rc.storage - 1 /\ rc.storage - 1 - i \in 0..rc.storage - 1 /\ rc.storage - 1 - i # 0
      BY <1>2
    <3>2. BackOf(out)[i] = f[rc.storage - 1 - i] /\ BackOf(rc)[i] = rc.buf[rc.storage - 1 - i]
          /\ rc.storage - 1 - i \in DOMAIN rc.buf
      BY <1>15, <1>17, <3>1
    <3> QED BY <1>13, <3>1, <3>2
  <2>3. EndDigits(BackOf(out))[rc.endOffs] = EndDigits(BackOf(rc))[rc.endOffs]
    BY <1>2, <2>1, <2>2, SameNumbers
  <2> QED BY <1>15, <2>3 DEF EndNumber, Patches
<1>20. KeptNumber(out) = KeptNumber(rc) + v * (Pow[m] * Weight(rc.offs))
  <2>1. PICK w, F, a : w = Weight(k) /\ F = FrontNumber(rc) /\ a = Pow[m]
    OBVIOUS
  <2>2. w \in Nat /\ Weight(rc.offs) = Base * w /\ F \in Nat /\ a \in Nat /\ Base \in Nat
    BY <1>4, <1>6, <1>7, <2>1, WeightIs, BaseIs
  <2>3. KeptNumber(out) = Base * (F + (v * a) * w) + rc.rem
    <3>1. ~(out.rem < 0)
      BY <1>2, <1>15
    <3> HIDE DEF m
    <3> QED BY <1>15, <1>18, <2>1, <3>1 DEF KeptNumber
  <2>4. Base * (F + (v * a) * w) = Base * F + v * (a * (Base * w))
    <3>1. \A c \in Nat, d \in Nat, e \in Nat, g \in Nat, l \in Nat : c * (d + (e * g) * l) = c * d + e * (g * (c * l))
      OBVIOUS
    <3> QED BY <1>6, <2>2, <3>1
  <2>5. Base * F \in Nat /\ v * (a * (Base * w)) \in Nat
    <3>1. Base * w \in Nat
      BY <2>2
    <3>2. a * (Base * w) \in Nat
      BY <2>2, <3>1
    <3> QED BY <1>6, <2>2, <3>2
  <2> HIDE DEF m
  <2> QED BY <1>2, <1>7, <2>1, <2>2, <2>3, <2>4, <2>5
<1>21. Whole(out) = Whole(rc) + (v * h) * Weight(Pending(rc))
  <2>1. out.ext = rc.ext
    BY <1>15 DEF Patches
  <2> HIDE DEF h
  <2> QED BY <1>1, <1>3, <1>6, <1>15, <1>20, <2>1, PatchedWhole DEF h, m
<1>22. v * h \in Nat
  BY <1>6
<1>23. CarryFits(out, out.val + out.rng)
  BY <1>15 DEF Patches, CarryFits, EncoderAt
<1> HIDE DEF h
<1>24. out.rem <= SymMax /\ (out.rem < 0 <=> rc.rem < 0)
  BY <1>2, <1>15
<1>25. EncoderAt(out) /\ PlaceOf(out) = Shifted(PlaceOf(rc), v * h) /\ out.error = rc.error
  BY <1>15, <1>16, <1>19, <1>21, <1>22, <1>23, <1>24, PatchedAt
<1> QED BY <1>25 DEF out, h

\* The first byte still waits for a carry.
LEMMA PatchRem ==
  ASSUME NEW rc, EncoderAt(rc), NEW n \in 1..SymBits, NEW v \in 1..Pow[n] - 1, Held(PlaceOf(rc), n),
         rc.offs = 0, rc.rem >= 0
  PROVE  LET out == PatchInitialBits(rc, v, n)
         IN  EncoderAt(out) /\ PlaceOf(out) = Shifted(PlaceOf(rc), v * High(CodeTop, n)) /\ out.error = rc.error
<1> DEFINE m == SymBits - n
           P(x) == Low(x, m) + v * Pow[m] + High(x, m + n) * Pow[m + n]
           out == PatchInitialBits(rc, v, n)
           r == rc.rem
           h == High(CodeTop, n)
<1>1. rc \in Coder /\ Sound(rc) /\ Clean(rc)
  BY DEF EncoderAt, Sound, Clean
<1>2. /\ rc.offs \in Nat /\ rc.ext \in Nat /\ r \in Nat /\ r <= SymMax /\ rc.val \in Nat /\ rc.rng \in Nat
  BY <1>1, CoderTypes DEF Clean, Sound
<1>3. m \in 0..CodeBits /\ m + n = SymBits /\ m + n <= CodeBits /\ n \in Nat /\ n \in 0..SymBits /\ n \in 0..CodeBits
  BY Widths
<1>4. Pow[m] \in Nat \ {0} /\ Pow[n] \in Nat \ {0} /\ v \in Nat /\ Pow[m + n] = Base /\ h \in Nat
      /\ Base = Pow[m] * Pow[n]
  <2>1. Pow[m] \in Nat \ {0} /\ Pow[n] \in Nat \ {0} /\ Pow[m + n] = Base
    BY <1>3, PowPositive DEF Base
  <2>2. h \in Nat
    BY <1>3, ReservedShare
  <2>3. Pow[m + n] = Pow[m] * Pow[n]
    BY <1>3, PowSum
  <2> HIDE DEF m
  <2> QED BY <2>1, <2>2, <2>3
<1>5. KeptNumber(rc) = r
  <2>1. FrontNumber(rc) = 0
    BY <1>1, StreamsAre, DigitsAre DEF FrontNumber
  <2>2. ~(rc.rem < 0)
    BY <1>2
  <2> QED BY <1>2, <2>1, <2>2, BaseIs DEF KeptNumber
<1>6. r + 1 <= Pow[m] /\ (r + 1 = Pow[m] => rc.val + rc.rng <= CodeTop)
  <2>1. Weight(rc.offs) = 1
    BY WeightIs
  <2>2. Pow[m] * 1 = Pow[m]
    BY <1>4
  <2> HIDE DEF m
  <2>3. /\ KeptNumber(rc) + 1 <= Pow[m] * Weight(rc.offs)
        /\ KeptNumber(rc) + 1 = Pow[m] * Weight(rc.offs) => rc.val + rc.rng <= CodeTop
    BY <1>2, HeldBits DEF m
  <2> QED BY <1>5, <2>1, <2>2, <2>3
<1>7. P(r) = r + v * Pow[m] /\ P(r) < Base
  <2> HIDE DEF m, r
  <2>0. r < Pow[m]
    BY <1>2, <1>4, <1>6
  <2>1. /\ P(r) = r + v * Pow[m]
        /\ r + v * Pow[m] < Pow[m + n]
    BY <1>2, <1>3, <2>0, PatchedOver
  <2> QED BY <1>4, <2>1
<1>8. P(r) \in 0..SymMax /\ P(r) \in Nat
  <2>1. r + v * Pow[m] \in Nat
    <3> HIDE DEF m, r
    <3> QED BY <1>2, <1>4
  <2> HIDE DEF P, m, r
  <2> QED BY <1>7, <2>1, BaseIs
<1>9. out = [rc EXCEPT !.rem = P(r)]
  <2> DEFINE a1 == rc.offs > 0
             b1 == rc.offs = 0 /\ rc.rem >= 0
             c1 == rc.offs = 0 /\ rc.rem < 0 /\ rc.rng <= High(CodeTop, n)
             w1 == [rc EXCEPT !.rem = P(@)]
             z1 == P(r)
  <2>1. ~a1 /\ b1 /\ ~c1
    BY <1>2
  <2>2. out = CASE a1 -> [rc EXCEPT !.buf[0] = P(@)]
                [] b1 -> w1
                [] c1 -> [rc EXCEPT !.val = Low(@, CodeShift + SymBits - n) + v * Pow[CodeShift + SymBits - n]
                            + High(@, (CodeShift + SymBits - n) + n) * Pow[(CodeShift + SymBits - n) + n]]
                [] OTHER -> [rc EXCEPT !.error = -1]
    BY Zenon DEF PatchInitialBits
  <2>3. w1 = [rc EXCEPT !.rem = z1]
    BY Zenon
  <2>4. out = w1
    <3> HIDE DEF a1, b1, c1, w1, out
    <3> QED BY <2>1, <2>2
  <2> QED BY <2>3, <2>4
<1> HIDE DEF out, P
<1>10. out \in Coder
  BY <1>1, <1>8, <1>9, CoderFields
<1>11. Patches(out, rc) /\ out.buf = rc.buf /\ out.rem = P(r) /\ out.val = rc.val
  BY <1>1, <1>9 DEF Coder, Records, Patches
<1>12. Clean(out)
  BY <1>1, <1>10, <1>11 DEF Clean, Patches
<1>13. FrontNumber(out) = FrontNumber(rc) /\ EndNumber(out) = EndNumber(rc)
  BY <1>11, SameBytes DEF Patches
<1>14. KeptNumber(out) = KeptNumber(rc) + v * (Pow[m] * Weight(rc.offs))
  <2>1. FrontNumber(out) = 0
    BY <1>1, <1>13, StreamsAre, DigitsAre DEF FrontNumber
  <2>2. ~(out.rem < 0)
    BY <1>8, <1>11
  <2>3. KeptNumber(out) = P(r)
    BY <1>8, <1>11, <2>1, <2>2, BaseIs DEF KeptNumber
  <2>4. Weight(rc.offs) = 1 /\ Pow[m] * 1 = Pow[m]
    BY <1>4, WeightIs
  <2> HIDE DEF m
  <2> QED BY <1>5, <1>7, <2>3, <2>4
<1>15. Whole(out) = Whole(rc) + (v * h) * Weight(Pending(rc))
  <2>1. out.ext = rc.ext
    BY <1>11 DEF Patches
  <2> HIDE DEF h
  <2> QED BY <1>1, <1>2, <1>3, <1>4, <1>11, <1>14, <2>1, PatchedWhole DEF h, m
<1>16. v * h \in Nat
  BY <1>4
<1>17. CarryFits(out, out.val + out.rng)
  <2>1. out.val + out.rng = rc.val + rc.rng /\ rc.val + rc.rng < Word
    BY <1>11 DEF Patches, EncoderAt, CarryFits
  <2>2. ASSUME out.rem = SymMax PROVE rc.val + rc.rng <= CodeTop
    <3>1. r + v * Pow[m] = Base - 1
      BY <1>7, <1>11, <2>2, BaseIs
    <3>2. PICK a, b : a = Pow[m] /\ b = Pow[n]
      OBVIOUS
    <3>3. a \in Nat \ {0} /\ b \in Nat \ {0} /\ Base = a * b /\ v + 1 <= b
      <4> HIDE DEF m
      <4> QED BY <1>4, <3>2
    <3>4. v * a + a <= a * b
      <4>1. \A p \in Nat, q \in Nat : p <= q => p * a <= q * a
        BY <3>3
      <4>2. (v + 1) * a = v * a + a /\ (v + 1) \in Nat /\ b * a = a * b
        BY <1>4, <3>3
      <4> QED BY <3>3, <4>1, <4>2
    <3>5. v * a \in Nat /\ a * b \in Nat
      BY <1>4, <3>3
    <3>6. r + 1 = a
      <4>1. PICK y, z : y = v * a /\ z = a * b
        OBVIOUS
      <4>2. y \in Nat /\ z \in Nat /\ y + a <= z /\ Base = z
        BY <3>3, <3>4, <3>5, <4>1
      <4>3. r + y = z - 1 /\ r + 1 <= a
        <5> HIDE DEF m, r
        <5>1. r + v * a = Base - 1
          BY <3>1, <3>2
        <5> QED BY <1>6, <3>2, <4>1, <4>2, <5>1
      <4> HIDE DEF r
      <4> QED BY <1>2, <3>3, <4>2, <4>3
    <3> QED BY <1>6, <3>2, <3>6
  <2>3. ~(out.rem < 0)
    BY <1>8, <1>11
  <2> QED BY <2>1, <2>2, <2>3 DEF CarryFits
<1>18. out.rem <= SymMax /\ (out.rem < 0 <=> rc.rem < 0)
  BY <1>2, <1>8, <1>11, BaseIs
<1> HIDE DEF h
<1>19. EncoderAt(out) /\ PlaceOf(out) = Shifted(PlaceOf(rc), v * h) /\ out.error = rc.error
  BY <1>11, <1>12, <1>13, <1>15, <1>16, <1>17, <1>18, PatchedAt
<1> QED BY <1>19 DEF out, h

\* The first byte is still in val.
LEMMA PatchVal ==
  ASSUME NEW rc, EncoderAt(rc), NEW n \in 1..SymBits, NEW v \in 1..Pow[n] - 1, Held(PlaceOf(rc), n),
         rc.offs = 0, rc.rem < 0
  PROVE  LET out == PatchInitialBits(rc, v, n)
         IN  EncoderAt(out) /\ PlaceOf(out) = Shifted(PlaceOf(rc), v * High(CodeTop, n)) /\ out.error = rc.error
<1> DEFINE k == CodeShift + SymBits - n
           P(x) == Low(x, k) + v * Pow[k] + High(x, k + n) * Pow[k + n]
           out == PatchInitialBits(rc, v, n)
           h == High(CodeTop, n)
           x == rc.val
<1>1. rc \in Coder /\ Sound(rc) /\ Clean(rc)
  BY DEF EncoderAt, Sound, Clean
<1>2. rc.offs \in Nat /\ rc.ext \in Nat /\ x \in Nat /\ rc.rng \in Nat \ {0}
  <2>1. rc.rng > CodeBot
    BY Widths DEF EncoderAt
  <2> QED BY <1>1, <2>1, CoderTypes, Widths DEF Clean, Sound
<1>3. k \in 0..CodeBits /\ k + n = CodeBits - 1 /\ k = CodeBits - 1 - n /\ k + n <= CodeBits /\ n \in Nat /\ n \in 0..SymBits /\ n \in 0..CodeBits
  BY Widths
<1>4. v \in Nat /\ h \in Nat /\ h = Pow[k] /\ CodeTop = Pow[k + n] /\ CodeTop \in Nat /\ CodeTop = h * Pow[n] /\ Pow[n] \in Nat
  <2>1. h \in Nat /\ h = Pow[CodeBits - 1 - n] /\ CodeTop = h * Pow[n]
    BY <1>3, ReservedShare
  <2>2. Pow[n] \in Nat
    BY <1>3, PowPositive
  <2> HIDE DEF k, h
  <2> QED BY <1>3, <2>1, <2>2, Widths DEF CodeTop
<1>5. rc.ext = 0 /\ x + rc.rng <= h
  BY HeldBits
<1>6. x < h
  <2>1. PICK y, z : y = x /\ z = rc.rng
    OBVIOUS
  <2> HIDE DEF h, x
  <2>2. y \in Nat /\ z \in Nat /\ z >= 1 /\ y + z <= h
    BY <1>2, <1>5, <2>1
  <2>3. y < h
    BY <1>4, <2>2
  <2> QED BY <2>1, <2>3
<1>7. P(x) = x + v * h
  <2> HIDE DEF k, x
  <2>0. x < Pow[k]
    BY <1>4, <1>6
  <2>1. P(x) = x + v * Pow[k]
    BY <1>2, <1>3, <2>0, PatchedOver
  <2> HIDE DEF h
  <2> QED BY <1>4, <2>1
<1>8. v * h + h <= CodeTop /\ v * h \in Nat
  <2>1. v + 1 <= Pow[n]
    BY <1>4
  <2> HIDE DEF h
  <2>2. \A p \in Nat, q \in Nat : p <= q => p * h <= q * h
    BY <1>4
  <2>3. (v + 1) * h = v * h + h /\ v + 1 \in Nat /\ Pow[n] * h = h * Pow[n] /\ v * h \in Nat
    BY <1>4
  <2> QED BY <1>4, <2>1, <2>2, <2>3
<1>9. P(x) \in Nat
  <2> HIDE DEF P, h, x
  <2> QED BY <1>2, <1>7, <1>8
<1>10. out = [rc EXCEPT !.val = P(x)]
  <2> DEFINE a1 == rc.offs > 0
             b1 == rc.offs = 0 /\ rc.rem >= 0
             c1 == rc.offs = 0 /\ rc.rem < 0 /\ rc.rng <= High(CodeTop, n)
             w1 == [rc EXCEPT !.val = P(@)]
             z1 == P(x)
  <2>1. ~a1 /\ ~b1 /\ c1
    <3>1. rc.rng <= h
      <4> HIDE DEF h
      <4> QED BY <1>2, <1>4, <1>5
    <3>2. rc.rem \in Nat \cup {-1}
      BY <1>1, CoderTypes
    <3> QED BY <3>1, <3>2
  <2>2. out = CASE a1 -> [rc EXCEPT !.buf[0] = Low(@, SymBits - n) + v * Pow[SymBits - n]
                            + High(@, (SymBits - n) + n) * Pow[(SymBits - n) + n]]
                [] b1 -> [rc EXCEPT !.rem = Low(@, SymBits - n) + v * Pow[SymBits - n]
                            + High(@, (SymBits - n) + n) * Pow[(SymBits - n) + n]]
                [] c1 -> w1
                [] OTHER -> [rc EXCEPT !.error = -1]
    BY Zenon DEF PatchInitialBits
  <2>3. w1 = [rc EXCEPT !.val = z1]
    BY Zenon
  <2>4. out = w1
    <3> HIDE DEF a1, b1, c1, w1, out
    <3> QED BY <2>1, <2>2
  <2> QED BY <2>3, <2>4
<1> HIDE DEF out, P
<1>11. out \in Coder
  BY <1>1, <1>9, <1>10, CoderFields
<1>12. Patches(out, rc) /\ out.buf = rc.buf /\ out.rem = rc.rem /\ out.val = P(x)
  BY <1>1, <1>10 DEF Coder, Records, Patches
<1>13. Clean(out)
  BY <1>1, <1>11, <1>12 DEF Clean, Patches
<1>14. FrontNumber(out) = FrontNumber(rc) /\ EndNumber(out) = EndNumber(rc)
  BY <1>12, SameBytes DEF Patches
<1>15. OutNumber(out) = 0 /\ OutNumber(rc) = 0 /\ Pending(rc) = 0 /\ Weight(Pending(rc)) = 1
  <2>1. KeptNumber(out) = 0 /\ KeptNumber(rc) = 0
    BY <1>12 DEF KeptNumber
  <2>2. out.ext = 0 /\ Weight(0) = 1
    BY <1>5, <1>12, WeightIs DEF Patches
  <2>3. Pending(rc) = 0
    BY <1>1, <1>5, CoderTypes DEF Pending
  <2> QED BY <1>5, <2>1, <2>2, <2>3 DEF OutNumber
<1> HIDE DEF h
<1>16. Whole(out) = Whole(rc) + (v * h) * Weight(Pending(rc))
  BY <1>2, <1>4, <1>7, <1>8, <1>12, <1>15 DEF Whole
<1>17. CarryFits(out, out.val + out.rng)
  <2>1. out.val = x + v * h /\ out.rng = rc.rng
    BY <1>7, <1>12 DEF Patches
  <2>2. out.val + out.rng <= CodeTop
    BY <1>2, <1>4, <1>5, <1>8, <2>1
  <2>3. out.val + out.rng \in Nat
    BY <1>2, <1>8, <2>1
  <2> QED BY <1>4, <2>2, <2>3, Widths DEF CarryFits
<1>18. out.rem <= SymMax /\ (out.rem < 0 <=> rc.rem < 0)
  BY <1>1, <1>12 DEF Sound
<1>19. EncoderAt(out) /\ PlaceOf(out) = Shifted(PlaceOf(rc), v * h) /\ out.error = rc.error
  BY <1>8, <1>12, <1>13, <1>14, <1>16, <1>17, <1>18, PatchedAt
<1> QED BY <1>19 DEF out, h

\* The patched bits move the interval, wherever they are by then.
LEMMA PatchMoves ==
  ASSUME NEW rc, EncoderAt(rc), NEW n \in 1..SymBits, NEW v \in 1..Pow[n] - 1, Held(PlaceOf(rc), n)
  PROVE  LET out == PatchInitialBits(rc, v, n)
         IN  EncoderAt(out) /\ PlaceOf(out) = Shifted(PlaceOf(rc), v * High(CodeTop, n)) /\ out.error = rc.error
<1>1. rc.offs \in Nat /\ rc.rem \in Nat \cup {-1}
  BY CoderTypes DEF EncoderAt, Sound, Clean
<1>2. rc.offs > 0 \/ (rc.offs = 0 /\ rc.rem >= 0) \/ (rc.offs = 0 /\ rc.rem < 0)
  BY <1>1
<1> QED BY <1>2, PatchBuffer, PatchRem, PatchVal

-----------------------------------------------------------------------------
(* done(): the last bytes of the interval and of the raw bits.              *)

\* The next multiple of u.
LEMMA RoundUp ==
  ASSUME NEW x \in Nat, NEW u \in Nat \ {0}
  PROVE  LET z == ((x + u - 1) \div u) * u
         IN  x <= z /\ z < x + u /\ z \in Nat /\ \E e \in Nat : z = e * u
<1> DEFINE a == x + u - 1
           q == a \div u
           r == a % u
<1>1. a \in Nat
  OBVIOUS
<1>2. q \in Nat /\ r \in 0..u - 1 /\ a = u * q + r
  <2> HIDE DEF a
  <2> QED BY <1>1, Division
<1> HIDE DEF q, r
<1>3. PICK z : z = q * u
  OBVIOUS
<1>4. z \in Nat /\ u * q = z
  BY <1>2, <1>3
<1>5. x <= z /\ z < x + u
  BY <1>2, <1>4
<1> QED BY <1>2, <1>3, <1>4, <1>5 DEF q

\* The shortest code lies in the interval, with all that may follow it.
LEMMA FinalCode ==
  ASSUME NEW rc, EncoderAt(rc)
  PROVE  LET f == FinalBits(rc)
             u == Power[CodeBits - 1 - f.l]
         IN  /\ f.l \in 0..CodeBits - 1 /\ f.l <= CodeBits - ILog(rc.rng) + 1 /\ ILog(rc.rng) \in 1..CodeBits
             /\ u \in Nat \ {0} /\ f.end \in Nat /\ rc.val <= f.end /\ f.end + u <= rc.val + rc.rng
             /\ \E e \in Nat : f.end = e * u
<1> DEFINE b == ILog(rc.rng)
           l == CodeBits - b
           Unit(k) == Pow[CodeBits - 1 - k]
           Up(k) == ((rc.val + Unit(k) - 1) \div Unit(k)) * Unit(k)
           Last(k) == Up(k) + Unit(k) - 1
           f == FinalBits(rc)
<1>1. /\ rc.rng \in 1..Word - 1 /\ rc.val \in Nat /\ rc.rng > CodeBot /\ CodeBits \in Nat /\ rc.rng \in Nat
      /\ SymBits \in Nat /\ CodeBits >= 2 * SymBits + 2
  BY AtTypes, Widths, WidthsFit
<1>2. b \in 1..CodeBits /\ rc.rng < Pow[b] /\ Pow[b - 1] <= rc.rng
  BY <1>1, ILogBounds
<1> HIDE DEF b
<1>3. b >= CodeBits - SymBits
  <2> SUFFICES ASSUME b <= CodeBits - 1 - SymBits PROVE FALSE
    BY <1>1, <1>2
  <2>1. b \in 0..CodeBits /\ CodeBits - 1 - SymBits \in 0..CodeBits
    BY <1>1, <1>2
  <2>2. Pow[b] <= CodeBot /\ Pow[b] \in Nat
    BY <2>1, PowOrder, PowPositive DEF CodeBot
  <2> QED BY <1>1, <1>2, <2>2, Widths
<1>4. l \in 0..SymBits /\ l + 1 \in 0..CodeBits - 1 /\ l \in 0..CodeBits - 1
  BY <1>1, <1>2, <1>3
<1>5. f = IF Last(l) >= rc.val + rc.rng THEN [end |-> Up(l + 1), l |-> l + 1]
                      ELSE [end |-> Up(l), l |-> l]
  BY Zenon DEF FinalBits, b
<1>6. ASSUME NEW k \in 0..CodeBits - 1
      PROVE  /\ Unit(k) = Power[CodeBits - 1 - k] /\ Unit(k) \in Nat \ {0} /\ Up(k) \in Nat
             /\ rc.val <= Up(k) /\ Up(k) < rc.val + Unit(k) /\ \E e \in Nat : Up(k) = e * Unit(k)
  <2>1. CodeBits - 1 - k \in 0..CodeBits
    BY <1>1
  <2>2. Unit(k) = Power[CodeBits - 1 - k] /\ Unit(k) \in Nat \ {0}
    BY <2>1, PowPositive, PowerPow
  <2> HIDE DEF Unit
  <2> QED BY <1>1, <2>2, RoundUp
<1>7. Unit(l) = 2 * Unit(l + 1) /\ Unit(l) <= rc.rng
  <2>1. CodeBits - 1 - l \in 1..CodeBits /\ (CodeBits - 1 - l) - 1 = CodeBits - 1 - (l + 1) /\ CodeBits - 1 - l = b - 1
    BY <1>1, <1>2, <1>4
  <2> HIDE DEF l
  <2>2. Pow[CodeBits - 1 - l] = 2 * Pow[(CodeBits - 1 - l) - 1]
    BY <2>1, PowStep
  <2> QED BY <1>2, <2>1, <2>2
<1> HIDE DEF f, Up, Unit
<1>8. CASE Last(l) >= rc.val + rc.rng
  <2>1. f.end = Up(l + 1) /\ f.l = l + 1
    BY <1>5, <1>8
  <2> DEFINE k == l + 1
  <2>2. k \in 0..CodeBits - 1
    BY <1>4
  <2>3. k <= CodeBits - b + 1
    BY <1>1, <1>2
  <2> HIDE DEF l
  <2>4. /\ Unit(k) = Power[CodeBits - 1 - k] /\ Unit(k) \in Nat \ {0} /\ Up(k) \in Nat
        /\ rc.val <= Up(k) /\ Up(k) < rc.val + Unit(k) /\ \E e \in Nat : Up(k) = e * Unit(k)
    BY <1>6, <2>2
  <2>5. Up(k) + Unit(k) <= rc.val + rc.rng
    <3>1. 2 * Unit(k) <= rc.rng
      BY <1>7
    <3> HIDE DEF k
    <3> QED BY <1>1, <2>4, <3>1
  <2> QED BY <1>2, <2>1, <2>2, <2>3, <2>4, <2>5 DEF f, b
<1>9. CASE ~(Last(l) >= rc.val + rc.rng)
  <2>1. f.end = Up(l) /\ f.l = l
    BY <1>5, <1>9
  <2>2. l \in 0..CodeBits - 1
    BY <1>4
  <2>3. l <= CodeBits - b + 1
    BY <1>1, <1>2
  <2> HIDE DEF l
  <2>4. /\ Unit(l) = Power[CodeBits - 1 - l] /\ Unit(l) \in Nat \ {0} /\ Up(l) \in Nat
        /\ rc.val <= Up(l) /\ Up(l) < rc.val + Unit(l) /\ \E e \in Nat : Up(l) = e * Unit(l)
    BY <1>6, <2>2
  <2>5. Up(l) + Unit(l) <= rc.val + rc.rng
    BY <1>1, <1>9, <2>4
  <2> QED BY <1>2, <2>1, <2>2, <2>3, <2>4, <2>5 DEF f, b
<1> QED BY <1>8, <1>9

\* The bytes of done(), as a run.
LEMMA ShiftRun ==
  ASSUME NEW rc \in Coder, NEW n \in Nat
  PROVE  \E run \in [0..n -> Coder] :
           /\ run[0] = rc /\ run[n] = Repeat(ShiftOut, rc, n)
           /\ \A i \in 0..n - 1 : run[i + 1] = ShiftOut(run[i])
<1> DEFINE F == [r \in Coder |-> ShiftOut(r)]
           after == CHOOSE f : f = [i \in 0..n |-> IF i = 0 THEN rc ELSE ShiftOut(f[i - 1])]
<1>0. n \in Nat
  OBVIOUS
<1>1. PICK run \in [0..n -> Coder] : IsRun(run, rc, F, n)
  <2>1. F \in [Coder -> Coder]
    BY ShiftOutIs
  <2> HIDE DEF F
  <2> QED BY <1>0, <2>1, Runs
<1>2. \A i \in 1..n : run[i] = ShiftOut(run[i - 1])
  <2> TAKE i \in 1..n
  <2>1. run[i - 1] \in Coder /\ run[i] = F[run[i - 1]]
    <3> HIDE DEF F
    <3> QED BY <1>0, <1>1 DEF IsRun
  <2> QED BY <2>1
<1>3. run[0] = rc
  BY <1>1 DEF IsRun
<1>4. run = [i \in 0..n |-> IF i = 0 THEN rc ELSE ShiftOut(run[i - 1])]
  <2>1. \A i \in 0..n : run[i] = IF i = 0 THEN rc ELSE ShiftOut(run[i - 1])
    <3> HIDE DEF F
    <3> QED BY <1>0, <1>2, <1>3
  <2> QED BY <2>1
<1>5. after = [i \in 0..n |-> IF i = 0 THEN rc ELSE ShiftOut(after[i - 1])]
  BY <1>4, Zenon
<1>6. Repeat(ShiftOut, rc, n) = after[n]
  BY Zenon DEF Repeat, after
<1> HIDE DEF after, F
<1>7. after \in [0..n -> Coder] /\ after[0] = rc /\ \A i \in 0..n - 1 : after[i + 1] = ShiftOut(after[i])
  <2>1. after[0] = rc /\ \A i \in 0..n - 1 : after[i + 1] = ShiftOut(after[i])
    BY <1>0, <1>5
  <2> DEFINE T == {i \in Nat : after[i] \in Coder}
  <2>2. 0 \in T
    BY <2>1
  <2>3. \A i \in 0..n - 1 : i \in T => i + 1 \in T
    BY <1>0, <2>1, ShiftOutIs
  <2>4. 0..n \subseteq T
    <3> HIDE DEF T
    <3> QED BY <1>0, <2>2, <2>3, InductionTo
  <2>5. \A i \in 0..n : after[i] \in Coder
    BY <2>4
  <2> QED BY <1>5, <2>1, <2>5
<1>8. after \in [0..n -> Coder] /\ after[0] = rc /\ after[n] = Repeat(ShiftOut, rc, n)
  BY <1>6, <1>7
<1>9. \A i \in 0..n - 1 : after[i + 1] = ShiftOut(after[i])
  BY <1>7
<1>10. \E f \in [0..n -> Coder] : f[0] = rc /\ f[n] = Repeat(ShiftOut, rc, n) /\ \A i \in 0..n - 1 : f[i + 1] = ShiftOut(f[i])
  BY <1>8, <1>9, Zenon
<1> QED BY <1>10

\* k bytes of val go out.
LEMMA ShiftsMove ==
  ASSUME NEW rc, Sound(rc), NEW u \in Nat \ {0}, NEW k \in Nat, CarryFits(rc, rc.val + u),
         \A i \in 1..k - 1 : u * Weight(i) <= CodeTop, Repeat(ShiftOut, rc, k).error = 0
  PROVE  LET out == Repeat(ShiftOut, rc, k)
         IN  /\ rc.error = 0 /\ Sound(out) /\ Whole(out) = Whole(rc) * Weight(k) /\ (k > 0 => out.val < CodeTop)
             /\ EndNumber(out) = EndNumber(rc) /\ Pending(out) = Pending(rc) + k
             /\ SameEnd(out, rc) /\ SameCode(out, rc)
<1> DEFINE At(r, i) == /\ rc.error = 0 /\ Sound(r) /\ Whole(r) = Whole(rc) * Weight(i) /\ (i > 0 => r.val < CodeTop)
                       /\ EndNumber(r) = EndNumber(rc) /\ Pending(r) = Pending(rc) + i
                       /\ SameEnd(r, rc) /\ SameCode(r, rc)
           Fits2(r, i) == i < k => CarryFits(r, r.val + u * Weight(i))
<1>0. rc \in Coder /\ CodeTop \in Nat /\ Base \in Nat /\ Whole(rc) \in Nat /\ Pending(rc) \in Nat
  BY Widths, OutNumberIs, CoderTypes, BaseIs DEF Sound, Clean
<1>1. PICK run \in [0..k -> Coder] :
        /\ run[0] = rc /\ run[k] = Repeat(ShiftOut, rc, k)
        /\ \A i \in 0..k - 1 : run[i + 1] = ShiftOut(run[i])
  <2>1. rc \in Coder /\ k \in Nat
    BY <1>0
  <2> QED BY ONLY <2>1, ShiftRun, Zenon
<1> DEFINE T == {i \in Nat : run[i].error = 0 => At(run[i], i) /\ Fits2(run[i], i)}
<1>2. 0 \in T
  <2>1. Weight(0) = 1 /\ u * 1 = u /\ Whole(rc) * 1 = Whole(rc) /\ Pending(rc) + 0 = Pending(rc) /\ ~(0 > 0)
    <3>1. \A x \in Nat : x * 1 = x /\ x + 0 = x
      OBVIOUS
    <3>2. ~(0 > 0) /\ u \in Nat
      OBVIOUS
    <3> QED BY <1>0, <3>1, <3>2, WeightIs
  <2>2. At(rc, 0) \/ rc.error # 0
    BY <2>1 DEF SameEnd, SameCode
  <2>3. Fits2(rc, 0)
    BY <2>1
  <2> QED BY <1>1, <2>2, <2>3
<1>3. ASSUME NEW i \in 0..k - 1, i \in T PROVE i + 1 \in T
  <2> DEFINE r == run[i]
             w == ShiftOut(r)
             g == u * Weight(i)
  <2>1. run[i + 1] = w /\ r \in Coder /\ i \in Nat /\ i + 1 \in Nat /\ i + 1 > 0 /\ i < k
    BY <1>1
  <2>2. SUFFICES ASSUME w.error = 0 PROVE At(w, i + 1) /\ Fits2(w, i + 1)
    BY <2>1
  <2>3. r.error = 0
    BY <2>1, <2>2, ErrorKept
  <2>4. At(r, i) /\ Fits2(r, i)
    BY <1>3, <2>3
  <2>5. CarryFits(r, r.val + g)
    BY <2>1, <2>4
  <2>6. Weight(i) \in Nat \ {0} /\ Weight(i + 1) = Base * Weight(i)
    BY <2>1, WeightIs
  <2>7. g \in Nat \ {0} /\ u * Weight(i + 1) = Base * g
    <3>1. \A a \in Nat \ {0}, b \in Nat \ {0} : a * b \in Nat \ {0}
      OBVIOUS
    <3>2. \A a \in Nat, b \in Nat, c \in Nat : a * (b * c) = b * (a * c)
      OBVIOUS
    <3> QED BY <1>0, <2>6, <3>1, <3>2
  <2> HIDE DEF w, r, g
  <2>8. /\ r.error = 0 /\ Sound(w) /\ Whole(w) = Base * Whole(r) /\ w.val < CodeTop
        /\ EndNumber(w) = EndNumber(r) /\ Pending(w) = Pending(r) + 1
        /\ SameEnd(w, r) /\ SameCode(w, r)
        /\ Base * g <= CodeTop => CarryFits(w, w.val + Base * g)
    BY <2>2, <2>4, <2>5, <2>7, ShiftOutNumber DEF w
  <2>9. Whole(w) = Whole(rc) * Weight(i + 1)
    <3>1. \A a \in Nat, b \in Nat, c \in Nat : b * (a * c) = a * (b * c)
      OBVIOUS
    <3>2. Whole(w) = Base * (Whole(rc) * Weight(i))
      BY <2>4, <2>8
    <3> QED BY <1>0, <2>6, <3>1, <3>2
  <2>10. Pending(w) = Pending(rc) + (i + 1)
    BY <1>0, <2>1, <2>4, <2>8
  <2>11. At(w, i + 1)
    <3>1. SameEnd(w, rc) /\ SameCode(w, rc)
      BY <2>4, <2>8 DEF SameEnd, SameCode
    <3>2. EndNumber(w) = EndNumber(rc) /\ rc.error = 0
      BY <2>4, <2>8
    <3> QED BY <2>8, <2>9, <2>10, <3>1, <3>2
  <2>12. Fits2(w, i + 1)
    <3> SUFFICES ASSUME i + 1 < k PROVE CarryFits(w, w.val + u * Weight(i + 1))
      OBVIOUS
    <3>1. i + 1 \in 1..k - 1
      BY <2>1
    <3>2. Base * g <= CodeTop
      BY <2>7, <3>1
    <3> QED BY <2>7, <2>8, <3>2
  <2> QED BY <2>11, <2>12
<1>4. 0..k \subseteq T
  <2> HIDE DEF T
  <2> QED BY <1>2, <1>3, InductionTo
<1>5. At(run[k], k)
  BY <1>1, <1>4
<1> QED BY <1>1, <1>5

\* The code's last bytes: its unit is a number of whole units of them.
LEMMA LastBytes ==
  ASSUME NEW l \in 0..CodeBits - 1
  PROVE  LET k == Bytes(l)
             u == Power[CodeBits - 1 - l]
         IN  /\ k \in Nat /\ SymBits * k - l \in 0..SymBits - 1 /\ (k = 0 => l = 0)
             /\ u * Weight(k) = CodeTop * Power[SymBits * k - l] /\ Power[SymBits * k - l] \in Nat \ {0}
             /\ \A i \in 1..k - 1 : u * Weight(i) <= CodeTop
<1> DEFINE k == Bytes(l)
           s == SymBits * k - l
           u == Power[CodeBits - 1 - l]
           b == SymBits * k
<1>1. CodeBits \in Nat /\ SymBits \in Nat \ {0} /\ l \in Nat
  BY Widths
<1>2. k \in Nat /\ b >= l /\ b < l + SymBits
  BY <1>1, BytesHold
<1> HIDE DEF k
<1>3. b \in Nat /\ s \in 0..SymBits - 1
  <2>1. b \in Nat
    BY <1>1, <1>2
  <2> HIDE DEF b
  <2>2. b - l \in 0..SymBits - 1
    BY <1>1, <1>2, <2>1
  <2> QED BY <2>1, <2>2 DEF b
<1>4. k = 0 => l = 0
  <2>1. ASSUME k = 0 PROVE l = 0
    <3>1. b = 0
      BY <1>1, <2>1
    <3> QED BY <1>1, <1>2, <3>1
  <2> QED BY <2>1
<1>5. u * Weight(k) = CodeTop * Power[s] /\ Power[s] \in Nat \ {0}
  <2> HIDE DEF s
  <2>1. CodeBits - 1 - l \in Nat /\ CodeBits - 1 \in Nat /\ s \in Nat
    BY <1>1, <1>3
  <2>2. Power[(CodeBits - 1 - l) + b] = u * Power[b]
    BY <1>3, <2>1, PowerSum
  <2>3. Power[(CodeBits - 1) + s] = Power[CodeBits - 1] * Power[s]
    BY <2>1, PowerSum
  <2>4. (CodeBits - 1 - l) + b = (CodeBits - 1) + s
    <3> HIDE DEF b
    <3>1. s = b - l
      BY DEF s, b
    <3> QED BY <1>1, <1>3, <2>1, <3>1
  <2>5. Power[s] \in Nat \ {0}
    BY <2>1, PowerPositive
  <2> QED BY <2>2, <2>3, <2>4, <2>5, TopIs DEF Weight
<1>6. ASSUME NEW i \in 1..k - 1 PROVE u * Weight(i) <= CodeTop
  <2> DEFINE c == SymBits * i
  <2>1. i \in Nat /\ i + 1 <= k /\ i + 1 \in Nat
    BY <1>2
  <2>2. c \in Nat /\ c + SymBits <= b
    <3>1. SymBits * (i + 1) <= SymBits * k
      BY <1>2, <2>1, Scaled
    <3>2. SymBits * (i + 1) = c + SymBits /\ c \in Nat
      BY <2>1, Scaled
    <3> QED BY <3>1, <3>2
  <2> HIDE DEF c
  <2>3. c <= l
    <3> HIDE DEF b
    <3> QED BY <1>1, <1>2, <1>3, <2>2
  <2>4. CodeBits - 1 - l \in Nat /\ (CodeBits - 1 - l) + c \in Nat /\ (CodeBits - 1 - l) + c <= CodeBits - 1 /\ CodeBits - 1 \in Nat
    BY <1>1, <2>2, <2>3
  <2>5. Power[(CodeBits - 1 - l) + c] = u * Power[c]
    BY <2>2, <2>4, PowerSum
  <2>6. Power[(CodeBits - 1 - l) + c] <= Power[CodeBits - 1]
    BY <2>4, PowerOrder
  <2> QED BY <2>5, <2>6, TopIs DEF Weight, c
<1> QED BY <1>2, <1>3, <1>4, <1>5, <1>6 DEF k

\* done() turns all of the code into bytes of the front.
LEMMA FrontDoneNumber ==
  ASSUME NEW rc, EncoderAt(rc), FrontDone(rc).error = 0
  PROVE  LET out == FrontDone(rc)
             f == FinalBits(rc)
             k == Bytes(f.l)
         IN  /\ rc.error = 0 /\ Clean(out) /\ SameEnd(out, rc) /\ EndNumber(out) = EndNumber(rc)
             /\ out.offs = Pending(rc) + k
             /\ \E e \in Nat : /\ f.end = e * Power[CodeBits - 1 - f.l]
                               /\ FrontNumber(out) = OutNumber(rc) * Weight(k) + e * Power[SymBits * k - f.l]
<1> DEFINE f == FinalBits(rc)
           end == f.end
           l == f.l
           k == Bytes(l)
           s == SymBits * k - l
           m == Power[s]
           u == Power[CodeBits - 1 - l]
           w == [rc EXCEPT !.val = end]
           v == Repeat(ShiftOut, w, k)
           r == [v EXCEPT !.val = rc.val]
           out == FrontDone(rc)
<1>1. /\ rc \in Coder /\ rc.val \in Nat /\ Pending(rc) \in Nat /\ rc.rng \in Nat /\ Sound(rc) /\ Clean(rc)
      /\ OutNumber(rc) \in Nat /\ rc.ext \in Nat
  BY AtTypes, CoderTypes, OutNumberIs DEF EncoderAt, Sound
<1>2. /\ l \in 0..CodeBits - 1 /\ u \in Nat \ {0} /\ end \in Nat /\ rc.val <= end /\ end + u <= rc.val + rc.rng
      /\ \E e \in Nat : end = e * u
  BY FinalCode
<1>3. PICK e \in Nat : end = e * u
  BY <1>2
<1> HIDE DEF l
<1>4. /\ k \in Nat /\ s \in 0..SymBits - 1 /\ (k = 0 => l = 0)
      /\ u * Weight(k) = CodeTop * m /\ m \in Nat \ {0}
      /\ \A i \in 1..k - 1 : u * Weight(i) <= CodeTop
  BY <1>2, LastBytes
<1>5. out = IF r.rem >= 0 \/ r.ext > 0 THEN CarryOut(r, 0) ELSE r
  BY Zenon DEF FrontDone, l
<1> HIDE DEF end, k, out, f, u, m
<1>6. /\ w \in Coder /\ w.buf = rc.buf /\ w.val = end
      /\ w.storage = rc.storage /\ w.endOffs = rc.endOffs /\ w.endWindow = rc.endWindow /\ w.nendBits = rc.nendBits
      /\ w.offs = rc.offs /\ w.error = rc.error /\ w.ext = rc.ext /\ w.rem = rc.rem
  <2>1. w \in Coder
    BY <1>1, <1>2, CoderFields
  <2> QED BY <1>1, <2>1 DEF Coder, Records
<1> HIDE DEF w
<1>7. Sound(w) /\ CarryFits(w, w.val + u) /\ OutNumber(w) = OutNumber(rc) /\ EndNumber(w) = EndNumber(rc) /\ Pending(w) = Pending(rc)
  <2>1. FrontNumber(w) = FrontNumber(rc) /\ EndNumber(w) = EndNumber(rc)
    BY <1>6, SameBytes
  <2>2. Pending(w) = Pending(rc) /\ KeptNumber(w) = KeptNumber(rc)
    BY <1>6, <2>1 DEF Pending, KeptNumber
  <2>3. OutNumber(w) = OutNumber(rc)
    BY <1>6, <2>2 DEF OutNumber
  <2>4. Sound(w)
    BY <1>1, <1>6 DEF Sound, Clean
  <2>5. CarryFits(rc, rc.val + rc.rng)
    BY DEF EncoderAt
  <2>6. Word \in Nat /\ CodeTop \in Nat
    BY Widths
  <2>7. CarryFits(w, w.val + u)
    BY <1>1, <1>2, <1>6, <2>5, <2>6 DEF CarryFits
  <2> QED BY <2>1, <2>2, <2>3, <2>4, <2>7
<1>8. v \in Coder
  BY <1>4, <1>6, ShiftOutRuns
<1>9. /\ r \in Coder /\ r.buf = v.buf /\ r.val = rc.val
      /\ r.storage = v.storage /\ r.endOffs = v.endOffs /\ r.endWindow = v.endWindow /\ r.nendBits = v.nendBits
      /\ r.offs = v.offs /\ r.error = v.error /\ r.ext = v.ext /\ r.rem = v.rem
  <2> HIDE DEF v
  <2>1. r \in Coder
    BY <1>1, <1>8, CoderFields
  <2> QED BY <1>8, <2>1 DEF Coder, Records
<1>10. v.error = 0
  <2>1. r.error = 0
    <3>1. 0 \in Nat
      OBVIOUS
    <3> HIDE DEF r
    <3> QED BY <1>5, <1>9, <3>1, ErrorKept DEF out
  <2> QED BY <1>9, <2>1
<1>11. /\ w.error = 0 /\ Sound(v) /\ Whole(v) = Whole(w) * Weight(k) /\ (k > 0 => v.val < CodeTop)
       /\ EndNumber(v) = EndNumber(w) /\ Pending(v) = Pending(w) + k
       /\ SameEnd(v, w) /\ SameCode(v, w)
  BY <1>2, <1>4, <1>7, <1>10, ShiftsMove
<1>12. rc.error = 0 /\ SameEnd(r, rc)
  BY <1>6, <1>9, <1>11 DEF SameEnd
<1>13. k = 0 => v.val = 0
  <2> SUFFICES ASSUME k = 0 PROVE v.val = 0
    OBVIOUS
  <2>1. l = 0 /\ u = CodeTop
    <3>1. l = 0
      BY <1>4
    <3>2. CodeBits - 1 - 0 = CodeBits - 1
      BY Widths
    <3>3. u = Power[CodeBits - 1]
      BY <3>1, <3>2, Zenon DEF u
    <3> QED BY <3>1, <3>3, TopIs
  <2>2. end + CodeTop < Word /\ Word = 2 * CodeTop /\ CodeTop \in Nat \ {0}
    <3>1. w.val + u < Word
      BY <1>7 DEF CarryFits
    <3> QED BY <1>6, <2>1, <3>1, Widths
  <2>3. end < CodeTop
    BY <1>2, <2>2
  <2>4. e = 0
    <3>1. \A x \in Nat \ {0}, c \in Nat : x * c >= c
      OBVIOUS
    <3> QED BY <1>2, <1>3, <2>1, <2>2, <2>3, <3>1
  <2>5. end = 0
    BY <1>3, <2>1, <2>2, <2>4
  <2>6. v = w
    <3>1. PICK run \in [0..k -> Coder] :
            /\ run[0] = w /\ run[k] = Repeat(ShiftOut, w, k)
            /\ \A i \in 0..k - 1 : run[i + 1] = ShiftOut(run[i])
      <4>1. w \in Coder /\ k \in Nat
        BY <1>4, <1>6
      <4> QED BY <4>1, ShiftRun
    <3> QED BY <3>1
  <2> QED BY <1>6, <2>5, <2>6
<1> HIDE DEF v, r
<1>14. /\ OutNumber(r) = OutNumber(v) /\ EndNumber(r) = EndNumber(rc) /\ Pending(r) = Pending(rc) + k /\ Sound(r)
       /\ FrontNumber(r) = FrontNumber(v)
  <2>1. FrontNumber(r) = FrontNumber(v) /\ EndNumber(r) = EndNumber(v)
    BY <1>9, SameBytes
  <2>2. Pending(r) = Pending(v) /\ KeptNumber(r) = KeptNumber(v)
    BY <1>9, <2>1 DEF Pending, KeptNumber
  <2>3. OutNumber(r) = OutNumber(v)
    BY <1>9, <2>2 DEF OutNumber
  <2>4. Sound(r)
    BY <1>9, <1>11 DEF Sound, Clean
  <2> QED BY <1>7, <1>11, <2>1, <2>2, <2>3, <2>4
<1>15. OutNumber(v) = OutNumber(rc) * Weight(k) + e * m
  <2> DEFINE x == OutNumber(rc) * Weight(k) + e * m
  <2>1. OutNumber(v) \in Nat /\ v.val \in Nat /\ Weight(k) \in Nat
    BY <1>4, <1>8, <1>11, OutNumberIs, CoderTypes, WeightIs
  <2>2. x \in Nat
    BY <1>1, <1>4, <2>1
  <2>3. OutNumber(v) * CodeTop + v.val = x * CodeTop + 0
    <3>1. OutNumber(v) * CodeTop + v.val = (OutNumber(rc) * CodeTop + end) * Weight(k)
      BY <1>6, <1>7, <1>11 DEF Whole
    <3>2. \A a \in Nat, b \in Nat, c \in Nat, d \in Nat, g \in Nat, h \in Nat :
            d * g = b * h => (a * b + c * d) * g = (a * g + c * h) * b
      <4> TAKE a \in Nat, b \in Nat, c \in Nat, d \in Nat, g \in Nat, h \in Nat
      <4>1. (a * b + c * d) * g = a * b * g + c * (d * g)
        OBVIOUS
      <4>2. (a * g + c * h) * b = a * b * g + c * (b * h)
        OBVIOUS
      <4> QED BY <4>1, <4>2
    <3>3. CodeTop \in Nat
      BY Widths
    <3>4. (OutNumber(rc) * CodeTop + e * u) * Weight(k) = x * CodeTop
      <4>1. PICK o1, w1 : o1 = OutNumber(rc) /\ w1 = Weight(k)
        OBVIOUS
      <4>2. o1 \in Nat /\ w1 \in Nat /\ u \in Nat /\ m \in Nat /\ u * w1 = CodeTop * m
        BY <1>1, <1>2, <1>4, <2>1, <4>1
      <4>3. (o1 * CodeTop + e * u) * w1 = (o1 * w1 + e * m) * CodeTop
        BY <3>2, <3>3, <4>2
      <4> QED BY <4>1, <4>3
    <3>5. x * CodeTop \in Nat
      BY <2>2, <3>3
    <3> HIDE DEF x
    <3> QED BY <1>3, <3>1, <3>4, <3>5
  <2>4. v.val < CodeTop /\ CodeTop \in Nat \ {0}
    BY <1>4, <1>11, <1>13, Widths
  <2> HIDE DEF x
  <2>8. v.val \in 0..CodeTop - 1 /\ 0 \in 0..CodeTop - 1
    BY <2>1, <2>4
  <2>5. (OutNumber(v) * CodeTop + v.val) \div CodeTop = OutNumber(v)
    BY <2>1, <2>4, <2>8, Remainder
  <2>6. (x * CodeTop + 0) \div CodeTop = x
    BY <2>2, <2>4, <2>8, Remainder
  <2>7. OutNumber(v) = x
    BY <2>3, <2>5, <2>6
  <2> QED BY <2>7 DEF x
<1>16. Clean(out) /\ SameEnd(out, rc) /\ EndNumber(out) = EndNumber(rc) /\ out.offs = Pending(rc) + k
       /\ FrontNumber(out) = OutNumber(r)
  <2>1. CASE r.rem >= 0 \/ r.ext > 0
    <3>1. out = CarryOut(r, 0)
      BY <1>5, <2>1
    <3>2. 0 \in 0..2 * Base - 1 /\ ~(0 >= Base) /\ 0 # SymMax /\ 0 \in Nat
      BY BaseIs
    <3>3. CarryOut(r, 0).error = 0
      BY <3>1 DEF out
    <3>4. /\ Sound(out) /\ OutNumber(out) = Base * OutNumber(r) + 0 /\ EndNumber(out) = EndNumber(r)
          /\ Pending(out) = Pending(r) + 1 /\ SameEnd(out, r)
      BY <1>14, <3>1, <3>2, <3>3, CarryOutNumber
    <3>5. out.ext = 0 /\ out.rem = 0
      <4>1. PICK q \in Coder : CarryOut(r, 0) = [q EXCEPT !.ext = 0, !.rem = Low(0, SymBits)]
        BY <1>9, <3>2, CarryOutEnds
      <4>2. Low(0, SymBits) = 0
        BY BaseIs DEF Low, Base
      <4> QED BY <3>1, <4>1, <4>2 DEF Coder, Records
    <3>6. out \in Coder /\ out.offs \in Nat /\ FrontNumber(out) \in Nat /\ Clean(out)
      BY <3>4, CoderTypes, NumbersAre DEF Sound, Clean
    <3>7. out.offs = Pending(rc) + k
      BY <1>1, <1>4, <1>14, <3>4, <3>5, <3>6 DEF Pending
    <3>8. FrontNumber(out) = OutNumber(r)
      <4>1. KeptNumber(out) = Base * FrontNumber(out)
        BY <3>5, <3>6, BaseIs DEF KeptNumber
      <4>2. OutNumber(out) = (Base * FrontNumber(out) + 1) * 1 - 1
        BY <3>5, <4>1, WeightIs DEF OutNumber
      <4>3. \A a \in Nat, b \in Nat : (Base * a + 1) * 1 - 1 = Base * b + 0 => a = b
        <5> TAKE a \in Nat, b \in Nat
        <5>1. Base * a \in Nat /\ Base * b \in Nat
          BY BaseIs
        <5>2. Base * a = Base * b => a = b
          BY BaseIs
        <5> QED BY <5>1, <5>2
      <4>4. OutNumber(r) \in Nat
        BY <1>14, OutNumberIs
      <4> QED BY <3>4, <3>6, <4>2, <4>3, <4>4
    <3>9. SameEnd(out, rc)
      BY <1>12, <3>4 DEF SameEnd
    <3> QED BY <1>14, <3>4, <3>6, <3>7, <3>8, <3>9
  <2>2. CASE ~(r.rem >= 0 \/ r.ext > 0)
    <3>1. out = r /\ r.ext \in Nat /\ r.rem \in Nat \cup {-1} /\ r.offs \in Nat
      BY <1>5, <1>9, <2>2, CoderTypes
    <3>2. r.rem < 0 /\ r.ext = 0 /\ r.offs = 0
      BY <1>14, <2>2, <3>1 DEF Sound
    <3>3. KeptNumber(r) = 0 /\ OutNumber(r) = 0
      <4>1. KeptNumber(r) = 0
        BY <3>2 DEF KeptNumber
      <4>2. Weight(0) = 1
        BY WeightIs
      <4> QED BY <3>2, <4>1, <4>2 DEF OutNumber
    <3>4. FrontNumber(r) = 0
      <4>1. FrontOf(r) \in Stream
        BY <1>14, StreamsAre DEF Sound
      <4> QED BY <3>2, <4>1, DigitsAre DEF FrontNumber
    <3>5. Pending(r) = r.offs
      BY <3>1, <3>2 DEF Pending
    <3>6. Clean(r)
      BY <1>14 DEF Sound
    <3> QED BY <1>12, <1>14, <3>1, <3>3, <3>4, <3>5, <3>6
  <2> QED BY <2>1, <2>2
<1>17. FrontNumber(out) = OutNumber(rc) * Weight(k) + e * m
  BY <1>14, <1>15, <1>16
<1>18. \E d \in Nat : end = d * u /\ FrontNumber(out) = OutNumber(rc) * Weight(k) + d * m
  BY <1>3, <1>17
<1> QED BY <1>12, <1>16, <1>18 DEF out, f, k, l, end, u, m

\* The bytes done() leaves, but for the gap.
LEMMA DoneBytes ==
  ASSUME NEW rc, EncoderOK(rc), EncoderAt(rc), Tell(rc) <= SymBits * rc.storage
  PROVE  LET out == Done(rc)
             l == FinalBits(rc).l
             spare == SymBits * Bytes(l) - l
             fl == FlushWindow(FrontDone(rc))
             t == fl.storage - fl.endOffs - 1
         IN  /\ out.error = 0 /\ fl.error = 0 /\ out \in Coder /\ fl \in Coder /\ out.storage = fl.storage
             /\ \A i \in DOMAIN out.buf : out.buf[i] = 0 \/ (i \in DOMAIN fl.buf /\ out.buf[i] = fl.buf[i]) \/ (fl.nendBits > 0 /\ i = t)
             /\ fl.nendBits = 0 => \A i \in 0..fl.storage - 1 : i < fl.offs \/ i > t => out.buf[i] = fl.buf[i]
             /\ fl.nendBits > 0 =>
                  /\ t >= 0
                  /\ \A i \in 0..fl.storage - 1 : (i < fl.offs /\ i # t) \/ i > t => out.buf[i] = fl.buf[i]
                  /\ out.buf[t] = (IF t < fl.offs THEN fl.buf[t] ELSE 0) + fl.endWindow
                  /\ t < fl.offs => fl.nendBits <= spare
<1> DEFINE l == FinalBits(rc).l
           spare == SymBits * Bytes(l) - l
           flushed == FlushWindow(FrontDone(rc))
           used == flushed.nendBits
           r == [flushed EXCEPT !.endWindow = rc.endWindow, !.nendBits = rc.nendBits]
           f == [i \in DOMAIN r.buf |-> IF i \in r.offs..r.storage - r.endOffs - 1 THEN 0 ELSE r.buf[i]]
           gap == [r EXCEPT !.buf = f]
           busted == ~Room(r) /\ spare < used
           window == IF busted THEN Low(flushed.endWindow, spare) ELSE flushed.endWindow
           g1 == r.error # 0
           g2 == r.error = 0 /\ used = 0
           g3 == r.error = 0 /\ used > 0 /\ r.endOffs >= r.storage
           w3 == [gap EXCEPT !.error = -1]
           w4 == [gap EXCEPT !.buf[r.storage - r.endOffs - 1] = @ + window,
                             !.error = IF busted THEN -1 ELSE @]
           t == flushed.storage - flushed.endOffs - 1
           out == Done(rc)
<1>1. out = CASE g1 -> r [] g2 -> gap [] g3 -> w3 [] OTHER -> w4
  BY Zenon DEF Done
<1>2. out.error = 0
  BY DoneIs
<1>3. /\ rc \in Coder /\ rc.nendBits \in Nat /\ rc.endWindow \in Nat /\ rc.nendBits <= CodeBits
  BY AtTypes, CoderTypes DEF EncoderAt
<1>4. flushed \in Coder
  <2>1. FrontDone(rc) \in Coder /\ SameEnd(FrontDone(rc), rc)
    BY FrontDoneIs
  <2>2. FrontDone(rc).nendBits <= CodeBits
    BY <1>3, <2>1 DEF SameEnd
  <2> QED BY <2>1, <2>2, FlushWindowIs
<1> HIDE DEF out, flushed, spare
<1>5. r \in Coder
  <2> DEFINE x == [flushed EXCEPT !.endWindow = rc.endWindow]
  <2>1. x \in Coder
    BY <1>3, <1>4, CoderFields
  <2>2. r = [x EXCEPT !.nendBits = rc.nendBits]
    BY Zenon
  <2> HIDE DEF x, r
  <2> QED BY <1>3, <2>1, <2>2, CoderFields
<1>6. /\ r.storage = flushed.storage /\ r.offs = flushed.offs /\ r.endOffs = flushed.endOffs /\ r.error = flushed.error
      /\ r.buf = flushed.buf
  BY <1>4 DEF Coder, Records
<1>7. /\ flushed.storage \in Nat /\ flushed.offs \in Nat /\ flushed.endOffs \in Nat /\ used \in Nat /\ flushed.buf \in Contents
      /\ flushed.endWindow \in Nat
  BY <1>4, CoderTypes
<1>8. f \in Contents /\ DOMAIN f = DOMAIN r.buf
  <2>1. PICK n \in Sizes : r.buf \in [0..n - 1 -> Nat]
    BY <1>6, <1>7 DEF Contents
  <2>2. f \in [0..n - 1 -> Nat]
    <3> HIDE DEF r
    <3> QED BY <2>1
  <2> HIDE DEF f
  <2> QED BY <2>1, <2>2 DEF Contents
<1>9. /\ gap \in Coder /\ gap.buf = f /\ gap.error = r.error /\ gap.storage = r.storage
  <2> HIDE DEF f, r
  <2>1. gap \in Coder
    BY <1>5, <1>8, CoderFields
  <2> QED BY <1>5, <2>1 DEF Coder, Records
<1>10. w3.error = -1
  <2> HIDE DEF gap
  <2> QED BY <1>9 DEF Coder, Records
<1>11. /\ w4.error = (IF busted THEN -1 ELSE gap.error) /\ w4.storage = gap.storage
       /\ w4.buf = [f EXCEPT ![r.storage - r.endOffs - 1] = f[r.storage - r.endOffs - 1] + window]
  <2> DEFINE y == [f EXCEPT ![r.storage - r.endOffs - 1] = f[r.storage - r.endOffs - 1] + window]
             b == IF busted THEN -1 ELSE gap.error
  <2>1. w4 = [gap EXCEPT !.buf = y, !.error = b]
    BY <1>9, Zenon
  <2> HIDE DEF gap, y, b, w4
  <2> QED BY <1>9, <2>1 DEF Coder, Records, y, b
<1> HIDE DEF gap, w3, w4, r
<1>12. ~g1 /\ ~g3
  <2>1. g1 => out.error # 0
    BY <1>1
  <2>2. g3 => g2 = FALSE
    BY <1>7
  <2>3. g3 => out = w3
    BY <1>1, <2>2
  <2>4. g3 => out.error = -1
    BY <1>10, <2>3
  <2> QED BY <1>2, <2>1, <2>4
<1>13. flushed.error = 0
  BY <1>6, <1>12
<1>14. CASE used = 0
  <2>1. out = gap
    BY <1>1, <1>12, <1>14
  <2>2. \A i \in 0..flushed.storage - 1 : i < flushed.offs \/ i > t => out.buf[i] = flushed.buf[i]
    <3> TAKE i \in 0..flushed.storage - 1
    <3>1. i \in DOMAIN flushed.buf
      BY <1>4 DEF Coder, Holds
    <3>2. i < flushed.offs \/ i > t => ~(i \in flushed.offs..flushed.storage - flushed.endOffs - 1)
      BY <1>7
    <3> QED BY <1>6, <1>9, <2>1, <3>1, <3>2
  <2>3. \A i \in DOMAIN out.buf : out.buf[i] = 0 \/ (i \in DOMAIN flushed.buf /\ out.buf[i] = flushed.buf[i])
    BY <1>6, <1>9, <2>1
  <2> QED BY <1>2, <1>4, <1>6, <1>9, <1>13, <1>14, <2>1, <2>2, <2>3 DEF out, flushed
<1>15. CASE used # 0
  <2>1. out = w4
    <3>1. ~g2
      BY <1>15
    <3> HIDE DEF g1, g2, g3
    <3> QED BY <1>1, <1>12, <3>1
  <2>2. ~busted /\ window = flushed.endWindow
    <3>1. ~busted
      BY <1>2, <1>11, <2>1
    <3> QED BY <3>1
  <2>3. used > 0 /\ t >= 0 /\ t \in Int /\ t \in 0..flushed.storage - 1
    BY <1>6, <1>7, <1>12, <1>13, <1>15
  <2>4. t \in DOMAIN f /\ \A i \in 0..flushed.storage - 1 : i \in DOMAIN f
    BY <1>4, <1>6, <1>8, <2>3 DEF Coder, Holds
  <2>5. out.buf = [f EXCEPT ![t] = f[t] + flushed.endWindow]
    BY <1>6, <1>11, <2>1, <2>2
  <2>6. f[t] = IF t < flushed.offs THEN flushed.buf[t] ELSE 0
    <3>1. t \in flushed.offs..flushed.storage - flushed.endOffs - 1 <=> ~(t < flushed.offs)
      BY <1>7, <2>3
    <3>2. f[t] = IF t \in r.offs..r.storage - r.endOffs - 1 THEN 0 ELSE r.buf[t]
      BY <1>8, <2>4
    <3> QED BY <1>6, <3>1, <3>2
  <2>7. out.buf[t] = (IF t < flushed.offs THEN flushed.buf[t] ELSE 0) + flushed.endWindow
    <3> HIDE DEF f
    <3> QED BY <2>4, <2>5, <2>6
  <2>8. ASSUME NEW i \in 0..flushed.storage - 1, (i < flushed.offs /\ i # t) \/ i > t PROVE out.buf[i] = flushed.buf[i]
    <3>1. i # t
      BY <1>7, <2>8
    <3>2. ~(i \in flushed.offs..flushed.storage - flushed.endOffs - 1)
      BY <1>7, <2>8
    <3>3. f[i] = flushed.buf[i]
      BY <1>6, <2>4, <3>2
    <3>4. out.buf[i] = f[i]
      <4> HIDE DEF f
      <4> QED BY <2>4, <2>5, <3>1
    <3> QED BY <3>3, <3>4
  <2>9. \A i \in DOMAIN out.buf : out.buf[i] = 0 \/ (i \in DOMAIN flushed.buf /\ out.buf[i] = flushed.buf[i]) \/ i = t
    <3> TAKE i \in DOMAIN out.buf
    <3> SUFFICES ASSUME i # t PROVE out.buf[i] = 0 \/ (i \in DOMAIN flushed.buf /\ out.buf[i] = flushed.buf[i])
      OBVIOUS
    <3>1. i \in DOMAIN f /\ out.buf[i] = f[i]
      <4> HIDE DEF f
      <4> QED BY <2>4, <2>5
    <3> QED BY <1>6, <3>1
  <2>10. t < flushed.offs => used <= spare
    <3> SUFFICES ASSUME t < flushed.offs PROVE ~(spare < used)
      <4>1. spare \in Int
        <5>1. l \in Nat
          <6>1. l \in 0..CodeBits - 1
            BY FinalCode
          <6> QED BY <6>1
        <5>2. Bytes(l) \in Nat
          BY <5>1, BytesHold
        <5> HIDE DEF l
        <5> QED BY <5>1, <5>2, Widths DEF spare
      <4> QED BY <1>7, <4>1
    <3>1. ~Room(r)
      BY <1>6, <1>7 DEF Room
    <3> QED BY <2>2, <3>1
  <2>11. out \in Coder
    <3> DEFINE y == [f EXCEPT ![t] = f[t] + flushed.endWindow]
               x == [gap EXCEPT !.buf = y]
    <3>1. f[t] + flushed.endWindow \in Nat
      <4>1. f[t] \in Nat
        <5>1. PICK n \in Sizes : f \in [0..n - 1 -> Nat]
          BY <1>8 DEF Contents
        <5> HIDE DEF f
        <5> QED BY <2>4, <5>1
      <4> QED BY <1>7, <4>1
    <3>2. y \in Contents /\ DOMAIN y = DOMAIN f
      <4> HIDE DEF f
      <4> QED BY <1>8, <3>1, WriteBuffer
    <3> HIDE DEF f
    <3>3. x \in Coder
      <4> HIDE DEF y
      <4> QED BY <1>9, <3>2, CoderFields
    <3>4. w4 = x
      <4>1. w4 = [gap EXCEPT !.buf = y, !.error = IF busted THEN -1 ELSE gap.error]
        <5>1. w4 = [gap EXCEPT !.buf[r.storage - r.endOffs - 1] = @ + window, !.error = IF busted THEN -1 ELSE @]
          BY DEF w4
        <5>2. y = [gap.buf EXCEPT ![r.storage - r.endOffs - 1] = @ + window]
          BY <1>6, <1>9, <2>2
        <5> HIDE DEF y
        <5> QED BY <5>1, <5>2, Zenon
      <4>2. w4 = [gap EXCEPT !.buf = y, !.error = gap.error]
        <5> HIDE DEF y
        <5> QED BY <2>2, <4>1
      <4> HIDE DEF y
      <4> QED BY <1>9, <4>2 DEF Coder, Records
    <3> QED BY <2>1, <3>3, <3>4
  <2> QED BY <1>2, <1>4, <1>6, <1>9, <1>11, <1>13, <2>1, <2>3, <2>7, <2>8, <2>9, <2>10, <2>11 DEF out, flushed, spare, l
<1> QED BY <1>14, <1>15

\* The state done() brings the two ends to before it joins them.
LEMMA FlushedFront ==
  ASSUME NEW rc, EncoderOK(rc), EncoderAt(rc), FlushWindow(FrontDone(rc)).error = 0
  PROVE  LET fl == FlushWindow(FrontDone(rc))
             f == FinalBits(rc)
             k == Bytes(f.l)
             spare == SymBits * k - f.l
         IN  /\ Clean(fl) /\ fl.offs = Pending(rc) + k /\ fl.storage = rc.storage
             /\ RawNumber(fl) = RawNumber(rc) /\ EndBits(fl) = EndBits(rc)
             /\ fl.nendBits \in 0..SymBits - 1 /\ fl.endWindow \in 0..Power[fl.nendBits] - 1
             /\ \E e \in Nat : /\ f.end = e * Power[CodeBits - 1 - f.l]
                               /\ FrontNumber(fl) = OutNumber(rc) * Weight(k) + e * Power[spare]
             /\ \E z \in Nat : FrontNumber(fl) = Power[spare] * z
<1> DEFINE f == FinalBits(rc)
           l == f.l
           k == Bytes(l)
           s == SymBits * k - l
           front == FrontDone(rc)
           fl == FlushWindow(front)
<1>1. /\ rc \in Coder /\ rc.nendBits \in Nat /\ rc.endWindow \in Nat /\ rc.nendBits <= CodeBits /\ rc.endWindow < Power[rc.nendBits]
      /\ OutNumber(rc) \in Nat /\ l \in 0..CodeBits - 1
  BY AtTypes, CoderTypes, OutNumberIs, FinalCode DEF EncoderAt
<1>2. front \in Coder /\ SameEnd(front, rc)
  BY FrontDoneIs
<1>3. front.error = 0
  BY <1>2, FlushWindowKept
<1>4. /\ Clean(front) /\ EndNumber(front) = EndNumber(rc) /\ front.offs = Pending(rc) + k
      /\ \E e \in Nat : /\ f.end = e * Power[CodeBits - 1 - l]
                        /\ FrontNumber(front) = OutNumber(rc) * Weight(k) + e * Power[s]
  BY <1>3, FrontDoneNumber
<1>5. k \in Nat /\ s \in 0..SymBits - 1
  BY <1>1, LastBytes
<1> HIDE DEF front, k
<1>6. Flushed(fl, front)
  <2>1. front.endWindow < Power[front.nendBits]
    BY <1>1, <1>2 DEF SameEnd
  <2>2. fl.error = 0
    BY DEF front
  <2> QED BY <1>4, <2>1, <2>2, FlushWindowNumber
<1>7. fl \in Coder /\ SameFront(fl, front) /\ fl.nendBits < SymBits
  <2>1. front.nendBits <= CodeBits
    BY <1>1, <1>2 DEF SameEnd
  <2> QED BY <1>2, <2>1, FlushWindowIs
<1>8. RawNumber(fl) = RawNumber(rc) /\ EndBits(fl) = EndBits(rc) /\ fl.storage = rc.storage /\ fl.offs = Pending(rc) + k
  <2>1. RawNumber(front) = RawNumber(rc) /\ EndBits(front) = EndBits(rc)
    BY <1>2, <1>4 DEF SameEnd, RawNumber, EndBits
  <2> QED BY <1>2, <1>4, <1>6, <1>7, <2>1 DEF Flushed, SameEnd, SameFront
<1>9. fl.nendBits \in 0..SymBits - 1 /\ fl.endWindow \in 0..Power[fl.nendBits] - 1
  <2>1. fl.nendBits \in Nat /\ fl.endWindow \in Nat /\ SymBits \in Nat
    BY <1>7, CoderTypes, Widths
  <2>2. Power[fl.nendBits] \in Nat
    BY <2>1, PowerStep
  <2> QED BY <1>6, <1>7, <2>1, <2>2 DEF Flushed
<1>10. FrontNumber(fl) = FrontNumber(front) /\ Clean(fl)
  BY <1>6 DEF Flushed
<1>11. \E z \in Nat : FrontNumber(fl) = Power[s] * z
  <2>1. PICK e \in Nat : FrontNumber(front) = OutNumber(rc) * Weight(k) + e * Power[s]
    BY <1>4
  <2>2. Weight(k) = Power[s] * Power[l]
    <3> DEFINE b == SymBits * k
    <3>1. b \in Nat
      BY <1>5, Widths
    <3> HIDE DEF b, l
    <3>2. b - l \in Nat /\ l \in Nat /\ (b - l) + l = b
      <4>1. b - l \in Nat
        BY <1>5 DEF b
      <4> QED BY <1>1, <3>1, <4>1
    <3>3. Power[(b - l) + l] = Power[b - l] * Power[l]
      BY <3>2, PowerSum
    <3> QED BY <3>2, <3>3 DEF b, Weight
  <2>3. PICK a, c, d : a = OutNumber(rc) /\ c = Power[s] /\ d = Power[l]
    OBVIOUS
  <2>4. a \in Nat /\ c \in Nat /\ d \in Nat
    <3>1. s \in Nat /\ l \in Nat
      BY <1>1, <1>5
    <3> HIDE DEF s, l
    <3> QED BY <1>1, <2>3, <3>1, PowerStep
  <2>5. \A aa \in Nat, cc \in Nat, dd \in Nat, ee \in Nat :
          aa * (cc * dd) + ee * cc = cc * (aa * dd + ee) /\ aa * dd + ee \in Nat
    <3> TAKE aa \in Nat, cc \in Nat, dd \in Nat, ee \in Nat
    <3>1. cc * (aa * dd + ee) = cc * (aa * dd) + cc * ee
      OBVIOUS
    <3>2. aa * (cc * dd) = cc * (aa * dd)
      OBVIOUS
    <3>3. aa * dd \in Nat
      OBVIOUS
    <3> QED BY <3>1, <3>2, <3>3
  <2>6. FrontNumber(fl) = c * (a * d + e) /\ a * d + e \in Nat
    <3>1. FrontNumber(fl) = a * (c * d) + e * c
      BY <1>10, <2>1, <2>2, <2>3
    <3> QED BY <2>4, <2>5, <3>1
  <2> QED BY <2>3, <2>6
<1> HIDE DEF fl
<1>12. \E e \in Nat : /\ f.end = e * Power[CodeBits - 1 - l]
                      /\ FrontNumber(fl) = OutNumber(rc) * Weight(k) + e * Power[s]
  BY <1>4, <1>10
<1> QED BY <1>8, <1>9, <1>10, <1>11, <1>12 DEF fl, front, k

\* The last bits of a byte that are zero have room for others.
LEMMA LastByte ==
  ASSUME NEW s \in 0..SymBits, NEW x \in Nat, NEW b \in 0..SymMax, NEW n \in Nat, Base * x + b = Power[s] * n
  PROVE  /\ \E z \in Nat : b = Power[s] * z
         /\ \A w \in 0..Power[s] - 1 : b + w \in 0..SymMax
<1>1. s \in Nat /\ SymBits - s \in Nat /\ SymBits \in Nat /\ s + (SymBits - s) = SymBits
  BY Widths
<1>2. PICK p, r : p = Power[s] /\ r = Power[SymBits - s]
  OBVIOUS
<1>3. p \in Nat \ {0} /\ r \in Nat \ {0}
  BY <1>1, <1>2, PowerPositive
<1>4. Base = p * r
  <2>1. Power[s + (SymBits - s)] = p * r
    BY <1>1, <1>2, PowerSum
  <2>2. Base = Power[SymBits]
    <3>1. SymBits \in 0..CodeBits
      BY Widths
    <3> QED BY <3>1, PowerPow DEF Base
  <2> QED BY <1>1, <2>1, <2>2
<1>5. \A c \in Nat : r * c \in Nat
  BY <1>3
<1>6. PICK y : y = r * x
  OBVIOUS
<1>7. y \in Nat /\ p * y + b = p * n
  <2>1. (p * r) * x = p * (r * x)
    BY <1>3
  <2> QED BY <1>2, <1>4, <1>5, <1>6, <2>1
<1>8. b \in Nat /\ b < p * r
  BY <1>4, BaseIs
<1>9. b = p * (n - y) /\ n - y \in Nat
  <2>1. p * (n - y) = p * n - p * y
    BY <1>3, <1>7
  <2>2. p * n \in Nat /\ p * y \in Nat
    BY <1>3, <1>7
  <2>3. b = p * (n - y)
    BY <1>7, <1>8, <2>1, <2>2
  <2>4. \A d \in Int : p * d >= 0 => d >= 0
    BY <1>3
  <2>5. n - y \in Int
    BY <1>7
  <2> QED BY <1>8, <2>3, <2>4, <2>5
<1>10. PICK z \in Nat : b = p * z
  BY <1>9
<1>11. p * z + p <= p * r
  <2>1. \A c \in Nat, d \in Nat : p * c < p * d => p * c + p <= p * d
    <3> TAKE c \in Nat, d \in Nat
    <3> SUFFICES ASSUME p * c < p * d PROVE p * c + p <= p * d
      OBVIOUS
    <3>1. c < d
      BY <1>3
    <3>2. p * (c + 1) <= p * d
      BY <1>3, <3>1
    <3>3. p * (c + 1) = p * c + p
      BY <1>3
    <3> QED BY <3>2, <3>3
  <2> QED BY <1>3, <1>8, <1>10, <2>1
<1>12. \A w \in 0..p - 1 : b + w \in 0..SymMax
  <2>1. p * z \in Nat
    BY <1>3
  <2> QED BY <1>3, <1>4, <1>8, <1>10, <1>11, <2>1, BaseIs
<1> QED BY <1>2, <1>10, <1>12

\* The raw bits a buffer's end holds begin with those of p.
Agrees(B, p) ==
  \E m \in Nat, h \in Nat : SymBits * m >= p.rawBits /\ EndDigits(B)[m] = p.raw + Power[p.rawBits] * h

\* The buffer of a finished coder is bytes.
LEMMA BufferStreams ==
  ASSUME NEW rc \in Coder, \A i \in DOMAIN rc.buf : rc.buf[i] \in 0..SymMax
  PROVE  /\ FrontOf(rc) \in ByteStream /\ BackOf(rc) \in ByteStream
         /\ FrontOf(rc) \in Stream /\ BackOf(rc) \in Stream
         /\ \A i \in 0..rc.storage - 1 : /\ i \in DOMAIN rc.buf /\ FrontOf(rc)[i] = rc.buf[i]
                                         /\ BackOf(rc)[i] = rc.buf[rc.storage - 1 - i]
<1> DEFINE r == [rc EXCEPT !.offs = 0]
           r2 == [r EXCEPT !.endOffs = 0]
<1>1. rc.storage \in Nat /\ r \in Coder /\ r2 \in Coder
  <2>1. r \in Coder /\ rc.storage \in Nat
    BY CoderFields, CoderTypes
  <2>2. r2 \in Coder
    <3> HIDE DEF r
    <3> QED BY <2>1, CoderFields
  <2> QED BY <2>1, <2>2
<1>2. r2.buf = rc.buf /\ r2.storage = rc.storage /\ r2.offs = 0 /\ r2.endOffs = 0
  BY DEF Coder, Records
<1> HIDE DEF r, r2
<1>3. Clean(r2)
  BY <1>1, <1>2 DEF Clean
<1>4. FrontOf(r2) = FrontOf(rc) /\ BackOf(r2) = BackOf(rc)
  BY <1>2, SameBytes
<1>5. /\ FrontOf(r2) \in ByteStream /\ BackOf(r2) \in ByteStream
      /\ FrontOf(r2) \in Stream /\ BackOf(r2) \in Stream
      /\ \A i \in 0..r2.storage - 1 : /\ r2.buf[i] \in 0..SymMax /\ i \in DOMAIN r2.buf
                                      /\ FrontOf(r2)[i] = r2.buf[i]
                                      /\ BackOf(r2)[i] = r2.buf[r2.storage - 1 - i]
  BY <1>3, StreamsAre
<1> QED BY <1>2, <1>4, <1>5

\* The joined byte: bits of the front above, raw bits below.
LEMMA JoinedByte ==
  ASSUME NEW fl, Clean(fl), NEW t \in Nat, t = fl.storage - fl.endOffs - 1, t < fl.offs,
         NEW s \in 0..SymBits - 1, fl.nendBits \in 1..s, fl.endWindow \in 0..Power[fl.nendBits] - 1,
         NEW n \in Nat, FrontNumber(fl) = Power[s] * n
  PROVE  /\ fl.offs = t + 1 /\ fl.endWindow \in 0..Power[s] - 1 /\ t \in 0..fl.storage - 1
         /\ fl.buf[t] + fl.endWindow \in 0..SymMax
         /\ \E z \in Nat : fl.buf[t] = Power[fl.nendBits] * z
<1>1. fl \in Coder /\ fl.offs \in Nat /\ fl.endOffs \in Nat /\ fl.storage \in Nat /\ fl.offs + fl.endOffs <= fl.storage
      /\ fl.nendBits \in Nat /\ s \in Nat /\ fl.nendBits <= s /\ s \in 0..SymBits
  BY CoderTypes, Widths DEF Clean
<1>2. fl.offs = t + 1 /\ t \in 0..fl.storage - 1
  BY <1>1
<1>3. FrontOf(fl) \in Stream /\ fl.buf[t] \in 0..SymMax /\ FrontOf(fl)[t] = fl.buf[t]
  BY <1>2, StreamsAre
<1>4. FrontNumber(fl) = Base * Digits(FrontOf(fl))[t] + fl.buf[t] /\ Digits(FrontOf(fl))[t] \in Nat
  BY <1>2, <1>3, DigitsAre DEF FrontNumber
<1>5. /\ \E z \in Nat : fl.buf[t] = Power[s] * z
      /\ \A w \in 0..Power[s] - 1 : fl.buf[t] + w \in 0..SymMax
  <2> DEFINE x == Digits(FrontOf(fl))[t]
             b == fl.buf[t]
  <2>1. x \in Nat /\ b \in 0..SymMax /\ Base * x + b = Power[s] * n
    BY <1>3, <1>4
  <2> HIDE DEF x, b
  <2>2. (\E z \in Nat : b = Power[s] * z) /\ \A w \in 0..Power[s] - 1 : b + w \in 0..SymMax
    BY <1>1, <2>1, LastByte
  <2> QED BY <2>2 DEF b
<1>6. Power[fl.nendBits] \in Nat /\ Power[s] \in Nat /\ Power[fl.nendBits] <= Power[s]
  BY <1>1, PowerStep, PowerOrder
<1>7. fl.endWindow \in 0..Power[s] - 1
  BY <1>6
<1>8. \E z \in Nat : fl.buf[t] = Power[fl.nendBits] * z
  <2>1. PICK z \in Nat : fl.buf[t] = Power[s] * z
    BY <1>5
  <2> DEFINE a == fl.nendBits
             d == s - a
  <2>2. d \in Nat /\ a + d = s /\ a \in Nat
    BY <1>1
  <2> HIDE DEF a, d
  <2>3. Power[s] = Power[a] * Power[d] /\ Power[a] \in Nat /\ Power[d] \in Nat
    <3>1. Power[a + d] = Power[a] * Power[d]
      BY <2>2, PowerSum
    <3> QED BY <2>2, <3>1, PowerStep
  <2>4. PICK pa, pd : pa = Power[a] /\ pd = Power[d]
    OBVIOUS
  <2>5. (pa * pd) * z = pa * (pd * z) /\ pd * z \in Nat
    BY <2>3, <2>4
  <2> QED BY <2>1, <2>3, <2>4, <2>5 DEF a
<1> QED BY <1>2, <1>5, <1>7, <1>8

\* The buffer that done() leaves, as numbers from both ends.
LEMMA DoneNumbers ==
  ASSUME NEW rc, EncoderOK(rc), EncoderAt(rc), Tell(rc) <= SymBits * rc.storage
  PROVE  LET out == Done(rc)
             fl == FlushWindow(FrontDone(rc))
             f == FinalBits(rc)
             spare == SymBits * Bytes(f.l) - f.l
         IN  /\ out.error = 0 /\ fl.error = 0 /\ out \in Coder /\ \A i \in DOMAIN out.buf : out.buf[i] \in 0..SymMax
             /\ \E w \in 0..Power[spare] - 1 : Digits(FrontOf(out))[fl.offs] = FrontNumber(fl) + w
             /\ Agrees(BackOf(out), PlaceOf(rc))
<1> DEFINE out == Done(rc)
           fl == FlushWindow(FrontDone(rc))
           f == FinalBits(rc)
           l == f.l
           spare == SymBits * Bytes(l) - l
           t == fl.storage - fl.endOffs - 1
           D == FrontOf(out)
           B == BackOf(out)
           used == fl.nendBits
           x == fl.endWindow
<1>1. /\ out.error = 0 /\ fl.error = 0 /\ out \in Coder /\ fl \in Coder /\ out.storage = fl.storage
      /\ \A i \in DOMAIN out.buf : out.buf[i] = 0 \/ (i \in DOMAIN fl.buf /\ out.buf[i] = fl.buf[i]) \/ (used > 0 /\ i = t)
      /\ used = 0 => \A i \in 0..fl.storage - 1 : i < fl.offs \/ i > t => out.buf[i] = fl.buf[i]
      /\ used > 0 =>
           /\ t >= 0
           /\ \A i \in 0..fl.storage - 1 : (i < fl.offs /\ i # t) \/ i > t => out.buf[i] = fl.buf[i]
           /\ out.buf[t] = (IF t < fl.offs THEN fl.buf[t] ELSE 0) + x
           /\ t < fl.offs => used <= spare
  BY DoneBytes
<1>2. l \in 0..CodeBits - 1
  BY FinalCode
<1>3. spare \in 0..SymBits - 1
  BY <1>2, LastBytes
<1>4. /\ Clean(fl) /\ fl.storage = rc.storage
      /\ RawNumber(fl) = RawNumber(rc) /\ EndBits(fl) = EndBits(rc)
      /\ used \in 0..SymBits - 1 /\ x \in 0..Power[used] - 1
      /\ \E z \in Nat : FrontNumber(fl) = Power[spare] * z
  BY <1>1, FlushedFront
<1> HIDE DEF out, fl, spare, f
<1>5. /\ fl.storage \in Nat /\ fl.offs \in Nat /\ fl.endOffs \in Nat /\ used \in Nat /\ x \in Nat
      /\ fl.offs + fl.endOffs <= fl.storage /\ SymBits \in Nat \ {0} /\ FrontNumber(fl) \in Nat /\ EndNumber(fl) \in Nat
  BY <1>1, <1>4, CoderTypes, Widths, NumbersAre DEF Clean
<1>6. PICK z \in Nat : FrontNumber(fl) = Power[spare] * z
  BY <1>4
<1>7. ASSUME used > 0
      PROVE  /\ t \in 0..fl.storage - 1 /\ out.buf[t] \in 0..SymMax
             /\ t < fl.offs => fl.offs = t + 1 /\ x \in 0..Power[spare] - 1
             /\ \E h \in Nat : out.buf[t] = x + Power[used] * h
  <2>1. t \in Nat /\ t \in 0..fl.storage - 1
    BY <1>1, <1>5, <1>7
  <2>2. CASE t < fl.offs
    <3>1. used \in 1..spare
      BY <1>1, <1>3, <1>5, <1>7, <2>2
    <3>2. /\ fl.offs = t + 1 /\ x \in 0..Power[spare] - 1
          /\ fl.buf[t] + x \in 0..SymMax /\ \E h \in Nat : fl.buf[t] = Power[used] * h
      BY <1>3, <1>4, <1>6, <2>1, <2>2, <3>1, JoinedByte
    <3>3. PICK h \in Nat : fl.buf[t] = Power[used] * h
      BY <3>2
    <3>4. out.buf[t] = fl.buf[t] + x
      BY <1>1, <1>7, <2>2
    <3>5. Power[used] * h \in Nat
      BY <1>5, PowerStep
    <3>6. out.buf[t] = x + Power[used] * h
      BY <1>5, <3>3, <3>4, <3>5
    <3> QED BY <2>1, <3>2, <3>4, <3>6
  <2>3. CASE ~(t < fl.offs)
    <3>1. out.buf[t] = x
      BY <1>1, <1>5, <1>7, <2>3
    <3>2. x \in 0..SymMax
      <4>1. Power[used] <= Power[SymBits] /\ Power[used] \in Nat
        <5>1. used <= SymBits /\ SymBits \in Nat
          BY <1>4, <1>5
        <5> HIDE DEF used
        <5> QED BY <1>5, <5>1, PowerOrder, PowerStep
      <4>2. Power[SymBits] = Base
        <5>1. SymBits \in 0..CodeBits
          BY Widths
        <5> QED BY <5>1, PowerPow DEF Base
      <4> QED BY <1>4, <1>5, <4>1, <4>2, BaseIs
    <3>3. x = x + Power[used] * 0
      BY <1>5, PowerStep
    <3> QED BY <2>1, <2>3, <3>1, <3>2, <3>3
  <2> QED BY <2>2, <2>3
<1>8. \A i \in DOMAIN out.buf : out.buf[i] \in 0..SymMax
  <2> TAKE i \in DOMAIN out.buf
  <2>1. 0 \in 0..SymMax
    BY BaseIs
  <2>2. \A j \in DOMAIN fl.buf : fl.buf[j] \in 0..SymMax
    BY <1>4 DEF Clean
  <2> QED BY <1>1, <1>7, <2>1, <2>2
<1>9. /\ D \in Stream /\ B \in Stream /\ B \in ByteStream
      /\ \A i \in 0..fl.storage - 1 : /\ D[i] = out.buf[i]
                                      /\ B[i] = out.buf[fl.storage - 1 - i]
  BY <1>1, <1>8, BufferStreams
<1>10. /\ FrontOf(fl) \in Stream /\ BackOf(fl) \in Stream
       /\ \A i \in 0..fl.storage - 1 : FrontOf(fl)[i] = fl.buf[i] /\ BackOf(fl)[i] = fl.buf[fl.storage - 1 - i]
  BY <1>4, StreamsAre
<1> HIDE DEF D, B
<1>11. \E w \in 0..Power[spare] - 1 : Digits(D)[fl.offs] = FrontNumber(fl) + w
  <2>1. CASE used > 0 /\ t < fl.offs
    <3>1. fl.offs = t + 1 /\ x \in 0..Power[spare] - 1 /\ t \in 0..fl.storage - 1 /\ t \in Nat
      BY <1>7, <2>1
    <3>2. \A i \in 0..t - 1 : D[i] = FrontOf(fl)[i]
      <4> TAKE i \in 0..t - 1
      <4>1. i \in 0..fl.storage - 1 /\ i < fl.offs /\ i # t
        <5> HIDE DEF t
        <5> QED BY <1>5, <3>1
      <4>2. out.buf[i] = fl.buf[i]
        BY <1>1, <2>1, <4>1
      <4> QED BY <1>9, <1>10, <4>1, <4>2
    <3>3. D[t] = FrontOf(fl)[t] + x
      BY <1>1, <1>9, <1>10, <2>1, <3>1
    <3>4. Digits(D)[t] = Digits(FrontOf(fl))[t]
      BY <1>9, <1>10, <3>1, <3>2, SameNumbers
    <3>5. /\ Digits(D)[t + 1] = Base * Digits(D)[t] + D[t] /\ Digits(D)[t] \in Nat
          /\ Digits(FrontOf(fl))[t + 1] = Base * Digits(D)[t] + FrontOf(fl)[t]
      BY <1>9, <1>10, <3>1, <3>4, DigitsAre
    <3>6. D[t] \in Nat /\ FrontOf(fl)[t] \in Nat
      BY <1>9, <1>10, <3>1 DEF Stream
    <3>7. Base * Digits(D)[t] \in Nat
      BY <3>5, BaseIs
    <3>8. Digits(D)[fl.offs] = FrontNumber(fl) + x
      BY <1>5, <3>1, <3>3, <3>5, <3>6, <3>7 DEF FrontNumber
    <3> QED BY <3>1, <3>8
  <2>2. CASE ~(used > 0 /\ t < fl.offs)
    <3>1. \A i \in 0..fl.offs - 1 : D[i] = FrontOf(fl)[i]
      <4> TAKE i \in 0..fl.offs - 1
      <4>1. i \in 0..fl.storage - 1 /\ i < fl.offs
        BY <1>5
      <4>2. out.buf[i] = fl.buf[i]
        BY <1>1, <1>5, <2>2, <4>1
      <4> QED BY <1>9, <1>10, <4>1, <4>2
    <3>2. Digits(D)[fl.offs] = FrontNumber(fl)
      BY <1>5, <1>9, <1>10, <3>1, SameNumbers DEF FrontNumber
    <3>3. 0 \in 0..Power[spare] - 1
      <4>1. spare \in Nat
        BY <1>3
      <4> QED BY <4>1, PowerPositive
    <3> QED BY <1>5, <3>2, <3>3
  <2> QED BY <2>1, <2>2
<1>12. EndDigits(B)[fl.endOffs] = EndNumber(fl)
  <2>1. \A i \in 0..fl.endOffs - 1 : B[i] = BackOf(fl)[i]
    <3> TAKE i \in 0..fl.endOffs - 1
    <3>1. PICK j : j = fl.storage - 1 - i
      OBVIOUS
    <3>2. i \in 0..fl.storage - 1 /\ j \in 0..fl.storage - 1 /\ j > t
      BY <1>5, <3>1
    <3>3. out.buf[j] = fl.buf[j]
      BY <1>1, <1>5, <3>2
    <3> QED BY <1>9, <1>10, <3>1, <3>2, <3>3
  <2> QED BY <1>5, <1>9, <1>10, <2>1, SameNumbers DEF EndNumber
<1> DEFINE p == PlaceOf(rc)
<1>13. /\ p.raw = EndNumber(fl) + x * Weight(fl.endOffs) /\ p.rawBits = SymBits * fl.endOffs + used
       /\ Power[p.rawBits] = Weight(fl.endOffs) * Power[used]
  <2>1. p.raw = RawNumber(fl) /\ p.rawBits = EndBits(fl)
    BY <1>4 DEF PlaceOf
  <2> QED BY <1>1, <2>1, EndBitsAre DEF RawNumber, EndBits
<1> HIDE DEF p
<1>14. Agrees(B, p)
  <2>1. Weight(fl.endOffs) \in Nat /\ Power[used] \in Nat /\ SymBits * fl.endOffs \in Nat
    BY <1>5, WeightIs, PowerStep, Scaled
  <2>2. CASE used = 0
    <3>1. x = 0 /\ p.rawBits = SymBits * fl.endOffs
      BY <1>4, <1>13, <2>1, <2>2, PowerStep
    <3>2. Power[p.rawBits] \in Nat
      BY <2>1, <3>1, PowerStep
    <3>3. p.raw = EndNumber(fl)
      BY <1>5, <1>13, <2>1, <3>1
    <3>4. EndDigits(B)[fl.endOffs] = p.raw + Power[p.rawBits] * 0
      BY <1>5, <1>12, <3>2, <3>3
    <3>5. SymBits * fl.endOffs >= p.rawBits
      BY <2>1, <3>1
    <3> QED BY <1>5, <3>4, <3>5 DEF Agrees
  <2>3. CASE used > 0
    <3>1. t \in 0..fl.storage - 1 /\ \E h \in Nat : out.buf[t] = x + Power[used] * h
      BY <1>7, <2>3
    <3>2. PICK h \in Nat : out.buf[t] = x + Power[used] * h
      BY <3>1
    <3>3. fl.endOffs \in 0..fl.storage - 1 /\ fl.storage - 1 - fl.endOffs = t
      BY <1>5, <3>1
    <3>4. B[fl.endOffs] = x + Power[used] * h
      BY <1>9, <3>2, <3>3
    <3>5. EndDigits(B)[fl.endOffs + 1] = EndNumber(fl) + (x + Power[used] * h) * Weight(fl.endOffs)
      BY <1>5, <1>9, <1>12, <3>4, EndDigitsAre
    <3>6. PICK w, q : w = Weight(fl.endOffs) /\ q = Power[used]
      OBVIOUS
    <3>7. (x + q * h) * w = x * w + (w * q) * h /\ x * w \in Nat /\ (w * q) * h \in Nat
      <4>1. \A a \in Nat, b \in Nat, c \in Nat, d \in Nat : (a + b * c) * d = a * d + (d * b) * c
        <5> TAKE a \in Nat, b \in Nat, c \in Nat, d \in Nat
        <5>1. (a + b * c) * d = a * d + (b * c) * d
          OBVIOUS
        <5>2. (b * c) * d = (d * b) * c
          OBVIOUS
        <5> QED BY <5>1, <5>2
      <4>2. w \in Nat /\ q \in Nat
        BY <2>1, <3>6
      <4>3. x * w \in Nat /\ w * q \in Nat
        BY <1>5, <4>2
      <4>4. (w * q) * h \in Nat
        BY <4>3
      <4> QED BY <1>5, <4>1, <4>2, <4>3, <4>4
    <3>8. EndDigits(B)[fl.endOffs + 1] = p.raw + Power[p.rawBits] * h
      BY <1>5, <1>13, <3>5, <3>6, <3>7
    <3>9. SymBits * (fl.endOffs + 1) >= p.rawBits
      <4>1. SymBits * (fl.endOffs + 1) = SymBits * fl.endOffs + SymBits
        BY <1>5, Scaled
      <4>2. used < SymBits
        BY <1>4, <1>5
      <4> HIDE DEF used
      <4> QED BY <1>5, <1>13, <2>1, <4>1, <4>2 DEF used
    <3>10. fl.endOffs + 1 \in Nat
      BY <1>5
    <3> QED BY <3>8, <3>9, <3>10 DEF Agrees
  <2> QED BY <1>5, <2>2, <2>3
<1> QED BY <1>1, <1>8, <1>11, <1>14 DEF out, fl, spare, f, l, D, B, p

\* The digits D begin with a number of the interval from a to b, whose
\* first outs digits are whole.  Q digits more are those of val's first.
Q == (CodeBits - 2) \div SymBits
Between(D, outs, a, b) ==
  \E k \in Nat : /\ k >= Q + 1
                 /\ a * Weight(k) <= Digits(D)[outs + k] * CodeTop
                 /\ Digits(D)[outs + k] * CodeTop < b * Weight(k)

\* The number that was cut off lies in the interval, whatever follows it.
LEMMA CodeSpan ==
  ASSUME NEW o \in Nat, NEW c \in Nat \ {0}, NEW v \in Nat, NEW z \in Nat, NEW e \in Nat, NEW u \in Nat,
         NEW a \in Nat \ {0}, NEW b \in Nat \ {0}, NEW p \in Nat, NEW n \in Nat, NEW w \in Nat, NEW g \in Nat, NEW r \in Nat,
         z = e * u, u * a = c * p, n = o * a + e * p, v <= z, z + u <= v + r, w < p,
         (n + w) * b <= g, g < (n + w + 1) * b
  PROVE  (o * c + v) * (a * b) <= g * c /\ g * c < (o * c + v + r) * (a * b)
<1>1. \A x \in Nat, y \in Nat : x * y \in Nat
  OBVIOUS
<1>2. \A x \in Nat, y \in Nat, m \in Nat : x <= y => x * m <= y * m
  OBVIOUS
<1>3. \A x \in Nat, y \in Nat, m \in Nat \ {0} : x < y => x * m < y * m
  OBVIOUS
<1>4. n * c = (o * c + z) * a
  <2>1. n * c = (o * a) * c + (e * p) * c
    <3>1. \A x \in Nat, y \in Nat : (x + y) * c = x * c + y * c
      OBVIOUS
    <3> QED BY <1>1, <3>1
  <2>2. (e * p) * c = e * (c * p) /\ (e * u) * a = e * (u * a) /\ (o * a) * c = (o * c) * a
    OBVIOUS
  <2>3. (o * c + z) * a = (o * c) * a + z * a
    <3>1. \A x \in Nat, y \in Nat : (x + y) * a = x * a + y * a
      OBVIOUS
    <3> QED BY <1>1, <3>1
  <2> QED BY <2>1, <2>2, <2>3
<1>5. (n + p) * c = (o * c + z + u) * a
  <2>1. (n + p) * c = n * c + p * c
    OBVIOUS
  <2>2. (o * c + z + u) * a = (o * c + z) * a + u * a
    <3>1. \A x \in Nat, y \in Nat : (x + y) * a = x * a + y * a
      OBVIOUS
    <3>2. o * c + z \in Nat
      BY <1>1
    <3> QED BY <3>1, <3>2
  <2>3. p * c = c * p
    OBVIOUS
  <2> QED BY <1>4, <2>1, <2>2, <2>3
<1>6. PICK x, y, zl, zh : x = o * c + v /\ y = o * c + v + r /\ zl = o * c + z /\ zh = o * c + z + u
  OBVIOUS
<1>7. x \in Nat /\ y \in Nat /\ zl \in Nat /\ zh \in Nat /\ x <= zl /\ zh <= y /\ n * c = zl * a /\ (n + p) * c = zh * a
  <2>1. o * c \in Nat
    BY <1>1
  <2> QED BY <1>4, <1>5, <1>6, <2>1
<1>8. x * (a * b) <= g * c
  <2>1. x * (a * b) <= zl * (a * b)
    BY <1>1, <1>2, <1>7
  <2>2. zl * (a * b) = (n * b) * c
    <3>1. zl * (a * b) = (zl * a) * b /\ (n * c) * b = (n * b) * c
      BY <1>7
    <3> QED BY <1>7, <3>1
  <2>3. n * b <= g /\ n * b \in Nat
    <3>1. n * b <= (n + w) * b
      BY <1>2
    <3> QED BY <1>1, <3>1
  <2>4. (n * b) * c <= g * c
    BY <1>2, <2>3
  <2>5. PICK q1, q2, q3 : q1 = x * (a * b) /\ q2 = zl * (a * b) /\ q3 = g * c
    OBVIOUS
  <2>6. q1 \in Nat /\ q2 \in Nat /\ q3 \in Nat
    BY <1>1, <1>7, <2>5
  <2> QED BY <2>1, <2>2, <2>4, <2>5, <2>6
<1>9. g * c < y * (a * b)
  <2>1. zh * (a * b) <= y * (a * b)
    BY <1>1, <1>2, <1>7
  <2>2. zh * (a * b) = ((n + p) * b) * c
    <3>1. zh * (a * b) = (zh * a) * b /\ ((n + p) * c) * b = ((n + p) * b) * c
      BY <1>7
    <3> QED BY <1>7, <3>1
  <2>3. g < (n + p) * b /\ (n + p) * b \in Nat
    <3>1. (n + w + 1) * b <= (n + p) * b
      <4>1. n + w + 1 <= n + p /\ n + w + 1 \in Nat /\ n + p \in Nat
        OBVIOUS
      <4> QED BY <1>2, <4>1
    <3>2. (n + w + 1) * b \in Nat /\ (n + p) * b \in Nat
      BY <1>1
    <3> QED BY <3>1, <3>2
  <2>4. g * c < ((n + p) * b) * c
    BY <1>3, <2>3
  <2>5. PICK q1, q2, q3 : q1 = y * (a * b) /\ q2 = zh * (a * b) /\ q3 = g * c
    OBVIOUS
  <2>6. q1 \in Nat /\ q2 \in Nat /\ q3 \in Nat
    BY <1>1, <1>7, <2>5
  <2> QED BY <2>1, <2>2, <2>4, <2>5, <2>6
<1> QED BY <1>6, <1>8, <1>9

\* How the bits of val are bytes.
LEMMA QIs ==
  /\ Q \in Nat /\ CodeExtra \in 1..SymBits /\ SymBits * Q + CodeExtra = CodeBits - 1
  /\ SymBits - CodeExtra \in 0..SymBits - 1 /\ Q >= 2
  /\ CodeTop = Weight(Q) * Pow[CodeExtra] /\ CodeTop * Pow[SymBits - CodeExtra] = Weight(Q + 1)
<1>1. SymBits \in Nat \ {0, 1} /\ CodeBits \in Nat /\ CodeBits >= 2 * SymBits + 2
  BY WidthsFit
<1> DEFINE n == CodeBits - 2
           d == n \div SymBits
           m == n % SymBits
<1>2. n \in Nat /\ d \in Nat /\ m \in 0..SymBits - 1 /\ n = SymBits * d + m
  <2>1. n \in Nat
    BY <1>1
  <2> HIDE DEF n
  <2> QED BY <1>1, <2>1, Division
<1>3. Q = d /\ CodeExtra = m + 1
  BY DEF Q, CodeExtra
<1>4. d >= 2
  <2> SUFFICES ASSUME d \in {0, 1} PROVE FALSE
    BY <1>2
  <2>1. SymBits * d <= SymBits
    BY <1>1
  <2>2. n >= 2 * SymBits
    BY <1>1
  <2> QED BY <1>1, <1>2, <2>1, <2>2
<1> HIDE DEF d, m
<1>5. PICK s : s = SymBits * d
  OBVIOUS
<1>6. s \in Nat /\ s + CodeExtra = CodeBits - 1 /\ CodeExtra \in 1..SymBits /\ SymBits - CodeExtra \in 0..SymBits - 1
  <2>1. s \in Nat
    BY <1>1, <1>2, <1>5
  <2> QED BY <1>1, <1>2, <1>3, <1>5, <2>1
<1>7. CodeTop = Weight(d) * Pow[CodeExtra]
  <2>1. Power[s + CodeExtra] = Power[s] * Power[CodeExtra]
    BY <1>6, PowerSum
  <2>2. Pow[CodeExtra] = Power[CodeExtra]
    <3>1. CodeExtra \in 0..CodeBits
      BY <1>1, <1>6
    <3> QED BY <3>1, PowerPow
  <2> QED BY <1>5, <1>6, <2>1, <2>2, TopIs DEF Weight
<1>8. CodeTop * Pow[SymBits - CodeExtra] = Weight(d + 1)
  <2> DEFINE x == SymBits - CodeExtra
  <2>1. x \in Nat /\ x \in 0..CodeBits /\ (CodeBits - 1) + x = s + SymBits /\ CodeBits - 1 \in Nat
    BY <1>1, <1>6
  <2> HIDE DEF x
  <2>2. Power[(CodeBits - 1) + x] = Power[CodeBits - 1] * Power[x]
    BY <2>1, PowerSum
  <2>3. Pow[x] = Power[x]
    BY <2>1, PowerPow
  <2>4. SymBits * (d + 1) = s + SymBits
    BY <1>2, <1>5, Scaled
  <2> QED BY <2>1, <2>2, <2>3, <2>4, TopIs DEF Weight, x
<1> QED BY <1>1, <1>2, <1>3, <1>4, <1>5, <1>6, <1>7, <1>8

\* What done() writes lies in the last interval, and its raw bits are there.
LEMMA DoneBetween ==
  ASSUME NEW rc, EncoderOK(rc), EncoderAt(rc), Tell(rc) <= SymBits * rc.storage
  PROVE  LET out == Done(rc)
             p == PlaceOf(rc)
         IN  /\ out.error = 0 /\ out \in Coder /\ \A i \in DOMAIN out.buf : out.buf[i] \in 0..SymMax
             /\ Between(FrontOf(out), p.outs, p.low, p.low + p.rng)
             /\ Agrees(BackOf(out), p)
<1> DEFINE out == Done(rc)
           fl == FlushWindow(FrontDone(rc))
           f == FinalBits(rc)
           l == f.l
           k == Bytes(l)
           s == SymBits * k - l
           u == Power[CodeBits - 1 - l]
           i == Q + 1
           D == FrontOf(out)
           o == OutNumber(rc)
           p == PlaceOf(rc)
<1>1. /\ out.error = 0 /\ fl.error = 0 /\ out \in Coder /\ \A j \in DOMAIN out.buf : out.buf[j] \in 0..SymMax
      /\ \E w \in 0..Power[s] - 1 : Digits(D)[fl.offs] = FrontNumber(fl) + w
      /\ Agrees(BackOf(out), p)
  BY DoneNumbers
<1>2. /\ l \in 0..CodeBits - 1 /\ u \in Nat \ {0} /\ f.end \in Nat /\ rc.val <= f.end /\ f.end + u <= rc.val + rc.rng
  BY FinalCode
<1>3. /\ k \in Nat /\ s \in 0..SymBits - 1 /\ u * Weight(k) = CodeTop * Power[s]
  BY <1>2, LastBytes
<1>4. /\ Clean(fl) /\ fl.offs = Pending(rc) + k
      /\ \E e \in Nat : /\ f.end = e * u
                        /\ FrontNumber(fl) = o * Weight(k) + e * Power[s]
  BY <1>1, FlushedFront
<1>5. /\ rc \in Coder /\ rc.val \in Nat /\ rc.rng \in Nat /\ o \in Nat /\ Pending(rc) \in Nat /\ FrontNumber(fl) \in Nat
  BY <1>4, AtTypes, CoderTypes, OutNumberIs, NumbersAre DEF EncoderAt
<1> HIDE DEF out, fl, f, k
<1>6. D \in ByteStream
  BY <1>1, BufferStreams
<1> HIDE DEF D
<1>7. PICK w \in 0..Power[s] - 1 : Digits(D)[fl.offs] = FrontNumber(fl) + w
  BY <1>1
<1>8. PICK e \in Nat : f.end = e * u /\ FrontNumber(fl) = o * Weight(k) + e * Power[s]
  BY <1>4
<1>9. i \in Nat /\ i >= Q + 1 /\ k + i \in Nat /\ k + i >= Q + 1 /\ Weight(k + i) = Weight(k) * Weight(i)
      /\ Weight(k) \in Nat \ {0} /\ Weight(i) \in Nat \ {0}
  <2>1. i \in Nat /\ i >= Q + 1 /\ k + i \in Nat /\ k + i >= Q + 1
    BY <1>3, QIs
  <2> QED BY <1>3, <2>1, WeightSum, WeightIs
<1> HIDE DEF i
<1>10. /\ Digits(D)[fl.offs] * Weight(i) <= Digits(D)[fl.offs + i]
       /\ Digits(D)[fl.offs + i] < (Digits(D)[fl.offs] + 1) * Weight(i)
       /\ Digits(D)[fl.offs + i] \in Nat
  <2>1. fl.offs \in Nat /\ fl.offs + i \in Nat
    BY <1>3, <1>4, <1>5, <1>9
  <2>2. D \in Stream
    BY <1>6 DEF Stream, ByteStream
  <2> QED BY <1>6, <1>9, <2>1, <2>2, DigitsGrow, DigitsAre
<1>11. PICK g : g = Digits(D)[fl.offs + i]
  OBVIOUS
<1>12. w \in Nat /\ w < Power[s] /\ Power[s] \in Nat
  <2>1. s \in Nat
    BY <1>3
  <2> HIDE DEF s
  <2>2. Power[s] \in Nat
    BY <2>1, PowerStep
  <2> QED BY <2>2
<1>13. CodeTop \in Nat \ {0}
  BY Widths
<1>14. /\ (o * CodeTop + rc.val) * (Weight(k) * Weight(i)) <= g * CodeTop
       /\ g * CodeTop < (o * CodeTop + rc.val + rc.rng) * (Weight(k) * Weight(i))
  <2> DEFINE n == FrontNumber(fl)
             z == f.end
             a == Weight(k)
             b == Weight(i)
             q == Power[s]
  <2>1. /\ z \in Nat /\ u \in Nat /\ a \in Nat \ {0} /\ b \in Nat \ {0} /\ q \in Nat /\ n \in Nat /\ w \in Nat /\ g \in Nat
        /\ z = e * u /\ u * a = CodeTop * q /\ n = o * a + e * q /\ rc.val <= z /\ z + u <= rc.val + rc.rng /\ w < q
        /\ (n + w) * b <= g /\ g < (n + w + 1) * b
    BY <1>2, <1>3, <1>5, <1>7, <1>8, <1>9, <1>10, <1>11, <1>12
  <2> HIDE DEF n, z, a, b, q, u, o
  <2>2. (o * CodeTop + rc.val) * (a * b) <= g * CodeTop /\ g * CodeTop < (o * CodeTop + rc.val + rc.rng) * (a * b)
    <3>1. o \in Nat /\ rc.val \in Nat /\ rc.rng \in Nat
      BY <1>5
    <3> QED BY <1>13, <2>1, <3>1, CodeSpan
  <2> QED BY <2>2 DEF a, b
<1>15. Between(D, p.outs, p.low, p.low + p.rng)
  <2>1. p.outs = Pending(rc) /\ p.low = o * CodeTop + rc.val /\ p.rng = rc.rng
    BY DEF PlaceOf, Whole
  <2>2. fl.offs + i = p.outs + (k + i)
    BY <1>3, <1>4, <1>5, <1>9, <2>1
  <2> HIDE DEF o, p
  <2>3. /\ p.low * Weight(k + i) <= Digits(D)[p.outs + (k + i)] * CodeTop
        /\ Digits(D)[p.outs + (k + i)] * CodeTop < (p.low + p.rng) * Weight(k + i)
    BY <1>9, <1>11, <1>14, <2>1, <2>2
  <2> QED BY <1>9, <2>3 DEF Between
<1> QED BY <1>1, <1>15 DEF out, D

-----------------------------------------------------------------------------
(* pad_to_bits(): zeros up to the size of the packet.                       *)

\* Zero bits more at the end.
Padded(p, q) ==
  /\ q.low = p.low /\ q.rng = p.rng /\ q.outs = p.outs /\ q.raw = p.raw
  /\ p.rawBits \in Nat /\ q.rawBits \in Nat /\ q.rawBits >= p.rawBits

\* Zeros on top do not change a number.
LEMMA ZeroDigits ==
  ASSUME NEW B \in Stream, NEW a \in Nat, NEW n \in Nat, \A i \in 0..n - 1 : B[a + i] = 0
  PROVE  EndDigits(B)[a + n] = EndDigits(B)[a]
<1> DEFINE T == {i \in Nat : EndDigits(B)[a + i] = EndDigits(B)[a]}
<1>1. 0 \in T
  OBVIOUS
<1>2. ASSUME NEW i \in 0..n - 1, i \in T PROVE i + 1 \in T
  <2>1. a + i \in Nat /\ i + 1 \in Nat /\ a + (i + 1) = (a + i) + 1 /\ B[a + i] = 0
    OBVIOUS
  <2>2. EndDigits(B)[(a + i) + 1] = EndDigits(B)[a + i] + 0 * Weight(a + i) /\ EndDigits(B)[a + i] \in Nat
    BY <2>1, EndDigitsAre
  <2>3. Weight(a + i) \in Nat
    BY <2>1, WeightIs
  <2>4. EndDigits(B)[(a + i) + 1] = EndDigits(B)[a + i]
    <3>1. \A w \in Nat : 0 * w = 0
      OBVIOUS
    <3> QED BY <2>2, <2>3, <3>1
  <2>5. EndDigits(B)[a + i] = EndDigits(B)[a]
    BY <1>2
  <2> QED BY <2>1, <2>4, <2>5
<1>3. 0..n \subseteq T
  <2> HIDE DEF T
  <2> QED BY <1>1, <1>2, InductionTo
<1> QED BY <1>3

\* Raw bits of zero.
LEMMA ZeroBits ==
  ASSUME NEW rc, EncoderAt(rc), NEW n \in 0..SymBits - 1, EncBits(rc, 0, n).error = 0
  PROVE  LET out == EncBits(rc, 0, n)
         IN  rc.error = 0 /\ EncoderAt(out) /\ Padded(PlaceOf(rc), PlaceOf(out))
<1> DEFINE out == EncBits(rc, 0, n)
           p == PlaceOf(rc)
           q == PlaceOf(out)
<1>1. n \in 0..CodeBits - SymBits + 1 /\ n \in 0..CodeBits /\ n \in Nat
  BY Widths
<1>2. 0 < Pow[n] /\ 0 \in Nat
  BY <1>1, PowPositive
<1>3. rc.error = 0 /\ EncoderAt(out) /\ Grows(p, q, 0, n)
  BY <1>1, <1>2, EncBitsMoves
<1> HIDE DEF out
<1>4. IsPlace(p)
  BY PlaceOfIs
<1> HIDE DEF p, q
<1>5. p.raw \in Nat /\ p.rawBits \in Nat
  BY <1>4 DEF IsPlace, Place
<1>6. q = [low |-> p.low, rng |-> p.rng, outs |-> p.outs, raw |-> p.raw + 0 * Power[p.rawBits], rawBits |-> p.rawBits + n]
  BY <1>3 DEF Grows
<1>7. p.raw + 0 * Power[p.rawBits] = p.raw
  <2>1. \A x \in Nat, y \in Nat : x + 0 * y = x
    OBVIOUS
  <2> QED BY <1>5, <2>1, PowerStep
<1>8. Padded(p, q)
  BY <1>1, <1>5, <1>6, <1>7 DEF Padded
<1> QED BY <1>3, <1>8 DEF out, p, q

\* w is rc with n bytes of zeros more at the end.
Zeroed(w, rc, n) ==
  /\ w \in Coder /\ DOMAIN w.buf = DOMAIN rc.buf
  /\ \A i \in DOMAIN rc.buf : w.buf[i] = IF i \in rc.storage - rc.endOffs - n..rc.storage - rc.endOffs - 1 THEN 0 ELSE rc.buf[i]
  /\ w.endOffs = rc.endOffs + n /\ w.nbitsTotal = rc.nbitsTotal + SymBits * n /\ w.storage = rc.storage /\ w.offs = rc.offs
  /\ w.endWindow = rc.endWindow /\ w.nendBits = rc.nendBits /\ w.rng = rc.rng /\ w.val = rc.val /\ w.ext = rc.ext /\ w.rem = rc.rem

\* Bytes of zero at the end.
LEMMA ZeroedAt ==
  ASSUME NEW rc, EncoderAt(rc), rc.nendBits = 0, NEW n \in Nat, rc.offs + rc.endOffs + n <= rc.storage, NEW w, Zeroed(w, rc, n)
  PROVE  EncoderAt(w) /\ Padded(PlaceOf(rc), PlaceOf(w))
<1>1. /\ rc \in Coder /\ rc.storage \in Nat /\ rc.offs \in Nat /\ rc.endOffs \in Nat /\ rc.nbitsTotal \in Nat /\ rc.buf \in Contents
      /\ Clean(rc) /\ Sound(rc) /\ SymBits \in Nat /\ CodeBits \in Nat /\ rc.endWindow \in Nat /\ Pending(rc) \in Nat
  BY AtTypes, CoderTypes, Widths DEF EncoderAt, Sound
<1>3. PICK y : y = SymBits * n
  OBVIOUS
<1>4. y \in Nat /\ n * SymBits = y
  BY <1>1, <1>3
<1>2. /\ DOMAIN w.buf = DOMAIN rc.buf
      /\ \A i \in DOMAIN rc.buf : w.buf[i] = IF i \in rc.storage - rc.endOffs - n..rc.storage - rc.endOffs - 1 THEN 0 ELSE rc.buf[i]
  BY DEF Zeroed
<1>5. w \in Coder
  BY DEF Zeroed
<1>6. /\ w.endOffs = rc.endOffs + n /\ w.nbitsTotal = rc.nbitsTotal + y /\ w.storage = rc.storage /\ w.offs = rc.offs
      /\ w.endWindow = rc.endWindow /\ w.nendBits = rc.nendBits /\ w.rng = rc.rng /\ w.val = rc.val /\ w.ext = rc.ext /\ w.rem = rc.rem
  BY <1>3 DEF Zeroed
<1>7. Clean(w)
  <2>1. \A i \in DOMAIN w.buf : w.buf[i] \in 0..SymMax
    <3> TAKE i \in DOMAIN w.buf
    <3>1. rc.buf[i] \in 0..SymMax /\ w.buf[i] \in {0, rc.buf[i]}
      BY <1>1, <1>2 DEF Clean
    <3> QED BY <3>1, BaseIs
  <2>2. w.offs + w.endOffs <= w.storage
    BY <1>1, <1>6
  <2> QED BY <1>5, <1>6, <2>1, <2>2 DEF Clean
<1>8. /\ FrontOf(rc) \in Stream /\ BackOf(rc) \in Stream
      /\ \A i \in 0..rc.storage - 1 : /\ i \in DOMAIN rc.buf /\ FrontOf(rc)[i] = rc.buf[i]
                                      /\ BackOf(rc)[i] = rc.buf[rc.storage - 1 - i]
  BY <1>1, StreamsAre
<1>9. /\ FrontOf(w) \in Stream /\ BackOf(w) \in Stream
      /\ \A i \in 0..rc.storage - 1 : FrontOf(w)[i] = w.buf[i] /\ BackOf(w)[i] = w.buf[rc.storage - 1 - i]
  BY <1>6, <1>7, StreamsAre
<1>10. FrontNumber(w) = FrontNumber(rc)
  <2>1. \A i \in 0..rc.offs - 1 : FrontOf(w)[i] = FrontOf(rc)[i]
    <3> TAKE i \in 0..rc.offs - 1
    <3>1. i \in 0..rc.storage - 1 /\ ~(i \in rc.storage - rc.endOffs - n..rc.storage - rc.endOffs - 1)
      BY <1>1
    <3> QED BY <1>2, <1>8, <1>9, <3>1
  <2> QED BY <1>1, <1>6, <1>8, <1>9, <2>1, SameNumbers DEF FrontNumber
<1>11. EndNumber(w) = EndNumber(rc)
  <2>1. \A i \in 0..rc.endOffs - 1 : BackOf(w)[i] = BackOf(rc)[i]
    <3> TAKE i \in 0..rc.endOffs - 1
    <3>1. PICK j : j = rc.storage - 1 - i
      OBVIOUS
    <3>2. i \in 0..rc.storage - 1 /\ j \in 0..rc.storage - 1 /\ ~(j \in rc.storage - rc.endOffs - n..rc.storage - rc.endOffs - 1)
      BY <1>1, <3>1
    <3>3. w.buf[j] = rc.buf[j]
      BY <1>2, <1>8, <3>2
    <3> QED BY <1>8, <1>9, <3>1, <3>2, <3>3
  <2>2. EndDigits(BackOf(w))[rc.endOffs] = EndNumber(rc)
    <3>1. rc.endOffs \in Nat /\ BackOf(w) \in Stream /\ BackOf(rc) \in Stream
      BY <1>1, <1>8, <1>9
    <3>2. EndDigits(BackOf(w))[rc.endOffs] = EndDigits(BackOf(rc))[rc.endOffs]
      BY ONLY <2>1, <3>1, SameNumbers
    <3> QED BY <3>2, Zenon DEF EndNumber
  <2>3. \A i \in 0..n - 1 : BackOf(w)[rc.endOffs + i] = 0
    <3> TAKE i \in 0..n - 1
    <3>1. PICK a, j : a = rc.endOffs + i /\ j = rc.storage - 1 - a
      OBVIOUS
    <3>2. a \in 0..rc.storage - 1 /\ j \in 0..rc.storage - 1 /\ j \in rc.storage - rc.endOffs - n..rc.storage - rc.endOffs - 1
      BY <1>1, <3>1
    <3>3. w.buf[j] = 0
      BY <1>2, <1>8, <3>2
    <3> QED BY <1>9, <3>1, <3>2, <3>3
  <2>4. EndDigits(BackOf(w))[rc.endOffs + n] = EndDigits(BackOf(w))[rc.endOffs]
    <3>1. PICK B, a : B = BackOf(w) /\ a = rc.endOffs
      OBVIOUS
    <3>2. B \in Stream /\ a \in Nat /\ \A i \in 0..n - 1 : B[a + i] = 0
      BY <1>1, <1>9, <2>3, <3>1
    <3>3. EndDigits(B)[a + n] = EndDigits(B)[a]
      BY <3>2, ZeroDigits
    <3> QED BY <3>1, <3>3
  <2> QED BY <1>6, <2>2, <2>4 DEF EndNumber
<1>12. rc.endWindow = 0
  <2>1. rc.endWindow < Power[0]
    BY DEF EncoderAt
  <2> QED BY <1>1, <2>1, PowerStep
<1>13. RawNumber(w) = RawNumber(rc)
  <2>1. \A k \in Nat : 0 * Weight(k) = 0
    BY WeightIs
  <2>2. rc.endOffs + n \in Nat
    BY <1>1
  <2> QED BY <1>1, <1>6, <1>11, <1>12, <2>1, <2>2 DEF RawNumber
<1>14. EndBits(w) = EndBits(rc) + y /\ EndBits(rc) \in Nat
  <2>1. SymBits * (rc.endOffs + n) = SymBits * rc.endOffs + y
    BY <1>1, <1>3, Scaled
  <2>2. SymBits * rc.endOffs \in Nat
    BY <1>1, Scaled
  <2> QED BY <1>1, <1>4, <1>6, <2>1, <2>2 DEF EndBits
<1>15. Pending(w) = Pending(rc) /\ KeptNumber(w) = KeptNumber(rc)
  BY <1>6, <1>10 DEF Pending, KeptNumber
<1>16. Whole(w) = Whole(rc)
  <2>1. OutNumber(w) = OutNumber(rc)
    BY <1>6, <1>15 DEF OutNumber
  <2> QED BY <1>6, <2>1 DEF Whole
<1>17. EncoderAt(w)
  <2>1. Sound(w)
    BY <1>1, <1>6, <1>7 DEF Sound
  <2>2. CarryFits(w, w.val + w.rng)
    BY <1>6 DEF EncoderAt, CarryFits
  <2>3. w.nbitsTotal = CodeBits + 1 + SymBits * Pending(w) + EndBits(w)
    <3>1. rc.nbitsTotal = CodeBits + 1 + SymBits * Pending(rc) + EndBits(rc)
      BY DEF EncoderAt
    <3>2. SymBits * Pending(rc) \in Nat
      BY <1>1
    <3> QED BY <1>1, <1>4, <1>6, <1>14, <1>15, <3>1, <3>2
  <2> QED BY <1>6, <2>1, <2>2, <2>3 DEF EncoderAt
<1>18. Padded(PlaceOf(rc), PlaceOf(w))
  BY <1>4, <1>6, <1>13, <1>14, <1>15, <1>16 DEF Padded, PlaceOf
<1> QED BY <1>17, <1>18

\* The same, as pad_to_bits() fills them.
LEMMA ZeroBytes ==
  ASSUME NEW rc, EncoderAt(rc), rc.nendBits = 0, NEW n \in Nat, rc.offs + rc.endOffs + n <= rc.storage,
         NEW f, f = [i \in DOMAIN rc.buf |-> IF i \in rc.storage - rc.endOffs - n..rc.storage - rc.endOffs - 1
                                             THEN 0 ELSE rc.buf[i]],
         NEW w, w = [rc EXCEPT !.buf = f, !.endOffs = rc.endOffs + n, !.nbitsTotal = rc.nbitsTotal + n * SymBits]
  PROVE  EncoderAt(w) /\ Padded(PlaceOf(rc), PlaceOf(w))
<1>1. /\ rc \in Coder /\ rc.storage \in Nat /\ rc.offs \in Nat /\ rc.endOffs \in Nat /\ rc.nbitsTotal \in Nat /\ rc.buf \in Contents
      /\ Clean(rc) /\ Sound(rc) /\ SymBits \in Nat /\ CodeBits \in Nat /\ rc.endWindow \in Nat /\ Pending(rc) \in Nat
  BY AtTypes, CoderTypes, Widths DEF EncoderAt, Sound
<1>2. f \in Contents /\ DOMAIN f = DOMAIN rc.buf
  <2>1. PICK m \in Sizes : rc.buf \in [0..m - 1 -> Nat]
    BY <1>1 DEF Contents
  <2>2. f \in [0..m - 1 -> Nat]
    BY <2>1
  <2> QED BY <2>1, <2>2 DEF Contents
<1>3. PICK y : y = SymBits * n
  OBVIOUS
<1>4. y \in Nat /\ n * SymBits = y
  BY <1>1, <1>3
<1>5. w \in Coder
  <2> DEFINE x == [rc EXCEPT !.buf = f]
             z == [x EXCEPT !.endOffs = rc.endOffs + n]
             v == [z EXCEPT !.nbitsTotal = rc.nbitsTotal + n * SymBits]
  <2>1. x \in Coder
    BY <1>1, <1>2, CoderFields
  <2>2. z \in Coder
    <3> HIDE DEF x
    <3>1. rc.endOffs + n \in Nat
      BY <1>1
    <3> QED BY <2>1, <3>1, CoderFields
  <2>3. v \in Coder
    <3> HIDE DEF z
    <3>1. rc.nbitsTotal + n * SymBits \in Nat
      BY <1>1, <1>4
    <3> QED BY <2>2, <3>1, CoderFields
  <2>4. v = w
    BY <1>1, Zenon DEF Coder, Records
  <2> QED BY <2>3, <2>4
<1>6. /\ w.buf = f /\ w.endOffs = rc.endOffs + n /\ w.nbitsTotal = rc.nbitsTotal + y /\ w.storage = rc.storage /\ w.offs = rc.offs
      /\ w.endWindow = rc.endWindow /\ w.nendBits = rc.nendBits /\ w.rng = rc.rng /\ w.val = rc.val /\ w.ext = rc.ext /\ w.rem = rc.rem
  BY <1>1, <1>4 DEF Coder, Records
<1>7. Zeroed(w, rc, n)
  BY <1>2, <1>3, <1>5, <1>6 DEF Zeroed
<1> QED BY <1>7, ZeroedAt

\* One padding after the other.
LEMMA PaddedOn ==
  ASSUME NEW p, NEW q, NEW r, Padded(p, q), Padded(q, r)
  PROVE  Padded(p, r)
BY DEF Padded

\* Padding that jumps no raw bits adds zeros only.
LEMMA PadMoves ==
  ASSUME NEW rc, EncoderOK(rc), EncoderAt(rc), SymBits * rc.storage > rc.nbitsTotal,
         PadBytes(rc, SymBits * rc.storage).bytes > 0 => PadBytes(rc, SymBits * rc.storage).aligned.nendBits = 0,
         PadToBits(rc, SymBits * rc.storage).error = 0
  PROVE  LET out == PadToBits(rc, SymBits * rc.storage)
         IN  rc.error = 0 /\ EncoderAt(out) /\ Padded(PlaceOf(rc), PlaceOf(out))
<1> DEFINE target == SymBits * rc.storage
           left == target - rc.nbitsTotal
           partial == (SymBits - (rc.nendBits % SymBits)) % SymBits
           p == PadBytes(rc, target)
           r == p.aligned
           n == p.bytes
<1>1. rc \in Coder /\ rc.storage \in Nat /\ rc.nbitsTotal \in Nat /\ rc.nendBits \in Nat
  BY OKTypes, CoderTypes
<1>2. target \in Nat /\ SymBits \in Nat \ {0} /\ CodeBits \in Nat /\ SymBits <= CodeBits - SymBits + 1 /\ 0 \in Nat
  BY <1>1, Scaled, Widths
<1>3. ~(target <= rc.nbitsTotal)
  BY <1>1, <1>2
<1>4. rc.error = 0 /\ EncoderAt(PadToBits(rc, target)) /\ Padded(PlaceOf(rc), PlaceOf(PadToBits(rc, target)))
  <2>1. left \in Nat
    BY <1>1, <1>2, <1>3
  <2>2. partial \in 0..SymBits - 1
    <3>1. rc.nendBits % SymBits \in 0..SymBits - 1
      BY <1>1, <1>2
    <3> DEFINE x == rc.nendBits % SymBits
    <3> HIDE DEF x
    <3>2. SymBits - x \in Nat
      BY <1>2, <3>1 DEF x
    <3>3. (SymBits - x) % SymBits \in 0..SymBits - 1
      BY <1>2, <3>2
    <3> QED BY <3>3 DEF x
  <2>3. r = (IF left >= partial THEN EncBits(rc, 0, partial) ELSE rc)
        /\ n = (IF left >= partial THEN left - partial ELSE left) \div SymBits
    BY DEF PadBytes
  <2> DEFINE whole == IF left >= partial THEN left - partial ELSE left
  <2> HIDE DEF p, partial, left
  <2>4. EncoderOK(r) /\ r.storage = rc.storage /\ r.nbitsTotal + whole = target
        /\ whole \in Nat /\ r.nbitsTotal \in Nat
    <3>1. CASE left >= partial
      <4>1. partial \in 0..CodeBits - SymBits + 1 /\ partial \in Nat
        BY <1>2, <2>2
      <4>2. r = EncBits(rc, 0, partial)
        BY <2>3, <3>1
      <4>3. Stepped(r, rc)
        BY <1>2, <4>1, <4>2, RawSteps
      <4>4. r.nbitsTotal = rc.nbitsTotal + partial
        <5>1. rc.nendBits <= CodeBits /\ Accounted(rc)
          BY DEF EncoderOK, Accounted
        <5> HIDE DEF r
        <5>2. EncBits(rc, 0, partial).nbitsTotal = rc.nbitsTotal + partial
          BY <1>1, <1>2, <4>1, <5>1, EncBitsIs
        <5> QED BY <4>2, <5>2
      <4>5. EncoderOK(r) /\ r.storage = rc.storage
        BY <4>3 DEF Stepped
      <4>6. whole = left - partial
        BY <3>1
      <4> HIDE DEF target, whole
      <4> QED BY <1>1, <1>2, <2>1, <2>2, <3>1, <4>1, <4>4, <4>5, <4>6 DEF left
    <3>2. CASE ~(left >= partial)
      <4>1. r = rc /\ whole = left
        BY <2>3, <3>2
      <4> HIDE DEF target, whole
      <4> QED BY <1>1, <1>2, <2>1, <4>1 DEF left
    <3> QED BY <3>1, <3>2
  <2> HIDE DEF whole
  <2>5. n \in Nat /\ whole % SymBits \in 0..SymBits - 1 /\ whole = SymBits * n + (whole % SymBits)
    <3>1. n = whole \div SymBits
      BY <2>3 DEF whole
    <3> HIDE DEF n
    <3> QED BY <1>2, <2>4, <3>1, Division
  <2> HIDE DEF r, n
  <2> DEFINE rest == whole % SymBits
             y == SymBits * n
  <2>6. rest \in 0..SymBits - 1 /\ y \in Nat /\ whole = y + rest /\ n * SymBits = y
    BY <1>2, <2>5
  <2> HIDE DEF rest, y
  <2> DEFINE room == r.storage - r.offs - r.endOffs
             m == IF n < room THEN n ELSE room
             w == [r EXCEPT !.buf = [i \in DOMAIN r.buf |->
                                       IF i \in r.storage - r.endOffs - m..r.storage - r.endOffs - 1
                                       THEN 0 ELSE r.buf[i]],
                            !.endOffs = @ + m,
                            !.error = IF m < n THEN 1 ELSE @,
                            !.nbitsTotal = @ + n * SymBits]
             end == IF n > 0 THEN w ELSE r
  <2>7. PadToBits(rc, target) = EncBits(end, 0, target - end.nbitsTotal)
    BY <1>3, Zenon DEF PadToBits, r, n, p
  <2>8. EncoderOK(w) /\ w.nbitsTotal = r.nbitsTotal + n * SymBits
    <3>1. Balanced(r)
      <4>1. ~Overfull(r)
        BY <1>2, <2>4 DEF Overfull
      <4> QED BY <2>4, <4>1 DEF EncoderOK
    <3>2. r \in Coder /\ Pending(r) \in Nat /\ r.endOffs \in Nat /\ r.nendBits \in Nat /\ r.storage \in Nat
      BY <2>4, OKTypes, CoderTypes
    <3> DEFINE q == Pending(r) + r.endOffs
               x == SymBits * q
    <3>7. q \in Nat
      BY <3>2
    <3>3. q \in Nat /\ x \in Nat /\ SymBits * (q + n) = x + y
      <4> HIDE DEF q
      <4> QED BY <2>5, <3>7, Scaled DEF y
    <3>4. r.nbitsTotal = CodeBits + 1 + x + r.nendBits
      BY <3>1 DEF Balanced
    <3> HIDE DEF x
    <3>5. x + y <= target
      <4> HIDE DEF target
      <4> QED BY <1>2, <2>4, <2>6, <3>2, <3>3, <3>4
    <3>6. SymBits * (Pending(r) + r.endOffs + n) <= SymBits * r.storage
      BY <2>4, <3>3, <3>5
    <3> QED BY <2>4, <2>5, <3>1, <3>6, PaddedIs, ZenonT(60)
  <2>9. w.storage = r.storage
    <3>1. r \in Coder
      BY <2>4, OKTypes
    <3> HIDE DEF m
    <3> QED BY <3>1 DEF Coder, Records
  <2> HIDE DEF w
  <2>10. EncoderOK(end) /\ end.storage = rc.storage /\ end.nbitsTotal + rest = target
    <3>1. CASE n > 0
      <4>1. end = w
        BY <3>1
      <4> HIDE DEF target
      <4> QED BY <1>2, <2>4, <2>6, <2>8, <2>9, <4>1
    <3>2. CASE ~(n > 0)
      <4>1. end = r /\ n = 0
        BY <2>5, <3>2
      <4>2. y = 0
        BY <1>2, <4>1 DEF y
      <4> HIDE DEF target
      <4> QED BY <1>2, <2>4, <2>6, <4>1, <4>2
    <3> QED BY <3>1, <3>2
  <2>14. n > 0 => r.nendBits = 0
    BY DEF n, r, p
  <2> HIDE DEF target
  <2>11. end.nbitsTotal \in Nat /\ end \in Coder
    BY <2>10, OKTypes
  <2>12. target - end.nbitsTotal = rest /\ rest \in Nat /\ rest \in 0..SymBits - 1
    BY <1>2, <2>6, <2>10, <2>11
  <2>13. EncBits(end, 0, rest).error = 0
    BY <2>7, <2>12 DEF target
  <2>15. end.error = 0
    BY <1>2, <2>11, <2>12, <2>13, EncBitsErrorKept
  <2>16. r \in Coder /\ r.endOffs \in Nat /\ r.offs \in Nat /\ r.storage \in Nat
    BY <2>4, OKTypes, CoderTypes
  <2>17. n > 0 => m = n /\ r.error = 0 /\ w.error = r.error
    <3> SUFFICES ASSUME n > 0 PROVE m = n /\ r.error = 0 /\ w.error = r.error
      OBVIOUS
    <3>1. w.error = IF m < n THEN 1 ELSE r.error
      <4> DEFINE g == [i \in DOMAIN r.buf |-> IF i \in r.storage - r.endOffs - m..r.storage - r.endOffs - 1 THEN 0 ELSE r.buf[i]]
                 b == IF m < n THEN 1 ELSE r.error
      <4>1. w = [r EXCEPT !.buf = g, !.endOffs = r.endOffs + m, !.error = b, !.nbitsTotal = r.nbitsTotal + n * SymBits]
        BY Zenon DEF w
      <4> HIDE DEF g, b, m
      <4>2. w.error = b
        BY <2>16, <4>1 DEF Coder, Records
      <4> QED BY <4>2 DEF b
    <3>2. end = w
      OBVIOUS
    <3>3. ~(m < n)
      BY <2>15, <3>1, <3>2
    <3>4. m = n
      BY <2>5, <2>16, <3>3
    <3> QED BY <2>15, <3>1, <3>2, <3>3, <3>4
  <2>18. r.error = 0
    <3>1. CASE n > 0
      BY <2>17, <3>1
    <3>2. CASE ~(n > 0)
      BY <2>15, <3>2
    <3> QED BY <3>1, <3>2
  <2>19. rc.error = 0 /\ EncoderAt(r) /\ Padded(PlaceOf(rc), PlaceOf(r))
    <3>1. CASE left >= partial
      <4>1. r = EncBits(rc, 0, partial)
        BY <2>3, <3>1 DEF r
      <4> QED BY <2>2, <2>18, <4>1, ZeroBits
    <3>2. CASE ~(left >= partial)
      <4>1. r = rc
        BY <2>3, <3>2 DEF r
      <4>2. Padded(PlaceOf(rc), PlaceOf(rc))
        <5>1. IsPlace(PlaceOf(rc))
          BY PlaceOfIs
        <5> DEFINE pl == PlaceOf(rc)
        <5> HIDE DEF pl
        <5>2. pl.rawBits \in Nat
          BY <5>1 DEF IsPlace, Place, pl
        <5> QED BY <5>2 DEF Padded, pl
      <4> QED BY <2>18, <4>1, <4>2
    <3> QED BY <3>1, <3>2
  <2>20. EncoderAt(end) /\ Padded(PlaceOf(rc), PlaceOf(end))
    <3>1. CASE n > 0
      <4> DEFINE f == [i \in DOMAIN r.buf |-> IF i \in r.storage - r.endOffs - n..r.storage - r.endOffs - 1
                                               THEN 0 ELSE r.buf[i]]
      <4>1. m = n /\ end = w /\ r.nendBits = 0
        BY <2>14, <2>17, <3>1
      <4>2. w = [r EXCEPT !.buf = f, !.endOffs = r.endOffs + n, !.nbitsTotal = r.nbitsTotal + n * SymBits]
        <5> DEFINE g == [i \in DOMAIN r.buf |-> IF i \in r.storage - r.endOffs - m..r.storage - r.endOffs - 1 THEN 0 ELSE r.buf[i]]
        <5>1. w = [r EXCEPT !.buf = g, !.endOffs = r.endOffs + m, !.error = IF m < n THEN 1 ELSE r.error, !.nbitsTotal = r.nbitsTotal + n * SymBits]
          BY Zenon DEF w
        <5>2. g = f
          BY <4>1
        <5>3. (IF m < n THEN 1 ELSE r.error) = r.error
          BY <2>5, <4>1
        <5> HIDE DEF f, g, m
        <5> QED BY <2>16, <4>1, <5>1, <5>2, <5>3 DEF Coder, Records
      <4>3. r.offs + r.endOffs + n <= r.storage
        <5>1. n <= room
          BY <2>5, <2>16, <4>1
        <5> HIDE DEF m
        <5> QED BY <2>5, <2>16, <5>1
      <4> HIDE DEF f, m, room
      <4>4. EncoderAt(w) /\ Padded(PlaceOf(r), PlaceOf(w))
        BY <2>5, <2>19, <4>1, <4>2, <4>3, ZeroBytes DEF f
      <4> QED BY <2>19, <4>1, <4>4, PaddedOn
    <3>2. CASE ~(n > 0)
      BY <2>19, <3>2
    <3> QED BY <3>1, <3>2
  <2> HIDE DEF end
  <2>21. EncoderAt(EncBits(end, 0, rest)) /\ Padded(PlaceOf(end), PlaceOf(EncBits(end, 0, rest)))
    BY <2>12, <2>13, <2>20, ZeroBits
  <2>22. Padded(PlaceOf(rc), PlaceOf(EncBits(end, 0, rest)))
    BY <2>20, <2>21, PaddedOn
  <2> QED BY <2>7, <2>12, <2>19, <2>21, <2>22
<1> QED BY <1>4

-----------------------------------------------------------------------------
(* From a place back to the one before: a number in the last interval is in all. *)

\* The digits begin with a number of the interval of a place.
Inside(D, p) == Between(D, p.outs, p.low, p.low + p.rng)

\* A wider interval has it too.
LEMMA BetweenWider ==
  ASSUME NEW D \in Stream, NEW n \in Nat, NEW a \in Nat, NEW b \in Nat, NEW c \in Nat, NEW d \in Nat,
         c <= a, b <= d, Between(D, n, a, b)
  PROVE  Between(D, n, c, d)
<1>1. PICK k \in Nat : /\ k >= Q + 1
                       /\ a * Weight(k) <= Digits(D)[n + k] * CodeTop
                       /\ Digits(D)[n + k] * CodeTop < b * Weight(k)
  BY DEF Between
<1>2. PICK w, x : w = Weight(k) /\ x = Digits(D)[n + k] * CodeTop
  OBVIOUS
<1>3. w \in Nat /\ x \in Nat
  <2>1. Digits(D)[n + k] \in Nat /\ CodeTop \in Nat
    BY DigitsAre, Widths
  <2>2. \A y \in Nat, z \in Nat : y * z \in Nat
    OBVIOUS
  <2> QED BY <1>2, <2>1, <2>2, WeightIs
<1>4. \A y \in Nat, z \in Nat : y <= z => y * w <= z * w
  BY <1>3
<1>5. \A y \in Nat : y * w \in Nat
  BY <1>3
<1>6. c * w <= x /\ x < d * w
  <2>1. c * w <= a * w /\ b * w <= d * w
    BY <1>4
  <2>2. a * w <= x /\ x < b * w
    BY <1>1, <1>2
  <2>3. PICK ca, aa, bb, dd : ca = c * w /\ aa = a * w /\ bb = b * w /\ dd = d * w
    OBVIOUS
  <2>4. ca \in Nat /\ aa \in Nat /\ bb \in Nat /\ dd \in Nat
    BY <1>5, <2>3
  <2> QED BY <1>3, <2>1, <2>2, <2>3, <2>4
<1> QED BY <1>1, <1>2, <1>6 DEF Between

\* A number in the part a symbol took is in that part of the interval before.
LEMMA NarrowsBack ==
  ASSUME NEW D \in Stream, NEW p \in Place, NEW q, NEW o, NEW g, Narrows(p, q, o, g), Inside(D, q)
  PROVE  /\ q \in Place /\ Between(D, p.outs, p.low + o, p.low + o + g) /\ Inside(D, p)
         /\ q.raw = p.raw /\ q.rawBits = p.rawBits
<1>1. /\ o \in Nat /\ g \in Nat \ {0} /\ o + g <= p.rng /\ q.rng \in CodeBot + 1..CodeTop
      /\ p.low \in Nat /\ p.rng \in Nat /\ p.outs \in Nat /\ p.raw \in Nat /\ p.rawBits \in Nat
  BY Widths DEF Narrows, Place
<1>2. PICK k \in Nat : q = [low |-> (p.low + o) * Weight(k), rng |-> g * Weight(k), outs |-> p.outs + k,
                            raw |-> p.raw, rawBits |-> p.rawBits]
  BY DEF Narrows
<1>3. q.low = (p.low + o) * Weight(k) /\ q.rng = g * Weight(k) /\ q.outs = p.outs + k /\ q.raw = p.raw /\ q.rawBits = p.rawBits
  BY <1>2
<1>4. PICK i \in Nat : /\ i >= Q + 1
                       /\ q.low * Weight(i) <= Digits(D)[q.outs + i] * CodeTop
                       /\ Digits(D)[q.outs + i] * CodeTop < (q.low + q.rng) * Weight(i)
  BY DEF Inside, Between
<1>5. Weight(k) \in Nat \ {0} /\ Weight(i) \in Nat \ {0} /\ Weight(k + i) = Weight(k) * Weight(i)
  BY WeightIs, WeightSum
<1>6. q \in Place
  <2>1. (p.low + o) * Weight(k) \in Nat
    BY <1>1, <1>5
  <2>2. q.rng \in CodeBot + 1..CodeTop
    BY <1>1
  <2> QED BY <1>1, <1>2, <2>1, <2>2 DEF Place
<1>7. /\ q.low * Weight(i) = (p.low + o) * Weight(k + i)
      /\ (q.low + q.rng) * Weight(i) = (p.low + o + g) * Weight(k + i)
  <2>1. PICK a, b, x, y : a = Weight(k) /\ b = Weight(i) /\ x = p.low + o /\ y = p.low + o + g
    OBVIOUS
  <2>2. a \in Nat /\ b \in Nat /\ x \in Nat /\ y \in Nat /\ y = x + g
    BY <1>1, <1>5, <2>1
  <2>3. (x * a) * b = x * (a * b) /\ (x * a + g * a) * b = y * (a * b)
    <3>1. x * a + g * a = y * a
      BY <1>1, <2>2
    <3> QED BY <2>2, <3>1
  <2> QED BY <1>3, <1>5, <2>1, <2>3
<1>8. Between(D, p.outs, p.low + o, p.low + o + g)
  <2>1. q.outs + i = p.outs + (k + i) /\ k + i \in Nat /\ k + i >= Q + 1
    BY <1>1, <1>3, <1>4, QIs
  <2> QED BY <1>4, <1>7, <2>1 DEF Between
<1>9. Inside(D, p)
  <2>1. p.low + o \in Nat /\ p.low + o + g \in Nat /\ p.low + p.rng \in Nat /\ p.low <= p.low + o /\ p.low + o + g <= p.low + p.rng
    BY <1>1
  <2> QED BY <1>1, <1>8, <2>1, BetweenWider DEF Inside
<1> QED BY <1>3, <1>6, <1>8, <1>9

\* The lower raw bits agree when all do.
LEMMA AgreesBack ==
  ASSUME NEW B, NEW p, NEW q, p.rawBits \in Nat, q.rawBits \in Nat, p.rawBits <= q.rawBits, p.raw \in Nat,
         NEW v \in Nat, q.raw = p.raw + v * Power[p.rawBits], Agrees(B, q)
  PROVE  Agrees(B, p)
<1>1. PICK m \in Nat, h \in Nat : SymBits * m >= q.rawBits /\ EndDigits(B)[m] = q.raw + Power[q.rawBits] * h
  BY DEF Agrees
<1> DEFINE d == q.rawBits - p.rawBits
<1>2. d \in Nat /\ p.rawBits + d = q.rawBits
  OBVIOUS
<1> HIDE DEF d
<1>3. Power[q.rawBits] = Power[p.rawBits] * Power[d] /\ Power[p.rawBits] \in Nat /\ Power[d] \in Nat
  <2>1. Power[p.rawBits + d] = Power[p.rawBits] * Power[d]
    BY <1>2, PowerSum
  <2> QED BY <1>2, <2>1, PowerStep
<1>4. PICK a, b : a = Power[p.rawBits] /\ b = Power[d]
  OBVIOUS
<1>5. (p.raw + v * a) + (a * b) * h = p.raw + a * (v + b * h) /\ v + b * h \in Nat
  <2>1. \A x \in Nat, y \in Nat, z \in Nat, r \in Nat, s \in Nat : (x + y * z) + (z * r) * s = x + z * (y + r * s)
    <3> TAKE x \in Nat, y \in Nat, z \in Nat, r \in Nat, s \in Nat
    <3>1. z * (y + r * s) = z * y + z * (r * s)
      OBVIOUS
    <3>2. (z * r) * s = z * (r * s) /\ y * z = z * y
      OBVIOUS
    <3>3. z * y \in Nat /\ z * (r * s) \in Nat
      OBVIOUS
    <3> QED BY <3>1, <3>2, <3>3
  <2>2. a \in Nat /\ b \in Nat
    BY <1>3, <1>4
  <2>3. b * h \in Nat
    BY <2>2
  <2> QED BY <2>1, <2>2, <2>3
<1>6. EndDigits(B)[m] = p.raw + Power[p.rawBits] * (v + b * h)
  BY <1>1, <1>3, <1>4, <1>5
<1>7. SymBits * m >= p.rawBits
  <2>1. SymBits * m \in Nat
    BY Widths
  <2> QED BY <1>1, <2>1
<1> QED BY <1>5, <1>6, <1>7 DEF Agrees

\* So they do before the padding.
LEMMA PaddedBack ==
  ASSUME NEW B, NEW D, NEW p, NEW q, Padded(p, q), p.raw \in Nat, Agrees(B, q), Inside(D, q)
  PROVE  Agrees(B, p) /\ Inside(D, p)
<1>1. q.raw = p.raw + 0 * Power[p.rawBits] /\ p.rawBits \in Nat /\ q.rawBits \in Nat /\ p.rawBits <= q.rawBits
  <2>1. \A x \in Nat, y \in Nat : x + 0 * y = x
    OBVIOUS
  <2> QED BY <2>1, PowerStep DEF Padded
<1>2. Agrees(B, p)
  BY <1>1, AgreesBack
<1>3. Inside(D, p)
  BY DEF Inside, Padded
<1> QED BY <1>2, <1>3

\* So they do before raw bits were added.
LEMMA GrowsBack ==
  ASSUME NEW B, NEW D, NEW p \in Place, NEW q, NEW v, NEW n, Grows(p, q, v, n), Agrees(B, q)
  PROVE  /\ q \in Place /\ Agrees(B, p)
         /\ q.low = p.low /\ q.rng = p.rng /\ q.outs = p.outs
         /\ q.raw = p.raw + v * Power[p.rawBits] /\ q.rawBits = p.rawBits + n
<1>1. v \in Nat /\ n \in Nat /\ p.raw \in Nat /\ p.rawBits \in Nat
  BY DEF Grows, Place
<1>2. /\ q.low = p.low /\ q.rng = p.rng /\ q.outs = p.outs
      /\ q.raw = p.raw + v * Power[p.rawBits] /\ q.rawBits = p.rawBits + n
  BY DEF Grows
<1>3. p.raw + v * Power[p.rawBits] \in Nat /\ p.rawBits + n \in Nat
  <2>1. Power[p.rawBits] \in Nat
    BY <1>1, PowerStep
  <2>2. v * Power[p.rawBits] \in Nat
    BY <1>1, <2>1
  <2> QED BY <1>1, <2>2
<1>4. q \in Place
  BY <1>3 DEF Grows, Place
<1>5. Agrees(B, p)
  <2>1. p.rawBits <= q.rawBits /\ q.rawBits \in Nat
    BY <1>1, <1>2
  <2> QED BY <1>1, <1>2, <2>1, AgreesBack
<1> QED BY <1>2, <1>4, <1>5

\* A share narrows the interval.
LEMMA SharesNarrow ==
  ASSUME NEW p, NEW q, NEW fl, NEW fh, NEW ft, Shares(p, q, fl, fh, ft)
  PROVE  \E o, g : Narrows(p, q, o, g)
BY DEF Shares

\* What is true of the end of a packet was true after each of its symbols.
LEMMA PutsBack ==
  ASSUME NEW D \in Stream, NEW B, NEW p, IsPlace(p), NEW q, IsPlace(q), NEW s \in Symbol \cup Flags, Puts(s, p, q),
         Inside(D, q), Agrees(B, q)
  PROVE  Inside(D, p) /\ Agrees(B, p)
<1>1. p \in Place /\ q \in Place
  BY DEF IsPlace
<1>2. ASSUME NEW m \in Place, NEW o, NEW g, Narrows(p, m, o, g), Inside(D, m), Agrees(B, m)
      PROVE  Inside(D, p) /\ Agrees(B, p)
  <2>1. Inside(D, p) /\ m.raw = p.raw /\ m.rawBits = p.rawBits
    BY <1>1, <1>2, NarrowsBack
  <2> QED BY <1>2, <2>1 DEF Agrees
<1>3. ASSUME NEW m \in Place, NEW v, NEW n, Grows(m, q, v, n) PROVE Inside(D, m) /\ Agrees(B, m)
  <2>1. Agrees(B, m) /\ q.low = m.low /\ q.rng = m.rng /\ q.outs = m.outs
    BY <1>3, GrowsBack
  <2> QED BY <2>1 DEF Inside
<1>4. CASE s.op = "bit"
  <2>1. \E o, g : Narrows(p, q, o, g)
    BY <1>4 DEF Puts
  <2> QED BY <1>1, <1>2, <2>1
<1>5. CASE s.op = "icdf"
  <2>1. \E o, g : Narrows(p, q, o, g)
    BY <1>5 DEF Puts
  <2> QED BY <1>1, <1>2, <2>1
<1>6. CASE s.op = "flags"
  <2>1. \E o, g : Narrows(p, q, o, g)
    BY <1>6 DEF Puts
  <2> QED BY <1>1, <1>2, <2>1
<1>7. CASE s.op = "raw"
  <2>1. Grows(p, q, s.value, s.n)
    BY <1>7 DEF Puts
  <2> QED BY <1>1, <1>3, <2>1
<1>8. CASE s.op = "uint"
  <2>1. CASE s.ft <= 1
    BY <1>8, <2>1 DEF Puts
  <2>2. CASE ~(s.ft <= 1)
    <3> DEFINE k == Split(s.ft)
               top == High(s.value, k)
    <3>1. PICK m : /\ IsPlace(m) /\ Shares(p, m, top, top + 1, High(s.ft - 1, k) + 1)
                   /\ Grows(m, q, Low(s.value, k), k)
      BY <1>8, <2>2 DEF Puts
    <3> HIDE DEF top, k
    <3>2. m \in Place
      BY <3>1 DEF IsPlace
    <3>3. Inside(D, m) /\ Agrees(B, m)
      BY <1>3, <3>1, <3>2
    <3>4. \E o, g : Narrows(p, m, o, g)
      BY <3>1, SharesNarrow
    <3> QED BY <1>2, <3>2, <3>3, <3>4
  <2> QED BY <2>1, <2>2
<1>9. s.op \in {"bit", "icdf", "uint", "raw", "flags"}
  BY DEF Symbol, Flags
<1> QED BY <1>4, <1>5, <1>6, <1>7, <1>8, <1>9

-----------------------------------------------------------------------------
(* The number that a decoder has read, and how it follows the places.       *)

\* The number the decoder has read of the digits D: Q digits beyond j whole
\* ones, the last of them in part.
Point(D, j) == Digits(D)[j + 1] \div Pow[SymBits - CodeExtra]

\* The point is a number whose next bits are cut off.
LEMMA PointIs ==
  ASSUME NEW D \in ByteStream, NEW j \in Nat
  PROVE  LET e == Pow[SymBits - CodeExtra]
         IN  /\ Point(D, j) \in Nat /\ e \in Nat \ {0} /\ Digits(D)[j + 1] \in Nat
             /\ e * Point(D, j) <= Digits(D)[j + 1] /\ Digits(D)[j + 1] < e * Point(D, j) + e
<1> DEFINE x == Digits(D)[j + 1]
           e == Pow[SymBits - CodeExtra]
<1>1. e \in Nat \ {0}
  <2>1. SymBits - CodeExtra \in 0..CodeBits
    BY QIs, Widths
  <2> QED BY <2>1, PowPositive
<1>2. x \in Nat
  <2>1. D \in Stream
    BY DEF Stream, ByteStream
  <2> QED BY <2>1, DigitsAre
<1> HIDE DEF x, e
<1>3. x \div e \in Nat /\ x % e \in 0..e - 1 /\ x = e * (x \div e) + (x % e)
  BY <1>1, <1>2, Division
<1>4. PICK y, z : y = e * (x \div e) /\ z = x % e
  OBVIOUS
<1>5. y \in Nat
  <2>1. \A a \in Nat, b \in Nat : a * b \in Nat
    OBVIOUS
  <2> QED BY <1>1, <1>3, <1>4, <2>1
<1>6. y <= x /\ x < y + e
  BY <1>1, <1>2, <1>3, <1>4, <1>5
<1> QED BY <1>1, <1>2, <1>3, <1>4, <1>6 DEF x, e, Point

\* What lies between a and b to more digits does so to those read.
LEMMA BetweenPoint ==
  ASSUME NEW D \in ByteStream, NEW n \in Nat, NEW a \in Nat, NEW b \in Nat, Between(D, n, a, b)
  PROVE  a <= Point(D, Q + n) /\ Point(D, Q + n) < b
<1> DEFINE e == Pow[SymBits - CodeExtra]
           pt == Point(D, Q + n)
           x == Digits(D)[Q + n + 1]
<1>1. PICK k \in Nat : /\ k >= Q + 1
                       /\ a * Weight(k) <= Digits(D)[n + k] * CodeTop
                       /\ Digits(D)[n + k] * CodeTop < b * Weight(k)
  BY DEF Between
<1>2. Q \in Nat /\ CodeTop \in Nat \ {0} /\ CodeTop * e = Weight(Q + 1) /\ Q + n \in Nat
  BY QIs, Widths
<1>3. pt \in Nat /\ e \in Nat \ {0} /\ x \in Nat /\ e * pt <= x /\ x < e * pt + e
  BY <1>2, PointIs
<1> DEFINE i == k - (Q + 1)
           g == Digits(D)[n + k]
           w == Weight(i)
<1>4. i \in Nat /\ n + k = (Q + n + 1) + i /\ k = (Q + 1) + i /\ Q + n + 1 \in Nat /\ Q + 1 \in Nat
  BY <1>1, <1>2
<1> HIDE DEF i
<1>5. x * w <= g /\ g < (x + 1) * w
  BY <1>4, DigitsGrow
<1>6. Weight(k) = (CodeTop * e) * w /\ w \in Nat \ {0}
  <2>1. Weight((Q + 1) + i) = Weight(Q + 1) * Weight(i)
    BY <1>4, WeightSum
  <2> QED BY <1>2, <1>4, <2>1, WeightIs
<1>7. g \in Nat
  <2>1. D \in Stream
    BY DEF Stream, ByteStream
  <2>2. n + k \in Nat
    BY <1>1
  <2> QED BY <2>1, <2>2, DigitsAre
<1>8. a * ((CodeTop * e) * w) <= g * CodeTop /\ g * CodeTop < b * ((CodeTop * e) * w)
  BY <1>1, <1>6
<1> HIDE DEF e, pt, x, g, w
<1>9. \A c \in Nat, y \in Nat : c * y \in Nat
  OBVIOUS
<1>10. a * e * w <= g /\ g < b * e * w
  <2>1. \A c \in Nat : c * ((CodeTop * e) * w) = (c * e * w) * CodeTop
    BY <1>2, <1>3, <1>6
  <2>2. a * e * w \in Nat /\ b * e * w \in Nat
    BY <1>3, <1>6, <1>9
  <2>3. \A y \in Nat, z \in Nat : y * CodeTop <= z * CodeTop => y <= z
    BY <1>2
  <2>4. \A y \in Nat, z \in Nat : y * CodeTop < z * CodeTop => y < z
    BY <1>2
  <2>5. (a * e * w) * CodeTop <= g * CodeTop /\ g * CodeTop < (b * e * w) * CodeTop
    BY <1>8, <2>1
  <2> QED BY <1>7, <2>2, <2>3, <2>4, <2>5
<1>11. a * e <= x /\ x < b * e
  <2>1. PICK ae, be : ae = a * e /\ be = b * e
    OBVIOUS
  <2>2. ae \in Nat /\ be \in Nat
    BY <1>3, <1>9, <2>1
  <2>3. ae * w < (x + 1) * w
    <3>1. ae * w \in Nat /\ (x + 1) * w \in Nat
      BY <1>3, <1>6, <1>9, <2>2
    <3> QED BY <1>5, <1>7, <1>10, <2>1, <3>1
  <2>4. x * w < be * w
    <3>1. x * w \in Nat /\ be * w \in Nat
      BY <1>3, <1>6, <1>9, <2>2
    <3> QED BY <1>5, <1>7, <1>10, <2>1, <3>1
  <2>5. \A y \in Nat, z \in Nat : y * w < z * w => y < z
    BY <1>6
  <2>6. ae < x + 1 /\ x < be
    BY <1>3, <2>2, <2>3, <2>4, <2>5
  <2> QED BY <1>3, <2>1, <2>2, <2>6
<1>12. a < pt + 1 /\ pt < b
  <2>1. \A y \in Nat, z \in Nat : e * y < e * z => y < z
    BY <1>3
  <2>2. e * (pt + 1) = e * pt + e
    BY <1>3
  <2>3. PICK ea, eb, ep : ea = e * a /\ eb = e * b /\ ep = e * pt
    OBVIOUS
  <2>4. ea \in Nat /\ eb \in Nat /\ ep \in Nat /\ ea <= x /\ x < eb /\ ep <= x /\ x < ep + e
    <3>1. a * e = e * a /\ b * e = e * b
      BY <1>3
    <3> QED BY <1>3, <1>9, <1>11, <2>3, <3>1
  <2>5. ea < ep + e /\ ep < eb
    BY <1>3, <2>4
  <2>6. e * a < e * (pt + 1) /\ e * pt < e * b
    BY <2>2, <2>3, <2>5
  <2> QED BY <1>3, <2>1, <2>6
<1> QED BY <1>3, <1>12 DEF pt

\* What the decoder's number gains with a byte.
NextBits(D, j) == Low(High(D[j] * Pow[SymBits] + D[j + 1], SymBits - CodeExtra), SymBits)

\* One byte more: the point has as many digits more as a byte has bits.
LEMMA PointStep ==
  ASSUME NEW D \in ByteStream, NEW j \in Nat
  PROVE  NextBits(D, j) \in 0..SymMax /\ Point(D, j + 1) = Base * Point(D, j) + NextBits(D, j)
<1> DEFINE e == Pow[SymBits - CodeExtra]
           c == Pow[CodeExtra]
           G == Digits(D)[j]
           x == D[j]
           b == D[j + 1]
<1>1. e \in Nat \ {0} /\ c \in Nat \ {0} /\ Base = e * c /\ Base \in Nat /\ Base >= 4 /\ SymMax = Base - 1
  <2> DEFINE s == SymBits - CodeExtra
  <2>1. s \in Nat /\ CodeExtra \in Nat /\ s + CodeExtra = SymBits /\ s + CodeExtra <= CodeBits /\ s \in 0..CodeBits /\ CodeExtra \in 0..CodeBits
    BY QIs, Widths
  <2> HIDE DEF s
  <2>2. Pow[s + CodeExtra] = Pow[s] * Pow[CodeExtra]
    BY <2>1, PowSum
  <2> QED BY <2>1, <2>2, PowPositive, BaseIs DEF Base, s
<1>2. G \in Nat /\ x \in 0..SymMax /\ b \in 0..SymMax /\ x \in Nat /\ b \in Nat
      /\ Digits(D)[j + 1] = Base * G + x /\ Digits(D)[(j + 1) + 1] = Base * (Base * G + x) + b
  <2>1. D \in Stream /\ j + 1 \in Nat
    BY DEF Stream, ByteStream
  <2>2. D[j] \in 0..SymMax /\ D[j + 1] \in 0..SymMax
    BY <2>1 DEF ByteStream
  <2> QED BY <1>1, <2>1, <2>2, DigitsAre
<1>3. NextBits(D, j) = ((x * Base + b) \div e) % Base
  BY DEF NextBits, Low, High, Base
<1>4. Point(D, j) = (Base * G + x) \div e /\ Point(D, j + 1) = (Base * (Base * G + x) + b) \div e
  BY <1>2 DEF Point
<1> HIDE DEF e, c, G, x, b
<1>5. PICK p2, r, b1, b0 : p2 = x \div e /\ r = x % e /\ b1 = b \div e /\ b0 = b % e
  OBVIOUS
<1>6. p2 \in Nat /\ r \in 0..e - 1 /\ b1 \in Nat /\ b0 \in 0..e - 1 /\ x = e * p2 + r /\ b = e * b1 + b0
  BY <1>1, <1>2, <1>5, Division
<1>7. b1 < c
  <2>1. \A y \in Nat : e * y < e * c => y < c
    BY <1>1
  <2>2. PICK z : z = e * b1
    OBVIOUS
  <2>3. z \in Nat
    BY <1>1, <1>6, <2>2
  <2>4. e * b1 < e * c
    BY <1>1, <1>2, <1>6, <2>2, <2>3
  <2> QED BY <1>6, <2>1, <2>4
<1>8. \A y \in Nat, z \in Nat : y * z \in Nat
  OBVIOUS
<1>9. r * c + b1 \in 0..Base - 1
  <2>1. (e - 1) * c = Base - c
    BY <1>1
  <2>2. \A y \in 0..e - 1 : y * c <= (e - 1) * c
    BY <1>1
  <2>3. r * c \in Nat /\ r * c <= Base - c
    BY <1>1, <1>6, <1>8, <2>1, <2>2
  <2> QED BY <1>1, <1>6, <1>7, <2>3
<1> DEFINE m == c * G + p2
           t == r * c + b1
<1>10. m \in Nat /\ t \in Nat /\ t \in 0..Base - 1
  <2>1. c * G \in Nat
    BY <1>1, <1>2, <1>8
  <2> QED BY <1>6, <1>9, <2>1
<1>11. Point(D, j) = m
  <2>1. Base * G + x = m * e + r
    <3>1. Base * G = (c * G) * e
      BY <1>1, <1>2
    <3>2. m * e = (c * G) * e + p2 * e
      <4>1. \A y \in Nat, z \in Nat : (y + z) * e = y * e + z * e
        BY <1>1
      <4> QED BY <1>1, <1>2, <1>6, <1>8, <4>1
    <3>3. PICK y1, y2 : y1 = (c * G) * e /\ y2 = p2 * e
      OBVIOUS
    <3>4. y1 \in Nat /\ y2 \in Nat /\ y2 = e * p2
      BY <1>1, <1>2, <1>6, <1>8, <3>3
    <3> QED BY <1>6, <3>1, <3>2, <3>3, <3>4
  <2> HIDE DEF m
  <2> QED BY <1>1, <1>4, <1>6, <1>10, <2>1, Remainder
<1>12. NextBits(D, j) = t
  <2>1. x * Base + b = (x * c + b1) * e + b0 /\ x * c + b1 \in Nat
    <3>1. x * Base = (x * c) * e
      BY <1>1, <1>2
    <3>2. (x * c + b1) * e = (x * c) * e + b1 * e
      <4>1. \A y \in Nat, z \in Nat : (y + z) * e = y * e + z * e
        BY <1>1
      <4> QED BY <1>1, <1>2, <1>6, <1>8, <4>1
    <3>3. PICK y1, y2 : y1 = (x * c) * e /\ y2 = b1 * e
      OBVIOUS
    <3>4. y1 \in Nat /\ y2 \in Nat /\ y2 = e * b1 /\ x * c \in Nat
      BY <1>1, <1>2, <1>6, <1>8, <3>3
    <3> QED BY <1>6, <3>1, <3>2, <3>3, <3>4
  <2>2. (x * Base + b) \div e = x * c + b1
    BY <1>1, <1>6, <2>1, Remainder
  <2>3. x * c + b1 = p2 * Base + t
    <3>1. (e * p2 + r) * c = (e * p2) * c + r * c
      <4>1. \A y \in Nat, z \in Nat : (y + z) * c = y * c + z * c
        BY <1>1
      <4> QED BY <1>1, <1>6, <1>8, <4>1
    <3>2. (e * p2) * c = p2 * Base
      BY <1>1, <1>6
    <3>3. PICK y1, y2 : y1 = p2 * Base /\ y2 = r * c
      OBVIOUS
    <3>4. y1 \in Nat /\ y2 \in Nat
      BY <1>1, <1>6, <1>8, <3>3
    <3> QED BY <1>6, <3>1, <3>2, <3>3, <3>4
  <2> HIDE DEF t
  <2>4. (x * c + b1) % Base = t
    <3>1. Base \in Nat \ {0} /\ p2 \in Nat /\ t \in 0..Base - 1
      BY <1>1, <1>6, <1>10
    <3>2. (p2 * Base + t) % Base = t
      BY <3>1, Remainder
    <3> QED BY <2>3, <3>2
  <2> QED BY <1>3, <2>2, <2>4
<1>13. Point(D, j + 1) = Base * m + t
  <2> DEFINE X == Base * G + x
  <2>1. X = e * m + r /\ X \in Nat
    <3>1. Base * G = e * (c * G)
      BY <1>1, <1>2
    <3>2. e * m = e * (c * G) + e * p2
      <4>1. \A y \in Nat, z \in Nat : e * (y + z) = e * y + e * z
        BY <1>1
      <4> QED BY <1>1, <1>2, <1>6, <1>8, <4>1
    <3>3. PICK y1, y2 : y1 = e * (c * G) /\ y2 = e * p2
      OBVIOUS
    <3>4. y1 \in Nat /\ y2 \in Nat
      BY <1>1, <1>2, <1>6, <1>8, <3>3
    <3> QED BY <1>2, <1>6, <3>1, <3>2, <3>3, <3>4
  <2> HIDE DEF X, m
  <2>2. Base * X + b = (X * c + b1) * e + b0 /\ X * c + b1 \in Nat
    <3>1. Base * X = (X * c) * e
      BY <1>1, <2>1
    <3>2. (X * c + b1) * e = (X * c) * e + b1 * e
      <4>1. \A y \in Nat, z \in Nat : (y + z) * e = y * e + z * e
        BY <1>1
      <4> QED BY <1>1, <1>6, <1>8, <2>1, <4>1
    <3>3. PICK y1, y2 : y1 = (X * c) * e /\ y2 = b1 * e
      OBVIOUS
    <3>4. y1 \in Nat /\ y2 \in Nat /\ y2 = e * b1 /\ X * c \in Nat
      BY <1>1, <1>6, <1>8, <2>1, <3>3
    <3> QED BY <1>6, <3>1, <3>2, <3>3, <3>4
  <2>3. (Base * X + b) \div e = X * c + b1
    BY <1>1, <1>6, <2>2, Remainder
  <2>4. X * c + b1 = Base * m + t
    <3>1. (e * m + r) * c = (e * m) * c + r * c
      <4>1. \A y \in Nat, z \in Nat : (y + z) * c = y * c + z * c
        BY <1>1
      <4> QED BY <1>1, <1>6, <1>8, <1>10, <4>1
    <3>2. (e * m) * c = Base * m
      BY <1>1, <1>10
    <3>3. PICK y1, y2 : y1 = Base * m /\ y2 = r * c
      OBVIOUS
    <3>4. y1 \in Nat /\ y2 \in Nat
      BY <1>1, <1>6, <1>8, <1>10, <3>3
    <3> QED BY <1>6, <2>1, <3>1, <3>2, <3>3, <3>4
  <2> QED BY <1>4, <2>3, <2>4 DEF X
<1> HIDE DEF m, t
<1> QED BY <1>1, <1>10, <1>11, <1>12, <1>13

\* Decoders: a byte was read, so rem is one.
Dec == {rc \in Coder : rc.rem \in Nat}

\* The decoder has read the digits D up to j, whose number lies in the g from
\* low on; val counts from the top.
Tracks(d, D, j, low, g) ==
  /\ d \in Dec /\ FrontOf(d) = D
  /\ low <= Point(D, j) /\ Point(D, j) < low + g
  /\ d.rng = g /\ d.val = low + g - 1 - Point(D, j)
  /\ d.rem = D[j] /\ d.offs = IF j + 1 < d.storage THEN j + 1 ELSE d.storage

\* What reading range-coded bytes leaves alone.
Reads(out, d) == SameEnd(out, d) /\ out.buf = d.buf

\* The next byte of a decoder is that of its digits.
LEMMA NextByte ==
  ASSUME NEW D \in ByteStream, NEW j \in Nat, NEW low \in Nat, NEW g \in Nat, NEW d, Tracks(d, D, j, low, g)
  PROVE  ReadByte(d) = D[j + 1] /\ D[j + 1] \in 0..SymMax /\ D[j + 1] \in Nat /\ d.rem = D[j]
<1>1. d.storage \in Nat /\ j + 1 \in Nat /\ FrontOf(d) = D /\ d.rem = D[j]
      /\ d.offs = IF j + 1 < d.storage THEN j + 1 ELSE d.storage
  BY CoderTypes DEF Tracks, Dec
<1>2. D[j + 1] = IF j + 1 < d.storage THEN d.buf[j + 1] ELSE 0
  BY <1>1 DEF FrontOf
<1>3. D[j + 1] \in 0..SymMax /\ D[j + 1] \in Nat
  BY <1>1, BaseIs DEF ByteStream
<1> QED BY <1>1, <1>2, <1>3 DEF ReadByte

\* The distance to the upper end, one byte finer.
LEMMA RoundValue ==
  ASSUME NEW low \in Nat, NEW g \in Nat \ {0}, Base * g <= CodeTop, NEW x \in Nat, low <= x, x < low + g,
         NEW t \in 0..SymMax, NEW v, v = low + g - 1 - x
  PROVE  /\ low * Base \in Nat /\ g * Base \in Nat \ {0}
         /\ low * Base <= Base * x + t /\ Base * x + t < low * Base + g * Base
         /\ Low(v * Pow[SymBits] + (SymMax - t), CodeBits - 1) = low * Base + g * Base - 1 - (Base * x + t)
         /\ Low(v * Pow[SymBits] + (SymMax - t), CodeBits - 1) \in Nat
<1>1. Base \in Nat /\ Base >= 4 /\ SymMax = Base - 1 /\ CodeTop \in Nat \ {0} /\ CodeTop = Pow[CodeBits - 1]
      /\ Pow[SymBits] = Base
  BY BaseIs, Widths DEF Base, CodeTop
<1>2. PICK a, c, y, w : a = low * Base /\ c = g * Base /\ y = Base * x /\ w = v * Base
  OBVIOUS
<1>3. \A i \in Nat, k \in Nat : i * Base \in Nat /\ i * Base = Base * i /\ (i + k) * Base = i * Base + k * Base
        /\ (i <= k => i * Base <= k * Base) /\ (i > 0 => i * Base >= Base)
  BY <1>1
<1>4. a \in Nat /\ c \in Nat /\ y \in Nat /\ c >= Base /\ c <= CodeTop /\ y = x * Base
  BY <1>2, <1>3
<1>5. a <= y /\ y + Base <= a + c
  <2>1. low * Base <= x * Base
    BY <1>3
  <2>2. (x + 1) * Base <= (low + g) * Base
    BY <1>3
  <2>3. (x + 1) * Base = x * Base + 1 * Base /\ (low + g) * Base = low * Base + g * Base /\ 1 * Base = Base
    BY <1>1, <1>3
  <2> QED BY <1>2, <1>4, <2>1, <2>2, <2>3
<1>6. v \in Nat /\ w = a + c - Base - y
  <2>1. v \in Nat /\ v + x + 1 = low + g
    OBVIOUS
  <2>2. (v + x + 1) * Base = w + y + Base
    <3>1. (v + x + 1) * Base = (v + x) * Base + 1 * Base
      <4>1. v + x \in Nat
        BY <2>1
      <4>2. \A i \in Nat : (i + 1) * Base = i * Base + 1 * Base
        BY <1>3
      <4> QED BY <4>1, <4>2
    <3>2. (v + x) * Base = v * Base + x * Base
      BY <1>3, <2>1
    <3>3. v * Base \in Nat /\ 1 * Base = Base
      BY <1>1, <1>3, <2>1
    <3> QED BY <1>1, <1>2, <1>4, <3>1, <3>2, <3>3
  <2>3. (low + g) * Base = a + c
    BY <1>2, <1>3
  <2>4. w \in Nat
    BY <1>2, <1>3, <2>1
  <2> QED BY <1>1, <1>4, <2>1, <2>2, <2>3, <2>4
<1>7. w + (SymMax - t) = a + c - 1 - (y + t) /\ w + (SymMax - t) \in 0..CodeTop - 1
  BY <1>1, <1>4, <1>5, <1>6
<1>8. Low(v * Pow[SymBits] + (SymMax - t), CodeBits - 1) = w + (SymMax - t)
  <2>1. \A i \in 0..CodeTop - 1 : i % CodeTop = i
    <3>1. \A i \in 0..CodeTop - 1 : (0 * CodeTop + i) % CodeTop = i
      BY <1>1, Remainder
    <3> QED BY <1>1, <3>1
  <2> QED BY <1>1, <1>2, <1>7, <2>1 DEF Low
<1> QED BY <1>1, <1>2, <1>4, <1>5, <1>7, <1>8

\* What one round of the normalisation changes.
LEMMA DecoderRoundFields ==
  ASSUME NEW d \in Dec, ReadByte(d) \in Nat,
         Low(d.val * Pow[SymBits] + (SymMax - Low(High(d.rem * Pow[SymBits] + ReadByte(d), SymBits - CodeExtra), SymBits)),
             CodeBits - 1) \in Nat
  PROVE  LET w == DecoderRound(d)
         IN  /\ w \in Dec /\ Reads(w, d)
             /\ d.rng > CodeBot => w = d
             /\ ~(d.rng > CodeBot) =>
                  /\ w.rng = d.rng * Base /\ w.nbitsTotal = d.nbitsTotal + SymBits /\ w.rem = ReadByte(d)
                  /\ w.offs = IF d.offs < d.storage THEN d.offs + 1 ELSE d.offs
                  /\ w.val = Low(d.val * Pow[SymBits] +
                                 (SymMax - Low(High(d.rem * Pow[SymBits] + ReadByte(d), SymBits - CodeExtra), SymBits)),
                                 CodeBits - 1)
<1>1. CASE d.rng > CodeBot
  <2>1. DecoderRound(d) = d
    BY <1>1 DEF DecoderRound
  <2> QED BY <1>1, <2>1 DEF Reads, SameEnd
<1>2. CASE ~(d.rng > CodeBot)
  <2> DEFINE b == ReadByte(d)
             v == Low(d.val * Pow[SymBits] +
                      (SymMax - Low(High(d.rem * Pow[SymBits] + b, SymBits - CodeExtra), SymBits)), CodeBits - 1)
             n == d.nbitsTotal + SymBits
             g == d.rng * Pow[SymBits]
             o == IF d.offs < d.storage THEN d.offs + 1 ELSE d.offs
             w == [d EXCEPT !.nbitsTotal = n, !.rng = g, !.rem = b, !.offs = o, !.val = v]
  <2>1. DecoderRound(d) = w
    BY <1>2 DEF DecoderRound
  <2>2. d \in Coder
    BY DEF Dec
  <2>3. n \in Nat /\ g \in Nat /\ g = d.rng * Base /\ b \in Nat /\ o \in Nat /\ v \in Nat
    BY <2>2, CoderTypes, BaseIs, Widths DEF Base
  <2> HIDE DEF b, v, n, g, o
  <2>4. /\ w.storage = d.storage /\ w.endOffs = d.endOffs /\ w.endWindow = d.endWindow
        /\ w.nendBits = d.nendBits /\ w.nbitsTotal = n /\ w.rng = g /\ w.buf = d.buf /\ w.val = v
        /\ w.offs = o /\ w.error = d.error /\ w.ext = d.ext /\ w.rem = b
    BY <2>2 DEF Coder, Records
  <2>5. w \in Coder
    BY <2>2, <2>3 DEF Coder, Records, Holds
  <2> HIDE DEF w
  <2> QED BY <1>2, <2>1, <2>3, <2>4, <2>5 DEF Dec, Reads, SameEnd, b, v, n, o
<1> QED BY <1>1, <1>2

\* One round follows by one byte.
LEMMA DecoderRoundTracks ==
  ASSUME NEW D \in ByteStream, NEW j \in Nat, NEW low \in Nat, NEW g \in Nat \ {0}, g <= CodeBot,
         NEW d, Tracks(d, D, j, low, g)
  PROVE  LET w == DecoderRound(d)
         IN  /\ Tracks(w, D, j + 1, low * Base, g * Base) /\ Reads(w, d)
             /\ w.nbitsTotal = d.nbitsTotal + SymBits /\ low * Base \in Nat /\ g * Base \in Nat \ {0}
<1> DEFINE t == NextBits(D, j)
           P == Point(D, j)
           w == DecoderRound(d)
<1>1. ReadByte(d) = D[j + 1] /\ D[j + 1] \in Nat /\ d.rem = D[j]
  BY NextByte
<1>2. t \in 0..SymMax /\ Point(D, j + 1) = Base * P + t /\ P \in Nat
  BY PointStep, PointIs
<1>3. Low(High(d.rem * Pow[SymBits] + ReadByte(d), SymBits - CodeExtra), SymBits) = t
  BY <1>1 DEF NextBits
<1> HIDE DEF t, P
<1>4. low <= P /\ P < low + g /\ d.val = low + g - 1 - P /\ d.rng = g /\ d \in Dec /\ FrontOf(d) = D
      /\ d.offs = IF j + 1 < d.storage THEN j + 1 ELSE d.storage
  BY DEF Tracks, P
<1>5. Base * g <= CodeTop /\ CodeBot \in Nat
  <2>1. Base \in Nat /\ CodeBot \in Nat /\ CodeTop = CodeBot * Base
    BY BaseIs, Widths DEF Base
  <2>2. \A x \in Nat, y \in Nat : x <= y => Base * x <= y * Base
    BY <2>1
  <2> QED BY <2>1, <2>2
<1> DEFINE v == Low(d.val * Pow[SymBits] + (SymMax - t), CodeBits - 1)
<1>6. /\ low * Base \in Nat /\ g * Base \in Nat \ {0}
      /\ low * Base <= Base * P + t /\ Base * P + t < low * Base + g * Base
      /\ v = low * Base + g * Base - 1 - (Base * P + t) /\ v \in Nat
  BY <1>2, <1>4, <1>5, RoundValue
<1> HIDE DEF v, w
<1>7. /\ w \in Dec /\ Reads(w, d)
      /\ w.rng = d.rng * Base /\ w.nbitsTotal = d.nbitsTotal + SymBits /\ w.rem = ReadByte(d)
      /\ w.offs = (IF d.offs < d.storage THEN d.offs + 1 ELSE d.offs) /\ w.val = v
  <2>1. ~(d.rng > CodeBot)
    BY <1>4, <1>5
  <2>2. Low(d.val * Pow[SymBits] + (SymMax - Low(High(d.rem * Pow[SymBits] + ReadByte(d), SymBits - CodeExtra), SymBits)),
            CodeBits - 1) = v
    BY <1>3 DEF v
  <2>3. ReadByte(d) \in Nat
    BY <1>1
  <2> QED BY <1>4, <1>6, <2>1, <2>2, <2>3, DecoderRoundFields DEF w
<1>8. FrontOf(w) = D
  BY <1>4, <1>7, SameBytes DEF Reads, SameEnd
<1>9. w.offs = IF (j + 1) + 1 < w.storage THEN (j + 1) + 1 ELSE w.storage
  <2>1. w.storage = d.storage /\ d.storage \in Nat
    BY <1>4, <1>7, CoderTypes DEF Reads, SameEnd, Dec
  <2> QED BY <1>4, <1>7, <2>1
<1>10. Tracks(w, D, j + 1, low * Base, g * Base)
  BY <1>1, <1>2, <1>4, <1>6, <1>7, <1>8, <1>9, Zenon DEF Tracks
<1> QED BY <1>6, <1>7, <1>10 DEF w

\* It stays a decoder.
LEMMA DecoderRoundIn ==
  ASSUME NEW d \in Dec
  PROVE  DecoderRound(d) \in Dec
<1> DEFINE b == ReadByte(d)
           y == High(d.rem * Pow[SymBits] + b, SymBits - CodeExtra)
           t == Low(y, SymBits)
<1>1. d \in Coder /\ d.rem \in Nat /\ d.val \in Nat /\ Pow[SymBits] \in Nat /\ SymMax \in Nat
  BY CoderTypes, BaseIs DEF Dec, Base
<1>2. b \in Nat
  <2>1. d.offs \in Nat /\ d.storage \in Nat /\ 0..d.storage - 1 \subseteq DOMAIN d.buf
    BY <1>1, CoderTypes DEF Coder, Holds
  <2>2. \A i \in DOMAIN d.buf : d.buf[i] \in Nat
    <3>1. PICK n \in Sizes : d.buf \in [0..n - 1 -> Nat]
      BY <1>1, CoderTypes DEF Contents
    <3> QED BY <3>1
  <2>3. CASE d.offs < d.storage
    <3>1. d.offs \in DOMAIN d.buf
      BY <2>1, <2>3
    <3> QED BY <2>2, <2>3, <3>1 DEF ReadByte
  <2>4. CASE ~(d.offs < d.storage)
    BY <2>4 DEF ReadByte
  <2> QED BY <2>3, <2>4
<1>3. SymBits - CodeExtra \in 0..CodeBits /\ SymBits \in 0..CodeBits /\ CodeBits - 1 \in 0..CodeBits
  BY QIs, Widths
<1>4. y \in Nat
  <2>1. d.rem * Pow[SymBits] + b \in Nat
    BY <1>1, <1>2
  <2> QED BY <1>3, <2>1, LowHigh
<1> HIDE DEF y
<1>5. t \in 0..SymMax
  BY <1>3, <1>4, LowHigh DEF SymMax
<1> HIDE DEF t
<1>6. Low(d.val * Pow[SymBits] + (SymMax - t), CodeBits - 1) \in Nat
  <2>1. d.val * Pow[SymBits] \in Nat /\ SymMax - t \in Nat
    BY <1>1, <1>5
  <2>2. \A i \in Nat, k \in Nat : i + k \in Nat
    OBVIOUS
  <2>3. d.val * Pow[SymBits] + (SymMax - t) \in Nat
    BY <2>1, <2>2
  <2>4. Low(d.val * Pow[SymBits] + (SymMax - t), CodeBits - 1) \in 0..Pow[CodeBits - 1] - 1
    BY <1>3, <2>3, LowHigh
  <2> QED BY <2>4
<1> QED BY <1>2, <1>6, DecoderRoundFields DEF t, y

\* The rounds of the normalisation, as a run.
LEMMA DecoderRun ==
  ASSUME NEW d \in Dec
  PROVE  \E run \in [0..Rounds -> Dec] :
           /\ run[0] = d /\ run[Rounds] = NormalizeDecoder(d)
           /\ \A i \in 0..Rounds - 1 : run[i + 1] = DecoderRound(run[i])
<1> DEFINE F == [r \in Dec |-> DecoderRound(r)]
           n == Rounds
           after == CHOOSE f : f = [i \in 0..n |-> IF i = 0 THEN d ELSE DecoderRound(f[i - 1])]
<1>0. n \in Nat
  BY RoundsSuffice
<1>1. PICK run \in [0..n -> Dec] : IsRun(run, d, F, n)
  <2>1. F \in [Dec -> Dec]
    BY DecoderRoundIn
  <2> HIDE DEF F, n
  <2> QED BY <1>0, <2>1, Runs
<1>2. \A i \in 1..n : run[i] = DecoderRound(run[i - 1])
  <2> TAKE i \in 1..n
  <2>1. run[i - 1] \in Dec /\ run[i] = F[run[i - 1]]
    <3> HIDE DEF F, n
    <3> QED BY <1>0, <1>1 DEF IsRun
  <2> QED BY <2>1
<1>3. run[0] = d
  BY <1>1 DEF IsRun
<1>4. run = [i \in 0..n |-> IF i = 0 THEN d ELSE DecoderRound(run[i - 1])]
  <2>1. \A i \in 0..n : run[i] = IF i = 0 THEN d ELSE DecoderRound(run[i - 1])
    <3> HIDE DEF F, n
    <3> QED BY <1>0, <1>2, <1>3
  <2> HIDE DEF n
  <2> QED BY <2>1
<1>5. after = [i \in 0..n |-> IF i = 0 THEN d ELSE DecoderRound(after[i - 1])]
  BY <1>4, Zenon
<1>6. NormalizeDecoder(d) = after[n]
  BY Zenon DEF NormalizeDecoder, Repeat
<1> HIDE DEF after, F, n
<1>7. after \in [0..n -> Dec] /\ after[0] = d /\ \A i \in 0..n - 1 : after[i + 1] = DecoderRound(after[i])
  <2>1. after[0] = d /\ \A i \in 0..n - 1 : after[i + 1] = DecoderRound(after[i])
    BY <1>0, <1>5
  <2> DEFINE T == {i \in Nat : after[i] \in Dec}
  <2>2. 0 \in T
    BY <2>1
  <2>3. \A i \in 0..n - 1 : i \in T => i + 1 \in T
    BY <1>0, <2>1, DecoderRoundIn
  <2>4. 0..n \subseteq T
    <3> HIDE DEF T
    <3> QED BY <1>0, <2>2, <2>3, InductionTo
  <2>5. \A i \in 0..n : after[i] \in Dec
    BY <2>4
  <2> QED BY <1>5, <2>1, <2>5
<1>8. after \in [0..n -> Dec] /\ after[0] = d /\ after[n] = NormalizeDecoder(d)
  BY <1>6, <1>7
<1>9. \A i \in 0..n - 1 : after[i + 1] = DecoderRound(after[i])
  BY <1>7
<1>10. \E f \in [0..n -> Dec] : f[0] = d /\ f[n] = NormalizeDecoder(d) /\ \A i \in 0..n - 1 : f[i + 1] = DecoderRound(f[i])
  BY <1>8, <1>9, Zenon
<1> QED BY <1>10 DEF n

\* The loop goes k rounds, then rests.
LEMMA NormalizeDecoderTracks ==
  ASSUME NEW D \in ByteStream, NEW j \in Nat, NEW low \in Nat, NEW g \in Nat \ {0}, NEW d, Tracks(d, D, j, low, g),
         NEW k \in Nat, g * Weight(k) \in CodeBot + 1..CodeTop
  PROVE  LET out == NormalizeDecoder(d)
         IN  /\ Tracks(out, D, j + k, low * Weight(k), g * Weight(k)) /\ Reads(out, d)
             /\ out.nbitsTotal = d.nbitsTotal + SymBits * k
<1>0. d \in Dec /\ d \in Coder /\ d.nbitsTotal \in Nat /\ Rounds \in Nat /\ CodeTop \in Nat /\ CodeBot \in Nat
  BY RoundsSuffice, Widths, CoderTypes DEF Tracks, Dec
<1>1. k < Rounds /\ \A i \in 0..k - 1 : g * Weight(i) <= CodeBot
  <2>1. g * Weight(k) <= CodeTop
    BY <1>0
  <2> QED BY <2>1, RoundsNeeded
<1>2. PICK run \in [0..Rounds -> Dec] :
        /\ run[0] = d /\ run[Rounds] = NormalizeDecoder(d)
        /\ \A i \in 0..Rounds - 1 : run[i + 1] = DecoderRound(run[i])
  BY <1>0, DecoderRun, Zenon
<1> DEFINE Far(r, i) == /\ Tracks(r, D, j + i, low * Weight(i), g * Weight(i)) /\ Reads(r, d)
                        /\ r.nbitsTotal = d.nbitsTotal + SymBits * i
           T == {i \in Nat : Far(run[i], IF i <= k THEN i ELSE k)}
<1>3. 0 \in T
  <2>1. Weight(0) = 1 /\ SymBits * 0 = 0 /\ g * 1 = g /\ low * 1 = low /\ j + 0 = j /\ d.nbitsTotal + 0 = d.nbitsTotal
    <3>1. SymBits * 0 = 0
      BY Widths
    <3>2. Weight(0) = 1
      BY WeightIs
    <3> QED BY <1>0, <3>1, <3>2
  <2>2. Far(d, 0)
    BY <2>1 DEF Reads, SameEnd
  <2> HIDE DEF Far
  <2> QED BY <1>2, <2>2
<1>4. ASSUME NEW i \in 0..Rounds - 1, i \in T PROVE i + 1 \in T
  <2> DEFINE r == run[i]
             w == DecoderRound(r)
             m == IF i <= k THEN i ELSE k
  <2>1. run[i + 1] = w /\ r \in Dec /\ i \in Nat
    BY <1>0, <1>2
  <2>2. SUFFICES Far(w, IF i + 1 <= k THEN i + 1 ELSE k)
    <3> HIDE DEF Far
    <3> QED BY <2>1
  <2>3. Far(r, m)
    <3> HIDE DEF Far
    <3> QED BY <1>4
  <2> HIDE DEF w, r
  <2>4. CASE i < k
    <3>1. m = i /\ i \in 0..k - 1 /\ i + 1 <= k
      BY <2>1, <2>4
    <3>2. PICK u, a, c : u = Weight(i) /\ a = low * Weight(i) /\ c = g * Weight(i)
      OBVIOUS
    <3>3. u \in Nat \ {0} /\ Weight(i + 1) = Base * u /\ Base \in Nat \ {0}
      BY <2>1, <3>2, WeightIs, BaseIs
    <3>4. \A x \in Nat : x * u \in Nat /\ (x > 0 => x * u > 0) /\ (x * u) * Base = x * (Base * u)
      BY <3>3
    <3>5. a \in Nat /\ c \in Nat \ {0} /\ c <= CodeBot
      BY <1>1, <3>1, <3>2, <3>4
    <3>6. Tracks(r, D, j + i, a, c) /\ Reads(r, d) /\ r.nbitsTotal = d.nbitsTotal + SymBits * i /\ j + i \in Nat
      BY <2>1, <2>3, <3>1, <3>2
    <3>7. Tracks(w, D, (j + i) + 1, a * Base, c * Base) /\ Reads(w, r) /\ w.nbitsTotal = r.nbitsTotal + SymBits
      BY <3>5, <3>6, DecoderRoundTracks DEF w
    <3>8. a * Base = low * Weight(i + 1) /\ c * Base = g * Weight(i + 1)
      BY <3>2, <3>3, <3>4
    <3>9. (j + i) + 1 = j + (i + 1) /\ w.nbitsTotal = d.nbitsTotal + SymBits * (i + 1)
      <4>1. SymBits * (i + 1) = SymBits * i + SymBits /\ SymBits * i \in Nat /\ SymBits \in Nat
        BY <2>1, Widths
      <4>2. PICK s : s = SymBits * i
        OBVIOUS
      <4> QED BY <1>0, <2>1, <3>6, <3>7, <4>1, <4>2
    <3>10. Reads(w, d)
      BY <3>6, <3>7 DEF Reads, SameEnd
    <3>11. Far(w, i + 1)
      BY <3>7, <3>8, <3>9, <3>10
    <3> HIDE DEF Far
    <3> QED BY <3>1, <3>11
  <2>5. CASE ~(i < k)
    <3>2. m = k /\ (IF i + 1 <= k THEN i + 1 ELSE k) = k
      BY <2>1, <2>5
    <3>3. r.rng > CodeBot
      BY <1>0, <2>3, <3>2 DEF Tracks
    <3>4. w = r
      BY <3>3 DEF w, DecoderRound
    <3> HIDE DEF Far, m
    <3> QED BY <2>3, <3>2, <3>4
  <2> QED BY <2>4, <2>5
<1>5. 0..Rounds \subseteq T
  <2> HIDE DEF T
  <2> QED BY <1>0, <1>3, <1>4, InductionTo
<1>6. Far(run[Rounds], IF Rounds <= k THEN Rounds ELSE k)
  <2> HIDE DEF Far
  <2> QED BY <1>0, <1>5
<1>7. ~(Rounds <= k)
  BY <1>0, <1>1
<1> QED BY <1>2, <1>6, <1>7

-----------------------------------------------------------------------------
(* The symbols, read.                                                       *)

\* The raw bits read of a buffer's end B are those of p, and the window holds
\* the next ones.
Window(d, B, p) ==
  /\ d.nendBits <= CodeBits /\ d.endWindow < Power[d.nendBits]
  /\ \E m \in Nat : /\ SymBits * m = p.rawBits + d.nendBits
                    /\ d.endOffs = IF m < d.storage THEN m ELSE d.storage
                    /\ EndDigits(B)[m] = p.raw + Power[p.rawBits] * d.endWindow

\* A decoder of the digits D and the raw bits B at the place p.
Following(d, D, B, p) ==
  /\ Tracks(d, D, Q + p.outs, p.low, p.rng) /\ BackOf(d) = B /\ Window(d, B, p)
  /\ d.nbitsTotal = CodeBits + 1 + SymBits * p.outs + p.rawBits

\* The first n bytes of a packet, from the front on and from the end backwards.
FirstBytes(data, n) == [i \in Nat |-> IF i < n THEN data[i] ELSE 0]
LastBytesOf(data, n) == [i \in Nat |-> IF i < n THEN data[n - 1 - i] ELSE 0]

\* What the first byte tells.
LEMMA FirstPoint ==
  ASSUME NEW D \in ByteStream
  PROVE  Point(D, 0) = High(D[0], SymBits - CodeExtra) /\ Point(D, 0) < Pow[CodeExtra] /\ Point(D, 0) \in Nat
<1> DEFINE e == Pow[SymBits - CodeExtra]
           c == Pow[CodeExtra]
<1>1. e \in Nat \ {0} /\ c \in Nat \ {0} /\ Base = e * c /\ Base \in Nat /\ SymMax = Base - 1
  <2> DEFINE s == SymBits - CodeExtra
  <2>1. s \in Nat /\ CodeExtra \in Nat /\ s + CodeExtra = SymBits /\ s + CodeExtra <= CodeBits /\ s \in 0..CodeBits /\ CodeExtra \in 0..CodeBits
    BY QIs, Widths
  <2> HIDE DEF s
  <2>2. Pow[s + CodeExtra] = Pow[s] * Pow[CodeExtra]
    BY <2>1, PowSum
  <2> QED BY <2>1, <2>2, PowPositive, BaseIs DEF Base, s
<1>2. D \in Stream /\ D[0] \in 0..SymMax /\ D[0] \in Nat
  BY <1>1 DEF Stream, ByteStream
<1>3. Digits(D)[0 + 1] = D[0]
  <2>1. Digits(D)[0] = 0 /\ Digits(D)[0 + 1] = Base * Digits(D)[0] + D[0]
    BY <1>2, DigitsAre
  <2> QED BY <1>1, <1>2, <2>1
<1>4. Point(D, 0) = D[0] \div e /\ High(D[0], SymBits - CodeExtra) = D[0] \div e
  BY <1>3 DEF Point, High
<1> HIDE DEF e, c
<1>5. PICK z, r : z = D[0] \div e /\ r = D[0] % e
  OBVIOUS
<1>6. z \in Nat /\ r \in 0..e - 1 /\ D[0] = e * z + r
  BY <1>1, <1>2, <1>5, Division
<1>7. z < c
  <2>1. \A y \in Nat : e * y < e * c => y < c
    BY <1>1
  <2>2. PICK y : y = e * z
    OBVIOUS
  <2>3. y \in Nat
    BY <1>1, <1>6, <2>2
  <2>4. e * z < e * c
    BY <1>1, <1>2, <1>6, <2>2, <2>3
  <2> QED BY <1>6, <2>1, <2>4
<1> QED BY <1>4, <1>5, <1>6, <1>7 DEF c

\* A new decoder follows the bytes from the whole interval.
LEMMA NewDecoderFollows ==
  ASSUME NEW rc \in Coder, \A i \in DOMAIN rc.buf : rc.buf[i] \in 0..SymMax, NEW n \in 0..rc.storage
  PROVE  /\ FirstBytes(rc.buf, n) \in ByteStream /\ LastBytesOf(rc.buf, n) \in ByteStream
         /\ Following(NewDecoder(rc.buf, n), FirstBytes(rc.buf, n), LastBytesOf(rc.buf, n), Start)
<1> DEFINE D == FirstBytes(rc.buf, n)
           B == LastBytesOf(rc.buf, n)
<1>1. n \in Nat /\ rc.storage \in Nat /\ 0..rc.storage - 1 \subseteq DOMAIN rc.buf /\ rc.buf \in Contents
  BY CoderTypes DEF Coder, Holds
<1>2. D \in ByteStream /\ B \in ByteStream
  <2>1. 0 \in 0..SymMax
    BY BaseIs
  <2>2. \A i \in Nat : i < n => rc.buf[i] \in 0..SymMax
    BY <1>1
  <2>3. \A i \in Nat : i < n => rc.buf[n - 1 - i] \in 0..SymMax
    <3> TAKE i \in Nat
    <3> HAVE i < n
    <3>1. n - 1 - i \in 0..rc.storage - 1
      BY <1>1
    <3> QED BY <1>1, <3>1
  <2> QED BY <2>1, <2>2, <2>3 DEF FirstBytes, LastBytesOf, ByteStream
<1> DEFINE t0 == CodeBits + 1 - ((CodeBits - CodeExtra) \div SymBits) * SymBits
           fresh == [buf |-> rc.buf, storage |-> n, endOffs |-> 0, endWindow |-> 0, nendBits |-> 0,
                     nbitsTotal |-> t0,
                     offs |-> 0, rng |-> Pow[CodeExtra], val |-> 0, ext |-> 0, rem |-> 0, error |-> 0]
           b == ReadByte(fresh)
           o == IF n > 0 THEN 1 ELSE 0
           v == Pow[CodeExtra] - 1 - High(b, SymBits - CodeExtra)
           d == [fresh EXCEPT !.rem = b, !.offs = o, !.val = v]
<1>3. NewDecoder(rc.buf, n) = NormalizeDecoder(d)
  BY DEF NewDecoder
<1>4. b = D[0]
  <2>1. fresh.offs = 0 /\ fresh.storage = n /\ fresh.buf = rc.buf
    OBVIOUS
  <2> HIDE DEF fresh
  <2>2. b = IF 0 < n THEN rc.buf[0] ELSE 0
    BY <2>1 DEF ReadByte
  <2> QED BY <1>1, <2>2 DEF FirstBytes
<1> HIDE DEF b
<1>5. D[0] \in 0..SymMax /\ D[0] \in Nat /\ Pow[CodeExtra] \in Nat \ {0}
  BY <1>2, BaseIs, QIs, Widths, PowPositive DEF ByteStream
<1>6. v = Pow[CodeExtra] - 1 - Point(D, 0) /\ v \in Nat /\ Point(D, 0) \in Nat /\ Point(D, 0) < Pow[CodeExtra]
  BY <1>2, <1>4, <1>5, FirstPoint
<1>7. t0 = CodeBits + 1 - SymBits * Q /\ t0 \in Nat /\ SymBits * Q \in Nat
  <2>1. CodeBits - CodeExtra = Q * SymBits + 1 /\ 1 \in 0..SymBits - 1 /\ SymBits \in Nat \ {0} /\ Q \in Nat
    BY QIs, Widths, WidthsFit
  <2>2. (CodeBits - CodeExtra) \div SymBits = Q
    BY <2>1, Remainder
  <2>3. PICK z : z = Q * SymBits
    OBVIOUS
  <2>4. z \in Nat /\ z = SymBits * Q /\ CodeExtra \in Nat /\ CodeBits \in Nat
    BY <2>1, <2>3, QIs, Widths
  <2> QED BY <2>1, <2>2, <2>3, <2>4
<1> HIDE DEF t0, v, o, D, B
<1>8. o \in Nat /\ o = IF 0 + 1 < n THEN 0 + 1 ELSE n
  BY <1>1 DEF o
<1>9. /\ d.buf = rc.buf /\ d.storage = n /\ d.endOffs = 0 /\ d.endWindow = 0 /\ d.nendBits = 0
      /\ d.nbitsTotal = t0 /\ d.offs = o /\ d.rng = Pow[CodeExtra] /\ d.val = v /\ d.rem = b
  OBVIOUS
<1>10. d \in Dec
  <2>1. d \in Coder
    <3> DEFINE g == Pow[CodeExtra]
    <3>1. g \in Nat /\ b \in Nat
      BY <1>4, <1>5
    <3> HIDE DEF g
    <3>2. fresh \in Records
      BY <1>1, <1>7, <3>1 DEF Records, g
    <3> HIDE DEF fresh
    <3>3. d \in Records
      BY <1>6, <1>8, <3>1, <3>2 DEF Records
    <3>4. Holds(d)
      BY <1>1, <1>9 DEF Holds
    <3> QED BY <3>3, <3>4 DEF Coder
  <2> QED BY <1>4, <1>5, <1>9, <2>1 DEF Dec
<1> HIDE DEF d
<1>11. FrontOf(d) = D /\ BackOf(d) = B
  BY <1>9, Zenon DEF FrontOf, BackOf, FirstBytes, LastBytesOf, D, B
<1>12. Tracks(d, D, 0, 0, Pow[CodeExtra])
  <2>1. 0 <= Point(D, 0) /\ Point(D, 0) < 0 + Pow[CodeExtra] /\ 0 + Pow[CodeExtra] - 1 - Point(D, 0) = v
    BY <1>5, <1>6
  <2> QED BY <1>4, <1>8, <1>9, <1>10, <1>11, <2>1 DEF Tracks
<1> DEFINE out == NormalizeDecoder(d)
<1>13. /\ Tracks(out, D, 0 + Q, 0 * Weight(Q), Pow[CodeExtra] * Weight(Q)) /\ Reads(out, d)
       /\ out.nbitsTotal = d.nbitsTotal + SymBits * Q
  <2>1. Pow[CodeExtra] * Weight(Q) \in CodeBot + 1..CodeTop
    <3>1. CodeTop = Weight(Q) * Pow[CodeExtra] /\ Weight(Q) \in Nat
      BY QIs, WeightIs
    <3>2. CodeTop = Pow[CodeExtra] * Weight(Q)
      BY <1>5, <3>1
    <3> QED BY <3>2, Widths
  <2> QED BY <1>2, <1>5, <1>12, <2>1, QIs, NormalizeDecoderTracks
<1> HIDE DEF out
<1>14. 0 + Q = Q + 0 /\ 0 * Weight(Q) = 0 /\ Pow[CodeExtra] * Weight(Q) = CodeTop
  <2>1. CodeTop = Weight(Q) * Pow[CodeExtra] /\ Weight(Q) \in Nat /\ Q \in Nat
    BY QIs, WeightIs
  <2>2. \A x \in Nat : 0 * x = 0
    OBVIOUS
  <2> QED BY <1>5, <2>1, <2>2
<1>15. Start.outs = 0 /\ Start.low = 0 /\ Start.rng = CodeTop /\ Start.raw = 0 /\ Start.rawBits = 0
  BY DEF Start
<1>16. BackOf(out) = B /\ out.nendBits = 0 /\ out.endWindow = 0 /\ out.endOffs = 0
  BY <1>9, <1>11, <1>13, SameBytes DEF Reads, SameEnd
<1>17. Window(out, B, Start)
  <2>1. B \in Stream
    BY <1>2 DEF ByteStream, Stream
  <2>2. EndDigits(B)[0] = 0
    BY <2>1, EndDigitsAre
  <2>3. Power[0] = 1 /\ SymBits * 0 = 0 + 0 /\ CodeBits \in Nat
    BY PowerStep, Widths
  <2>4. out.storage \in Nat
    BY <1>13, CoderTypes DEF Tracks, Dec
  <2>5. out.endOffs = IF 0 < out.storage THEN 0 ELSE out.storage
    BY <1>16, <2>4
  <2>6. EndDigits(B)[0] = Start.raw + Power[Start.rawBits] * out.endWindow
    BY <1>15, <1>16, <2>2, <2>3
  <2>7. SymBits * 0 = Start.rawBits + out.nendBits
    BY <1>15, <1>16, <2>3
  <2>8. \E m \in Nat : /\ SymBits * m = Start.rawBits + out.nendBits
                       /\ out.endOffs = IF m < out.storage THEN m ELSE out.storage
                       /\ EndDigits(B)[m] = Start.raw + Power[Start.rawBits] * out.endWindow
    BY <2>5, <2>6, <2>7
  <2> QED BY <1>16, <2>3, <2>8 DEF Window
<1>18. out.nbitsTotal = CodeBits + 1 + SymBits * 0 + 0
  <2>1. SymBits * 0 = 0 /\ CodeBits \in Nat
    BY Widths
  <2>2. PICK z : z = SymBits * Q
    OBVIOUS
  <2> QED BY <1>7, <1>9, <1>13, <2>1, <2>2
<1> QED BY <1>2, <1>3, <1>13, <1>14, <1>15, <1>16, <1>17, <1>18 DEF Following, D, B, out

\* A decoder that is to go on with the part of the range g wide, t below it.
Cut(w, d, t, g) ==
  /\ w \in Dec /\ Reads(w, d) /\ w.nbitsTotal = d.nbitsTotal /\ w.offs = d.offs /\ w.rem = d.rem
  /\ w.rng = g /\ w.val = d.val - t

\* Where the decoder's value lies when the digits are in the part a symbol took.
LEMMA NarrowVal ==
  ASSUME NEW D \in ByteStream, NEW B, NEW p, IsPlace(p), NEW q, NEW o, NEW g, Narrows(p, q, o, g), Inside(D, q),
         NEW d, Following(d, D, B, p)
  PROVE  LET t == p.rng - o - g
         IN  /\ t \in Nat /\ t <= d.val /\ d.val < t + g /\ d.val \in Nat /\ d.rng = p.rng
             /\ p.low + o <= Point(D, Q + p.outs) /\ Point(D, Q + p.outs) < p.low + o + g
             /\ d \in Dec /\ d \in Coder
<1>1. p \in Place /\ p.low \in Nat /\ p.rng \in Nat /\ p.outs \in Nat /\ Q + p.outs \in Nat
  BY QIs, Widths DEF IsPlace, Place
<1>2. o \in Nat /\ g \in Nat \ {0} /\ o + g <= p.rng
  BY DEF Narrows
<1>3. D \in Stream
  BY BaseIs DEF ByteStream, Stream
<1>4. Between(D, p.outs, p.low + o, p.low + o + g)
  BY <1>1, <1>3, NarrowsBack
<1>5. PICK P, a, b : P = Point(D, Q + p.outs) /\ a = p.low + o /\ b = p.low + o + g
  OBVIOUS
<1>6. a \in Nat /\ b \in Nat
  BY <1>1, <1>2, <1>5
<1>7. a <= P /\ P < b
  BY <1>1, <1>4, <1>5, <1>6, BetweenPoint
<1>8. d.rng = p.rng /\ d.val = p.low + p.rng - 1 - P /\ d \in Dec /\ d \in Coder /\ d.val \in Nat
  BY <1>5, CoderTypes DEF Following, Tracks, Dec
<1>9. P \in Nat
  BY <1>1, <1>5, PointIs
<1> QED BY <1>1, <1>2, <1>5, <1>6, <1>7, <1>8, <1>9

\* After a part was taken and normalised, the decoder follows the new place.
LEMMA NarrowFollows ==
  ASSUME NEW D \in ByteStream, NEW B, NEW p, IsPlace(p), NEW q, NEW o, NEW g, Narrows(p, q, o, g), Inside(D, q),
         NEW d, Following(d, D, B, p), NEW w, Cut(w, d, p.rng - o - g, g)
  PROVE  Following(NormalizeDecoder(w), D, B, q)
<1> DEFINE P == Point(D, Q + p.outs)
           j == Q + p.outs
           l == p.low + o
           out == NormalizeDecoder(w)
<1>1. /\ p.low \in Nat /\ p.rng \in Nat /\ p.outs \in Nat /\ j \in Nat /\ P \in Nat
      /\ p.raw \in Nat /\ p.rawBits \in Nat
  BY QIs, Widths, PointIs DEF IsPlace, Place
<1>2. o \in Nat /\ g \in Nat \ {0} /\ o + g <= p.rng /\ q.rng \in CodeBot + 1..CodeTop
  BY DEF Narrows
<1>3. PICK k \in Nat : q = [low |-> l * Weight(k), rng |-> g * Weight(k), outs |-> p.outs + k,
                            raw |-> p.raw, rawBits |-> p.rawBits]
  BY DEF Narrows
<1>4. q.low = l * Weight(k) /\ q.rng = g * Weight(k) /\ q.outs = p.outs + k /\ q.raw = p.raw /\ q.rawBits = p.rawBits
  BY <1>3
<1>5. l <= P /\ P < l + g /\ l \in Nat /\ d \in Dec
  BY <1>1, <1>2, NarrowVal
<1>6. /\ d.val = p.low + p.rng - 1 - P /\ FrontOf(d) = D /\ d.rem = D[j]
      /\ d.offs = IF j + 1 < d.storage THEN j + 1 ELSE d.storage
  BY DEF Following, Tracks
<1>7. BackOf(d) = B /\ Window(d, B, p) /\ d.nbitsTotal = CodeBits + 1 + SymBits * p.outs + p.rawBits
  BY DEF Following
<1>8. FrontOf(w) = D /\ BackOf(w) = B /\ w.storage = d.storage
  BY <1>6, <1>7, SameBytes DEF Cut, Reads, SameEnd
<1>9. Tracks(w, D, j, l, g)
  <2>1. w.val = l + g - 1 - P
    <3>1. w.val = d.val - (p.rng - o - g)
      BY DEF Cut
    <3> HIDE DEF P, j
    <3> QED BY <1>1, <1>2, <1>6, <3>1
  <2> HIDE DEF l
  <2> QED BY <1>5, <1>6, <1>8, <2>1 DEF Tracks, Cut
<1> HIDE DEF l, P, out
<1>10. /\ Tracks(out, D, j + k, l * Weight(k), g * Weight(k)) /\ Reads(out, w)
       /\ out.nbitsTotal = w.nbitsTotal + SymBits * k
  BY <1>1, <1>2, <1>4, <1>5, <1>9, NormalizeDecoderTracks DEF out
<1>11. j + k = Q + q.outs
  BY <1>1, <1>4, QIs
<1>12. BackOf(out) = B /\ SameEnd(out, d)
  BY <1>8, <1>10, SameBytes DEF Reads, SameEnd, Cut
<1>13. Window(out, B, q)
  BY <1>4, <1>7, <1>12 DEF Window, SameEnd
<1>14. out.nbitsTotal = CodeBits + 1 + SymBits * q.outs + q.rawBits
  <2>1. SymBits * (p.outs + k) = SymBits * p.outs + SymBits * k /\ SymBits * p.outs \in Nat /\ SymBits * k \in Nat
    BY <1>1, Widths
  <2>2. PICK x, y : x = SymBits * p.outs /\ y = SymBits * k
    OBVIOUS
  <2>3. w.nbitsTotal = d.nbitsTotal /\ CodeBits \in Nat
    BY Widths DEF Cut
  <2> QED BY <1>1, <1>4, <1>7, <1>10, <2>1, <2>2, <2>3
<1> HIDE DEF j
<1> QED BY <1>4, <1>10, <1>11, <1>12, <1>13, <1>14 DEF Following, out

\* The forms in which the code takes a part.
LEMMA CutIs ==
  ASSUME NEW d \in Dec, NEW t \in Nat, t <= d.val, NEW g \in Nat
  PROVE  /\ Cut([d EXCEPT !.val = d.val - t, !.rng = g], d, t, g)
         /\ t = 0 => Cut([d EXCEPT !.rng = g], d, t, g)
         /\ \A r \in Nat : Cut([d EXCEPT !.ext = r, !.val = d.val - t, !.rng = g], d, t, g)
<1>1. d \in Coder /\ d.val \in Nat /\ d.val - t \in Nat /\ d.rem \in Nat
  BY CoderTypes DEF Dec
<1>2. PICK v : v = d.val - t
  OBVIOUS
<1>3. v \in Nat
  BY <1>1, <1>2
<1> DEFINE a == [d EXCEPT !.val = v, !.rng = g]
<1>4. Cut(a, d, t, g)
  <2>1. /\ a.storage = d.storage /\ a.endOffs = d.endOffs /\ a.endWindow = d.endWindow
        /\ a.nendBits = d.nendBits /\ a.nbitsTotal = d.nbitsTotal /\ a.rng = g /\ a.buf = d.buf /\ a.val = v
        /\ a.offs = d.offs /\ a.rem = d.rem
    BY <1>1 DEF Coder, Records
  <2>2. a \in Coder
    BY <1>1, <1>3 DEF Coder, Records, Holds
  <2> HIDE DEF a
  <2> QED BY <1>1, <1>2, <2>1, <2>2 DEF Cut, Dec, Reads, SameEnd
<1> DEFINE b == [d EXCEPT !.rng = g]
<1>5. t = 0 => Cut(b, d, t, g)
  <2>1. /\ b.storage = d.storage /\ b.endOffs = d.endOffs /\ b.endWindow = d.endWindow
        /\ b.nendBits = d.nendBits /\ b.nbitsTotal = d.nbitsTotal /\ b.rng = g /\ b.buf = d.buf /\ b.val = d.val
        /\ b.offs = d.offs /\ b.rem = d.rem
    BY <1>1 DEF Coder, Records
  <2>2. b \in Coder
    BY <1>1 DEF Coder, Records, Holds
  <2> HIDE DEF b
  <2> QED BY <1>1, <1>2, <2>1, <2>2 DEF Cut, Dec, Reads, SameEnd
<1>6. ASSUME NEW r \in Nat PROVE Cut([d EXCEPT !.ext = r, !.val = v, !.rng = g], d, t, g)
  <2> DEFINE c == [d EXCEPT !.ext = r, !.val = v, !.rng = g]
  <2>1. /\ c.storage = d.storage /\ c.endOffs = d.endOffs /\ c.endWindow = d.endWindow
        /\ c.nendBits = d.nendBits /\ c.nbitsTotal = d.nbitsTotal /\ c.rng = g /\ c.buf = d.buf /\ c.val = v
        /\ c.offs = d.offs /\ c.rem = d.rem
    BY <1>1 DEF Coder, Records
  <2>2. c \in Coder
    BY <1>1, <1>3 DEF Coder, Records, Holds
  <2> HIDE DEF c
  <2>3. Cut(c, d, t, g)
    BY <1>1, <1>2, <2>1, <2>2 DEF Cut, Dec, Reads, SameEnd
  <2> QED BY <2>3 DEF c
<1> QED BY <1>2, <1>4, <1>5, <1>6

\* Reading a bit.
LEMMA DecodeBitFollows ==
  ASSUME NEW D \in ByteStream, NEW B, NEW p, IsPlace(p), NEW q, NEW logp \in 1..CodeShift, NEW v \in {0, 1},
         LET h == p.rng \div Pow[logp]
         IN  IF v = 1 THEN Narrows(p, q, p.rng - h, h) ELSE Narrows(p, q, 0, p.rng - h),
         Inside(D, q), NEW d, Following(d, D, B, p)
  PROVE  LET out == DecodeBitLogp(d, logp)
         IN  out.value = v /\ Following(out.rc, D, B, q)
<1> DEFINE h == p.rng \div Pow[logp]
<1>1. p.rng \in Nat /\ p.rng > CodeBot
  BY Widths DEF IsPlace, Place
<1>2. h \in 1..p.rng - 1
  BY <1>1, LogShare
<1>3. CASE v = 1
  <2>1. Narrows(p, q, p.rng - h, h)
    BY <1>3
  <2> HIDE DEF h
  <2>2. /\ p.rng - (p.rng - h) - h <= d.val /\ d.val < (p.rng - (p.rng - h) - h) + h /\ d.val \in Nat
        /\ d.rng = p.rng /\ d \in Dec
    BY <2>1, NarrowVal
  <2>3. d.val < h /\ p.rng - (p.rng - h) - h = 0 /\ h \in Nat
    BY <1>1, <1>2, <2>2
  <2>4. Cut([d EXCEPT !.rng = h], d, p.rng - (p.rng - h) - h, h)
    <3>1. 0 \in Nat /\ 0 <= d.val /\ d \in Dec /\ h \in Nat
      BY <2>2, <2>3
    <3>2. Cut([d EXCEPT !.rng = h], d, 0, h)
      BY <3>1, CutIs
    <3> QED BY <2>3, <3>2
  <2>5. Following(NormalizeDecoder([d EXCEPT !.rng = h]), D, B, q)
    BY <2>1, <2>4, NarrowFollows
  <2>6. DecodeBitLogp(d, logp) = [value |-> 1, rc |-> NormalizeDecoder([d EXCEPT !.rng = h])]
    BY <2>2, <2>3 DEF DecodeBitLogp, h
  <2> QED BY <1>3, <2>5, <2>6
<1>4. CASE v = 0
  <2>1. Narrows(p, q, 0, p.rng - h)
    BY <1>4
  <2> HIDE DEF h
  <2>2. /\ p.rng - 0 - (p.rng - h) <= d.val /\ d.val \in Nat
        /\ d.rng = p.rng /\ d \in Dec
    BY <2>1, NarrowVal
  <2>3. ~(d.val < h) /\ p.rng - 0 - (p.rng - h) = h /\ h \in Nat /\ p.rng - h \in Nat
    BY <1>1, <1>2, <2>2
  <2> DEFINE w == [d EXCEPT !.val = d.val - h, !.rng = p.rng - h]
  <2>4. Cut(w, d, p.rng - 0 - (p.rng - h), p.rng - h)
    BY <2>2, <2>3, CutIs
  <2>5. Following(NormalizeDecoder(w), D, B, q)
    <3> HIDE DEF w
    <3> QED BY <2>1, <2>4, NarrowFollows
  <2>6. DecodeBitLogp(d, logp) = [value |-> 0, rc |-> NormalizeDecoder(w)]
    BY <2>2, <2>3 DEF DecodeBitLogp, h
  <2> HIDE DEF w
  <2> QED BY <1>4, <2>5, <2>6
<1> QED BY <1>3, <1>4

\* The entries of a table do not grow.
LEMMA TableOrder ==
  ASSUME NEW icdf, NEW ftb, IsTable(icdf, ftb)
  PROVE  \A i \in 1..Len(icdf), k \in 1..Len(icdf) : i <= k => icdf[k] <= icdf[i]
<1>1. Len(icdf) \in Nat /\ \A i \in 1..Len(icdf) : icdf[i] \in Nat
  BY TableFalls DEF IsTable
<1>2. SUFFICES ASSUME NEW i \in 1..Len(icdf) PROVE \A k \in 1..Len(icdf) : i <= k => icdf[k] <= icdf[i]
  OBVIOUS
<1> DEFINE n == Len(icdf) - i
           T == {a \in Nat : a <= n => icdf[i + a] <= icdf[i]}
<1>3. n \in Nat
  BY <1>1
<1>4. 0 \in T
  BY <1>1
<1>5. ASSUME NEW a \in 0..n - 1, a \in T PROVE a + 1 \in T
  <2>1. i + a \in 1..Len(icdf) /\ i + (a + 1) \in 2..Len(icdf) /\ (i + (a + 1)) - 1 = i + a
        /\ i + (a + 1) \in 1..Len(icdf) /\ a \in Nat
    BY <1>1, <1>3
  <2>2. icdf[i + (a + 1)] < icdf[(i + (a + 1)) - 1]
    BY <2>1 DEF IsTable
  <2>3. icdf[i + a] <= icdf[i]
    BY <1>5, <2>1, <1>3
  <2>4. icdf[i] \in Nat /\ icdf[i + a] \in Nat /\ icdf[i + (a + 1)] \in Nat
    BY <1>1, <2>1
  <2>5. icdf[i + (a + 1)] <= icdf[i]
    BY <2>1, <2>2, <2>3, <2>4
  <2> QED BY <2>1, <2>5
<1>6. 0..n \subseteq T
  <2> HIDE DEF T, n
  <2> QED BY <1>3, <1>4, <1>5, InductionTo
<1>7. \A a \in 0..n : icdf[i + a] <= icdf[i]
  <2> TAKE a \in 0..n
  <2>1. a \in T /\ a <= n
    <3> HIDE DEF T
    <3> QED BY <1>3, <1>6
  <2> QED BY <2>1
<1>8. ASSUME NEW k \in 1..Len(icdf), i <= k PROVE icdf[k] <= icdf[i]
  <2>1. k - i \in 0..n /\ i + (k - i) = k
    BY <1>1, <1>8
  <2> QED BY <1>7, <2>1
<1> QED BY <1>8

\* Reading a symbol of a table.
LEMMA DecodeIcdfFollows ==
  ASSUME NEW D \in ByteStream, NEW B, NEW p, IsPlace(p), NEW q, NEW icdf, NEW ftb, IsTable(icdf, ftb),
         NEW s \in Nat, s < Len(icdf),
         LET r == p.rng \div Pow[ftb]
         IN  IF s > 0 THEN Narrows(p, q, p.rng - r * icdf[s], r * (icdf[s] - icdf[s + 1]))
             ELSE Narrows(p, q, 0, p.rng - r * icdf[1]),
         Inside(D, q), NEW d, Following(d, D, B, p)
  PROVE  LET out == DecodeIcdf(d, icdf, ftb)
         IN  out.value = s /\ Following(out.rc, D, B, q)
<1> DEFINE r == p.rng \div Pow[ftb]
           o == IF s > 0 THEN p.rng - r * icdf[s] ELSE 0
           g == IF s > 0 THEN r * (icdf[s] - icdf[s + 1]) ELSE p.rng - r * icdf[1]
           t == r * icdf[s + 1]
           top == IF s > 0 THEN r * icdf[s] ELSE p.rng
<1>1. p.rng \in Nat /\ p.rng > CodeBot
  <2>1. p \in Place
    BY Zenon DEF IsPlace
  <2> HIDE DEF r, o, g, t, top
  <2>2. p.rng \in CodeBot + 1..CodeTop
    BY <2>1, Zenon DEF Place
  <2> QED BY <2>2, Widths
<1>2. /\ r \in Nat /\ icdf[s + 1] \in Nat
      /\ s > 0 => /\ icdf[s] \in Nat /\ icdf[s] > icdf[s + 1]
                  /\ r * icdf[s] \in 1..p.rng /\ r * (icdf[s] - icdf[s + 1]) \in 1..r * icdf[s]
      /\ s = 0 => r * icdf[1] \in 0..p.rng - 1
  BY <1>1, TableShare
<1>3. Len(icdf) \in Nat /\ s + 1 \in 1..Len(icdf) /\ \A i \in 1..Len(icdf) : icdf[i] \in Nat
  BY TableFalls DEF IsTable
<1>4. Narrows(p, q, o, g)
  OBVIOUS
<1> HIDE DEF r
<1>5. t \in Nat /\ p.rng - o - g = t /\ g = top - t /\ g \in Nat /\ top \in Nat
  <2>1. t \in Nat
    <3>1. \A x \in Nat, y \in Nat : x * y \in Nat
      OBVIOUS
    <3> QED BY <1>2, <3>1
  <2>2. CASE s > 0
    <3>1. \A x \in Nat, y \in Nat : y <= x => r * (x - y) = r * x - r * y
      BY <1>2
    <3>2. r * (icdf[s] - icdf[s + 1]) = r * icdf[s] - r * icdf[s + 1]
      BY <1>2, <2>2, <3>1
    <3>3. PICK a, b : a = r * icdf[s] /\ b = r * icdf[s + 1]
      OBVIOUS
    <3>4. a \in 1..p.rng /\ b \in Nat /\ g = a - b /\ o = p.rng - a /\ a - b \in 1..a /\ top = a /\ t = b
      BY <1>2, <2>1, <2>2, <3>2, <3>3
    <3> HIDE DEF g, o, top, t
    <3> QED BY <1>1, <3>4
  <2>3. CASE s = 0
    <3>1. PICK b : b = r * icdf[1]
      OBVIOUS
    <3>2. b \in 0..p.rng - 1 /\ g = p.rng - b /\ o = 0 /\ top = p.rng /\ t = b
      BY <1>2, <2>3, <3>1
    <3> HIDE DEF g, o, top, t
    <3> QED BY <1>1, <3>2
  <2> QED BY <2>1, <2>2, <2>3
<1> HIDE DEF o, g
<1>6. p.rng - o - g <= d.val /\ d.val < (p.rng - o - g) + g /\ d.val \in Nat /\ d.rng = p.rng /\ d \in Dec
  BY <1>4, NarrowVal
<1>7. t <= d.val /\ d.val < top
  <2> HIDE DEF t, top
  <2> QED BY <1>1, <1>5, <1>6
<1> DEFINE Fits1(i) == d.val >= r * icdf[i] /\ \A j \in 1..i - 1 : d.val < r * icdf[j]
           found == CHOOSE i \in 1..Len(icdf) : Fits1(i)
<1>8. \A i \in 1..Len(icdf), k \in 1..Len(icdf) : i <= k => r * icdf[k] <= r * icdf[i] /\ r * icdf[k] \in Nat /\ r * icdf[i] \in Nat
  <2>1. \A x \in Nat, y \in Nat : x <= y => r * x <= r * y /\ r * x \in Nat /\ r * y \in Nat
    BY <1>2
  <2> QED BY <1>3, <2>1, TableOrder
<1>9. Fits1(s + 1)
  <2>1. ASSUME NEW j \in 1..(s + 1) - 1 PROVE d.val < r * icdf[j]
    <3>1. s > 0 /\ j \in 1..Len(icdf) /\ s \in 1..Len(icdf) /\ j <= s
      BY <1>3, <2>1
    <3>2. d.val < r * icdf[s]
      BY <1>7, <3>1
    <3>3. r * icdf[s] <= r * icdf[j] /\ r * icdf[s] \in Nat /\ r * icdf[j] \in Nat
      BY <1>8, <3>1
    <3> QED BY <1>6, <3>2, <3>3
  <2> QED BY <1>7, <2>1
<1>10. \A i \in 1..Len(icdf) : Fits1(i) => i = s + 1
  <2> TAKE i \in 1..Len(icdf)
  <2> HAVE Fits1(i)
  <2>1. ~(i < s + 1)
    <3> SUFFICES ASSUME i < s + 1 PROVE FALSE
      OBVIOUS
    <3>1. d.val < r * icdf[i]
      BY <1>9, <1>3
    <3>2. d.val >= r * icdf[i]
      OBVIOUS
    <3> QED BY <1>6, <1>8, <3>1, <3>2
  <2>2. ~(i > s + 1)
    <3> SUFFICES ASSUME i > s + 1 PROVE FALSE
      OBVIOUS
    <3>1. s + 1 \in 1..i - 1
      BY <1>3
    <3>2. d.val < r * icdf[s + 1]
      BY <3>1
    <3>3. r * icdf[s + 1] \in Nat
      BY <1>3, <1>8
    <3> QED BY <1>5, <1>6, <1>7, <3>2, <3>3
  <2> QED BY <1>3, <2>1, <2>2
<1>11. found = s + 1
  <2> HIDE DEF Fits1
  <2>1. found \in 1..Len(icdf) /\ Fits1(found)
    BY <1>3, <1>9, Zenon
  <2> QED BY <1>10, <2>1
<1> DEFINE w == [d EXCEPT !.val = d.val - t, !.rng = top - t]
<1>12. DecodeIcdf(d, icdf, ftb) = [value |-> s, rc |-> NormalizeDecoder(w)]
  <2> DEFINE rr == d.rng \div Pow[ftb]
             ff == CHOOSE i \in 1..Len(icdf) : /\ d.val >= rr * icdf[i]
                                               /\ \A j \in 1..i - 1 : d.val < rr * icdf[j]
             tt == IF ff = 1 THEN d.rng ELSE rr * icdf[ff - 1]
  <2>1. rr = r
    BY <1>6 DEF r
  <2>2. ff = found
    BY <2>1, Zenon
  <2>3. tt = top /\ ff = s + 1
    <3>1. s + 1 = 1 <=> s = 0
      OBVIOUS
    <3>2. (s + 1) - 1 = s
      OBVIOUS
    <3> HIDE DEF ff, rr, found
    <3> QED BY <1>6, <1>11, <2>1, <2>2, <3>1, <3>2
  <2>4. DecodeIcdf(d, icdf, ftb)
          = [value |-> ff - 1, rc |-> NormalizeDecoder([d EXCEPT !.val = d.val - rr * icdf[ff], !.rng = tt - rr * icdf[ff]])]
    BY DEF DecodeIcdf
  <2>5. rr * icdf[ff] = t /\ ff - 1 = s
    <3> HIDE DEF rr, ff, tt
    <3> QED BY <2>1, <2>3
  <2> HIDE DEF rr, ff, tt, t, top
  <2> QED BY <2>3, <2>4, <2>5
<1> HIDE DEF t, top
<1>13. Cut(w, d, p.rng - o - g, g)
  <2>1. Cut([d EXCEPT !.val = d.val - t, !.rng = g], d, t, g)
    BY <1>5, <1>6, <1>7, CutIs
  <2> QED BY <1>5, <2>1
<1> HIDE DEF w
<1>14. Following(NormalizeDecoder(w), D, B, q)
  BY <1>4, <1>13, NarrowFollows
<1> QED BY <1>12, <1>14

\* The share counted from the top tells the symbol.
LEMMA ShareFound ==
  ASSUME NEW r \in Nat \ {0}, NEW n \in Nat \ {0}, NEW f \in 0..n - 1, NEW v \in Nat,
         r * (n - f - 1) <= v, f > 0 => v < r * (n - f)
  PROVE  LET c == v \div r + 1 IN n - (IF n < c THEN n ELSE c) = f
<1>1. PICK z, y : z = v \div r /\ y = v % r
  OBVIOUS
<1>2. z \in Nat /\ y \in 0..r - 1 /\ v = r * z + y
  BY <1>1, Division
<1>3. n - f - 1 \in Nat /\ n - f \in Nat
  OBVIOUS
<1>4. \A a \in Nat, b \in Nat : a < b => r * (a + 1) <= r * b
  OBVIOUS
<1>5. \A a \in Nat : r * a \in Nat /\ r * (a + 1) = r * a + r
  OBVIOUS
<1>6. z >= n - f - 1
  <2> SUFFICES ASSUME z < n - f - 1 PROVE FALSE
    BY <1>2, <1>3
  <2>1. PICK a, b : a = r * z /\ b = r * (n - f - 1)
    OBVIOUS
  <2>2. a \in Nat /\ b \in Nat /\ a + r <= b
    BY <1>2, <1>3, <1>4, <1>5, <2>1
  <2> QED BY <1>2, <2>1, <2>2
<1>7. f > 0 => z < n - f
  <2> SUFFICES ASSUME f > 0, ~(z < n - f) PROVE FALSE
    OBVIOUS
  <2>1. PICK a, b : a = r * z /\ b = r * (n - f)
    OBVIOUS
  <2>2. \A i \in Nat, k \in Nat : i <= k => r * i <= r * k
    OBVIOUS
  <2>3. n - f <= z
    BY <1>2, <1>3
  <2>4. a \in Nat /\ b \in Nat /\ b <= a
    BY <1>2, <1>3, <1>5, <2>1, <2>2, <2>3
  <2> QED BY <1>2, <2>1, <2>4
<1> QED BY <1>1, <1>2, <1>6, <1>7

\* decode() finds the share, and update() takes it.
LEMMA DecodeSharesFollows ==
  ASSUME NEW D \in ByteStream, NEW B, NEW p, IsPlace(p), NEW m, NEW n \in 1..CodeBot, NEW f \in 0..n - 1,
         Shares(p, m, f, f + 1, n), Inside(D, m), NEW d, Following(d, D, B, p)
  PROVE  Decode(d, n) = f /\ Following(Update(d, f, f + 1, n), D, B, m)
<1> DEFINE r == p.rng \div n
           o == IF f > 0 THEN p.rng - r * (n - f) ELSE 0
           g == IF f > 0 THEN r * ((f + 1) - f) ELSE p.rng - r * (n - (f + 1))
           t == r * (n - (f + 1))
<1>1. p.rng \in Nat /\ p.rng > CodeBot /\ CodeBot \in Nat
  <2>1. p.rng \in CodeBot + 1..CodeTop
    BY Zenon DEF IsPlace, Place
  <2> QED BY <2>1, Widths
<1>2. Narrows(p, m, o, g)
  BY DEF Shares
<1>3. r \in Nat \ {0} /\ f \in Nat /\ n \in Nat \ {0} /\ n - f \in Nat \ {0} /\ n - (f + 1) \in Nat
  <2>1. n \in Nat \ {0} /\ f \in 0..n /\ 1 \in 0..n /\ 0 \in 0..n /\ f \in Nat
    BY <1>1
  <2>2. r * 1 \in 1..p.rng
    <3>1. 1 > 0 => (p.rng \div n) * 1 \in 1..p.rng
      BY <1>1, <2>1, Share
    <3> QED BY <3>1
  <2>3. r \in Nat
    BY <1>1, <2>1, Division
  <2> HIDE DEF r
  <2> QED BY <2>1, <2>2, <2>3
<1> HIDE DEF r
<1>4. t \in Nat /\ p.rng - o - g = t /\ g \in Nat /\ (f > 0 => t + g = r * (n - f)) /\ (f > 0 => g = r)
      /\ (f > 0 => g = r * ((f + 1) - f)) /\ (f = 0 => g = p.rng - t)
  <2>0. t \in Nat
    <3>1. \A x \in Nat, y \in Nat : x * y \in Nat
      OBVIOUS
    <3> QED BY <1>3, <3>1
  <2>1. CASE f > 0
    <3>1. r * (n - f) = t + r
      <4>1. n - f = (n - (f + 1)) + 1
        BY <1>3
      <4>2. \A a \in Nat : r * (a + 1) = r * a + r
        BY <1>3
      <4> QED BY <1>3, <4>1, <4>2
    <3>2. (f + 1) - f = 1 /\ r * 1 = r
      BY <1>3
    <3>3. g = r /\ o = p.rng - (t + r)
      BY <2>1, <3>1, <3>2
    <3>4. g = r * ((f + 1) - f)
      BY <2>1
    <3> HIDE DEF g, o, t
    <3> QED BY <1>1, <1>3, <2>0, <2>1, <3>1, <3>3, <3>4
  <2>2. CASE f = 0
    <3>1. g = p.rng - t /\ o = 0
      BY <2>2
    <3>2. g \in Nat
      BY <1>2 DEF Narrows
    <3> HIDE DEF g, o, t
    <3> QED BY <1>1, <2>0, <2>2, <3>1, <3>2
  <2> QED BY <1>3, <2>1, <2>2
<1> HIDE DEF o, g
<1>5. p.rng - o - g <= d.val /\ d.val < (p.rng - o - g) + g /\ d.val \in Nat /\ d.rng = p.rng /\ d \in Dec
  BY <1>2, NarrowVal
<1>6. Decode(d, n) = f
  <2>1. r * (n - f - 1) <= d.val
    <3>1. n - f - 1 = n - (f + 1)
      BY <1>3
    <3> QED BY <1>4, <1>5, <3>1
  <2>2. f > 0 => d.val < r * (n - f)
    BY <1>4, <1>5
  <2>3. n - (IF n < d.val \div r + 1 THEN n ELSE d.val \div r + 1) = f
    <3>1. PICK v : v = d.val
      OBVIOUS
    <3>2. r \in Nat \ {0} /\ n \in Nat \ {0} /\ f \in 0..n - 1 /\ v \in Nat /\ r * (n - f - 1) <= v /\ (f > 0 => v < r * (n - f))
      BY <1>3, <1>5, <2>1, <2>2, <3>1
    <3>3. n - (IF n < v \div r + 1 THEN n ELSE v \div r + 1) = f
      <4> HIDE DEF t
      <4> QED BY ONLY <3>2, ShareFound
    <3> QED BY <3>1, <3>3
  <2>4. d.rng \div n = r
    BY <1>5 DEF r
  <2> QED BY <2>3, <2>4, Zenon DEF Decode
<1> DEFINE w == [d EXCEPT !.ext = r, !.val = d.val - t, !.rng = g]
<1>7. Update(d, f, f + 1, n) = NormalizeDecoder(w)
  <2> DEFINE rr == d.rng \div n
             gg == IF f > 0 THEN rr * ((f + 1) - f) ELSE d.rng - rr * (n - (f + 1))
  <2>1. Update(d, f, f + 1, n) = NormalizeDecoder([d EXCEPT !.ext = rr, !.val = d.val - rr * (n - (f + 1)), !.rng = gg])
    BY DEF Update
  <2>2. rr = r
    BY <1>5 DEF r
  <2>3. gg = g
    <3>1. CASE f > 0
      BY <1>4, <2>2, <3>1
    <3>2. CASE f = 0
      BY <1>4, <1>5, <2>2, <3>2
    <3> QED BY <1>3, <3>1, <3>2
  <2> HIDE DEF rr, gg
  <2> QED BY <2>1, <2>2, <2>3
<1>8. Cut(w, d, p.rng - o - g, g)
  <2>1. t \in Nat /\ t <= d.val /\ r \in Nat
    BY <1>3, <1>4, <1>5
  <2> HIDE DEF t
  <2>2. Cut([d EXCEPT !.ext = r, !.val = d.val - t, !.rng = g], d, t, g)
    BY <1>4, <1>5, <2>1, CutIs
  <2> QED BY <1>4, <2>2
<1> HIDE DEF w
<1>9. Following(NormalizeDecoder(w), D, B, m)
  BY <1>2, <1>8, NarrowFollows
<1> QED BY <1>6, <1>7, <1>9

\* Bytes further up leave the low bits alone.
LEMMA BitsStay ==
  ASSUME NEW B \in Stream, NEW k \in Nat, NEW a \in Nat, SymBits * a >= k, NEW i \in Nat
  PROVE  \E z \in Nat : EndDigits(B)[a + i] = EndDigits(B)[a] + Power[k] * z
<1> DEFINE E == EndDigits(B)
           T == {b \in Nat : \E z \in Nat : E[a + b] = E[a] + Power[k] * z}
<1>1. \A b \in Nat : E[b] \in Nat /\ E[b + 1] = E[b] + B[b] * Weight(b) /\ B[b] \in Nat
  BY EndDigitsAre DEF Stream
<1> HIDE DEF E
<1>2. Power[k] \in Nat
  BY PowerPositive
<1>3. 0 \in T
  <2>1. E[a + 0] = E[a] + Power[k] * 0
    BY <1>1, <1>2
  <2> QED BY <2>1
<1>4. ASSUME NEW b \in T PROVE b + 1 \in T
  <2>1. b \in Nat /\ a + b \in Nat /\ a + (b + 1) = (a + b) + 1
    OBVIOUS
  <2>2. PICK z \in Nat : E[a + b] = E[a] + Power[k] * z
    OBVIOUS
  <2>3. SymBits * (a + b) >= k /\ SymBits * (a + b) \in Nat
    <3>1. SymBits * (a + b) = SymBits * a + SymBits * b /\ SymBits * b \in Nat /\ SymBits * a \in Nat
      BY <2>1, Widths
    <3> QED BY <3>1
  <2> DEFINE c == SymBits * (a + b) - k
  <2>4. c \in Nat /\ SymBits * (a + b) = k + c
    BY <2>3
  <2> HIDE DEF c
  <2>5. Weight(a + b) = Power[k] * Power[c] /\ Power[c] \in Nat
    BY <2>4, PowerSum, PowerPositive DEF Weight
  <2>6. PICK x, y, u : x = B[a + b] /\ y = Power[c] /\ u = Power[k]
    OBVIOUS
  <2>7. x \in Nat /\ y \in Nat /\ u \in Nat
    BY <1>1, <1>2, <2>1, <2>5, <2>6
  <2>8. E[a + (b + 1)] = E[a] + u * z + x * (u * y)
    BY <1>1, <2>1, <2>2, <2>5, <2>6
  <2>9. u * z + x * (u * y) = u * (z + x * y) /\ z + x * y \in Nat
    <3>1. x * (u * y) = u * (x * y) /\ x * y \in Nat
      BY <2>7
    <3>2. \A h \in Nat : u * (z + h) = u * z + u * h
      BY <2>7
    <3> QED BY <3>1, <3>2
  <2>10. E[a] + u * z + x * (u * y) = E[a] + (u * z + x * (u * y))
    <3>1. E[a] \in Nat /\ u * z \in Nat /\ x * (u * y) \in Nat
      <4>1. \A g \in Nat, h \in Nat : g * h \in Nat
        OBVIOUS
      <4> QED BY <1>1, <2>7, <4>1
    <3>2. \A f \in Nat, g \in Nat, h \in Nat : f + g + h = f + (g + h)
      OBVIOUS
    <3> QED BY <3>1, <3>2
  <2>11. E[a + (b + 1)] = E[a] + Power[k] * (z + x * y)
    BY <2>6, <2>8, <2>9, <2>10
  <2> QED BY <2>1, <2>9, <2>11
<1>5. T = Nat
  <2> HIDE DEF T
  <2>1. T \subseteq Nat
    BY DEF T
  <2> QED BY <1>3, <1>4, <2>1, Induction
<1>6. i \in T
  <2> HIDE DEF T
  <2> QED BY <1>5
<1> QED BY <1>6 DEF E

\* However many bytes are looked at.
LEMMA AgreesAt ==
  ASSUME NEW B \in Stream, NEW p, IsPlace(p), Agrees(B, p), NEW m \in Nat, SymBits * m >= p.rawBits
  PROVE  \E h \in Nat : EndDigits(B)[m] = p.raw + Power[p.rawBits] * h
<1>1. p.raw \in Nat /\ p.rawBits \in Nat /\ p.raw < Power[p.rawBits]
  BY DEF IsPlace, Place
<1>2. PICK a \in Nat, h \in Nat : SymBits * a >= p.rawBits /\ EndDigits(B)[a] = p.raw + Power[p.rawBits] * h
  BY DEF Agrees
<1>3. PICK u, x, y : u = Power[p.rawBits] /\ x = EndDigits(B)[a] /\ y = EndDigits(B)[m]
  OBVIOUS
<1>4. u \in Nat \ {0} /\ x \in Nat /\ y \in Nat
  BY <1>1, <1>2, <1>3, PowerPositive, EndDigitsAre
<1>5. \A f \in Nat, g \in Nat : u * (f + g) = u * f + u * g /\ u * f \in Nat /\ (f < g => u * f + u <= u * g)
  <2>1. \A f \in Nat, g \in Nat : u * (f + g) = u * f + u * g /\ u * f \in Nat
    BY <1>4
  <2>2. \A f \in Nat, g \in Nat : f < g => u * (f + 1) <= u * g
    BY <1>4
  <2>3. \A f \in Nat : u * (f + 1) = u * f + u
    BY <1>4
  <2> QED BY <2>1, <2>2, <2>3
<1>6. CASE m >= a
  <2>1. m - a \in Nat /\ a + (m - a) = m
    BY <1>2, <1>6
  <2>2. PICK z \in Nat : y = x + u * z
    <3>1. PICK c : c = m - a
      OBVIOUS
    <3>2. \E z \in Nat : EndDigits(B)[a + c] = EndDigits(B)[a] + Power[p.rawBits] * z
      <4>1. B \in Stream /\ p.rawBits \in Nat /\ a \in Nat /\ c \in Nat /\ SymBits * a >= p.rawBits
        BY <1>1, <1>2, <2>1, <3>1
      <4> QED BY ONLY <4>1, BitsStay
    <3>3. a + c = m
      BY <2>1, <3>1
    <3> QED BY <1>3, <3>2, <3>3
  <2>3. y = p.raw + u * (h + z)
    <3>1. PICK b, c : b = u * h /\ c = u * z
      OBVIOUS
    <3>2. b \in Nat /\ c \in Nat /\ u * (h + z) = b + c
      BY <1>5, <3>1
    <3> QED BY <1>1, <1>2, <1>3, <2>2, <3>1, <3>2
  <2> QED BY <1>3, <2>3
<1>7. CASE ~(m >= a)
  <2>1. a - m \in Nat /\ m + (a - m) = a
    BY <1>2, <1>7
  <2>2. PICK z \in Nat : x = y + u * z
    <3>1. PICK c : c = a - m
      OBVIOUS
    <3>2. \E z \in Nat : EndDigits(B)[m + c] = EndDigits(B)[m] + Power[p.rawBits] * z
      BY <1>1, <2>1, <3>1, BitsStay
    <3>3. m + c = a
      BY <2>1, <3>1
    <3> QED BY <1>3, <3>2, <3>3
  <2>3. PICK b, c : b = u * h /\ c = u * z
    OBVIOUS
  <2>4. b \in Nat /\ c \in Nat /\ p.raw + b = y + c
    BY <1>1, <1>2, <1>3, <1>5, <2>2, <2>3
  <2>5. ~(h < z)
    <3> SUFFICES ASSUME h < z PROVE FALSE
      OBVIOUS
    <3>1. b + u <= c
      BY <1>5, <2>3
    <3> QED BY <1>1, <1>3, <1>4, <2>4, <3>1
  <2>6. h - z \in Nat /\ h = z + (h - z)
    BY <2>5
  <2>7. PICK f : f = h - z
    OBVIOUS
  <2>8. b = c + u * f /\ u * f \in Nat
    BY <1>5, <2>3, <2>6, <2>7
  <2>9. y = p.raw + u * f
    BY <1>1, <1>4, <2>4, <2>8
  <2> QED BY <1>3, <2>6, <2>7, <2>9
<1> QED BY <1>6, <1>7

\* The window filled by a byte.
Filled(w, d) ==
  /\ w \in Dec /\ w.buf = d.buf /\ w.storage = d.storage /\ w.offs = d.offs /\ w.rem = d.rem /\ w.rng = d.rng
  /\ w.val = d.val /\ w.nbitsTotal = d.nbitsTotal

\* What one round of the window's filling changes.
LEMMA FillRoundFields ==
  ASSUME NEW d \in Dec
  PROVE  LET w == FillRound(d)
             more == d.endOffs < d.storage
             b == IF more THEN d.buf[d.storage - d.endOffs - 1] ELSE 0
         IN  /\ Filled(w, d)
             /\ d.nendBits > CodeBits - SymBits => w = d
             /\ ~(d.nendBits > CodeBits - SymBits) =>
                  /\ b \in Nat /\ w.endOffs = IF more THEN d.endOffs + 1 ELSE d.endOffs
                  /\ w.endWindow = d.endWindow + b * Pow[d.nendBits] /\ w.nendBits = d.nendBits + SymBits
<1>1. CASE d.nendBits > CodeBits - SymBits
  <2>1. FillRound(d) = d
    BY <1>1 DEF FillRound
  <2> QED BY <1>1, <2>1 DEF Filled
<1>2. CASE ~(d.nendBits > CodeBits - SymBits)
  <2> DEFINE more == d.endOffs < d.storage
             b == IF more THEN d.buf[d.storage - d.endOffs - 1] ELSE 0
             o == IF more THEN d.endOffs + 1 ELSE d.endOffs
             x == d.endWindow + b * Pow[d.nendBits]
             n == d.nendBits + SymBits
             w == [d EXCEPT !.endOffs = o, !.endWindow = x, !.nendBits = n]
  <2>1. FillRound(d) = w
    BY <1>2 DEF FillRound
  <2>2. d \in Coder /\ d.endOffs \in Nat /\ d.storage \in Nat /\ d.endWindow \in Nat /\ d.nendBits \in Nat
        /\ 0..d.storage - 1 \subseteq DOMAIN d.buf /\ d.rem \in Nat
    BY CoderTypes DEF Dec, Coder, Holds
  <2>3. b \in Nat
    <3>1. CASE more
      <4>1. PICK k \in Sizes : d.buf \in [0..k - 1 -> Nat]
        BY <2>2, CoderTypes DEF Contents
      <4>2. d.storage - d.endOffs - 1 \in 0..d.storage - 1
        BY <2>2, <3>1
      <4>3. d.storage - d.endOffs - 1 \in DOMAIN d.buf
        BY <2>2, <4>2
      <4> QED BY <3>1, <4>1, <4>3
    <3>2. CASE ~more
      BY <3>2
    <3> QED BY <3>1, <3>2
  <2>4. o \in Nat /\ x \in Nat /\ n \in Nat
    <3>1. d.nendBits \in 0..CodeBits
      BY <1>2, <2>2, Widths
    <3>2. Pow[d.nendBits] \in Nat
      BY <3>1, PowPositive
    <3>3. b * Pow[d.nendBits] \in Nat
      <4>1. \A f \in Nat, g \in Nat : f * g \in Nat
        OBVIOUS
      <4> HIDE DEF b
      <4> QED BY <2>3, <3>2, <4>1
    <3> HIDE DEF b
    <3> QED BY <2>2, <3>3, Widths
  <2> HIDE DEF o, x, n
  <2>5. /\ w.storage = d.storage /\ w.endOffs = o /\ w.endWindow = x
        /\ w.nendBits = n /\ w.nbitsTotal = d.nbitsTotal /\ w.rng = d.rng /\ w.buf = d.buf /\ w.val = d.val
        /\ w.offs = d.offs /\ w.rem = d.rem
    BY <2>2 DEF Coder, Records
  <2>6. w \in Coder
    BY <2>2, <2>4 DEF Coder, Records, Holds
  <2> HIDE DEF w
  <2>7. Filled(w, d)
    BY <2>2, <2>5, <2>6 DEF Filled, Dec
  <2> HIDE DEF b
  <2> QED BY <1>2, <2>1, <2>3, <2>5, <2>7 DEF o, x, n, b
<1> QED BY <1>1, <1>2

\* One byte more in the window.
LEMMA FillRoundWindow ==
  ASSUME NEW B \in ByteStream, NEW p, IsPlace(p), NEW d \in Dec, BackOf(d) = B, Window(d, B, p)
  PROVE  LET w == FillRound(d)
         IN  /\ Filled(w, d) /\ BackOf(w) = B /\ Window(w, B, p)
             /\ d.nendBits > CodeBits - SymBits => w = d
             /\ ~(d.nendBits > CodeBits - SymBits) => w.nendBits = d.nendBits + SymBits
<1> DEFINE w == FillRound(d)
           more == d.endOffs < d.storage
           b == IF more THEN d.buf[d.storage - d.endOffs - 1] ELSE 0
<1>1. /\ Filled(w, d)
      /\ d.nendBits > CodeBits - SymBits => w = d
      /\ ~(d.nendBits > CodeBits - SymBits) =>
            /\ b \in Nat /\ w.endOffs = (IF more THEN d.endOffs + 1 ELSE d.endOffs)
            /\ w.endWindow = d.endWindow + b * Pow[d.nendBits] /\ w.nendBits = d.nendBits + SymBits
  BY FillRoundFields
<1> HIDE DEF w
<1>2. BackOf(w) = B
  BY <1>1, SameBytes DEF Filled
<1>3. CASE d.nendBits > CodeBits - SymBits
  BY <1>1, <1>2, <1>3 DEF w
<1>4. CASE ~(d.nendBits > CodeBits - SymBits)
  <2>1. p.raw \in Nat /\ p.rawBits \in Nat
    BY DEF IsPlace, Place
  <2>2. /\ d.endOffs \in Nat /\ d.storage \in Nat /\ d.endWindow \in Nat /\ d.nendBits \in Nat
        /\ d.nendBits + SymBits <= CodeBits /\ d.nendBits \in 0..CodeBits /\ d.endWindow < Power[d.nendBits]
    BY <1>4, CoderTypes, Widths DEF Dec, Window
  <2>3. PICK m \in Nat : /\ SymBits * m = p.rawBits + d.nendBits
                         /\ d.endOffs = IF m < d.storage THEN m ELSE d.storage
                         /\ EndDigits(B)[m] = p.raw + Power[p.rawBits] * d.endWindow
    BY DEF Window
  <2>4. b = B[m] /\ (IF more THEN d.endOffs + 1 ELSE d.endOffs) = IF m + 1 < d.storage THEN m + 1 ELSE d.storage
    <3>1. B[m] = IF m < d.storage THEN d.buf[d.storage - 1 - m] ELSE 0
      BY DEF BackOf
    <3>2. CASE m < d.storage
      <4>1. more /\ d.endOffs = m /\ d.storage - d.endOffs - 1 = d.storage - 1 - m
        BY <2>2, <2>3, <3>2
      <4> QED BY <2>2, <3>1, <3>2, <4>1
    <3>3. CASE ~(m < d.storage)
      <4>1. ~more /\ d.endOffs = d.storage
        BY <2>2, <2>3, <3>3
      <4> QED BY <2>2, <3>1, <3>3, <4>1
    <3> QED BY <3>2, <3>3
  <2> HIDE DEF b
  <2>5. B \in Stream /\ B[m] \in 0..SymMax /\ Base \in Nat /\ SymMax = Base - 1 /\ b \in 0..SymMax /\ b \in Nat
    BY <2>4, BaseIs DEF ByteStream, Stream
  <2>6. PICK u, y, x, e : u = Power[p.rawBits] /\ y = Power[d.nendBits] /\ x = d.endWindow /\ e = EndDigits(B)[m]
    OBVIOUS
  <2>7. u \in Nat \ {0} /\ y \in Nat \ {0} /\ x \in Nat /\ x < y /\ e \in Nat /\ e = p.raw + u * x
    BY <2>1, <2>2, <2>3, <2>5, <2>6, PowerPositive, EndDigitsAre
  <2>8. EndDigits(B)[m + 1] = e + b * Weight(m)
    BY <2>4, <2>5, <2>6, EndDigitsAre
  <2>9. Weight(m) = u * y
    <3>1. SymBits * m = p.rawBits + d.nendBits /\ p.rawBits \in Nat /\ d.nendBits \in Nat
      BY <2>1, <2>2, <2>3
    <3>2. Power[p.rawBits + d.nendBits] = u * y
      BY ONLY <3>1, <2>6, PowerSum
    <3> QED BY <3>1, <3>2 DEF Weight
  <2>10. w.endWindow = x + b * y
    BY <1>1, <1>4, <2>2, <2>6, PowerPow
  <2>11. \A i \in Nat, k \in Nat : i * k \in Nat
    OBVIOUS
  <2>12. e + b * Weight(m) = p.raw + u * (x + b * y)
    <3>1. b * (u * y) = u * (b * y) /\ b * y \in Nat
      BY <2>5, <2>7, <2>11
    <3>2. \A k \in Nat : u * (x + k) = u * x + u * k
      BY <2>7
    <3>3. u * (x + b * y) = u * x + u * (b * y)
      BY <3>1, <3>2
    <3>4. PICK i, k : i = u * x /\ k = u * (b * y)
      OBVIOUS
    <3>5. i \in Nat /\ k \in Nat
      BY <2>7, <2>11, <3>1, <3>4
    <3> QED BY <2>1, <2>7, <2>9, <3>1, <3>3, <3>4, <3>5
  <2>13. x + b * y < Power[d.nendBits + SymBits]
    <3>1. Power[d.nendBits + SymBits] = y * Base
      <4>1. Power[SymBits] = Base
        BY Widths, PowerPow DEF Base
      <4>2. Power[d.nendBits + SymBits] = Power[d.nendBits] * Power[SymBits]
        BY <2>2, Widths, PowerSum
      <4> QED BY <2>6, <4>1, <4>2
    <3>2. \A k \in 0..Base - 1 : k * y + y <= y * Base
      <4>1. \A k \in Nat : k + 1 <= Base => y * (k + 1) <= y * Base
        BY <2>5, <2>7
      <4>2. \A k \in Nat : y * (k + 1) = k * y + y
        BY <2>7
      <4> QED BY <2>5, <4>1, <4>2
    <3>3. PICK k : k = b * y
      OBVIOUS
    <3>4. k \in Nat /\ k + y <= y * Base /\ y * Base \in Nat
      BY <2>5, <2>7, <2>11, <3>2, <3>3
    <3> QED BY <2>7, <3>1, <3>3, <3>4
  <2>14. SymBits * (m + 1) = p.rawBits + (d.nendBits + SymBits)
    <3>1. SymBits * (m + 1) = SymBits * m + SymBits
      BY Widths
    <3> QED BY <2>1, <2>2, <2>3, <3>1, Widths
  <2>15. w.storage = d.storage /\ w.nendBits = d.nendBits + SymBits
         /\ w.endOffs = IF m + 1 < d.storage THEN m + 1 ELSE d.storage
    BY <1>1, <1>4, <2>4 DEF Filled, b
  <2>16. Window(w, B, p)
    <3>1. w.nendBits <= CodeBits /\ w.endWindow < Power[w.nendBits]
      BY <2>2, <2>10, <2>13, <2>15
    <3>2. SymBits * (m + 1) = p.rawBits + w.nendBits
      BY <2>14, <2>15
    <3>3. EndDigits(B)[m + 1] = p.raw + Power[p.rawBits] * w.endWindow
      BY <2>6, <2>8, <2>10, <2>12
    <3>4. w.endOffs = IF m + 1 < w.storage THEN m + 1 ELSE w.storage
      BY <2>15
    <3>5. m + 1 \in Nat
      OBVIOUS
    <3> QED BY <3>1, <3>2, <3>3, <3>4, <3>5 DEF Window
  <2> QED BY <1>1, <1>2, <1>4, <2>15, <2>16 DEF w
<1> QED BY <1>3, <1>4

\* The rounds of the filling, as a run.
LEMMA FillRun ==
  ASSUME NEW d \in Dec
  PROVE  \E run \in [0..Rounds -> Dec] :
           /\ run[0] = d /\ run[Rounds] = Repeat(FillRound, d, Rounds)
           /\ \A i \in 0..Rounds - 1 : run[i + 1] = FillRound(run[i])
<1> DEFINE F == [r \in Dec |-> FillRound(r)]
           n == Rounds
           after == CHOOSE f : f = [i \in 0..n |-> IF i = 0 THEN d ELSE FillRound(f[i - 1])]
<1>0. n \in Nat
  BY RoundsSuffice
<1>a. \A r \in Dec : FillRound(r) \in Dec
  BY FillRoundFields DEF Filled
<1>1. PICK run \in [0..n -> Dec] : IsRun(run, d, F, n)
  <2>1. F \in [Dec -> Dec]
    BY <1>a
  <2> HIDE DEF F, n
  <2> QED BY <1>0, <2>1, Runs
<1>2. \A i \in 1..n : run[i] = FillRound(run[i - 1])
  <2> TAKE i \in 1..n
  <2>1. run[i - 1] \in Dec /\ run[i] = F[run[i - 1]]
    <3> HIDE DEF F, n
    <3> QED BY <1>0, <1>1 DEF IsRun
  <2> QED BY <2>1
<1>3. run[0] = d
  BY <1>1 DEF IsRun
<1>4. run = [i \in 0..n |-> IF i = 0 THEN d ELSE FillRound(run[i - 1])]
  <2>1. \A i \in 0..n : run[i] = IF i = 0 THEN d ELSE FillRound(run[i - 1])
    <3> HIDE DEF F, n
    <3> QED BY <1>0, <1>2, <1>3
  <2> HIDE DEF n
  <2> QED BY <2>1
<1>5. after = [i \in 0..n |-> IF i = 0 THEN d ELSE FillRound(after[i - 1])]
  BY <1>4, Zenon
<1>6. Repeat(FillRound, d, Rounds) = after[n]
  BY Zenon DEF Repeat
<1> HIDE DEF after, F, n
<1>7. after \in [0..n -> Dec] /\ after[0] = d /\ \A i \in 0..n - 1 : after[i + 1] = FillRound(after[i])
  <2>1. after[0] = d /\ \A i \in 0..n - 1 : after[i + 1] = FillRound(after[i])
    BY <1>0, <1>5
  <2> DEFINE T == {i \in Nat : after[i] \in Dec}
  <2>2. 0 \in T
    BY <2>1
  <2>3. \A i \in 0..n - 1 : i \in T => i + 1 \in T
    BY <1>0, <1>a, <2>1
  <2>4. 0..n \subseteq T
    <3> HIDE DEF T
    <3> QED BY <1>0, <2>2, <2>3, InductionTo
  <2>5. \A i \in 0..n : after[i] \in Dec
    BY <2>4
  <2> QED BY <1>5, <2>1, <2>5
<1>8. after \in [0..n -> Dec] /\ after[0] = d /\ after[n] = Repeat(FillRound, d, Rounds)
  BY <1>6, <1>7
<1>9. \A i \in 0..n - 1 : after[i + 1] = FillRound(after[i])
  BY <1>7
<1>10. \E f \in [0..n -> Dec] : f[0] = d /\ f[n] = Repeat(FillRound, d, Rounds) /\ \A i \in 0..n - 1 : f[i + 1] = FillRound(f[i])
  BY <1>8, <1>9, Zenon
<1> QED BY <1>10 DEF n

\* Filling the window up to the last byte it has room for.
LEMMA FillWindow ==
  ASSUME NEW B \in ByteStream, NEW p, IsPlace(p), NEW d \in Dec, BackOf(d) = B, Window(d, B, p)
  PROVE  LET w == Repeat(FillRound, d, Rounds)
         IN  Filled(w, d) /\ BackOf(w) = B /\ Window(w, B, p) /\ w.nendBits > CodeBits - SymBits
<1>0. Rounds \in Nat /\ SymBits * Rounds > CodeBits /\ SymBits \in Nat \ {0} /\ CodeBits \in Nat
  BY RoundsSuffice, Widths
<1>1. PICK run \in [0..Rounds -> Dec] :
        /\ run[0] = d /\ run[Rounds] = Repeat(FillRound, d, Rounds)
        /\ \A i \in 0..Rounds - 1 : run[i + 1] = FillRound(run[i])
  BY FillRun
<1> DEFINE Full(r, i) == r.nendBits > CodeBits - SymBits \/ r.nendBits >= SymBits * i
           Good(r, i) == Filled(r, d) /\ BackOf(r) = B /\ Window(r, B, p) /\ Full(r, i)
           T == {i \in Nat : Good(run[i], i)}
<1>2. 0 \in T
  <2>1. SymBits * 0 = 0 /\ d.nendBits \in Nat
    BY <1>0, CoderTypes DEF Dec
  <2>2. Full(d, 0) /\ Filled(d, d)
    BY <2>1 DEF Filled
  <2> HIDE DEF Full
  <2>3. Good(d, 0)
    BY <2>2
  <2> HIDE DEF Good
  <2> QED BY <1>1, <2>3
<1>3. ASSUME NEW i \in 0..Rounds - 1, i \in T PROVE i + 1 \in T
  <2> DEFINE r == run[i]
             w == FillRound(r)
  <2>1. i \in Nat /\ r \in Dec /\ run[i + 1] = w
    BY <1>0, <1>1
  <2>2. Good(r, i)
    <3> HIDE DEF Good
    <3> QED BY <1>3
  <2> HIDE DEF r
  <2>3. /\ Filled(w, r) /\ BackOf(w) = B /\ Window(w, B, p)
        /\ r.nendBits > CodeBits - SymBits => w = r
        /\ ~(r.nendBits > CodeBits - SymBits) => w.nendBits = r.nendBits + SymBits
    <3> HIDE DEF Full
    <3>1. BackOf(r) = B /\ Window(r, B, p)
      BY <2>2
    <3> HIDE DEF Good, w
    <3> QED BY <2>1, <3>1, FillRoundWindow DEF w
  <2> HIDE DEF w
  <2>4. Filled(w, d)
    BY <2>2, <2>3 DEF Filled
  <2>5. Full(w, i + 1)
    <3>1. SymBits * (i + 1) = SymBits * i + SymBits /\ SymBits * i \in Nat
      BY <1>0, <2>1
    <3>2. Full(r, i)
      BY <2>2
    <3>3. r.nendBits \in Nat
      BY <2>1, CoderTypes DEF Dec
    <3>4. CASE r.nendBits > CodeBits - SymBits
      BY <2>3, <3>4
    <3>5. CASE ~(r.nendBits > CodeBits - SymBits)
      <4>1. PICK s : s = SymBits * i
        OBVIOUS
      <4>2. r.nendBits >= s /\ w.nendBits = r.nendBits + SymBits /\ s \in Nat /\ SymBits * (i + 1) = s + SymBits
        BY <2>3, <3>1, <3>2, <3>5, <4>1
      <4>3. w.nendBits >= SymBits * (i + 1)
        BY <1>0, <3>3, <4>2
      <4> QED BY <4>3
    <3> QED BY <3>4, <3>5
  <2> HIDE DEF Full
  <2>6. Good(w, i + 1)
    BY <2>3, <2>4, <2>5
  <2> HIDE DEF Good
  <2> QED BY <2>1, <2>6
<1>4. 0..Rounds \subseteq T
  <2> HIDE DEF T
  <2> QED BY <1>0, <1>2, <1>3, InductionTo
<1> DEFINE out == run[Rounds]
<1>5. Good(out, Rounds)
  <2>1. Rounds \in T
    <3> HIDE DEF T
    <3> QED BY <1>0, <1>4
  <2> HIDE DEF Good
  <2> QED BY <2>1
<1>6. out.nendBits > CodeBits - SymBits
  <2>1. Full(out, Rounds) /\ Filled(out, d)
    BY <1>5
  <2>2. out.nendBits \in Nat
    BY <2>1, CoderTypes DEF Filled, Dec
  <2>3. PICK s : s = SymBits * Rounds
    OBVIOUS
  <2>4. out.nendBits > CodeBits - SymBits \/ out.nendBits >= s
    BY <2>1, <2>3
  <2>5. s \in Nat /\ s > CodeBits
    BY <1>0, <2>3
  <2> HIDE DEF out, Full
  <2> QED BY <1>0, <2>2, <2>4, <2>5
<1> QED BY <1>1, <1>5, <1>6

\* The lowest n bits of the window.
LEMMA LowestBits ==
  ASSUME NEW v \in Nat, NEW h \in Nat, NEW n \in 0..CodeBits, v < Power[n]
  PROVE  Low(v + Power[n] * h, n) = v /\ High(v + Power[n] * h, n) = h
<1>1. PICK u : u = Power[n]
  OBVIOUS
<1>2. u = Pow[n] /\ u \in Nat \ {0} /\ v \in 0..u - 1
  BY <1>1, PowerPow, PowPositive
<1>3. (h * u + v) % u = v /\ (h * u + v) \div u = h
  BY <1>2, Remainder
<1>4. v + Power[n] * h = h * u + v
  BY <1>1, <1>2
<1> QED BY <1>2, <1>3, <1>4 DEF Low, High

\* dec_bits() returns the raw bits that were added.
LEMMA DecBitsFollows ==
  ASSUME NEW D \in ByteStream, NEW B \in ByteStream, NEW p, IsPlace(p), NEW q, IsPlace(q),
         NEW v, NEW n \in 0..CodeBits - SymBits + 1, Grows(p, q, v, n), Agrees(B, q),
         NEW d, Following(d, D, B, p)
  PROVE  LET out == DecBits(d, n)
         IN  out.value = v /\ Following(out.rc, D, B, q)
<1>1. /\ p.raw \in Nat /\ p.rawBits \in Nat /\ p.outs \in Nat /\ v \in Nat /\ v < Power[n] /\ n \in Nat /\ n \in 0..CodeBits
      /\ q.low = p.low /\ q.rng = p.rng /\ q.outs = p.outs
      /\ q.raw = p.raw + v * Power[p.rawBits] /\ q.rawBits = p.rawBits + n
  BY Widths DEF Grows, IsPlace, Place
<1>2. d \in Dec /\ d \in Coder /\ BackOf(d) = B /\ Window(d, B, p) /\ Tracks(d, D, Q + p.outs, p.low, p.rng)
      /\ d.nbitsTotal = CodeBits + 1 + SymBits * p.outs + p.rawBits
  BY DEF Following, Tracks, Dec
<1> DEFINE r == IF n > 0 /\ d.nendBits < n THEN Repeat(FillRound, d, Rounds) ELSE d
<1>3. Filled(r, d) /\ BackOf(r) = B /\ Window(r, B, p) /\ r.nendBits >= n /\ r.nendBits \in Nat /\ r.endWindow \in Nat
      /\ r.endOffs \in Nat /\ r.nbitsTotal \in Nat /\ r \in Coder
  <2>1. Filled(r, d) /\ BackOf(r) = B /\ Window(r, B, p)
    <3>1. CASE n > 0 /\ d.nendBits < n
      BY <1>2, <3>1, FillWindow
    <3>2. CASE ~(n > 0 /\ d.nendBits < n)
      BY <1>2, <3>2 DEF Filled
    <3> QED BY <3>1, <3>2
  <2>2. r.nendBits \in Nat /\ r.endWindow \in Nat /\ r.endOffs \in Nat /\ r.nbitsTotal \in Nat /\ r \in Coder
    BY <2>1, CoderTypes DEF Filled, Dec
  <2>3. r.nendBits >= n
    <3>1. CASE n > 0 /\ d.nendBits < n
      <4>1. r.nendBits > CodeBits - SymBits
        BY <1>2, <3>1, FillWindow
      <4> HIDE DEF r
      <4> QED BY <1>1, <2>2, <4>1, Widths
    <3>2. CASE ~(n > 0 /\ d.nendBits < n)
      <4>1. r = d
        BY <3>2
      <4> HIDE DEF r
      <4> QED BY <1>1, <2>2, <3>2, <4>1
    <3> QED BY <3>1, <3>2
  <2> QED BY <2>1, <2>2, <2>3
<1> HIDE DEF r
<1>4. PICK m \in Nat : /\ SymBits * m = p.rawBits + r.nendBits
                       /\ r.endOffs = IF m < r.storage THEN m ELSE r.storage
                       /\ EndDigits(B)[m] = p.raw + Power[p.rawBits] * r.endWindow
  BY <1>3 DEF Window
<1>5. B \in Stream
  BY BaseIs DEF ByteStream, Stream
<1>6. PICK h \in Nat : EndDigits(B)[m] = q.raw + Power[q.rawBits] * h
  <2>1. SymBits * m >= q.rawBits
    BY <1>1, <1>3, <1>4
  <2> QED BY <1>5, <2>1, AgreesAt
<1>7. r.endWindow = v + Power[n] * h
  <2>1. PICK u, y : u = Power[p.rawBits] /\ y = Power[n]
    OBVIOUS
  <2>2. u \in Nat \ {0} /\ y \in Nat \ {0} /\ Power[q.rawBits] = u * y
    <3>1. Power[p.rawBits + n] = Power[p.rawBits] * Power[n]
      BY <1>1, PowerSum
    <3> QED BY <1>1, <2>1, <3>1, PowerPositive
  <2>3. p.raw + u * r.endWindow = p.raw + v * u + (u * y) * h
    BY <1>1, <1>4, <1>6, <2>1, <2>2
  <2>4. v * u + (u * y) * h = u * (v + y * h) /\ y * h \in Nat /\ v * u \in Nat /\ (u * y) * h \in Nat
    <3>1. \A i \in Nat, k \in Nat : i * k \in Nat
      OBVIOUS
    <3>2. y * h \in Nat /\ v * u \in Nat /\ u * y \in Nat /\ (u * y) * h \in Nat
      BY <1>1, <2>2, <3>1
    <3>3. \A i \in Nat, k \in Nat : u * (i + k) = i * u + u * k
      BY <2>2
    <3>4. (u * y) * h = u * (y * h)
      BY <2>2
    <3> QED BY <1>1, <3>2, <3>3, <3>4
  <2>5. u * r.endWindow = u * (v + y * h)
    <3>1. PICK a, b, c, f : a = u * r.endWindow /\ b = v * u /\ c = (u * y) * h /\ f = u * (v + y * h)
      OBVIOUS
    <3>2. a \in Nat /\ b \in Nat /\ c \in Nat
      <4>1. \A i \in Nat, k \in Nat : i * k \in Nat
        OBVIOUS
      <4> QED BY <1>3, <2>2, <2>4, <3>1, <4>1
    <3>3. p.raw + a = p.raw + b + c /\ b + c = f
      BY <2>3, <2>4, <3>1
    <3> QED BY <1>1, <3>1, <3>2, <3>3
  <2>6. \A i \in Nat, k \in Nat : u * i = u * k => i = k
    <3>1. \A i \in Nat, k \in Nat : i < k => u * i < u * k
      BY <2>2
    <3>2. \A i \in Nat : u * i \in Nat
      BY <2>2
    <3>3. ASSUME NEW i \in Nat, NEW k \in Nat, u * i = u * k PROVE i = k
      <4>1. ~(i < k)
        BY <3>1, <3>2, <3>3
      <4>2. ~(k < i)
        BY <3>1, <3>2, <3>3
      <4> QED BY <4>1, <4>2
    <3> QED BY <3>3
  <2>7. v + y * h \in Nat
    BY <1>1, <2>4
  <2> QED BY <1>3, <2>1, <2>5, <2>6, <2>7
<1>8. Low(r.endWindow, n) = v /\ High(r.endWindow, n) = h
  BY <1>1, <1>7, LowestBits
<1> DEFINE w == [r EXCEPT !.endWindow = High(r.endWindow, n), !.nendBits = r.nendBits - n, !.nbitsTotal = r.nbitsTotal + n]
<1>9. DecBits(d, n) = [value |-> v, rc |-> w]
  BY <1>8, Zenon DEF DecBits, r
<1>10. /\ w \in Coder /\ w.buf = r.buf /\ w.storage = r.storage /\ w.offs = r.offs /\ w.rem = r.rem /\ w.rng = r.rng
       /\ w.val = r.val /\ w.nbitsTotal = r.nbitsTotal + n /\ w.endWindow = h /\ w.nendBits = r.nendBits - n
       /\ w.endOffs = r.endOffs
  <2>1. PICK b, t : b = r.nendBits - n /\ t = r.nbitsTotal + n
    OBVIOUS
  <2>2. b \in Nat /\ t \in Nat
    BY <1>1, <1>3, <2>1
  <2>3. w = [r EXCEPT !.endWindow = h, !.nendBits = b, !.nbitsTotal = t]
    BY <1>8, <2>1
  <2> HIDE DEF w
  <2>4. r \in Coder
    BY <1>3
  <2>5. w \in Coder
    BY ONLY <2>2, <2>3, <2>4, h \in Nat DEF Coder, Records, Holds
  <2>6. /\ w.buf = r.buf /\ w.storage = r.storage /\ w.offs = r.offs /\ w.rem = r.rem /\ w.rng = r.rng
        /\ w.val = r.val /\ w.nbitsTotal = t /\ w.endWindow = h /\ w.nendBits = b /\ w.endOffs = r.endOffs
    BY ONLY <2>3, <2>4 DEF Coder, Records
  <2> QED BY <2>1, <2>5, <2>6
<1> HIDE DEF w
<1>11. w \in Dec /\ FrontOf(w) = D /\ BackOf(w) = B
  <2>1. FrontOf(r) = D /\ r.rem \in Nat
    BY <1>2, <1>3, SameBytes DEF Filled, Tracks, Dec
  <2> QED BY <1>3, <1>10, <2>1, SameBytes DEF Dec
<1>12. Tracks(w, D, Q + q.outs, q.low, q.rng)
  BY <1>1, <1>2, <1>3, <1>10, <1>11 DEF Tracks, Filled
<1>13. w.nbitsTotal = CodeBits + 1 + SymBits * q.outs + q.rawBits
  <2>1. PICK s : s = SymBits * p.outs
    OBVIOUS
  <2>2. s \in Nat /\ CodeBits \in Nat
    BY <1>1, <2>1, Widths
  <2>3. w.nbitsTotal = d.nbitsTotal + n
    BY <1>3, <1>10 DEF Filled
  <2> QED BY <1>1, <1>2, <2>1, <2>2, <2>3
<1>14. Window(w, B, q)
  <2>1. w.nendBits <= CodeBits
    BY <1>1, <1>3, <1>10, Widths DEF Window
  <2>2. SymBits * m = q.rawBits + w.nendBits
    BY <1>1, <1>3, <1>4, <1>10
  <2>3. w.endWindow < Power[w.nendBits]
    <3> DEFINE k == r.nendBits - n
    <3>1. k \in Nat /\ n + k = r.nendBits
      BY <1>1, <1>3
    <3> HIDE DEF k
    <3>2. PICK y, z : y = Power[n] /\ z = Power[k]
      OBVIOUS
    <3>3. y \in Nat \ {0} /\ z \in Nat \ {0} /\ Power[r.nendBits] = y * z
      <4>1. Power[n + k] = Power[n] * Power[k]
        BY <1>1, <3>1, PowerSum
      <4> QED BY <1>1, <3>1, <3>2, <4>1, PowerPositive
    <3>4. v + y * h < y * z
      BY <1>3, <1>7, <3>2, <3>3 DEF Window
    <3>5. h < z
      <4> SUFFICES ASSUME ~(h < z) PROVE FALSE
        OBVIOUS
      <4>1. y * z <= y * h
        <5>1. \A i \in Nat, j \in Nat : i <= j => y * i <= y * j
          BY <3>3
        <5> QED BY <3>3, <5>1
      <4>2. PICK a, b : a = y * h /\ b = y * z
        OBVIOUS
      <4>3. a \in Nat /\ b \in Nat
        <5>1. \A i \in Nat, j \in Nat : i * j \in Nat
          OBVIOUS
        <5> QED BY <3>3, <4>2, <5>1
      <4> QED BY <1>1, <3>4, <4>1, <4>2, <4>3
    <3> QED BY <1>10, <3>2, <3>5 DEF k
  <2>4. EndDigits(B)[m] = q.raw + Power[q.rawBits] * w.endWindow
    BY <1>6, <1>10
  <2>5. w.endOffs = IF m < w.storage THEN m ELSE w.storage
    BY <1>4, <1>10
  <2> QED BY <2>1, <2>2, <2>3, <2>4, <2>5 DEF Window
<1> QED BY <1>9, <1>11, <1>12, <1>13, <1>14 DEF Following

\* The place once i of n bits of the flags v are read.
FlagPlace(v, n, i) ==
  [low |-> (v \div Pow[n - i]) * Pow[CodeBits - 1 - i], rng |-> Pow[CodeBits - 1 - i], outs |-> 0,
   raw |-> 0, rawBits |-> 0]

\* The top bits of v, and one more.
LEMMA TopBits ==
  ASSUME NEW v \in Nat, NEW k \in 1..CodeBits
  PROVE  /\ v \div Pow[k] \in Nat /\ v \div Pow[k - 1] \in Nat
         /\ \E b \in {0, 1} : v \div Pow[k - 1] = 2 * (v \div Pow[k]) + b
<1>1. PICK w : w = Pow[k - 1]
  OBVIOUS
<1>2. w \in Nat \ {0} /\ Pow[k] = 2 * w /\ 2 * w \in Nat \ {0}
  <2>1. k - 1 \in 0..CodeBits /\ CodeBits \in Nat
    BY Widths
  <2> QED BY <1>1, <2>1, PowStep, PowPositive
<1>3. PICK c, r : c = v \div w /\ r = v % w
  OBVIOUS
<1>4. c \in Nat /\ r \in 0..w - 1 /\ v = w * c + r
  BY <1>2, <1>3, Division
<1>5. PICK a, b : a = c \div 2 /\ b = c % 2
  OBVIOUS
<1>6. a \in Nat /\ b \in {0, 1} /\ c = 2 * a + b
  BY <1>4, <1>5
<1>7. w * b + r \in 0..2 * w - 1
  BY <1>2, <1>4, <1>6
<1>8. v = a * (2 * w) + (w * b + r)
  <2>1. w * (2 * a + b) = a * (2 * w) + w * b
    <3>1. \A x \in Nat : w * (x + b) = w * x + w * b
      BY <1>2, <1>6
    <3>2. w * (2 * a) = a * (2 * w)
      BY <1>2, <1>6
    <3> QED BY <1>6, <3>1, <3>2
  <2>2. PICK x, y : x = a * (2 * w) /\ y = w * b
    OBVIOUS
  <2>3. x \in Nat /\ y \in Nat
    <3>1. \A i \in Nat, j \in Nat : i * j \in Nat
      OBVIOUS
    <3> QED BY <1>2, <1>6, <2>2, <3>1
  <2> QED BY <1>4, <1>6, <2>1, <2>2, <2>3
<1>9. v \div (2 * w) = a
  <2>1. PICK u, t : u = 2 * w /\ t = w * b + r
    OBVIOUS
  <2>2. u \in Nat \ {0} /\ t \in 0..u - 1 /\ v = a * u + t
    BY <1>2, <1>7, <1>8, <2>1
  <2>3. (a * u + t) \div u = a
    BY <1>6, <2>2, Remainder
  <2> QED BY <2>1, <2>2, <2>3
<1> QED BY <1>1, <1>2, <1>3, <1>4, <1>6, <1>9

\* Shares of the first range.
LEMMA FlagShare ==
  ASSUME NEW i \in 0..SymBits - 1
  PROVE  LET g == Pow[CodeBits - 1 - i]
             h == Pow[CodeBits - 1 - (i + 1)]
         IN  /\ g \in CodeBot + 1..CodeTop /\ h \in Nat \ {0} /\ g = 2 * h /\ g \div Pow[1] = h
             /\ Pow[1] = 2 /\ 1 \in 1..CodeShift
<1>1. CodeBits \in Nat /\ SymBits \in Nat \ {0} /\ SymBits + 1 <= CodeShift /\ CodeShift + SymBits + 1 = CodeBits /\ CodeShift \in Nat
  BY Widths
<1>2. PICK a : a = CodeBits - 1 - i
  OBVIOUS
<1>3. a \in 1..CodeBits /\ CodeBits - 1 - (i + 1) = a - 1 /\ a - 1 \in 0..CodeBits /\ a <= CodeBits - 1 /\ a > CodeShift
      /\ 1 \in 1..CodeBits /\ 1 - 1 = 0 /\ CodeShift \in 0..CodeBits /\ CodeBits - 1 \in 0..CodeBits /\ a \in 0..CodeBits
  BY <1>1, <1>2
<1>4. Pow[a] = 2 * Pow[a - 1] /\ Pow[0] = 1 /\ Pow[1] = 2 * Pow[1 - 1] /\ Pow[a - 1] \in Nat \ {0}
  BY <1>3, PowStep, PowPositive
<1>5. Pow[1] = 2
  BY <1>3, <1>4
<1>6. Pow[a] <= Pow[CodeBits - 1] /\ 2 * Pow[CodeShift] <= Pow[a]
  BY <1>3, PowOrder
<1>7. CodeTop = Pow[CodeBits - 1] /\ CodeBot = Pow[CodeShift] /\ CodeBot \in Nat /\ CodeBot >= 4 /\ CodeTop \in Nat
  BY TopIs, Widths DEF CodeTop
<1>8. Pow[a] \in CodeBot + 1..CodeTop
  BY <1>4, <1>6, <1>7
<1>9. Pow[a] \div Pow[1] = Pow[a - 1]
  <2>1. PICK x : x = Pow[a - 1]
    OBVIOUS
  <2>2. x \in Nat /\ Pow[a] = 2 * x
    BY <1>4, <2>1
  <2> QED BY <1>5, <2>1, <2>2
<1> QED BY <1>1, <1>2, <1>3, <1>4, <1>5, <1>8, <1>9

\* The way to the place of the flags, bit by bit.
LEMMA FlagStep ==
  ASSUME NEW D \in ByteStream, NEW n \in 1..SymBits, NEW v \in Nat, NEW q,
         Narrows(Start, q, v * High(CodeTop, n), High(CodeTop, n)), Inside(D, q),
         NEW i \in 0..n - 1
  PROVE  LET P == FlagPlace(v, n, i)
             X == IF i + 1 = n THEN q ELSE FlagPlace(v, n, i + 1)
             h == P.rng \div Pow[1]
             b == v \div Pow[n - (i + 1)] - 2 * (v \div Pow[n - i])
         IN  /\ IsPlace(P) /\ 1 \in 1..CodeShift /\ b \in {0, 1} /\ Inside(D, X)
             /\ IF b = 1 THEN Narrows(P, X, P.rng - h, h) ELSE Narrows(P, X, 0, P.rng - h)
<1> DEFINE a == v \div Pow[n - i]
           c == v \div Pow[n - (i + 1)]
           g == Pow[CodeBits - 1 - i]
           h == Pow[CodeBits - 1 - (i + 1)]
           H == High(CodeTop, n)
           P == FlagPlace(v, n, i)
           X == IF i + 1 = n THEN q ELSE FlagPlace(v, n, i + 1)
<1>1. i \in Nat /\ n \in Nat /\ i \in 0..SymBits - 1 /\ n \in 0..SymBits /\ SymBits \in Nat /\ SymBits < CodeBits /\ CodeBits \in Nat
      /\ n - i \in 1..CodeBits /\ (n - i) - 1 = n - (i + 1) /\ n <= CodeBits - 1 /\ n \in 0..CodeBits
  BY Widths
<1>2. g \in CodeBot + 1..CodeTop /\ h \in Nat \ {0} /\ g = 2 * h /\ g \div Pow[1] = h /\ 1 \in 1..CodeShift /\ g \in Nat
  <2>1. g \in CodeBot + 1..CodeTop /\ h \in Nat \ {0} /\ g = 2 * h /\ g \div Pow[1] = h /\ 1 \in 1..CodeShift
    BY <1>1, FlagShare
  <2> QED BY <2>1, Widths
<1>3. a \in Nat /\ c \in Nat /\ \E b \in {0, 1} : c = 2 * a + b
  BY <1>1, TopBits
<1>4. H \in Nat \ {0} /\ H = Pow[CodeBits - 1 - n] /\ CodeTop = H * Pow[n] /\ Pow[n] \in Nat \ {0}
  BY <1>1, ReservedShare, PowPositive
<1>5. P = [low |-> a * g, rng |-> g, outs |-> 0, raw |-> 0, rawBits |-> 0]
  BY DEF FlagPlace
<1> HIDE DEF a, g, h, H, P
<1>6. PICK b \in {0, 1} : c = 2 * a + b
  BY <1>3
<1> HIDE DEF c
<1>7. a * g \in Nat /\ c * h = a * g + b * h /\ b * h \in Nat
  <2>1. \A x \in Nat, y \in Nat : x * y \in Nat
    OBVIOUS
  <2>2. (2 * a + b) * h = (2 * a) * h + b * h
    <3>1. \A x \in Nat, y \in Nat : (x + y) * h = x * h + y * h
      BY <1>2
    <3> QED BY <1>3, <1>6, <3>1
  <2>3. (2 * a) * h = a * g
    BY <1>2, <1>3
  <2> QED BY <1>2, <1>3, <1>6, <2>1, <2>2, <2>3
<1>8. IsPlace(P) /\ P.low = a * g /\ P.rng = g /\ P.outs = 0 /\ P.raw = 0 /\ P.rawBits = 0
  <2>1. Power[0] = 1
    BY PowerStep
  <2> QED BY <1>2, <1>5, <1>7, <2>1 DEF IsPlace, Place
<1>9. Narrows(P, X, b * h, h)
  <2>1. b * h + h <= P.rng
    BY <1>2, <1>6, <1>8
  <2>2. CASE i + 1 # n
    <3>1. i + 1 \in 0..SymBits - 1 /\ X = FlagPlace(v, n, i + 1)
      BY <1>1, <2>2
    <3>2. h \in CodeBot + 1..CodeTop
      BY <3>1, FlagShare DEF h
    <3>3. X = [low |-> c * h, rng |-> h, outs |-> 0, raw |-> 0, rawBits |-> 0]
      BY <3>1 DEF FlagPlace, c, h
    <3> HIDE DEF X
    <3>4. Weight(0) = 1 /\ (a * g + b * h) * 1 = a * g + b * h /\ h * 1 = h /\ 0 + 0 = 0
      <4>1. Weight(0) = 1
        BY WeightIs
      <4>2. \A x \in Nat, y \in Nat : (x + y) * 1 = x + y
        OBVIOUS
      <4> QED BY <1>2, <1>7, <4>1, <4>2
    <3>5. X = [low |-> (P.low + b * h) * Weight(0), rng |-> h * Weight(0), outs |-> P.outs + 0,
               raw |-> P.raw, rawBits |-> P.rawBits]
      BY <1>7, <1>8, <3>3, <3>4
    <3>6. X.rng = h
      BY <3>3
    <3> QED BY <1>2, <1>7, <2>1, <3>2, <3>5, <3>6 DEF Narrows
  <2>3. CASE i + 1 = n
    <3>1. PICK k \in Nat : q = [low |-> (Start.low + v * H) * Weight(k), rng |-> H * Weight(k), outs |-> Start.outs + k,
                                raw |-> Start.raw, rawBits |-> Start.rawBits]
      BY DEF Narrows, H
    <3>2. q.rng \in CodeBot + 1..CodeTop
      BY DEF Narrows
    <3>3. h = H
      BY <1>4, <2>3 DEF h
    <3>4. c = v
      <4>1. n - (i + 1) = 0
        BY <1>1, <2>3
      <4>2. Pow[0] = 1
        BY PowStep
      <4> QED BY <4>1, <4>2 DEF c
    <3>5. Start.low = 0 /\ Start.outs = 0 /\ Start.raw = 0 /\ Start.rawBits = 0
      BY DEF Start
    <3>6. Start.low + v * H = P.low + b * h
      <4>1. v * H = a * g + b * h
        BY <1>7, <3>3, <3>4
      <4> QED BY <1>7, <1>8, <3>5, <4>1
    <3>7. q = [low |-> (P.low + b * h) * Weight(k), rng |-> h * Weight(k), outs |-> P.outs + k,
               raw |-> P.raw, rawBits |-> P.rawBits]
      BY <1>8, <3>1, <3>3, <3>5, <3>6, Zenon
    <3> QED BY <1>2, <1>7, <2>1, <2>3, <3>2, <3>7 DEF Narrows
  <2> QED BY <2>2, <2>3
<1>10. Inside(D, X)
  <2>1. CASE i + 1 = n
    BY <2>1
  <2>2. CASE i + 1 # n
    <3>1. Between(D, 0, v * H, v * H + H)
      <4>1. IsPlace(Start) /\ Start \in Place /\ Start.low = 0 /\ Start.outs = 0
        <5>1. Power[0] = 1
          BY PowerStep
        <5> QED BY <5>1, Widths DEF IsPlace, Place, Start
      <4>2. D \in Stream
        BY BaseIs DEF ByteStream, Stream
      <4>3. Between(D, Start.outs, Start.low + v * H, Start.low + v * H + H)
        BY <4>1, <4>2, NarrowsBack DEF H
      <4>4. v * H \in Nat
        <5>1. \A x \in Nat, y \in Nat : x * y \in Nat
          OBVIOUS
        <5> QED BY <1>4, <5>1
      <4>5. 0 + v * H = v * H
        BY <4>4
      <4> QED BY <4>1, <4>3, <4>5
    <3>2. X = [low |-> c * h, rng |-> h, outs |-> 0, raw |-> 0, rawBits |-> 0]
      BY <2>2 DEF FlagPlace, c, h
    <3> HIDE DEF X
    <3> DEFINE e == n - (i + 1)
    <3>3. h = Pow[e] * H /\ Pow[e] \in Nat \ {0} /\ e \in Nat
      <4>1. e \in Nat /\ e \in 0..CodeBits /\ CodeBits - 1 - n \in Nat /\ e + (CodeBits - 1 - n) <= CodeBits
            /\ CodeBits - 1 - (i + 1) = e + (CodeBits - 1 - n)
        BY <1>1
      <4> HIDE DEF e
      <4>2. PICK f : f = CodeBits - 1 - n
        OBVIOUS
      <4>3. Pow[e + f] = Pow[e] * Pow[f]
        BY <4>1, <4>2, PowSum
      <4> QED BY <1>4, <4>1, <4>2, <4>3, PowPositive DEF h
    <3> HIDE DEF e
    <3>4. c = v \div Pow[e]
      BY DEF c, e
    <3>5. PICK u, r : u = Pow[e] /\ r = v % Pow[e]
      OBVIOUS
    <3>6. c \in Nat /\ r \in 0..u - 1 /\ v = u * c + r /\ u \in Nat \ {0}
      BY <3>3, <3>4, <3>5, Division
    <3>7. c * h <= v * H /\ v * H + H <= c * h + h /\ c * h \in Nat /\ v * H \in Nat
      <4>1. \A x \in Nat, y \in Nat : x * y \in Nat /\ (x + y) * H = x * H + y * H /\ (x <= y => x * H <= y * H)
        BY <1>4
      <4>2. c * h = (u * c) * H /\ u * c \in Nat /\ h = u * H
        <5>1. c * (u * H) = (u * c) * H
          BY <1>4, <3>6
        <5> QED BY <3>3, <3>5, <3>6, <4>1, <5>1
      <4>3. v * H = (u * c) * H + r * H /\ r + 1 <= u
        BY <3>6, <4>1, <4>2
      <4>4. (r + 1) * H <= u * H /\ (r + 1) * H = r * H + H
        <5>1. (r + 1) * H = r * H + 1 * H /\ 1 * H = H
          <6>1. r \in Nat /\ 1 \in Nat
            BY <3>6
          <6>2. (r + 1) * H = r * H + 1 * H
            BY ONLY <4>1, <6>1
          <6> QED BY <1>4, <6>2
        <5> QED BY <3>6, <4>1, <4>3, <5>1
      <4>5. PICK x, y, z : x = (u * c) * H /\ y = r * H /\ z = u * H
        OBVIOUS
      <4>6. x \in Nat /\ y \in Nat /\ z \in Nat
        <5>1. r \in Nat /\ u \in Nat /\ u * c \in Nat
          BY <3>6, <4>2
        <5> QED BY ONLY <1>4, <4>1, <4>5, <5>1
      <4> QED BY <1>4, <4>2, <4>3, <4>4, <4>5, <4>6
    <3>8. Between(D, 0, c * h, c * h + h)
      <4>1. PICK x, y : x = c * h /\ y = v * H
        OBVIOUS
      <4>2. D \in Stream /\ x \in Nat /\ y \in Nat /\ x + h \in Nat /\ y + H \in Nat /\ x <= y /\ y + H <= x + h
        BY <1>2, <1>4, <3>7, <4>1, BaseIs DEF ByteStream, Stream
      <4>3. Between(D, 0, y, y + H)
        BY <3>1, <4>1
      <4>4. Between(D, 0, x, x + h)
        BY <4>2, <4>3, BetweenWider
      <4> QED BY <4>1, <4>4
    <3>9. X.outs = 0 /\ X.low = c * h /\ X.rng = h
      BY <3>2
    <3> QED BY <3>8, <3>9 DEF Inside
  <2> QED BY <2>1, <2>2
<1>11. P.rng \div Pow[1] = h /\ P.rng - h = h /\ c - 2 * a = b
  <2>1. P.rng \div Pow[1] = h /\ P.rng - h = h
    BY <1>2, <1>8
  <2>2. c - 2 * a = b
    BY <1>3, <1>6
  <2> QED BY <2>1, <2>2
<1>12. IF b = 1 THEN Narrows(P, X, h, h) ELSE Narrows(P, X, 0, h)
  <2> HIDE DEF X
  <2>1. 1 * h = h /\ 0 * h = 0
    BY <1>2
  <2> QED BY <1>6, <1>9, <2>1
<1> HIDE DEF X
<1>13. IF c - 2 * a = 1 THEN Narrows(P, X, P.rng - P.rng \div Pow[1], P.rng \div Pow[1])
       ELSE Narrows(P, X, 0, P.rng - P.rng \div Pow[1])
  BY <1>11, <1>12
<1> QED BY <1>2, <1>6, <1>8, <1>10, <1>11, <1>13 DEF P, X, c, a

\* A normalised decoder is one.
LEMMA NormalizeDecoderIn ==
  ASSUME NEW d \in Dec
  PROVE  NormalizeDecoder(d) \in Dec
<1>1. PICK run \in [0..Rounds -> Dec] :
        /\ run[0] = d /\ run[Rounds] = NormalizeDecoder(d)
        /\ \A i \in 0..Rounds - 1 : run[i + 1] = DecoderRound(run[i])
  BY DecoderRun
<1>2. Rounds \in 0..Rounds
  BY RoundsSuffice
<1>3. run[Rounds] \in Dec
  BY <1>1, <1>2
<1> QED BY <1>1, <1>3

\* decode_bit_logp(1) answers 0 or 1.
LEMMA DecodeBitIn ==
  ASSUME NEW d \in Dec
  PROVE  DecodeBitLogp(d, 1).value \in {0, 1} /\ DecodeBitLogp(d, 1).rc \in Dec
<1> DEFINE s == d.rng \div Pow[1]
<1>1. Pow[1] = 2
  <2>1. 1 \in 1..CodeBits /\ 1 - 1 = 0
    BY Widths
  <2>2. Pow[1] = 2 * Pow[1 - 1] /\ Pow[0] = 1
    BY <2>1, PowStep
  <2> QED BY <2>1, <2>2
<1>2. d.rng \in Nat /\ d.val \in Nat /\ s \in Nat /\ d.rng - s \in Nat
  <2>1. d.rng \in Nat /\ d.val \in Nat
    BY CoderTypes DEF Dec
  <2> QED BY <1>1, <2>1
<1> HIDE DEF s
<1>3. CASE d.val < s
  <2>1. DecodeBitLogp(d, 1) = [value |-> 1, rc |-> NormalizeDecoder([d EXCEPT !.rng = s])]
    BY <1>3 DEF DecodeBitLogp, s
  <2>2. Cut([d EXCEPT !.rng = s], d, 0, s)
    <3>1. 0 \in Nat /\ 0 <= d.val
      BY <1>2
    <3> QED BY <1>2, <3>1, CutIs
  <2>3. [d EXCEPT !.rng = s] \in Dec
    BY <2>2 DEF Cut
  <2> QED BY <2>1, <2>3, NormalizeDecoderIn
<1>4. CASE ~(d.val < s)
  <2> DEFINE w == [d EXCEPT !.val = d.val - s, !.rng = d.rng - s]
  <2>1. DecodeBitLogp(d, 1) = [value |-> 0, rc |-> NormalizeDecoder(w)]
    BY <1>4 DEF DecodeBitLogp, s
  <2>2. Cut(w, d, s, d.rng - s)
    <3>1. s <= d.val
      BY <1>2, <1>4
    <3> QED BY <1>2, <3>1, CutIs
  <2> HIDE DEF w
  <2>3. w \in Dec
    BY <2>2 DEF Cut
  <2> QED BY <2>1, <2>3, NormalizeDecoderIn
<1> QED BY <1>3, <1>4

\* A value and the decoder after it.
Answers == [value : Nat, rc : Dec]
\* The next flag, below those already read.
FlagRound(r) ==
  LET b == DecodeBitLogp(r.rc, 1)
  IN  [value |-> 2 * r.value + b.value, rc |-> b.rc]

\* The flags one by one, as a run.
LEMMA FlagRun ==
  ASSUME NEW d \in Dec, NEW n \in Nat
  PROVE  \E run \in [0..n -> Answers] :
           /\ run[0] = [value |-> 0, rc |-> d] /\ run[n] = DecodeFlags(d, n)
           /\ \A i \in 0..n - 1 : run[i + 1] = FlagRound(run[i])
<1> DEFINE x == [value |-> 0, rc |-> d]
           F == [r \in Answers |-> FlagRound(r)]
           read == CHOOSE f : f = [i \in 0..n |-> IF i = 0 THEN x
                                     ELSE LET b == DecodeBitLogp(f[i - 1].rc, 1)
                                          IN  [value |-> 2 * f[i - 1].value + b.value, rc |-> b.rc]]
<1>1. \A r \in Answers : FlagRound(r) \in Answers
  <2> TAKE r \in Answers
  <2>1. r.value \in Nat /\ r.rc \in Dec
    BY DEF Answers
  <2> DEFINE b == DecodeBitLogp(r.rc, 1)
  <2>2. b.value \in {0, 1} /\ b.rc \in Dec
    BY <2>1, DecodeBitIn
  <2> HIDE DEF b
  <2>3. 2 * r.value + b.value \in Nat
    BY <2>1, <2>2
  <2> QED BY <2>2, <2>3 DEF FlagRound, Answers, b
<1>2. PICK run \in [0..n -> Answers] : IsRun(run, x, F, n)
  <2>1. F \in [Answers -> Answers] /\ x \in Answers
    BY <1>1 DEF Answers
  <2> HIDE DEF F, x
  <2> QED BY <2>1, Runs
<1>3. \A i \in 1..n : run[i] = FlagRound(run[i - 1])
  <2> TAKE i \in 1..n
  <2>1. run[i - 1] \in Answers /\ run[i] = F[run[i - 1]]
    <3> HIDE DEF F, x
    <3> QED BY <1>2 DEF IsRun
  <2> QED BY <2>1
<1>4. run[0] = x
  BY <1>2 DEF IsRun
<1> HIDE DEF x
<1>5. run = [i \in 0..n |-> IF i = 0 THEN x
                            ELSE LET b == DecodeBitLogp(run[i - 1].rc, 1)
                                 IN  [value |-> 2 * run[i - 1].value + b.value, rc |-> b.rc]]
  <2>1. \A i \in 0..n : run[i] = IF i = 0 THEN x ELSE FlagRound(run[i - 1])
    <3> HIDE DEF F
    <3> QED BY <1>3, <1>4
  <2>2. run = [i \in 0..n |-> IF i = 0 THEN x ELSE FlagRound(run[i - 1])]
    BY <2>1
  <2> QED BY <2>2, Zenon DEF FlagRound
<1>6. read = [i \in 0..n |-> IF i = 0 THEN x
                             ELSE LET b == DecodeBitLogp(read[i - 1].rc, 1)
                                  IN  [value |-> 2 * read[i - 1].value + b.value, rc |-> b.rc]]
  BY <1>5, Zenon
<1>7. DecodeFlags(d, n) = read[n]
  BY Zenon DEF DecodeFlags, x
<1> HIDE DEF read, F
<1>8. read = [i \in 0..n |-> IF i = 0 THEN x ELSE FlagRound(read[i - 1])]
  BY <1>6, Zenon DEF FlagRound
<1>9. read[0] = x /\ \A i \in 0..n - 1 : read[i + 1] = FlagRound(read[i])
  BY <1>8
<1> DEFINE T == {i \in Nat : read[i] \in Answers}
<1>10. 0 \in T
  BY <1>9 DEF x, Answers
<1>11. \A i \in 0..n - 1 : i \in T => i + 1 \in T
  BY <1>1, <1>9
<1>12. 0..n \subseteq T
  <2> HIDE DEF T
  <2> QED BY <1>10, <1>11, InductionTo
<1>13. \A i \in 0..n : read[i] \in Answers
  BY <1>12
<1>14. read \in [0..n -> Answers]
  BY <1>8, <1>13
<1>15. \E f \in [0..n -> Answers] : f[0] = x /\ f[n] = DecodeFlags(d, n) /\ \A i \in 0..n - 1 : f[i + 1] = FlagRound(f[i])
  BY <1>7, <1>9, <1>14, Zenon
<1> QED BY <1>15 DEF x

\* Reading the reserved bits.
LEMMA DecodeFlagsFollows ==
  ASSUME NEW D \in ByteStream, NEW B, NEW n \in 1..SymBits, NEW v \in Nat, NEW q,
         Narrows(Start, q, v * High(CodeTop, n), High(CodeTop, n)), Inside(D, q),
         NEW d, Following(d, D, B, Start)
  PROVE  LET out == DecodeFlags(d, n)
         IN  out.value = v /\ Following(out.rc, D, B, q)
<1>1. d \in Dec /\ n \in Nat /\ n > 0
  BY Widths DEF Following, Tracks
<1>2. PICK run \in [0..n -> Answers] :
        /\ run[0] = [value |-> 0, rc |-> d] /\ run[n] = DecodeFlags(d, n)
        /\ \A i \in 0..n - 1 : run[i + 1] = FlagRound(run[i])
  BY <1>1, FlagRun
<1> DEFINE Way(i) == IF i = n THEN q ELSE FlagPlace(v, n, i)
           T == {i \in Nat : i <= n => /\ run[i].value = v \div Pow[n - i]
                                       /\ Following(run[i].rc, D, B, Way(i))}
<1>3. 0 \in T
  <2> DEFINE H == High(CodeTop, n)
  <2>1. v < Pow[n] /\ Pow[n] \in Nat \ {0}
    <3>1. H \in Nat \ {0} /\ CodeTop = H * Pow[n] /\ Pow[n] \in Nat \ {0}
      <4>1. n \in 0..SymBits /\ n \in 0..CodeBits
        BY <1>1, Widths
      <4> QED BY <4>1, ReservedShare, PowPositive
    <3>2. v * H + H <= CodeTop
      BY DEF Narrows, Start
    <3> HIDE DEF H
    <3>3. SUFFICES ASSUME ~(v < Pow[n]) PROVE FALSE
      BY <3>1
    <3>4. H * Pow[n] <= H * v
      <4>1. \A x \in Nat, y \in Nat : x <= y => H * x <= H * y
        BY <3>1
      <4> QED BY <3>1, <3>3, <4>1
    <3>5. PICK x, y : x = H * v /\ y = H * Pow[n]
      OBVIOUS
    <3>6. x \in Nat /\ y \in Nat /\ v * H = x
      <4>1. \A i \in Nat, j \in Nat : i * j \in Nat /\ i * j = j * i
        OBVIOUS
      <4> QED BY <3>1, <3>5, <4>1
    <3> QED BY <3>1, <3>2, <3>4, <3>5, <3>6
  <2>2. v \div Pow[n - 0] = 0
    <3>1. PICK w : w = Pow[n]
      OBVIOUS
    <3>2. (0 * w + v) \div w = 0 /\ 0 * w + v = v
      BY <2>1, <3>1, Remainder
    <3>3. n - 0 = n
      BY <1>1
    <3> QED BY <3>1, <3>2, <3>3
  <2>3. Way(0) = Start
    <3>1. CodeBits - 1 - 0 = CodeBits - 1 /\ CodeTop = Pow[CodeBits - 1] /\ Pow[CodeBits - 1] \in Nat
      BY Widths DEF CodeTop
    <3>2. 0 * Pow[CodeBits - 1 - 0] = 0
      BY <3>1
    <3>3. Way(0) = FlagPlace(v, n, 0)
      BY <1>1
    <3>4. FlagPlace(v, n, 0) = [low |-> 0, rng |-> CodeTop, outs |-> 0, raw |-> 0, rawBits |-> 0]
      BY <2>2, <3>1, <3>2 DEF FlagPlace
    <3> QED BY <3>3, <3>4 DEF Start
  <2>4. run[0].value = 0 /\ run[0].rc = d
    BY <1>2
  <2> HIDE DEF Way
  <2> QED BY <2>2, <2>3, <2>4
<1>4. ASSUME NEW i \in 0..n - 1, i \in T PROVE i + 1 \in T
  <2> DEFINE P == FlagPlace(v, n, i)
             X == Way(i + 1)
             h == P.rng \div Pow[1]
             b == v \div Pow[n - (i + 1)] - 2 * (v \div Pow[n - i])
             r == run[i]
             c == DecodeBitLogp(r.rc, 1)
  <2>1. i \in Nat /\ i <= n /\ i # n /\ n - i \in 1..CodeBits /\ (n - i) - 1 = n - (i + 1)
    BY <1>1, Widths
  <2>2. r.value = v \div Pow[n - i] /\ Following(r.rc, D, B, P) /\ r \in Answers
    <3>1. Way(i) = P
      BY <2>1
    <3> HIDE DEF Way, P
    <3> QED BY <1>1, <1>2, <1>4, <2>1, <3>1
  <2>3. /\ IsPlace(P) /\ 1 \in 1..CodeShift /\ b \in {0, 1} /\ Inside(D, X)
        /\ IF b = 1 THEN Narrows(P, X, P.rng - h, h) ELSE Narrows(P, X, 0, P.rng - h)
    BY FlagStep
  <2> HIDE DEF P, X, b, r
  <2>4. c.value = b /\ Following(c.rc, D, B, X)
    BY <2>2, <2>3, DecodeBitFollows
  <2>5. run[i + 1] = [value |-> 2 * r.value + c.value, rc |-> c.rc]
    BY <1>2 DEF FlagRound, r
  <2> HIDE DEF c
  <2>6. run[i + 1].value = v \div Pow[n - (i + 1)]
    <3>1. v \div Pow[n - i] \in Nat /\ v \div Pow[n - (i + 1)] \in Nat
      BY <2>1, TopBits
    <3>2. PICK y, z : y = v \div Pow[n - i] /\ z = v \div Pow[n - (i + 1)]
      OBVIOUS
    <3>3. b = z - 2 * y /\ run[i + 1].value = 2 * y + b
      BY <2>2, <2>4, <2>5, <3>2 DEF b
    <3> QED BY <3>1, <3>2, <3>3
  <2>7. run[i + 1].rc = c.rc
    BY <2>5
  <2>8. i + 1 \in Nat
    BY <2>1
  <2> HIDE DEF Way
  <2> QED BY <2>4, <2>6, <2>7, <2>8 DEF X
<1>5. 0..n \subseteq T
  <2> HIDE DEF T
  <2> QED BY <1>1, <1>3, <1>4, InductionTo
<1>6. run[n].value = v \div Pow[n - n] /\ Following(run[n].rc, D, B, Way(n))
  <2>1. n \in T /\ n <= n
    <3> HIDE DEF T
    <3> QED BY <1>1, <1>5
  <2> HIDE DEF Way
  <2> QED BY <2>1
<1>7. v \div Pow[n - n] = v
  <2>1. n - n = 0 /\ Pow[0] = 1
    BY <1>1, PowStep
  <2>2. v \div 1 = v
    OBVIOUS
  <2> QED BY <2>1, <2>2
<1> QED BY <1>2, <1>6, <1>7

\* dec_uint() finds the top bits, and the others among the raw bits.
LEMMA DecUintFollows ==
  ASSUME NEW D \in ByteStream, NEW B \in ByteStream, NEW p, IsPlace(p), NEW q, IsPlace(q),
         NEW ft \in 2..Word - 1, NEW v \in Nat, v < ft, NEW m, IsPlace(m),
         Shares(p, m, High(v, Split(ft)), High(v, Split(ft)) + 1, High(ft - 1, Split(ft)) + 1),
         Grows(m, q, Low(v, Split(ft)), Split(ft)), Inside(D, q), Agrees(B, q),
         NEW d, Following(d, D, B, p)
  PROVE  LET out == DecUint(d, ft)
         IN  out.value = v /\ Following(out.rc, D, B, q)
<1> DEFINE k == Split(ft)
           t == High(v, k)
           n == High(ft - 1, k) + 1
           y == Low(v, k)
           e == Update(d, t, t + 1, n)
           low == DecBits(e, k)
<1>1. k \in 0..CodeBits - SymBits + 1 /\ n \in 1..CodeBot /\ t \in 0..High(ft - 1, k) /\ y \in Nat
  BY SplitIs
<1>2. k \in 0..CodeBits
  BY <1>1, WidthsFit
<1>3. v = Pow[k] * t + y /\ Pow[k] \in Nat
  BY <1>2, LowHigh, PowPositive
<1>4. t \in 0..n - 1 /\ t \in Nat
  <2> DEFINE h == High(ft - 1, k)
  <2>1. n = h + 1 /\ t \in 0..h
    BY <1>1
  <2>2. h \in Nat
    <3>1. ft - 1 \in Nat
      BY Widths
    <3> HIDE DEF k
    <3> QED BY <1>2, <3>1, LowHigh
  <2> HIDE DEF h, t, n
  <2> QED BY <2>1, <2>2
<1>5. Shares(p, m, t, t + 1, n) /\ Grows(m, q, y, k)
  OBVIOUS
<1>6. Inside(D, m)
  <2>1. m \in Place
    BY DEF IsPlace
  <2>2. q.low = m.low /\ q.rng = m.rng /\ q.outs = m.outs
    <3> HIDE DEF k, y
    <3>1. q = [low |-> m.low, rng |-> m.rng, outs |-> m.outs,
               raw |-> m.raw + y * Power[m.rawBits], rawBits |-> m.rawBits + k]
      BY <1>5, Zenon DEF Grows
    <3> QED BY ONLY <3>1
  <2> QED BY <2>2 DEF Inside
<1>7. DecUint(d, ft) = LET top == Decode(d, n)
                           l == DecBits(Update(d, top, top + 1, n), k)
                       IN  [value |-> top * Pow[k] + l.value, rc |-> l.rc]
  <2>1. ~(ft <= 1)
    BY Widths
  <2> QED BY <2>1, Zenon DEF DecUint
<1> HIDE DEF k, t, n, y
<1>8. Decode(d, n) = t /\ Following(e, D, B, m)
  BY <1>1, <1>4, <1>5, <1>6, DecodeSharesFollows
<1>9. DecUint(d, ft) = [value |-> t * Pow[k] + low.value, rc |-> low.rc]
  BY <1>7, <1>8, Zenon
<1> HIDE DEF e
<1>10. low.value = y /\ Following(low.rc, D, B, q)
  BY <1>1, <1>5, <1>8, DecBitsFollows
<1> HIDE DEF low
<1>11. t * Pow[k] + y = v
  BY <1>1, <1>3, <1>4
<1> QED BY <1>9, <1>10, <1>11

\* What is read is what was written, and the decoder goes on from the place
\* the encoder went on from.
LEMMA DecodeSymbolFollows ==
  ASSUME NEW D \in ByteStream, NEW B \in ByteStream, NEW p, IsPlace(p), NEW q, IsPlace(q),
         NEW s, Codable(s) \/ (s \in Flags /\ p = Start), Puts(s, p, q), Inside(D, q), Agrees(B, q),
         NEW d, Following(d, D, B, p)
  PROVE  LET out == DecodeSymbol(d, s)
         IN  out.value = s.value /\ Following(out.rc, D, B, q)
<1>1. CASE s \in Flags /\ p = Start
  <2>1. s.op = "flags" /\ s.value \in Nat /\ s.n \in 1..SymBits
    BY <1>1 DEF Flags
  <2>2. DecodeSymbol(d, s) = DecodeFlags(d, s.n)
    BY <2>1 DEF DecodeSymbol
  <2>3. Narrows(Start, q, s.value * High(CodeTop, s.n), High(CodeTop, s.n))
    BY <1>1, <2>1 DEF Puts
  <2> QED BY <1>1, <2>1, <2>2, <2>3, DecodeFlagsFollows
<1>2. CASE Codable(s)
  <2>1. s \in Symbol /\ s.op \in {"bit", "icdf", "uint", "raw"}
    BY <1>2 DEF Codable, Symbol
  <2>2. CASE s.op = "bit"
    <3>1. s.logp \in 1..CodeShift /\ s.value \in {0, 1}
      BY <2>1, <2>2 DEF Symbol
    <3>2. DecodeSymbol(d, s) = DecodeBitLogp(d, s.logp)
      BY <2>2 DEF DecodeSymbol
    <3>3. LET h == p.rng \div Pow[s.logp]
          IN  IF s.value = 1 THEN Narrows(p, q, p.rng - h, h) ELSE Narrows(p, q, 0, p.rng - h)
      BY <2>2 DEF Puts
    <3> QED BY <3>1, <3>2, <3>3, DecodeBitFollows
  <2>3. CASE s.op = "icdf"
    <3>1. s.value \in Nat /\ s.icdf \in Seq(Nat) /\ s.ftb \in 0..CodeShift
      BY <2>1, <2>3 DEF Symbol
    <3>2. DecodeSymbol(d, s) = DecodeIcdf(d, s.icdf, s.ftb)
      BY <2>3 DEF DecodeSymbol
    <3>3. s.value < Len(s.icdf) /\ IsTable(s.icdf, s.ftb)
      BY <1>2, <2>3, <3>1 DEF Codable, IsTable
    <3>4. LET r == p.rng \div Pow[s.ftb]
          IN  IF s.value > 0 THEN Narrows(p, q, p.rng - r * s.icdf[s.value], r * (s.icdf[s.value] - s.icdf[s.value + 1]))
              ELSE Narrows(p, q, 0, p.rng - r * s.icdf[1])
      BY <2>3 DEF Puts
    <3>5. PICK v, t, f : v = s.value /\ t = s.icdf /\ f = s.ftb
      OBVIOUS
    <3>6. LET r == p.rng \div Pow[f]
          IN  IF v > 0 THEN Narrows(p, q, p.rng - r * t[v], r * (t[v] - t[v + 1]))
              ELSE Narrows(p, q, 0, p.rng - r * t[1])
      BY <3>4, <3>5, Zenon
    <3>7. IsTable(t, f) /\ v \in Nat /\ v < Len(t)
      BY <3>1, <3>3, <3>5
    <3>8. DecodeIcdf(d, t, f).value = v /\ Following(DecodeIcdf(d, t, f).rc, D, B, q)
      BY <3>6, <3>7, DecodeIcdfFollows
    <3> QED BY <3>2, <3>5, <3>8
  <2>4. CASE s.op = "uint"
    <3>1. s.value \in Nat /\ s.ft \in 1..Word - 1 /\ s.value < s.ft
      BY <1>2, <2>1, <2>4 DEF Symbol, Codable
    <3>2. DecodeSymbol(d, s) = DecUint(d, s.ft)
      BY <2>4 DEF DecodeSymbol
    <3>3. CASE s.ft <= 1
      <4>1. s.value = 0 /\ q = p
        BY <2>4, <3>1, <3>3 DEF Puts
      <4>2. DecUint(d, s.ft) = [value |-> 0, rc |-> d]
        BY <3>3 DEF DecUint
      <4> QED BY <3>2, <4>1, <4>2
    <3>4. CASE ~(s.ft <= 1)
      <4>1. s.ft \in 2..Word - 1
        BY <3>1, <3>4, Widths
      <4> DEFINE k == Split(s.ft)
                 top == High(s.value, k)
      <4>2. PICK m : /\ IsPlace(m) /\ Shares(p, m, top, top + 1, High(s.ft - 1, k) + 1)
                     /\ Grows(m, q, Low(s.value, k), k)
        BY <2>4, <3>4, Zenon DEF Puts
      <4>3. DecUint(d, s.ft).value = s.value /\ Following(DecUint(d, s.ft).rc, D, B, q)
        BY <3>1, <4>1, <4>2, DecUintFollows
      <4> QED BY <3>2, <4>3
    <3> QED BY <3>3, <3>4
  <2>5. CASE s.op = "raw"
    <3>1. s.n \in 0..CodeBits - SymBits + 1
      BY <2>1, <2>5 DEF Symbol
    <3>2. DecodeSymbol(d, s) = DecBits(d, s.n)
      BY <2>5 DEF DecodeSymbol
    <3>3. Grows(p, q, s.value, s.n)
      BY <2>5 DEF Puts
    <3>4. PICK v, n : v = s.value /\ n = s.n
      OBVIOUS
    <3>5. DecBits(d, n).value = v /\ Following(DecBits(d, n).rc, D, B, q)
      BY <3>1, <3>3, <3>4, DecBitsFollows
    <3> QED BY <3>2, <3>4, <3>5
  <2> HIDE DEF Puts
  <2> QED BY <2>1, <2>2, <2>3, <2>4, <2>5
<1> QED BY <1>1, <1>2

-----------------------------------------------------------------------------
(* The list of symbols that were sent, as a way from place to place.        *)

\* An entry of the list of what was written takes the place p to the place q.
Leg(e, i, p, q) ==
  /\ Codable(e.symbol) \/ (i = 1 /\ e.symbol \in Flags)
  /\ Puts(e.symbol, p, q)
  /\ e.rng = q.rng /\ e.total = CodeBits + 1 + SymBits * q.outs + q.rawBits

\* The places before and after each of the entries.
Trail(run, list) ==
  /\ run \in [0..Len(list) -> Place] /\ run[0] = Start
  /\ \A i \in 0..Len(list) : IsPlace(run[i])
  /\ \A i \in 1..Len(list) : Leg(list[i], i, run[i - 1], run[i])
\* The list leads to the place p.
Reaches(list, p) == \E run : Trail(run, list) /\ run[Len(list)] = p

\* The reserved bits can still be patched.
Patchable(list, p) ==
  (list # <<>> /\ list[1].symbol.op = "flags" /\ list[1].symbol.value = 0) => Held(p, list[1].symbol.n)

\* The start is a place.
LEMMA StartIs == IsPlace(Start)
<1>1. CodeTop \in CodeBot + 1..CodeTop
  BY Widths
<1>2. Start \in Place
  BY <1>1 DEF Start, Place
<1> QED BY <1>2, PowerStep DEF IsPlace, Start

\* The empty list leads there.
LEMMA ReachesNone == Reaches(<<>>, Start)
<1> DEFINE run == [i \in 0..0 |-> Start]
<1>1. run \in [0..0 -> Place] /\ run[0] = Start
  BY StartIs DEF IsPlace
<1>2. Len(<<>>) = 0
  OBVIOUS
<1> HIDE DEF run
<1>3. Trail(run, <<>>)
  BY <1>1, <1>2, StartIs DEF Trail
<1> QED BY <1>1, <1>2, <1>3 DEF Reaches

\* One symbol more.
LEMMA ReachesOn ==
  ASSUME NEW list \in Seq(Entries), NEW e \in Entries, NEW p, NEW q, IsPlace(q), Reaches(list, p),
         Leg(e, Len(list) + 1, p, q)
  PROVE  Reaches(Append(list, e), q)
<1> DEFINE n == Len(list)
           more == Append(list, e)
<1>1. PICK run : Trail(run, list) /\ run[n] = p
  BY DEF Reaches
<1>2. n \in Nat /\ Len(more) = n + 1 /\ more[n + 1] = e /\ \A i \in 1..n : more[i] = list[i]
  OBVIOUS
<1>2a. Leg(e, n + 1, p, q)
  OBVIOUS
<1> HIDE DEF n, more
<1> DEFINE on == [i \in 0..n + 1 |-> IF i = n + 1 THEN q ELSE run[i]]
<1>3. /\ run \in [0..n -> Place] /\ run[0] = Start
      /\ \A i \in 0..n : IsPlace(run[i])
      /\ \A i \in 1..n : Leg(list[i], i, run[i - 1], run[i])
  BY <1>1 DEF Trail, n
<1>4. on[n + 1] = q /\ \A i \in 0..n : on[i] = run[i]
  BY <1>2
<1>5. on \in [0..n + 1 -> Place]
  BY <1>2, <1>3 DEF IsPlace
<1> HIDE DEF on
<1>6. \A i \in 0..n + 1 : IsPlace(on[i])
  BY <1>2, <1>3, <1>4
<1>7. ASSUME NEW i \in 1..n + 1 PROVE Leg(more[i], i, on[i - 1], on[i])
  <2>1. CASE i = n + 1
    <3>1. on[i] = q /\ on[i - 1] = p /\ more[i] = e
      BY <1>1, <1>2, <1>4, <2>1
    <3> QED BY <1>2a, <2>1, <3>1
  <2>2. CASE i # n + 1
    <3>1. i \in 1..n /\ i - 1 \in 0..n /\ i \in 0..n
      BY <1>2, <2>2
    <3>2. on[i] = run[i] /\ on[i - 1] = run[i - 1] /\ more[i] = list[i] /\ Leg(list[i], i, run[i - 1], run[i])
      BY <1>2, <1>3, <1>4, <3>1
    <3> QED BY <3>2
  <2> QED BY <2>1, <2>2
<1>8. on[0] = Start
  BY <1>2, <1>3, <1>4
<1>9. Trail(on, more)
  BY <1>2, <1>5, <1>6, <1>7, <1>8 DEF Trail
<1> QED BY <1>2, <1>4, <1>9 DEF Reaches, more

\* The first bits hold what is patched into them.
LEMMA HeldFirst ==
  ASSUME NEW q, NEW n \in 1..SymBits, Narrows(Start, q, 0, High(CodeTop, n))
  PROVE  Held(q, n)
<1> DEFINE h == High(CodeTop, n)
<1>1. h \in Nat
  BY ReservedShare
<1> HIDE DEF h
<1>2. PICK k \in Nat : /\ q.low = (Start.low + 0) * Weight(k) /\ q.rng = h * Weight(k) /\ q.outs = Start.outs + k
  BY DEF Narrows, h
<1> DEFINE w == Weight(k)
<1>3. w \in Nat
  BY WeightIs
<1>4. Start.low = 0 /\ Start.outs = 0 /\ q.outs = k
  BY <1>2 DEF Start
<1>5. q.low = (0 + 0) * w /\ q.rng = h * w
  BY <1>2, <1>4
<1> HIDE DEF w
<1>6. q.low = 0 /\ q.rng \in Nat
  BY <1>1, <1>3, <1>5
<1>7. q.low + q.rng <= h * w
  BY <1>5, <1>6
<1> QED BY <1>4, <1>7 DEF Held, h, w

\* The flags that were patched in are the symbol that was shifted.
LEMMA FlagsMoved ==
  ASSUME NEW q, NEW n \in 1..SymBits, Narrows(Start, q, 0, High(CodeTop, n)), NEW v \in 1..Pow[n] - 1
  PROVE  LET x == v * High(CodeTop, n)
         IN  x \in Nat /\ Narrows(Start, Shifted(q, x), x, High(CodeTop, n))
<1> DEFINE h == High(CodeTop, n)
           x == v * h
<1>1. h \in Nat \ {0} /\ CodeTop = h * Pow[n] /\ Pow[n] \in Nat
  <2>1. n \in 0..SymBits /\ n \in 0..CodeBits
    BY Widths
  <2> QED BY <2>1, ReservedShare, PowPositive
<1> HIDE DEF h
<1>2. PICK k \in Nat : q = [low |-> (Start.low + 0) * Weight(k), rng |-> h * Weight(k), outs |-> Start.outs + k,
                            raw |-> Start.raw, rawBits |-> Start.rawBits]
  BY DEF Narrows, h
<1>3. q.rng \in CodeBot + 1..CodeTop
  BY DEF Narrows
<1> DEFINE w == Weight(k)
<1>4. w \in Nat
  BY WeightIs
<1>5. Start.low = 0 /\ Start.outs = 0 /\ Start.rng = CodeTop
  BY DEF Start
<1>6. v \in Nat /\ x \in Nat /\ x + h <= CodeTop
  <2>1. \A a \in Nat, b \in Nat, c \in Nat : a + 1 <= b => a * c + c <= c * b
    <3>1. ASSUME NEW a \in Nat, NEW b \in Nat, NEW c \in Nat, a + 1 <= b PROVE a * c + c <= c * b
      <4>1. PICK d \in Nat : b = a + 1 + d
        <5>1. b - (a + 1) \in Nat /\ b = a + 1 + (b - (a + 1))
          BY <3>1
        <5> QED BY <5>1
      <4>2. c * b = c * a + c + c * d /\ c * d \in Nat
        BY <4>1
      <4> QED BY <4>2
    <3> QED BY <3>1
  <2>2. v \in Nat /\ v + 1 <= Pow[n]
    BY <1>1
  <2>3. v * h + h <= h * Pow[n] /\ v * h \in Nat
    BY <1>1, <2>1, <2>2
  <2> QED BY <1>1, <2>2, <2>3
<1> HIDE DEF x
<1>7. Shifted(q, x) = [low |-> (Start.low + x) * Weight(k), rng |-> h * Weight(k), outs |-> Start.outs + k,
                       raw |-> Start.raw, rawBits |-> Start.rawBits]
  <2>1. q.outs = k /\ q.low = (0 + 0) * w
    BY <1>2, <1>5
  <2> HIDE DEF w
  <2>2. q.low + x * w = (0 + x) * w
    BY <1>4, <1>6, <2>1
  <2>3. Shifted(q, x) = [q EXCEPT !.low = (0 + x) * w]
    BY <2>1, <2>2 DEF Shifted, w
  <2> QED BY <1>2, <1>5, <2>3 DEF w
<1>8. Shifted(q, x).rng = q.rng
  BY <1>2, <1>7
<1> QED BY <1>1, <1>3, <1>5, <1>6, <1>7, <1>8 DEF Narrows, h, x

\* With them, the list leads to the shifted place.
LEMMA ReachesPatched ==
  ASSUME NEW list \in Seq(Entries), list # <<>>, list[1].symbol.op = "flags", list[1].symbol.value = 0,
         NEW p, Reaches(list, p), NEW v \in 1..Pow[list[1].symbol.n] - 1
  PROVE  Reaches([list EXCEPT ![1].symbol.value = v], Shifted(p, v * High(CodeTop, list[1].symbol.n)))
<1> DEFINE m == Len(list)
           n == list[1].symbol.n
           x == v * High(CodeTop, n)
           e == [list[1] EXCEPT !.symbol.value = v]
           new == [list EXCEPT ![1] = e]
<1>1. m \in Nat /\ m >= 1 /\ list[1] \in Entries
  OBVIOUS
<1>2. list[1].symbol \in Flags
  BY <1>1 DEF Entries, Symbol
<1>3. n \in 1..SymBits /\ n \in Nat
  BY <1>2, Widths DEF Flags
<1>4. v \in Nat
  <2>1. n \in 0..CodeBits
    BY ONLY <1>3, Widths, SMTT(30)
  <2>2. Pow[n] \in Nat
    BY <2>1, PowPositive
  <2> QED BY <2>2
<1>5. /\ e \in Entries /\ e.symbol \in Flags /\ e.symbol.op = "flags" /\ e.symbol.n = n /\ e.symbol.value = v
      /\ e.rng = list[1].rng /\ e.total = list[1].total
  BY <1>1, <1>2, <1>4 DEF Entries, Flags
<1>6. [list EXCEPT ![1].symbol.value = v] = new
  OBVIOUS
<1>6a. list[1].symbol.value = 0 /\ list[1].symbol.op = "flags" /\ list[1].symbol.n = n /\ v \in 1..Pow[n] - 1
  OBVIOUS
<1> HIDE DEF e, n
<1>7. Len(new) = m /\ new[1] = e /\ \A i \in 2..m : new[i] = list[i]
  BY <1>1
<1>8. PICK run : Trail(run, list) /\ run[m] = p
  BY DEF Reaches
<1> HIDE DEF new, m, x
<1>9. /\ run \in [0..m -> Place] /\ run[0] = Start
      /\ \A i \in 0..m : IsPlace(run[i])
      /\ \A i \in 1..m : Leg(list[i], i, run[i - 1], run[i])
  BY <1>8 DEF Trail, m
<1>10. Narrows(Start, run[1], 0, High(CodeTop, n)) /\ list[1].rng = run[1].rng
       /\ list[1].total = CodeBits + 1 + SymBits * run[1].outs + run[1].rawBits
  <2>1. 1 \in 1..m /\ 1 - 1 = 0
    BY <1>1
  <2>2. Leg(list[1], 1, run[0], run[1])
    BY <1>9, <2>1
  <2>3. Puts(list[1].symbol, Start, run[1])
    BY <1>9, <2>2 DEF Leg
  <2>4. Narrows(Start, run[1], 0 * High(CodeTop, n), High(CodeTop, n))
    BY <1>6a, <2>3 DEF Puts
  <2>5. n \in 0..SymBits
    BY <1>3
  <2>6. High(CodeTop, n) \in Nat
    BY <2>5, ReservedShare
  <2>7. 0 * High(CodeTop, n) = 0
    <3> DEFINE h == High(CodeTop, n)
    <3> HIDE DEF h
    <3>1. h \in Nat
      BY <2>6 DEF h
    <3>2. 0 * h = 0
      BY <3>1
    <3> QED BY <3>2 DEF h
  <2> QED BY <2>2, <2>4, <2>7 DEF Leg
<1>11. x \in Nat /\ Narrows(Start, Shifted(run[1], x), x, High(CodeTop, n))
  BY <1>3, <1>6a, <1>10, FlagsMoved DEF x
<1> DEFINE on == [i \in 0..m |-> IF i = 0 THEN Start ELSE Shifted(run[i], x)]
<1>12. on[0] = Start /\ \A i \in 1..m : on[i] = Shifted(run[i], x)
  BY <1>1
<1>13. \A i \in 1..m : /\ IsPlace(Shifted(run[i], x)) /\ Shifted(run[i], x).rng = run[i].rng
                       /\ Shifted(run[i], x).outs = run[i].outs /\ Shifted(run[i], x).rawBits = run[i].rawBits
  <2>1. TAKE i \in 1..m
  <2>2. IsPlace(run[i])
    BY <1>1, <1>9
  <2> QED BY <1>11, <2>2, ShiftedIs
<1>14. on \in [0..m -> Place]
  BY <1>1, <1>13, StartIs DEF IsPlace
<1> HIDE DEF on
<1>15. \A i \in 0..m : IsPlace(on[i])
  BY <1>1, <1>12, <1>13, StartIs
<1>16. ASSUME NEW i \in 1..m PROVE Leg(new[i], i, on[i - 1], on[i])
  <2>1. CASE i = 1
    <3>1. new[i] = e /\ on[i - 1] = Start /\ on[i] = Shifted(run[1], x)
      BY <1>1, <1>7, <1>12, <2>1
    <3>2. Puts(e.symbol, Start, Shifted(run[1], x))
      BY <1>5, <1>11 DEF Puts, x
    <3>3. e.rng = on[i].rng /\ e.total = CodeBits + 1 + SymBits * on[i].outs + on[i].rawBits
      <4>1. on[i].rng = run[1].rng /\ on[i].outs = run[1].outs /\ on[i].rawBits = run[1].rawBits
        BY <1>13, <2>1, <3>1
      <4> QED BY <1>5, <1>10, <4>1
    <3> QED BY <1>5, <2>1, <3>1, <3>2, <3>3 DEF Leg
  <2>2. CASE i # 1
    <3>1. i \in 2..m /\ i - 1 \in 1..m /\ i - 1 \in 0..m
      BY <1>1, <2>2
    <3>2. new[i] = list[i] /\ on[i] = Shifted(run[i], x) /\ on[i - 1] = Shifted(run[i - 1], x)
      BY <1>7, <1>12, <3>1
    <3>3. Leg(list[i], i, run[i - 1], run[i])
      BY <1>9
    <3>4. Codable(list[i].symbol) /\ Puts(list[i].symbol, run[i - 1], run[i])
          /\ list[i].rng = run[i].rng /\ list[i].total = CodeBits + 1 + SymBits * run[i].outs + run[i].rawBits
      BY <2>2, <3>3 DEF Leg
    <3>5. list[i].symbol \in Symbol /\ IsPlace(run[i - 1])
      BY <1>9, <3>1, <3>4 DEF Codable
    <3>6. Puts(list[i].symbol, Shifted(run[i - 1], x), Shifted(run[i], x))
      BY <1>11, <3>4, <3>5, PutsShifted
    <3>7. on[i].rng = run[i].rng /\ on[i].outs = run[i].outs /\ on[i].rawBits = run[i].rawBits
      BY <1>13, <3>2
    <3> QED BY <3>2, <3>4, <3>6, <3>7 DEF Leg
  <2> QED BY <2>1, <2>2
<1>17. Trail(on, new)
  BY <1>7, <1>12, <1>14, <1>15, <1>16 DEF Trail
<1>18. on[m] = Shifted(p, x)
  BY <1>1, <1>8, <1>12
<1>19. Reaches(new, Shifted(p, x))
  BY <1>7, <1>17, <1>18 DEF Reaches
<1> QED BY <1>6, <1>19 DEF x, n

-----------------------------------------------------------------------------
(* Written: while the packet is written.                                    *)

\* The bits counted never become fewer.
LEMMA EncodeSymbolGrows ==
  ASSUME NEW rc, EncoderOK(rc), NEW s, Codable(s)
  PROVE  EncodeSymbol(rc, s).nbitsTotal >= rc.nbitsTotal
<1>1. s \in Symbol
  BY DEF Codable
<1>2. s.op \in {"bit", "icdf", "uint", "raw"}
  BY <1>1 DEF Symbol
<1>r. /\ rc \in Coder /\ rc.nendBits <= CodeBits /\ Accounted(rc) /\ rc.nbitsTotal \in Nat
  BY OKTypes DEF EncoderOK, Accounted
<1>3. CASE s.op = "bit"
  <2>1. s.logp \in 1..CodeShift
    BY <1>1, <1>3 DEF Symbol
  <2>2. EncodeSymbol(rc, s) = EncodeBitLogp(rc, s.value = 1, s.logp)
    BY <1>3 DEF EncodeSymbol
  <2>3. Coded(EncodeBitLogp(rc, s.value = 1, s.logp), rc)
    BY <2>1, EncodeBitLogpIs
  <2> QED BY <2>2, <2>3 DEF Coded
<1>4. CASE s.op = "icdf"
  <2>1. s.value \in Nat /\ s.icdf \in Seq(Nat) /\ s.ftb \in 0..CodeShift
    BY <1>1, <1>4 DEF Symbol
  <2>2. EncodeSymbol(rc, s) = EncodeIcdf(rc, s.value, s.icdf, s.ftb)
    BY <1>4 DEF EncodeSymbol
  <2>3. s.value < Len(s.icdf) /\ IsTable(s.icdf, s.ftb)
    BY <1>4, <2>1 DEF Codable, IsTable
  <2>4. Coded(EncodeIcdf(rc, s.value, s.icdf, s.ftb), rc)
    BY <2>1, <2>3, EncodeIcdfIs
  <2> QED BY <2>2, <2>4 DEF Coded
<1>5. CASE s.op = "uint"
  <2>1. PICK ft, v : ft = s.ft /\ v = s.value
    OBVIOUS
  <2>2. v \in Nat /\ ft \in 1..Word - 1 /\ v < ft
    BY <1>1, <1>5, <2>1 DEF Symbol, Codable
  <2>3. EncodeSymbol(rc, s) = EncUint(rc, v, ft)
    BY <1>5, <2>1 DEF EncodeSymbol
  <2>4. CASE ft <= 1
    <3>1. EncUint(rc, v, ft) = rc
      BY <2>4 DEF EncUint
    <3> QED BY <1>r, <2>3, <3>1
  <2>5. CASE ~(ft <= 1)
    <3> DEFINE k == Split(ft)
               t == High(v, k)
               n == High(ft - 1, k) + 1
               e == Encode(rc, t, t + 1, n)
               y == Low(v, k)
    <3>1. EncUint(rc, v, ft) = EncBits(e, y, k)
      BY <2>5 DEF EncUint
    <3>2. ft \in 2..Word - 1
      BY <2>2, <2>5, Widths
    <3>3. k \in 0..CodeBits - SymBits + 1 /\ n \in 1..CodeBot /\ t \in 0..High(ft - 1, k) /\ y \in Nat
      BY <2>2, <3>2, SplitIs
    <3>4. t \in 0..n /\ t + 1 \in 0..n /\ t < t + 1
      <4> DEFINE h == High(ft - 1, k)
      <4>1. n = h + 1 /\ h + 1 \in 1..CodeBot /\ t \in 0..h
        BY <3>3
      <4>2. h \in Int
        <5>1. ft - 1 \in Nat /\ k \in 0..CodeBits
          BY <3>2, <3>3, Widths
        <5> HIDE DEF k
        <5>2. High(ft - 1, k) \in Nat
          BY <5>1, LowHigh
        <5> QED BY <5>2
      <4> HIDE DEF h, t, n
      <4> QED BY <4>1, <4>2, Widths
    <3> HIDE DEF t, n, k, y
    <3>5. Coded(e, rc)
      BY <3>3, <3>4, EncodeIs
    <3> HIDE DEF e
    <3>6. e \in Coder /\ e.nendBits <= CodeBits /\ Accounted(e) /\ e.nbitsTotal >= rc.nbitsTotal /\ e.nbitsTotal \in Nat
      BY <3>5, OKTypes DEF Coded, EncoderOK, Accounted
    <3>7. EncBits(e, y, k).nbitsTotal = e.nbitsTotal + k
      BY <3>3, <3>6, EncBitsIs
    <3>8. k \in Nat
      BY <3>3, Widths
    <3>9. e.nbitsTotal + k >= rc.nbitsTotal
      BY <1>r, <3>6, <3>8
    <3> QED BY <2>3, <3>1, <3>7, <3>9
  <2> QED BY <2>4, <2>5
<1>6. CASE s.op = "raw"
  <2>1. PICK n, v : n = s.n /\ v = s.value
    OBVIOUS
  <2>2. v \in Nat /\ n \in 0..CodeBits - SymBits + 1
    BY <1>1, <1>6, <2>1 DEF Symbol
  <2>3. EncodeSymbol(rc, s) = EncBits(rc, v, n)
    BY <1>6, <2>1 DEF EncodeSymbol
  <2>4. EncBits(rc, v, n).nbitsTotal = rc.nbitsTotal + n
    BY <1>r, <2>2, EncBitsIs
  <2>5. n \in Nat
    BY <2>2, Widths
  <2> QED BY <1>r, <2>3, <2>4, <2>5
<1> QED BY <1>2, <1>3, <1>4, <1>5, <1>6

\* Within the budget nothing is lost.
LEMMA NotOverfull ==
  ASSUME NEW rc, EncoderOK(rc), ~Overfull(rc)
  PROVE  rc.error = 0
  BY DEF EncoderOK, Balanced

\* The encoder is where the symbols written lead to.
At(rc, list) == EncoderAt(rc) /\ Reaches(list, PlaceOf(rc)) /\ Patchable(list, PlaceOf(rc))

\* What the encoder wrote is what was sent, while it fits.
Written == phase = "write" => got = <<>> /\ (~Overfull(enc) => At(enc, sent))

\* An encoded symbol is the last step of the list.
LEMMA EntryLeg ==
  ASSUME NEW rc, EncoderAt(rc), NEW s, NEW i, Codable(s) \/ (i = 1 /\ s \in Flags), NEW p, Puts(s, p, PlaceOf(rc))
  PROVE  Leg(Entry(s, rc), i, p, PlaceOf(rc))
<1>1. Entry(s, rc).symbol = s /\ Entry(s, rc).rng = rc.rng /\ Entry(s, rc).total = rc.nbitsTotal
  BY DEF Entry
<1>2. /\ PlaceOf(rc).rng = rc.rng /\ PlaceOf(rc).outs = Pending(rc) /\ PlaceOf(rc).rawBits = EndBits(rc)
  BY DEF PlaceOf
<1>3. rc.nbitsTotal = CodeBits + 1 + SymBits * Pending(rc) + EndBits(rc)
  BY DEF EncoderAt
<1> QED BY <1>1, <1>2, <1>3 DEF Leg

\* It holds at first, with or without flags to patch.
LEMMA InitWritten ==
  ASSUME Init
  PROVE  Written
<1>1. IInv /\ got = <<>> /\ phase = "write"
  BY InitOK DEF Init
<1>2. EncoderOK(enc)
  BY <1>1 DEF IInv
<1>3. SUFFICES ASSUME ~Overfull(enc) PROVE At(enc, sent)
  BY <1>1 DEF Written
<1>4. PICK old \in Stale, size \in Sizes, n \in Reserves :
        IF n = 0 THEN enc = ResetForEncode(old, size) /\ sent = <<>>
        ELSE /\ enc = EncodeSymbol(ResetForEncode(old, size), Reserve(n))
             /\ sent = <<Entry([op |-> "flags", value |-> 0, n |-> n], EncodeSymbol(ResetForEncode(old, size), Reserve(n)))>>
  BY <1>1 DEF Init
<1>5. n \in 0..SymBits /\ enc.error = 0
  BY <1>2, <1>3, ReservesFit, NotOverfull
<1>6. CASE n = 0
  <2>1. enc = ResetForEncode(old, size) /\ sent = <<>>
    BY <1>4, <1>6
  <2>2. EncoderAt(enc) /\ PlaceOf(enc) = Start
    BY <2>1, FreshPlace
  <2> QED BY <2>1, <2>2, ReachesNone DEF At, Patchable
<1>7. CASE n # 0
  <2> DEFINE f == [op |-> "flags", value |-> 0, n |-> n]
             e == Entry(f, enc)
             q == PlaceOf(enc)
  <2>1. n \in 1..SymBits /\ enc = EncodeSymbol(ResetForEncode(old, size), Reserve(n)) /\ sent = <<e>>
    BY <1>4, <1>5, <1>7, Widths
  <2>2. EncoderAt(enc) /\ Narrows(Start, q, 0, High(CodeTop, n))
    BY <1>5, <2>1, ReserveMoves
  <2>3. f \in Flags /\ f.op = "flags" /\ f.value = 0 /\ f.n = n
    BY <2>1 DEF Flags
  <2>4. High(CodeTop, n) \in Nat
    <3>1. n \in 0..SymBits
      BY <1>5
    <3> QED BY <3>1, ReservedShare
  <2>5. 0 * High(CodeTop, n) = 0
    <3> DEFINE h == High(CodeTop, n)
    <3> HIDE DEF h
    <3>1. h \in Nat
      BY <2>4 DEF h
    <3>2. 0 * h = 0
      BY <3>1
    <3> QED BY <3>2 DEF h
  <2> HIDE DEF f, q
  <2>6. Puts(f, Start, q)
    BY <2>2, <2>3, <2>5 DEF Puts
  <2>7. Leg(e, 1, Start, q)
    BY <2>2, <2>3, <2>6, EntryLeg DEF q
  <2>8. e \in Entries /\ e.symbol = f
    <3>1. enc.rng \in Nat /\ enc.nbitsTotal \in Nat
      BY <1>2, OKTypes
    <3> QED BY <2>3, <3>1 DEF Entry, Entries
  <2> HIDE DEF e
  <2>9. IsPlace(q)
    BY <2>2, PlaceOfIs DEF q
  <2>10. <<>> \in Seq(Entries) /\ Len(<<>>) + 1 = 1 /\ Append(<<>>, e) = <<e>>
    BY <2>8
  <2>11. Reaches(<<e>>, q)
    BY <2>7, <2>8, <2>9, <2>10, ReachesNone, ReachesOn
  <2>12. Held(q, n)
    BY <2>1, <2>2, HeldFirst
  <2>13. sent[1] = e
    BY <2>1
  <2>14. Patchable(sent, q)
    BY <2>3, <2>8, <2>12, <2>13 DEF Patchable
  <2> QED BY <2>1, <2>2, <2>11, <2>14 DEF At, q
<1> QED BY <1>6, <1>7

\* One symbol more.
LEMMA WriteAt ==
  ASSUME NEW rc, EncoderOK(rc), ~Overfull(rc) => At(rc, sent), sent \in Seq(Entries),
         NEW s, Codable(s), NEW out, out = EncodeSymbol(rc, s), ~Overfull(out)
  PROVE  At(out, Append(sent, Entry(s, out)))
<1> DEFINE p == PlaceOf(rc)
           q == PlaceOf(out)
           e == Entry(s, out)
<1>1. s \in Symbol
  BY DEF Codable
<1>2. EncoderOK(out) /\ out.storage = rc.storage
  BY EncodeSymbolSteps DEF Stepped
<1>3. out.nbitsTotal >= rc.nbitsTotal
  BY EncodeSymbolGrows
<1>4. ~Overfull(rc)
  <2>1. rc.nbitsTotal \in Nat /\ out.nbitsTotal \in Nat
    BY <1>2, OKTypes
  <2> DEFINE x == CodeBits + SymBits * rc.storage
  <2>2. rc.storage \in Nat
    BY OKTypes, CoderTypes
  <2>3. x \in Nat
    <3>1. PICK y : y = SymBits * rc.storage
      OBVIOUS
    <3>2. y \in Nat /\ CodeBits \in Nat
      BY <2>2, <3>1, Scaled, Widths
    <3> QED BY <3>1, <3>2
  <2>4. ~(out.nbitsTotal > x)
    BY <1>2 DEF Overfull
  <2> HIDE DEF x
  <2>5. ~(rc.nbitsTotal > x)
    BY <1>3, <2>1, <2>3, <2>4
  <2> QED BY <2>5 DEF Overfull, x
<1>5. out.error = 0
  BY <1>2, NotOverfull
<1>6. EncoderAt(rc) /\ Reaches(sent, p) /\ Patchable(sent, p)
  BY <1>4 DEF At
<1>7. EncoderAt(out) /\ Puts(s, p, q)
  BY <1>5, <1>6, EncodeSymbolMoves
<1>8. IsPlace(q) /\ IsPlace(p)
  BY <1>6, <1>7, PlaceOfIs
<1>9. e \in Entries /\ e.symbol = s
  BY <1>1, <1>2, EntryIn DEF EncoderOK
<1>10. Leg(e, Len(sent) + 1, p, q)
  BY <1>7, EntryLeg
<1> HIDE DEF e, p, q
<1>11. Reaches(Append(sent, e), q)
  BY <1>6, <1>8, <1>9, <1>10, ReachesOn
<1>12. Patchable(Append(sent, e), q)
  <2> DEFINE new == Append(sent, e)
  <2>1. CASE sent = <<>>
    <3>1. new[1] = e
      BY <2>1
    <3>2. s.op # "flags"
      BY <1>1 DEF Symbol
    <3> QED BY <1>9, <3>1, <3>2 DEF Patchable
  <2>2. CASE sent # <<>>
    <3>1. new[1] = sent[1]
      BY <1>9, <2>2
    <3>2. sent[1] \in Entries
      BY <2>2
    <3>3. ASSUME sent[1].symbol.op = "flags", sent[1].symbol.value = 0 PROVE Held(q, sent[1].symbol.n)
      <4>1. sent[1].symbol.n \in 0..SymBits
        <5>1. sent[1].symbol \in Flags
          BY <3>2, <3>3 DEF Entries, Symbol
        <5>2. sent[1].symbol.n \in 1..SymBits
          BY <5>1 DEF Flags
        <5> QED BY <5>2
      <4>2. Held(p, sent[1].symbol.n)
        BY <1>6, <2>2, <3>3 DEF Patchable
      <4>3. 0 \in Nat
        OBVIOUS
      <4> QED BY <1>1, <1>7, <1>8, <4>1, <4>2, <4>3, PutsShifted
    <3> QED BY <3>1, <3>3 DEF Patchable
  <2> QED BY <2>1, <2>2
<1> QED BY <1>7, <1>11, <1>12 DEF At, e, q

\* Write keeps it.
LEMMA WriteWritten ==
  ASSUME IInv, Written, NEW s \in Alphabet, Write(s)
  PROVE  Written'
<1>1. /\ phase = "write" /\ phase' = "write" /\ enc' = EncodeSymbol(enc, s)
      /\ sent' = Append(sent, Entry(s, enc')) /\ got' = got
  BY DEF Write
<1>2. EncoderOK(enc) /\ sent \in Seq(Entries) /\ got = <<>> /\ (~Overfull(enc) => At(enc, sent))
  BY <1>1 DEF IInv, Written
<1>3. Codable(s)
  BY AlphabetCodable
<1>4. ~Overfull(enc') => At(enc', sent')
  BY <1>1, <1>2, <1>3, WriteAt
<1> QED BY <1>1, <1>2, <1>4 DEF Written

\* Shrink keeps it.
LEMMA ShrinkWritten ==
  ASSUME IInv, Written, NEW size \in Sizes, Shrink(size)
  PROVE  Written'
<1>1. /\ phase = "write" /\ phase' = "write" /\ enc' = ShrinkTo(enc, size) /\ sent' = sent /\ got' = got
      /\ enc.offs + enc.endOffs <= size /\ size < enc.storage
  BY DEF Shrink
<1>2. EncoderOK(enc) /\ got = <<>> /\ (~Overfull(enc) => At(enc, sent)) /\ size \in Nat
  BY <1>1, SizesPositive DEF IInv, Written
<1>3. ASSUME ~Overfull(enc') PROVE At(enc', sent')
  <2>1. enc'.storage = size /\ enc'.nbitsTotal = enc.nbitsTotal
    BY <1>1, <1>2 DEF ShrinkTo, EncoderOK, Coder, Records
  <2>2. ~Overfull(enc)
    <3> DEFINE x == SymBits * enc.storage
               y == SymBits * size
    <3>1. enc.storage \in Nat /\ enc.nbitsTotal \in Nat
      BY <1>2, OKTypes, CoderTypes
    <3>2. y <= x /\ y \in Nat /\ x \in Nat /\ CodeBits \in Nat
      <4>1. PICK s, z : s = enc.storage /\ z = size
        OBVIOUS
      <4>2. s \in Nat /\ z \in Nat /\ z <= s
        BY <1>1, <1>2, <3>1, <4>1
      <4>3. SymBits * z <= SymBits * s /\ SymBits * z \in Nat /\ SymBits * s \in Nat
        BY <4>2, Scaled
      <4> QED BY <4>1, <4>3, Widths
    <3>3. ~(enc.nbitsTotal > CodeBits + y)
      BY <1>3, <2>1 DEF Overfull
    <3> HIDE DEF x, y
    <3>4. ~(enc.nbitsTotal > CodeBits + x)
      BY <3>1, <3>2, <3>3
    <3> QED BY <3>4 DEF Overfull, x
  <2>3. EncoderAt(enc) /\ Reaches(sent, PlaceOf(enc)) /\ Patchable(sent, PlaceOf(enc))
    BY <1>2, <2>2 DEF At
  <2>4. EncoderAt(enc') /\ PlaceOf(enc') = PlaceOf(enc)
    BY <1>1, <1>2, <2>3, ShrinkMoves
  <2> QED BY <1>1, <2>3, <2>4 DEF At
<1> QED BY <1>1, <1>2, <1>3 DEF Written

\* Patch keeps it.
LEMMA PatchWritten ==
  ASSUME IInv, Written, NEW v \in 1..SymMax, Patch(v)
  PROVE  Written'
<1> DEFINE n == sent[1].symbol.n
           x == v * High(CodeTop, n)
<1>1. /\ phase = "write" /\ phase' = "write" /\ sent # <<>> /\ sent[1].symbol.op = "flags"
      /\ sent[1].symbol.value = 0 /\ v \in 1..Pow[n] - 1
      /\ enc' = PatchInitialBits(enc, v, n) /\ sent' = [sent EXCEPT ![1].symbol.value = v] /\ got' = got
  BY DEF Patch
<1>2. EncoderOK(enc) /\ got = <<>> /\ (~Overfull(enc) => At(enc, sent)) /\ FlagsAhead /\ sent \in Seq(Entries)
  BY <1>1 DEF IInv, Written
<1>3. n \in 1..SymBits
  BY <1>1, <1>2 DEF FlagsAhead
<1>4. ASSUME ~Overfull(enc') PROVE At(enc', sent')
  <2>1. enc'.storage = enc.storage /\ enc'.nbitsTotal = enc.nbitsTotal
    <3> HIDE DEF n
    <3> QED BY <1>1, <1>2 DEF PatchInitialBits, EncoderOK, Coder, Records
  <2>2. ~Overfull(enc)
    BY <1>4, <2>1 DEF Overfull
  <2>3. EncoderAt(enc) /\ Reaches(sent, PlaceOf(enc)) /\ Held(PlaceOf(enc), n)
    BY <1>1, <1>2, <2>2 DEF At, Patchable
  <2>4. EncoderAt(enc') /\ PlaceOf(enc') = Shifted(PlaceOf(enc), x)
    BY <1>1, <1>3, <2>3, PatchMoves
  <2>5. Reaches(sent', Shifted(PlaceOf(enc), x))
    BY <1>1, <1>2, <2>3, ReachesPatched
  <2>6. sent'[1].symbol.value = v
    <3>1. sent[1] \in Entries /\ 1 \in 1..Len(sent)
      BY <1>1, <1>2
    <3>2. sent[1].symbol \in Flags
      BY <1>1, <3>1 DEF Entries, Symbol
    <3> DEFINE e == [sent[1] EXCEPT !.symbol.value = v]
    <3>3. e.symbol.value = v
      BY <3>1, <3>2 DEF Entries, Flags
    <3>4. sent' = [sent EXCEPT ![1] = e]
      BY <1>1
    <3> HIDE DEF e, n
    <3>5. sent'[1] = e
      BY <1>1, <1>2, <3>1, <3>4
    <3> QED BY <3>3, <3>5
  <2>7. v # 0
    BY Widths DEF SymMax
  <2> QED BY <2>4, <2>5, <2>6, <2>7 DEF At, Patchable
<1> QED BY <1>1, <1>2, <1>4 DEF Written

-----------------------------------------------------------------------------
(* Readable: while it is read.                                              *)

\* A budget that tell() respects is not overfull.
LEMMA TellFits ==
  ASSUME NEW rc, EncoderOK(rc), Tell(rc) <= SymBits * rc.storage
  PROVE  ~Overfull(rc)
<1> DEFINE b == ILog(rc.rng)
           x == SymBits * rc.storage
<1>1. b \in 1..CodeBits
  BY FinalBitsAre
<1>2. rc.nbitsTotal \in Nat /\ rc.storage \in Nat /\ CodeBits \in Nat
  BY OKTypes, CoderTypes, Widths
<1>3. x \in Nat
  BY <1>2, Scaled
<1>4. rc.nbitsTotal - b <= x
  BY DEF Tell
<1> HIDE DEF x, b
<1>5. ~(rc.nbitsTotal > CodeBits + x)
  BY <1>1, <1>2, <1>3, <1>4
<1> QED BY <1>5 DEF Overfull, x

\* What the packet's bytes say of its end they say of every place before.
LEMMA TrailBack ==
  ASSUME NEW list \in Seq(Entries), NEW run, Trail(run, list), NEW D \in Stream, NEW B,
         Inside(D, run[Len(list)]), Agrees(B, run[Len(list)])
  PROVE  \A i \in 0..Len(list) : Inside(D, run[i]) /\ Agrees(B, run[i])
<1> DEFINE n == Len(list)
           Good(i) == Inside(D, run[i]) /\ Agrees(B, run[i])
           T == {k \in Nat : Good(n - k)}
<1>1. n \in Nat /\ Good(n)
  OBVIOUS
<1>2. /\ \A i \in 0..n : IsPlace(run[i])
      /\ \A i \in 1..n : Leg(list[i], i, run[i - 1], run[i])
  BY DEF Trail
<1>2a. \A i \in 1..n : list[i] \in Entries
  OBVIOUS
<1> HIDE DEF n
<1>3. 0 \in T
  <2>1. n - 0 = n
    BY <1>1
  <2> HIDE DEF Good
  <2> QED BY <1>1, <2>1
<1>4. ASSUME NEW k \in 0..n - 1, k \in T PROVE k + 1 \in T
  <2> DEFINE i == n - k
  <2>1. i \in 1..n /\ i \in 0..n /\ i - 1 \in 0..n /\ n - (k + 1) = i - 1 /\ k \in Nat
    BY <1>1
  <2>2. Good(i)
    <3> HIDE DEF Good
    <3> QED BY <1>4
  <2> HIDE DEF i
  <2>3. IsPlace(run[i - 1]) /\ IsPlace(run[i]) /\ Puts(list[i].symbol, run[i - 1], run[i])
    BY <1>2, <2>1 DEF Leg
  <2>4. list[i].symbol \in Symbol \cup Flags
    BY <1>2a, <2>1 DEF Entries
  <2>5. Inside(D, run[i - 1]) /\ Agrees(B, run[i - 1])
    BY <2>2, <2>3, <2>4, PutsBack
  <2>6. Good(i - 1)
    BY <2>5
  <2> HIDE DEF Good
  <2> QED BY <2>1, <2>6
<1>5. 0..n \subseteq T
  <2> HIDE DEF T
  <2> QED BY <1>1, <1>3, <1>4, InductionTo
<1>6. ASSUME NEW i \in 0..n PROVE Good(i)
  <2>1. n - i \in 0..n /\ n - (n - i) = i
    BY <1>1
  <2>2. n - i \in T
    <3> HIDE DEF T
    <3> QED BY <1>5, <2>1
  <2> HIDE DEF Good
  <2> QED BY <2>1, <2>2
<1> QED BY <1>6 DEF n

\* A decoder that has read the values of list's first entries and goes on
\* from the place the encoder was at there.
ReadSoFar(d, list, vals) ==
  \E run : \E D \in ByteStream, B \in ByteStream :
    /\ Trail(run, list) /\ Inside(D, run[Len(list)]) /\ Agrees(B, run[Len(list)])
    /\ Following(d, D, B, run[Len(vals)])
    /\ vals \in Seq(Nat) /\ Len(vals) <= Len(list)
    /\ \A i \in 1..Len(vals) : vals[i] = list[i].symbol.value

\* Every packet within the budget is read like that, unless the decoder jumped.
Readable ==
  phase = "read" => sent \in Seq(Entries) /\ (Fits /\ ~jumped => ReadSoFar(dec, sent, got))

\* The next symbol returns.
LEMMA ReadOn ==
  ASSUME NEW list \in Seq(Entries), NEW d, NEW vals, ReadSoFar(d, list, vals), Len(vals) + 1 <= Len(list),
         NEW out, out = DecodeSymbol(d, list[Len(vals) + 1].symbol)
  PROVE  ReadSoFar(out.rc, list, Append(vals, out.value))
<1>0. PICK run : \E D \in ByteStream, B \in ByteStream :
         /\ Trail(run, list) /\ Inside(D, run[Len(list)]) /\ Agrees(B, run[Len(list)])
         /\ Following(d, D, B, run[Len(vals)])
         /\ vals \in Seq(Nat) /\ Len(vals) <= Len(list)
         /\ \A i \in 1..Len(vals) : vals[i] = list[i].symbol.value
  BY Zenon DEF ReadSoFar
<1>1. PICK D \in ByteStream, B \in ByteStream :
         /\ Trail(run, list) /\ Inside(D, run[Len(list)]) /\ Agrees(B, run[Len(list)])
         /\ Following(d, D, B, run[Len(vals)])
         /\ vals \in Seq(Nat) /\ Len(vals) <= Len(list)
         /\ \A i \in 1..Len(vals) : vals[i] = list[i].symbol.value
  BY <1>0
<1> DEFINE m == Len(vals)
           i == m + 1
           s == list[i].symbol
           new == Append(vals, out.value)
<1>2. m \in Nat /\ i \in 1..Len(list) /\ i - 1 = m /\ i \in 0..Len(list) /\ m \in 0..Len(list)
  BY <1>1
<1>3. D \in Stream /\ D \in ByteStream /\ B \in ByteStream
  <2>1. 0..SymMax \subseteq Nat
    OBVIOUS
  <2> QED BY <2>1 DEF Stream, ByteStream
<1>4. Inside(D, run[i]) /\ Agrees(B, run[i])
  BY <1>1, <1>2, <1>3, TrailBack
<1>5. IsPlace(run[m]) /\ IsPlace(run[i]) /\ Leg(list[i], i, run[i - 1], run[i]) /\ run[0] = Start
  BY <1>1, <1>2 DEF Trail
<1>6. Puts(s, run[m], run[i]) /\ (Codable(s) \/ (i = 1 /\ s \in Flags))
  BY <1>2, <1>5 DEF Leg
<1>7. Codable(s) \/ (s \in Flags /\ run[m] = Start)
  <2>1. i = 1 => m = 0
    BY <1>2
  <2> QED BY <1>5, <1>6, <2>1
<1>8. Following(d, D, B, run[m]) /\ out = DecodeSymbol(d, s)
  BY <1>1
<1>9. out.value = s.value /\ Following(out.rc, D, B, run[i])
  <2> HIDE DEF m, s, i
  <2> QED BY <1>3, <1>4, <1>5, <1>6, <1>7, <1>8, DecodeSymbolFollows
<1>10. s.value \in Nat
  <2>1. list[i] \in Entries
    BY <1>2
  <2>2. s \in Symbol \cup Flags
    BY <2>1 DEF Entries
  <2> HIDE DEF s
  <2> QED BY <2>2 DEF Symbol, Flags
<1>11. new \in Seq(Nat) /\ Len(new) = i /\ new[i] = s.value /\ \A j \in 1..m : new[j] = vals[j]
  <2> HIDE DEF s
  <2> QED BY <1>1, <1>9, <1>10
<1>12. \A j \in 1..i : new[j] = list[j].symbol.value
  <2>1. \A j \in 1..i : j = i \/ j \in 1..m
    BY <1>2
  <2> HIDE DEF new
  <2> QED BY <1>1, <1>11, <2>1
<1>13. Following(out.rc, D, B, run[Len(new)]) /\ Len(new) <= Len(list)
  BY <1>2, <1>9, <1>11
<1>14. \A j \in 1..Len(new) : new[j] = list[j].symbol.value
  BY <1>11, <1>12
<1> HIDE DEF new
<1>15. Trail(run, list) /\ Inside(D, run[Len(list)]) /\ Agrees(B, run[Len(list)]) /\ new \in Seq(Nat)
  BY <1>1, <1>11
<1>16. ReadSoFar(out.rc, list, new)
  BY <1>13, <1>14, <1>15, <1>3, Zenon DEF ReadSoFar
<1> QED BY <1>16 DEF new

\* Read keeps it.
LEMMA ReadReadable ==
  ASSUME Readable, Read
  PROVE  Readable'
<1>1. /\ phase = "read" /\ phase' = "read" /\ Len(got) + 1 <= Len(sent) /\ sent' = sent
      /\ dec' = DecodeSymbol(dec, sent[Len(got) + 1].symbol).rc
      /\ got' = Append(got, DecodeSymbol(dec, sent[Len(got) + 1].symbol).value)
      /\ bits' = bits /\ enc' = enc /\ jumped' = jumped
  BY DEF Read
<1>2. sent \in Seq(Entries) /\ (Fits /\ ~jumped => ReadSoFar(dec, sent, got))
  BY <1>1 DEF Readable
<1>3. ASSUME Fits', ~jumped' PROVE ReadSoFar(dec', sent', got')
  <2>1. Fits /\ ~jumped
    BY <1>1, <1>3 DEF Fits
  <2>2. ReadSoFar(dec, sent, got)
    BY <1>2, <2>1
  <2> QED BY <1>1, <1>2, <2>2, ReadOn
<1> QED BY <1>1, <1>2, <1>3 DEF Readable

\* A decoder of a packet's bytes, before it has read any.
LEMMA FreshReads ==
  ASSUME NEW list \in Seq(Entries), NEW rc \in Coder, \A i \in DOMAIN rc.buf : rc.buf[i] \in 0..SymMax,
         NEW p, Reaches(list, p), NEW n \in 0..rc.storage,
         Inside(FirstBytes(rc.buf, n), p), Agrees(LastBytesOf(rc.buf, n), p)
  PROVE  ReadSoFar(NewDecoder(rc.buf, n), list, <<>>)
<1> DEFINE D == FirstBytes(rc.buf, n)
           B == LastBytesOf(rc.buf, n)
           d == NewDecoder(rc.buf, n)
<1>1. PICK run : Trail(run, list) /\ run[Len(list)] = p
  BY DEF Reaches
<1>2. D \in ByteStream /\ B \in ByteStream /\ Following(d, D, B, Start)
  BY NewDecoderFollows
<1>3. Inside(D, p) /\ Agrees(B, p)
  OBVIOUS
<1> HIDE DEF D, B, d
<1>3a. PICK vals : vals = <<>>
  OBVIOUS
<1>4. vals \in Seq(Nat) /\ Len(vals) = 0 /\ Len(vals) <= Len(list) /\ run[0] = Start
  BY <1>1, <1>3a DEF Trail
<1>5. Following(d, D, B, run[Len(vals)])
  BY <1>2, <1>4
<1>6. \A i \in 1..Len(vals) : vals[i] = list[i].symbol.value
  BY <1>4
<1>7. Trail(run, list) /\ Inside(D, run[Len(list)]) /\ Agrees(B, run[Len(list)])
  BY <1>1, <1>3
<1>7a. PICK E, C, c : E = D /\ C = B /\ c = d
  OBVIOUS
<1>7b. E \in ByteStream /\ C \in ByteStream /\ Len(vals) <= Len(list) /\ vals \in Seq(Nat)
       /\ Inside(E, run[Len(list)]) /\ Agrees(C, run[Len(list)]) /\ Following(c, E, C, run[Len(vals)])
  BY <1>2, <1>4, <1>5, <1>7, <1>7a
<1>7c. ReadSoFar(c, list, vals)
  BY ONLY <1>6, <1>7, <1>7b, ZenonT(60) DEF ReadSoFar
<1>8. ReadSoFar(d, list, vals)
  BY <1>7a, <1>7c
<1> QED BY <1>3a, <1>8 DEF d

\* The aligned encoder of the padding has a number of bits.
LEMMA AlignedBits ==
  ASSUME NEW rc, EncoderOK(rc)
  PROVE  PadBytes(rc, SymBits * rc.storage).aligned.nendBits \in Nat
<1> DEFINE target == SymBits * rc.storage
           partial == (SymBits - (rc.nendBits % SymBits)) % SymBits
           r == PadBytes(rc, target).aligned
<1>1. rc \in Coder /\ rc.nendBits \in Nat /\ rc.nendBits <= CodeBits /\ Accounted(rc)
  BY OKTypes, CoderTypes DEF EncoderOK, Accounted
<1>2. SymBits \in Nat \ {0} /\ SymBits <= CodeBits - SymBits + 1 /\ CodeBits \in Nat
  BY Widths
<1>3. partial \in 0..CodeBits - SymBits + 1
  <2>1. rc.nendBits % SymBits \in 0..SymBits - 1
    BY <1>1, <1>2
  <2> DEFINE x == rc.nendBits % SymBits
  <2> HIDE DEF x
  <2>2. SymBits - x \in Nat
    BY <1>2, <2>1 DEF x
  <2>3. (SymBits - x) % SymBits \in 0..SymBits - 1
    BY <1>2, <2>2
  <2>4. (SymBits - x) % SymBits \in 0..CodeBits - SymBits + 1
    BY <1>2, <2>3
  <2> QED BY <2>4 DEF x
<1>4. r = rc \/ r = EncBits(rc, 0, partial)
  BY DEF PadBytes
<1> HIDE DEF partial, r
<1>5. EncBits(rc, 0, partial) \in Coder
  BY <1>1, <1>3, EncBitsIs DEF Rawed
<1>6. r \in Coder
  BY <1>1, <1>4, <1>5
<1> QED BY <1>6, CoderTypes DEF r

\* What done() made of an encoder is read from the start.
LEMMA DoneReads ==
  ASSUME NEW rc, EncoderOK(rc), EncoderAt(rc), Tell(rc) <= SymBits * rc.storage,
         NEW list \in Seq(Entries), NEW p, Reaches(list, p), p.raw \in Nat, Padded(p, PlaceOf(rc)) \/ p = PlaceOf(rc)
  PROVE  ReadSoFar(NewDecoder(Done(rc).buf, Done(rc).storage), list, <<>>)
<1> DEFINE out == Done(rc)
           q == PlaceOf(rc)
           n == out.storage
           D == FrontOf(out)
           B == BackOf(out)
<1>1. out \in Coder /\ (\A i \in DOMAIN out.buf : out.buf[i] \in 0..SymMax) /\ Inside(D, q) /\ Agrees(B, q)
  BY DoneBetween DEF Inside
<1>1a. q = PlaceOf(rc)
  OBVIOUS
<1> HIDE DEF out, q
<1>2. n \in Nat /\ n \in 0..out.storage
  BY <1>1, CoderTypes
<1>3. FirstBytes(out.buf, n) = D /\ LastBytesOf(out.buf, n) = B
  BY Zenon DEF FirstBytes, LastBytesOf, FrontOf, BackOf
<1>4. Inside(D, p) /\ Agrees(B, p)
  <2>1. CASE p = q
    BY <1>1, <2>1
  <2>2. CASE Padded(p, q)
    <3> HIDE DEF D, B
    <3> QED BY <1>1, <2>2, PaddedBack
  <2> QED BY <1>1a, <2>1, <2>2
<1> HIDE DEF D, B
<1>5. Inside(FirstBytes(out.buf, n), p) /\ Agrees(LastBytesOf(out.buf, n), p)
  BY <1>3, <1>4
<1>6. ReadSoFar(NewDecoder(out.buf, n), list, <<>>)
  BY <1>1, <1>2, <1>5, FreshReads
<1> QED BY <1>6 DEF out

\* Finish establishes it.
LEMMA FinishReadable ==
  ASSUME IInv, Written, NEW pads \in BOOLEAN, Finish(pads)
  PROVE  Readable'
<1> DEFINE target == SymBits * enc.storage
           pb == PadBytes(enc, target)
           padded == IF pads THEN PadToBits(enc, target) ELSE enc
<1>1. /\ phase = "write" /\ phase' = "read" /\ enc' = Done(padded) /\ bits' = Tell(padded)
      /\ jumped' = (pads /\ target > enc.nbitsTotal /\ pb.bytes > 0 /\ pb.aligned.nendBits > 0)
      /\ dec' = NewDecoder(enc'.buf, enc'.storage) /\ sent' = sent /\ got' = got
  BY DEF Finish
<1>2. EncoderOK(enc) /\ sent \in Seq(Entries) /\ got = <<>> /\ (~Overfull(enc) => At(enc, sent))
  BY <1>1 DEF IInv, Written
<1>3. EncoderOK(padded)
  BY <1>2, PadToBitsIs
<1>4. SUFFICES ASSUME Fits', ~jumped' PROVE ReadSoFar(dec', sent, <<>>)
  BY <1>1, <1>2 DEF Readable
<1>5. Done(padded).storage = padded.storage
  <2> HIDE DEF padded
  <2> QED BY <1>3, DoneIs
<1>6. Tell(padded) <= SymBits * padded.storage
  <2> HIDE DEF padded
  <2> QED BY <1>1, <1>4, <1>5 DEF Fits
<1>7. padded.error = 0 /\ ~Overfull(padded)
  <2> HIDE DEF padded
  <2> QED BY <1>3, <1>6, TellFits, NotOverfull
<1>8. enc.storage \in Nat /\ enc.nbitsTotal \in Nat
  BY <1>2, OKTypes, CoderTypes
<1>9. target \in Nat /\ CodeBits \in Nat
  <2>1. PICK s : s = enc.storage
    OBVIOUS
  <2>2. SymBits * s \in Nat
    BY <1>8, <2>1, Scaled
  <2> QED BY <2>1, <2>2, Widths
<1>10. /\ EncoderAt(padded) /\ Reaches(sent, PlaceOf(enc)) /\ EncoderAt(enc)
       /\ (Padded(PlaceOf(enc), PlaceOf(padded)) \/ PlaceOf(enc) = PlaceOf(padded))
  <2>1. CASE ~pads \/ target <= enc.nbitsTotal
    <3>1. padded = enc
      <4>1. PadToBits(enc, target) = enc \/ ~pads
        BY <2>1, Zenon DEF PadToBits
      <4> QED BY <4>1
    <3>2. At(enc, sent)
      BY <1>2, <1>7, <3>1
    <3> QED BY <3>1, <3>2 DEF At
  <2>2. CASE pads /\ ~(target <= enc.nbitsTotal)
    <3>1. target > enc.nbitsTotal /\ ~(enc.nbitsTotal > CodeBits + target)
      <4> HIDE DEF target
      <4> QED BY <1>8, <1>9, <2>2
    <3>2. At(enc, sent)
      BY <1>2, <3>1 DEF Overfull
    <3>3. EncoderAt(enc) /\ Reaches(sent, PlaceOf(enc))
      BY <3>2 DEF At
    <3>4. pb.bytes > 0 => pb.aligned.nendBits = 0
      <4>1. pb.aligned.nendBits \in Nat
        BY <1>2, AlignedBits
      <4> HIDE DEF pb, target
      <4>2. ~(pb.bytes > 0 /\ pb.aligned.nendBits > 0)
        BY <1>1, <1>4, <2>2, <3>1
      <4> QED BY <4>1, <4>2
    <3>5. PadToBits(enc, target).error = 0 /\ padded = PadToBits(enc, target)
      BY <1>7, <2>2
    <3>6. EncoderAt(PadToBits(enc, target)) /\ Padded(PlaceOf(enc), PlaceOf(PadToBits(enc, target)))
      BY <1>2, <3>1, <3>3, <3>4, <3>5, PadMoves
    <3> QED BY <3>3, <3>5, <3>6
  <2> QED BY <2>1, <2>2
<1>11. PlaceOf(enc).raw \in Nat
  BY <1>10, PlaceOfIs DEF IsPlace, Place
<1> HIDE DEF padded
<1>12. ReadSoFar(NewDecoder(Done(padded).buf, Done(padded).storage), sent, <<>>)
  BY <1>2, <1>3, <1>6, <1>10, <1>11, DoneReads
<1> QED BY <1>1, <1>12

\* Without raw bits, what follows the code's bytes is zeros.
LEMMA DoneGap ==
  ASSUME NEW rc, EncoderOK(rc), EncoderAt(rc), rc.nendBits = 0, rc.endOffs = 0, Tell(rc) <= SymBits * rc.storage
  PROVE  \A i \in 0..rc.storage - 1 : i >= Pending(rc) + Bytes(FinalBits(rc).l) => Done(rc).buf[i] = 0
<1> DEFINE l == FinalBits(rc).l
           spare == SymBits * Bytes(l) - l
           flushed == FlushWindow(FrontDone(rc))
           used == flushed.nendBits
           r == [flushed EXCEPT !.endWindow = rc.endWindow, !.nendBits = rc.nendBits]
           f == [i \in DOMAIN r.buf |-> IF i \in r.offs..r.storage - r.endOffs - 1 THEN 0 ELSE r.buf[i]]
           gap == [r EXCEPT !.buf = f]
           busted == ~Room(r) /\ spare < used
           window == IF busted THEN Low(flushed.endWindow, spare) ELSE flushed.endWindow
           g1 == r.error # 0
           g2 == r.error = 0 /\ used = 0
           g3 == r.error = 0 /\ used > 0 /\ r.endOffs >= r.storage
           w3 == [gap EXCEPT !.error = -1]
           w4 == [gap EXCEPT !.buf[r.storage - r.endOffs - 1] = @ + window,
                             !.error = IF busted THEN -1 ELSE @]
           out == Done(rc)
<1>1. out = CASE g1 -> r [] g2 -> gap [] g3 -> w3 [] OTHER -> w4
  BY Zenon DEF Done
<1>2. flushed.error = 0 /\ flushed \in Coder
  BY DoneBytes
<1>3. /\ flushed.offs = Pending(rc) + Bytes(l) /\ flushed.storage = rc.storage /\ EndBits(flushed) = EndBits(rc)
  BY <1>2, FlushedFront
<1>4. used = 0 /\ flushed.endOffs = 0
  <2>1. EndBits(rc) = 0
    <3>1. SymBits * 0 = 0
      BY Widths
    <3> QED BY <3>1 DEF EndBits
  <2>2. flushed.endOffs \in Nat /\ used \in Nat
    BY <1>2, CoderTypes
  <2>3. \A a \in Nat, b \in Nat, s \in Nat \ {0} : s * a + b = 0 => a = 0 /\ b = 0
    <3>1. ASSUME NEW a \in Nat, NEW b \in Nat, NEW s \in Nat \ {0}, s * a + b = 0 PROVE a = 0 /\ b = 0
      <4>1. s * a \in Nat
        OBVIOUS
      <4>2. b = 0 /\ s * a = 0
        BY <3>1, <4>1
      <4>3. a > 0 => s * a > 0
        OBVIOUS
      <4> QED BY <4>2, <4>3
    <3> QED BY <3>1
  <2>4. SymBits * flushed.endOffs + used = 0
    BY <1>3, <2>1 DEF EndBits
  <2>5. SymBits \in Nat \ {0}
    BY Widths
  <2> HIDE DEF flushed, used
  <2> QED BY <2>2, <2>3, <2>4, <2>5
<1> HIDE DEF out, flushed, spare
<1>6. /\ r.storage = flushed.storage /\ r.offs = flushed.offs /\ r.endOffs = flushed.endOffs /\ r.error = flushed.error
      /\ r.buf = flushed.buf /\ gap.buf = f
  BY <1>2 DEF Coder, Records
<1>7. flushed.storage \in Nat /\ flushed.offs \in Nat
  BY <1>2, CoderTypes
<1>8. ~g1 /\ g2
  BY <1>2, <1>4, <1>6
<1>8a. g3 => FALSE
  BY <1>4
<1>9. out = gap
  <2> HIDE DEF g1, g2, g3, gap, w3, w4, r
  <2> QED BY <1>1, <1>8, <1>8a
<1> HIDE DEF gap, r
<1>10. ASSUME NEW i \in 0..flushed.storage - 1, i >= flushed.offs PROVE out.buf[i] = 0
  <2>1. i \in DOMAIN r.buf
    BY <1>2, <1>6 DEF Coder, Holds
  <2>2. i \in r.offs..r.storage - r.endOffs - 1
    BY <1>4, <1>6, <1>7, <1>10
  <2>3. f[i] = 0
    BY <2>1, <2>2
  <2> QED BY <1>6, <1>9, <2>3
<1> QED BY <1>3, <1>10 DEF out

\* The bytes tell() counts hold all of the code's.
LEMMA TellBytes ==
  ASSUME NEW rc, EncoderOK(rc), EncoderAt(rc), rc.nendBits = 0, rc.endOffs = 0
  PROVE  /\ Pending(rc) + Bytes(FinalBits(rc).l) <= Bytes(Tell(rc))
         /\ Bytes(Tell(rc)) \in Nat /\ Pending(rc) + Bytes(FinalBits(rc).l) \in Nat
<1> DEFINE l == FinalBits(rc).l
           P == Pending(rc)
           b == ILog(rc.rng)
           t == Tell(rc)
<1>1. l \in 0..CodeBits - 1 /\ l <= CodeBits - b + 1 /\ b \in 1..CodeBits
  BY FinalCode
<1>2. P \in Nat /\ CodeBits \in Nat /\ SymBits \in Nat \ {0}
  BY OKTypes, CoderTypes, Widths
<1>3. t = CodeBits + 1 + SymBits * P - b
  <2>1. EndBits(rc) = 0
    <3>1. SymBits * 0 = 0
      BY Widths
    <3> QED BY <3>1 DEF EndBits
  <2>2. rc.nbitsTotal = CodeBits + 1 + SymBits * P
    <3>1. PICK y : y = SymBits * P
      OBVIOUS
    <3>2. y \in Nat
      BY <1>2, <3>1
    <3>3. rc.nbitsTotal = CodeBits + 1 + y + 0
      BY <2>1, <3>1 DEF EncoderAt
    <3> QED BY <1>2, <3>1, <3>2, <3>3
  <2>3. t = rc.nbitsTotal - b
    BY DEF Tell
  <2> HIDE DEF t, b, P
  <2>4. PICK y : y = SymBits * P
    OBVIOUS
  <2>5. y \in Nat /\ b \in Nat
    BY <1>1, <1>2, <2>4
  <2>6. rc.nbitsTotal = CodeBits + 1 + y /\ t = rc.nbitsTotal - b
    BY <2>2, <2>3, <2>4
  <2>7. t = CodeBits + 1 + y - b
    BY <1>2, <2>5, <2>6
  <2> QED BY <2>4, <2>7
<1> HIDE DEF l, P, b, t
<1>4. PICK y : y = SymBits * P
  OBVIOUS
<1>5. y \in Nat /\ t = CodeBits + 1 + y - b
  BY <1>2, <1>3, <1>4
<1>6. t \in Nat /\ l \in Nat /\ y + l <= t
  BY <1>1, <1>2, <1>5
<1>7. /\ Bytes(t) \in Nat /\ SymBits * Bytes(t) >= t
      /\ Bytes(l) \in Nat /\ SymBits * Bytes(l) < l + SymBits
  BY <1>6, BytesHold
<1>8. PICK m, k : m = Bytes(t) /\ k = Bytes(l)
  OBVIOUS
<1>9. m \in Nat /\ k \in Nat /\ SymBits * m >= t /\ SymBits * k < l + SymBits
  BY <1>7, <1>8
<1>10. P + k <= m
  <2>1. SymBits * (P + k) = y + SymBits * k /\ SymBits * k \in Nat /\ SymBits * m \in Nat
    BY <1>2, <1>4, <1>9
  <2>2. PICK u, w : u = SymBits * k /\ w = SymBits * m
    OBVIOUS
  <2>3. y + u < w + SymBits
    BY <1>2, <1>5, <1>6, <1>9, <2>1, <2>2
  <2>4. SymBits * (P + k) < SymBits * m + SymBits
    BY <2>1, <2>2, <2>3
  <2>5. P + k \in Nat
    BY <1>2, <1>9
  <2> QED BY <1>9, <2>4, <2>5, Scaled
<1>11. P + k \in Nat
  BY <1>2, <1>9
<1> QED BY <1>8, <1>9, <1>10, <1>11 DEF l, P, t

\* What is cut is zeros.
LEMMA TrimmedIs ==
  ASSUME NEW rc \in Coder, NEW n \in Nat
  PROVE  LET k == TrimmedSize(rc, n)
         IN  k \in 0..rc.storage /\ \A i \in 0..rc.storage - 1 : i >= k /\ i < n => rc.buf[i] = 0
<1> DEFINE most == IF n < rc.storage THEN n ELSE rc.storage
           ends == {k \in 2..most : k > 2 => rc.buf[k - 1] # 0}
           Last(k) == k \in ends /\ \A j \in ends : j <= k
           k0 == TrimmedSize(rc, n)
<1>1. rc.storage \in Nat /\ most \in Nat /\ most <= rc.storage /\ (most = n \/ most = rc.storage)
  BY CoderTypes
<1>2. k0 = IF most <= 2 THEN most ELSE CHOOSE k \in ends : \A j \in ends : j <= k
  BY DEF TrimmedSize
<1> HIDE DEF k0, most
<1>3. CASE most <= 2
  <2>1. k0 = most
    BY <1>2, <1>3
  <2>2. \A i \in 0..rc.storage - 1 : ~(i >= most /\ i < n)
    BY <1>1
  <2> QED BY <1>1, <2>1, <2>2 DEF k0
<1>4. CASE ~(most <= 2)
  <2> DEFINE T == {i \in Nat : \E k \in ends : \A j \in ends : j <= i + 2 => j <= k}
  <2>1. 2 \in ends /\ \A j \in ends : j \in 2..most
    BY <1>1, <1>4
  <2>2. 0 \in T
    <3>1. \A j \in ends : j <= 0 + 2 => j <= 2
      BY <2>1
    <3> HIDE DEF ends
    <3> QED BY <2>1, <3>1
  <2>3. ASSUME NEW i \in T PROVE i + 1 \in T
    <3>1. PICK k \in ends : \A j \in ends : j <= i + 2 => j <= k
      BY <2>3
    <3>2. i \in Nat
      BY <2>3
    <3>3. CASE (i + 1) + 2 \in ends
      <4>1. \A j \in ends : j <= (i + 1) + 2 => j <= (i + 1) + 2
        OBVIOUS
      <4> HIDE DEF ends
      <4> QED BY <3>2, <3>3, <4>1
    <3>4. CASE (i + 1) + 2 \notin ends
      <4>1. ASSUME NEW j \in ends, j <= (i + 1) + 2 PROVE j <= k
        <5>1. j \in Nat /\ j # (i + 1) + 2
          BY <1>1, <2>1, <3>4, <4>1
        <5>2. j <= i + 2
          BY <3>2, <4>1, <5>1
        <5> QED BY <3>1, <5>2
      <4> HIDE DEF ends
      <4> QED BY <3>2, <4>1
    <3> QED BY <3>3, <3>4
  <2>4. T = Nat
    <3> HIDE DEF ends
    <3>1. T \subseteq Nat
      OBVIOUS
    <3> HIDE DEF T
    <3> QED BY <2>2, <2>3, <3>1, Induction
  <2>5. \E k \in ends : \A j \in ends : j <= k
    <3>1. most \in T
      <4> HIDE DEF T
      <4> QED BY <1>1, <2>4
    <3>2. PICK k \in ends : \A j \in ends : j <= most + 2 => j <= k
      BY <3>1
    <3>3. \A j \in ends : j <= most + 2
      BY <1>1, <2>1
    <3> HIDE DEF ends
    <3> QED BY <3>2, <3>3
  <2>6. k0 = CHOOSE k \in ends : \A j \in ends : j <= k
    BY <1>2, <1>4
  <2>7. k0 \in ends /\ \A j \in ends : j <= k0
    <3> HIDE DEF ends
    <3> QED BY <2>5, <2>6
  <2>8. k0 \in 2..most
    BY <2>1, <2>7
  <2>9. ASSUME NEW i \in 0..rc.storage - 1, i >= k0, i < n PROVE rc.buf[i] = 0
    <3>1. i + 1 \in 2..most /\ i + 1 > 2 /\ ~(i + 1 <= k0) /\ (i + 1) - 1 = i
      BY <1>1, <2>8, <2>9
    <3>2. i + 1 \notin ends
      BY <2>7, <3>1
    <3>3. ~(rc.buf[(i + 1) - 1] # 0)
      BY <3>1, <3>2
    <3> QED BY <3>1, <3>3
  <2>10. k0 \in 0..rc.storage
    BY <1>1, <2>8
  <2> QED BY <2>9, <2>10 DEF k0
<1> QED BY <1>3, <1>4

\* So does FinishTrimmed: the zeros that it cuts off are read as zeros.
LEMMA FinishTrimmedReadable ==
  ASSUME IInv, Written, FinishTrimmed
  PROVE  Readable'
<1> DEFINE out == Done(enc)
           m == Bytes(Tell(enc))
           k == TrimmedSize(out, m)
           p == PlaceOf(enc)
           D == FirstBytes(out.buf, k)
           B == LastBytesOf(out.buf, k)
<1>1. /\ phase = "write" /\ phase' = "read" /\ enc' = out /\ bits' = Tell(enc) /\ enc.nendBits = 0 /\ enc.endOffs = 0
      /\ dec' = NewDecoder(out.buf, k) /\ sent' = sent /\ got' = got
  BY DEF FinishTrimmed
<1>2. EncoderOK(enc) /\ sent \in Seq(Entries) /\ got = <<>> /\ (~Overfull(enc) => At(enc, sent))
  BY <1>1 DEF IInv, Written
<1>3. SUFFICES ASSUME Fits' PROVE ReadSoFar(dec', sent, <<>>)
  BY <1>1, <1>2 DEF Readable
<1>4. out.storage = enc.storage
  BY <1>2, DoneIs
<1>5. Tell(enc) <= SymBits * enc.storage
  <2> HIDE DEF out
  <2> QED BY <1>1, <1>3, <1>4 DEF Fits
<1>6. ~Overfull(enc)
  BY <1>2, <1>5, TellFits
<1>7. EncoderAt(enc) /\ Reaches(sent, p)
  BY <1>2, <1>6 DEF At
<1>8. out \in Coder /\ (\A i \in DOMAIN out.buf : out.buf[i] \in 0..SymMax) /\ Inside(FrontOf(out), p)
  BY <1>2, <1>5, <1>7, DoneBetween DEF Inside
<1>9. /\ \A i \in 0..enc.storage - 1 : i >= Pending(enc) + Bytes(FinalBits(enc).l) => out.buf[i] = 0
      /\ Pending(enc) + Bytes(FinalBits(enc).l) <= m /\ m \in Nat /\ Pending(enc) + Bytes(FinalBits(enc).l) \in Nat
  BY <1>1, <1>2, <1>5, <1>7, DoneGap, TellBytes
<1> HIDE DEF out, m, p
<1>10. k \in 0..out.storage /\ \A i \in 0..out.storage - 1 : i >= k /\ i < m => out.buf[i] = 0
  BY <1>8, <1>9, TrimmedIs
<1> HIDE DEF k
<1>11. out.storage \in Nat
  BY <1>8, CoderTypes
<1>12. D = FrontOf(out)
  <2>1. ASSUME NEW i \in Nat
        PROVE (IF i < k THEN out.buf[i] ELSE 0) = (IF i < out.storage THEN out.buf[i] ELSE 0)
    <3>1. CASE i < k
      <4>1. i < out.storage
        BY <1>10, <1>11, <3>1
      <4> QED BY <3>1, <4>1
    <3>2. CASE ~(i < k) /\ i < out.storage
      <4>1. i \in 0..out.storage - 1 /\ i >= k
        BY <1>10, <1>11, <3>2
      <4>2. out.buf[i] = 0
        <5>1. CASE i < m
          BY <1>10, <4>1, <5>1
        <5>2. CASE ~(i < m)
          <6>1. i >= Pending(enc) + Bytes(FinalBits(enc).l)
            BY <1>9, <5>2
          <6> QED BY <1>4, <1>9, <4>1, <6>1
        <5> QED BY <5>1, <5>2
      <4> QED BY <3>2, <4>2
    <3>3. CASE ~(i < k) /\ ~(i < out.storage)
      BY <3>3
    <3> QED BY <3>1, <3>2, <3>3
  <2> QED BY <2>1, Zenon DEF FirstBytes, FrontOf
<1>13. Agrees(B, p)
  <2>1. p.rawBits = 0 /\ p.raw = 0
    <3>1. p.rawBits = EndBits(enc)
      BY DEF p, PlaceOf
    <3>2. EndBits(enc) = 0
      <4>1. SymBits * 0 = 0
        BY Widths
      <4> QED BY <1>1, <4>1 DEF EndBits
    <3>3. p.raw \in Nat /\ p.raw < Power[p.rawBits]
      BY <1>7, PlaceOfIs DEF IsPlace, Place, p
    <3> QED BY <3>1, <3>2, <3>3, PowerStep
  <2>2. B \in ByteStream
    BY <1>8, <1>10, NewDecoderFollows
  <2> HIDE DEF B
  <2>3. EndDigits(B)[0] = 0
    <3>1. B \in Stream
      <4>1. 0..SymMax \subseteq Nat
        OBVIOUS
      <4> QED BY <2>2, <4>1 DEF Stream, ByteStream
    <3> QED BY <3>1, EndDigitsAre
  <2>4. SymBits * 0 >= p.rawBits /\ EndDigits(B)[0] = p.raw + Power[p.rawBits] * 0 /\ 0 \in Nat
    BY <2>1, <2>3, PowerStep, Widths
  <2> QED BY <2>4 DEF Agrees
<1>14. Inside(D, p)
  BY <1>8, <1>12
<1>15. ReadSoFar(NewDecoder(out.buf, k), sent, <<>>)
  BY <1>2, <1>7, <1>8, <1>10, <1>13, <1>14, FreshReads
<1> QED BY <1>1, <1>15

-----------------------------------------------------------------------------
(* The theorems.                                                            *)

\* What was read is what was sent.
LEMMA ReadableReturns ==
  ASSUME Readable
  PROVE  SymbolsReturn
<1>1. SUFFICES ASSUME phase = "read", Fits, ~jumped
               PROVE  /\ \A i \in 1..Len(got) : got[i] = sent[i].symbol.value
                      /\ got # <<>> => dec.rng = sent[Len(got)].rng /\ dec.nbitsTotal = sent[Len(got)].total
  BY Zenon DEF SymbolsReturn
<1>2. sent \in Seq(Entries) /\ ReadSoFar(dec, sent, got)
  BY <1>1 DEF Readable
<1>3. PICK run : \E D \in ByteStream, B \in ByteStream :
         /\ Trail(run, sent) /\ Inside(D, run[Len(sent)]) /\ Agrees(B, run[Len(sent)])
         /\ Following(dec, D, B, run[Len(got)])
         /\ got \in Seq(Nat) /\ Len(got) <= Len(sent)
         /\ \A i \in 1..Len(got) : got[i] = sent[i].symbol.value
  BY <1>2, Zenon DEF ReadSoFar
<1>4. PICK D \in ByteStream, B \in ByteStream :
         /\ Trail(run, sent)
         /\ Following(dec, D, B, run[Len(got)])
         /\ got \in Seq(Nat) /\ Len(got) <= Len(sent)
         /\ \A i \in 1..Len(got) : got[i] = sent[i].symbol.value
  BY <1>3
<1>5. ASSUME got # <<>> PROVE dec.rng = sent[Len(got)].rng /\ dec.nbitsTotal = sent[Len(got)].total
  <2> DEFINE m == Len(got)
  <2>1. m \in 1..Len(sent)
    BY <1>2, <1>4, <1>5
  <2>2. Following(dec, D, B, run[m])
    BY <1>4
  <2> HIDE DEF m
  <2>3. Leg(sent[m], m, run[m - 1], run[m])
    BY <1>4, <2>1 DEF Trail
  <2>4. dec.rng = run[m].rng /\ dec.nbitsTotal = CodeBits + 1 + SymBits * run[m].outs + run[m].rawBits
    BY <2>2 DEF Following, Tracks
  <2>5. sent[m].rng = run[m].rng /\ sent[m].total = CodeBits + 1 + SymBits * run[m].outs + run[m].rawBits
    BY <2>3 DEF Leg
  <2>6. dec.rng = sent[m].rng /\ dec.nbitsTotal = sent[m].total
    BY <2>4, <2>5
  <2> QED BY <2>6 DEF m
<1> QED BY <1>4, <1>5


\* Every step keeps both.
LEMMA ReturnStep ==
  ASSUME IInv, Written, Readable, [Next]_vars
  PROVE  Written' /\ Readable'
<1>1. CASE \E s \in Alphabet : Write(s)
  <2>1. Written'
    BY <1>1, WriteWritten
  <2>2. phase' = "write"
    BY <1>1 DEF Write
  <2> QED BY <2>1, <2>2 DEF Readable
<1>2. CASE \E size \in Sizes : Shrink(size)
  <2>1. Written'
    BY <1>2, ShrinkWritten
  <2>2. phase' = "write"
    BY <1>2 DEF Shrink
  <2> QED BY <2>1, <2>2 DEF Readable
<1>3. CASE \E v \in 1..SymMax : Patch(v)
  <2>1. Written'
    BY <1>3, PatchWritten
  <2>2. phase' = "write"
    BY <1>3 DEF Patch
  <2> QED BY <2>1, <2>2 DEF Readable
<1>4. CASE \E pads \in BOOLEAN : Finish(pads)
  <2>1. Readable'
    BY <1>4, FinishReadable
  <2>2. phase' = "read"
    BY <1>4 DEF Finish
  <2> QED BY <2>1, <2>2 DEF Written
<1>5. CASE FinishTrimmed
  <2>1. Readable'
    BY <1>5, FinishTrimmedReadable
  <2>2. phase' = "read"
    BY <1>5 DEF FinishTrimmed
  <2> QED BY <2>1, <2>2 DEF Written
<1>6. CASE Read
  <2>1. Readable'
    BY <1>6, ReadReadable
  <2>2. phase' = "read"
    BY <1>6 DEF Read
  <2> QED BY <2>1, <2>2 DEF Written
<1>7. CASE UNCHANGED vars
  BY <1>7 DEF vars, Written, Readable, Fits
<1> QED BY <1>1, <1>2, <1>3, <1>4, <1>5, <1>6, <1>7 DEF Next

\* The invariant of the round trip.  While a packet is written, the encoder is at
\* the place to which the symbols sent so far lead, also after flags were patched
\* into the first byte and the buffer was shrunk; while it is read, the decoder
\* is at the same place after as many symbols.
THEOREM PlacesKept == Spec => [](Written /\ Readable)
<1>1. Init => Written /\ Readable
  BY InitWritten DEF Init, Readable
<1>2. IInv /\ Written /\ Readable /\ [Next]_vars => (Written /\ Readable)'
  BY ReturnStep
<1> QED BY <1>1, <1>2, Accounts, PTL DEF Spec

\* What encode_*(), enc_uint() and enc_bits() put into a packet within its budget
\* is what the decode_*() return, symbol by symbol, and the decoder has the range
\* and the bit count of the encoder after each: for all sizes of codes and bytes,
\* tables and symbols, patched flags, shrunk, padded and trimmed buffers, but for
\* padding written past raw bits that still wait in the window.
THEOREM ReadsBack == Spec => []SymbolsReturn
<1>1. Readable => SymbolsReturn
  BY ReadableReturns
<1> QED BY <1>1, PlacesKept, PTL
=============================================================================
