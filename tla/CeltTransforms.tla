--------------------------- MODULE CeltTransforms ---------------------------
(***************************************************************************)
(* The mixed-radix FFT of src/src/kiss_fft.rs and the MDCT built on it, of *)
(* src/src/mdct.rs.  Samples are numbers modulo a prime, sines and cosines *)
(* its roots of unity: the identities of the transforms hold exactly, and  *)
(* a wrong index, sign or twiddle shows.  The SIMD kernels do the same     *)
(* arithmetic and are not modelled.  x[i] of the code is x[i + 1] here.    *)
(***************************************************************************)
EXTENDS Integers, Sequences, SequencesExt

CONSTANTS
  Modulus,      \* a prime with 8 * n | Modulus - 1 for every MDCT of n used
  Generator,    \* all powers of it are all numbers but 0
  MaxFft        \* KISS_MAX_N

ASSUME ModulusHasCircle == Modulus \in Nat /\ Modulus % 8 = 1 /\ Generator \in 2..Modulus - 1

Order == Modulus - 1
None == << >>

\* A sequence, its elements worked out.
Now(s) == s \o << >>

\* Powers of the generator by a table of high and one of low digits.
Digit == CHOOSE d \in 1..Modulus : d * d >= Order /\ (d - 1) * (d - 1) < Order
Powers(base, n) == FoldLeft(LAMBDA t, i : Append(t, (t[i] * base) % Modulus), <<1>>, [i \in 1..n |-> i])
LowPowers == Powers(Generator, Digit)
HighPowers == Powers(LowPowers[Digit + 1], Digit)
Power(k) == (HighPowers[((k % Order) \div Digit) + 1] * LowPowers[((k % Order) % Digit) + 1]) % Modulus

\* 1/x, a square root of -1, and the circle: angles count 1 / Order of a turn.
Recip(x) == CHOOSE y \in 1..Order : (x * y) % Modulus = 1
Half == Recip(2)
Minus1 == Power(Order \div 4)
RecipOf2I == Recip((2 * Minus1) % Modulus)
Cosine(k) == ((Power(k) + Power(-k)) * Half) % Modulus
Sine(k) == ((Power(k) - Power(-k)) * RecipOf2I) % Modulus
Turn(a, b) == (a * Order) \div b

Cpx(r, i) == <<r % Modulus, i % Modulus>>
CMul(a, b) == Cpx(a[1] * b[1] - a[2] * b[2], a[1] * b[2] + a[2] * b[1])
CAdd(a, b) == Cpx(a[1] + b[1], a[2] + b[2])
CSub(a, b) == Cpx(a[1] - b[1], a[2] - b[2])

-----------------------------------------------------------------------------
(* The plan: radices, their products, and where each sample goes first.    *)

Tried == <<4, 2, 3, 5>>

\* Radices as they are found; what is left when none fits stands last.
Radices[n \in 1..MaxFft] ==
  LET fits == {r \in DOMAIN Tried : n % Tried[r] = 0}
  IN  IF n = 1 THEN << >>
      ELSE IF fits = {} THEN <<n>>
      ELSE LET p == Tried[CHOOSE r \in fits : \A s \in fits : r <= s] IN <<p>> \o Radices[n \div p]

\* A radix of 2 found late changes places with an early 4, as its kernel has
\* the twiddles of four samples built in; then all are reversed.
Factors(n) ==
  LET found == Radices[n]
      late == {i \in 3..Len(found) : found[i] = 2}
      moved == IF late = {} THEN found ELSE [[found EXCEPT ![CHOOSE i \in late : TRUE] = 4] EXCEPT ![2] = 2]
  IN  IF \E i \in DOMAIN found : found[i] > 5 THEN None ELSE Reverse(moved)

ProductOf(s) == FoldLeft(LAMBDA a, b : a * b, 1, s)

\* nfft samples with the twiddles of a transform of `base`.
NewSub(base, nfft) ==
  LET p == Factors(nfft)
      stride == Now([i \in DOMAIN p |-> ProductOf(SubSeq(p, 1, i - 1))])
      m == Now([i \in DOMAIN p |-> nfft \div (stride[i] * p[i])])
  IN  [nfft |-> nfft, p |-> p, m |-> m, stride |-> stride, base |-> base,
       bitrev |-> Now([i \in 1..nfft |->
                         FoldLeft(LAMBDA sum, l : sum + (((i - 1) \div stride[l]) % p[l]) * m[l],
                                  0, [l \in DOMAIN p |-> l])])]

NewFft(nfft) == NewSub(nfft, nfft)

Twiddle(st, k) == Cpx(Cosine(-Turn(k, st.base)), Sine(-Turn(k, st.base)))

-----------------------------------------------------------------------------
(* The kernels: the outputs of p samples already turned.                   *)

Kernel2(a) == <<CAdd(a[1], a[2]), CSub(a[1], a[2])>>

\* The eighths of a turn its second samples need, in place of twiddles.
Eighth(j, v) ==
  LET tw == Cosine(Turn(1, 8)) IN
  CASE j = 0 -> v
    [] j = 1 -> Cpx((v[1] + v[2]) * tw, (v[2] - v[1]) * tw)
    [] j = 2 -> Cpx(v[2], -v[1])
    [] j = 3 -> Cpx((v[2] - v[1]) * tw, -(v[2] + v[1]) * tw)

Kernel4(a) ==
  LET s5 == CSub(a[1], a[3])
      sum == CAdd(a[1], a[3])
      s3 == CAdd(a[2], a[4])
      s4 == CSub(a[2], a[4])
  IN  <<CAdd(sum, s3), Cpx(s5[1] + s4[2], s5[2] - s4[1]), CSub(sum, s3), Cpx(s5[1] - s4[2], s5[2] + s4[1])>>

Kernel3(a) ==
  LET epi3 == Sine(-Turn(1, 3))
      s3 == CAdd(a[2], a[3])
      s0 == CSub(a[2], a[3])
      fm == CSub(a[1], Cpx(s3[1] * Half, s3[2] * Half))
      sc == Cpx(s0[1] * epi3, s0[2] * epi3)
  IN  <<CAdd(a[1], s3), Cpx(fm[1] - sc[2], fm[2] + sc[1]), Cpx(fm[1] + sc[2], fm[2] - sc[1])>>

Kernel5(a) ==
  LET ya == Cpx(Cosine(Turn(1, 5)), -Sine(Turn(1, 5)))
      yb == Cpx(Cosine(Turn(2, 5)), -Sine(Turn(2, 5)))
      s7 == CAdd(a[2], a[5])
      s10 == CSub(a[2], a[5])
      s8 == CAdd(a[3], a[4])
      s9 == CSub(a[3], a[4])
      Real(u, v) == Cpx(a[1][1] + s7[1] * u + s8[1] * v, a[1][2] + s7[2] * u + s8[2] * v)
      s6 == Cpx(s10[2] * ya[2] + s9[2] * yb[2], -(s10[1] * ya[2] + s9[1] * yb[2]))
      s12 == Cpx(s9[2] * ya[2] - s10[2] * yb[2], s10[1] * yb[2] - s9[1] * ya[2])
      s5 == Real(ya[1], yb[1])
      s11 == Real(yb[1], ya[1])
  IN  <<Cpx(a[1][1] + s7[1] + s8[1], a[1][2] + s7[2] + s8[2]),
        CSub(s5, s6), CAdd(s11, s12), CSub(s11, s12), CAdd(s5, s6)>>

\* One stage: n blocks of p times m samples.
Stage(st, x, l) ==
  LET p == st.p[l]
      m == st.m[l]
      n == st.stride[l]
      mm == IF l > 1 THEN st.m[l - 1] ELSE 1
      step == n * (st.base \div st.nfft)
      Turned(at, j, q) ==
        CASE q = 0 -> x[at + 1]
          [] q > 0 /\ p = 2 -> IF m = 1 THEN x[at + 2] ELSE Eighth(j, x[at + 5])
          [] q > 0 /\ p # 2 -> IF m = 1 THEN x[at + q + 1] ELSE CMul(x[at + q * m + 1], Twiddle(st, q * j * step))
      Block(i, j) ==
        LET at == (IF p = 2 THEN i * (IF m = 1 THEN 2 ELSE 8) ELSE i * mm) + j
            a == Now([q \in 1..p |-> Turned(at, j, q - 1)])
        IN  Now(CASE p = 2 -> Kernel2(a) [] p = 3 -> Kernel3(a) [] p = 4 -> Kernel4(a) [] p = 5 -> Kernel5(a))
      done == Now([k \in 1..n * m |-> Block((k - 1) \div m, (k - 1) % m)])
  IN  Now([k \in 1..st.nfft |-> LET i == (k - 1) \div (p * m)
                                IN  done[i * m + ((k - 1) % m) + 1][(((k - 1) \div m) % p) + 1]])

FftImpl(st, x) == FoldRight(LAMBDA l, y : Stage(st, y, l), [l \in DOMAIN st.p |-> l], x)

\* Sample i goes to bitrev[i], scaled by 1/nfft.
Scattered(st, x) == Now([k \in 1..st.nfft |-> x[CHOOSE i \in 1..st.nfft : st.bitrev[i] = k - 1]])
Fft(st, x) ==
  LET scale == Recip(st.nfft)
  IN  FftImpl(st, Scattered(st, [i \in 1..st.nfft |-> Cpx(x[i][1] * scale, x[i][2] * scale)]))
Ifft(st, x) ==
  LET y == FftImpl(st, Scattered(st, [i \in 1..st.nfft |-> Cpx(x[i][1], -x[i][2])]))
  IN  Now([i \in 1..st.nfft |-> Cpx(y[i][1], -y[i][2])])

-----------------------------------------------------------------------------
(* The MDCT of n >> shift.                                                 *)

\* The plans of a lookup, one for each shift.
NewMdct(n, maxLm) == Now([s \in 1..maxLm + 1 |-> NewSub(n \div 4, n \div (4 * 2^(s - 1)))])

\* cos(2 pi (i + 1/8) / n).
Trig(n, i) == Cosine(Turn(8 * i + 1, 8 * n))

\* The windowed fold: pair k of the n/4 complex inputs.
Folded(in, w, overlap, n, k) ==
  LET n2 == n \div 2
      n4 == n \div 4
      limit == (overlap + 3) \div 4
      mid == n4 - limit
      x1 == overlap \div 2 + 2 * k
      x2 == n2 - 1 + overlap \div 2 - 2 * k
      l == k - mid
      In(i) == in[i + 1]
      W(i) == w[i + 1]
  IN  CASE k < limit ->
             LET w1 == W(overlap \div 2 + 2 * k)
                 w2 == W(overlap \div 2 - 1 - 2 * k)
             IN  Cpx(In(x1 + n2) * w2 + In(x2) * w1, In(x1) * w1 - In(x2 - n2) * w2)
        [] k >= limit /\ k < mid -> Cpx(In(x2), In(x1))
        [] k >= limit /\ k >= mid ->
             LET w1 == W(2 * l)
                 w2 == W(overlap - 1 - 2 * l)
             IN  Cpx(-In(x1 - n2) * w1 + In(x2) * w2, In(x1) * w2 + In(x2 + n2) * w1)

Forward(st, in, w, overlap) ==
  LET n4 == st.nfft
      n == 4 * n4
      scale == Recip(n4)
      Rotated(k) == LET y == CMul(Folded(in, w, overlap, n, k), Cpx(Trig(n, k), Trig(n, n4 + k)))
                    IN  Cpx(y[1] * scale, y[2] * scale)
      f == FftImpl(st, Scattered(st, Now([i \in 1..n4 |-> Rotated(i - 1)])))
      Even(i) == f[i + 1][2] * Trig(n, n4 + i) - f[i + 1][1] * Trig(n, i)
      Odd(i) == f[i + 1][1] * Trig(n, n4 + i) + f[i + 1][2] * Trig(n, i)
  IN  Now([k \in 1..2 * n4 |-> (IF k % 2 = 1 THEN Even((k - 1) \div 2) ELSE Odd((2 * n4 - k) \div 2)) % Modulus])

\* The spectrum into `out`, whose first half overlap is what the transform
\* before left there.
Backward(st, spectrum, out, w, overlap) ==
  LET n4 == st.nfft
      n == 4 * n4
      half == overlap \div 2
      Rotated(i) ==
        LET x1 == spectrum[2 * i + 1]
            x2 == spectrum[2 * n4 - 2 * i]
        IN  Cpx(x1 * Trig(n, i) - x2 * Trig(n, n4 + i), x2 * Trig(n, i) + x1 * Trig(n, n4 + i))
      f == FftImpl(st, Scattered(st, Now([i \in 1..n4 |-> Rotated(i - 1)])))
      Even(i) == f[i + 1][2] * Trig(n, i) + f[i + 1][1] * Trig(n, n4 + i)
      Odd(i) == f[i + 1][2] * Trig(n, n4 + i) - f[i + 1][1] * Trig(n, i)
      y == Now([k \in DOMAIN out |->
                  LET at == k - 1 - half IN
                  IF at \notin 0..2 * n4 - 1 THEN out[k]
                  ELSE (IF at % 2 = 0 THEN Even(at \div 2) ELSE Odd((2 * n4 - 1 - at) \div 2)) % Modulus])
      Mixed(k) == IF k <= half THEN y[k] * w[overlap + 1 - k] - y[overlap + 1 - k] * w[k]
                  ELSE y[overlap + 1 - k] * w[overlap + 1 - k] + y[k] * w[k]
  IN  Now([k \in DOMAIN out |-> IF k <= overlap THEN Mixed(k) % Modulus ELSE y[k]])

-----------------------------------------------------------------------------
(* Property of one transform: of an impulse it gives what the definition   *)
(* of the discrete Fourier transform does; as all is linear that is all of *)
(* it.  A plan within another's twiddles gives the same, and the inverse   *)
(* gives the impulse back.                                                 *)

FftIsDft(base, nfft, at) ==
  LET st == NewSub(base, nfft)
      x == Now([i \in 1..nfft |-> IF i = at THEN <<1, 0>> ELSE <<0, 0>>])
      y == Fft(st, x)
      scale == Recip(nfft)
  IN  /\ \A k \in 1..nfft :
           y[k] = CMul(<<scale, 0>>, LET a == -Turn((k - 1) * (at - 1), nfft) IN Cpx(Cosine(a), Sine(a)))
      /\ Ifft(st, y) = x
=============================================================================
