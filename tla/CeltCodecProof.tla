--------------------------- MODULE CeltCodecProof ---------------------------
(* Proofs about CeltCodec, for any bands, allocation tables, energies and   *)
(* inputs, any number of frames and losses of any length: the output        *)
(* continues (OutputHolds), bands fold from written bins (FoldsHold) and a  *)
(* constrained rate is kept (RateHolds).  The last follows a frame through  *)
(* the encoder: its coder and energies stay what they are from the first    *)
(* symbol to the bits left over, so that what the rate counts is a number.  *)
EXTENDS CeltCodec, WellFoundedInduction, TLAPS

-----------------------------------------------------------------------------
(* Induction over a set of naturals, and the run of a loop (as in            *)
(* RangeCoderProof: the two have no module with theorems in common).         *)

\* A set of naturals with 0 in it and, with every number, the next one, has
\* them all.
THEOREM Induction ==
  ASSUME NEW T, T \subseteq Nat, 0 \in T, \A k \in T : k + 1 \in T
  PROVE  T = Nat
<1> DEFINE R == OpToRel(<, Nat)
           U == Nat \ T
<1>1. IsWellFoundedOn(R, Nat)
  BY NatLessThanWellFounded, Zenon
<1>2. SUFFICES ASSUME U # {} PROVE FALSE
  OBVIOUS
<1>3. U \subseteq Nat
  OBVIOUS
<1>4. PICK x \in U : \A y \in U : <<y, x>> \notin R
  <2> HIDE DEF R
  <2> QED BY <1>1, <1>2, <1>3, WFMin
<1>5. \A y \in U : ~(y < x)
  BY <1>4, <1>3 DEF OpToRel
<1>6. x - 1 \in Nat /\ x - 1 < x
  BY <1>3
<1>7. x - 1 \in T
  BY <1>5, <1>6
<1>8. (x - 1) + 1 \in T /\ (x - 1) + 1 = x
  BY <1>7, <1>3
<1> QED BY <1>8

\* What holds of 0 and is kept from every number below n to the next one
\* holds up to n.
THEOREM InductionTo ==
  ASSUME NEW n \in Nat, NEW T, 0 \in T, \A k \in 0..n - 1 : k \in T => k + 1 \in T
  PROVE  0..n \subseteq T
<1> DEFINE U == {k \in Nat : k <= n => k \in T}
<1>1. U \subseteq Nat /\ 0 \in U
  OBVIOUS
<1>2. ASSUME NEW k \in U PROVE k + 1 \in U
  OBVIOUS
<1>3. U = Nat
  <2> HIDE DEF U
  <2> QED BY <1>1, <1>2, Induction
<1> QED BY <1>3

\* The values of a loop whose step keeps to a set.
IsRun(run, x, F, n) == run[0] = x /\ \A i \in 1..n : run[i] = F[run[i - 1]]
THEOREM Runs ==
  ASSUME NEW X, NEW x \in X, NEW F \in [X -> X], NEW n \in Nat
  PROVE  \E run \in [0..n -> X] : IsRun(run, x, F, n)
<1> DEFINE T == {k \in Nat : \E run \in [0..k -> X] : IsRun(run, x, F, k)}
<1>1. 0 \in T
  <2>1. [i \in 0..0 |-> x] \in [0..0 -> X] /\ IsRun([i \in 0..0 |-> x], x, F, 0)
    BY DEF IsRun
  <2> QED BY <2>1
<1>2. ASSUME NEW k \in T PROVE k + 1 \in T
  <2>1. k \in Nat
    OBVIOUS
  <2>2. PICK run \in [0..k -> X] : IsRun(run, x, F, k)
    OBVIOUS
  <2> DEFINE longer == [i \in 0..k + 1 |-> IF i = k + 1 THEN F[run[k]] ELSE run[i]]
  <2>3. longer \in [0..k + 1 -> X]
    BY <2>1
  <2>4. longer[0] = x
    BY <2>1, <2>2 DEF IsRun
  <2>5. ASSUME NEW i \in 1..k + 1 PROVE longer[i] = F[longer[i - 1]]
    <3>1. CASE i = k + 1
      BY <3>1, <2>1
    <3>2. CASE i # k + 1
      BY <3>2, <2>1, <2>2 DEF IsRun
    <3> QED BY <3>1, <3>2
  <2>6. IsRun(longer, x, F, k + 1)
    BY <2>4, <2>5 DEF IsRun
  <2>7. \E r \in [0..k + 1 -> X] : IsRun(r, x, F, k + 1)
    <3> HIDE DEF longer
    <3> QED BY <2>3, <2>6
  <2>8. k + 1 \in Nat
    BY <2>1
  <2> QED BY <2>7, <2>8
<1>3. T = Nat
  <2>1. T \subseteq Nat
    OBVIOUS
  <2> HIDE DEF T
  <2> QED BY <1>1, <1>2, <2>1, Induction
<1>4. n \in T
  BY <1>3
<1> QED BY <1>4

-----------------------------------------------------------------------------
(* Powers of two.                                                           *)

LEMMA Powers ==
  /\ Pow2 = [k \in 0..30 |-> IF k = 0 THEN 1 ELSE 2 * Pow2[k - 1]]
  /\ \A k \in 0..30 : Pow2[k] \in Nat \ {0}
<1> DEFINE F == [v \in Nat \ {0} |-> 2 * v]
           IsPow(f) == f = [k \in 0..30 |-> IF k = 0 THEN 1 ELSE 2 * f[k - 1]]
           X == Nat \ {0}
<1>1. PICK run \in [0..30 -> X] : IsRun(run, 1, F, 30)
  <2>1. F \in [X -> X] /\ 1 \in X /\ 30 \in Nat
    OBVIOUS
  <2> HIDE DEF F, X
  <2> QED BY <2>1, Runs, Zenon
<1>2. run[0] = 1 /\ \A i \in 1..30 : run[i] = 2 * run[i - 1]
  BY <1>1 DEF IsRun
<1>3. \A k \in 0..30 : run[k] = IF k = 0 THEN 1 ELSE 2 * run[k - 1]
  BY <1>2
<1>4. run = [k \in 0..30 |-> run[k]]
  OBVIOUS
<1>5. IsPow(run)
  BY <1>3, <1>4, Zenon
<1>6. Pow2 = CHOOSE f : IsPow(f)
  BY DEF Pow2
<1>7. IsPow(Pow2)
  BY <1>5, <1>6, Zenon
<1>8. \A k \in 0..30 : Pow2[k] \in Nat \ {0}
  <2> DEFINE T == {k \in Nat : Pow2[k] \in Nat \ {0}}
  <2>1. 0 \in T
    BY <1>7
  <2>2. \A k \in 0..30 - 1 : k \in T => k + 1 \in T
    <3> SUFFICES ASSUME NEW k \in 0..29, Pow2[k] \in Nat \ {0} PROVE Pow2[k + 1] \in Nat \ {0}
      OBVIOUS
    <3>1. Pow2[k + 1] = 2 * Pow2[k]
      BY <1>7
    <3> QED BY <3>1
  <2>3. 0..30 \subseteq T
    <3> HIDE DEF T
    <3> QED BY <2>1, <2>2, InductionTo
  <2> QED BY <2>3
<1> QED BY <1>7, <1>8

\* The units of 2.5 ms of the four frame lengths, and the longest of them.
LEMMA Units ==
  /\ Pow2[0] = 1 /\ Pow2[1] = 2 /\ Pow2[2] = 4 /\ Pow2[3] = 8
  /\ Longest \in 2..9
  /\ \A lm \in 0..MaxLm : Pow2[lm] \in 1..Longest - 1
<1>1. Pow2[0] = 1
  BY Powers
<1>2. Pow2[1] = 2
  BY Powers, <1>1
<1>3. Pow2[2] = 4
  BY Powers, <1>2
<1>4. Pow2[3] = 8
  BY Powers, <1>3
<1>5. MaxLm = 0 \/ MaxLm = 1 \/ MaxLm = 2 \/ MaxLm = 3
  BY FrameLengths
<1>6. \A lm \in 0..MaxLm : lm = 0 \/ lm = 1 \/ lm = 2 \/ lm = 3
  BY <1>5
<1> QED BY <1>1, <1>2, <1>3, <1>4, <1>5, <1>6 DEF Longest

-----------------------------------------------------------------------------
(* The memories.                                                            *)

\* The last of a sequence, and the same shifted, element by element.
LEMMA LastOfIs ==
  ASSUME NEW S, NEW s \in Seq(S), NEW n \in 0..Len(s)
  PROVE  LastOf(s, n) = [k \in 1..n |-> s[Len(s) - n + k]]
BY DEF LastOf

LEMMA ShiftIs ==
  ASSUME NEW S, NEW s \in Seq(S), NEW n \in 0..Len(s), NEW v \in S
  PROVE  Shift(s, n, v) = [k \in 1..Len(s) |-> IF k + n <= Len(s) THEN s[k + n] ELSE v]
<1> DEFINE new == [k \in 1..n |-> v]
           all == s \o new
<1>1. new \in Seq(S) /\ Len(new) = n
  OBVIOUS
<1>2. all \in Seq(S) /\ Len(all) = Len(s) + n
  BY <1>1
<1>3. \A k \in 1..Len(s) + n : all[k] = IF k <= Len(s) THEN s[k] ELSE v
  BY <1>1
<1>4. Shift(s, n, v) = [k \in 1..Len(s) |-> all[Len(all) - Len(s) + k]]
  <2> HIDE DEF all
  <2>1. Len(s) \in 0..Len(all)
    BY <1>2
  <2>2. LastOf(all, Len(s)) = [k \in 1..Len(s) |-> all[Len(all) - Len(s) + k]]
    BY <1>2, <2>1, LastOfIs
  <2> QED BY <2>2, ZenonT(60) DEF Shift, all
<1> HIDE DEF all
<1>5. \A k \in 1..Len(s) : all[Len(all) - Len(s) + k] = IF k + n <= Len(s) THEN s[k + n] ELSE v
  <2> TAKE k \in 1..Len(s)
  <2>1. Len(all) - Len(s) + k = k + n /\ k + n \in 1..Len(s) + n
    BY <1>2
  <2> QED BY <2>1, <1>3
<1> QED BY <1>4, <1>5

\* The end of a longer memory moves on as a memory of its own does.
LEMMA EndShifts ==
  ASSUME NEW S, NEW s \in Seq(S), NEW m \in 0..Len(s), NEW n \in 0..m, NEW v \in S
  PROVE  /\ Shift(s, n, v) \in Seq(S) /\ Len(Shift(s, n, v)) = Len(s)
         /\ LastOf(s, m) \in Seq(S) /\ Len(LastOf(s, m)) = m
         /\ LastOf(Shift(s, n, v), m) = Shift(LastOf(s, m), n, v)
<1> DEFINE t == Shift(s, n, v)
<1>0. PICK e : e = LastOf(s, m)
  OBVIOUS
<1>1. t = [k \in 1..Len(s) |-> IF k + n <= Len(s) THEN s[k + n] ELSE v]
  <2>1. n \in 0..Len(s)
    OBVIOUS
  <2> QED BY <2>1, ShiftIs
<1>2. t \in Seq(S) /\ Len(t) = Len(s)
  <2> HIDE DEF t
  <2>1. \A k \in 1..Len(s) : t[k] \in S
    BY <1>1
  <2> QED BY <1>1, <2>1
<1>3. e = [k \in 1..m |-> s[Len(s) - m + k]]
  BY <1>0, LastOfIs
<1>4. e \in Seq(S) /\ Len(e) = m
  <2>1. \A k \in 1..m : e[k] \in S
    BY <1>3
  <2> QED BY <1>3, <2>1
<1>5. LastOf(t, m) = [k \in 1..m |-> t[Len(s) - m + k]]
  <2>1. m \in 0..Len(t)
    BY <1>2
  <2>2. LastOf(t, m) = [k \in 1..m |-> t[Len(t) - m + k]]
    BY <1>2, <2>1, LastOfIs, Zenon
  <2> QED BY <2>2, <1>2, Zenon
<1>6. Shift(e, n, v) = [k \in 1..m |-> IF k + n <= m THEN e[k + n] ELSE v]
  <2>0. e \in Seq(S)
    BY <1>4
  <2>1. n \in 0..Len(e)
    BY <1>4
  <2>2. Shift(e, n, v) = [k \in 1..Len(e) |-> IF k + n <= Len(e) THEN e[k + n] ELSE v]
    BY <2>0, <2>1, ShiftIs
  <2> QED BY <2>2, <1>4, Zenon
<1>7. \A k \in 1..m : t[Len(s) - m + k] = IF k + n <= m THEN e[k + n] ELSE v
  <2> TAKE k \in 1..m
  <2>1. Len(s) - m + k \in 1..Len(s)
    OBVIOUS
  <2>2. t[Len(s) - m + k] = IF k + n <= m THEN s[Len(s) - m + k + n] ELSE v
    <3> HIDE DEF t
    <3> QED BY <1>1, <2>1
  <2>3. k + n <= m => e[k + n] = s[Len(s) - m + k + n]
    BY <1>3
  <2> HIDE DEF t
  <2> QED BY <2>2, <2>3
<1> HIDE DEF t
<1>8. LastOf(t, m) = Shift(e, n, v)
  BY <1>5, <1>6, <1>7, ZenonT(60)
<1> QED BY <1>0, <1>2, <1>4, <1>8 DEF t

-----------------------------------------------------------------------------
(* Packets.                                                                 *)

\* A frame that an input may have.
IsGeometry(g) == \E x \in Inputs, c \in {1, 2} : g = Geometry(x, c)

LEMMA GeometryFacts ==
  ASSUME NEW g, IsGeometry(g)
  PROVE  /\ g.lm \in 0..3 /\ g.lm \in 0..MaxLm /\ g.c \in {1, 2}
         /\ g.start \in Nat /\ g.end \in 1..NB /\ g.start < g.end
         /\ g.start + 1 < g.end => Width(g.start + 1) <= 2 * Width(g.start)
         /\ \A i \in g.start + 2..g.end - 1 : Width(i) <= Edges[i + 1] - Edges[g.start + 1]
<1>1. PICK x \in Inputs, c \in {1, 2} : g = Geometry(x, c)
  BY DEF IsGeometry
<1>2. g.lm = x.lm /\ g.c = c /\ g.start = x.start /\ g.end = x.end
  BY <1>1 DEF Geometry
<1>3. NB \in Int
  BY EdgesRise DEF NB
<1>4. x.lm \in 0..3 /\ x.lm \in 0..MaxLm /\ x.start \in Nat /\ x.end \in 1..NB /\ x.start < x.end
  BY <1>3, InputShape, FrameLengths
<1>5. /\ x.start + 1 < x.end => Width(x.start + 1) <= 2 * Width(x.start)
      /\ \A i \in x.start + 2..x.end - 1 : Width(i) <= Edges[i + 1] - Edges[x.start + 1]
  BY BandsCanFold
<1> QED BY <1>2, <1>4, <1>5

\* Every packet is of an input's geometry.
WireInv ==
  /\ frames \in Nat /\ channels \in {1, 2}
  /\ wire # None => IsGeometry(wire.g)

LEMMA WireKept ==
  ASSUME WireInv, [Next]_vars
  PROVE  WireInv'
<1>1. CASE Encode
  <2>1. PICK x \in Inputs : wire'.g = Geometry(x, channels)
    BY <1>1 DEF Encode
  <2>2. IsGeometry(wire'.g)
    BY <2>1 DEF IsGeometry, WireInv
  <2> QED BY <1>1, <2>2 DEF Encode, WireInv, IsGeometry
<1>2. CASE Decode
  BY <1>2 DEF Decode, WireInv
<1>3. CASE Lose
  BY <1>3 DEF Lose, WireInv
<1>4. CASE Switch
  BY <1>4 DEF Switch, WireInv, IsGeometry
<1>5. CASE UNCHANGED vars
  BY <1>5 DEF vars, WireInv, IsGeometry
<1> QED BY <1>1, <1>2, <1>3, <1>4, <1>5 DEF Next

-----------------------------------------------------------------------------
(* What the decoder keeps of its output.                                    *)

Fields == {"old", "e2", "e3", "background", "pf", "pfOld", "loss", "plc", "skip", "last", "fold",
           "end", "hist", "memory", "tail", "mixed"}

\* An overlap is left unfolded exactly where a pitch was repeated into it,
\* and the postfilter's memory is the end of what was put out.
OutputInv(d) ==
  /\ DOMAIN d = Fields
  /\ d.mixed = FALSE /\ d.fold = (d.tail = "raw")
  /\ d.hist \in Seq(Nat) /\ Len(d.hist) = 2 * Longest
  /\ d.memory = LastOf(d.hist, Longest)

LEMMA NewDecoderOutput == OutputInv(NewDecoder)
<1>0. PICK zeros : zeros = [k \in 1..2 * Longest |-> 0]
  OBVIOUS
<1>1. Longest \in Nat /\ 2 * Longest \in Nat /\ Longest \in 0..2 * Longest
  BY Units
<1>2. zeros \in Seq(Nat) /\ Len(zeros) = 2 * Longest
  BY <1>0, <1>1
<1>3. LastOf(zeros, Longest) = [k \in 1..Longest |-> 0]
  <2>1. LastOf(zeros, Longest) = [k \in 1..Longest |-> zeros[2 * Longest - Longest + k]]
    <3>1. Longest \in 0..Len(zeros)
      BY <1>1, <1>2
    <3>2. zeros \in Seq(Nat)
      BY <1>2
    <3>3. LastOf(zeros, Longest) = [k \in 1..Longest |-> zeros[Len(zeros) - Longest + k]]
      BY <3>1, <3>2, LastOfIs
    <3> QED BY <3>3, <1>2
  <2>2. \A k \in 1..Longest : zeros[2 * Longest - Longest + k] = 0
    BY <1>0, <1>1
  <2> QED BY <2>1, <2>2
<1>4. /\ DOMAIN NewDecoder = Fields /\ NewDecoder.mixed = FALSE /\ NewDecoder.fold = FALSE
      /\ NewDecoder.tail = "mdct" /\ NewDecoder.hist = zeros
      /\ NewDecoder.memory = [k \in 1..Longest |-> 0]
  BY <1>0 DEF NewDecoder, Fields
<1> QED BY <1>2, <1>3, <1>4, ZenonT(60) DEF OutputInv

\* A frame of any length is put out.
LEMMA OutputShifts ==
  ASSUME NEW d, OutputInv(d), NEW lm \in 0..MaxLm, NEW v \in Nat
  PROVE  LET hist == Shift(d.hist, Pow2[lm], v)
         IN  /\ hist \in Seq(Nat) /\ Len(hist) = 2 * Longest
             /\ LastOf(hist, Longest) = Shift(d.memory, Pow2[lm], v)
<1>1. Longest \in 0..Len(d.hist) /\ Pow2[lm] \in 0..Longest
  BY Units, SMTT(60) DEF OutputInv
<1>2. PICK h, n : h = d.hist /\ n = Pow2[lm]
  OBVIOUS
<1>3. h \in Seq(Nat) /\ Longest \in 0..Len(h) /\ n \in 0..Longest
  BY <1>1, <1>2 DEF OutputInv
<1>4. /\ Shift(h, n, v) \in Seq(Nat) /\ Len(Shift(h, n, v)) = Len(h)
      /\ LastOf(Shift(h, n, v), Longest) = Shift(LastOf(h, Longest), n, v)
  BY <1>3, EndShifts
<1> QED BY <1>2, <1>4 DEF OutputInv

LEMMA DecodedOutput ==
  ASSUME OutputInv(dec), WireInv, Decode
  PROVE  OutputInv(dec')
<1> DEFINE n == Pow2[wire.g.lm]
           new == Shift(dec.hist, n, frames)
<1>1. wire # None /\ wire.g.lm \in 0..MaxLm /\ frames \in Nat
  BY GeometryFacts DEF Decode, WireInv
<1>2. n \in 0..Longest - 1
  BY <1>1, Units
<1> DEFINE Energised(front, out) == NextEnergies(dec, wire, out.old, front.short)
           Filtered(e, front) == NextFilter(AddOverlap(e), wire, front.pf)
<1>3. PICK front, out :
        LET f == Filtered(Energised(front, out), front)
        IN  dec' = [f EXCEPT !.skip = Unskip(dec), !.loss = 0, !.plc = 0,
                           !.last = "normal", !.end = wire.g.end, !.hist = new,
                           !.memory = IF n >= Longest THEN LastOf(new, Longest)
                                      ELSE Shift(dec.memory, n, frames)]
  BY ZenonT(60) DEF Decode
<1> DEFINE e == Energised(front, out)
           f == Filtered(e, front)
<1>4. DOMAIN e = Fields /\ e.mixed = FALSE /\ e.fold = dec.fold /\ e.tail = dec.tail
  BY DEF NextEnergies, OutputInv, Fields
<1>5. DOMAIN f = Fields /\ f.mixed = FALSE /\ f.fold = FALSE /\ f.tail = "mdct"
  <2> HIDE DEF Energised
  <2> QED BY <1>4, ZenonT(60) DEF NextFilter, AddOverlap, OutputInv, Fields
<1>6. new \in Seq(Nat) /\ Len(new) = 2 * Longest /\ LastOf(new, Longest) = Shift(dec.memory, n, frames)
  BY <1>1, OutputShifts
<1> HIDE DEF n, new, e, f
<1>7. /\ DOMAIN dec' = Fields /\ dec'.mixed = FALSE /\ dec'.fold = FALSE /\ dec'.tail = "mdct"
      /\ dec'.hist = new /\ dec'.memory = Shift(dec.memory, n, frames)
  BY <1>2, <1>3, <1>5, Units DEF Fields, e, f
<1> QED BY <1>6, <1>7, ZenonT(60) DEF OutputInv

LEMMA ConcealedOutput ==
  ASSUME NEW d, OutputInv(d), NEW lm \in 0..MaxLm, NEW start, frames \in Nat
  PROVE  OutputInv(DecodeLost(d, lm, start))
<1> DEFINE noise == ConcealNoise(d, start)
           pitch == ConcealPeriodic(d)
           hist == Shift(d.hist, Pow2[lm], frames)
           lost == DecodeLost(d, lm, start)
<1>1. DOMAIN noise = Fields /\ noise.mixed = FALSE /\ noise.fold = (noise.tail = "raw")
  BY ZenonT(60) DEF ConcealNoise, AddOverlap, OutputInv, Fields
<1>2. DOMAIN pitch = Fields /\ pitch.mixed = FALSE /\ pitch.fold = (pitch.tail = "raw")
  BY ZenonT(60) DEF ConcealPeriodic, OutputInv, Fields
<1>3. hist \in Seq(Nat) /\ Len(hist) = 2 * Longest
  BY OutputShifts
<1> DEFINE periodic == d.plc < PitchLimit /\ start = 0 /\ ~d.skip
           made == IF periodic THEN pitch ELSE noise
           counted == [made EXCEPT !.loss = Least(10000, @ + Pow2[lm]),
                                   !.plc = Least(10000, @ + Pow2[lm])]
           kind == IF periodic THEN "periodic" ELSE "noise"
           memory == LastOf(hist, Longest)
<1>4. lost = [counted EXCEPT !.last = kind, !.hist = hist, !.memory = memory]
  BY DEF DecodeLost
<1> HIDE DEF noise, pitch, hist, lost, periodic
<1>5. DOMAIN made = Fields /\ made.mixed = FALSE /\ made.fold = (made.tail = "raw")
  BY <1>1, <1>2
<1> HIDE DEF made
<1>6. /\ DOMAIN lost = Fields /\ lost.mixed = FALSE /\ lost.fold = (lost.tail = "raw")
      /\ lost.hist = hist /\ lost.memory = LastOf(hist, Longest)
  <2>1. /\ DOMAIN counted = Fields /\ counted.mixed = FALSE
        /\ counted.fold = (counted.tail = "raw")
    BY <1>5, SMTT(60) DEF Fields
  <2> HIDE DEF counted, kind, memory
  <2>2. /\ DOMAIN lost = Fields /\ lost.mixed = FALSE /\ lost.fold = (lost.tail = "raw")
        /\ lost.hist = hist /\ lost.memory = memory
    BY <1>4, <2>1, SMTT(60) DEF Fields
  <2> QED BY <2>2 DEF memory
<1>7. OutputInv(lost)
  BY <1>3, <1>6 DEF OutputInv
<1> QED BY <1>7 DEF lost

(***************************************************************************)
(* Whatever is lost and wherever the modes switch, an MDCT adds onto an    *)
(* overlap that was folded if a pitch was repeated into it, and the        *)
(* postfilter's memory is the end of the output, decoded or concealed.     *)
(***************************************************************************)
THEOREM OutputHolds == Spec => []OutputContinues
<1>1. Init => WireInv /\ OutputInv(dec)
  BY NewDecoderOutput DEF Init, WireInv
<1>2. WireInv /\ OutputInv(dec) /\ [Next]_vars => WireInv' /\ OutputInv(dec)'
  <2> SUFFICES ASSUME WireInv, OutputInv(dec), [Next]_vars PROVE OutputInv(dec)'
    BY WireKept
  <2>1. CASE Encode
    BY <2>1 DEF Encode, OutputInv
  <2>2. CASE Decode
    BY <2>2, DecodedOutput, ZenonT(60) DEF OutputInv
  <2>3. CASE Lose
    <3>1. PICK start : dec' = DecodeLost(dec, wire.g.lm, start)
      BY <2>3 DEF Lose
    <3>2. wire.g.lm \in 0..MaxLm /\ frames \in Nat
      BY <2>3, GeometryFacts DEF Lose, WireInv
    <3>3. OutputInv(DecodeLost(dec, wire.g.lm, start))
      BY <3>2, ConcealedOutput
    <3> QED BY <3>1, <3>3 DEF OutputInv
  <2>4. CASE Switch
    BY <2>4, NewDecoderOutput DEF Switch, OutputInv
  <2>5. CASE UNCHANGED vars
    BY <2>5 DEF vars, OutputInv
  <2> QED BY <2>1, <2>2, <2>3, <2>4, <2>5 DEF Next
<1>3. OutputInv(dec) => OutputContinues
  BY DEF OutputInv, OutputContinues
<1> QED BY <1>1, <1>2, <1>3, PTL DEF Spec

-----------------------------------------------------------------------------
(* Folding.                                                                 *)

\* A higher band begins at a higher bin.
LEMMA EdgesOrder ==
  ASSUME NEW i \in 0..NB, NEW j \in i..NB
  PROVE  Edges[i + 1] \in Nat /\ Edges[j + 1] \in Nat /\ Edges[i + 1] <= Edges[j + 1]
<1>0. NB \in Nat
  BY EdgesRise DEF NB
<1>1. \A k \in 0..NB : Edges[k + 1] \in Nat
  BY EdgesRise DEF NB
<1>2. \A k \in 0..NB - 1 : Edges[k + 1] < Edges[k + 2]
  <2> TAKE k \in 0..NB - 1
  <2>1. k + 1 \in 1..Len(Edges) - 1
    BY EdgesRise DEF NB
  <2> QED BY <2>1, EdgesRise
<1> DEFINE T == {d \in Nat : i + d <= NB => Edges[i + 1] <= Edges[i + d + 1]}
<1>3. 0 \in T
  BY <1>1
<1>4. ASSUME NEW d \in T PROVE d + 1 \in T
  <2>1. d \in Nat
    OBVIOUS
  <2>2. SUFFICES ASSUME i + (d + 1) <= NB PROVE Edges[i + 1] <= Edges[i + (d + 1) + 1]
    BY <2>1
  <2>4. i + d <= NB /\ i + d \in 0..NB - 1 /\ i + (d + 1) \in 0..NB
    BY <1>0, <2>1, <2>2
  <2>5. Edges[i + 1] <= Edges[(i + d) + 1]
    BY <2>1, <2>4
  <2>6. Edges[(i + d) + 1] < Edges[(i + d) + 2]
    BY <2>4, <1>2
  <2>7. /\ Edges[i + 1] \in Nat /\ Edges[(i + d) + 1] \in Nat /\ Edges[(i + (d + 1)) + 1] \in Nat
        /\ (i + d) + 2 = (i + (d + 1)) + 1
    BY <2>1, <2>4, <1>1
  <2> QED BY <2>5, <2>6, <2>7
<1>5. T = Nat
  <2>1. T \subseteq Nat
    OBVIOUS
  <2> HIDE DEF T
  <2> QED BY <1>3, <1>4, <2>1, Induction, ZenonT(60)
<1>6. j - i \in Nat /\ i + (j - i) <= NB /\ i + (j - i) + 1 = j + 1
  BY <1>0
<1>7. Edges[i + 1] <= Edges[i + (j - i) + 1]
  BY <1>5, <1>6, ZenonT(60)
<1> QED BY <1>0, <1>1, <1>6, <1>7

\* A frame's bins are those of the table, as often as it has blocks.
LEMMA Scaled ==
  ASSUME NEW lm \in 0..3, NEW a \in Int, NEW b \in Int
  PROVE  /\ Pow2[lm] * a \in Int /\ Pow2[lm] * (a - b) = Pow2[lm] * a - Pow2[lm] * b
         /\ (a <= b => Pow2[lm] * a <= Pow2[lm] * b) /\ (a < b => Pow2[lm] * a < Pow2[lm] * b)
         /\ Pow2[lm] * (2 * a) = 2 * (Pow2[lm] * a)
<1>1. CASE lm = 0
  BY <1>1, Units
<1>2. CASE lm = 1
  BY <1>2, Units
<1>3. CASE lm = 2
  BY <1>3, Units
<1>4. CASE lm = 3
  BY <1>4, Units
<1>5. lm = 0 \/ lm = 1 \/ lm = 2 \/ lm = 3
  OBVIOUS
<1> QED BY <1>1, <1>2, <1>3, <1>4, <1>5

\* Where a band begins and how many bins it has.
LEMMA Bins ==
  ASSUME NEW g, IsGeometry(g), NEW i \in 0..NB, NEW j \in i..NB
  PROVE  /\ Bin(g, i) \in Int /\ Bin(g, j) \in Int /\ Bin(g, i) <= Bin(g, j)
         /\ i < NB => Bin(g, i + 1) = Bin(g, i) + Pow2[g.lm] * Width(i) /\ Bin(g, i) < Bin(g, i + 1)
<1>1. Edges[i + 1] \in Int /\ Edges[j + 1] \in Int /\ Edges[i + 1] <= Edges[j + 1]
  BY EdgesOrder
<1>2. g.lm \in 0..3
  BY GeometryFacts
<1>3. Bin(g, i) \in Int /\ Bin(g, j) \in Int /\ Bin(g, i) <= Bin(g, j)
  BY <1>1, <1>2, Scaled, ZenonT(60) DEF Bin
<1>4. ASSUME i < NB
      PROVE  Bin(g, i + 1) = Bin(g, i) + Pow2[g.lm] * Width(i) /\ Bin(g, i) < Bin(g, i + 1)
  <2>1. i + 1 \in 1..Len(Edges) - 1 /\ i + 1 \in 0..NB /\ NB \in i + 1..NB
    BY <1>4, EdgesRise DEF NB
  <2>2. Edges[i + 2] \in Int /\ Edges[i + 1] < Edges[i + 2] /\ (i + 1) + 1 = i + 2
    BY <2>1, EdgesRise, EdgesOrder
  <2>3. /\ Pow2[g.lm] * (Edges[i + 2] - Edges[i + 1]) = Pow2[g.lm] * Edges[i + 2] - Pow2[g.lm] * Edges[i + 1]
        /\ Pow2[g.lm] * Edges[i + 1] < Pow2[g.lm] * Edges[i + 2]
        /\ Pow2[g.lm] * Edges[i + 1] \in Int /\ Pow2[g.lm] * Edges[i + 2] \in Int
    BY <1>1, <1>2, <2>2, Scaled, ZenonT(60)
  <2> QED BY <2>2, <2>3 DEF Bin, Width
<1> QED BY <1>3, <1>4

\* What a band says of folding.
LEMMA BandStepFolds ==
  ASSUME NEW f, NEW st, NEW i
  PROVE  /\ BandStep(f, st, i).low = NextLow(f, st, i)
         /\ BandStep(f, st, i).norm = IF f.resynth THEN KeptBins(f, st, i) \cup BandView(f, st, i).out
                                      ELSE KeptBins(f, st, i)
         /\ BandStep(f, st, i).stale
              = (st.stale \/ (f.resynth /\ ~(BandView(f, st, i).lb \subseteq KeptBins(f, st, i))))
BY DEF BandStep

\* Before band i of a frame every bin below it is kept, and the band above
\* the one to fold from is one of them.
FoldInv(g, st, i) ==
  /\ st.stale = FALSE
  /\ i < g.end =>
       /\ st.low = 0 \/ st.low \in g.start + 1..i
       /\ 0..Bin(g, i) - Bin(g, g.start) - 1 \subseteq st.norm

\* How the bins of band i lie: b is where it begins above the frame's first,
\* n how many it has.
Begins(g, i) == Bin(g, i) - Bin(g, g.start)
Bandwide(g, i) == Pow2[g.lm] * Width(i)

LEMMA BandLies ==
  ASSUME NEW g, IsGeometry(g), NEW i \in g.start..g.end - 1
  PROVE  /\ Begins(g, i) \in Nat /\ Bandwide(g, i) \in Nat \ {0} /\ (i > g.start => Begins(g, i) > 0)
         /\ Begins(g, i + 1) = Begins(g, i) + Bandwide(g, i)
         /\ (i < g.end - 1 => Begins(g, i + 1) <= NormSize(g)) /\ NormSize(g) \in Int
         /\ i >= g.start + 2 => Bandwide(g, i) <= Begins(g, i)
         /\ i = g.start + 1 =>
              /\ Begins(g, i) = Bandwide(g, g.start) /\ Bandwide(g, i) <= 2 * Bandwide(g, g.start)
              /\ Pow2[g.lm] * (Width(i) - Width(g.start)) = Bandwide(g, i) - Bandwide(g, g.start)
         /\ \A low \in g.start + 1..i : Begins(g, low) \in Nat /\ Begins(g, low) <= Begins(g, i)
<1> DEFINE start == g.start
           P == Pow2[g.lm]
<1>1. /\ g.lm \in 0..3 /\ start \in Nat /\ g.end \in 1..NB /\ NB \in Nat
      /\ i \in 0..NB - 1 /\ start \in 0..i /\ i \in start..NB /\ start <= i /\ NB - 1 \in i..NB
      /\ start \in 0..NB /\ i \in 0..NB /\ i < NB
  BY GeometryFacts, EdgesRise, SMTT(60) DEF NB
<1>2. /\ Bin(g, start) \in Int /\ Bin(g, i) \in Int /\ Bin(g, start) <= Bin(g, i)
  BY <1>1, Bins
<1>3. /\ Bin(g, i + 1) = Bin(g, i) + P * Width(i) /\ Bin(g, i) < Bin(g, i + 1)
      /\ Bin(g, NB - 1) \in Int
  BY <1>1, Bins
<1>4. Width(i) \in Int /\ Width(start) \in Int
  <2>1. start + 1 \in 0..NB /\ i + 1 \in 0..NB /\ NB \in start + 1..NB /\ NB \in i + 1..NB
    BY <1>1
  <2>2. /\ Edges[(start + 1) + 1] \in Nat /\ Edges[start + 1] \in Nat
        /\ Edges[(i + 1) + 1] \in Nat /\ Edges[i + 1] \in Nat
    BY <1>1, <2>1, EdgesOrder
  <2>3. (start + 1) + 1 = start + 2 /\ (i + 1) + 1 = i + 2
    BY <1>1
  <2> QED BY <2>2, <2>3 DEF Width
<1>5. P * Width(i) \in Int /\ P * Width(start) \in Int
  BY <1>1, <1>4, Scaled, ZenonT(60)
<1>6. Begins(g, i) \in Nat /\ Bandwide(g, i) \in Nat \ {0} /\ Begins(g, i + 1) = Begins(g, i) + Bandwide(g, i)
  BY <1>2, <1>3, <1>5 DEF Begins, Bandwide
<1>7. i > start => Begins(g, i) > 0
  <2> SUFFICES ASSUME i > start PROVE Begins(g, i) > 0
    OBVIOUS
  <2>1. start + 1 \in 0..NB /\ i \in start + 1..NB /\ start < NB
    BY <1>1
  <2>2. Bin(g, start) < Bin(g, start + 1)
    BY <1>1, <2>1, Bins
  <2>3. Bin(g, start + 1) \in Int /\ Bin(g, start + 1) <= Bin(g, i)
    BY <2>1, Bins
  <2> QED BY <1>2, <2>2, <2>3 DEF Begins
<1>8. (i < g.end - 1 => Begins(g, i + 1) <= NormSize(g)) /\ NormSize(g) \in Int
  <2>1. NormSize(g) \in Int
    BY <1>2, <1>3 DEF NormSize
  <2>2. ASSUME i < g.end - 1 PROVE Begins(g, i + 1) <= NormSize(g)
    <3>1. i + 1 \in 0..NB /\ NB - 1 \in i + 1..NB
      BY <1>1, <2>2
    <3>2. Bin(g, i + 1) \in Int /\ Bin(g, i + 1) <= Bin(g, NB - 1)
      BY <3>1, Bins
    <3> QED BY <1>2, <1>3, <3>2 DEF Begins, NormSize
  <2> QED BY <2>1, <2>2
<1>9. i >= start + 2 => Bandwide(g, i) <= Begins(g, i)
  <2> SUFFICES ASSUME i >= start + 2 PROVE Bandwide(g, i) <= Begins(g, i)
    OBVIOUS
  <2>1. Width(i) <= Edges[i + 1] - Edges[start + 1]
    <3>1. i \in start + 2..g.end - 1
      BY <1>1
    <3> QED BY <3>1, GeometryFacts
  <2>2. Edges[i + 1] \in Nat /\ Edges[start + 1] \in Nat
    BY <1>1, EdgesOrder
  <2>3. P * Width(i) <= P * (Edges[i + 1] - Edges[start + 1])
    <3>1. PICK w, e : w = Width(i) /\ e = Edges[i + 1] - Edges[start + 1]
      OBVIOUS
    <3>2. w \in Int /\ e \in Int /\ w <= e
      BY <1>4, <2>1, <2>2, <3>1
    <3>3. P * w <= P * e
      BY <1>1, <3>2, Scaled, ZenonT(60)
    <3> QED BY <3>1, <3>3
  <2>4. P * (Edges[i + 1] - Edges[start + 1]) = P * Edges[i + 1] - P * Edges[start + 1]
    <3>1. PICK a, b : a = Edges[i + 1] /\ b = Edges[start + 1]
      OBVIOUS
    <3>2. a \in Int /\ b \in Int
      BY <2>2, <3>1
    <3>3. P * (a - b) = P * a - P * b
      BY <1>1, <3>2, Scaled, ZenonT(60)
    <3> QED BY <3>1, <3>3
  <2> QED BY <2>3, <2>4 DEF Begins, Bandwide, Bin
<1>10. i = start + 1 =>
              /\ Begins(g, i) = Bandwide(g, start) /\ Bandwide(g, i) <= 2 * Bandwide(g, start)
              /\ P * (Width(i) - Width(start)) = Bandwide(g, i) - Bandwide(g, start)
  <2> SUFFICES ASSUME i = start + 1
               PROVE  /\ Begins(g, i) = Bandwide(g, start) /\ Bandwide(g, i) <= 2 * Bandwide(g, start)
                      /\ P * (Width(i) - Width(start)) = Bandwide(g, i) - Bandwide(g, start)
    OBVIOUS
  <2>1. Width(i) <= 2 * Width(start)
    <3>1. start + 1 < g.end
      BY <1>1
    <3> QED BY <3>1, GeometryFacts
  <2>2. P * Width(i) <= P * (2 * Width(start))
    <3>1. PICK w, e : w = Width(i) /\ e = 2 * Width(start)
      OBVIOUS
    <3>2. w \in Int /\ e \in Int /\ w <= e
      BY <1>4, <2>1, <3>1
    <3>3. P * w <= P * e
      BY <1>1, <3>2, Scaled, ZenonT(60)
    <3> QED BY <3>1, <3>3
  <2>3. P * (2 * Width(start)) = 2 * (P * Width(start))
    BY <1>1, <1>4, Scaled, ZenonT(60)
  <2>4. P * (Width(i) - Width(start)) = P * Width(i) - P * Width(start)
    BY <1>1, <1>4, Scaled, ZenonT(60)
  <2>5. Bin(g, start + 1) = Bin(g, start) + P * Width(start)
    <3>1. start < NB
      BY <1>1
    <3> QED BY <1>1, <3>1, Bins
  <2> QED BY <1>2, <1>5, <2>2, <2>3, <2>4, <2>5 DEF Begins, Bandwide
<1>11. \A low \in start + 1..i : Begins(g, low) \in Nat /\ Begins(g, low) <= Begins(g, i)
  <2> TAKE low \in start + 1..i
  <2>1. low \in 0..NB /\ i \in low..NB /\ low \in start..NB
    BY <1>1
  <2>2. Bin(g, low) \in Int /\ Bin(g, low) <= Bin(g, i)
    BY <2>1, Bins
  <2>3. Bin(g, start) <= Bin(g, low)
    BY <1>1, <2>1, Bins
  <2> QED BY <1>2, <2>2, <2>3 DEF Begins
<1> QED BY <1>6, <1>7, <1>8, <1>9, <1>10, <1>11

\* A band reads only bins that were kept, and leaves its own to the next.
LEMMA BandFolds ==
  ASSUME NEW f, NEW st, IsGeometry(f.g), f.resynth = TRUE,
         NEW i \in f.g.start..f.g.end - 1, FoldInv(f.g, st, i)
  PROVE  FoldInv(f.g, BandStep(f, st, i), i + 1)
<1> DEFINE g == f.g
           pos == Begins(g, i)
           n == Bandwide(g, i)
           d == Bandwide(g, g.start)
           low == NextLow(f, st, i)
           had == KeptBins(f, st, i)
           view == BandView(f, st, i)
<1>1. g.start \in Nat /\ g.end \in Nat /\ (g.start + 2 <= NB \/ i = g.start)
  BY GeometryFacts, EdgesRise, SMTT(60) DEF NB
<1>2. /\ pos \in Nat /\ n \in Nat \ {0} /\ Begins(g, i + 1) = pos + n /\ (i > g.start => pos > 0)
      /\ (i < g.end - 1 => pos + n <= NormSize(g)) /\ NormSize(g) \in Int
      /\ i >= g.start + 2 => n <= pos
      /\ i = g.start + 1 =>
           /\ pos = d /\ n <= 2 * d /\ Pow2[g.lm] * (Width(i) - Width(g.start)) = n - d
      /\ \A l \in g.start + 1..i : Begins(g, l) \in Nat /\ Begins(g, l) <= pos
  BY BandLies
<1>3. st.stale = FALSE /\ (st.low = 0 \/ st.low \in g.start + 1..i) /\ 0..pos - 1 \subseteq st.norm
  <2>1. i < g.end
    BY GeometryFacts
  <2> QED BY <2>1 DEF FoldInv, Begins
<1>4. low = 0 \/ low \in g.start + 1..i
  <2>1. CASE low = st.low
    BY <2>1, <1>3
  <2>2. CASE low # st.low
    <3>1. low = i /\ (Bin(g, i) - n >= Bin(g, g.start) \/ i = g.start + 1)
      BY <2>2 DEF NextLow, Bandwide
    <3>2. g.start \in Nat /\ Bin(g, i) \in Int /\ Bin(g, g.start) \in Int
      <4>1. g.start \in 0..NB /\ i \in g.start..NB /\ g.start \in Nat
        BY GeometryFacts, EdgesRise DEF NB
      <4> QED BY <4>1, Bins
    <3>3. i # g.start
      BY <3>1, <3>2, <1>2
    <3> QED BY <3>1, <3>2, <3>3
  <2> QED BY <2>1, <2>2
<1>5. 0..pos - 1 \subseteq had
  <2>1. st.norm \subseteq had
    BY DEF KeptBins
  <2> QED BY <2>1, <1>3
<1>6. ASSUME i = g.start + 1, n > d, n <= NormSize(g)
      PROVE  0..n - 1 \subseteq had
  <2>1. Pow2[g.lm] * (Width(i) - Width(g.start)) = n - d /\ d \in Nat /\ n <= 2 * d /\ pos = d
    BY <1>2, <1>6
  <2>2. g.start + 2 <= NB
    BY GeometryFacts, <1>6, EdgesRise, SMTT(60) DEF NB
  <2>3. had = st.norm \cup {k \in d..d + (n - d) - 1 : k - (n - d) \in st.norm}
    <3>1. Most(0, n - d) = n - d /\ n - d > 0 /\ d + (n - d) <= NormSize(g)
      BY <2>1, <1>2, <1>6 DEF Most
    <3> HIDE DEF n
    <3> QED BY <2>1, <2>2, <3>1, <1>6 DEF KeptBins, Bandwide
  <2>4. \A k \in d..n - 1 : k - (n - d) \in 0..d - 1 /\ k \in d..d + (n - d) - 1
    BY <2>1, <1>2, <1>6
  <2> HIDE DEF n, d, pos, had
  <2>5. \A k \in d..n - 1 : k \in had
    BY <2>1, <2>3, <2>4, <1>3
  <2>6. \A k \in 0..n - 1 : k \in 0..d - 1 \/ k \in d..n - 1
    BY <2>1, <1>2
  <2> QED BY <2>1, <2>5, <2>6, <1>5
<1>7. view.lb \subseteq had
  <2> DEFINE from == FoldStart(f, st, i)
  <2>1. view.lb = IF from >= 0 /\ from + n <= NormSize(g) THEN from..from + n - 1 ELSE {}
    BY DEF BandView, LowbandViews, Bandwide
  <2>2. CASE ~Folding(f, st, i)
    <3>1. from = -1
      BY <2>2 DEF FoldStart
    <3> QED BY <2>1, <3>1
  <2>3. CASE Folding(f, st, i)
    <3>1. low \in g.start + 1..i /\ g.start \in Nat /\ i \in Nat
      BY <2>3, <1>4, GeometryFacts DEF Folding
    <3>2. from = Most(0, Begins(g, low) - n)
      BY <2>3 DEF FoldStart, FoldFrom, Begins, Bandwide
    <3>3. Begins(g, low) \in Nat /\ Begins(g, low) <= pos
      BY <1>2, <3>1
    <3> HIDE DEF n, pos, had, low, from, d
    <3>4. CASE Begins(g, low) >= n
      <4>1. from = Begins(g, low) - n /\ from \in Nat /\ from + n <= pos
        BY <3>2, <3>3, <3>4, <1>2 DEF Most
      <4>2. \A k \in from..from + n - 1 : k \in 0..pos - 1
        BY <4>1, <1>2
      <4> QED BY <2>1, <4>2, <1>5
    <3>5. CASE Begins(g, low) < n
      <4>1. from = 0
        BY <3>2, <3>3, <3>5, <1>2 DEF Most
      <4>2. CASE n <= pos
        <5>1. \A k \in 0..n - 1 : k \in 0..pos - 1
          BY <4>2, <1>2
        <5> QED BY <2>1, <4>1, <5>1, <1>5, <1>2
      <4>3. CASE n > pos
        <5>1. i = g.start + 1
          BY <4>3, <3>1, <1>2
        <5>2. n > d
          BY <5>1, <4>3, <1>2
        <5> QED BY <5>1, <5>2, <1>6, <2>1, <4>1, <1>2
      <4> QED BY <4>2, <4>3, <1>2
    <3> QED BY <3>3, <3>4, <3>5, <1>2
  <2> QED BY <2>2, <2>3
<1>8. BandStep(f, st, i).stale = FALSE
  BY <1>3, <1>7, BandStepFolds, ZenonT(60)
<1>9. ASSUME i + 1 < g.end PROVE 0..(pos + n) - 1 \subseteq BandStep(f, st, i).norm
  <2>1. i # g.end - 1 /\ i < g.end - 1
    BY <1>9, GeometryFacts
  <2>2. view.out = pos..pos + n - 1
    <3>1. pos + n <= NormSize(g)
      BY <2>1, <1>2
    <3> QED BY <2>1, <3>1 DEF BandView, LowbandViews, Begins, Bandwide
  <2>3. BandStep(f, st, i).norm = had \cup view.out
    BY BandStepFolds, ZenonT(60)
  <2> HIDE DEF pos, n, had, view
  <2>4. \A k \in 0..(pos + n) - 1 : k \in 0..pos - 1 \/ k \in pos..pos + n - 1
    BY <1>2
  <2> QED BY <2>2, <2>3, <2>4, <1>5
<1>10. BandStep(f, st, i).low = low
  BY BandStepFolds, ZenonT(60)
<1>11. low = 0 \/ low \in g.start + 1..i + 1
  BY <1>4
<1> HIDE DEF pos, n, low
<1> QED BY <1>2, <1>8, <1>9, <1>10, <1>11 DEF FoldInv, Begins

(***************************************************************************)
(* The bands of a frame are quantised one after the other: the loop of     *)
(* quant_all_bands() goes through a sequence of states, each a step from   *)
(* the one before.                                                         *)
(***************************************************************************)
IsFold(p, base, seq, f, n) ==
  f = [k \in 0..n |-> IF k = 0 THEN base
                      ELSE CHOOSE s \in {BandStep(p, t, seq[k]) : t \in {f[k - 1]}} : TRUE]
Done(p, base, seq) == ForEach(LAMBDA s, i : BandStep(p, s, i), base, seq)

LEMMA FoldExists ==
  ASSUME NEW p, NEW base, NEW seq, NEW n \in Nat
  PROVE  \E f : IsFold(p, base, seq, f, n)
<1> DEFINE T == {k \in Nat : \E f : IsFold(p, base, seq, f, k)}
<1>1. 0 \in T
  <2>1. IsFold(p, base, seq, [k \in 0..0 |-> base], 0)
    BY DEF IsFold
  <2> QED BY <2>1
<1>2. ASSUME NEW k \in T PROVE k + 1 \in T
  <2>1. k \in Nat
    OBVIOUS
  <2>2. PICK f : IsFold(p, base, seq, f, k)
    OBVIOUS
  <2> DEFINE h == [j \in 0..k + 1 |-> IF j = k + 1 THEN BandStep(p, f[k], seq[k + 1]) ELSE f[j]]
  <2>3. IsFold(p, base, seq, h, k + 1)
    <3>1. \A j \in 0..k : h[j] = f[j]
      BY <2>1
    <3>2. h[k + 1] = BandStep(p, f[k], seq[k + 1])
      BY <2>1
    <3>3. \A j \in 0..k : f[j] = IF j = 0 THEN base ELSE BandStep(p, f[j - 1], seq[j])
      BY <2>1, <2>2 DEF IsFold
    <3>4. \A j \in 0..k + 1 : h[j] = IF j = 0 THEN base ELSE BandStep(p, h[j - 1], seq[j])
      <4>1. TAKE j \in 0..k + 1
      <4>2. CASE j = k + 1
        BY <4>2, <3>1, <3>2, <2>1
      <4>3. CASE j # k + 1
        <5>1. j \in 0..k /\ (j # 0 => j - 1 \in 0..k)
          BY <4>3, <2>1
        <5> HIDE DEF h
        <5> QED BY <5>1, <3>1, <3>3
      <4> QED BY <4>2, <4>3
    <3>5. h = [j \in 0..k + 1 |-> h[j]]
      OBVIOUS
    <3> HIDE DEF h
    <3>6. h = [j \in 0..k + 1 |-> IF j = 0 THEN base ELSE BandStep(p, h[j - 1], seq[j])]
      BY <3>4, <3>5, ZenonT(60)
    <3> QED BY <3>6, ZenonT(60) DEF IsFold
  <2>4. \E g : IsFold(p, base, seq, g, k + 1)
    <3> HIDE DEF h
    <3> QED BY <2>3
  <2> QED BY <2>1, <2>4
<1>3. T = Nat
  <2>1. T \subseteq Nat
    OBVIOUS
  <2> HIDE DEF T
  <2> QED BY <1>1, <1>2, <2>1, Induction, ZenonT(60)
<1> QED BY <1>3

LEMMA Stepwise ==
  \A p, base, seq : Len(seq) \in Nat =>
    \E f : /\ f[0] = base
           /\ \A k \in 1..Len(seq) : f[k] = BandStep(p, f[k - 1], seq[k])
           /\ Done(p, base, seq) = f[Len(seq)]
<1> SUFFICES ASSUME NEW p, NEW base, NEW seq, Len(seq) \in Nat
             PROVE  \E f : /\ f[0] = base
                           /\ \A k \in 1..Len(seq) : f[k] = BandStep(p, f[k - 1], seq[k])
                           /\ Done(p, base, seq) = f[Len(seq)]
  OBVIOUS
<1> DEFINE n == Len(seq)
           f == CHOOSE f : IsFold(p, base, seq, f, n)
<1>1. IsFold(p, base, seq, f, n)
  BY FoldExists, Zenon
<1>2. Done(p, base, seq) = f[n]
  BY Zenon DEF Done, ForEach, IsFold
<1> HIDE DEF f
<1>3. f[0] = base /\ \A k \in 1..n : f[k] = BandStep(p, f[k - 1], seq[k])
  BY <1>1 DEF IsFold
<1> QED BY <1>2, <1>3, Zenon

LEMMA FrameFolds ==
  ASSUME NEW g, IsGeometry(g), NEW rc, NEW alloc, NEW tf, NEW short, NEW spread, NEW total
  PROVE  ~QuantAllBands(g, rc, alloc, tf, short, spread, total, TRUE, FALSE).stale
<1> DEFINE f == [g |-> g, alloc |-> alloc, tf |-> tf, blocks |-> IF short THEN Pow2[g.lm] ELSE 1,
                 spread |-> spread, total |-> total, resynth |-> TRUE, writing |-> FALSE]
           base == [rc |-> rc, noise |-> 0, dual |-> alloc.dual, masks |-> [c \in 0..1 |-> Zero],
                    balance |-> alloc.balance, update |-> TRUE, low |-> 0, norm |-> {},
                    stale |-> FALSE, over |-> FALSE]
           end == QuantAllBands(g, rc, alloc, tf, short, spread, total, TRUE, FALSE)
           n == g.end - g.start
<1>1. g.start \in Nat /\ g.end \in Nat /\ n \in Nat
  BY GeometryFacts
<1>2. Bands(g) = [k \in 1..n |-> g.start + k - 1] /\ Len(Bands(g)) = n
  <2>1. Most(n, 0) = n
    BY <1>1 DEF Most
  <2>2. Bands(g) = [k \in 1..n |-> g.start + k - 1]
    BY <2>1, Zenon DEF Bands, Upto
  <2> QED BY <1>1, <2>2
<1>3. end = Done(f, base, Bands(g))
  BY Zenon DEF QuantAllBands, Done, ForEach
<1>4. PICK run : /\ run[0] = base
                 /\ \A k \in 1..n : run[k] = BandStep(f, run[k - 1], Bands(g)[k])
                 /\ end = run[n]
  <2> HIDE DEF f, base, end, n
  <2>1. PICK seq : seq = Bands(g)
    OBVIOUS
  <2>2. Len(seq) \in Nat /\ Len(seq) = n /\ end = Done(f, base, seq)
    BY <1>1, <1>2, <1>3, <2>1
  <2>3. \E run : /\ run[0] = base
                 /\ \A k \in 1..Len(seq) : run[k] = BandStep(f, run[k - 1], seq[k])
                 /\ Done(f, base, seq) = run[Len(seq)]
    BY <2>2, Stepwise
  <2> QED BY <2>1, <2>2, <2>3
<1> DEFINE T == {k \in Nat : FoldInv(g, run[k], g.start + k)}
<1>5. 0 \in T
  <2>1. Begins(g, g.start) = 0 /\ g.start + 0 = g.start
    <3>1. g.start \in g.start..g.end - 1 /\ g.start \in 0..NB /\ g.start \in g.start..NB
      BY GeometryFacts, EdgesRise DEF NB
    <3> QED BY <1>1, <3>1, Bins DEF Begins
  <2>2. run[0].stale = FALSE /\ run[0].low = 0
    BY <1>4
  <2>3. 0..0 - 1 \subseteq run[0].norm
    OBVIOUS
  <2> QED BY <2>1, <2>2, <2>3 DEF FoldInv, Begins
<1>6. ASSUME NEW k \in 0..n - 1, k \in T PROVE k + 1 \in T
  <2>1. /\ k + 1 \in 1..n /\ (k + 1) - 1 = k /\ g.start + k \in g.start..g.end - 1
        /\ (g.start + k) + 1 = g.start + (k + 1) /\ g.start + (k + 1) - 1 = g.start + k
    BY <1>1
  <2>2. run[k + 1] = BandStep(f, run[k], g.start + k)
    BY <2>1, <1>2, <1>4, ZenonT(60)
  <2>3. f.g = g /\ f.resynth = TRUE
    OBVIOUS
  <2>4. FoldInv(g, run[k], g.start + k)
    BY <1>6
  <2> HIDE DEF f
  <2>5. FoldInv(g, BandStep(f, run[k], g.start + k), (g.start + k) + 1)
    BY <2>1, <2>3, <2>4, BandFolds, ZenonT(60)
  <2> QED BY <2>1, <2>2, <2>5
<1>7. 0..n \subseteq T
  <2> HIDE DEF T, n
  <2> QED BY <1>1, <1>5, <1>6, InductionTo
<1>8. FoldInv(g, run[n], g.start + n)
  BY <1>1, <1>7
<1> HIDE DEF end
<1>9. end.stale = FALSE
  BY <1>4, <1>8 DEF FoldInv
<1> QED BY <1>9, ZenonT(60) DEF end

(***************************************************************************)
(* A band is folded from bins that bands before it have written, or that   *)
(* were copied for the second band of a hybrid frame: never from memory of *)
(* an earlier frame.                                                       *)
(***************************************************************************)
THEOREM FoldsHold == Spec => []FoldsWrittenBins
<1> DEFINE Inv == WireInv /\ FoldsWrittenBins
<1>1. Init => Inv
  BY DEF Init, WireInv, FoldsWrittenBins
<1>2. Inv /\ [Next]_vars => Inv'
  <2> SUFFICES ASSUME WireInv, FoldsWrittenBins, [Next]_vars PROVE FoldsWrittenBins'
    BY WireKept
  <2>1. CASE Decode
    <3>1. IsGeometry(wire.g)
      BY <2>1 DEF Decode, WireInv
    <3>2. PICK front, flags, alloc, out :
            out = ReadLayers(wire, front, flags, alloc) /\ heard'.stale = out.stale
      BY <2>1 DEF Decode
    <3>3. \E rc : out.stale = QuantAllBands(wire.g, rc, alloc, flags.tf, front.short, flags.spread,
                                            64 * wire.bytes - flags.rsv, TRUE, FALSE).stale
      BY <3>2, Zenon DEF ReadLayers
    <3> QED BY <3>1, <3>2, <3>3, FrameFolds, ZenonT(60) DEF FoldsWrittenBins
  <2>2. CASE Encode \/ Lose
    BY <2>2, ZenonT(60) DEF Encode, Lose, FoldsWrittenBins
  <2>3. CASE Switch
    BY <2>3 DEF Switch, FoldsWrittenBins
  <2>4. CASE UNCHANGED vars
    BY <2>4 DEF vars, FoldsWrittenBins
  <2> QED BY <2>1, <2>2, <2>3, <2>4 DEF Next
<1>3. Inv => FoldsWrittenBins
  OBVIOUS
<1> QED BY <1>1, <1>2, <1>3, PTL DEF Spec

-----------------------------------------------------------------------------
(* The entropy coder: what its symbols cost is a number, and it stays a      *)
(* coder of the same buffer, writing or reading.                             *)

\* The logarithms of all numbers, for what its table holds and for larger ones.
LogValue(f, n) == IF n <= 24 THEN Log2Frac[n] ELSE 8 + f[(n + 1) \div 2]
LogUpto(f, k) == f \in [1..k -> Nat] /\ \A n \in 1..k : f[n] = LogValue(f, n)

\* The table rises and has no zero above its first entry.
LEMMA TableLogs ==
  /\ \A n \in 1..24 : Log2Frac[n] \in Nat
  /\ \A m \in 1..24 : \A n \in 1..m : Log2Frac[n] <= Log2Frac[m]
  /\ \A m \in 2..24 : Log2Frac[m] > 0
BY SMTT(60) DEF Log2Frac

\* Functions that agree with Log8 up to any number exist.
LEMMA LogsUpto == \A k \in Nat : \E f : LogUpto(f, k)
<1> DEFINE T == {k \in Nat : \E f : LogUpto(f, k)}
<1>1. 0 \in T
  <2>1. LogUpto([n \in 1..0 |-> 0], 0)
    BY DEF LogUpto
  <2> QED BY <2>1
<1>2. ASSUME NEW k \in T PROVE k + 1 \in T
  <2>1. k \in Nat
    OBVIOUS
  <2>2. PICK f : LogUpto(f, k)
    OBVIOUS
  <2> DEFINE v == LogValue(f, k + 1)
             h == [n \in 1..k + 1 |-> IF n = k + 1 THEN v ELSE f[n]]
  <2>3. v \in Nat
    <3>1. CASE k + 1 <= 24
      BY <2>1, <3>1, TableLogs DEF LogValue
    <3>2. CASE k + 1 > 24
      <4>1. (k + 1 + 1) \div 2 \in 1..k
        BY <2>1, <3>2
      <4> QED BY <2>2, <2>1, <3>2, <4>1 DEF LogValue, LogUpto
    <3> QED BY <2>1, <3>1, <3>2
  <2>4. h \in [1..k + 1 -> Nat]
    <3> HIDE DEF v
    <3> QED BY <2>1, <2>2, <2>3 DEF LogUpto
  <2>5. ASSUME NEW n \in 1..k + 1 PROVE h[n] = LogValue(h, n)
    <3>1. n > 24 => (n + 1) \div 2 \in 1..k
      BY <2>1
    <3>2. n > 24 => h[(n + 1) \div 2] = f[(n + 1) \div 2]
      <4> HIDE DEF v
      <4> QED BY <3>1, <2>1
    <3>3. LogValue(h, n) = LogValue(f, n)
      <4> HIDE DEF h
      <4> QED BY <3>2, <2>1 DEF LogValue
    <3>4. CASE n = k + 1
      BY <3>3, <3>4
    <3>5. CASE n # k + 1
      <4>1. n \in 1..k /\ h[n] = f[n]
        BY <3>5, <2>1
      <4> QED BY <4>1, <3>3, <2>2 DEF LogUpto
    <3> QED BY <3>4, <3>5
  <2>6. \E g : LogUpto(g, k + 1)
    <3> HIDE DEF h
    <3> QED BY <2>4, <2>5 DEF LogUpto
  <2> QED BY <2>1, <2>6
<1>3. T = Nat
  <2>1. T \subseteq Nat
    OBVIOUS
  <2> HIDE DEF T
  <2> QED BY <1>1, <1>2, <2>1, Induction, ZenonT(60)
<1> QED BY <1>3

\* Two of them agree where both are defined.
LEMMA LogsAgree ==
  ASSUME NEW k \in Nat, NEW j \in 0..k, NEW f, LogUpto(f, k), NEW h, LogUpto(h, j)
  PROVE  \A n \in 1..j : f[n] = h[n]
<1> DEFINE T == {m \in Nat : \A n \in 1..m : n <= j => f[n] = h[n]}
<1>1. 0 \in T
  OBVIOUS
<1>2. ASSUME NEW m \in T PROVE m + 1 \in T
  <2>1. m \in Nat
    OBVIOUS
  <2>2. ASSUME m + 1 <= j PROVE f[m + 1] = h[m + 1]
    <3>1. m + 1 \in 1..k /\ m + 1 \in 1..j
      BY <2>1, <2>2
    <3>2. m + 1 > 24 => (m + 1 + 1) \div 2 \in 1..m /\ (m + 1 + 1) \div 2 <= j
      BY <2>1, <2>2
    <3>3. m + 1 > 24 => f[(m + 1 + 1) \div 2] = h[(m + 1 + 1) \div 2]
      BY <3>2, <2>1
    <3> QED BY <3>1, <3>3, <2>1 DEF LogUpto, LogValue
  <2>3. \A n \in 1..m + 1 : n <= j => f[n] = h[n]
    <3> TAKE n \in 1..m + 1
    <3>1. CASE n = m + 1
      BY <3>1, <2>2
    <3>2. CASE n # m + 1
      <4>1. n \in 1..m
        BY <2>1, <3>2
      <4> QED BY <4>1
    <3> QED BY <3>1, <3>2
  <2> QED BY <2>1, <2>3
<1>3. T = Nat
  <2>1. T \subseteq Nat
    OBVIOUS
  <2> HIDE DEF T
  <2> QED BY <1>1, <1>2, <2>1, Induction, ZenonT(60)
<1>4. j \in T
  BY <1>3
<1> QED BY <1>4

\* Every price is a number.
LEMMA Logs == \A n \in Nat \ {0} : Log8[n] \in Nat
<1> DEFINE R(n) == CHOOSE f : LogUpto(f, n)
           G == [n \in Nat \ {0} |-> R(n)[n]]
           IsLog(f) == f = [n \in Nat \ {0} |-> IF n <= 24 THEN Log2Frac[n] ELSE 8 + f[(n + 1) \div 2]]
<1>1. \A n \in Nat : LogUpto(R(n), n)
  BY LogsUpto
<1> HIDE DEF R
<1>2. \A n \in Nat \ {0} : G[n] = IF n <= 24 THEN Log2Frac[n] ELSE 8 + G[(n + 1) \div 2]
  <2> TAKE n \in Nat \ {0}
  <2>1. G[n] = LogValue(R(n), n)
    <3>1. n \in 1..n
      OBVIOUS
    <3>2. R(n)[n] = LogValue(R(n), n)
      BY <1>1, <3>1 DEF LogUpto
    <3> QED BY <3>2
  <2>2. ASSUME n > 24 PROVE R(n)[(n + 1) \div 2] = G[(n + 1) \div 2]
    <3>1. PICK m : m = (n + 1) \div 2
      OBVIOUS
    <3>2. m \in 0..n /\ m \in 1..m /\ m \in Nat /\ m \in Nat \ {0}
      BY <2>2, <3>1
    <3>3. LogUpto(R(n), n) /\ LogUpto(R(m), m)
      BY <1>1, <3>2
    <3>4. R(n)[m] = R(m)[m]
      BY <3>2, <3>3, LogsAgree
    <3>5. R(n)[m] = G[m]
      BY <3>4, <3>2
    <3> QED BY <3>1, <3>5
  <2> HIDE DEF G
  <2> QED BY <2>1, <2>2 DEF LogValue
<1>3. G = [n \in Nat \ {0} |-> G[n]]
  OBVIOUS
<1>4. IsLog(G)
  <2> HIDE DEF G
  <2> QED BY <1>2, <1>3, Zenon
<1>5. Log8 = CHOOSE f : IsLog(f)
  BY DEF Log8
<1>6. IsLog(Log8)
  <2> HIDE DEF G
  <2> QED BY <1>4, <1>5, Zenon
<1> DEFINE T == {m \in Nat : \A n \in 1..m : Log8[n] \in Nat}
<1>7. 0 \in T
  OBVIOUS
<1>8. ASSUME NEW m \in T PROVE m + 1 \in T
  <2>1. m \in Nat /\ m + 1 \in Nat \ {0}
    OBVIOUS
  <2>2. Log8[m + 1] = IF m + 1 <= 24 THEN Log2Frac[m + 1] ELSE 8 + Log8[(m + 1 + 1) \div 2]
    BY <1>6, <2>1, Zenon
  <2>3. CASE m + 1 <= 24
    <3>1. Log8[m + 1] \in Nat
      BY <2>1, <2>2, <2>3, TableLogs
    <3> QED BY <2>1, <3>1
  <2>4. CASE m + 1 > 24
    <3>1. (m + 1 + 1) \div 2 \in 1..m
      BY <2>1, <2>4
    <3>2. Log8[m + 1] \in Nat
      BY <2>1, <2>2, <2>4, <3>1
    <3> QED BY <2>1, <3>2
  <2> QED BY <2>1, <2>3, <2>4
<1>9. T = Nat
  <2>1. T \subseteq Nat
    OBVIOUS
  <2> HIDE DEF T
  <2> QED BY <1>7, <1>8, <2>1, Induction, ZenonT(60)
<1>10. \A n \in Nat \ {0} : n \in T /\ n \in 1..n
  BY <1>9
<1> QED BY <1>10

\* Symbols as a frame's routines code them, and lists of such and others:
\* those a value is taken from have a number for it.
Simple == [kind : {"bit", "uint", "raw", "icdf", "laplace"}, of : Int \cup (Int \X BOOLEAN), value : Int]
Readable(Y) ==
  /\ Simple \subseteq Y
  /\ \A s \in Y : s.kind \in {"bit", "raw", "icdf", "laplace"} => s.value \in Int

\* The coders that write (or read) such symbols, with a buffer of S bytes.
Coders(w, Y, S) ==
  [writing : {w}, symbols : Seq(Y), at : Nat, used : Int, storage : {S}, seed : Nat, lost : BOOLEAN]

\* What a symbol may say, so that it has a price.
Codable(kind, of) ==
  \/ kind \in {"bit", "raw", "icdf"} /\ of \in Int
  \/ kind = "uint" /\ of \in Nat \ {0}
  \/ kind = "laplace" /\ of \in Int \X BOOLEAN

\* Every price of a symbol is a number.
LEMMA Prices ==
  ASSUME NEW kind, NEW of, Codable(kind, of), NEW value \in Int
  PROVE  Cost(kind, of, value) \in Int
<1>1. CASE kind = "bit" /\ of \in Int
  <2>1. Cost(kind, of, value) = IF value = 1 THEN 8 * of ELSE UnlikelyCost(of)
    BY <1>1, ZenonT(20) DEF Cost
  <2> QED BY <1>1, <2>1 DEF UnlikelyCost
<1>2. CASE kind = "raw" /\ of \in Int
  <2>1. Cost(kind, of, value) = 8 * of
    BY <1>2, ZenonT(20) DEF Cost
  <2> QED BY <1>2, <2>1
<1>3. CASE kind = "icdf" /\ of \in Int
  <2>1. Cost(kind, of, value) = 8 * Least(of, 3)
    BY <1>3, ZenonT(20) DEF Cost
  <2> QED BY <1>3, <2>1 DEF Least
<1>4. CASE kind = "uint" /\ of \in Nat \ {0}
  <2>1. Cost(kind, of, value) = Log8[of]
    BY <1>4, ZenonT(20) DEF Cost
  <2> QED BY <1>4, <2>1, Logs
<1>5. CASE kind = "laplace"
  <2>1. Cost(kind, of, value) = Least(120, 6 + 14 * Size(value))
    BY <1>5, ZenonT(20) DEF Cost
  <2> QED BY <2>1 DEF Least, Size
<1> QED BY <1>1, <1>2, <1>3, <1>4, <1>5 DEF Codable

\* A coder with one of its fields set.
LEMMA CoderSets ==
  ASSUME NEW w, NEW Y, NEW S, NEW rc \in Coders(w, Y, S)
  PROVE  /\ \A u \in Int : [rc EXCEPT !.used = u] \in Coders(w, Y, S)
         /\ \A s \in Seq(Y) : [rc EXCEPT !.symbols = s] \in Coders(w, Y, S)
         /\ \A a \in Nat : [rc EXCEPT !.at = a] \in Coders(w, Y, S)
         /\ \A l \in BOOLEAN : [rc EXCEPT !.lost = l] \in Coders(w, Y, S)
         /\ \A n : [rc EXCEPT !.storage = n] \in Coders(w, Y, n)
BY DEF Coders

ReadValue(rc, kind, of) == IF IsNext(rc, kind, of) THEN NextSymbol(rc).value ELSE 0
SymbolOf(kind, of, v) == [kind |-> kind, of |-> of, value |-> v]
\* The two branches of a coder.
LEMMA CodeIs ==
  ASSUME NEW rc, NEW kind, NEW of, NEW v
  PROVE  /\ rc.writing =>
              /\ Code(rc, kind, of, v).value = v
              /\ Code(rc, kind, of, v).rc = Written(rc, SymbolOf(kind, of, v), Cost(kind, of, v))
         /\ ~rc.writing =>
              /\ Code(rc, kind, of, v).value = ReadValue(rc, kind, of)
              /\ Code(rc, kind, of, v).rc
                   = Passed(rc, IsNext(rc, kind, of), Cost(kind, of, ReadValue(rc, kind, of)))
BY DEF Code, ReadValue, SymbolOf

\* The value read, or kept for the reader.
LEMMA ReadValues ==
  ASSUME NEW w, NEW Y, Readable(Y), NEW S, NEW rc \in Coders(w, Y, S), NEW kind, NEW of, Codable(kind, of)
  PROVE  ReadValue(rc, kind, of) \in Int /\ (kind = "uint" => ReadValue(rc, kind, of) \in 0..of - 1)
<1>1. PICK next : next = NextSymbol(rc)
  OBVIOUS
<1>2. rc.symbols \in Seq(Y) /\ rc.at \in Nat
  BY DEF Coders
<1>3. CASE ~IsNext(rc, kind, of)
  BY <1>3 DEF Codable, ReadValue
<1>4. CASE IsNext(rc, kind, of)
  <2>1. /\ next.kind = kind /\ next.of = of /\ ReadValue(rc, kind, of) = next.value
        /\ kind = "uint" => next.value \in 0..of - 1
    BY <1>1, <1>4 DEF IsNext, ReadValue
  <2>2. CASE kind = "uint"
    BY <2>1, <2>2 DEF Codable
  <2>3. CASE kind # "uint"
    <3>1. kind \in {"bit", "raw", "icdf", "laplace"}
      BY <2>3 DEF Codable
    <3>2. rc.at < Len(rc.symbols) /\ next = rc.symbols[rc.at + 1]
      <4>1. next.kind # "none"
        BY <2>1, <3>1
      <4>2. [kind |-> "none", of |-> 0, value |-> 0].kind = "none"
        OBVIOUS
      <4> QED BY <1>1, <4>1, <4>2, Zenon DEF NextSymbol
    <3>3. next \in Y
      BY <3>2, <1>2
    <3>4. next.value \in Int
      BY <2>1, <3>1, <3>3, Zenon DEF Readable
    <3> QED BY <2>1, <2>3, <3>4
  <2> QED BY <2>2, <2>3
<1> QED BY <1>3, <1>4

\* A coder stays one of its kind, whatever symbol it codes.
LEMMA CodeKeeps ==
  ASSUME NEW w \in BOOLEAN, NEW Y, Readable(Y), NEW S, NEW rc \in Coders(w, Y, S),
         NEW kind, NEW of, Codable(kind, of), NEW v \in Int
  PROVE  /\ Code(rc, kind, of, v).rc \in Coders(w, Y, S)
         /\ Code(rc, kind, of, v).value \in Int
         /\ w => Code(rc, kind, of, v).value = v
         /\ kind = "uint" /\ ~w => Code(rc, kind, of, v).value \in 0..of - 1
<1>1. PICK end : end = Code(rc, kind, of, v)
  OBVIOUS
<1>2. /\ rc.writing = w /\ rc.symbols \in Seq(Y) /\ rc.at \in Nat /\ rc.used \in Int
      /\ rc.lost \in BOOLEAN
  BY DEF Coders
<1>3. CASE w = TRUE
  <2>1. PICK sym : sym = SymbolOf(kind, of, v)
    OBVIOUS
  <2>2. end.value = v /\ end.rc = Written(rc, sym, Cost(kind, of, v))
    <3>1. rc.writing
      BY <1>2, <1>3
    <3>2. /\ Code(rc, kind, of, v).value = v
          /\ Code(rc, kind, of, v).rc = Written(rc, SymbolOf(kind, of, v), Cost(kind, of, v))
      BY ONLY <3>1, CodeIs
    <3> QED BY <1>1, <2>1, <3>2, Zenon
  <2>3. sym \in Y
    <3>1. sym \in Simple
      BY <2>1 DEF Simple, Codable, SymbolOf
    <3> QED BY <3>1 DEF Readable
  <2>4. PICK u, s : u = rc.used + Cost(kind, of, v) /\ s = Append(rc.symbols, sym)
    OBVIOUS
  <2>5. Cost(kind, of, v) \in Int
    BY Prices
  <2>6. u \in Int /\ s \in Seq(Y)
    BY ONLY <1>2, <2>5, <2>3, <2>4
  <2>7. [rc EXCEPT !.used = u] \in Coders(w, Y, S)
    BY <2>6, CoderSets, Zenon
  <2>8. [rc EXCEPT !.used = u, !.symbols = s] \in Coders(w, Y, S)
    BY <2>6, <2>7, CoderSets, Zenon
  <2>9. Written(rc, sym, Cost(kind, of, v)) \in Coders(w, Y, S)
    BY <2>4, <2>8, Zenon DEF Written
  <2> QED BY ONLY <1>1, <1>3, <2>2, <2>9, v \in Int
<1>4. CASE w = FALSE
  <2>1. PICK value, found : value = ReadValue(rc, kind, of) /\ found = IsNext(rc, kind, of)
    OBVIOUS
  <2>2. end.value = value /\ end.rc = Passed(rc, found, Cost(kind, of, value))
    <3>1. ~rc.writing
      BY <1>2, <1>4
    <3>2. /\ Code(rc, kind, of, v).value = ReadValue(rc, kind, of)
          /\ Code(rc, kind, of, v).rc
               = Passed(rc, IsNext(rc, kind, of), Cost(kind, of, ReadValue(rc, kind, of)))
      BY ONLY <3>1, CodeIs
    <3> QED BY <1>1, <2>1, <3>2, Zenon
  <2>3. value \in Int /\ (kind = "uint" => value \in 0..of - 1)
    BY <2>1, ReadValues, Zenon
  <2>4. PICK u, a, l : u = rc.used + Cost(kind, of, value) /\ a = rc.at + 1 /\ l = (rc.lost \/ ~found)
    OBVIOUS
  <2>5. Cost(kind, of, value) \in Int
    BY <2>3, Prices
  <2>6. u \in Int /\ a \in Nat /\ l \in BOOLEAN
    BY ONLY <1>2, <2>4, <2>5
  <2>7. [rc EXCEPT !.used = u] \in Coders(w, Y, S)
    BY <2>6, CoderSets, Zenon
  <2>8. [rc EXCEPT !.used = u, !.at = a] \in Coders(w, Y, S)
    BY <2>6, <2>7, CoderSets, Zenon
  <2>9. [rc EXCEPT !.used = u, !.at = a, !.lost = l] \in Coders(w, Y, S)
    BY <2>6, <2>8, CoderSets, Zenon
  <2>10. Passed(rc, found, Cost(kind, of, value)) \in Coders(w, Y, S)
    BY <2>4, <2>9, Zenon DEF Passed
  <2> QED BY ONLY <1>1, <1>4, <2>2, <2>3, <2>10
<1> QED BY <1>3, <1>4

\* The same of a flag; a writer is told what it wrote.
LEMMA FlagKeeps ==
  ASSUME NEW w \in BOOLEAN, NEW Y, Readable(Y), NEW S, NEW rc \in Coders(w, Y, S),
         NEW p \in Int, NEW on
  PROVE  /\ Flag(rc, p, on).rc \in Coders(w, Y, S) /\ Flag(rc, p, on).value \in BOOLEAN
         /\ w => Flag(rc, p, on).value = (IF on THEN TRUE ELSE FALSE)
<1>1. PICK bit, told : bit = (IF on THEN 1 ELSE 0) /\ told = Code(rc, "bit", p, bit)
  OBVIOUS
<1>2. Flag(rc, p, on).rc = told.rc /\ Flag(rc, p, on).value = (told.value = 1)
  BY <1>1, Zenon DEF Flag
<1>3. bit \in Int /\ Codable("bit", p) /\ (bit = 1 <=> on)
  BY <1>1 DEF Codable
<1>4. told.rc \in Coders(w, Y, S) /\ (w => told.value = bit)
  BY ONLY <1>1, <1>3, CodeKeeps, w \in BOOLEAN, Readable(Y), rc \in Coders(w, Y, S)
<1> QED BY ONLY <1>1, <1>2, <1>3, <1>4

\* What is known of a coder.
LEMMA CoderIs ==
  ASSUME NEW w, NEW Y, NEW S, NEW rc \in Coders(w, Y, S)
  PROVE  /\ rc.writing = w /\ rc.storage = S /\ TellFrac(rc) \in Int /\ Tell(rc) \in Int
         /\ rc.symbols \in Seq(Y) /\ rc.at \in Nat /\ rc.seed \in Nat
BY DEF Coders, TellFrac, Tell

\* What every round keeps holds at the end.
LEMMA RunStays ==
  ASSUME NEW X, NEW n \in Nat, NEW f, f[0] \in X, \A k \in 1..n : f[k - 1] \in X => f[k] \in X
  PROVE  f[n] \in X
<1> DEFINE T == {k \in Nat : f[k] \in X}
<1>1. 0 \in T
  OBVIOUS
<1>2. \A k \in 0..n - 1 : k \in T => k + 1 \in T
  <2> TAKE k \in 0..n - 1
  <2>1. k + 1 \in 1..n /\ (k + 1) - 1 = k /\ k + 1 \in Nat
    OBVIOUS
  <2> QED BY <2>1
<1>3. 0..n \subseteq T
  <2> HIDE DEF T
  <2> QED BY <1>1, <1>2, InductionTo
<1>4. n \in 0..n
  OBVIOUS
<1> QED BY <1>3, <1>4

-----------------------------------------------------------------------------
(* The loops of a frame: what their steps keep, they keep.  An operator      *)
(* cannot be the parameter of a lemma, so each step has a lemma of its own,  *)
(* of one and the same proof: the functions that run the loop for m rounds   *)
(* exist, by induction over m, and so its CHOOSE is one of them.             *)

SettleEnd(g, want, base, seq) ==
  ForEach(LAMBDA s, e : SettleStep(g, want, s, e), base, seq)
LEMMA SettleLoop ==
  ASSUME NEW g, NEW want, NEW base, NEW seq, Len(seq) \in Nat,
         NEW X, base \in X, \A s \in X, k \in 1..Len(seq) : SettleStep(g, want, s, seq[k]) \in X
  PROVE  SettleEnd(g, want, base, seq) \in X
<1> DEFINE n == Len(seq)
           At(f, k) == IF k = 0 THEN base
                         ELSE CHOOSE s \in {SettleStep(g, want, t, seq[k]) : t \in {f[k - 1]}} : TRUE
           IsLoop(f, m) == f = [k \in 0..m |-> At(f, k)]
           T == {m \in Nat : \E f : IsLoop(f, m)}
<1>1. n \in Nat /\ \A f : \A k \in 1..n : At(f, k) = SettleStep(g, want, f[k - 1], seq[k])
  OBVIOUS
<1>2. 0 \in T
  <2>1. IsLoop([k \in 0..0 |-> base], 0)
    OBVIOUS
  <2> QED BY <2>1
<1>3. ASSUME NEW m \in T PROVE m + 1 \in T
  <2>1. m \in Nat
    OBVIOUS
  <2>2. PICK f : IsLoop(f, m)
    OBVIOUS
  <2> DEFINE h == [k \in 0..m + 1 |-> IF k = m + 1 THEN At(f, k) ELSE f[k]]
  <2>3. \A k \in 0..m : h[k] = f[k]
    BY <2>1
  <2>4. \A k \in 0..m + 1 : At(h, k) = At(f, k)
    <3> HIDE DEF h
    <3> QED BY <2>1, <2>3
  <2>5. \A k \in 0..m + 1 : h[k] = At(h, k)
    <3> HIDE DEF At
    <3> QED BY <2>1, <2>2, <2>4
  <2>6. IsLoop(h, m + 1)
    <3> HIDE DEF At
    <3>1. h = [k \in 0..m + 1 |-> h[k]]
      OBVIOUS
    <3> HIDE DEF h
    <3> QED BY <2>5, <3>1
  <2> HIDE DEF h, IsLoop
  <2> QED BY <2>1, <2>6
<1>4. \E f : IsLoop(f, n)
  <2>1. T = Nat
    <3>1. T \subseteq Nat
      OBVIOUS
    <3> HIDE DEF T
    <3> QED BY <1>2, <1>3, <3>1, Induction, ZenonT(60)
  <2> QED BY <1>1, <2>1
<1>5. SettleEnd(g, want, base, seq) = (CHOOSE f : IsLoop(f, n))[n]
  BY Zenon DEF SettleEnd, ForEach
<1> HIDE DEF n, At
<1>6. PICK f : f = CHOOSE h : IsLoop(h, n)
  OBVIOUS
<1>7. IsLoop(f, n)
  <2> HIDE DEF IsLoop
  <2> QED BY <1>4, <1>6, Zenon
<1>8. f[0] = base /\ \A k \in 1..n : f[k] = SettleStep(g, want, f[k - 1], seq[k])
  <2>1. \A k \in 0..n : f[k] = At(f, k)
    BY <1>7
  <2>2. At(f, 0) = base
    BY DEF At
  <2> QED BY ONLY <1>1, <2>1, <2>2
<1>9. f[0] \in X /\ \A k \in 1..n : f[k - 1] \in X => f[k] \in X
  BY <1>8, n = Len(seq) DEF n
<1>10. f[n] \in X
  BY ONLY <1>1, <1>9, RunStays
<1> QED BY <1>5, <1>6, <1>10, Zenon


RowEnd(g, offsets, trim, total, base, seq) ==
  ForEach(LAMBDA s, e : RowHalve(g, offsets, trim, total, s), base, seq)
LEMMA RowLoop ==
  ASSUME NEW g, NEW offsets, NEW trim, NEW total, NEW base, NEW seq, Len(seq) \in Nat,
         NEW X, base \in X, \A s \in X, k \in 1..Len(seq) : RowHalve(g, offsets, trim, total, s) \in X
  PROVE  RowEnd(g, offsets, trim, total, base, seq) \in X
<1> DEFINE n == Len(seq)
           At(f, k) == IF k = 0 THEN base
                         ELSE CHOOSE s \in {RowHalve(g, offsets, trim, total, t) : t \in {f[k - 1]}} : TRUE
           IsLoop(f, m) == f = [k \in 0..m |-> At(f, k)]
           T == {m \in Nat : \E f : IsLoop(f, m)}
<1>1. /\ n \in Nat
      /\ \A f : \A k \in 1..n : At(f, k) = RowHalve(g, offsets, trim, total, f[k - 1])
  OBVIOUS
<1>2. 0 \in T
  <2>1. IsLoop([k \in 0..0 |-> base], 0)
    OBVIOUS
  <2> QED BY <2>1
<1>3. ASSUME NEW m \in T PROVE m + 1 \in T
  <2>1. m \in Nat
    OBVIOUS
  <2>2. PICK f : IsLoop(f, m)
    OBVIOUS
  <2> DEFINE h == [k \in 0..m + 1 |-> IF k = m + 1 THEN At(f, k) ELSE f[k]]
  <2>3. \A k \in 0..m : h[k] = f[k]
    BY <2>1
  <2>4. \A k \in 0..m + 1 : At(h, k) = At(f, k)
    <3> HIDE DEF h
    <3> QED BY <2>1, <2>3
  <2>5. \A k \in 0..m + 1 : h[k] = At(h, k)
    <3> HIDE DEF At
    <3> QED BY <2>1, <2>2, <2>4
  <2>6. IsLoop(h, m + 1)
    <3> HIDE DEF At
    <3>1. h = [k \in 0..m + 1 |-> h[k]]
      OBVIOUS
    <3> HIDE DEF h
    <3> QED BY <2>5, <3>1
  <2> HIDE DEF h, IsLoop
  <2> QED BY <2>1, <2>6
<1>4. \E f : IsLoop(f, n)
  <2>1. T = Nat
    <3>1. T \subseteq Nat
      OBVIOUS
    <3> HIDE DEF T
    <3> QED BY <1>2, <1>3, <3>1, Induction, ZenonT(60)
  <2> QED BY <1>1, <2>1
<1>5. RowEnd(g, offsets, trim, total, base, seq) = (CHOOSE f : IsLoop(f, n))[n]
  BY Zenon DEF RowEnd, ForEach
<1> HIDE DEF n, At
<1>6. PICK f : f = CHOOSE h : IsLoop(h, n)
  OBVIOUS
<1>7. IsLoop(f, n)
  <2> HIDE DEF IsLoop
  <2> QED BY <1>4, <1>6, Zenon
<1>8. f[0] = base /\ \A k \in 1..n : f[k] = RowHalve(g, offsets, trim, total, f[k - 1])
  <2>1. \A k \in 0..n : f[k] = At(f, k)
    BY <1>7
  <2>2. At(f, 0) = base
    BY DEF At
  <2> QED BY ONLY <1>1, <2>1, <2>2
<1>9. f[0] \in X /\ \A k \in 1..n : f[k - 1] \in X => f[k] \in X
  BY <1>8, n = Len(seq) DEF n
<1>10. f[n] \in X
  BY ONLY <1>1, <1>9, RunStays
<1> QED BY <1>5, <1>6, <1>10, Zenon


WayEnd(g, bits1, bits2, total, base, seq) ==
  ForEach(LAMBDA s, e : WayHalve(g, bits1, bits2, total, s), base, seq)
LEMMA WayLoop ==
  ASSUME NEW g, NEW bits1, NEW bits2, NEW total, NEW base, NEW seq, Len(seq) \in Nat,
         NEW X, base \in X, \A s \in X, k \in 1..Len(seq) : WayHalve(g, bits1, bits2, total, s) \in X
  PROVE  WayEnd(g, bits1, bits2, total, base, seq) \in X
<1> DEFINE n == Len(seq)
           At(f, k) == IF k = 0 THEN base
                         ELSE CHOOSE s \in {WayHalve(g, bits1, bits2, total, t) : t \in {f[k - 1]}} : TRUE
           IsLoop(f, m) == f = [k \in 0..m |-> At(f, k)]
           T == {m \in Nat : \E f : IsLoop(f, m)}
<1>1. n \in Nat /\ \A f : \A k \in 1..n : At(f, k) = WayHalve(g, bits1, bits2, total, f[k - 1])
  OBVIOUS
<1>2. 0 \in T
  <2>1. IsLoop([k \in 0..0 |-> base], 0)
    OBVIOUS
  <2> QED BY <2>1
<1>3. ASSUME NEW m \in T PROVE m + 1 \in T
  <2>1. m \in Nat
    OBVIOUS
  <2>2. PICK f : IsLoop(f, m)
    OBVIOUS
  <2> DEFINE h == [k \in 0..m + 1 |-> IF k = m + 1 THEN At(f, k) ELSE f[k]]
  <2>3. \A k \in 0..m : h[k] = f[k]
    BY <2>1
  <2>4. \A k \in 0..m + 1 : At(h, k) = At(f, k)
    <3> HIDE DEF h
    <3> QED BY <2>1, <2>3
  <2>5. \A k \in 0..m + 1 : h[k] = At(h, k)
    <3> HIDE DEF At
    <3> QED BY <2>1, <2>2, <2>4
  <2>6. IsLoop(h, m + 1)
    <3> HIDE DEF At
    <3>1. h = [k \in 0..m + 1 |-> h[k]]
      OBVIOUS
    <3> HIDE DEF h
    <3> QED BY <2>5, <3>1
  <2> HIDE DEF h, IsLoop
  <2> QED BY <2>1, <2>6
<1>4. \E f : IsLoop(f, n)
  <2>1. T = Nat
    <3>1. T \subseteq Nat
      OBVIOUS
    <3> HIDE DEF T
    <3> QED BY <1>2, <1>3, <3>1, Induction, ZenonT(60)
  <2> QED BY <1>1, <2>1
<1>5. WayEnd(g, bits1, bits2, total, base, seq) = (CHOOSE f : IsLoop(f, n))[n]
  BY Zenon DEF WayEnd, ForEach
<1> HIDE DEF n, At
<1>6. PICK f : f = CHOOSE h : IsLoop(h, n)
  OBVIOUS
<1>7. IsLoop(f, n)
  <2> HIDE DEF IsLoop
  <2> QED BY <1>4, <1>6, Zenon
<1>8. f[0] = base /\ \A k \in 1..n : f[k] = WayHalve(g, bits1, bits2, total, f[k - 1])
  <2>1. \A k \in 0..n : f[k] = At(f, k)
    BY <1>7
  <2>2. At(f, 0) = base
    BY DEF At
  <2> QED BY ONLY <1>1, <2>1, <2>2
<1>9. f[0] \in X /\ \A k \in 1..n : f[k - 1] \in X => f[k] \in X
  BY <1>8, n = Len(seq) DEF n
<1>10. f[n] \in X
  BY ONLY <1>1, <1>9, RunStays
<1> QED BY <1>5, <1>6, <1>10, Zenon


SkipEnd(g, skipStart, base, seq) ==
  ForEach(LAMBDA s, e : SkipStep(g, skipStart, s), base, seq)
LEMMA SkipLoop ==
  ASSUME NEW g, NEW skipStart, NEW base, NEW seq, Len(seq) \in Nat,
         NEW X, base \in X, \A s \in X, k \in 1..Len(seq) : SkipStep(g, skipStart, s) \in X
  PROVE  SkipEnd(g, skipStart, base, seq) \in X
<1> DEFINE n == Len(seq)
           At(f, k) == IF k = 0 THEN base
                         ELSE CHOOSE s \in {SkipStep(g, skipStart, t) : t \in {f[k - 1]}} : TRUE
           IsLoop(f, m) == f = [k \in 0..m |-> At(f, k)]
           T == {m \in Nat : \E f : IsLoop(f, m)}
<1>1. n \in Nat /\ \A f : \A k \in 1..n : At(f, k) = SkipStep(g, skipStart, f[k - 1])
  OBVIOUS
<1>2. 0 \in T
  <2>1. IsLoop([k \in 0..0 |-> base], 0)
    OBVIOUS
  <2> QED BY <2>1
<1>3. ASSUME NEW m \in T PROVE m + 1 \in T
  <2>1. m \in Nat
    OBVIOUS
  <2>2. PICK f : IsLoop(f, m)
    OBVIOUS
  <2> DEFINE h == [k \in 0..m + 1 |-> IF k = m + 1 THEN At(f, k) ELSE f[k]]
  <2>3. \A k \in 0..m : h[k] = f[k]
    BY <2>1
  <2>4. \A k \in 0..m + 1 : At(h, k) = At(f, k)
    <3> HIDE DEF h
    <3> QED BY <2>1, <2>3
  <2>5. \A k \in 0..m + 1 : h[k] = At(h, k)
    <3> HIDE DEF At
    <3> QED BY <2>1, <2>2, <2>4
  <2>6. IsLoop(h, m + 1)
    <3> HIDE DEF At
    <3>1. h = [k \in 0..m + 1 |-> h[k]]
      OBVIOUS
    <3> HIDE DEF h
    <3> QED BY <2>5, <3>1
  <2> HIDE DEF h, IsLoop
  <2> QED BY <2>1, <2>6
<1>4. \E f : IsLoop(f, n)
  <2>1. T = Nat
    <3>1. T \subseteq Nat
      OBVIOUS
    <3> HIDE DEF T
    <3> QED BY <1>2, <1>3, <3>1, Induction, ZenonT(60)
  <2> QED BY <1>1, <2>1
<1>5. SkipEnd(g, skipStart, base, seq) = (CHOOSE f : IsLoop(f, n))[n]
  BY Zenon DEF SkipEnd, ForEach
<1> HIDE DEF n, At
<1>6. PICK f : f = CHOOSE h : IsLoop(h, n)
  OBVIOUS
<1>7. IsLoop(f, n)
  <2> HIDE DEF IsLoop
  <2> QED BY <1>4, <1>6, Zenon
<1>8. f[0] = base /\ \A k \in 1..n : f[k] = SkipStep(g, skipStart, f[k - 1])
  <2>1. \A k \in 0..n : f[k] = At(f, k)
    BY <1>7
  <2>2. At(f, 0) = base
    BY DEF At
  <2> QED BY ONLY <1>1, <2>1, <2>2
<1>9. f[0] \in X /\ \A k \in 1..n : f[k - 1] \in X => f[k] \in X
  BY <1>8, n = Len(seq) DEF n
<1>10. f[n] \in X
  BY ONLY <1>1, <1>9, RunStays
<1> QED BY <1>5, <1>6, <1>10, Zenon


SpreadEnd(each, base, seq) ==
  ForEach(LAMBDA s, e : SpreadStep(each, s, e), base, seq)
LEMMA SpreadLoop ==
  ASSUME NEW each, NEW base, NEW seq, Len(seq) \in Nat,
         NEW X, base \in X, \A s \in X, k \in 1..Len(seq) : SpreadStep(each, s, seq[k]) \in X
  PROVE  SpreadEnd(each, base, seq) \in X
<1> DEFINE n == Len(seq)
           At(f, k) == IF k = 0 THEN base
                         ELSE CHOOSE s \in {SpreadStep(each, t, seq[k]) : t \in {f[k - 1]}} : TRUE
           IsLoop(f, m) == f = [k \in 0..m |-> At(f, k)]
           T == {m \in Nat : \E f : IsLoop(f, m)}
<1>1. n \in Nat /\ \A f : \A k \in 1..n : At(f, k) = SpreadStep(each, f[k - 1], seq[k])
  OBVIOUS
<1>2. 0 \in T
  <2>1. IsLoop([k \in 0..0 |-> base], 0)
    OBVIOUS
  <2> QED BY <2>1
<1>3. ASSUME NEW m \in T PROVE m + 1 \in T
  <2>1. m \in Nat
    OBVIOUS
  <2>2. PICK f : IsLoop(f, m)
    OBVIOUS
  <2> DEFINE h == [k \in 0..m + 1 |-> IF k = m + 1 THEN At(f, k) ELSE f[k]]
  <2>3. \A k \in 0..m : h[k] = f[k]
    BY <2>1
  <2>4. \A k \in 0..m + 1 : At(h, k) = At(f, k)
    <3> HIDE DEF h
    <3> QED BY <2>1, <2>3
  <2>5. \A k \in 0..m + 1 : h[k] = At(h, k)
    <3> HIDE DEF At
    <3> QED BY <2>1, <2>2, <2>4
  <2>6. IsLoop(h, m + 1)
    <3> HIDE DEF At
    <3>1. h = [k \in 0..m + 1 |-> h[k]]
      OBVIOUS
    <3> HIDE DEF h
    <3> QED BY <2>5, <3>1
  <2> HIDE DEF h, IsLoop
  <2> QED BY <2>1, <2>6
<1>4. \E f : IsLoop(f, n)
  <2>1. T = Nat
    <3>1. T \subseteq Nat
      OBVIOUS
    <3> HIDE DEF T
    <3> QED BY <1>2, <1>3, <3>1, Induction, ZenonT(60)
  <2> QED BY <1>1, <2>1
<1>5. SpreadEnd(each, base, seq) = (CHOOSE f : IsLoop(f, n))[n]
  BY Zenon DEF SpreadEnd, ForEach
<1> HIDE DEF n, At
<1>6. PICK f : f = CHOOSE h : IsLoop(h, n)
  OBVIOUS
<1>7. IsLoop(f, n)
  <2> HIDE DEF IsLoop
  <2> QED BY <1>4, <1>6, Zenon
<1>8. f[0] = base /\ \A k \in 1..n : f[k] = SpreadStep(each, f[k - 1], seq[k])
  <2>1. \A k \in 0..n : f[k] = At(f, k)
    BY <1>7
  <2>2. At(f, 0) = base
    BY DEF At
  <2> QED BY ONLY <1>1, <2>1, <2>2
<1>9. f[0] \in X /\ \A k \in 1..n : f[k - 1] \in X => f[k] \in X
  BY <1>8, n = Len(seq) DEF n
<1>10. f[n] \in X
  BY ONLY <1>1, <1>9, RunStays
<1> QED BY <1>5, <1>6, <1>10, Zenon


SplitEnd(g, stereo, base, seq) ==
  ForEach(LAMBDA s, e : SplitBand(g, s, e, stereo), base, seq)
LEMMA SplitLoop ==
  ASSUME NEW g, NEW stereo, NEW base, NEW seq, Len(seq) \in Nat,
         NEW X, base \in X, \A s \in X, k \in 1..Len(seq) : SplitBand(g, s, seq[k], stereo) \in X
  PROVE  SplitEnd(g, stereo, base, seq) \in X
<1> DEFINE n == Len(seq)
           At(f, k) == IF k = 0 THEN base
                         ELSE CHOOSE s \in {SplitBand(g, t, seq[k], stereo) : t \in {f[k - 1]}} : TRUE
           IsLoop(f, m) == f = [k \in 0..m |-> At(f, k)]
           T == {m \in Nat : \E f : IsLoop(f, m)}
<1>1. n \in Nat /\ \A f : \A k \in 1..n : At(f, k) = SplitBand(g, f[k - 1], seq[k], stereo)
  OBVIOUS
<1>2. 0 \in T
  <2>1. IsLoop([k \in 0..0 |-> base], 0)
    OBVIOUS
  <2> QED BY <2>1
<1>3. ASSUME NEW m \in T PROVE m + 1 \in T
  <2>1. m \in Nat
    OBVIOUS
  <2>2. PICK f : IsLoop(f, m)
    OBVIOUS
  <2> DEFINE h == [k \in 0..m + 1 |-> IF k = m + 1 THEN At(f, k) ELSE f[k]]
  <2>3. \A k \in 0..m : h[k] = f[k]
    BY <2>1
  <2>4. \A k \in 0..m + 1 : At(h, k) = At(f, k)
    <3> HIDE DEF h
    <3> QED BY <2>1, <2>3
  <2>5. \A k \in 0..m + 1 : h[k] = At(h, k)
    <3> HIDE DEF At
    <3> QED BY <2>1, <2>2, <2>4
  <2>6. IsLoop(h, m + 1)
    <3> HIDE DEF At
    <3>1. h = [k \in 0..m + 1 |-> h[k]]
      OBVIOUS
    <3> HIDE DEF h
    <3> QED BY <2>5, <3>1
  <2> HIDE DEF h, IsLoop
  <2> QED BY <2>1, <2>6
<1>4. \E f : IsLoop(f, n)
  <2>1. T = Nat
    <3>1. T \subseteq Nat
      OBVIOUS
    <3> HIDE DEF T
    <3> QED BY <1>2, <1>3, <3>1, Induction, ZenonT(60)
  <2> QED BY <1>1, <2>1
<1>5. SplitEnd(g, stereo, base, seq) = (CHOOSE f : IsLoop(f, n))[n]
  BY Zenon DEF SplitEnd, ForEach
<1> HIDE DEF n, At
<1>6. PICK f : f = CHOOSE h : IsLoop(h, n)
  OBVIOUS
<1>7. IsLoop(f, n)
  <2> HIDE DEF IsLoop
  <2> QED BY <1>4, <1>6, Zenon
<1>8. f[0] = base /\ \A k \in 1..n : f[k] = SplitBand(g, f[k - 1], seq[k], stereo)
  <2>1. \A k \in 0..n : f[k] = At(f, k)
    BY <1>7
  <2>2. At(f, 0) = base
    BY DEF At
  <2> QED BY ONLY <1>1, <2>1, <2>2
<1>9. f[0] \in X /\ \A k \in 1..n : f[k - 1] \in X => f[k] \in X
  BY <1>8, n = Len(seq) DEF n
<1>10. f[n] \in X
  BY ONLY <1>1, <1>9, RunStays
<1> QED BY <1>5, <1>6, <1>10, Zenon


UncodedEnd(g, base, seq) ==
  ForEach(LAMBDA s, e : UncodedBand(g, s, e), base, seq)
LEMMA UncodedLoop ==
  ASSUME NEW g, NEW base, NEW seq, Len(seq) \in Nat,
         NEW X, base \in X, \A s \in X, k \in 1..Len(seq) : UncodedBand(g, s, seq[k]) \in X
  PROVE  UncodedEnd(g, base, seq) \in X
<1> DEFINE n == Len(seq)
           At(f, k) == IF k = 0 THEN base
                         ELSE CHOOSE s \in {UncodedBand(g, t, seq[k]) : t \in {f[k - 1]}} : TRUE
           IsLoop(f, m) == f = [k \in 0..m |-> At(f, k)]
           T == {m \in Nat : \E f : IsLoop(f, m)}
<1>1. n \in Nat /\ \A f : \A k \in 1..n : At(f, k) = UncodedBand(g, f[k - 1], seq[k])
  OBVIOUS
<1>2. 0 \in T
  <2>1. IsLoop([k \in 0..0 |-> base], 0)
    OBVIOUS
  <2> QED BY <2>1
<1>3. ASSUME NEW m \in T PROVE m + 1 \in T
  <2>1. m \in Nat
    OBVIOUS
  <2>2. PICK f : IsLoop(f, m)
    OBVIOUS
  <2> DEFINE h == [k \in 0..m + 1 |-> IF k = m + 1 THEN At(f, k) ELSE f[k]]
  <2>3. \A k \in 0..m : h[k] = f[k]
    BY <2>1
  <2>4. \A k \in 0..m + 1 : At(h, k) = At(f, k)
    <3> HIDE DEF h
    <3> QED BY <2>1, <2>3
  <2>5. \A k \in 0..m + 1 : h[k] = At(h, k)
    <3> HIDE DEF At
    <3> QED BY <2>1, <2>2, <2>4
  <2>6. IsLoop(h, m + 1)
    <3> HIDE DEF At
    <3>1. h = [k \in 0..m + 1 |-> h[k]]
      OBVIOUS
    <3> HIDE DEF h
    <3> QED BY <2>5, <3>1
  <2> HIDE DEF h, IsLoop
  <2> QED BY <2>1, <2>6
<1>4. \E f : IsLoop(f, n)
  <2>1. T = Nat
    <3>1. T \subseteq Nat
      OBVIOUS
    <3> HIDE DEF T
    <3> QED BY <1>2, <1>3, <3>1, Induction, ZenonT(60)
  <2> QED BY <1>1, <2>1
<1>5. UncodedEnd(g, base, seq) = (CHOOSE f : IsLoop(f, n))[n]
  BY Zenon DEF UncodedEnd, ForEach
<1> HIDE DEF n, At
<1>6. PICK f : f = CHOOSE h : IsLoop(h, n)
  OBVIOUS
<1>7. IsLoop(f, n)
  <2> HIDE DEF IsLoop
  <2> QED BY <1>4, <1>6, Zenon
<1>8. f[0] = base /\ \A k \in 1..n : f[k] = UncodedBand(g, f[k - 1], seq[k])
  <2>1. \A k \in 0..n : f[k] = At(f, k)
    BY <1>7
  <2>2. At(f, 0) = base
    BY DEF At
  <2> QED BY ONLY <1>1, <2>1, <2>2
<1>9. f[0] \in X /\ \A k \in 1..n : f[k - 1] \in X => f[k] \in X
  BY <1>8, n = Len(seq) DEF n
<1>10. f[n] \in X
  BY ONLY <1>1, <1>9, RunStays
<1> QED BY <1>5, <1>6, <1>10, Zenon


TfEnd(transient, marks, budget, base, seq) ==
  ForEach(LAMBDA s, e : TfStep(transient, marks, budget, s, e), base, seq)
LEMMA TfLoop ==
  ASSUME NEW transient, NEW marks, NEW budget, NEW base, NEW seq, Len(seq) \in Nat,
         NEW X, base \in X, \A s \in X, k \in 1..Len(seq) : TfStep(transient, marks, budget, s, seq[k]) \in X
  PROVE  TfEnd(transient, marks, budget, base, seq) \in X
<1> DEFINE n == Len(seq)
           At(f, k) == IF k = 0 THEN base
                         ELSE CHOOSE s \in {TfStep(transient, marks, budget, t, seq[k]) : t \in {f[k - 1]}} : TRUE
           IsLoop(f, m) == f = [k \in 0..m |-> At(f, k)]
           T == {m \in Nat : \E f : IsLoop(f, m)}
<1>1. /\ n \in Nat
      /\ \A f : \A k \in 1..n : At(f, k) = TfStep(transient, marks, budget, f[k - 1], seq[k])
  OBVIOUS
<1>2. 0 \in T
  <2>1. IsLoop([k \in 0..0 |-> base], 0)
    OBVIOUS
  <2> QED BY <2>1
<1>3. ASSUME NEW m \in T PROVE m + 1 \in T
  <2>1. m \in Nat
    OBVIOUS
  <2>2. PICK f : IsLoop(f, m)
    OBVIOUS
  <2> DEFINE h == [k \in 0..m + 1 |-> IF k = m + 1 THEN At(f, k) ELSE f[k]]
  <2>3. \A k \in 0..m : h[k] = f[k]
    BY <2>1
  <2>4. \A k \in 0..m + 1 : At(h, k) = At(f, k)
    <3> HIDE DEF h
    <3> QED BY <2>1, <2>3
  <2>5. \A k \in 0..m + 1 : h[k] = At(h, k)
    <3> HIDE DEF At
    <3> QED BY <2>1, <2>2, <2>4
  <2>6. IsLoop(h, m + 1)
    <3> HIDE DEF At
    <3>1. h = [k \in 0..m + 1 |-> h[k]]
      OBVIOUS
    <3> HIDE DEF h
    <3> QED BY <2>5, <3>1
  <2> HIDE DEF h, IsLoop
  <2> QED BY <2>1, <2>6
<1>4. \E f : IsLoop(f, n)
  <2>1. T = Nat
    <3>1. T \subseteq Nat
      OBVIOUS
    <3> HIDE DEF T
    <3> QED BY <1>2, <1>3, <3>1, Induction, ZenonT(60)
  <2> QED BY <1>1, <2>1
<1>5. TfEnd(transient, marks, budget, base, seq) = (CHOOSE f : IsLoop(f, n))[n]
  BY Zenon DEF TfEnd, ForEach
<1> HIDE DEF n, At
<1>6. PICK f : f = CHOOSE h : IsLoop(h, n)
  OBVIOUS
<1>7. IsLoop(f, n)
  <2> HIDE DEF IsLoop
  <2> QED BY <1>4, <1>6, Zenon
<1>8. f[0] = base /\ \A k \in 1..n : f[k] = TfStep(transient, marks, budget, f[k - 1], seq[k])
  <2>1. \A k \in 0..n : f[k] = At(f, k)
    BY <1>7
  <2>2. At(f, 0) = base
    BY DEF At
  <2> QED BY ONLY <1>1, <2>1, <2>2
<1>9. f[0] \in X /\ \A k \in 1..n : f[k - 1] \in X => f[k] \in X
  BY <1>8, n = Len(seq) DEF n
<1>10. f[n] \in X
  BY ONLY <1>1, <1>9, RunStays
<1> QED BY <1>5, <1>6, <1>10, Zenon


MoreEnd(g, i, wanted, base, seq) ==
  ForEach(LAMBDA s, e : BoostMore(g, i, wanted, s), base, seq)
LEMMA MoreLoop ==
  ASSUME NEW g, NEW i, NEW wanted, NEW base, NEW seq, Len(seq) \in Nat,
         NEW X, base \in X, \A s \in X, k \in 1..Len(seq) : BoostMore(g, i, wanted, s) \in X
  PROVE  MoreEnd(g, i, wanted, base, seq) \in X
<1> DEFINE n == Len(seq)
           At(f, k) == IF k = 0 THEN base
                         ELSE CHOOSE s \in {BoostMore(g, i, wanted, t) : t \in {f[k - 1]}} : TRUE
           IsLoop(f, m) == f = [k \in 0..m |-> At(f, k)]
           T == {m \in Nat : \E f : IsLoop(f, m)}
<1>1. n \in Nat /\ \A f : \A k \in 1..n : At(f, k) = BoostMore(g, i, wanted, f[k - 1])
  OBVIOUS
<1>2. 0 \in T
  <2>1. IsLoop([k \in 0..0 |-> base], 0)
    OBVIOUS
  <2> QED BY <2>1
<1>3. ASSUME NEW m \in T PROVE m + 1 \in T
  <2>1. m \in Nat
    OBVIOUS
  <2>2. PICK f : IsLoop(f, m)
    OBVIOUS
  <2> DEFINE h == [k \in 0..m + 1 |-> IF k = m + 1 THEN At(f, k) ELSE f[k]]
  <2>3. \A k \in 0..m : h[k] = f[k]
    BY <2>1
  <2>4. \A k \in 0..m + 1 : At(h, k) = At(f, k)
    <3> HIDE DEF h
    <3> QED BY <2>1, <2>3
  <2>5. \A k \in 0..m + 1 : h[k] = At(h, k)
    <3> HIDE DEF At
    <3> QED BY <2>1, <2>2, <2>4
  <2>6. IsLoop(h, m + 1)
    <3> HIDE DEF At
    <3>1. h = [k \in 0..m + 1 |-> h[k]]
      OBVIOUS
    <3> HIDE DEF h
    <3> QED BY <2>5, <3>1
  <2> HIDE DEF h, IsLoop
  <2> QED BY <2>1, <2>6
<1>4. \E f : IsLoop(f, n)
  <2>1. T = Nat
    <3>1. T \subseteq Nat
      OBVIOUS
    <3> HIDE DEF T
    <3> QED BY <1>2, <1>3, <3>1, Induction, ZenonT(60)
  <2> QED BY <1>1, <2>1
<1>5. MoreEnd(g, i, wanted, base, seq) = (CHOOSE f : IsLoop(f, n))[n]
  BY Zenon DEF MoreEnd, ForEach
<1> HIDE DEF n, At
<1>6. PICK f : f = CHOOSE h : IsLoop(h, n)
  OBVIOUS
<1>7. IsLoop(f, n)
  <2> HIDE DEF IsLoop
  <2> QED BY <1>4, <1>6, Zenon
<1>8. f[0] = base /\ \A k \in 1..n : f[k] = BoostMore(g, i, wanted, f[k - 1])
  <2>1. \A k \in 0..n : f[k] = At(f, k)
    BY <1>7
  <2>2. At(f, 0) = base
    BY DEF At
  <2> QED BY ONLY <1>1, <2>1, <2>2
<1>9. f[0] \in X /\ \A k \in 1..n : f[k - 1] \in X => f[k] \in X
  BY <1>8, n = Len(seq) DEF n
<1>10. f[n] \in X
  BY ONLY <1>1, <1>9, RunStays
<1> QED BY <1>5, <1>6, <1>10, Zenon


BoostEnd(g, wanted, base, seq) ==
  ForEach(LAMBDA s, e : BoostBand(g, wanted, s, e), base, seq)
LEMMA BoostLoop ==
  ASSUME NEW g, NEW wanted, NEW base, NEW seq, Len(seq) \in Nat,
         NEW X, base \in X, \A s \in X, k \in 1..Len(seq) : BoostBand(g, wanted, s, seq[k]) \in X
  PROVE  BoostEnd(g, wanted, base, seq) \in X
<1> DEFINE n == Len(seq)
           At(f, k) == IF k = 0 THEN base
                         ELSE CHOOSE s \in {BoostBand(g, wanted, t, seq[k]) : t \in {f[k - 1]}} : TRUE
           IsLoop(f, m) == f = [k \in 0..m |-> At(f, k)]
           T == {m \in Nat : \E f : IsLoop(f, m)}
<1>1. n \in Nat /\ \A f : \A k \in 1..n : At(f, k) = BoostBand(g, wanted, f[k - 1], seq[k])
  OBVIOUS
<1>2. 0 \in T
  <2>1. IsLoop([k \in 0..0 |-> base], 0)
    OBVIOUS
  <2> QED BY <2>1
<1>3. ASSUME NEW m \in T PROVE m + 1 \in T
  <2>1. m \in Nat
    OBVIOUS
  <2>2. PICK f : IsLoop(f, m)
    OBVIOUS
  <2> DEFINE h == [k \in 0..m + 1 |-> IF k = m + 1 THEN At(f, k) ELSE f[k]]
  <2>3. \A k \in 0..m : h[k] = f[k]
    BY <2>1
  <2>4. \A k \in 0..m + 1 : At(h, k) = At(f, k)
    <3> HIDE DEF h
    <3> QED BY <2>1, <2>3
  <2>5. \A k \in 0..m + 1 : h[k] = At(h, k)
    <3> HIDE DEF At
    <3> QED BY <2>1, <2>2, <2>4
  <2>6. IsLoop(h, m + 1)
    <3> HIDE DEF At
    <3>1. h = [k \in 0..m + 1 |-> h[k]]
      OBVIOUS
    <3> HIDE DEF h
    <3> QED BY <2>5, <3>1
  <2> HIDE DEF h, IsLoop
  <2> QED BY <2>1, <2>6
<1>4. \E f : IsLoop(f, n)
  <2>1. T = Nat
    <3>1. T \subseteq Nat
      OBVIOUS
    <3> HIDE DEF T
    <3> QED BY <1>2, <1>3, <3>1, Induction, ZenonT(60)
  <2> QED BY <1>1, <2>1
<1>5. BoostEnd(g, wanted, base, seq) = (CHOOSE f : IsLoop(f, n))[n]
  BY Zenon DEF BoostEnd, ForEach
<1> HIDE DEF n, At
<1>6. PICK f : f = CHOOSE h : IsLoop(h, n)
  OBVIOUS
<1>7. IsLoop(f, n)
  <2> HIDE DEF IsLoop
  <2> QED BY <1>4, <1>6, Zenon
<1>8. f[0] = base /\ \A k \in 1..n : f[k] = BoostBand(g, wanted, f[k - 1], seq[k])
  <2>1. \A k \in 0..n : f[k] = At(f, k)
    BY <1>7
  <2>2. At(f, 0) = base
    BY DEF At
  <2> QED BY ONLY <1>1, <2>1, <2>2
<1>9. f[0] \in X /\ \A k \in 1..n : f[k - 1] \in X => f[k] \in X
  BY <1>8, n = Len(seq) DEF n
<1>10. f[n] \in X
  BY ONLY <1>1, <1>9, RunStays
<1> QED BY <1>5, <1>6, <1>10, Zenon


CoarseEnd(g, want, budget, intra, bytes, base, seq) ==
  ForEach(LAMBDA s, e : CoarseStep(g, want, budget, intra, bytes, s, e), base, seq)
LEMMA CoarseLoop ==
  ASSUME NEW g, NEW want, NEW budget, NEW intra, NEW bytes, NEW base, NEW seq, Len(seq) \in Nat,
         NEW X, base \in X, \A s \in X, k \in 1..Len(seq) : CoarseStep(g, want, budget, intra, bytes, s, seq[k]) \in X
  PROVE  CoarseEnd(g, want, budget, intra, bytes, base, seq) \in X
<1> DEFINE n == Len(seq)
           At(f, k) == IF k = 0 THEN base
                         ELSE CHOOSE s \in {CoarseStep(g, want, budget, intra, bytes, t, seq[k]) : t \in {f[k - 1]}} : TRUE
           IsLoop(f, m) == f = [k \in 0..m |-> At(f, k)]
           T == {m \in Nat : \E f : IsLoop(f, m)}
<1>1. /\ n \in Nat
      /\ \A f : \A k \in 1..n : At(f, k) = CoarseStep(g, want, budget, intra, bytes, f[k - 1], seq[k])
  OBVIOUS
<1>2. 0 \in T
  <2>1. IsLoop([k \in 0..0 |-> base], 0)
    OBVIOUS
  <2> QED BY <2>1
<1>3. ASSUME NEW m \in T PROVE m + 1 \in T
  <2>1. m \in Nat
    OBVIOUS
  <2>2. PICK f : IsLoop(f, m)
    OBVIOUS
  <2> DEFINE h == [k \in 0..m + 1 |-> IF k = m + 1 THEN At(f, k) ELSE f[k]]
  <2>3. \A k \in 0..m : h[k] = f[k]
    BY <2>1
  <2>4. \A k \in 0..m + 1 : At(h, k) = At(f, k)
    <3> HIDE DEF h
    <3> QED BY <2>1, <2>3
  <2>5. \A k \in 0..m + 1 : h[k] = At(h, k)
    <3> HIDE DEF At
    <3> QED BY <2>1, <2>2, <2>4
  <2>6. IsLoop(h, m + 1)
    <3> HIDE DEF At
    <3>1. h = [k \in 0..m + 1 |-> h[k]]
      OBVIOUS
    <3> HIDE DEF h
    <3> QED BY <2>5, <3>1
  <2> HIDE DEF h, IsLoop
  <2> QED BY <2>1, <2>6
<1>4. \E f : IsLoop(f, n)
  <2>1. T = Nat
    <3>1. T \subseteq Nat
      OBVIOUS
    <3> HIDE DEF T
    <3> QED BY <1>2, <1>3, <3>1, Induction, ZenonT(60)
  <2> QED BY <1>1, <2>1
<1>5. CoarseEnd(g, want, budget, intra, bytes, base, seq) = (CHOOSE f : IsLoop(f, n))[n]
  BY Zenon DEF CoarseEnd, ForEach
<1> HIDE DEF n, At
<1>6. PICK f : f = CHOOSE h : IsLoop(h, n)
  OBVIOUS
<1>7. IsLoop(f, n)
  <2> HIDE DEF IsLoop
  <2> QED BY <1>4, <1>6, Zenon
<1>8. f[0] = base /\ \A k \in 1..n : f[k] = CoarseStep(g, want, budget, intra, bytes, f[k - 1], seq[k])
  <2>1. \A k \in 0..n : f[k] = At(f, k)
    BY <1>7
  <2>2. At(f, 0) = base
    BY DEF At
  <2> QED BY ONLY <1>1, <2>1, <2>2
<1>9. f[0] \in X /\ \A k \in 1..n : f[k - 1] \in X => f[k] \in X
  BY <1>8, n = Len(seq) DEF n
<1>10. f[n] \in X
  BY ONLY <1>1, <1>9, RunStays
<1> QED BY <1>5, <1>6, <1>10, Zenon


FineEnd(fine, base, seq) ==
  ForEach(LAMBDA s, e : FineStep(fine, s, e), base, seq)
LEMMA FineLoop ==
  ASSUME NEW fine, NEW base, NEW seq, Len(seq) \in Nat
  PROVE  \E f : /\ f[0] = base /\ \A k \in 1..Len(seq) : f[k] = FineStep(fine, f[k - 1], seq[k])
               /\ FineEnd(fine, base, seq) = f[Len(seq)]
<1> DEFINE n == Len(seq)
           At(f, k) == IF k = 0 THEN base
                         ELSE CHOOSE s \in {FineStep(fine, t, seq[k]) : t \in {f[k - 1]}} : TRUE
           IsLoop(f, m) == f = [k \in 0..m |-> At(f, k)]
           T == {m \in Nat : \E f : IsLoop(f, m)}
<1>1. n \in Nat /\ \A f : \A k \in 1..n : At(f, k) = FineStep(fine, f[k - 1], seq[k])
  OBVIOUS
<1>2. 0 \in T
  <2>1. IsLoop([k \in 0..0 |-> base], 0)
    OBVIOUS
  <2> QED BY <2>1
<1>3. ASSUME NEW m \in T PROVE m + 1 \in T
  <2>1. m \in Nat
    OBVIOUS
  <2>2. PICK f : IsLoop(f, m)
    OBVIOUS
  <2> DEFINE h == [k \in 0..m + 1 |-> IF k = m + 1 THEN At(f, k) ELSE f[k]]
  <2>3. \A k \in 0..m : h[k] = f[k]
    BY <2>1
  <2>4. \A k \in 0..m + 1 : At(h, k) = At(f, k)
    <3> HIDE DEF h
    <3> QED BY <2>1, <2>3
  <2>5. \A k \in 0..m + 1 : h[k] = At(h, k)
    <3> HIDE DEF At
    <3> QED BY <2>1, <2>2, <2>4
  <2>6. IsLoop(h, m + 1)
    <3> HIDE DEF At
    <3>1. h = [k \in 0..m + 1 |-> h[k]]
      OBVIOUS
    <3> HIDE DEF h
    <3> QED BY <2>5, <3>1
  <2> HIDE DEF h, IsLoop
  <2> QED BY <2>1, <2>6
<1>4. \E f : IsLoop(f, n)
  <2>1. T = Nat
    <3>1. T \subseteq Nat
      OBVIOUS
    <3> HIDE DEF T
    <3> QED BY <1>2, <1>3, <3>1, Induction, ZenonT(60)
  <2> QED BY <1>1, <2>1
<1>5. FineEnd(fine, base, seq) = (CHOOSE f : IsLoop(f, n))[n]
  BY Zenon DEF FineEnd, ForEach
<1> HIDE DEF n, At
<1>6. PICK f : f = CHOOSE h : IsLoop(h, n)
  OBVIOUS
<1>7. IsLoop(f, n)
  <2> HIDE DEF IsLoop
  <2> QED BY <1>4, <1>6, Zenon
<1>8. f[0] = base /\ \A k \in 1..n : f[k] = FineStep(fine, f[k - 1], seq[k])
  <2>1. \A k \in 0..n : f[k] = At(f, k)
    BY <1>7
  <2>2. At(f, 0) = base
    BY DEF At
  <2> QED BY ONLY <1>1, <2>1, <2>2
<1> QED BY <1>5, <1>6, <1>8, Zenon DEF n


BitEnd(fine, band, base, seq) ==
  ForEach(LAMBDA s, e : FinalBit(fine, s, <<band, e>>), base, seq)
LEMMA BitLoop ==
  ASSUME NEW fine, NEW band, NEW base, NEW seq, Len(seq) \in Nat
  PROVE  \E f : /\ f[0] = base /\ \A k \in 1..Len(seq) : f[k] = FinalBit(fine, f[k - 1], <<band, seq[k]>>)
               /\ BitEnd(fine, band, base, seq) = f[Len(seq)]
<1> DEFINE n == Len(seq)
           At(f, k) == IF k = 0 THEN base
                         ELSE CHOOSE s \in {FinalBit(fine, t, <<band, seq[k]>>) : t \in {f[k - 1]}} : TRUE
           IsLoop(f, m) == f = [k \in 0..m |-> At(f, k)]
           T == {m \in Nat : \E f : IsLoop(f, m)}
<1>1. n \in Nat /\ \A f : \A k \in 1..n : At(f, k) = FinalBit(fine, f[k - 1], <<band, seq[k]>>)
  OBVIOUS
<1>2. 0 \in T
  <2>1. IsLoop([k \in 0..0 |-> base], 0)
    OBVIOUS
  <2> QED BY <2>1
<1>3. ASSUME NEW m \in T PROVE m + 1 \in T
  <2>1. m \in Nat
    OBVIOUS
  <2>2. PICK f : IsLoop(f, m)
    OBVIOUS
  <2> DEFINE h == [k \in 0..m + 1 |-> IF k = m + 1 THEN At(f, k) ELSE f[k]]
  <2>3. \A k \in 0..m : h[k] = f[k]
    BY <2>1
  <2>4. \A k \in 0..m + 1 : At(h, k) = At(f, k)
    <3> HIDE DEF h
    <3> QED BY <2>1, <2>3
  <2>5. \A k \in 0..m + 1 : h[k] = At(h, k)
    <3> HIDE DEF At
    <3> QED BY <2>1, <2>2, <2>4
  <2>6. IsLoop(h, m + 1)
    <3> HIDE DEF At
    <3>1. h = [k \in 0..m + 1 |-> h[k]]
      OBVIOUS
    <3> HIDE DEF h
    <3> QED BY <2>5, <3>1
  <2> HIDE DEF h, IsLoop
  <2> QED BY <2>1, <2>6
<1>4. \E f : IsLoop(f, n)
  <2>1. T = Nat
    <3>1. T \subseteq Nat
      OBVIOUS
    <3> HIDE DEF T
    <3> QED BY <1>2, <1>3, <3>1, Induction, ZenonT(60)
  <2> QED BY <1>1, <2>1
<1>5. BitEnd(fine, band, base, seq) = (CHOOSE f : IsLoop(f, n))[n]
  BY Zenon DEF BitEnd, ForEach
<1> HIDE DEF n, At
<1>6. PICK f : f = CHOOSE h : IsLoop(h, n)
  OBVIOUS
<1>7. IsLoop(f, n)
  <2> HIDE DEF IsLoop
  <2> QED BY <1>4, <1>6, Zenon
<1>8. f[0] = base /\ \A k \in 1..n : f[k] = FinalBit(fine, f[k - 1], <<band, seq[k]>>)
  <2>1. \A k \in 0..n : f[k] = At(f, k)
    BY <1>7
  <2>2. At(f, 0) = base
    BY DEF At
  <2> QED BY ONLY <1>1, <2>1, <2>2
<1> QED BY <1>5, <1>6, <1>8, Zenon DEF n


FinalEnd(g, fine, priority, base, seq) ==
  ForEach(LAMBDA s, e : FinalStep(g, fine, priority, s, e), base, seq)
LEMMA FinalLoop ==
  ASSUME NEW g, NEW fine, NEW priority, NEW base, NEW seq, Len(seq) \in Nat
  PROVE  \E f : /\ f[0] = base /\ \A k \in 1..Len(seq) : f[k] = FinalStep(g, fine, priority, f[k - 1], seq[k])
               /\ FinalEnd(g, fine, priority, base, seq) = f[Len(seq)]
<1> DEFINE n == Len(seq)
           At(f, k) == IF k = 0 THEN base
                         ELSE CHOOSE s \in {FinalStep(g, fine, priority, t, seq[k]) : t \in {f[k - 1]}} : TRUE
           IsLoop(f, m) == f = [k \in 0..m |-> At(f, k)]
           T == {m \in Nat : \E f : IsLoop(f, m)}
<1>1. /\ n \in Nat
      /\ \A f : \A k \in 1..n : At(f, k) = FinalStep(g, fine, priority, f[k - 1], seq[k])
  OBVIOUS
<1>2. 0 \in T
  <2>1. IsLoop([k \in 0..0 |-> base], 0)
    OBVIOUS
  <2> QED BY <2>1
<1>3. ASSUME NEW m \in T PROVE m + 1 \in T
  <2>1. m \in Nat
    OBVIOUS
  <2>2. PICK f : IsLoop(f, m)
    OBVIOUS
  <2> DEFINE h == [k \in 0..m + 1 |-> IF k = m + 1 THEN At(f, k) ELSE f[k]]
  <2>3. \A k \in 0..m : h[k] = f[k]
    BY <2>1
  <2>4. \A k \in 0..m + 1 : At(h, k) = At(f, k)
    <3> HIDE DEF h
    <3> QED BY <2>1, <2>3
  <2>5. \A k \in 0..m + 1 : h[k] = At(h, k)
    <3> HIDE DEF At
    <3> QED BY <2>1, <2>2, <2>4
  <2>6. IsLoop(h, m + 1)
    <3> HIDE DEF At
    <3>1. h = [k \in 0..m + 1 |-> h[k]]
      OBVIOUS
    <3> HIDE DEF h
    <3> QED BY <2>5, <3>1
  <2> HIDE DEF h, IsLoop
  <2> QED BY <2>1, <2>6
<1>4. \E f : IsLoop(f, n)
  <2>1. T = Nat
    <3>1. T \subseteq Nat
      OBVIOUS
    <3> HIDE DEF T
    <3> QED BY <1>2, <1>3, <3>1, Induction, ZenonT(60)
  <2> QED BY <1>1, <2>1
<1>5. FinalEnd(g, fine, priority, base, seq) = (CHOOSE f : IsLoop(f, n))[n]
  BY Zenon DEF FinalEnd, ForEach
<1> HIDE DEF n, At
<1>6. PICK f : f = CHOOSE h : IsLoop(h, n)
  OBVIOUS
<1>7. IsLoop(f, n)
  <2> HIDE DEF IsLoop
  <2> QED BY <1>4, <1>6, Zenon
<1>8. f[0] = base /\ \A k \in 1..n : f[k] = FinalStep(g, fine, priority, f[k - 1], seq[k])
  <2>1. \A k \in 0..n : f[k] = At(f, k)
    BY <1>7
  <2>2. At(f, 0) = base
    BY DEF At
  <2> QED BY ONLY <1>1, <2>1, <2>2
<1> QED BY <1>5, <1>6, <1>8, Zenon DEF n

-----------------------------------------------------------------------------
(* How many bits a band gets.                                               *)

\* Products and quotients of numbers.
LEMMA Times ==
  /\ \A a, b \in Nat : a * b \in Nat
  /\ \A a, b \in Int : a * b \in Int
  /\ \A a, b \in Nat \ {0} : a * b \in Nat \ {0}
OBVIOUS

\* What a division of numbers gives.
LEMMA Shares ==
  /\ \A a \in Nat, b \in Nat \ {0} : a \div b \in Nat /\ b * (a \div b) <= a /\ a < b * (a \div b) + b
  /\ \A a \in Int, b \in Nat \ {0} : a \div b \in Int
OBVIOUS

\* A sequence of numbers, element by element.
LEMMA UptoIs ==
  ASSUME NEW a \in Int, NEW b \in Int, a <= b
  PROVE  /\ Upto(a, b) = [k \in 1..b - a |-> a + k - 1] /\ Len(Upto(a, b)) = b - a
         /\ \A k \in 1..b - a : Upto(a, b)[k] = a + k - 1 /\ Upto(a, b)[k] \in a..b - 1
<1>1. Most(b - a, 0) = b - a
  BY DEF Most
<1>2. Upto(a, b) = [k \in 1..b - a |-> a + k - 1]
  BY <1>1, Zenon DEF Upto
<1> QED BY <1>2

\* The bands of a frame, from the first and from the last.
LEMMA BandsIs ==
  ASSUME NEW g, IsGeometry(g)
  PROVE  /\ Len(Bands(g)) = g.end - g.start /\ Len(Bands(g)) \in Nat
         /\ \A k \in 1..Len(Bands(g)) :
              Bands(g)[k] = g.start + k - 1 /\ Bands(g)[k] \in g.start..g.end - 1
         /\ Len(Reverse(Bands(g))) = g.end - g.start
         /\ \A k \in 1..g.end - g.start : Reverse(Bands(g))[k] \in g.start..g.end - 1
<1>1. g.start \in Int /\ g.end \in Int /\ g.start <= g.end
  BY GeometryFacts
<1>2. PICK s : s = Bands(g)
  OBVIOUS
<1>3. /\ s = [k \in 1..g.end - g.start |-> g.start + k - 1] /\ Len(s) = g.end - g.start
      /\ \A k \in 1..g.end - g.start : s[k] = g.start + k - 1 /\ s[k] \in g.start..g.end - 1
  BY <1>1, <1>2, UptoIs, Zenon DEF Bands
<1>4. Reverse(s) = [k \in 1..Len(s) |-> s[(Len(s) - k) + 1]]
  BY Zenon DEF Reverse
<1>5. \A k \in 1..Len(s) : (Len(s) - k) + 1 \in 1..g.end - g.start
  BY <1>1, <1>3
<1>6. /\ Len(Reverse(s)) = g.end - g.start
      /\ \A k \in 1..g.end - g.start : Reverse(s)[k] \in g.start..g.end - 1
  <2>1. Len(s) \in Nat /\ Len(s) = g.end - g.start
    BY <1>1, <1>3
  <2>2. Reverse(s) = [k \in 1..g.end - g.start |-> s[(g.end - g.start - k) + 1]]
    BY <1>4, <2>1
  <2>3. \A k \in 1..g.end - g.start : s[(g.end - g.start - k) + 1] \in g.start..g.end - 1
    BY <1>3, <1>5, <2>1
  <2> QED BY ONLY <1>1, <2>1, <2>2, <2>3
<1>7. g.end - g.start \in Nat
  BY <1>1
<1> QED BY ONLY <1>2, <1>3, <1>6, <1>7

\* What the tables give a band is a number, and the first row gives nothing.
LEMMA Table ==
  /\ NB \in 1..23 /\ Len(AllocVectors) \in Nat \ {0}
  /\ \A i \in 0..NB - 1 : Width(i) \in Nat \ {0} /\ LogN(i) \in Nat
  /\ \A v \in 1..Len(AllocVectors), i \in 0..NB - 1 : AllocVectors[v][i + 1] \in Nat
  /\ \A i \in 0..NB - 1 : AllocVectors[1][i + 1] = 0
<1>1. NB \in 1..23
  BY EdgesRise, FewBands DEF NB
<1>2. ASSUME NEW i \in 0..NB - 1 PROVE Width(i) \in Nat \ {0}
  <2>1. i + 1 \in 1..Len(Edges) - 1 /\ i + 1 \in 0..NB /\ i \in 0..NB /\ (i + 1) + 1 = i + 2
    BY <1>1, EdgesRise DEF NB
  <2>2. Edges[i + 1] \in Nat /\ Edges[i + 2] \in Nat /\ Edges[i + 1] < Edges[i + 2]
    <3>1. i + 1 \in 1..Len(Edges) /\ i + 2 \in 1..Len(Edges)
      BY <2>1, EdgesRise
    <3>2. Edges[i + 1] < Edges[(i + 1) + 1]
      BY <2>1, EdgesRise
    <3> QED BY <3>1, <3>2, <2>1, EdgesRise
  <2> QED BY <2>2 DEF Width
<1>3. \A i \in 0..NB - 1 : LogN(i) \in Nat
  BY <1>2, Logs DEF LogN
<1>4. /\ Len(AllocVectors) \in Nat \ {0}
      /\ \A v \in 1..Len(AllocVectors), i \in 0..NB - 1 : AllocVectors[v][i + 1] \in Nat
      /\ \A i \in 0..NB - 1 : AllocVectors[1][i + 1] = 0
  <2>1. \A i \in 0..NB - 1 : i + 1 \in 1..Len(Edges) - 1
    BY <1>1 DEF NB
  <2>2. Len(AllocVectors) \in Nat \ {0} /\ \A v \in 1..Len(AllocVectors) : AllocVectors[v] \in [1..Len(Edges) - 1 -> Nat]
    BY ONLY VectorsStart
  <2> QED BY <2>1, <2>2, VectorsStart
<1> QED BY <1>1, <1>2, <1>3, <1>4

\* The bands of a frame are bands of the table.
LEMMA FrameBands ==
  ASSUME NEW g, IsGeometry(g)
  PROVE  g.start..g.end - 1 \subseteq 0..NB - 1
<1>1. NB \in Int /\ g.start \in Nat /\ g.end \in 1..NB
  BY Table, GeometryFacts
<1> QED BY ONLY <1>1

\* What the table says of a band.
LEMMA BandFacts ==
  ASSUME NEW g, IsGeometry(g), NEW i \in 0..NB - 1
  PROVE  /\ Width(i) * Pow2[g.lm] \in Nat \ {0} /\ g.c * Width(i) * Pow2[g.lm] \in Nat \ {0}
         /\ Thresh(g, i) \in Nat /\ Thresh(g, i) >= 8 * g.c /\ CapOf(g, i) \in Nat
         /\ Quanta(g, i) \in Nat \ {0}
         /\ \A v \in Nat, trim \in Int : RowBits(g, v, i, trim) \in Nat
         /\ \A trim \in Int : RowBits(g, 0, i, trim) = 0
<1>1. PICK c, w, p, p3 : c = g.c /\ w = Width(i) /\ p = Pow2[g.lm] /\ p3 = Pow2[g.lm + 3]
  OBVIOUS
<1>2. /\ c \in {1, 2} /\ w \in Nat \ {0} /\ p \in Nat \ {0} /\ p3 \in Nat \ {0}
      /\ g.lm \in 0..3 /\ g.start \in Nat /\ g.end \in 1..NB /\ Caps \in Nat
  <2>1. g.lm \in 0..30 /\ g.lm + 3 \in 0..30
    BY GeometryFacts
  <2> QED BY <1>1, <2>1, GeometryFacts, Table, Powers, WholeNumbers
<1>3. w * p \in Nat \ {0} /\ c * w \in Nat \ {0} /\ c * w * p \in Nat \ {0}
  BY <1>2, Times
<1>4. Thresh(g, i) \in Nat /\ Thresh(g, i) >= 8 * g.c
  <2>1. 3 * w * p3 \in Nat
    BY <1>2, Times
  <2>2. (3 * w * p3) \div 16 \in Nat
    BY <2>1
  <2> QED BY <1>1, <1>2, <2>2 DEF Thresh, Most
<1>5. CapOf(g, i) \in Nat
  <2>1. (Caps + 64) * c * w * p \in Nat
    BY <1>2, Times
  <2> QED BY <1>1, <2>1 DEF CapOf
<1>6. Quanta(g, i) \in Nat \ {0}
  BY <1>1, <1>3 DEF Quanta, Least, Most
<1>7. ASSUME NEW v \in Nat, NEW trim \in Int PROVE RowBits(g, v, i, trim) \in Nat /\ (v = 0 => RowBits(g, v, i, trim) = 0)
  <2>1. TrimOffset(g, i, trim) \in Int
    <3>1. c * w * (trim - 5 - g.lm) * (g.end - i - 1) * p3 \in Int
      <4>1. trim - 5 - g.lm \in Int /\ g.end - i - 1 \in Int
        <5>1. NB \in Int
          BY Table
        <5> QED BY ONLY <1>2, <5>1, trim \in Int, i \in 0..NB - 1
      <4> QED BY <1>2, <4>1, Times
    <3> QED BY <1>1, <1>2, <3>1 DEF TrimOffset
  <2> DEFINE raw == IF v >= Len(AllocVectors) THEN CapOf(g, i)
                    ELSE (g.c * Width(i) * AllocVectors[v + 1][i + 1] * Pow2[g.lm]) \div 4
  <2>2. raw \in Nat /\ (v = 0 => raw = 0)
    <3>1. CASE v >= Len(AllocVectors)
      BY <3>1, <1>5, Table
    <3>2. CASE v < Len(AllocVectors)
      <4>1. PICK a : a = AllocVectors[v + 1][i + 1]
        OBVIOUS
      <4>2. a \in Nat /\ (v = 0 => a = 0)
        <5>1. v + 1 \in 1..Len(AllocVectors)
          BY <3>2, Table
        <5> QED BY <4>1, <5>1, Table
      <4>3. c * w * a * p \in Nat /\ (a = 0 => c * w * a * p = 0)
        BY <1>2, <4>2, Times
      <4>4. raw = (c * w * a * p) \div 4
        BY <3>2, <4>1, <1>1, Table
      <4> QED BY <4>2, <4>3, <4>4
    <3> QED BY <3>1, <3>2, Table
  <2>3. RowBits(g, v, i, trim) = IF raw > 0 THEN Most(0, raw + TrimOffset(g, i, trim)) ELSE raw
    BY Zenon DEF RowBits
  <2> HIDE DEF raw
  <2> QED BY <2>1, <2>2, <2>3 DEF Most
<1> QED BY <1>1, <1>3, <1>4, <1>5, <1>6, <1>7

Amounts == [0..NB - 1 -> Nat]

\* One band is settled.
LEMMA SettleSteps ==
  ASSUME NEW g, IsGeometry(g), NEW want \in Amounts, NEW i \in 0..NB - 1,
         NEW s \in [done : BOOLEAN, sum : Nat, bits : Amounts]
  PROVE  /\ SettleStep(g, want, s, i) \in [done : BOOLEAN, sum : Nat, bits : Amounts]
         /\ want[i] = 0 => SettleStep(g, want, s, i).sum = s.sum
<1>1. PICK w, cap, c, t : w = want[i] /\ cap = CapOf(g, i) /\ c = g.c /\ t = Thresh(g, i)
  OBVIOUS
<1>2. w \in Nat /\ cap \in Nat /\ c \in {1, 2} /\ t \in Nat /\ t >= 8 * c
  BY <1>1, BandFacts, GeometryFacts DEF Amounts
<1> DEFINE above == s.done \/ w >= t
           b == IF above THEN Least(w, cap) ELSE IF w >= 8 * c THEN Least(8 * c, cap) ELSE 0
<1>3. b \in Nat /\ (w = 0 => b = 0)
  BY <1>2 DEF Least
<1>4. SettleStep(g, want, s, i) = [done |-> above, sum |-> s.sum + b, bits |-> [s.bits EXCEPT ![i] = b]]
  BY <1>1, Zenon DEF SettleStep
<1> HIDE DEF b
<1>5. above \in BOOLEAN
  OBVIOUS
<1> HIDE DEF above
<1> QED BY <1>1, <1>3, <1>4, <1>5 DEF Amounts

\* What all bands are given is a number, nothing where nothing is wanted.
LEMMA Settles ==
  ASSUME NEW g, IsGeometry(g), NEW want \in Amounts
  PROVE  /\ Settle(g, want).sum \in Nat /\ Settle(g, want).bits \in Amounts
         /\ (\A i \in 0..NB - 1 : want[i] = 0) => Settle(g, want).sum = 0
<1> DEFINE base == [done |-> FALSE, sum |-> 0, bits |-> Zero]
           X == {s \in [done : BOOLEAN, sum : Nat, bits : Amounts] :
                   (\A i \in 0..NB - 1 : want[i] = 0) => s.sum = 0}
           seq == Reverse(Bands(g))
<1>1. base \in X
  BY DEF Zero, Amounts
<1>2. Len(seq) \in Nat /\ \A k \in 1..Len(seq) : seq[k] \in 0..NB - 1
  <2>1. /\ Len(seq) = g.end - g.start /\ g.end - g.start \in Nat
        /\ \A k \in 1..g.end - g.start : seq[k] \in g.start..g.end - 1
    BY BandsIs
  <2>2. \A k \in g.start..g.end - 1 : k \in 0..NB - 1
    BY FrameBands
  <2> HIDE DEF seq
  <2> QED BY ONLY <2>1, <2>2
<1>3. \A s \in X, k \in 1..Len(seq) : SettleStep(g, want, s, seq[k]) \in X
  <2> HIDE DEF seq
  <2> QED BY <1>2, SettleSteps
<1>4. SettleEnd(g, want, base, seq) \in X
  <2> HIDE DEF X, base, seq
  <2> QED BY ONLY <1>1, <1>2, <1>3, SettleLoop
<1>5. Settle(g, want) \in X
  BY <1>4, Zenon DEF Settle, SettleEnd, ForEach
<1> QED BY <1>5

\* The last row that fits.
LEMMA RowsFit ==
  ASSUME NEW g, IsGeometry(g), NEW offsets \in Amounts, NEW trim \in Int, NEW total \in Nat
  PROVE  LET row == RowSearch(g, offsets, trim, total)
         IN  /\ row \in Nat \ {0}
             /\ row > 1 => Settle(g, RowWant(g, offsets, trim, row - 1)).sum <= total
<1> DEFINE Fits(v) == v > 1 => Settle(g, RowWant(g, offsets, trim, v - 1)).sum <= total
           X == {s \in (Nat \ {0}) \X Int : Fits(s[1])}
           base == <<1, Len(AllocVectors) - 1>>
           seq == Upto(0, Len(AllocVectors))
<1>1. base \in X
  BY Table
<1>2. Len(seq) \in Nat
  BY Table, UptoIs
<1>3. ASSUME NEW s \in X PROVE RowHalve(g, offsets, trim, total, s) \in X
  <2> DEFINE mid == (s[1] + s[2]) \div 2
             sum == Settle(g, RowWant(g, offsets, trim, mid)).sum
  <2>0. s[1] \in Nat \ {0} /\ s[2] \in Int /\ Fits(s[1])
    OBVIOUS
  <2>1. RowHalve(g, offsets, trim, total, s)
          = IF s[1] > s[2] THEN s ELSE IF sum <= total THEN <<mid + 1, s[2]>> ELSE <<s[1], mid - 1>>
    BY Zenon DEF RowHalve
  <2>2. s[1] <= s[2] => mid \in Nat \ {0}
    BY <2>0
  <2>3. CASE s[1] > s[2]
    BY <2>1, <2>3
  <2>4. CASE s[1] <= s[2] /\ sum <= total
    <3>1. (mid + 1) - 1 = mid /\ mid + 1 \in Nat \ {0}
      BY <2>2, <2>4
    <3>2. Fits(mid + 1)
      BY <3>1, <2>4
    <3>3. RowHalve(g, offsets, trim, total, s) = <<mid + 1, s[2]>>
      BY <2>0, <2>1, <2>4
    <3> HIDE DEF mid, Fits
    <3> QED BY <3>1, <3>2, <3>3, <2>0
  <2>5. CASE s[1] <= s[2] /\ ~(sum <= total)
    <3>1. RowHalve(g, offsets, trim, total, s) = <<s[1], mid - 1>> /\ mid - 1 \in Int
      BY <2>0, <2>1, <2>2, <2>5
    <3> HIDE DEF mid, Fits
    <3> QED BY <3>1, <2>0
  <2> QED BY <2>0, <2>3, <2>4, <2>5
<1>4. RowEnd(g, offsets, trim, total, base, seq) \in X
  <2> HIDE DEF X, base, seq
  <2> QED BY ONLY <1>1, <1>2, <1>3, RowLoop
<1>5. RowSearch(g, offsets, trim, total) = RowEnd(g, offsets, trim, total, base, seq)[1]
  BY Zenon DEF RowSearch, RowEnd, ForEach
<1> HIDE DEF base, seq
<1> QED BY <1>4, <1>5

\* What lies between two rows still fits, if the lower one does.
LEMMA Between0 ==
  ASSUME NEW bits1 \in Amounts, NEW bits2 \in Amounts
  PROVE  /\ \A m \in Nat : Between(bits1, bits2, m) \in Amounts
         /\ Between(bits1, bits2, 0) = bits1
<1>1. ASSUME NEW m \in Nat PROVE Between(bits1, bits2, m) \in Amounts
  <2>1. ASSUME NEW i \in 0..NB - 1 PROVE bits1[i] + (m * bits2[i]) \div 64 \in Nat
    <3>1. bits1[i] \in Nat /\ bits2[i] \in Nat
      BY DEF Amounts
    <3>2. m * bits2[i] \in Nat
      BY <3>1, Times
    <3> QED BY <3>1, <3>2
  <2> QED BY <2>1 DEF Between, Amounts
<1>2. \A i \in 0..NB - 1 : bits1[i] + (0 * bits2[i]) \div 64 = bits1[i]
  BY DEF Amounts
<1>3. bits1 = [i \in 0..NB - 1 |-> bits1[i]]
  BY DEF Amounts
<1>4. Between(bits1, bits2, 0) = bits1
  BY <1>2, <1>3, Zenon DEF Between
<1> QED BY <1>1, <1>4

LEMMA WayFits ==
  ASSUME NEW g, IsGeometry(g), NEW bits1 \in Amounts, NEW bits2 \in Amounts, NEW total \in Nat,
         Settle(g, bits1).sum <= total
  PROVE  /\ Interpolate(g, bits1, bits2, total).sum \in Nat
         /\ Interpolate(g, bits1, bits2, total).sum <= total
         /\ Interpolate(g, bits1, bits2, total).bits \in Amounts
<1> DEFINE Fits(m) == Settle(g, Between(bits1, bits2, m)).sum <= total
           X == {s \in Nat \X Nat : Fits(s[1])}
           base == <<0, 64>>
           seq == Upto(0, 6)
<1>1. base \in X
  BY Between0
<1>2. Len(seq) \in Nat
  BY UptoIs
<1>3. ASSUME NEW s \in X PROVE WayHalve(g, bits1, bits2, total, s) \in X
  <2> DEFINE mid == (s[1] + s[2]) \div 2
             sum == Settle(g, Between(bits1, bits2, mid)).sum
  <2>0. s[1] \in Nat /\ s[2] \in Nat /\ Fits(s[1])
    OBVIOUS
  <2>1. WayHalve(g, bits1, bits2, total, s) = IF sum > total THEN <<s[1], mid>> ELSE <<mid, s[2]>>
    BY Zenon DEF WayHalve
  <2>2. mid \in Nat
    BY <2>0
  <2>3. sum \in Nat
    <3> HIDE DEF mid
    <3> QED BY <2>2, Between0, Settles
  <2>4. sum > total \/ Fits(mid)
    <3> HIDE DEF mid
    <3> QED BY <2>3
  <2> HIDE DEF mid, Fits, sum
  <2> QED BY <2>0, <2>1, <2>2, <2>4
<1>4. WayEnd(g, bits1, bits2, total, base, seq) \in X
  <2> HIDE DEF X, base, seq
  <2> QED BY ONLY <1>1, <1>2, <1>3, WayLoop
<1>5. PICK m : m = WayEnd(g, bits1, bits2, total, base, seq)[1]
  OBVIOUS
<1>6. Interpolate(g, bits1, bits2, total) = Settle(g, Between(bits1, bits2, m))
  BY <1>5, Zenon DEF Interpolate, WayEnd, ForEach
<1>7. m \in Nat /\ Fits(m)
  <2> HIDE DEF base, seq, Fits
  <2> QED BY <1>4, <1>5
<1>8. Between(bits1, bits2, m) \in Amounts
  BY <1>7, Between0
<1> QED BY <1>6, <1>7, <1>8, Settles

\* The states in which bands are skipped.  What the bands cost stays within
\* the total, and those given up keep their floor at most.
SkipStates(g, R) ==
  [rc : R, bits : Amounts, sum : Int, total : Nat, coded : g.start + 1..g.end, rsv : Nat,
   skipRsv : Nat, stop : BOOLEAN]
WithinTotal(g, s) ==
  /\ s.sum <= s.total
  /\ s.rsv > 0 => s.rsv = Log2Frac[s.coded - g.start + 1]
  /\ \A i \in s.coded..g.end - 1 : s.bits[i] \in {0, 8 * g.c}

\* The fields of a state in which bands are skipped.
LEMMA SkipFields ==
  ASSUME NEW g, NEW R, NEW s \in SkipStates(g, R)
  PROVE  /\ s.rc \in R /\ s.bits \in Amounts /\ s.sum \in Int /\ s.total \in Nat
         /\ s.coded \in g.start + 1..g.end /\ s.rsv \in Nat /\ s.skipRsv \in Nat /\ s.stop \in BOOLEAN
BY DEF SkipStates

\* What a band would hold if it were the last is within what is left.
LEMMA HoldingFits ==
  ASSUME NEW g, IsGeometry(g), NEW R, NEW s \in SkipStates(g, R), WithinTotal(g, s)
  PROVE  LET i == s.coded - 1
         IN  Holding(g, s, i) \in Nat /\ Holding(g, s, i) <= s.bits[i] + (s.total - s.sum)
<1>0. PICK i : i = s.coded - 1
  OBVIOUS
<1>1. PICK w, below, left, b : /\ w = Width(i) /\ below = Edges[i + 1] - Edges[g.start + 1]
                               /\ left = s.total - s.sum /\ b = s.bits[i]
  OBVIOUS
<1>2. /\ g.start \in Nat /\ g.end \in 1..NB /\ NB \in 1..23 /\ s.coded \in g.start + 1..g.end
      /\ i \in 0..NB - 1 /\ g.start \in 0..NB /\ i \in g.start..NB /\ (i + 1) + 1 = s.coded + 1 /\ i + 2 = s.coded + 1
  <2>1. s.coded \in g.start + 1..g.end
    BY SkipFields
  <2>2. g.start \in Nat /\ g.end \in 1..NB /\ NB \in 1..23
    BY GeometryFacts, Table
  <2> QED BY ONLY <1>0, <2>1, <2>2
<1>3. w \in Nat \ {0} /\ below \in Nat
  <2>1. w \in Nat \ {0}
    BY <1>1, <1>2, Table
  <2>2. Edges[i + 1] \in Nat /\ Edges[g.start + 1] \in Nat /\ Edges[g.start + 1] <= Edges[i + 1]
    BY ONLY <1>2, EdgesOrder
  <2> QED BY ONLY <1>1, <2>1, <2>2
<1>4. left \in Nat /\ b \in Nat
  <2>1. s.total \in Nat /\ s.sum \in Int /\ s.bits \in Amounts
    BY SkipFields
  <2>2. s.sum <= s.total
    BY DEF WithinTotal
  <2>3. s.bits[i] \in Nat
    BY ONLY <1>2, <2>1 DEF Amounts
  <2> QED BY ONLY <1>1, <2>1, <2>2, <2>3
<1>5. Edges[s.coded + 1] - Edges[g.start + 1] = w + below
  <2>1. /\ Edges[i + 1] \in Nat /\ Edges[g.start + 1] \in Nat
    BY <1>2, EdgesOrder
  <2>2. Edges[i + 2] \in Nat
    <3>1. Edges \in Seq(Nat) /\ i + 2 \in 1..Len(Edges)
      BY ONLY <1>2, EdgesRise DEF NB
    <3> QED BY ONLY <3>1
  <2>3. w = Edges[i + 2] - Edges[i + 1]
    BY <1>1 DEF Width
  <2> QED BY ONLY <1>1, <1>2, <2>1, <2>2, <2>3
<1>6. PICK each : each = left \div (w + below)
  OBVIOUS
<1>7. each \in Nat /\ (w + below) * each <= left
  BY <1>3, <1>4, <1>6
<1>8. Holding(g, s, i) = b + each * w + Most(left - (w + below) * each - below, 0)
  <2>1. Quot(left, w + below) = each
    BY <1>4, <1>6 DEF Quot
  <2>2. Holding(g, s, i)
          = b + Quot(left, w + below) * w
              + Most(left - (w + below) * Quot(left, w + below) - below, 0)
    BY ONLY <1>1, <1>5, Zenon DEF Holding
  <2> QED BY ONLY <1>1, <2>1, <2>2
<1>9. PICK p, q : p = each * w /\ q = each * below
  OBVIOUS
<1>10. p \in Nat /\ q \in Nat /\ (w + below) * each = p + q
  BY <1>3, <1>7, <1>9
<1>11. Holding(g, s, i) = b + p + Most(left - (p + q) - below, 0)
  BY <1>8, <1>9, <1>10
<1>12. b + p + Most(left - (p + q) - below, 0) \in Nat /\ b + p + Most(left - (p + q) - below, 0) <= b + left
  BY ONLY <1>3, <1>4, <1>7, <1>10 DEF Most
<1> QED BY ONLY <1>0, <1>1, <1>11, <1>12

\* A band given up for no more than it holds.
LEMMA GivesUp ==
  ASSUME NEW g, IsGeometry(g), NEW R, NEW s \in SkipStates(g, R), WithinTotal(g, s),
         s.coded > g.start + 1, NEW bits \in Int, NEW cost \in Nat,
         (IF bits >= 8 * g.c THEN 8 * g.c ELSE 0) + cost <= s.bits[s.coded - 1] + (s.total - s.sum)
  PROVE  GiveUp(g, s, bits, cost) \in SkipStates(g, R) /\ WithinTotal(g, GiveUp(g, s, bits, cost))
<1>0. PICK i : i = s.coded - 1
  OBVIOUS
<1>1. PICK rsv, floor, sum, all :
        /\ rsv = (IF s.rsv > 0 THEN Log2Frac[i - g.start + 1] ELSE 0)
        /\ floor = (IF bits >= 8 * g.c THEN 8 * g.c ELSE 0)
        /\ sum = s.sum + cost - s.bits[i] - s.rsv + rsv + floor
        /\ all = [s.bits EXCEPT ![i] = floor]
  OBVIOUS
<1>2. /\ s.bits \in Amounts /\ s.sum \in Int /\ s.total \in Nat
      /\ s.coded \in g.start + 1..g.end /\ s.rsv \in Nat
  BY SkipFields
<1>3. /\ g.start \in Nat /\ g.end \in 1..NB /\ NB \in 1..23 /\ i \in g.start + 1..g.end /\ i \in 0..NB - 1
      /\ i < s.coded /\ i - g.start + 1 \in 2..24 /\ s.coded - g.start + 1 \in 2..24
      /\ i - g.start + 1 <= s.coded - g.start + 1 /\ g.c \in {1, 2}
  <2>1. g.start \in Nat /\ g.end \in 1..NB /\ NB \in 1..23 /\ g.c \in {1, 2}
    BY GeometryFacts, Table
  <2> QED BY ONLY <1>0, <2>1, <1>2, s.coded > g.start + 1
<1>4. rsv \in Nat /\ rsv <= s.rsv
  <2>1. PICK a, m : a = i - g.start + 1 /\ m = s.coded - g.start + 1
    OBVIOUS
  <2>2. /\ Log2Frac[a] \in Nat /\ Log2Frac[m] \in Nat /\ Log2Frac[a] <= Log2Frac[m]
    <3>1. a \in 1..24 /\ m \in 1..24 /\ a \in 1..m
      BY <2>1, <1>3
    <3> QED BY ONLY <3>1, TableLogs
  <2>3. s.rsv > 0 => s.rsv = Log2Frac[m]
    BY <2>1 DEF WithinTotal
  <2> QED BY ONLY <1>1, <1>2, <2>1, <2>2, <2>3
<1>5. floor \in Nat /\ floor \in {0, 8 * g.c} /\ s.bits[i] \in Nat
  <2>1. s.bits[i] \in Nat
    BY ONLY <1>2, <1>3 DEF Amounts
  <2> QED BY ONLY <1>1, <1>3, <2>1
<1>6. sum \in Int /\ sum <= s.total
  <2>1. floor + cost <= s.bits[i] + (s.total - s.sum)
    BY <1>0, <1>1
  <2> QED BY ONLY <1>1, <1>2, <1>4, <1>5, <2>1, cost \in Nat
<1>7. all \in Amounts /\ all[i] = floor /\ \A j \in i + 1..g.end - 1 : all[j] = s.bits[j]
  <2>1. \A j \in i + 1..g.end - 1 : j \in 0..NB - 1 /\ j # i
    BY ONLY <1>3
  <2> QED BY ONLY <1>1, <1>2, <1>3, <1>5, <2>1 DEF Amounts
<1> DEFINE a1 == [s EXCEPT !.sum = sum]
           a2 == [a1 EXCEPT !.rsv = rsv]
           a3 == [a2 EXCEPT !.bits = all]
           a4 == [a3 EXCEPT !.coded = i]
<1>8. GiveUp(g, s, bits, cost) = a4
  BY ONLY <1>0, <1>1, Zenon DEF GiveUp
<1>9. /\ a1 \in SkipStates(g, R) /\ a1.sum = sum /\ a1.total = s.total
  BY ONLY <1>6, s \in SkipStates(g, R) DEF SkipStates
<1> HIDE DEF a1
<1>10. a2 \in SkipStates(g, R) /\ a2.sum = sum /\ a2.total = s.total /\ a2.rsv = rsv
  BY ONLY <1>4, <1>9 DEF SkipStates
<1> HIDE DEF a2
<1>11. /\ a3 \in SkipStates(g, R) /\ a3.sum = sum /\ a3.total = s.total /\ a3.rsv = rsv
       /\ a3.bits = all
  BY ONLY <1>7, <1>10 DEF SkipStates
<1> HIDE DEF a3
<1>12. /\ a4 \in SkipStates(g, R) /\ a4.sum = sum /\ a4.total = s.total /\ a4.rsv = rsv
       /\ a4.bits = all /\ a4.coded = i
  <2>1. i \in g.start + 1..g.end
    BY <1>3
  <2> QED BY ONLY <2>1, <1>11 DEF SkipStates
<1> HIDE DEF a4
<1>14. WithinTotal(g, a4)
  <2>1. \A j \in i..g.end - 1 : all[j] \in {0, 8 * g.c}
    <3> TAKE j \in i..g.end - 1
    <3>1. CASE j = i
      BY <3>1, <1>7, <1>5
    <3>2. CASE j # i
      <4>1. j \in i + 1..g.end - 1 /\ j \in s.coded..g.end - 1
        BY <3>2, <1>0, <1>2, <1>3
      <4> QED BY <4>1, <1>7 DEF WithinTotal
    <3> QED BY <3>1, <3>2
  <2>2. rsv > 0 => rsv = Log2Frac[i - g.start + 1]
    BY <1>1
  <2> QED BY ONLY <2>1, <2>2, <1>6, <1>12 DEF WithinTotal
<1> QED BY <1>8, <1>12, <1>14

\* What a step of the skipping may do with band i, which would hold so many bits.
SkipMoves(g, skipStart, s, i, holds, next) ==
  \/ s.stop /\ next = s
  \/ i <= skipStart /\ next = [s EXCEPT !.total = @ + s.skipRsv, !.stop = TRUE]
  \/ /\ i > skipStart /\ holds >= Most(Thresh(g, i), 8 * g.c + 8)
     /\ \E on : \E f : /\ f = Flag(s.rc, 1, on)
                       /\ next = IF f.value THEN [s EXCEPT !.rc = f.rc, !.stop = TRUE]
                                 ELSE GiveUp(g, [s EXCEPT !.rc = f.rc], holds - 8, 8)
  \/ ~(i <= skipStart) /\ next = GiveUp(g, s, holds, 0)

\* A step of the skipping is one of these moves.
LEMMA SkipCases ==
  ASSUME NEW g, NEW skipStart \in Int, NEW s, s.coded - 1 \in Int
  PROVE  SkipMoves(g, skipStart, s, s.coded - 1, Holding(g, s, s.coded - 1),
                   SkipStep(g, skipStart, s))
<1>0. PICK i, holds : i = s.coded - 1 /\ holds = Holding(g, s, i)
  OBVIOUS
<1> SUFFICES SkipMoves(g, skipStart, s, i, holds, SkipStep(g, skipStart, s))
  BY <1>0
<1> USE <1>0 DEF SkipMoves
<1>1. CASE s.stop
  <2>1. SkipStep(g, skipStart, s) = s
    BY <1>1, ZenonT(60) DEF SkipStep
  <2> QED BY <1>1, <2>1
<1>2. CASE ~s.stop /\ i <= skipStart
  <2>1. SkipStep(g, skipStart, s) = [s EXCEPT !.total = @ + s.skipRsv, !.stop = TRUE]
    <3>1. ~(i > skipStart)
      BY <1>2
    <3> QED BY <1>2, <3>1, ZenonT(60) DEF SkipStep
  <2> QED BY <1>2, <2>1
<1>3. CASE ~s.stop /\ i > skipStart /\ holds >= Most(Thresh(g, i), 8 * g.c + 8)
  <2>1. ~(i <= skipStart)
    BY <1>3
  <2>2. PICK on, f :
          /\ f = Flag(s.rc, 1, on)
          /\ SkipStep(g, skipStart, s) = IF f.value THEN [s EXCEPT !.rc = f.rc, !.stop = TRUE]
                                         ELSE GiveUp(g, [s EXCEPT !.rc = f.rc], holds - 8, 8)
    BY <1>3, <2>1, ZenonT(60) DEF SkipStep
  <2> QED BY <1>3, <2>2
<1>4. CASE ~s.stop /\ ~(i <= skipStart) /\ ~(i > skipStart /\ holds >= Most(Thresh(g, i), 8 * g.c + 8))
  <2>1. SkipStep(g, skipStart, s) = GiveUp(g, s, holds, 0)
    BY <1>4, ZenonT(60) DEF SkipStep
  <2> QED BY <1>4, <2>1
<1> QED BY ONLY <1>1, <1>2, <1>3, <1>4, Zenon

\* A step of the skipping keeps to its states, within the total.
LEMMA SkipKeeps ==
  ASSUME NEW g, IsGeometry(g), NEW skipStart \in Int, skipStart >= g.start,
         NEW w \in BOOLEAN, NEW Y, Readable(Y), NEW S,
         NEW s \in SkipStates(g, Coders(w, Y, S)), WithinTotal(g, s)
  PROVE  /\ SkipStep(g, skipStart, s) \in SkipStates(g, Coders(w, Y, S))
         /\ WithinTotal(g, SkipStep(g, skipStart, s))
<1>a. PICK R : R = Coders(w, Y, S)
  OBVIOUS
<1>b. s \in SkipStates(g, R)
  BY <1>a
<1>0. PICK i, holds, next : i = s.coded - 1 /\ holds = Holding(g, s, i) /\ next = SkipStep(g, skipStart, s)
  OBVIOUS
<1>c. SUFFICES next \in SkipStates(g, R) /\ WithinTotal(g, next)
  BY <1>a, <1>0
<1>1. /\ s.rc \in R /\ s.bits \in Amounts /\ s.sum \in Int /\ s.total \in Nat
      /\ s.coded \in g.start + 1..g.end /\ s.rsv \in Nat /\ s.skipRsv \in Nat /\ s.stop \in BOOLEAN
  BY ONLY <1>b, SkipFields
<1>2. g.start \in Nat /\ g.c \in {1, 2} /\ g.end \in Int /\ NB \in Int /\ g.end <= NB
  BY GeometryFacts, Table
<1>3. i \in Int /\ i \in 0..NB - 1
  BY ONLY <1>0, <1>1, <1>2
<1>4. holds \in Nat /\ holds <= s.bits[s.coded - 1] + (s.total - s.sum)
  BY <1>0, HoldingFits
<1>5. Thresh(g, i) \in Nat
  BY <1>3, BandFacts
<1>6. CASE s.stop /\ next = s
  BY <1>b, <1>6
<1>7. CASE i <= skipStart /\ next = [s EXCEPT !.total = @ + s.skipRsv, !.stop = TRUE]
  <2> DEFINE a1 == [s EXCEPT !.total = s.total + s.skipRsv]
             a2 == [a1 EXCEPT !.stop = TRUE]
  <2>1. next = a2
    BY ONLY <1>7, Zenon
  <2>2. /\ a1 \in SkipStates(g, R) /\ a1.sum = s.sum /\ a1.rsv = s.rsv /\ a1.bits = s.bits
        /\ a1.coded = s.coded /\ a1.total = s.total + s.skipRsv
    BY ONLY <1>1, <1>b DEF SkipStates
  <2> HIDE DEF a1
  <2>3. /\ a2 \in SkipStates(g, R) /\ a2.sum = s.sum /\ a2.rsv = s.rsv /\ a2.bits = s.bits
        /\ a2.coded = s.coded /\ a2.total = s.total + s.skipRsv
    BY ONLY <2>2 DEF SkipStates
  <2> HIDE DEF a2
  <2>4. WithinTotal(g, a2)
    BY ONLY <1>1, <2>3, WithinTotal(g, s) DEF WithinTotal
  <2> QED BY <2>1, <2>3, <2>4
<1>8. ASSUME NEW on, NEW f, f = Flag(s.rc, 1, on)
      PROVE  [s EXCEPT !.rc = f.rc] \in SkipStates(g, R) /\ WithinTotal(g, [s EXCEPT !.rc = f.rc])
             /\ [s EXCEPT !.rc = f.rc].bits = s.bits /\ [s EXCEPT !.rc = f.rc].sum = s.sum
             /\ [s EXCEPT !.rc = f.rc].coded = s.coded /\ [s EXCEPT !.rc = f.rc].total = s.total
             /\ [s EXCEPT !.rc = f.rc, !.stop = TRUE] \in SkipStates(g, R)
             /\ WithinTotal(g, [s EXCEPT !.rc = f.rc, !.stop = TRUE])
  <2>1. f.rc \in R
    BY ONLY <1>a, <1>1, <1>8, FlagKeeps, 1 \in Int, w \in BOOLEAN, Readable(Y)
  <2> DEFINE a1 == [s EXCEPT !.rc = f.rc]
             a2 == [a1 EXCEPT !.stop = TRUE]
  <2>2. /\ a1 \in SkipStates(g, R) /\ a1.sum = s.sum /\ a1.rsv = s.rsv /\ a1.bits = s.bits
        /\ a1.coded = s.coded /\ a1.total = s.total
    <3> QED BY ONLY <2>1, <1>b DEF SkipStates
  <2> HIDE DEF a1
  <2>3. /\ a2 \in SkipStates(g, R) /\ a2.sum = s.sum /\ a2.rsv = s.rsv /\ a2.bits = s.bits
        /\ a2.coded = s.coded /\ a2.total = s.total
    <3> QED BY ONLY <2>2 DEF SkipStates
  <2> HIDE DEF a2
  <2>4. WithinTotal(g, a1) /\ WithinTotal(g, a2)
    BY ONLY <1>1, <2>2, <2>3, WithinTotal(g, s) DEF WithinTotal
  <2> QED BY ONLY <2>2, <2>3, <2>4, Zenon DEF a1, a2
<1>9. CASE /\ i > skipStart /\ holds >= Most(Thresh(g, i), 8 * g.c + 8)
           /\ \E on : \E f : /\ f = Flag(s.rc, 1, on)
                             /\ next = IF f.value THEN [s EXCEPT !.rc = f.rc, !.stop = TRUE]
                                       ELSE GiveUp(g, [s EXCEPT !.rc = f.rc], holds - 8, 8)
  <2>1. PICK on, f : /\ f = Flag(s.rc, 1, on)
                     /\ next = IF f.value THEN [s EXCEPT !.rc = f.rc, !.stop = TRUE]
                               ELSE GiveUp(g, [s EXCEPT !.rc = f.rc], holds - 8, 8)
    BY <1>9
  <2>2. PICK t : t = [s EXCEPT !.rc = f.rc]
    OBVIOUS
  <2>3. /\ t \in SkipStates(g, R) /\ WithinTotal(g, t)
        /\ t.bits = s.bits /\ t.sum = s.sum /\ t.coded = s.coded /\ t.total = s.total
    <3> QED BY <1>8, <2>1, <2>2, Zenon
  <2>4. holds >= 8 * g.c + 8
    BY ONLY <1>2, <1>4, <1>5, <1>9 DEF Most
  <2>5. (IF holds - 8 >= 8 * g.c THEN 8 * g.c ELSE 0) + 8 <= s.bits[s.coded - 1] + (s.total - s.sum)
    <3>1. PICK b : b = s.bits[s.coded - 1]
      OBVIOUS
    <3>2. b \in Nat
      BY ONLY <3>1, <1>0, <1>1, <1>3 DEF Amounts
    <3> QED BY ONLY <1>1, <1>2, <1>4, <2>4, <3>1, <3>2
  <2>6. GiveUp(g, t, holds - 8, 8) \in SkipStates(g, R) /\ WithinTotal(g, GiveUp(g, t, holds - 8, 8))
    <3>1. t.coded > g.start + 1
      BY ONLY <1>0, <1>1, <1>2, <1>9, <2>3, skipStart \in Int, skipStart >= g.start
    <3>2. holds - 8 \in Int /\ 8 \in Nat
      BY <1>4
    <3> QED BY ONLY IsGeometry(g), <2>3, <2>5, <3>1, <3>2, GivesUp
  <2>7. CASE f.value
    <3> QED BY <1>8, <2>1, <2>7, Zenon
  <2>8. CASE ~f.value
    BY <2>1, <2>2, <2>6, <2>8
  <2> QED BY <2>7, <2>8
<1>10. CASE ~(i <= skipStart) /\ next = GiveUp(g, s, holds, 0)
  <2>1. s.coded > g.start + 1
    BY ONLY <1>0, <1>1, <1>2, <1>10, skipStart \in Int, skipStart >= g.start
  <2>2. (IF holds >= 8 * g.c THEN 8 * g.c ELSE 0) + 0 <= s.bits[s.coded - 1] + (s.total - s.sum)
    <3>1. PICK b : b = s.bits[s.coded - 1]
      OBVIOUS
    <3>2. b \in Nat
      BY ONLY <3>1, <1>0, <1>1, <1>3 DEF Amounts
    <3> QED BY ONLY <1>1, <1>2, <1>4, <3>1, <3>2
  <2>c. PICK cost : cost = 0
    OBVIOUS
  <2>3. GiveUp(g, s, holds, cost) \in SkipStates(g, R) /\ WithinTotal(g, GiveUp(g, s, holds, cost))
    <3>1. holds \in Int /\ cost \in Nat
      BY <1>4, <2>c
    <3>2. (IF holds >= 8 * g.c THEN 8 * g.c ELSE 0) + cost <= s.bits[s.coded - 1] + (s.total - s.sum)
      BY <2>2, <2>c
    <3> QED BY ONLY IsGeometry(g), <2>1, <3>2, <3>1, <1>b, WithinTotal(g, s), GivesUp
  <2> QED BY <1>10, <2>c, <2>3
<1>11. SkipMoves(g, skipStart, s, i, holds, next)
  <2>1. SkipMoves(g, skipStart, s, s.coded - 1, Holding(g, s, s.coded - 1), SkipStep(g, skipStart, s))
    BY ONLY <1>0, <1>3, skipStart \in Int, SkipCases
  <2> QED BY ONLY <1>0, <2>1, Zenon
<1> QED BY ONLY <1>6, <1>7, <1>9, <1>10, <1>11, Zenon DEF SkipMoves

\* A largest member of a set of bands.
LEMMA Highest ==
  ASSUME NEW n \in Nat
  PROVE  \A A \in SUBSET (0..n) : A # {} => \E i \in A : \A j \in A : j <= i
<1> DEFINE T == {m \in Nat : \A A \in SUBSET (0..m) : A # {} => \E i \in A : \A j \in A : j <= i}
<1>1. 0 \in T
  <2>1. ASSUME NEW A \in SUBSET (0..0), A # {} PROVE \E i \in A : \A j \in A : j <= i
    <3>1. PICK i \in A : TRUE
      BY <2>1
    <3>2. \A j \in A : j = 0
      OBVIOUS
    <3> QED BY <3>1, <3>2
  <2> QED BY <2>1
<1>2. ASSUME NEW m \in T PROVE m + 1 \in T
  <2>1. m \in Nat /\ m + 1 \in Nat
    OBVIOUS
  <2>2. ASSUME NEW A \in SUBSET (0..m + 1), A # {} PROVE \E i \in A : \A j \in A : j <= i
    <3>1. CASE m + 1 \in A
      BY <2>1, <3>1
    <3>2. CASE m + 1 \notin A
      <4>1. A \in SUBSET (0..m)
        BY <2>1, <3>2
      <4> QED BY <4>1, <2>2
    <3> QED BY <3>1, <3>2
  <2> QED BY <2>1, <2>2
<1>3. T = Nat
  <2>1. T \subseteq Nat
    OBVIOUS
  <2> HIDE DEF T
  <2> QED BY <1>1, <1>2, <2>1, Induction, ZenonT(60)
<1>4. n \in T
  BY <1>3
<1> QED BY <1>4

\* All its steps keep to them, so that a band is coded at the end.
LEMMA SkipEnds ==
  ASSUME NEW g, IsGeometry(g), NEW skipStart \in Int, skipStart >= g.start,
         NEW w \in BOOLEAN, NEW Y, Readable(Y), NEW S,
         NEW st \in SkipStates(g, Coders(w, Y, S)), WithinTotal(g, st)
  PROVE  /\ SkipBands(g, st, skipStart) \in SkipStates(g, Coders(w, Y, S))
         /\ WithinTotal(g, SkipBands(g, st, skipStart))
<1> DEFINE X == {s \in SkipStates(g, Coders(w, Y, S)) : WithinTotal(g, s)}
<1>1. PICK seq : seq = Bands(g)
  OBVIOUS
<1>2. Len(seq) \in Nat
  BY <1>1, BandsIs
<1>3. \A s \in X, k \in 1..Len(seq) : SkipStep(g, skipStart, s) \in X
  BY SkipKeeps
<1>4. st \in X
  OBVIOUS
<1>5. SkipEnd(g, skipStart, st, seq) \in X
  <2> HIDE DEF X
  <2> QED BY ONLY <1>2, <1>3, <1>4, SkipLoop
<1>6. SkipBands(g, st, skipStart) = SkipEnd(g, skipStart, st, seq)
  BY <1>1, Zenon DEF SkipBands, SkipEnd, ForEach
<1> QED BY <1>5, <1>6

\* The intensity band and the dual flag are coded within the total.
LEMMA StereoKeeps ==
  ASSUME NEW g, IsGeometry(g), NEW w \in BOOLEAN, NEW Y, Readable(Y), NEW S,
         NEW st \in SkipStates(g, Coders(w, Y, S)), WithinTotal(g, st),
         NEW intensity \in Int, NEW dual, NEW dualRsv \in Nat
  PROVE  LET r == CodeStereo(g, st, intensity, dual, dualRsv)
         IN  /\ r.st \in SkipStates(g, Coders(w, Y, S)) /\ WithinTotal(g, r.st)
             /\ r.intensity \in Int /\ r.dual \in BOOLEAN
<1>a. PICK R : R = Coders(w, Y, S)
  OBVIOUS
<1> DEFINE Told(i, rc, flag) == StereoTold(g, st, dualRsv, i, rc, flag)
           Flagged(rc) == Flag(rc, 1, dual)
           From(i, rc) == DualAfter(g, st, dual, dualRsv, i, rc)
           n == st.coded + 1 - g.start
           first == Code(st.rc, "uint", n, Least(intensity, st.coded) - g.start)
           Good(r) == /\ r.st \in SkipStates(g, R) /\ WithinTotal(g, r.st)
                      /\ r.intensity \in Int /\ r.dual \in BOOLEAN
<1>1. /\ st.rc \in R /\ st.bits \in Amounts /\ st.sum \in Int /\ st.total \in Nat
      /\ st.coded \in g.start + 1..g.end /\ st.rsv \in Nat /\ st \in SkipStates(g, R)
  BY <1>a, SkipFields
<1>2. g.start \in Nat /\ g.end \in Int
  BY GeometryFacts
<1>3. ASSUME NEW i \in Int, NEW rc \in R, NEW flag \in BOOLEAN PROVE Good(Told(i, rc, flag))
  <2> DEFINE total == IF i <= g.start THEN st.total + dualRsv ELSE st.total
             a1 == [st EXCEPT !.rc = rc]
             a2 == [a1 EXCEPT !.total = total]
  <2>1. total \in Nat /\ total >= st.total
    BY <1>1
  <2> HIDE DEF total
  <2>2. /\ a1 \in SkipStates(g, R) /\ a1.sum = st.sum /\ a1.rsv = st.rsv /\ a1.bits = st.bits
        /\ a1.coded = st.coded /\ a1.total = st.total
    BY ONLY <1>1, rc \in R DEF SkipStates
  <2> HIDE DEF a1
  <2>3. /\ a2 \in SkipStates(g, R) /\ a2.sum = st.sum /\ a2.rsv = st.rsv /\ a2.bits = st.bits
        /\ a2.coded = st.coded /\ a2.total = total
    BY ONLY <2>1, <2>2 DEF SkipStates
  <2> HIDE DEF a2
  <2>4. WithinTotal(g, a2)
    BY ONLY <1>1, <2>1, <2>3, WithinTotal(g, st) DEF WithinTotal
  <2>5. a2 = [st EXCEPT !.rc = rc, !.total = total]
    BY ONLY Zenon DEF a1, a2
  <2>6. Told(i, rc, flag) = [st |-> a2, intensity |-> i, dual |-> flag]
    <3>1. [st EXCEPT !.rc = rc, !.total = IF i <= g.start THEN @ + dualRsv ELSE @]
            = [st EXCEPT !.rc = rc, !.total = total]
      BY ONLY Zenon DEF total
    <3> QED BY ONLY <2>5, <3>1, Zenon DEF Told, StereoTold
  <2> QED BY ONLY <2>3, <2>4, <2>6, i \in Int, flag \in BOOLEAN
<1> HIDE DEF Told, Good
<1>4. \A i \in Int, rc \in R : Good(From(i, rc))
  <2> TAKE i \in Int, rc \in R
  <2>1. Flagged(rc).rc \in R /\ Flagged(rc).value \in BOOLEAN
    BY ONLY <1>a, rc \in R, 1 \in Int, w \in BOOLEAN, Readable(Y), FlagKeeps
  <2>2. From(i, rc) = IF i > g.start /\ dualRsv > 0 THEN Told(i, Flagged(rc).rc, Flagged(rc).value)
                      ELSE Told(i, rc, FALSE)
    BY ONLY Zenon DEF DualAfter, Told
  <2> HIDE DEF Flagged, From
  <2>3. Good(Told(i, Flagged(rc).rc, Flagged(rc).value)) /\ Good(Told(i, rc, FALSE))
    BY ONLY <2>1, <1>3, i \in Int, rc \in R
  <2> QED BY ONLY <2>2, <2>3
<1>5. CodeStereo(g, st, intensity, dual, dualRsv)
        = IF st.rsv > 0 THEN From(g.start + first.value, first.rc) ELSE From(0, st.rc)
  BY ONLY Zenon DEF CodeStereo, From, first, n
<1>6. first.rc \in R /\ first.value \in Int
  <2>1. n \in Nat \ {0} /\ Codable("uint", n)
    BY ONLY <1>1, <1>2 DEF Codable
  <2>2. Least(intensity, st.coded) - g.start \in Int
    BY ONLY <1>1, <1>2, intensity \in Int DEF Least
  <2> HIDE DEF n
  <2> QED BY ONLY <1>a, <1>1, <2>1, <2>2, w \in BOOLEAN, Readable(Y), CodeKeeps
<1> HIDE DEF first, From
<1>7. Good(CodeStereo(g, st, intensity, dual, dualRsv))
  <2>1. g.start + first.value \in Int /\ 0 \in Int
    BY <1>2, <1>6
  <2> QED BY ONLY <2>1, <1>1, <1>4, <1>5, <1>6
<1> QED BY ONLY <1>a, <1>7 DEF Good

\* What is left goes to the coded bands.
LEMMA SpreadsWithin ==
  ASSUME NEW g, IsGeometry(g), NEW bits \in Amounts, NEW left \in Nat, NEW coded \in g.start + 1..g.end
  PROVE  /\ SpreadLeft(g, bits, left, coded) \in Amounts
         /\ \A j \in coded..NB - 1 : SpreadLeft(g, bits, left, coded)[j] = bits[j]
<1>1. PICK span, each, rest : /\ span = Edges[coded + 1] - Edges[g.start + 1]
                              /\ each = Quot(left, span) /\ rest = left - span * each
  OBVIOUS
<1>2. /\ g.start \in Nat /\ g.end \in 1..NB /\ NB \in 1..23 /\ coded - 1 \in 0..NB - 1
      /\ coded - 1 \in g.start..NB /\ g.start \in 0..NB /\ coded \in 0..NB /\ coded - 1 \in 0..NB /\ coded \in Int
      /\ (coded - 1) + 1 = coded /\ (coded - 1) + 2 = coded + 1
  <2>1. g.start \in Nat /\ g.end \in 1..NB /\ NB \in 1..23
    BY GeometryFacts, Table
  <2> QED BY ONLY <2>1, coded \in g.start + 1..g.end
<1>3. span \in Nat \ {0}
  <2>1. Edges[coded] \in Nat /\ Edges[g.start + 1] \in Nat /\ Edges[g.start + 1] <= Edges[coded]
    <3>1. /\ Edges[g.start + 1] \in Nat /\ Edges[(coded - 1) + 1] \in Nat
          /\ Edges[g.start + 1] <= Edges[(coded - 1) + 1]
      BY ONLY <1>2, EdgesOrder
    <3> QED BY ONLY <1>2, <3>1
  <2>2. Edges[coded + 1] \in Nat
    BY ONLY <1>2, EdgesOrder
  <2>3. Width(coded - 1) \in Nat \ {0}
    BY ONLY <1>2, Table
  <2>4. Width(coded - 1) = Edges[coded + 1] - Edges[coded]
    BY ONLY <1>2 DEF Width
  <2> QED BY ONLY <1>1, <2>1, <2>2, <2>3, <2>4
<1>4. each \in Nat /\ rest \in Nat
  <2>1. each = left \div span
    BY <1>1 DEF Quot
  <2>2. each \in Nat /\ span * each <= left
    BY ONLY <1>3, <2>1, left \in Nat, Shares
  <2> QED BY ONLY <1>1, <1>3, <2>2, left \in Nat
<1> DEFINE X == {s \in [bits : Amounts, left : Nat] : \A j \in coded..NB - 1 : s.bits[j] = bits[j]}
           base == [bits |-> bits, left |-> rest]
<1>5. PICK seq : seq = Upto(g.start, coded)
  OBVIOUS
<1>6. Len(seq) \in Nat /\ \A k \in 1..Len(seq) : seq[k] \in g.start..coded - 1
  <2>1. g.start \in Int /\ coded \in Int /\ g.start <= coded
    BY ONLY <1>2
  <2>2. Len(seq) = coded - g.start /\ \A k \in 1..coded - g.start : seq[k] \in g.start..coded - 1
    BY ONLY <1>5, <2>1, UptoIs
  <2>3. coded - g.start \in Nat
    BY ONLY <2>1
  <2> QED BY ONLY <2>2, <2>3
<1>7. base \in X
  BY <1>4
<1>8. ASSUME NEW s \in X, NEW i \in g.start..coded - 1 PROVE SpreadStep(each, s, i) \in X
  <2>1. i \in 0..NB - 1 /\ Width(i) \in Nat \ {0} /\ \A j \in coded..NB - 1 : j # i
    <3>1. i \in 0..NB - 1 /\ \A j \in coded..NB - 1 : j # i
      BY ONLY <1>2, i \in g.start..coded - 1
    <3> QED BY ONLY <3>1, Table
  <2>2. PICK wd, more, b, new : /\ wd = Width(i) /\ more = Least(s.left, wd) /\ b = s.bits[i] + each * wd + more
                                /\ new = [s.bits EXCEPT ![i] = b]
    OBVIOUS
  <2>3. s.left \in Nat /\ s.bits \in Amounts /\ \A j \in coded..NB - 1 : s.bits[j] = bits[j]
    OBVIOUS
  <2>4. SpreadStep(each, s, i) = [bits |-> new, left |-> s.left - more]
    BY ONLY <2>2, Zenon DEF SpreadStep
  <2>5. more \in Nat /\ s.left - more \in Nat
    BY ONLY <2>1, <2>2, <2>3 DEF Least
  <2>6. b \in Nat
    <3>1. s.bits[i] \in Nat /\ each * wd \in Nat
      BY ONLY <1>4, <2>1, <2>2, <2>3, Times DEF Amounts
    <3> QED BY ONLY <3>1, <2>2, <2>5
  <2>7. new \in Amounts /\ \A j \in coded..NB - 1 : new[j] = bits[j]
    <3>1. \A j \in coded..NB - 1 : j \in 0..NB - 1
      BY ONLY <1>2
    <3> QED BY ONLY <2>1, <2>2, <2>3, <2>6, <3>1 DEF Amounts
  <2> QED BY <2>4, <2>5, <2>7
<1>9. SpreadEnd(each, base, seq) \in X
  <2>1. \A s \in X, k \in 1..Len(seq) : SpreadStep(each, s, seq[k]) \in X
    <3> HIDE DEF X
    <3> QED BY ONLY <1>6, <1>8
  <2> HIDE DEF X, base
  <2> QED BY ONLY <1>6, <1>7, <2>1, SpreadLoop
<1>10. SpreadLeft(g, bits, left, coded) = SpreadEnd(each, base, seq).bits
  <2>1. SpreadLeft(g, bits, left, coded)
          = SpreadEnd(Quot(left, Edges[coded + 1] - Edges[g.start + 1]),
                      [bits |-> bits, left |-> left - (Edges[coded + 1] - Edges[g.start + 1])
                                                       * Quot(left, Edges[coded + 1] - Edges[g.start + 1])],
                      Upto(g.start, coded)).bits
    BY ONLY Zenon DEF SpreadLeft, SpreadEnd, ForEach
  <2> QED BY ONLY <1>1, <1>5, <2>1, Zenon DEF base
<1> HIDE DEF base
<1> QED BY <1>9, <1>10

\* The fine energy of a band is within its bits.
LEMMA FineShares ==
  ASSUME NEW g, IsGeometry(g), NEW i \in 0..NB - 1, NEW bits \in Nat, NEW stereo
  PROVE  /\ FineShare(g, i, bits, stereo).fine \in 0..8
         /\ 8 * g.c * FineShare(g, i, bits, stereo).fine <= bits
         /\ FineShare(g, i, bits, stereo).priority \in {0, 1}
<1> DEFINE n == Width(i) * Pow2[g.lm]
           den == g.c * n + (IF g.c = 2 /\ n > 2 /\ ~stereo.dual /\ i < stereo.intensity THEN 1 ELSE 0)
           logs == den * (LogN(i) + 8 * g.lm)
           base == logs \div 2 - den * 21 + (IF n = 2 THEN (8 * den) \div 4 ELSE 0)
           offset == base + (IF bits + base < 16 * den THEN logs \div 4
                             ELSE IF bits + base < 24 * den THEN logs \div 8 ELSE 0)
           share == (Most(0, bits + offset + 4 * den) \div den) \div 8
           fine == Least(IF g.c * share > bits \div 8 THEN (bits \div g.c) \div 8 ELSE share, 8)
           prio == IF fine * 8 * den >= bits + offset THEN 1 ELSE 0
<1>1. FineShare(g, i, bits, stereo) = [fine |-> fine, priority |-> prio]
  BY ONLY ZenonT(60) DEF FineShare, n, den, logs, base, offset, share, fine, prio
<1>2. g.c \in {1, 2} /\ g.lm \in 0..3 /\ n \in Nat \ {0} /\ LogN(i) \in Nat
  BY GeometryFacts, BandFacts, Table
<1>3. den \in Nat \ {0}
  <2> HIDE DEF n
  <2> QED BY ONLY <1>2
<1> HIDE DEF n, den
<1>4. logs \in Int
  BY <1>2, <1>3, Times
<1> HIDE DEF logs
<1>5. base \in Int
  BY <1>3, <1>4
<1> HIDE DEF base
<1>6. offset \in Int
  BY <1>4, <1>5
<1> HIDE DEF offset
<1>7. share \in Nat
  <2>1. PICK top : top = Most(0, bits + offset + 4 * den)
    OBVIOUS
  <2>2. top \in Nat
    BY ONLY <2>1, <1>3, <1>6, bits \in Nat DEF Most
  <2>3. top \div den \in Nat
    BY ONLY <2>2, <1>3, Shares
  <2> QED BY ONLY <2>1, <2>3 DEF share
<1> HIDE DEF share
<1>8. fine \in 0..8 /\ 8 * g.c * fine <= bits
  <2>1. CASE g.c = 1
    BY ONLY <2>1, <1>7, bits \in Nat DEF Least, fine
  <2>2. CASE g.c = 2
    BY ONLY <2>2, <1>7, bits \in Nat DEF Least, fine
  <2> QED BY <1>2, <2>1, <2>2
<1> HIDE DEF fine
<1>9. prio \in {0, 1}
  OBVIOUS
<1> HIDE DEF prio
<1> QED BY <1>1, <1>8, <1>9

\* How a band's bits are split.
SplitStates ==
  [bits : Amounts, fine : [0..NB - 1 -> 0..8], priority : [0..NB - 1 -> {0, 1}], balance : Nat]

LEMMA Splits ==
  ASSUME NEW g, IsGeometry(g), NEW i \in 0..NB - 1, NEW s \in SplitStates, NEW stereo
  PROVE  /\ SplitBand(g, s, i, stereo) \in SplitStates
         /\ \A j \in 0..NB - 1 : j # i => SplitBand(g, s, i, stereo).bits[j] = s.bits[j]
<1> DEFINE bit == s.bits[i] + s.balance
           one == Width(i) * Pow2[g.lm] = 1
           excess == Most(0, bit - (IF one THEN 8 * g.c ELSE CapOf(g, i)))
           kept == bit - excess
           f == IF one THEN [fine |-> 0, priority |-> 1] ELSE FineShare(g, i, kept, stereo)
           more == IF excess > 0 THEN Least((excess \div g.c) \div 8, 8 - f.fine) ELSE 0
           extra == 8 * more * g.c
           first == IF excess > 0 THEN (IF extra >= excess - s.balance THEN 1 ELSE 0) ELSE f.priority
<1>1. SplitBand(g, s, i, stereo)
        = [bits |-> [s.bits EXCEPT ![i] = kept - 8 * g.c * f.fine],
           fine |-> [s.fine EXCEPT ![i] = f.fine + more],
           priority |-> [s.priority EXCEPT ![i] = first],
           balance |-> excess - extra]
  BY ONLY ZenonT(60) DEF SplitBand, bit, one, excess, kept, f, more, extra, first
<1>2. /\ g.c \in {1, 2} /\ CapOf(g, i) \in Nat /\ bit \in Nat
      /\ s.bits \in Amounts /\ s.fine \in [0..NB - 1 -> 0..8]
      /\ s.priority \in [0..NB - 1 -> {0, 1}] /\ s.balance \in Nat
  <2>1. g.c \in {1, 2} /\ CapOf(g, i) \in Nat
    BY GeometryFacts, BandFacts
  <2>2. /\ s.bits \in Amounts /\ s.fine \in [0..NB - 1 -> 0..8]
        /\ s.priority \in [0..NB - 1 -> {0, 1}] /\ s.balance \in Nat
    BY ONLY s \in SplitStates DEF SplitStates
  <2>3. s.bits[i] \in Nat
    BY ONLY <2>2, i \in 0..NB - 1 DEF Amounts
  <2> QED BY ONLY <2>1, <2>2, <2>3 DEF bit
<1> HIDE DEF bit, one
<1>3. excess \in Nat /\ kept \in Nat
  BY ONLY <1>2 DEF excess, kept, Most
<1> HIDE DEF excess, kept
<1>4. f.fine \in 0..8 /\ 8 * g.c * f.fine <= kept /\ f.priority \in {0, 1}
  <2>1. CASE one
    BY ONLY <2>1, <1>2, <1>3 DEF f
  <2>2. CASE ~one
    <3>1. f = FineShare(g, i, kept, stereo)
      BY <2>2
    <3> QED BY ONLY <3>1, <1>3, IsGeometry(g), i \in 0..NB - 1, FineShares
  <2> QED BY <2>1, <2>2
<1> HIDE DEF f
<1>5. more \in 0..8 - f.fine /\ extra \in Nat /\ extra <= excess
  <2>1. CASE g.c = 1
    BY ONLY <2>1, <1>3, <1>4 DEF Least, more, extra
  <2>2. CASE g.c = 2
    BY ONLY <2>2, <1>3, <1>4 DEF Least, more, extra
  <2> QED BY <1>2, <2>1, <2>2
<1>6. first \in {0, 1}
  BY ONLY <1>4 DEF first
<1> HIDE DEF more, extra, first
<1>7. PICK a, b : a = kept - 8 * g.c * f.fine /\ b = f.fine + more
  OBVIOUS
<1>8. a \in Nat /\ b \in 0..8 /\ excess - extra \in Nat
  <2>1. CASE g.c = 1
    BY ONLY <2>1, <1>3, <1>4, <1>5, <1>7
  <2>2. CASE g.c = 2
    BY ONLY <2>2, <1>3, <1>4, <1>5, <1>7
  <2> QED BY <1>2, <2>1, <2>2
<1>9. /\ [s.bits EXCEPT ![i] = a] \in Amounts
      /\ \A j \in 0..NB - 1 : j # i => [s.bits EXCEPT ![i] = a][j] = s.bits[j]
  BY ONLY <1>2, <1>8, i \in 0..NB - 1 DEF Amounts
<1>10. /\ [s.fine EXCEPT ![i] = b] \in [0..NB - 1 -> 0..8]
       /\ [s.priority EXCEPT ![i] = first] \in [0..NB - 1 -> {0, 1}]
  BY ONLY <1>2, <1>6, <1>8, i \in 0..NB - 1
<1> QED BY ONLY <1>1, <1>7, <1>8, <1>9, <1>10 DEF SplitStates

\* What a band that is not coded spends.
LEMMA Unspent ==
  ASSUME NEW g, IsGeometry(g), NEW i \in 0..NB - 1, NEW s \in SplitStates, s.bits[i] \in {0, 8 * g.c}
  PROVE  /\ UncodedBand(g, s, i) \in SplitStates
         /\ \A j \in 0..NB - 1 : UncodedBand(g, s, i).bits[j] \in {0, s.bits[j]}
<1> DEFINE fine == (s.bits[i] \div g.c) \div 8
           u1 == [s EXCEPT !.fine[i] = fine]
           u2 == [u1 EXCEPT !.bits[i] = 0]
           u3 == [u2 EXCEPT !.priority[i] = IF fine < 1 THEN 1 ELSE 0]
<1>1. fine \in {0, 1}
  BY GeometryFacts
<1> HIDE DEF fine
<1>2. UncodedBand(g, s, i) = [s EXCEPT !.fine[i] = fine, !.bits[i] = 0, !.priority[i] = IF fine < 1 THEN 1 ELSE 0]
  BY ONLY Zenon DEF UncodedBand, fine
<1>3. UncodedBand(g, s, i) = u3
  BY ONLY <1>2, Zenon DEF u1, u2, u3
<1>4. u1 \in SplitStates /\ u1.bits = s.bits
  <2>1. s.fine \in [0..NB - 1 -> 0..8]
    BY ONLY s \in SplitStates DEF SplitStates
  <2>2. PICK h : h = [s.fine EXCEPT ![i] = fine]
    OBVIOUS
  <2>3. h \in [0..NB - 1 -> 0..8]
    BY ONLY <1>1, <2>1, <2>2, i \in 0..NB - 1
  <2>4. u1 = [s EXCEPT !.fine = h]
    BY ONLY <2>2, Zenon DEF u1
  <2> QED BY ONLY <2>3, <2>4, s \in SplitStates DEF SplitStates
<1> HIDE DEF u1
<1>5. u2 \in SplitStates /\ \A j \in 0..NB - 1 : u2.bits[j] \in {0, s.bits[j]}
  BY ONLY <1>4, s \in SplitStates, i \in 0..NB - 1 DEF SplitStates, Amounts
<1> HIDE DEF u2
<1>6. u3 \in SplitStates /\ u3.bits = u2.bits
  BY ONLY <1>5, i \in 0..NB - 1 DEF SplitStates
<1> HIDE DEF u3
<1> QED BY ONLY <1>3, <1>5, <1>6

\* What is reserved for skipping and for stereo is within the bits.
LEMMA ReservesFit ==
  ASSUME NEW g, IsGeometry(g), NEW bits \in Int
  PROVE  LET r == Reserves(g, bits)
         IN  /\ r.skip \in Nat /\ r.intensity \in Nat /\ r.dual \in Nat
             /\ r.total - r.skip - r.intensity - r.dual \in Nat
             /\ r.intensity > 0 => r.intensity = Log2Frac[g.end - g.start + 1]
<1> DEFINE total == Most(bits, 0)
           skip == IF total >= 8 THEN 8 ELSE 0
           wanted == IF g.c = 2 THEN Log2Frac[g.end - g.start + 1] ELSE 0
           fits == wanted <= total - skip
           intensity == IF fits THEN wanted ELSE 0
           dual == IF g.c = 2 /\ fits /\ total - skip - intensity >= 8 THEN 8 ELSE 0
<1>1. Reserves(g, bits) = [total |-> total, skip |-> skip, intensity |-> intensity, dual |-> dual]
  BY ONLY Zenon DEF Reserves, total, skip, wanted, fits, intensity, dual
<1>2. total \in Nat
  BY DEF Most
<1>3. wanted \in Nat /\ (wanted > 0 => wanted = Log2Frac[g.end - g.start + 1])
  <2>1. g.end - g.start + 1 \in 1..24
    <3>1. g.start \in Nat /\ g.end \in 1..NB /\ g.start < g.end /\ NB \in 1..23
      BY GeometryFacts, Table
    <3> QED BY ONLY <3>1
  <2>2. Log2Frac[g.end - g.start + 1] \in Nat
    BY ONLY <2>1, TableLogs
  <2> QED BY ONLY <2>2 DEF wanted
<1> HIDE DEF total, wanted
<1>4. /\ skip \in Nat /\ intensity \in Nat /\ dual \in Nat /\ total - skip - intensity - dual \in Nat
      /\ intensity > 0 => intensity = Log2Frac[g.end - g.start + 1]
  BY ONLY <1>2, <1>3 DEF skip, fits, intensity, dual
<1> HIDE DEF skip, fits, intensity, dual
<1> QED BY <1>1, <1>4

\* What the rows of the table give a band are numbers, the lower row within
\* the total.
LEMMA RowsAre ==
  ASSUME NEW g, IsGeometry(g), NEW offsets \in Amounts, NEW trim \in Int, NEW total \in Nat
  PROVE  LET row == RowSearch(g, offsets, trim, total)
             bits1 == LowerRow(g, offsets, trim, row)
         IN  /\ bits1 \in Amounts /\ UpperRow(g, offsets, trim, row, bits1) \in Amounts
             /\ Settle(g, bits1).sum <= total
<1>1. PICK row : row = RowSearch(g, offsets, trim, total)
  OBVIOUS
<1>2. PICK bits1 : bits1 = LowerRow(g, offsets, trim, row)
  OBVIOUS
<1>3. row \in Nat \ {0} /\ (row > 1 => Settle(g, RowWant(g, offsets, trim, row - 1)).sum <= total)
  BY <1>1, RowsFit
<1>4. row \in Nat /\ row - 1 \in Nat
  BY <1>3
<1>5. \A i \in 0..NB - 1 : /\ RowBits(g, row, i, trim) \in Nat /\ RowBits(g, row - 1, i, trim) \in Nat
                           /\ offsets[i] \in Nat /\ RowBits(g, 0, i, trim) = 0
  <2> TAKE i \in 0..NB - 1
  <2>1. offsets[i] \in Nat
    BY DEF Amounts
  <2> QED BY ONLY <2>1, <1>4, IsGeometry(g), i \in 0..NB - 1, trim \in Int, BandFacts
<1>6. bits1 \in Amounts
  <2>1. \A i \in 0..NB - 1 : RowBits(g, row - 1, i, trim) + (IF row > 1 THEN offsets[i] ELSE 0) \in Nat
    BY ONLY <1>5
  <2> QED BY ONLY <1>2, <2>1 DEF LowerRow, Amounts
<1>7. UpperRow(g, offsets, trim, row, bits1) \in Amounts
  <2>1. \A i \in 0..NB - 1 : Most(0, RowBits(g, row, i, trim) + offsets[i] - bits1[i]) \in Nat
    <3> TAKE i \in 0..NB - 1
    <3>1. bits1[i] \in Nat
      BY ONLY <1>6, i \in 0..NB - 1 DEF Amounts
    <3>2. RowBits(g, row, i, trim) \in Nat /\ offsets[i] \in Nat
      BY <1>5
    <3>3. PICK b, o, c : b = RowBits(g, row, i, trim) /\ o = offsets[i] /\ c = bits1[i]
      OBVIOUS
    <3> QED BY ONLY <3>1, <3>2, <3>3 DEF Most
  <2> QED BY ONLY <2>1 DEF UpperRow, Amounts
<1>8. Settle(g, bits1).sum <= total
  <2>1. CASE row > 1
    <3>1. \A i \in 0..NB - 1 : RowBits(g, row - 1, i, trim) + (IF row > 1 THEN offsets[i] ELSE 0)
                               = RowBits(g, row - 1, i, trim) + offsets[i]
      BY <2>1
    <3>2. bits1 = RowWant(g, offsets, trim, row - 1)
      BY ONLY <1>2, <3>1, Zenon DEF LowerRow, RowWant
    <3> QED BY <2>1, <1>3, <3>2
  <2>2. CASE row = 1
    <3>1. \A i \in 0..NB - 1 : RowBits(g, row - 1, i, trim) + (IF row > 1 THEN offsets[i] ELSE 0) = 0
      BY <2>2, <1>5
    <3>2. \A i \in 0..NB - 1 : bits1[i] = 0
      BY ONLY <1>2, <3>1 DEF LowerRow
    <3>3. Settle(g, bits1).sum = 0
      BY ONLY <1>6, <3>2, IsGeometry(g), Settles
    <3> QED BY ONLY <3>3, total \in Nat
  <2> QED BY <1>3, <2>1, <2>2
<1> QED BY ONLY <1>1, <1>2, <1>6, <1>7, <1>8

\* Where skipping stops is no band below the frame's first.
LEMMA SkipStarts ==
  ASSUME NEW g, IsGeometry(g), NEW offsets
  PROVE  SkipStart(g, offsets) \in Int /\ SkipStart(g, offsets) >= g.start
<1> DEFINE boosted == {i \in g.start..g.end - 1 : offsets[i] > 0}
<1>1. boosted \subseteq g.start..g.end - 1
  OBVIOUS
<1>2. SkipStart(g, offsets) = IF boosted = {} THEN g.start
                              ELSE CHOOSE i \in boosted : \A j \in boosted : j <= i
  BY ONLY Zenon DEF SkipStart, boosted
<1> HIDE DEF boosted
<1>3. g.start \in Nat /\ g.end \in Int /\ NB \in Nat /\ boosted \in SUBSET (0..NB)
  <2>1. g.start \in Nat /\ g.end \in 1..NB /\ NB \in 1..23
    BY GeometryFacts, Table
  <2> QED BY ONLY <1>1, <2>1
<1>4. CASE boosted = {}
  BY <1>2, <1>3, <1>4
<1>5. CASE boosted # {}
  <2>1. \E i \in boosted : \A j \in boosted : j <= i
    BY ONLY <1>3, <1>5, Highest
  <2>2. SkipStart(g, offsets) \in boosted
    BY ONLY <1>2, <1>5, <2>1, Zenon
  <2>3. SkipStart(g, offsets) \in g.start..g.end - 1
    BY ONLY <1>1, <2>2
  <2> QED BY ONLY <1>3, <2>3
<1> QED BY <1>4, <1>5

\* What is left is shared, and what bands not coded hold is spent.
LEMMA ShareOuts ==
  ASSUME NEW g, IsGeometry(g), NEW R, NEW st \in SkipStates(g, R), WithinTotal(g, st), NEW stereo
  PROVE  /\ ShareOut(g, st, stereo) \in SplitStates
         /\ \A j \in st.coded..g.end - 1 : ShareOut(g, st, stereo).bits[j] \in {0, 8 * g.c}
<1>1. PICK coded, left, spread, seq :
        /\ coded = st.coded /\ left = st.total - st.sum /\ spread = SpreadLeft(g, st.bits, left, coded)
        /\ seq = Upto(g.start, coded)
  OBVIOUS
<1>2. st.bits \in Amounts /\ left \in Nat /\ coded \in g.start + 1..g.end
  BY <1>1, SkipFields DEF WithinTotal
<1>3. /\ g.start \in Nat /\ g.end \in 1..NB /\ NB \in 1..23 /\ coded \in Int /\ g.start <= coded
      /\ \A j \in coded..g.end - 1 : j \in coded..NB - 1
      /\ \A j \in g.start..coded - 1 : j \in 0..NB - 1
      /\ \A j \in coded..NB - 1 : j \in 0..NB - 1
  <2>1. g.start \in Nat /\ g.end \in 1..NB /\ NB \in 1..23
    BY GeometryFacts, Table
  <2> QED BY ONLY <1>2, <2>1
<1>4. spread \in Amounts /\ \A j \in coded..NB - 1 : spread[j] = st.bits[j]
  BY ONLY <1>1, <1>2, IsGeometry(g), SpreadsWithin
<1> DEFINE base == [bits |-> spread, fine |-> Zero, priority |-> Zero, balance |-> 0]
           X == {s \in SplitStates : \A j \in coded..NB - 1 : s.bits[j] = spread[j]}
<1>5. base \in X
  BY ONLY <1>4 DEF SplitStates, Zero
<1>6. Len(seq) \in Nat /\ \A k \in 1..Len(seq) : seq[k] \in g.start..coded - 1
  <2>1. g.start \in Int
    BY ONLY <1>3
  <2>2. Len(seq) = coded - g.start /\ \A k \in 1..coded - g.start : seq[k] \in g.start..coded - 1
    BY ONLY <1>1, <1>3, <2>1, UptoIs
  <2>3. coded - g.start \in Nat
    BY ONLY <1>3
  <2> QED BY ONLY <2>2, <2>3
<1>7. ASSUME NEW s \in X, NEW k \in 1..Len(seq) PROVE SplitBand(g, s, seq[k], stereo) \in X
  <2>1. PICK i : i = seq[k]
    OBVIOUS
  <2>2. i \in g.start..coded - 1 /\ i \in 0..NB - 1 /\ \A j \in coded..NB - 1 : j # i
    <3>1. i \in g.start..coded - 1
      BY <1>6, <2>1
    <3> QED BY ONLY <1>3, <3>1
  <2>3. /\ SplitBand(g, s, i, stereo) \in SplitStates
        /\ \A j \in 0..NB - 1 : j # i => SplitBand(g, s, i, stereo).bits[j] = s.bits[j]
    <3>1. s \in SplitStates
      OBVIOUS
    <3> HIDE DEF X
    <3> QED BY ONLY <3>1, <2>2, IsGeometry(g), Splits
  <2>4. \A j \in coded..NB - 1 : SplitBand(g, s, i, stereo).bits[j] = spread[j]
    BY <2>2, <2>3, <1>3
  <2> QED BY <2>1, <2>3, <2>4
<1>8. SplitEnd(g, stereo, base, seq) \in X
  <2> HIDE DEF X, base
  <2> QED BY ONLY <1>5, <1>6, <1>7, SplitLoop
<1>9. ShareOut(g, st, stereo) = SplitEnd(g, stereo, base, seq)
  <2>1. ShareOut(g, st, stereo)
          = SplitEnd(g, stereo, [bits |-> SpreadLeft(g, st.bits, st.total - st.sum, st.coded),
                                 fine |-> Zero, priority |-> Zero, balance |-> 0],
                     Upto(g.start, st.coded))
    BY ONLY Zenon DEF ShareOut, SplitEnd, ForEach
  <2> QED BY ONLY <1>1, <2>1, Zenon DEF base
<1> HIDE DEF base
<1>10. \A j \in coded..g.end - 1 : st.bits[j] \in {0, 8 * g.c}
  BY <1>1 DEF WithinTotal
<1>11. /\ ShareOut(g, st, stereo) \in SplitStates
       /\ \A j \in coded..NB - 1 : ShareOut(g, st, stereo).bits[j] = spread[j]
  BY <1>8, <1>9
<1> QED BY ONLY <1>1, <1>3, <1>4, <1>10, <1>11

\* What bands that are not coded hold is spent on fine bits.
LEMMA RestSpent ==
  ASSUME NEW g, IsGeometry(g), NEW R, NEW st \in SkipStates(g, R), NEW s0 \in SplitStates,
         \A j \in st.coded..g.end - 1 : s0.bits[j] \in {0, 8 * g.c}
  PROVE  SpendRest(g, st, s0) \in SplitStates
<1>1. PICK coded, seq : coded = st.coded /\ seq = Upto(coded, g.end)
  OBVIOUS
<1>2. /\ g.end \in Int /\ coded \in Int /\ coded <= g.end /\ g.c \in {1, 2}
      /\ \A j \in coded..g.end - 1 : j \in 0..NB - 1
  <2>1. g.start \in Nat /\ g.end \in 1..NB /\ NB \in 1..23 /\ g.c \in {1, 2}
    BY GeometryFacts, Table
  <2>2. coded \in g.start + 1..g.end
    BY <1>1, SkipFields
  <2> QED BY ONLY <2>1, <2>2
<1>3. Len(seq) \in Nat /\ \A k \in 1..Len(seq) : seq[k] \in coded..g.end - 1
  <2>1. Len(seq) = g.end - coded /\ \A k \in 1..g.end - coded : seq[k] \in coded..g.end - 1
    BY ONLY <1>1, <1>2, UptoIs
  <2>2. g.end - coded \in Nat
    BY ONLY <1>2
  <2> QED BY ONLY <2>1, <2>2
<1> DEFINE X == {s \in SplitStates : \A j \in coded..g.end - 1 : s.bits[j] \in {0, 8 * g.c}}
<1>4. s0 \in X
  BY <1>1
<1>5. ASSUME NEW s \in X, NEW k \in 1..Len(seq) PROVE UncodedBand(g, s, seq[k]) \in X
  <2>1. PICK i : i = seq[k]
    OBVIOUS
  <2>2. i \in coded..g.end - 1 /\ i \in 0..NB - 1
    BY <1>2, <1>3, <2>1
  <2>3. s \in SplitStates /\ \A j \in coded..g.end - 1 : s.bits[j] \in {0, 8 * g.c}
    OBVIOUS
  <2>4. /\ UncodedBand(g, s, i) \in SplitStates
        /\ \A j \in 0..NB - 1 : UncodedBand(g, s, i).bits[j] \in {0, s.bits[j]}
    BY ONLY <2>2, <2>3, IsGeometry(g), Unspent
  <2>5. \A j \in coded..g.end - 1 : UncodedBand(g, s, i).bits[j] \in {0, 8 * g.c}
    <3> TAKE j \in coded..g.end - 1
    <3>1. UncodedBand(g, s, i).bits[j] \in {0, s.bits[j]} /\ s.bits[j] \in {0, 8 * g.c}
      BY ONLY <1>2, <2>3, <2>4, j \in coded..g.end - 1
    <3> QED BY ONLY <3>1
  <2> QED BY <2>1, <2>4, <2>5
<1>6. UncodedEnd(g, s0, seq) \in X
  <2> HIDE DEF X
  <2> QED BY ONLY <1>3, <1>4, <1>5, UncodedLoop
<1>7. SpendRest(g, st, s0) = UncodedEnd(g, s0, seq)
  <2>1. SpendRest(g, st, s0) = UncodedEnd(g, s0, Upto(st.coded, g.end))
    BY ONLY Zenon DEF SpendRest, UncodedEnd, ForEach
  <2> QED BY ONLY <1>1, <2>1
<1> QED BY <1>6, <1>7

\* What is made of the bits: the coder goes on, and every band has fine bits
\* that have a price.
LEMMA Allocates ==
  ASSUME NEW g, IsGeometry(g), NEW offsets \in Amounts, NEW trim \in Int, NEW intensity \in Int,
         NEW dual, NEW bits \in Int, NEW w \in BOOLEAN, NEW Y, Readable(Y), NEW S,
         NEW rc \in Coders(w, Y, S)
  PROVE  LET a == ComputeAllocation(g, offsets, trim, intensity, dual, bits, rc)
         IN  a.rc \in Coders(w, Y, S) /\ a.fine \in [0..NB - 1 -> 0..8] /\ a.pulses \in Amounts
<1> DEFINE rsv == Reserves(g, bits)
           total == rsv.total - rsv.skip - rsv.intensity - rsv.dual
           row == RowSearch(g, offsets, trim, total)
           bits1 == LowerRow(g, offsets, trim, row)
           settled == Interpolate(g, bits1, UpperRow(g, offsets, trim, row, bits1), total)
           first == [rc |-> rc, bits |-> settled.bits, sum |-> settled.sum,
                     total |-> total, coded |-> g.end, rsv |-> rsv.intensity,
                     skipRsv |-> rsv.skip, stop |-> FALSE]
           skipped == SkipBands(g, first, SkipStart(g, offsets))
           stereo == CodeStereo(g, skipped, intensity, dual, rsv.dual)
           all == SpendRest(g, stereo.st, ShareOut(g, stereo.st, stereo))
<1>1. ComputeAllocation(g, offsets, trim, intensity, dual, bits, rc)
        = [rc |-> stereo.st.rc, pulses |-> all.bits, fine |-> all.fine, priority |-> all.priority,
           balance |-> all.balance, coded |-> stereo.st.coded,
           intensity |-> stereo.intensity, dual |-> stereo.dual, total |-> rsv.total]
  BY ONLY ZenonT(60) DEF ComputeAllocation, rsv, total, row, bits1, settled, first, skipped, stereo, all
<1>2. /\ rsv.skip \in Nat /\ rsv.intensity \in Nat /\ rsv.dual \in Nat /\ total \in Nat
      /\ rsv.intensity > 0 => rsv.intensity = Log2Frac[g.end - g.start + 1]
  BY ONLY ReservesFit, IsGeometry(g), bits \in Int
<1> HIDE DEF rsv, total
<1>3. /\ bits1 \in Amounts /\ UpperRow(g, offsets, trim, row, bits1) \in Amounts
      /\ Settle(g, bits1).sum <= total
  BY ONLY <1>2, IsGeometry(g), offsets \in Amounts, trim \in Int, RowsAre
<1> HIDE DEF row, bits1
<1>4. settled.sum \in Nat /\ settled.sum <= total /\ settled.bits \in Amounts
  BY ONLY <1>2, <1>3, IsGeometry(g), WayFits
<1> HIDE DEF settled
<1>5. first \in SkipStates(g, Coders(w, Y, S)) /\ WithinTotal(g, first)
  <2>1. g.end \in g.start + 1..g.end /\ g.end - 1 < g.end /\ g.end \in Int
    BY GeometryFacts, Table
  <2>2. first \in SkipStates(g, Coders(w, Y, S))
    BY ONLY <1>2, <1>4, <2>1, rc \in Coders(w, Y, S) DEF SkipStates
  <2>3. WithinTotal(g, first)
    BY ONLY <1>2, <1>4, <2>1 DEF WithinTotal
  <2> QED BY ONLY <2>2, <2>3
<1> HIDE DEF first
<1>6. skipped \in SkipStates(g, Coders(w, Y, S)) /\ WithinTotal(g, skipped)
  <2>1. SkipStart(g, offsets) \in Int /\ SkipStart(g, offsets) >= g.start
    BY SkipStarts
  <2> QED BY ONLY <2>1, <1>5, IsGeometry(g), w \in BOOLEAN, Readable(Y), SkipEnds
<1> HIDE DEF skipped
<1>7. stereo.st \in SkipStates(g, Coders(w, Y, S)) /\ WithinTotal(g, stereo.st)
  BY ONLY <1>2, <1>6, IsGeometry(g), w \in BOOLEAN, Readable(Y), intensity \in Int, StereoKeeps
<1> HIDE DEF stereo
<1>8. all \in SplitStates
  <2>1. /\ ShareOut(g, stereo.st, stereo) \in SplitStates
        /\ \A j \in stereo.st.coded..g.end - 1 : ShareOut(g, stereo.st, stereo).bits[j] \in {0, 8 * g.c}
    BY ONLY <1>7, IsGeometry(g), ShareOuts
  <2> QED BY ONLY <1>7, <2>1, IsGeometry(g), RestSpent
<1> HIDE DEF all
<1>9. /\ stereo.st.rc \in Coders(w, Y, S) /\ all.fine \in [0..NB - 1 -> 0..8]
      /\ all.bits \in Amounts
  BY ONLY <1>7, <1>8 DEF SkipStates, SplitStates
<1> QED BY ONLY <1>1, <1>9

-----------------------------------------------------------------------------
(* Coarse energy.                                                           *)

\* Energies of every band and channel.
AllEnergies == [0..1 -> [0..NB - 1 -> Int]]

\* A coarse step is coded, whichever code has room for it.
LEMMA StepCoded ==
  ASSUME NEW w \in BOOLEAN, NEW Y, Readable(Y), NEW S, NEW rc \in Coders(w, Y, S),
         NEW qi \in Int, NEW budget \in Int, NEW i \in Int, NEW intra \in BOOLEAN
  PROVE  CodeStep(rc, qi, budget, i, intra).rc \in Coders(w, Y, S)
         /\ CodeStep(rc, qi, budget, i, intra).value \in Int
<1> DEFINE end == CodeStep(rc, qi, budget, i, intra)
           Good(s) == s.rc \in Coders(w, Y, S) /\ s.value \in Int
<1>1. Tell(rc) \in Int
  BY ONLY rc \in Coders(w, Y, S), CoderIs
<1>2. CASE Tell(rc) + 15 <= budget
  <2>0. ~(Tell(rc) + 15 > budget) /\ ~(Tell(rc) + 2 > budget)
    BY ONLY <1>1, <1>2, budget \in Int
  <2>1. end = Code(rc, "laplace", <<i, intra>>, qi)
    BY ONLY <1>2, <2>0, ZenonT(60) DEF CodeStep
  <2>2. Codable("laplace", <<i, intra>>)
    BY DEF Codable
  <2> QED BY ONLY <2>1, <2>2, w \in BOOLEAN, Readable(Y), rc \in Coders(w, Y, S), qi \in Int, CodeKeeps
<1>3. CASE ~(Tell(rc) + 15 <= budget) /\ Tell(rc) + 2 <= budget
  <2>1. Tell(rc) + 15 > budget /\ ~(Tell(rc) + 2 > budget)
    BY ONLY <1>1, <1>3, budget \in Int
  <2>2. PICK v : v = IF Within(qi, -1, 1) < 0 THEN 1 ELSE 2 * Within(qi, -1, 1)
    OBVIOUS
  <2>3. v \in Int
    BY ONLY <2>2, qi \in Int DEF Within, Most, Least
  <2>4. PICK s : s = Code(rc, "icdf", 2, v)
    OBVIOUS
  <2>5. end = [rc |-> s.rc, value |-> IF s.value = 1 THEN -1 ELSE s.value \div 2]
    <3>1. end = LET q == Within(qi, -1, 1)
                    Small(d) == [rc |-> d.rc, value |-> IF d.value = 1 THEN -1 ELSE d.value \div 2]
                IN  Small(Code(rc, "icdf", 2, IF q < 0 THEN 1 ELSE 2 * q))
      BY ONLY <1>3, <2>1, ZenonT(60) DEF CodeStep
    <3> QED BY ONLY <2>2, <2>4, <3>1, Zenon
  <2>6. Codable("icdf", 2)
    BY DEF Codable
  <2>7. s.rc \in Coders(w, Y, S) /\ s.value \in Int
    BY ONLY <2>3, <2>4, <2>6, w \in BOOLEAN, Readable(Y), rc \in Coders(w, Y, S), CodeKeeps
  <2> QED BY ONLY <2>5, <2>7
<1>4. CASE ~(Tell(rc) + 15 <= budget) /\ ~(Tell(rc) + 2 <= budget) /\ Tell(rc) < budget
  <2>1. Tell(rc) + 2 > budget
    BY ONLY <1>1, <1>4, budget \in Int
  <2>2. PICK s : s = Flag(rc, 1, qi < 0)
    OBVIOUS
  <2>3. end = [rc |-> s.rc, value |-> IF s.value THEN -1 ELSE 0]
    <3>1. end = LET Down(d) == [rc |-> d.rc, value |-> IF d.value THEN -1 ELSE 0]
                IN  Down(Flag(rc, 1, qi < 0))
      BY ONLY <1>4, <2>1, ZenonT(60) DEF CodeStep
    <3> QED BY ONLY <2>2, <3>1, Zenon
  <2>4. s.rc \in Coders(w, Y, S)
    BY ONLY <2>2, 1 \in Int, w \in BOOLEAN, Readable(Y), rc \in Coders(w, Y, S), FlagKeeps
  <2> QED BY ONLY <2>3, <2>4
<1>5. CASE ~(Tell(rc) + 15 <= budget) /\ ~(Tell(rc) + 2 <= budget) /\ ~(Tell(rc) < budget)
  <2>1. end = [rc |-> rc, value |-> -1]
    BY ONLY <1>5, ZenonT(60) DEF CodeStep
  <2> QED BY ONLY <2>1, rc \in Coders(w, Y, S)
<1> QED BY ONLY <1>2, <1>3, <1>4, <1>5

\* What is predicted of a band, and what leaks into the next one, are
\* numbers.
LEMMA Predictions ==
  ASSUME NEW old \in Int, NEW q \in Int, NEW prev \in Int, NEW intra
  PROVE  /\ Predicted(old, intra) \in Int /\ Leak(prev, q, intra) \in Int /\ q * Unit \in Int
         /\ Predicted(old, intra) + prev + q * Unit \in Int
<1>1. Pred \in Nat /\ Unit \in Nat /\ Beta \in Nat /\ BetaIntra \in Nat
  BY WholeNumbers
<1>2. Floor9(old) \in Int
  BY <1>1 DEF Floor9, Most
<1>3. Pred * Floor9(old) \in Int /\ q * Unit \in Int
  BY <1>1, <1>2, Times
<1>4. Predicted(old, intra) \in Int
  BY <1>3 DEF Predicted
<1>5. Leak(prev, q, intra) \in Int
  <2>1. PICK b : b = IF intra THEN BetaIntra ELSE Beta
    OBVIOUS
  <2>2. b \in Int
    BY <1>1, <2>1
  <2>3. b * q * Unit \in Int
    BY ONLY <2>2, <1>1, q \in Int, Times
  <2>4. Leak(prev, q, intra) = prev + q * Unit - (b * q * Unit) \div 16
    BY ONLY <2>1, Zenon DEF Leak
  <2> QED BY ONLY <2>3, <2>4, <1>3, prev \in Int
<1> QED BY ONLY <1>3, <1>4, <1>5, prev \in Int

\* Energies with that of one band set.
LEMMA EnergySets ==
  ASSUME NEW e \in AllEnergies, NEW c \in 0..1, NEW i \in 0..NB - 1, NEW v \in Int
  PROVE  [e EXCEPT ![c][i] = v] \in AllEnergies /\ e[c][i] \in Int
BY DEF AllEnergies

\* A record with the energies and what leaks into the next band.
LEMMA StepsOn ==
  ASSUME NEW st, NEW R, NEW at, at[1] \in 0..NB - 1, at[2] \in 0..1,
         NEW rc \in R, NEW q \in Int, NEW intra,
         st.old \in AllEnergies, st.prev \in [0..1 -> Int]
  PROVE  /\ st \in [rc : R, old : AllEnergies, prev : [0..1 -> Int]] =>
              Stepped(st, at, rc, q, intra) \in [rc : R, old : AllEnergies, prev : [0..1 -> Int]]
         /\ st \in [rc : R, bad : Int, error : AllEnergies, old : AllEnergies, prev : [0..1 -> Int]] =>
              /\ Stepped(st, at, rc, q, intra)
                   \in [rc : R, bad : Int, error : AllEnergies, old : AllEnergies, prev : [0..1 -> Int]]
<1>1. PICK i, c : i = at[1] /\ c = at[2]
  OBVIOUS
<1>2. i \in 0..NB - 1 /\ c \in 0..1 /\ st.old[c][i] \in Int /\ st.prev[c] \in Int
  BY <1>1 DEF AllEnergies
<1>3. PICK o, p : /\ o = Predicted(st.old[c][i], intra) + st.prev[c] + q * Unit
                  /\ p = Leak(st.prev[c], q, intra)
  OBVIOUS
<1>4. o \in Int /\ p \in Int
  BY ONLY <1>2, <1>3, q \in Int, Predictions
<1>5. PICK old, prev : old = [st.old EXCEPT ![c][i] = o] /\ prev = [st.prev EXCEPT ![c] = p]
  OBVIOUS
<1>6. old \in AllEnergies /\ prev \in [0..1 -> Int]
  <2>1. old \in AllEnergies
    BY ONLY <1>2, <1>4, <1>5, st.old \in AllEnergies, EnergySets
  <2> QED BY ONLY <2>1, <1>2, <1>4, <1>5, st.prev \in [0..1 -> Int]
<1>8. ASSUME st \in [rc : R, old : AllEnergies, prev : [0..1 -> Int]]
      PROVE  Stepped(st, at, rc, q, intra) \in [rc : R, old : AllEnergies, prev : [0..1 -> Int]]
  <2>1. Stepped(st, at, rc, q, intra) = [st EXCEPT !.rc = rc, !.old = old, !.prev = prev]
    BY ONLY <1>1, <1>3, <1>5, <1>8 DEF Stepped
  <2> QED BY ONLY <1>6, <1>8, <2>1, rc \in R
<1>9. ASSUME st \in [rc : R, bad : Int, error : AllEnergies, old : AllEnergies, prev : [0..1 -> Int]]
      PROVE  Stepped(st, at, rc, q, intra)
               \in [rc : R, bad : Int, error : AllEnergies, old : AllEnergies, prev : [0..1 -> Int]]
  <2>1. Stepped(st, at, rc, q, intra) = [st EXCEPT !.rc = rc, !.old = old, !.prev = prev]
    BY ONLY <1>1, <1>3, <1>5, <1>9 DEF Stepped
  <2> QED BY ONLY <1>6, <1>9, <2>1, rc \in R
<1> QED BY <1>8, <1>9

CoarseStates(R) ==
  [rc : R, bad : Int, error : AllEnergies, old : AllEnergies, prev : [0..1 -> Int]]

\* What is wanted of a band, held back.
LEMMA Limits ==
  ASSUME NEW qi \in Int, NEW g, IsGeometry(g), NEW i \in Int, NEW left \in Int
  PROVE  LimitStep(qi, g, i, left) \in Int
BY DEF LimitStep, Least, Most

LEMMA Decays ==
  ASSUME NEW old \in Int, NEW bytes \in Int, NEW g, IsGeometry(g)
  PROVE  DecayBound(old, bytes, g) \in Int
<1>1. Unit \in Nat
  BY WholeNumbers
<1>2. bytes * Unit \in Int /\ 16 * Unit \in Int /\ -28 * Unit \in Int
  BY <1>1, Times
<1> QED BY <1>2 DEF DecayBound, Least, Most

\* One band of a channel leaves numbers to the next.
LEMMA CoarseKeeps ==
  ASSUME NEW g, IsGeometry(g), NEW want \in AllEnergies, NEW budget \in Int, NEW intra \in BOOLEAN,
         NEW bytes \in Int, NEW Y, Readable(Y), NEW S, NEW st \in CoarseStates(Coders(TRUE, Y, S)),
         NEW at, at[1] \in 0..NB - 1, at[2] \in 0..1
  PROVE  CoarseStep(g, want, budget, intra, bytes, st, at) \in CoarseStates(Coders(TRUE, Y, S))
<1> DEFINE x == want[at[2]][at[1]]
           old == st.old[at[2]][at[1]]
           f == x - Predicted(old, intra) - st.prev[at[2]]
           bound == DecayBound(old, bytes, g)
           q0 == (f + Unit \div 2) \div Unit
           q1 == IF q0 < 0 /\ x < bound THEN Least(0, q0 + (bound - x) \div Unit) ELSE q0
           left == budget - Tell(st.rc) - 3 * g.c * (g.end - at[1])
           s == CodeStep(st.rc, LimitStep(q1, g, at[1], left), budget, at[1], intra)
           stepped == Stepped(st, at, s.rc, s.value, intra)
           next == [stepped EXCEPT !.bad = @ + Size(q0 - s.value), !.error[at[2]][at[1]] = f - s.value * Unit]
<1>1. CoarseStep(g, want, budget, intra, bytes, st, at) = next
  BY ONLY ZenonT(60) DEF CoarseStep, x, old, f, bound, q0, q1, left, s, stepped, next
<1>2. /\ st.rc \in Coders(TRUE, Y, S) /\ st.bad \in Int /\ st.error \in AllEnergies
      /\ st.old \in AllEnergies /\ st.prev \in [0..1 -> Int]
  BY ONLY st \in CoarseStates(Coders(TRUE, Y, S)) DEF CoarseStates
<1>3. x \in Int /\ old \in Int /\ st.prev[at[2]] \in Int
  BY ONLY <1>2, want \in AllEnergies, at[1] \in 0..NB - 1, at[2] \in 0..1 DEF AllEnergies
<1> HIDE DEF x, old
<1>4. Unit \in Nat \ {0}
  BY WholeNumbers
<1>5. f \in Int
  <2>1. Predicted(old, intra) \in Int
    BY ONLY <1>3, 0 \in Int, Predictions
  <2> QED BY ONLY <1>3, <2>1
<1> HIDE DEF f
<1>6. bound \in Int
  BY ONLY <1>3, bytes \in Int, IsGeometry(g), Decays
<1> HIDE DEF bound
<1>7. q0 \in Int
  BY ONLY <1>4, <1>5
<1> HIDE DEF q0
<1>8. q1 \in Int
  BY ONLY <1>3, <1>4, <1>6, <1>7 DEF Least
<1> HIDE DEF q1
<1>9. left \in Int /\ at[1] \in Int
  <2>1. g.c \in Int /\ g.end \in Int /\ at[1] \in Int
    BY GeometryFacts
  <2>2. Tell(st.rc) \in Int
    BY ONLY <1>2, CoderIs
  <2>3. 3 * g.c * (g.end - at[1]) \in Int
    BY ONLY <2>1, Times
  <2> QED BY ONLY <2>1, <2>2, <2>3, budget \in Int
<1> HIDE DEF left
<1>10. LimitStep(q1, g, at[1], left) \in Int
  BY ONLY <1>8, <1>9, IsGeometry(g), Limits
<1>11. s.rc \in Coders(TRUE, Y, S) /\ s.value \in Int
  BY ONLY <1>2, <1>9, <1>10, budget \in Int, intra \in BOOLEAN, TRUE \in BOOLEAN, Readable(Y), StepCoded
<1> HIDE DEF s
<1>12. stepped \in CoarseStates(Coders(TRUE, Y, S))
  BY ONLY <1>2, <1>11, st \in CoarseStates(Coders(TRUE, Y, S)), at[1] \in 0..NB - 1, at[2] \in 0..1, StepsOn
     DEF CoarseStates
<1> HIDE DEF stepped
<1>13. PICK bad, error : /\ bad = stepped.bad + Size(q0 - s.value)
                         /\ error = [stepped.error EXCEPT ![at[2]][at[1]] = f - s.value * Unit]
  OBVIOUS
<1>14. bad \in Int /\ error \in AllEnergies
  <2>1. stepped.bad \in Int /\ stepped.error \in AllEnergies
    BY ONLY <1>12 DEF CoarseStates
  <2>2. f - s.value * Unit \in Int
    BY ONLY <1>4, <1>5, <1>11, Times
  <2>3. bad \in Int
    BY ONLY <2>1, <1>7, <1>11, <1>13 DEF Size
  <2> QED BY ONLY <2>1, <2>2, <2>3, <1>13, at[1] \in 0..NB - 1, at[2] \in 0..1, EnergySets
<1>15. next = [stepped EXCEPT !.bad = bad, !.error = error]
  BY ONLY <1>12, <1>13 DEF next, CoarseStates
<1>16. next \in CoarseStates(Coders(TRUE, Y, S))
  BY ONLY <1>12, <1>14, <1>15 DEF CoarseStates
<1> QED BY ONLY <1>1, <1>16

\* Every band of each channel.
LEMMA BandsOfAre ==
  ASSUME NEW g, IsGeometry(g)
  PROVE  /\ Len(BandsOf(g)) \in Nat
         /\ \A k \in 1..Len(BandsOf(g)) :
              BandsOf(g)[k][1] \in 0..NB - 1 /\ BandsOf(g)[k][1] \in g.start..g.end - 1
              /\ BandsOf(g)[k][2] \in 0..1
<1>1. PICK seq : seq = BandsOf(g)
  OBVIOUS
<1>2. g.start \in Nat /\ g.end \in 1..NB /\ g.start < g.end /\ NB \in 1..23 /\ g.c \in {1, 2}
  BY GeometryFacts, Table
<1>3. PICK n : n = g.c * (g.end - g.start)
  OBVIOUS
<1>4. n \in Nat
  BY ONLY <1>2, <1>3
<1>5. seq = [k \in 1..n |-> <<g.start + (k - 1) \div g.c, (k - 1) % g.c>>]
  <2>1. seq = [k \in 1..g.c * (g.end - g.start) |-> <<g.start + (k - 1) \div g.c, (k - 1) % g.c>>]
    BY <1>1, Zenon DEF BandsOf
  <2> QED BY ONLY <1>3, <2>1
<1>6. Len(seq) = n
  BY ONLY <1>4, <1>5
<1>7. ASSUME NEW k \in 1..n
      PROVE  g.start + (k - 1) \div g.c \in g.start..g.end - 1 /\ (k - 1) % g.c \in 0..1
  <2>1. CASE g.c = 1
    BY ONLY <1>2, <1>3, <2>1, k \in 1..n
  <2>2. CASE g.c = 2
    BY ONLY <1>2, <1>3, <2>2, k \in 1..n
  <2> QED BY <1>2, <2>1, <2>2
<1>8. \A k \in 1..n : seq[k][1] \in g.start..g.end - 1 /\ seq[k][2] \in 0..1
  BY ONLY <1>5, <1>7
<1>9. \A i \in g.start..g.end - 1 : i \in 0..NB - 1
  BY FrameBands
<1> QED BY ONLY <1>1, <1>4, <1>6, <1>8, <1>9

\* A pass over all bands leaves energies and their errors.
LEMMA PassKeeps ==
  ASSUME NEW g, IsGeometry(g), NEW want \in AllEnergies, NEW old \in AllEnergies, NEW budget \in Int,
         NEW Y, Readable(Y), NEW S, NEW rc \in Coders(TRUE, Y, S), NEW intra \in BOOLEAN,
         NEW bytes \in Int
  PROVE  QuantCoarsePass(g, want, old, budget, rc, intra, bytes) \in CoarseStates(Coders(TRUE, Y, S))
<1> DEFINE R == Coders(TRUE, Y, S)
           rc1 == IF Tell(rc) + 3 <= budget THEN Flag(rc, 3, intra).rc ELSE rc
           base == [rc |-> rc1, bad |-> 0, error |-> [c \in 0..1 |-> Zero], old |-> old,
                    prev |-> [c \in 0..1 |-> 0]]
           seq == BandsOf(g)
<1>1. rc1 \in R
  <2>1. ASSUME NEW p \in Int, NEW on PROVE Flag(rc, p, on).rc \in Coders(TRUE, Y, S)
    BY ONLY TRUE \in BOOLEAN, Readable(Y), rc \in Coders(TRUE, Y, S), FlagKeeps, Zenon
  <2>2. Flag(rc, 3, intra).rc \in Coders(TRUE, Y, S)
    BY ONLY <2>1, 3 \in Int, Zenon
  <2> QED BY <2>2
<1>2. QuantCoarsePass(g, want, old, budget, rc, intra, bytes)
        = CoarseEnd(g, want, budget, intra, bytes, base, seq)
  BY ONLY ZenonT(60) DEF QuantCoarsePass, CoarseEnd, ForEach, rc1, base, seq
<1> HIDE DEF rc1
<1>3. base \in CoarseStates(R)
  <2>1. [c \in 0..1 |-> Zero] \in AllEnergies
    BY DEF Zero, AllEnergies
  <2> HIDE DEF R
  <2> QED BY <1>1, <2>1 DEF CoarseStates
<1>4. Len(seq) \in Nat
  BY BandsOfAre
<1>5. ASSUME NEW st \in CoarseStates(R), NEW k \in 1..Len(seq)
      PROVE  CoarseStep(g, want, budget, intra, bytes, st, seq[k]) \in CoarseStates(R)
  <2>1. seq[k][1] \in 0..NB - 1 /\ seq[k][2] \in 0..1
    BY BandsOfAre
  <2> HIDE DEF seq
  <2> QED BY <2>1, CoarseKeeps
<1> HIDE DEF base, seq
<1>6. CoarseEnd(g, want, budget, intra, bytes, base, seq) \in CoarseStates(R)
  <2> HIDE DEF R
  <2> QED BY ONLY <1>3, <1>4, <1>5, CoarseLoop
<1> QED BY <1>2, <1>6

\* What the encoder keeps of the coarse energies, whichever pass it takes.
LEMMA CoarseEnds ==
  ASSUME NEW g, IsGeometry(g), NEW want \in AllEnergies, NEW old \in AllEnergies, NEW budget \in Int,
         NEW Y, Readable(Y), NEW S, NEW rc \in Coders(TRUE, Y, S), NEW delayed, NEW twoPass
  PROVE  LET e == QuantCoarse(g, want, old, budget, rc, delayed, twoPass)
         IN  e.rc \in Coders(TRUE, Y, S) /\ e.old \in AllEnergies /\ e.error \in AllEnergies
<1>1. PICK pass : pass = [i \in BOOLEAN |-> QuantCoarsePass(g, want, old, budget, rc, i, budget \div 8)]
  OBVIOUS
<1>2. budget \div 8 \in Int
  OBVIOUS
<1>3. \A i \in BOOLEAN : pass[i] \in CoarseStates(Coders(TRUE, Y, S))
  BY <1>1, <1>2, PassKeeps
<1>4. \E i \in BOOLEAN :
        LET e == QuantCoarse(g, want, old, budget, rc, delayed, twoPass)
            p == QuantCoarsePass(g, want, old, budget, rc, i, budget \div 8)
        IN  e.rc = p.rc /\ e.old = p.old /\ e.error = p.error
  <2> DEFINE Pass(i) == QuantCoarsePass(g, want, old, budget, rc, i, budget \div 8)
             Kept(p, i, d) == [rc |-> p.rc, old |-> p.old, error |-> p.error, intra |-> i, delayed |-> d]
             e == QuantCoarse(g, want, old, budget, rc, delayed, twoPass)
  <2>1. (\E d : e = Kept(Pass(TRUE), TRUE, d)) \/ (\E d : e = Kept(Pass(FALSE), FALSE, d))
    BY ONLY ZenonT(60) DEF QuantCoarse
  <2> HIDE DEF Pass, e
  <2>2. \E i \in BOOLEAN : e.rc = Pass(i).rc /\ e.old = Pass(i).old /\ e.error = Pass(i).error
    <3>1. CASE \E d : e = Kept(Pass(TRUE), TRUE, d)
      <4>1. PICK d : e = Kept(Pass(TRUE), TRUE, d)
        BY <3>1
      <4> QED BY ONLY <4>1
    <3>2. CASE \E d : e = Kept(Pass(FALSE), FALSE, d)
      <4>1. PICK d : e = Kept(Pass(FALSE), FALSE, d)
        BY <3>2
      <4> QED BY ONLY <4>1
    <3> QED BY <2>1, <3>1, <3>2
  <2> QED BY ONLY <2>2 DEF Pass, e
<1>5. PICK i \in BOOLEAN :
        LET e == QuantCoarse(g, want, old, budget, rc, delayed, twoPass)
            p == pass[i]
        IN  e.rc = p.rc /\ e.old = p.old /\ e.error = p.error
  BY ONLY <1>1, <1>4
<1> QED BY ONLY <1>3, <1>5 DEF CoarseStates

-----------------------------------------------------------------------------
(* Time-frequency changes, boosts and the comb filter.                      *)

TfStates(R) == [rc : R, mark : Int, changed : Int, res : [0..NB - 1 -> Int], logp : Int]

\* One mark of time and frequency.
LEMMA TfKeeps ==
  ASSUME NEW w \in BOOLEAN, NEW Y, Readable(Y), NEW S, NEW s \in TfStates(Coders(w, Y, S)),
         NEW i \in 0..NB - 1, NEW transient, NEW marks, NEW budget \in Int
  PROVE  TfStep(transient, marks, budget, s, i) \in TfStates(Coders(w, Y, S))
<1> DEFINE R == Coders(w, Y, S)
           fits == Tell(s.rc) + s.logp <= budget
           Told(rc, mark) ==
             [rc |-> rc, mark |-> mark, changed |-> IF fits THEN Most(s.changed, mark) ELSE s.changed,
              res |-> [s.res EXCEPT ![i] = mark], logp |-> IF transient THEN 4 ELSE 5]
           f == Flag(s.rc, s.logp, marks[i] # s.mark)
<1>1. /\ s.rc \in R /\ s.mark \in Int /\ s.changed \in Int /\ s.res \in [0..NB - 1 -> Int]
      /\ s.logp \in Int
  BY ONLY s \in TfStates(R) DEF TfStates
<1>2. TfStep(transient, marks, budget, s, i)
        = IF fits THEN Told(f.rc, IF f.value THEN 1 - s.mark ELSE s.mark) ELSE Told(s.rc, s.mark)
  BY ONLY ZenonT(60) DEF TfStep, fits, Told, f
<1>3. ASSUME NEW rc \in R, NEW mark \in Int PROVE Told(rc, mark) \in TfStates(R)
  <2>1. PICK changed : changed = IF fits THEN Most(s.changed, mark) ELSE s.changed
    OBVIOUS
  <2>2. changed \in Int
    BY ONLY <1>1, <2>1, mark \in Int DEF Most
  <2>3. [s.res EXCEPT ![i] = mark] \in [0..NB - 1 -> Int]
    BY ONLY <1>1, mark \in Int, i \in 0..NB - 1
  <2>4. Told(rc, mark) = [rc |-> rc, mark |-> mark, changed |-> changed,
                          res |-> [s.res EXCEPT ![i] = mark], logp |-> IF transient THEN 4 ELSE 5]
    BY ONLY <2>1, Zenon DEF Told
  <2> QED BY ONLY <2>2, <2>3, <2>4, rc \in R, mark \in Int DEF TfStates
<1>4. f.rc \in R
  BY ONLY <1>1, w \in BOOLEAN, Readable(Y), FlagKeeps
<1> HIDE DEF f, fits, Told
<1>5. 1 - s.mark \in Int
  BY <1>1
<1>6. Told(f.rc, IF f.value THEN 1 - s.mark ELSE s.mark) \in TfStates(R) /\ Told(s.rc, s.mark) \in TfStates(R)
  BY ONLY <1>1, <1>3, <1>4, <1>5
<1> QED BY ONLY <1>2, <1>6

\* The marks of all bands, and the choice between two tables.
LEMMA TfEnds ==
  ASSUME NEW g, IsGeometry(g), NEW w \in BOOLEAN, NEW Y, Readable(Y), NEW S,
         NEW rc \in Coders(w, Y, S), S \in Int, NEW transient, NEW marks, NEW select
  PROVE  CodeTf(g, transient, marks, select, rc).rc \in Coders(w, Y, S)
<1> DEFINE R == Coders(w, Y, S)
           First == IF transient THEN 2 ELSE 4
           rsv == IF g.lm > 0 /\ Tell(rc) + First < 8 * rc.storage THEN 1 ELSE 0
           budget == 8 * rc.storage - rsv
           base == [rc |-> rc, mark |-> 0, changed |-> 0, res |-> Zero, logp |-> First]
           seq == Bands(g)
           end == TfEnd(transient, marks, budget, base, seq)
<1>1. \/ CodeTf(g, transient, marks, select, rc).rc = Flag(end.rc, 1, select).rc
      \/ CodeTf(g, transient, marks, select, rc).rc = end.rc
  <2> DEFINE Walk == ForEach(LAMBDA s, i : TfStep(transient, marks, budget, s, i), base, seq)
             Chosen(res, rc1, chosen) ==
               [rc |-> rc1, tf |-> [i \in 0..NB - 1 |-> IF i \in g.start..g.end - 1
                                                        THEN TfTable(g.lm, transient, chosen, res[i]) ELSE 0]]
  <2>1. \/ CodeTf(g, transient, marks, select, rc)
             = Chosen(Walk.res, Flag(Walk.rc, 1, select).rc, Flag(Walk.rc, 1, select).value)
        \/ CodeTf(g, transient, marks, select, rc) = Chosen(Walk.res, Walk.rc, FALSE)
    BY ONLY ZenonT(60) DEF CodeTf
  <2>2. Walk = end
    BY ONLY Zenon DEF TfEnd, end, ForEach
  <2> HIDE DEF Walk, end
  <2>4. PICK code, flag : code = CodeTf(g, transient, marks, select, rc) /\ flag = Flag(Walk.rc, 1, select)
    OBVIOUS
  <2>5. code = Chosen(Walk.res, flag.rc, flag.value) \/ code = Chosen(Walk.res, Walk.rc, FALSE)
    BY ONLY <2>1, <2>4, Zenon
  <2>6. code.rc = flag.rc \/ code.rc = Walk.rc
    <3>1. Chosen(Walk.res, flag.rc, flag.value).rc = flag.rc /\ Chosen(Walk.res, Walk.rc, FALSE).rc = Walk.rc
      BY ONLY Zenon DEF Chosen
    <3> HIDE DEF Chosen
    <3>2. CASE code = Chosen(Walk.res, flag.rc, flag.value)
      BY ONLY <3>1, <3>2, Zenon
    <3>3. CASE code = Chosen(Walk.res, Walk.rc, FALSE)
      BY ONLY <3>1, <3>3, Zenon
    <3> QED BY ONLY <2>5, <3>2, <3>3
  <2> QED BY ONLY <2>2, <2>4, <2>6
<1>2. budget \in Int /\ First \in Int
  <2>1. rc.storage \in Int
    BY ONLY CoderIs, rc \in Coders(w, Y, S), S \in Int
  <2> QED BY ONLY <2>1 DEF budget, rsv, First
<1> HIDE DEF budget, First
<1>3. base \in TfStates(R)
  BY ONLY <1>2, rc \in R DEF TfStates, Zero, base
<1>4. Len(seq) \in Nat /\ \A k \in 1..Len(seq) : seq[k] \in 0..NB - 1
  <2>1. Len(seq) \in Nat /\ \A k \in 1..Len(seq) : seq[k] \in g.start..g.end - 1
    BY BandsIs
  <2> QED BY <2>1, FrameBands
<1> HIDE DEF seq, base
<1>5. \A s \in TfStates(R), k \in 1..Len(seq) : TfStep(transient, marks, budget, s, seq[k]) \in TfStates(R)
  BY ONLY <1>2, <1>4, w \in BOOLEAN, Readable(Y), TfKeeps
<1>6. end \in TfStates(R)
  <2> HIDE DEF R
  <2> QED BY ONLY <1>3, <1>4, <1>5, TfLoop
<1> HIDE DEF end
<1>7. end.rc \in R /\ Flag(end.rc, 1, select).rc \in R
  <2>1. end.rc \in R
    BY ONLY <1>6 DEF TfStates
  <2> QED BY ONLY <2>1, 1 \in Int, w \in BOOLEAN, Readable(Y), FlagKeeps
<1> QED BY ONLY <1>1, <1>7

MoreStates(R) == [rc : R, logp : Int, boost : Nat, total : Nat, n : Int, stop : BOOLEAN]

\* One more boost of a band.
LEMMA MoreKeeps ==
  ASSUME NEW g, IsGeometry(g), NEW i \in 0..NB - 1, NEW w \in BOOLEAN, NEW Y, Readable(Y), NEW S,
         NEW t \in MoreStates(Coders(w, Y, S)), NEW wanted
  PROVE  BoostMore(g, i, wanted, t) \in MoreStates(Coders(w, Y, S))
<1> DEFINE R == Coders(w, Y, S)
           f == Flag(t.rc, t.logp, t.n < wanted[i])
           a1 == [t EXCEPT !.rc = f.rc]
           a2 == [a1 EXCEPT !.boost = @ + Quanta(g, i)]
           a3 == [a2 EXCEPT !.total = @ + Quanta(g, i)]
           a4 == [a3 EXCEPT !.logp = 1]
           a5 == [a4 EXCEPT !.n = @ + 1]
<1>1. \/ BoostMore(g, i, wanted, t) = [t EXCEPT !.stop = TRUE]
      \/ BoostMore(g, i, wanted, t) = [t EXCEPT !.rc = f.rc, !.stop = TRUE]
      \/ BoostMore(g, i, wanted, t)
           = [t EXCEPT !.rc = f.rc, !.boost = @ + Quanta(g, i), !.total = @ + Quanta(g, i),
                       !.logp = 1, !.n = @ + 1]
  BY ONLY ZenonT(60) DEF BoostMore, f
<1>2. t.rc \in R /\ t.logp \in Int
  BY ONLY t \in MoreStates(R) DEF MoreStates
<1>3. f.rc \in R
  <2>1. \A on : Flag(t.rc, t.logp, on).rc \in R
    BY ONLY <1>2, w \in BOOLEAN, Readable(Y), FlagKeeps
  <2> QED BY ONLY <2>1 DEF f
<1>4. Quanta(g, i) \in Nat
  BY BandFacts
<1> HIDE DEF f
<1>5. [t EXCEPT !.stop = TRUE] \in MoreStates(R) /\ a1 \in MoreStates(R)
  BY ONLY <1>3, t \in MoreStates(R) DEF MoreStates
<1>6. [t EXCEPT !.rc = f.rc, !.stop = TRUE] \in MoreStates(R)
  BY ONLY <1>3, t \in MoreStates(R) DEF MoreStates
<1>7. a5 = [t EXCEPT !.rc = f.rc, !.boost = @ + Quanta(g, i), !.total = @ + Quanta(g, i),
                     !.logp = 1, !.n = @ + 1]
  BY ONLY t \in MoreStates(R) DEF a1, a2, a3, a4, a5, MoreStates
<1> HIDE DEF a1
<1>8. a2 \in MoreStates(R)
  BY ONLY <1>4, <1>5 DEF MoreStates
<1> HIDE DEF a2
<1>9. a3 \in MoreStates(R)
  BY ONLY <1>4, <1>8 DEF MoreStates
<1> HIDE DEF a3
<1>10. a4 \in MoreStates(R)
  BY ONLY <1>9 DEF MoreStates
<1> HIDE DEF a4
<1>11. a5 \in MoreStates(R)
  BY ONLY <1>10 DEF MoreStates
<1> HIDE DEF a5
<1> QED BY ONLY <1>1, <1>5, <1>6, <1>7, <1>11

BoostStates(R) == [rc : R, total : Nat, offsets : Amounts, logp : Int]

\* The boosts of a band.
LEMMA BoostKeeps ==
  ASSUME NEW g, IsGeometry(g), NEW i \in 0..NB - 1, NEW w \in BOOLEAN, NEW Y, Readable(Y), NEW S,
         NEW s \in BoostStates(Coders(w, Y, S)), NEW wanted
  PROVE  BoostBand(g, wanted, s, i) \in BoostStates(Coders(w, Y, S))
<1> DEFINE R == Coders(w, Y, S)
           base == [rc |-> s.rc, logp |-> s.logp, boost |-> 0, total |-> s.total, n |-> 0, stop |-> FALSE]
           seq == Upto(0, CapOf(g, i) \div Quanta(g, i) + 2)
           e == MoreEnd(g, i, wanted, base, seq)
<1>1. BoostBand(g, wanted, s, i)
        = [rc |-> e.rc, total |-> e.total, offsets |-> [s.offsets EXCEPT ![i] = e.boost],
           logp |-> IF e.boost > 0 THEN Most(2, s.logp - 1) ELSE s.logp]
  BY ONLY ZenonT(60) DEF BoostBand, MoreEnd, ForEach, base, seq, e
<1>2. s.rc \in R /\ s.total \in Nat /\ s.offsets \in Amounts /\ s.logp \in Int
  BY ONLY s \in BoostStates(R) DEF BoostStates
<1>3. base \in MoreStates(R)
  BY ONLY <1>2 DEF MoreStates, base
<1>4. Len(seq) \in Nat
  <2>1. CapOf(g, i) \in Nat /\ Quanta(g, i) \in Nat \ {0}
    BY BandFacts
  <2>2. CapOf(g, i) \div Quanta(g, i) \in Nat
    BY ONLY <2>1, Shares
  <2>3. PICK n : n = CapOf(g, i) \div Quanta(g, i) + 2
    OBVIOUS
  <2>4. n \in Int /\ 0 <= n /\ n - 0 \in Nat
    BY ONLY <2>2, <2>3
  <2>5. Len(Upto(0, n)) = n - 0
    BY ONLY <2>4, 0 \in Int, UptoIs
  <2> QED BY ONLY <2>3, <2>4, <2>5
<1> HIDE DEF base, seq
<1>5. \A t \in MoreStates(R), k \in 1..Len(seq) : BoostMore(g, i, wanted, t) \in MoreStates(R)
  BY ONLY IsGeometry(g), i \in 0..NB - 1, w \in BOOLEAN, Readable(Y), MoreKeeps
<1>6. e \in MoreStates(R)
  <2> HIDE DEF R
  <2> QED BY ONLY <1>3, <1>4, <1>5, MoreLoop
<1> HIDE DEF e
<1>7. e.rc \in R /\ e.total \in Nat /\ e.boost \in Nat
  BY ONLY <1>6 DEF MoreStates
<1>8. [s.offsets EXCEPT ![i] = e.boost] \in Amounts
  BY ONLY <1>2, <1>7, i \in 0..NB - 1 DEF Amounts
<1>9. (IF e.boost > 0 THEN Most(2, s.logp - 1) ELSE s.logp) \in Int
  BY ONLY <1>2 DEF Most
<1> QED BY ONLY <1>1, <1>7, <1>8, <1>9 DEF BoostStates

\* The boosts of all bands are amounts.
LEMMA BoostsEnd ==
  ASSUME NEW g, IsGeometry(g), NEW w \in BOOLEAN, NEW Y, Readable(Y), NEW S,
         NEW rc \in Coders(w, Y, S), NEW wanted
  PROVE  CodeBoosts(g, wanted, rc) \in BoostStates(Coders(w, Y, S))
<1> DEFINE R == Coders(w, Y, S)
           base == [rc |-> rc, total |-> 0, offsets |-> Zero, logp |-> 6]
           seq == Bands(g)
<1>1. CodeBoosts(g, wanted, rc) = BoostEnd(g, wanted, base, seq)
  BY ONLY Zenon DEF CodeBoosts, BoostEnd, ForEach, base, seq
<1>2. base \in BoostStates(R)
  BY ONLY rc \in R DEF BoostStates, Amounts, Zero, base
<1>3. Len(seq) \in Nat /\ \A k \in 1..Len(seq) : seq[k] \in 0..NB - 1
  <2>1. Len(seq) \in Nat /\ \A k \in 1..Len(seq) : seq[k] \in g.start..g.end - 1
    BY BandsIs
  <2> QED BY <2>1, FrameBands
<1> HIDE DEF base, seq
<1>4. \A s \in BoostStates(R), k \in 1..Len(seq) : BoostBand(g, wanted, s, seq[k]) \in BoostStates(R)
  BY ONLY <1>3, IsGeometry(g), w \in BOOLEAN, Readable(Y), BoostKeeps
<1>5. BoostEnd(g, wanted, base, seq) \in BoostStates(R)
  <2> HIDE DEF R
  <2> QED BY ONLY <1>2, <1>3, <1>4, BoostLoop
<1> QED BY <1>1, <1>5

\* The octave of a period.
LEMMA Octaves ==
  ASSUME NEW period \in 15..1022
  PROVE  Octave(period) \in 0..5
<1>1. Pow2[0] = 1 /\ Pow2[1] = 2 /\ Pow2[2] = 4 /\ Pow2[3] = 8
  BY Units
<1>2. Pow2[4] = 16
  BY <1>1, Powers
<1>3. Pow2[5] = 32
  BY <1>2, Powers
<1>4. \E o \in 0..5 : 16 * Pow2[o] <= period + 1 /\ period + 1 < 32 * Pow2[o]
  <2>1. \A o \in {0, 1, 2, 3, 4, 5} : o \in 0..5
    OBVIOUS
  <2>2. CASE period + 1 < 32
    <3>1. 16 * Pow2[0] <= period + 1 /\ period + 1 < 32 * Pow2[0]
      BY ONLY <1>1, <2>2, period \in 15..1022
    <3> QED BY ONLY <2>1, <3>1
  <2>3. CASE 32 <= period + 1 /\ period + 1 < 64
    <3>1. 16 * Pow2[1] <= period + 1 /\ period + 1 < 32 * Pow2[1]
      BY ONLY <1>1, <2>3, period \in 15..1022
    <3> QED BY ONLY <2>1, <3>1
  <2>4. CASE 64 <= period + 1 /\ period + 1 < 128
    <3>1. 16 * Pow2[2] <= period + 1 /\ period + 1 < 32 * Pow2[2]
      BY ONLY <1>1, <2>4, period \in 15..1022
    <3> QED BY ONLY <2>1, <3>1
  <2>5. CASE 128 <= period + 1 /\ period + 1 < 256
    <3>1. 16 * Pow2[3] <= period + 1 /\ period + 1 < 32 * Pow2[3]
      BY ONLY <1>1, <2>5, period \in 15..1022
    <3> QED BY ONLY <2>1, <3>1
  <2>6. CASE 256 <= period + 1 /\ period + 1 < 512
    <3>1. 16 * Pow2[4] <= period + 1 /\ period + 1 < 32 * Pow2[4]
      BY ONLY <1>2, <2>6, period \in 15..1022
    <3> QED BY ONLY <2>1, <3>1
  <2>7. CASE 512 <= period + 1
    <3>1. 16 * Pow2[5] <= period + 1 /\ period + 1 < 32 * Pow2[5]
      BY ONLY <1>3, <2>7, period \in 15..1022
    <3> QED BY ONLY <2>1, <3>1
  <2> QED BY <2>2, <2>3, <2>4, <2>5, <2>6, <2>7
<1> DEFINE P(o) == 16 * Pow2[o] <= period + 1 /\ period + 1 < 32 * Pow2[o]
<1>5. PICK A : A = 0..5
  OBVIOUS
<1>6. Octave(period) = CHOOSE o \in 0..5 : P(o)
  BY ONLY Zenon DEF Octave, P
<1>7. \E o \in A : P(o)
  BY ONLY <1>4, <1>5
<1> HIDE DEF P
<1>8. (CHOOSE o \in A : P(o)) \in A
  BY ONLY <1>7, Zenon
<1> QED BY ONLY <1>5, <1>6, <1>8

\* What a filter's parameters may be.
Filters == [period : 15..1022, gain : Nat, tapset : Int]

\* The comb filter's parameters are coded.
LEMMA FilterCoded ==
  ASSUME NEW w \in BOOLEAN, NEW Y, Readable(Y), NEW S \in Int, NEW rc \in Coders(w, Y, S),
         NEW filter \in Filters
  PROVE  CodePostfilter(rc, filter).rc \in Coders(w, Y, S)
<1> DEFINE R == Coders(w, Y, S)
           flag == Flag(rc, 1, filter.gain > 0)
           o == Code(flag.rc, "uint", 6, IF rc.writing THEN Octave(filter.period) ELSE 0)
           p == Code(o.rc, "raw", 4 + o.value, filter.period + 1 - 16 * Pow2[o.value])
           q == Code(p.rc, "raw", 3, filter.gain - 1)
           t == IF rc.writing \/ Tell(q.rc) + 2 <= 8 * rc.storage
                THEN Code(q.rc, "icdf", 2, filter.tapset) ELSE [rc |-> q.rc, value |-> 0]
<1>1. CodePostfilter(rc, filter)
        = IF flag.value
          THEN [rc |-> t.rc, pf |-> [period |-> 16 * Pow2[o.value] + p.value - 1, gain |-> q.value + 1,
                                     tapset |-> t.value]]
          ELSE [rc |-> flag.rc, pf |-> NoFilter]
  BY ONLY ZenonT(60) DEF CodePostfilter, flag, o, p, q, t
<1>2. filter.period \in 15..1022 /\ filter.gain \in Nat /\ filter.tapset \in Int
  BY ONLY filter \in Filters DEF Filters
<1>3. flag.rc \in R
  <2>1. \A on : Flag(rc, 1, on).rc \in R
    BY ONLY 1 \in Int, w \in BOOLEAN, Readable(Y), rc \in R, FlagKeeps
  <2> QED BY ONLY <2>1 DEF flag
<1> HIDE DEF flag
<1>4. o.rc \in R /\ o.value \in 0..5
  <2>1. PICK v : v = IF rc.writing THEN Octave(filter.period) ELSE 0
    OBVIOUS
  <2>2. v \in 0..5 /\ v \in Int
    <3>1. Octave(filter.period) \in 0..5
      BY ONLY <1>2, Octaves
    <3> QED BY ONLY <2>1, <3>1
  <2>3. Codable("uint", 6)
    BY DEF Codable
  <2>4. o = Code(flag.rc, "uint", 6, v)
    BY ONLY <2>1, Zenon DEF o
  <2>5. o.rc \in R /\ (w => o.value = v) /\ (~w => o.value \in 0..6 - 1)
    <3>1. PICK six : six = 6
      OBVIOUS
    <3>2. Codable("uint", six) /\ v \in Int
      BY <2>2, <2>3, <3>1
    <3>3. /\ Code(flag.rc, "uint", six, v).rc \in R /\ (w => Code(flag.rc, "uint", six, v).value = v)
          /\ ~w => Code(flag.rc, "uint", six, v).value \in 0..six - 1
      BY ONLY <1>3, <3>2, w \in BOOLEAN, Readable(Y), CodeKeeps
    <3> QED BY ONLY <2>4, <3>1, <3>3
  <2> QED BY ONLY <2>2, <2>5, w \in BOOLEAN
<1> HIDE DEF o
<1>5. p.rc \in R
  <2>1. o.value \in 0..30
    BY <1>4
  <2>2. Pow2[o.value] \in Nat
    BY ONLY <2>1, Powers
  <2>3. filter.period + 1 - 16 * Pow2[o.value] \in Int /\ 4 + o.value \in Int
    <3>1. PICK pw : pw = Pow2[o.value]
      OBVIOUS
    <3>2. 4 + o.value \in Int
      BY ONLY <2>1
    <3>3. filter.period + 1 - 16 * pw \in Int
      <4>1. pw \in Nat /\ filter.period \in Int
        BY <1>2, <2>2, <3>1
      <4> QED BY ONLY <4>1
    <3> QED BY ONLY <3>1, <3>2, <3>3
  <2>4. Codable("raw", 4 + o.value)
    BY ONLY <2>3 DEF Codable
  <2> QED BY ONLY <1>4, <2>3, <2>4, w \in BOOLEAN, Readable(Y), CodeKeeps
<1> HIDE DEF p
<1>6. q.rc \in R
  <2>1. filter.gain - 1 \in Int
    BY <1>2
  <2>2. Codable("raw", 3)
    BY DEF Codable
  <2> QED BY ONLY <1>5, <2>1, <2>2, w \in BOOLEAN, Readable(Y), CodeKeeps
<1> HIDE DEF q
<1>7. t.rc \in R
  <2>1. Codable("icdf", 2)
    BY DEF Codable
  <2>2. Code(q.rc, "icdf", 2, filter.tapset).rc \in R
    BY ONLY <1>2, <1>6, <2>1, w \in BOOLEAN, Readable(Y), CodeKeeps
  <2> QED BY ONLY <1>6, <2>2 DEF t
<1> HIDE DEF t
<1> QED BY ONLY <1>1, <1>3, <1>7

-----------------------------------------------------------------------------
(* What the encoder writes.                                                 *)

\* The coders of an encoder, with a buffer of S bytes.
Writers(S) == Coders(TRUE, Simple, S)

\* Its symbols can be read.
LEMMA SimpleReads == Readable(Simple)
BY DEF Readable, Simple

\* A writer stays one, whatever it codes, and its count is a number.
LEMMA WriterKeeps ==
  ASSUME NEW S, NEW rc \in Writers(S)
  PROVE  /\ \A of \in Int, v \in Int : Code(rc, "raw", of, v).rc \in Writers(S)
         /\ \A of \in Int, v \in Int : Code(rc, "icdf", of, v).rc \in Writers(S)
         /\ \A p \in Int : \A on : Flag(rc, p, on).rc \in Writers(S)
         /\ Tell(rc) \in Int /\ TellFrac(rc) \in Int /\ rc.storage = S /\ rc.writing
<1>1. rc \in Coders(TRUE, Simple, S) /\ TRUE \in BOOLEAN
  BY DEF Writers
<1>2. \A of \in Int : Codable("raw", of) /\ Codable("icdf", of)
  BY DEF Codable
<1>3. \A of \in Int, v \in Int : Code(rc, "raw", of, v).rc \in Coders(TRUE, Simple, S)
  BY ONLY <1>1, <1>2, SimpleReads, CodeKeeps
<1>4. \A of \in Int, v \in Int : Code(rc, "icdf", of, v).rc \in Coders(TRUE, Simple, S)
  BY ONLY <1>1, <1>2, SimpleReads, CodeKeeps
<1>5. \A p \in Int : \A on : Flag(rc, p, on).rc \in Coders(TRUE, Simple, S)
  BY ONLY <1>1, SimpleReads, FlagKeeps
<1>6. Tell(rc) \in Int /\ TellFrac(rc) \in Int /\ rc.storage = S /\ rc.writing
  <2>1. Tell(rc) \in Int /\ TellFrac(rc) \in Int /\ rc.storage = S
    <3>1. rc.used \in Int /\ rc.storage \in {S}
      BY ONLY <1>1 DEF Coders
    <3> QED BY ONLY <3>1 DEF Tell, TellFrac
  <2>2. rc.writing \in {TRUE}
    BY ONLY <1>1 DEF Coders
  <2> QED BY ONLY <2>1, <2>2
<1> QED BY ONLY <1>3, <1>4, <1>5, <1>6 DEF Writers

\* The state of an encoder.
EncoderInv(e) ==
  e.old \in AllEnergies /\ e.tapset \in Int /\ e.reservoir \in Nat

Fronts(front, S) ==
  /\ front.rc \in Writers(S)
  /\ front.energy.old \in AllEnergies /\ front.energy.error \in AllEnergies
  /\ front.boosts.offsets \in Amounts /\ front.boosts.total \in Nat
  /\ front.trim \in Int /\ front.tapset \in Int

\* What an encoder codes up to the second choice of the size: a writer of the
\* same buffer, energies, and boosts that are amounts.
LEMMA FrontKeeps ==
  ASSUME NEW x \in Inputs, channels \in {1, 2}, EncoderInv(enc), NEW open, NEW S \in Int,
         open.rc \in Writers(S)
  PROVE  Fronts(CodeFront(x, open), S)
<1> DEFINE R == Writers(S)
           g == Geometry(x, channels)
           total == 8 * open.rc.storage
           rc0 == IF HasPostfilter(open.rc, x.start, open.silence)
                  THEN CodePostfilter(open.rc, Prefilter(x)).rc ELSE open.rc
           says == x.lm > 0 /\ Tell(rc0) + 3 <= total
           rc1 == IF says THEN Flag(rc0, 3, x.transient).rc ELSE rc0
           want == [c \in 0..1 |-> Levels[x.level]]
           energy == QuantCoarse(g, want, enc.old, total, rc1, enc.delayed, x.complexity >= 4)
           tf == CodeTf(g, x.transient, x.marks, x.select, energy.rc)
           spreads == Tell(tf.rc) + 4 <= total
           coded == SpreadOf(x, open.rc, TRUE)
           rc2 == IF spreads THEN Code(tf.rc, "icdf", 2, coded).rc ELSE tf.rc
           boosts == CodeBoosts(g, x.boosts, rc2)
           trims == TellFrac(boosts.rc) + 48 <= 8 * total - boosts.total
           rc3 == IF trims THEN Code(boosts.rc, "icdf", 3, x.trim).rc ELSE boosts.rc
           trim == IF trims THEN x.trim ELSE 5
           tapset == TapsetOf(x, open.rc, spreads)
           front == CodeFront(x, open)
<1>1. /\ front.rc = rc3 /\ front.energy = energy /\ front.boosts = boosts
      /\ front.trim = trim /\ front.tapset = tapset
  <2>1. front = [rc |-> rc3, short |-> says /\ x.transient, energy |-> energy, tf |-> tf.tf,
                 boosts |-> boosts, spread |-> SpreadOf(x, open.rc, spreads), trim |-> trim,
                 tapset |-> tapset]
    BY ONLY ZenonT(90)
       DEF CodeFront, front, rc3, trim, tapset, trims, boosts, rc2, coded, spreads, tf, energy, want, rc1, says,
           rc0, total, g
  <2> HIDE DEF front, rc3, trim, tapset, trims, boosts, rc2, coded, spreads, tf, energy, want, rc1, says, rc0, total, g
  <2> QED BY ONLY <2>1
<1>2. IsGeometry(g)
  BY DEF IsGeometry
<1> HIDE DEF front, g
<1>3. /\ x.lm \in Nat /\ x.spread \in Int /\ x.trim \in Int /\ x.tapset \in Int /\ x.gain \in Nat
      /\ x.period \in 15..1022 /\ x.level \in DOMAIN Levels
  <2>1. MaxLm \in 0..3
    BY FrameLengths
  <2>2. /\ x.lm \in 0..MaxLm /\ x.spread \in Nat /\ x.trim \in Nat /\ x.tapset \in Nat /\ x.gain \in Nat
        /\ x.period \in MinPeriod..1022 /\ x.level \in DOMAIN Levels
    BY ONLY InputShape, x \in Inputs
  <2>3. MinPeriod \in 15..1022
    BY PeriodsInRange
  <2>4. x.lm \in Nat
    BY ONLY <2>1, <2>2
  <2>5. x.period \in 15..1022
    <3>1. PICK m, p : m = MinPeriod /\ p = x.period
      OBVIOUS
    <3>2. m \in 15..1022 /\ p \in m..1022
      BY ONLY <2>2, <2>3, <3>1
    <3>3. p \in 15..1022
      BY ONLY <3>2
    <3> QED BY ONLY <3>1, <3>3
  <2> QED BY ONLY <2>2, <2>4, <2>5
<1>4. enc.old \in AllEnergies /\ enc.tapset \in Int
  BY DEF EncoderInv
<1>5. open.rc.storage = S /\ total \in Int
  <2>1. open.rc.storage = S
    BY ONLY open.rc \in Writers(S), WriterKeeps
  <2> QED BY ONLY <2>1, S \in Int DEF total
<1> HIDE DEF total
<1>6. rc0 \in R
  <2>1. Prefilter(x) \in Filters
    <3>1. MinPeriod \in 15..1022
      BY PeriodsInRange
    <3>2. [period |-> x.period, gain |-> x.gain, tapset |-> enc.tapset] \in Filters
      BY ONLY <1>3, <1>4 DEF Filters
    <3>3. [NoFilter EXCEPT !.tapset = enc.tapset] \in Filters
      BY ONLY <1>4, <3>1 DEF Filters, NoFilter
    <3>4. \/ Prefilter(x) = [period |-> x.period, gain |-> x.gain, tapset |-> enc.tapset]
          \/ Prefilter(x) = [NoFilter EXCEPT !.tapset = enc.tapset]
      BY ONLY Zenon DEF Prefilter
    <3> QED BY ONLY <3>2, <3>3, <3>4
  <2>2. CodePostfilter(open.rc, Prefilter(x)).rc \in Coders(TRUE, Simple, S)
    BY ONLY <2>1, open.rc \in Writers(S), S \in Int, SimpleReads, TRUE \in BOOLEAN, FilterCoded DEF Writers
  <2> QED BY ONLY <2>2, open.rc \in Writers(S) DEF rc0, Writers
<1> HIDE DEF rc0, says
<1>7. rc1 \in R
  <2>1. \A on : Flag(rc0, 3, on).rc \in Writers(S)
    BY ONLY <1>6, 3 \in Int, WriterKeeps
  <2> QED BY ONLY <1>6, <2>1 DEF rc1
<1> HIDE DEF rc1
<1>8. energy.rc \in R /\ energy.old \in AllEnergies /\ energy.error \in AllEnergies
  <2>1. want \in AllEnergies
    <3>1. Levels[x.level] \in [0..NB - 1 -> Int]
      BY <1>3, LevelShape
    <3> QED BY ONLY <3>1 DEF want, AllEnergies
  <2> HIDE DEF want
  <2>2. rc1 \in Coders(TRUE, Simple, S)
    BY ONLY <1>7 DEF Writers
  <2>3. /\ energy.rc \in Coders(TRUE, Simple, S) /\ energy.old \in AllEnergies
        /\ energy.error \in AllEnergies
    BY ONLY <2>1, <2>2, <1>2, <1>4, <1>5, SimpleReads, CoarseEnds DEF energy
  <2> QED BY ONLY <2>3 DEF Writers
<1> HIDE DEF energy
<1>9. tf.rc \in R
  <2>1. energy.rc \in Coders(TRUE, Simple, S)
    BY ONLY <1>8 DEF Writers
  <2>2. tf.rc \in Coders(TRUE, Simple, S)
    BY ONLY <2>1, <1>2, S \in Int, TRUE \in BOOLEAN, SimpleReads, TfEnds DEF tf
  <2> QED BY ONLY <2>2 DEF Writers
<1> HIDE DEF tf, spreads
<1>10. rc2 \in R
  <2>1. coded \in {0, 2, x.spread}
    BY ONLY Zenon DEF SpreadOf, coded
  <2> HIDE DEF coded
  <2>2. coded \in Int
    BY ONLY <1>3, <2>1
  <2>3. Code(tf.rc, "icdf", 2, coded).rc \in Writers(S)
    BY ONLY <1>9, <2>2, 2 \in Int, WriterKeeps
  <2> QED BY ONLY <1>9, <2>3 DEF rc2
<1> HIDE DEF rc2
<1>11. boosts \in BoostStates(R)
  <2>1. rc2 \in Coders(TRUE, Simple, S)
    BY ONLY <1>10 DEF Writers
  <2>2. boosts \in BoostStates(Coders(TRUE, Simple, S))
    BY ONLY <2>1, <1>2, TRUE \in BOOLEAN, SimpleReads, BoostsEnd DEF boosts
  <2> QED BY ONLY <2>2 DEF Writers
<1> HIDE DEF boosts, trims
<1>12. boosts.rc \in R /\ boosts.total \in Nat /\ boosts.offsets \in Amounts
  BY ONLY <1>11 DEF BoostStates
<1>13. rc3 \in R
  <2>1. Code(boosts.rc, "icdf", 3, x.trim).rc \in Writers(S)
    BY ONLY <1>3, <1>12, 3 \in Int, WriterKeeps
  <2> QED BY ONLY <1>12, <2>1 DEF rc3
<1> HIDE DEF rc3
<1>14. trim \in Int /\ tapset \in Int
  <2>1. tapset \in {x.tapset, enc.tapset}
    BY ONLY Zenon DEF TapsetOf, tapset
  <2> HIDE DEF tapset
  <2> QED BY ONLY <1>3, <1>4, <2>1 DEF trim
<1> HIDE DEF trim, tapset
<1> QED BY ONLY <1>1, <1>8, <1>12, <1>13, <1>14 DEF Fronts, front

-----------------------------------------------------------------------------
(* The bands: whatever they code, a writer stays a writer.                  *)

IsWriter(rc) == "writing" \in DOMAIN rc /\ rc.writing = TRUE
IsContext(c) == "rc" \in DOMAIN c /\ IsWriter(c.rc)
IsPart(s) == "ctx" \in DOMAIN s /\ IsContext(s.ctx)

\* A writer that codes a symbol is a writer.
LEMMA WriterStays ==
  ASSUME NEW rc, IsWriter(rc), NEW kind, NEW of, NEW v
  PROVE  IsWriter(Code(rc, kind, of, v).rc) /\ Code(rc, kind, of, v).value = v
<1>1. rc.writing
  BY DEF IsWriter
<1>2. /\ Code(rc, kind, of, v).value = v
      /\ Code(rc, kind, of, v).rc = Written(rc, SymbolOf(kind, of, v), Cost(kind, of, v))
  BY ONLY <1>1, CodeIs
<1>3. ASSUME NEW sym, NEW cost PROVE IsWriter(Written(rc, sym, cost))
  BY ONLY IsWriter(rc), ZenonT(20) DEF IsWriter, Written
<1> QED BY ONLY <1>2, <1>3

\* The same of a flag.
LEMMA FlagStays ==
  ASSUME NEW rc, IsWriter(rc), NEW p, NEW on
  PROVE  IsWriter(Flag(rc, p, on).rc)
<1>1. PICK told : told = Code(rc, "bit", p, IF on THEN 1 ELSE 0)
  OBVIOUS
<1>2. Flag(rc, p, on).rc = told.rc
  BY ONLY <1>1, Zenon DEF Flag
<1> QED BY ONLY <1>1, <1>2, WriterStays, IsWriter(rc)

\* An angle is coded by a writer that stays one.
LEMMA ThetaStays ==
  ASSUME NEW ctx, IsContext(ctx), NEW n, NEW b, NEW blocks, NEW b0, NEW lm, NEW stereo, NEW fill
  PROVE  IsWriter(ComputeTheta(ctx, n, b, blocks, b0, lm, stereo, fill).rc)
<1>0. IsWriter(ctx.rc)
  BY DEF IsContext
<1>1. ASSUME NEW qn, NEW pdf, NEW inverts
      PROVE  IsWriter(AngleAsked(ctx, n, blocks, fill, qn, pdf, inverts).rc)
  <2>1. AngleAsked(ctx, n, blocks, fill, qn, pdf, inverts).rc
          = IF qn # 1 THEN Code(ctx.rc, "theta", pdf, Wanted(ctx.rc, qn + 1)).rc
            ELSE IF inverts THEN Flag(ctx.rc, 2, Wanted(ctx.rc, 2) = 1).rc ELSE ctx.rc
    BY ONLY SMTT(20) DEF AngleAsked, AngleTold
  <2>2. ASSUME NEW on PROVE IsWriter(Flag(ctx.rc, 2, on).rc)
    BY ONLY <1>0, FlagStays
  <2>3. IsWriter(Flag(ctx.rc, 2, Wanted(ctx.rc, 2) = 1).rc)
    BY ONLY <2>2, Zenon
  <2>4. IsWriter(Code(ctx.rc, "theta", pdf, Wanted(ctx.rc, qn + 1)).rc)
    <3>1. ASSUME NEW v PROVE IsWriter(Code(ctx.rc, "theta", pdf, v).rc)
      BY ONLY <1>0, WriterStays
    <3> QED BY ONLY <3>1, Zenon
  <2> QED BY ONLY <1>0, <2>1, <2>3, <2>4, Zenon
<1> DEFINE qn == IF stereo /\ ctx.band >= ctx.intensity THEN 1
                 ELSE ComputeQn(n, b, (LogN(ctx.band) + 8 * lm) \div 2 - (IF stereo /\ n = 2 THEN 16 ELSE 4),
                                LogN(ctx.band) + 8 * lm, stereo)
<1>3. ComputeTheta(ctx, n, b, blocks, b0, lm, stereo, fill)
        = AngleAsked(ctx, n, blocks, fill, qn,
                     IF stereo /\ n > 2 THEN 3 * (qn \div 2 + 1) + qn \div 2
                     ELSE IF b0 > 1 \/ stereo THEN qn + 1 ELSE (qn \div 2 + 1)^2,
                     stereo /\ b > 16 /\ ctx.remaining > 16)
  BY ONLY ZenonT(30) DEF ComputeTheta
<1> HIDE DEF qn
<1> QED BY ONLY <1>1, <1>3, Zenon

\* A band that pays for a symbol keeps a writer.
LEMMA ChargeStays ==
  ASSUME NEW ctx, IsContext(ctx), NEW rc, IsWriter(rc), NEW bits
  PROVE  IsContext(Charged(ctx, rc, bits))
BY ONLY IsContext(ctx), IsWriter(rc), ZenonT(20) DEF IsContext, Charged

\* A part whose pulses are coded keeps one.
LEMMA LeafStays ==
  ASSUME NEW ctx, IsContext(ctx), NEW n, NEW b, NEW blocks, NEW folds, NEW lm, NEW fill
  PROVE  IsContext(QuantLeaf(ctx, n, b, blocks, folds, lm, fill).ctx)
<1>0. IsWriter(ctx.rc)
  BY DEF IsContext
<1> DEFINE row == CacheFor(ctx.band, lm)
           q == PulsesThatFit(row, ctx.remaining, b)
           v == Codewords(n, GetPulses(q))
           bits == Pulses2Bits(row, q)
<1>1. CASE q = 0
  <2>1. QuantLeaf(ctx, n, b, blocks, folds, lm, fill) = FillBand(ctx, n, blocks, folds, fill)
    BY ONLY <1>1, Zenon DEF QuantLeaf, q, row
  <2>2. FillBand(ctx, n, blocks, folds, fill).ctx = ctx
    <3>1. ctx.rc.writing
      BY ONLY <1>0 DEF IsWriter
    <3> QED BY ONLY <3>1 DEF FillBand
  <2> QED BY <2>1, <2>2
<1>2. CASE q # 0
  <2> DEFINE s == Code(ctx.rc, "pvq", v, Wanted(ctx.rc, v))
  <2>1. QuantLeaf(ctx, n, b, blocks, folds, lm, fill)
          = [ctx |-> Charged(ctx, s.rc, bits),
             cm |-> 1 + (s.value % Mask(blocks))]
    BY ONLY <1>2, Zenon DEF QuantLeaf, q, row, v, bits, s
  <2>2. IsWriter(s.rc)
    <3>1. ASSUME NEW want PROVE IsWriter(Code(ctx.rc, "pvq", v, want).rc)
      <4> HIDE DEF v
      <4> QED BY ONLY <1>0, WriterStays
    <3> HIDE DEF v
    <3> QED BY ONLY <3>1, Zenon DEF s
  <2> HIDE DEF v, bits, q, row, s
  <2>3. IsContext(Charged(ctx, s.rc, bits))
    BY ONLY <2>2, IsContext(ctx), ChargeStays
  <2> QED BY ONLY <2>1, <2>3
<1> QED BY ONLY <1>1, <1>2

\* So do the signs of a band of one bin,
LEMMA SignStays ==
  ASSUME NEW ctx, IsContext(ctx)
  PROVE  IsContext(Signed(ctx)) /\ IsContext(SignedIfRoom(ctx)) /\ \A k : IsContext(QuantBandN1(ctx, k))
<1>1. ASSUME NEW c, IsContext(c) PROVE IsContext(Signed(c))
  <2>1. IsWriter(c.rc)
    BY ONLY <1>1 DEF IsContext
  <2>2. ASSUME NEW want PROVE IsWriter(Code(c.rc, "raw", 1, want).rc)
    BY ONLY <2>1, WriterStays
  <2>3. ASSUME NEW want PROVE IsContext(Charged(c, Code(c.rc, "raw", 1, want).rc, 8))
    BY ONLY <1>1, <2>2, ChargeStays
  <2> QED BY ONLY <2>3, Zenon DEF Signed
<1>2. ASSUME NEW c, IsContext(c) PROVE IsContext(SignedIfRoom(c))
  BY ONLY <1>1, <1>2 DEF SignedIfRoom
<1> QED BY ONLY <1>1, <1>2, IsContext(ctx) DEF QuantBandN1

\* a part that is coded within another,
LEMMA PartStays ==
  ASSUME NEW ctx, IsContext(ctx), NEW t, IsWriter(t.rc), NEW left, NEW delta
  PROVE  IsPart(Parted(ctx, t, left, delta))
<1>1. PICK m : m = Least(Most(0, Quot(left - delta, 2)), left)
  OBVIOUS
<1>2. Parted(ctx, t, left, delta)
        = [ctx |-> Charged(ctx, t.rc, t.cost), t |-> t, cm |-> 0, spare |-> 0, mid |-> m, side |-> left - m]
  BY ONLY <1>1, Zenon DEF Parted
<1>3. IsContext(Charged(ctx, t.rc, t.cost))
  BY ChargeStays
<1> QED BY ONLY <1>2, <1>3 DEF IsPart

\* what it gives back to the rest,
LEMMA SpentStays ==
  ASSUME NEW s, IsPart(s), NEW bits, NEW part, IsContext(part.ctx), NEW cm
  PROVE  IsPart(Spent(s, bits, part, cm))
BY ONLY IsPart(s), IsContext(part.ctx), ZenonT(20) DEF IsPart, Spent

\* the angle a split starts with,
LEMMA PartStarts ==
  ASSUME NEW ctx, IsContext(ctx), NEW n, NEW b, NEW blocks, NEW lm, NEW fill
  PROVE  IsPart(PartStart(ctx, n, b, blocks, lm, fill))
<1> DEFINE t == ComputeTheta(ctx, n \div 2, b, (blocks + 1) \div 2, blocks, lm - 1, FALSE,
                             IF blocks = 1 THEN (fill % 2) * 3 ELSE fill)
           delta == Favour(t, n \div 2, lm - 1, blocks)
           left == b - t.cost
<1>1. PartStart(ctx, n, b, blocks, lm, fill) = Parted(ctx, t, left, delta)
  BY ONLY Zenon DEF PartStart, t, left, delta
<1>2. ASSUME NEW n1, NEW blocks1, NEW lm1, NEW fill1
      PROVE  IsWriter(ComputeTheta(ctx, n1, b, blocks1, blocks, lm1, FALSE, fill1).rc)
  BY ONLY IsContext(ctx), ThetaStays
<1>3. IsWriter(t.rc)
  BY ONLY <1>2, Zenon DEF t
<1> HIDE DEF t, left, delta
<1>4. IsPart(Parted(ctx, t, left, delta))
  BY ONLY <1>3, IsContext(ctx), PartStays
<1> QED BY ONLY <1>1, <1>4

\* and the two parts it ends with.
LEMMA PartJoins ==
  ASSUME NEW s, IsPart(s), NEW part, IsContext(part.ctx), NEW k, NEW blocks
  PROVE  IsPart(PartJoined(s, k, blocks, part))
<1>1. ASSUME NEW bits, NEW cm PROVE IsPart(Spent(s, bits, part, cm))
  BY ONLY IsPart(s), IsContext(part.ctx), SpentStays
<1> QED BY ONLY <1>1, Zenon DEF PartJoined

\* A part that may be split once keeps a writer,
LEMMA Partition0Stays ==
  ASSUME NEW ctx, IsContext(ctx), NEW n, NEW b, NEW blocks, NEW folds, NEW lm, NEW fill
  PROVE  IsContext(Partition0(ctx, n, b, blocks, folds, lm, fill).ctx)
<1> DEFINE half == (blocks + 1) \div 2
           Coded(s, k) == PartJoined(s, k, blocks, QuantLeaf(s.ctx, n \div 2, Share(s, k), half, folds, lm - 1,
                                                        PartFill(s, k, half)))
           start == PartStart(ctx, n, b, blocks, lm, fill)
<1>1. ASSUME NEW s, IsPart(s), NEW k PROVE IsPart(Coded(s, k))
  <2>1. IsContext(s.ctx)
    BY ONLY <1>1 DEF IsPart
  <2>2. ASSUME NEW n1, NEW b1, NEW blocks1, NEW lm1, NEW fill1
        PROVE  IsContext(QuantLeaf(s.ctx, n1, b1, blocks1, folds, lm1, fill1).ctx)
    BY ONLY <2>1, LeafStays
  <2>3. ASSUME NEW n1, NEW b1, NEW blocks1, NEW lm1, NEW fill1
        PROVE  IsPart(PartJoined(s, k, blocks, QuantLeaf(s.ctx, n1, b1, blocks1, folds, lm1, fill1)))
    <3>1. PICK p : p = QuantLeaf(s.ctx, n1, b1, blocks1, folds, lm1, fill1)
      OBVIOUS
    <3>2. IsPart(PartJoined(s, k, blocks, p))
      BY ONLY <1>1, <2>2, <3>1, PartJoins
    <3> QED BY ONLY <3>1, <3>2, Zenon
  <2> QED BY ONLY <2>3, Zenon DEF Coded
<1>2. IsPart(start)
  BY PartStarts
<1>3. Partition0(ctx, n, b, blocks, folds, lm, fill)
        = IF ~ShouldSplit(CacheFor(ctx.band, lm), n, b, lm) THEN QuantLeaf(ctx, n, b, blocks, folds, lm, fill)
          ELSE Coded(Coded(start, 1), 2)
  BY ONLY ZenonT(60) DEF Partition0, PartitionBy, Coded, half, start
<1> HIDE DEF Coded, start
<1>4. IsPart(Coded(Coded(start, 1), 2))
  <2>1. IsPart(Coded(start, 1))
    BY ONLY <1>1, <1>2, Zenon
  <2> QED BY ONLY <1>1, <2>1, Zenon
<1>5. IsContext(QuantLeaf(ctx, n, b, blocks, folds, lm, fill).ctx)
  BY LeafStays
<1>6. IsContext(Coded(Coded(start, 1), 2).ctx)
  BY ONLY <1>4, Zenon DEF IsPart
<1> QED BY ONLY <1>3, <1>5, <1>6, Zenon

\* one that may be split twice does,
LEMMA Partition1Stays ==
  ASSUME NEW ctx, IsContext(ctx), NEW n, NEW b, NEW blocks, NEW folds, NEW lm, NEW fill
  PROVE  IsContext(Partition1(ctx, n, b, blocks, folds, lm, fill).ctx)
<1> DEFINE half == (blocks + 1) \div 2
           Coded(s, k) == PartJoined(s, k, blocks, Partition0(s.ctx, n \div 2, Share(s, k), half, folds, lm - 1,
                                                        PartFill(s, k, half)))
           start == PartStart(ctx, n, b, blocks, lm, fill)
<1>1. ASSUME NEW s, IsPart(s), NEW k PROVE IsPart(Coded(s, k))
  <2>1. IsContext(s.ctx)
    BY ONLY <1>1 DEF IsPart
  <2>2. ASSUME NEW n1, NEW b1, NEW blocks1, NEW lm1, NEW fill1
        PROVE  IsContext(Partition0(s.ctx, n1, b1, blocks1, folds, lm1, fill1).ctx)
    BY ONLY <2>1, Partition0Stays
  <2>3. ASSUME NEW n1, NEW b1, NEW blocks1, NEW lm1, NEW fill1
        PROVE  IsPart(PartJoined(s, k, blocks, Partition0(s.ctx, n1, b1, blocks1, folds, lm1, fill1)))
    <3>1. PICK p : p = Partition0(s.ctx, n1, b1, blocks1, folds, lm1, fill1)
      OBVIOUS
    <3>2. IsPart(PartJoined(s, k, blocks, p))
      BY ONLY <1>1, <2>2, <3>1, PartJoins
    <3> QED BY ONLY <3>1, <3>2, Zenon
  <2> QED BY ONLY <2>3, Zenon DEF Coded
<1>2. IsPart(start)
  BY PartStarts
<1>3. Partition1(ctx, n, b, blocks, folds, lm, fill)
        = IF ~ShouldSplit(CacheFor(ctx.band, lm), n, b, lm) THEN QuantLeaf(ctx, n, b, blocks, folds, lm, fill)
          ELSE Coded(Coded(start, 1), 2)
  BY ONLY ZenonT(60) DEF Partition1, PartitionBy, Coded, half, start
<1> HIDE DEF Coded, start
<1>4. IsPart(Coded(Coded(start, 1), 2))
  <2>1. IsPart(Coded(start, 1))
    BY ONLY <1>1, <1>2, Zenon
  <2> QED BY ONLY <1>1, <2>1, Zenon
<1>5. IsContext(QuantLeaf(ctx, n, b, blocks, folds, lm, fill).ctx)
  BY LeafStays
<1>6. IsContext(Coded(Coded(start, 1), 2).ctx)
  BY ONLY <1>4, Zenon DEF IsPart
<1> QED BY ONLY <1>3, <1>5, <1>6, Zenon

\* and one that may be split three times.
LEMMA Partition2Stays ==
  ASSUME NEW ctx, IsContext(ctx), NEW n, NEW b, NEW blocks, NEW folds, NEW lm, NEW fill
  PROVE  IsContext(Partition2(ctx, n, b, blocks, folds, lm, fill).ctx)
<1> DEFINE half == (blocks + 1) \div 2
           Coded(s, k) == PartJoined(s, k, blocks, Partition1(s.ctx, n \div 2, Share(s, k), half, folds, lm - 1,
                                                        PartFill(s, k, half)))
           start == PartStart(ctx, n, b, blocks, lm, fill)
<1>1. ASSUME NEW s, IsPart(s), NEW k PROVE IsPart(Coded(s, k))
  <2>1. IsContext(s.ctx)
    BY ONLY <1>1 DEF IsPart
  <2>2. ASSUME NEW n1, NEW b1, NEW blocks1, NEW lm1, NEW fill1
        PROVE  IsContext(Partition1(s.ctx, n1, b1, blocks1, folds, lm1, fill1).ctx)
    BY ONLY <2>1, Partition1Stays
  <2>3. ASSUME NEW n1, NEW b1, NEW blocks1, NEW lm1, NEW fill1
        PROVE  IsPart(PartJoined(s, k, blocks, Partition1(s.ctx, n1, b1, blocks1, folds, lm1, fill1)))
    <3>1. PICK p : p = Partition1(s.ctx, n1, b1, blocks1, folds, lm1, fill1)
      OBVIOUS
    <3>2. IsPart(PartJoined(s, k, blocks, p))
      BY ONLY <1>1, <2>2, <3>1, PartJoins
    <3> QED BY ONLY <3>1, <3>2, Zenon
  <2> QED BY ONLY <2>3, Zenon DEF Coded
<1>2. IsPart(start)
  BY PartStarts
<1>3. Partition2(ctx, n, b, blocks, folds, lm, fill)
        = IF ~ShouldSplit(CacheFor(ctx.band, lm), n, b, lm) THEN QuantLeaf(ctx, n, b, blocks, folds, lm, fill)
          ELSE Coded(Coded(start, 1), 2)
  BY ONLY ZenonT(60) DEF Partition2, PartitionBy, Coded, half, start
<1> HIDE DEF Coded, start
<1>4. IsPart(Coded(Coded(start, 1), 2))
  <2>1. IsPart(Coded(start, 1))
    BY ONLY <1>1, <1>2, Zenon
  <2> QED BY ONLY <1>1, <2>1, Zenon
<1>5. IsContext(QuantLeaf(ctx, n, b, blocks, folds, lm, fill).ctx)
  BY LeafStays
<1>6. IsContext(Coded(Coded(start, 1), 2).ctx)
  BY ONLY <1>4, Zenon DEF IsPart
<1> QED BY ONLY <1>3, <1>5, <1>6, Zenon

\* However often a part is split, a writer is left.
LEMMA QuantPartitionStays ==
  ASSUME NEW ctx, IsContext(ctx), NEW n, NEW b, NEW blocks, NEW folds, NEW lm, NEW fill
  PROVE  IsContext(QuantPartition(ctx, n, b, blocks, folds, lm, fill).ctx)
<1> DEFINE half == (blocks + 1) \div 2
           Coded(s, k) == PartJoined(s, k, blocks, Partition2(s.ctx, n \div 2, Share(s, k), half, folds, lm - 1,
                                                        PartFill(s, k, half)))
           start == PartStart(ctx, n, b, blocks, lm, fill)
<1>1. ASSUME NEW s, IsPart(s), NEW k PROVE IsPart(Coded(s, k))
  <2>1. IsContext(s.ctx)
    BY ONLY <1>1 DEF IsPart
  <2>2. ASSUME NEW n1, NEW b1, NEW blocks1, NEW lm1, NEW fill1
        PROVE  IsContext(Partition2(s.ctx, n1, b1, blocks1, folds, lm1, fill1).ctx)
    BY ONLY <2>1, Partition2Stays
  <2>3. ASSUME NEW n1, NEW b1, NEW blocks1, NEW lm1, NEW fill1
        PROVE  IsPart(PartJoined(s, k, blocks, Partition2(s.ctx, n1, b1, blocks1, folds, lm1, fill1)))
    <3>1. PICK p : p = Partition2(s.ctx, n1, b1, blocks1, folds, lm1, fill1)
      OBVIOUS
    <3>2. IsPart(PartJoined(s, k, blocks, p))
      BY ONLY <1>1, <2>2, <3>1, PartJoins
    <3> QED BY ONLY <3>1, <3>2, Zenon
  <2> QED BY ONLY <2>3, Zenon DEF Coded
<1>2. IsPart(start)
  BY PartStarts
<1>3. QuantPartition(ctx, n, b, blocks, folds, lm, fill)
        = IF ~ShouldSplit(CacheFor(ctx.band, lm), n, b, lm) THEN QuantLeaf(ctx, n, b, blocks, folds, lm, fill)
          ELSE Coded(Coded(start, 1), 2)
  BY ONLY ZenonT(60) DEF QuantPartition, PartitionBy, Coded, half, start
<1> HIDE DEF Coded, start
<1>4. IsPart(Coded(Coded(start, 1), 2))
  <2>1. IsPart(Coded(start, 1))
    BY ONLY <1>1, <1>2, Zenon
  <2> QED BY ONLY <1>1, <2>1, Zenon
<1>5. IsContext(QuantLeaf(ctx, n, b, blocks, folds, lm, fill).ctx)
  BY LeafStays
<1>6. IsContext(Coded(Coded(start, 1), 2).ctx)
  BY ONLY <1>4, Zenon DEF IsPart
<1> QED BY ONLY <1>3, <1>5, <1>6, Zenon

\* A band of one channel leaves one.
LEMMA QuantBandStays ==
  ASSUME NEW ctx, IsContext(ctx), NEW n, NEW b, NEW blocks, NEW folds, NEW lm, NEW fill
  PROVE  IsContext(QuantBand(ctx, n, b, blocks, folds, lm, fill).ctx)
<1>1. ASSUME NEW blocks1, NEW fill1
      PROVE  IsContext(QuantPartition(ctx, n, b, blocks1, folds, lm, fill1).ctx)
  BY ONLY IsContext(ctx), QuantPartitionStays
<1>2. IsContext(QuantBandN1(ctx, 1))
  BY ONLY IsContext(ctx), SignStays
<1>3. \/ QuantBand(ctx, n, b, blocks, folds, lm, fill).ctx = QuantBandN1(ctx, 1)
      \/ \E blocks1, fill1 : QuantBand(ctx, n, b, blocks, folds, lm, fill).ctx
                               = QuantPartition(ctx, n, b, blocks1, folds, lm, fill1).ctx
  BY ONLY ZenonT(60) DEF QuantBand
<1> QED BY ONLY <1>1, <1>2, <1>3, Zenon

\* A band of two channels starts with one,
LEMMA StereoStarts ==
  ASSUME NEW ctx, IsContext(ctx), NEW n, NEW b, NEW blocks, NEW lm, NEW fill
  PROVE  IsPart(StereoStart(ctx, n, b, blocks, lm, fill))
<1> DEFINE t == ComputeTheta(ctx, n, b, blocks, blocks, lm, TRUE, fill)
           left == b - t.cost
           alone == [ctx |-> Charged(ctx, t.rc, t.cost), t |-> [t EXCEPT !.fill = fill],
                     cm |-> 0, spare |-> 0, mid |-> left, side |-> left]
<1>1. \/ StereoStart(ctx, n, b, blocks, lm, fill) = alone
      \/ StereoStart(ctx, n, b, blocks, lm, fill)
           = [alone EXCEPT !.ctx = Signed(@), !.mid = @ - 8, !.side = @ - 8]
      \/ StereoStart(ctx, n, b, blocks, lm, fill) = Parted(ctx, t, left, t.delta)
  BY ONLY ZenonT(60) DEF StereoStart, t, left, alone
<1>2. ASSUME NEW st PROVE IsWriter(ComputeTheta(ctx, n, b, blocks, blocks, lm, st, fill).rc)
  BY ONLY IsContext(ctx), ThetaStays
<1>3. IsWriter(t.rc)
  BY ONLY <1>2, Zenon DEF t
<1> HIDE DEF t, left
<1>4. IsPart(Parted(ctx, t, left, t.delta))
  BY ONLY <1>3, IsContext(ctx), PartStays
<1>5. IsContext(Charged(ctx, t.rc, t.cost))
  BY ONLY <1>3, IsContext(ctx), ChargeStays
<1>6. IsPart(alone)
  <2>1. ASSUME NEW c, IsContext(c), NEW t1 PROVE IsPart([ctx |-> c, t |-> t1, cm |-> 0, spare |-> 0, mid |-> left, side |-> left])
    BY ONLY <2>1 DEF IsPart
  <2> QED BY ONLY <1>5, <2>1, Zenon DEF alone
<1> HIDE DEF alone
<1>7. IsPart([alone EXCEPT !.ctx = Signed(@), !.mid = @ - 8, !.side = @ - 8])
  <2>1. IsContext(alone.ctx)
    BY ONLY <1>6 DEF IsPart
  <2>2. IsContext(Signed(alone.ctx))
    BY ONLY <2>1, SignStays
  <2> QED BY ONLY <1>6, <2>2, ZenonT(20) DEF IsPart
<1> QED BY ONLY <1>1, <1>4, <1>6, <1>7, Zenon

\* has one after each of the two;
LEMMA StereoSteps ==
  ASSUME NEW s, IsPart(s), NEW k, NEW n, NEW blocks, NEW folds, NEW lm
  PROVE  IsPart(StereoStep(s, k, n, blocks, folds, lm))
<1>1. IsContext(s.ctx)
  BY ONLY IsPart(s) DEF IsPart
<1>2. ASSUME NEW b, NEW folds1, NEW fill
      PROVE  IsContext(QuantBand(s.ctx, n, b, blocks, folds1, lm, fill).ctx)
  BY ONLY <1>1, QuantBandStays
<1>3. ASSUME NEW b, NEW folds1, NEW fill, NEW bits, NEW cm
      PROVE  IsPart(Spent(s, bits, QuantBand(s.ctx, n, b, blocks, folds1, lm, fill), cm))
  <2>1. PICK p : p = QuantBand(s.ctx, n, b, blocks, folds1, lm, fill)
    OBVIOUS
  <2>2. IsPart(Spent(s, bits, p, cm))
    BY ONLY <1>2, <2>1, IsPart(s), SpentStays
  <2> QED BY ONLY <2>1, <2>2, Zenon
<1>4. \E b, folds1, fill, bits, cm :
        StereoStep(s, k, n, blocks, folds, lm)
          = Spent(s, bits, QuantBand(s.ctx, n, b, blocks, folds1, lm, fill), cm)
  BY ONLY ZenonT(60) DEF StereoStep
<1> QED BY ONLY <1>3, <1>4, Zenon

\* the loop over the two is a run of such steps,
StereoEnd(bins, blocks, folds, lm, base, seq) ==
  ForEach(LAMBDA s, e : StereoStep(s, e, bins, blocks, folds, lm), base, seq)
StereoRun(f, bins, blocks, folds, lm, base, seq) ==
  /\ f[0] = base
  /\ \A k \in 1..Len(seq) : f[k] = StereoStep(f[k - 1], seq[k], bins, blocks, folds, lm)
  /\ StereoEnd(bins, blocks, folds, lm, base, seq) = f[Len(seq)]
LEMMA StereoLoop ==
  ASSUME NEW bins, NEW blocks, NEW folds, NEW lm, NEW base, NEW seq, Len(seq) \in Nat
  PROVE  \E f : StereoRun(f, bins, blocks, folds, lm, base, seq)
<1> DEFINE n == Len(seq)
           At(f, k) == IF k = 0 THEN base
                         ELSE CHOOSE s \in {StereoStep(t, seq[k], bins, blocks, folds, lm) : t \in {f[k - 1]}} : TRUE
           IsLoop(f, m) == f = [k \in 0..m |-> At(f, k)]
           T == {m \in Nat : \E f : IsLoop(f, m)}
<1>1. n \in Nat /\ \A f : \A k \in 1..n : At(f, k) = StereoStep(f[k - 1], seq[k], bins, blocks, folds, lm)
  OBVIOUS
<1>2. 0 \in T
  <2>1. IsLoop([k \in 0..0 |-> base], 0)
    OBVIOUS
  <2> QED BY <2>1
<1>3. ASSUME NEW m \in T PROVE m + 1 \in T
  <2>1. m \in Nat
    OBVIOUS
  <2>2. PICK f : IsLoop(f, m)
    OBVIOUS
  <2> DEFINE h == [k \in 0..m + 1 |-> IF k = m + 1 THEN At(f, k) ELSE f[k]]
  <2>3. \A k \in 0..m : h[k] = f[k]
    BY <2>1
  <2>4. \A k \in 0..m + 1 : At(h, k) = At(f, k)
    <3> HIDE DEF h
    <3> QED BY <2>1, <2>3
  <2>5. \A k \in 0..m + 1 : h[k] = At(h, k)
    <3> HIDE DEF At
    <3> QED BY <2>1, <2>2, <2>4
  <2>6. IsLoop(h, m + 1)
    <3> HIDE DEF At
    <3>1. h = [k \in 0..m + 1 |-> h[k]]
      OBVIOUS
    <3> HIDE DEF h
    <3> QED BY <2>5, <3>1
  <2> HIDE DEF h, IsLoop
  <2> QED BY <2>1, <2>6
<1>4. \E f : IsLoop(f, n)
  <2>1. T = Nat
    <3>1. T \subseteq Nat
      OBVIOUS
    <3> HIDE DEF T
    <3> QED BY <1>2, <1>3, <3>1, Induction, ZenonT(60)
  <2> QED BY <1>1, <2>1
<1>5. StereoEnd(bins, blocks, folds, lm, base, seq) = (CHOOSE f : IsLoop(f, n))[n]
  BY Zenon DEF StereoEnd, ForEach
<1> HIDE DEF n, At
<1>6. PICK f : f = CHOOSE h : IsLoop(h, n)
  OBVIOUS
<1>7. IsLoop(f, n)
  <2> HIDE DEF IsLoop
  <2> QED BY <1>4, <1>6, Zenon
<1>8. f[0] = base /\ \A k \in 1..n : f[k] = StereoStep(f[k - 1], seq[k], bins, blocks, folds, lm)
  <2>1. \A k \in 0..n : f[k] = At(f, k)
    BY <1>7
  <2>2. At(f, 0) = base
    BY DEF At
  <2> QED BY ONLY <1>1, <2>1, <2>2
<1>9. StereoEnd(bins, blocks, folds, lm, base, seq) = f[n]
  BY ONLY <1>5, <1>6, Zenon
<1> QED BY ONLY <1>8, <1>9, Zenon DEF n, StereoRun

\* and it leaves one.
LEMMA QuantBandStereoStays ==
  ASSUME NEW ctx, IsContext(ctx), NEW n, NEW b, NEW blocks, NEW folds, NEW lm, NEW fill
  PROVE  IsContext(QuantBandStereo(ctx, n, b, blocks, folds, lm, fill).ctx)
<1> DEFINE start == StereoStart(ctx, n, b, blocks, lm, fill)
           sides == IF n = 2 THEN <<1>> ELSE <<1, 2>>
<1>1. QuantBandStereo(ctx, n, b, blocks, folds, lm, fill)
        = IF n = 1 THEN [ctx |-> QuantBandN1(ctx, 2), cm |-> 1]
          ELSE StereoEnd(n, blocks, folds, lm, start, sides)
  BY ONLY ZenonT(60) DEF QuantBandStereo, StereoEnd, ForEach, start, sides
<1>2. IsPart(start)
  BY StereoStarts
<1>3. Len(sides) \in {1, 2}
  OBVIOUS
<1> HIDE DEF start, sides
<1>4. PICK run : StereoRun(run, n, blocks, folds, lm, start, sides)
  <2>1. Len(sides) \in Nat
    BY ONLY <1>3
  <2> QED BY ONLY <2>1, StereoLoop, Zenon
<1>5. IsPart(run[1])
  <2>1. run[1] = StereoStep(run[0], sides[1], n, blocks, folds, lm)
    BY ONLY <1>3, <1>4 DEF StereoRun
  <2>2. IsPart(StereoStep(run[0], sides[1], n, blocks, folds, lm))
    <3>1. IsPart(run[0])
      BY ONLY <1>2, <1>4, Zenon DEF StereoRun
    <3> QED BY ONLY <3>1, StereoSteps
  <2> QED BY ONLY <2>1, <2>2, Zenon
<1>6. Len(sides) = 2 => IsPart(run[2])
  <2>1. Len(sides) = 2 => run[2] = StereoStep(run[1], sides[2], n, blocks, folds, lm)
    BY ONLY <1>4 DEF StereoRun
  <2>2. IsPart(StereoStep(run[1], sides[2], n, blocks, folds, lm))
    BY ONLY <1>5, StereoSteps
  <2> QED BY ONLY <2>1, <2>2, Zenon
<1>7. IsPart(StereoEnd(n, blocks, folds, lm, start, sides))
  BY ONLY <1>3, <1>4, <1>5, <1>6, Zenon DEF StereoRun
<1>8. IsContext(QuantBandN1(ctx, 2))
  BY ONLY IsContext(ctx), SignStays
<1> QED BY ONLY <1>1, <1>7, <1>8 DEF IsPart

\* A channel leaves one,
LEMMA ChannelSteps ==
  ASSUME NEW p, NEW st, NEW i, NEW b, NEW s, IsContext(s.ctx), NEW c
  PROVE  IsContext(ChannelStep(p, st, i, b, s, c).ctx)
<1>1. ASSUME NEW n, NEW blocks, NEW folds, NEW lm, NEW fill
      PROVE  IsContext(QuantBand(s.ctx, n, b, blocks, folds, lm, fill).ctx)
  BY ONLY IsContext(s.ctx), QuantBandStays
<1>2. \E n, blocks, folds, lm, fill :
        ChannelStep(p, st, i, b, s, c).ctx = QuantBand(s.ctx, n, b, blocks, folds, lm, fill).ctx
  BY ONLY ZenonT(60) DEF ChannelStep, ChannelShaped
<1> QED BY ONLY <1>1, <1>2, Zenon

\* the loop over the channels is a run of such steps,
ChannelEnd(p, st, i, b, base, seq) ==
  ForEach(LAMBDA s, e : ChannelStep(p, st, i, b, s, e), base, seq)
ChannelRun(f, p, st, i, b, base, seq) ==
  /\ f[0] = base
  /\ \A k \in 1..Len(seq) : f[k] = ChannelStep(p, st, i, b, f[k - 1], seq[k])
  /\ ChannelEnd(p, st, i, b, base, seq) = f[Len(seq)]
LEMMA ChannelLoop ==
  ASSUME NEW p, NEW st, NEW i, NEW b, NEW base, NEW seq, Len(seq) \in Nat
  PROVE  \E f : ChannelRun(f, p, st, i, b, base, seq)
<1> DEFINE n == Len(seq)
           At(f, k) == IF k = 0 THEN base
                         ELSE CHOOSE s \in {ChannelStep(p, st, i, b, t, seq[k]) : t \in {f[k - 1]}} : TRUE
           IsLoop(f, m) == f = [k \in 0..m |-> At(f, k)]
           T == {m \in Nat : \E f : IsLoop(f, m)}
<1>1. n \in Nat /\ \A f : \A k \in 1..n : At(f, k) = ChannelStep(p, st, i, b, f[k - 1], seq[k])
  OBVIOUS
<1>2. 0 \in T
  <2>1. IsLoop([k \in 0..0 |-> base], 0)
    OBVIOUS
  <2> QED BY <2>1
<1>3. ASSUME NEW m \in T PROVE m + 1 \in T
  <2>1. m \in Nat
    OBVIOUS
  <2>2. PICK f : IsLoop(f, m)
    OBVIOUS
  <2> DEFINE h == [k \in 0..m + 1 |-> IF k = m + 1 THEN At(f, k) ELSE f[k]]
  <2>3. \A k \in 0..m : h[k] = f[k]
    BY <2>1
  <2>4. \A k \in 0..m + 1 : At(h, k) = At(f, k)
    <3> HIDE DEF h
    <3> QED BY <2>1, <2>3
  <2>5. \A k \in 0..m + 1 : h[k] = At(h, k)
    <3> HIDE DEF At
    <3> QED BY <2>1, <2>2, <2>4
  <2>6. IsLoop(h, m + 1)
    <3> HIDE DEF At
    <3>1. h = [k \in 0..m + 1 |-> h[k]]
      OBVIOUS
    <3> HIDE DEF h
    <3> QED BY <2>5, <3>1
  <2> HIDE DEF h, IsLoop
  <2> QED BY <2>1, <2>6
<1>4. \E f : IsLoop(f, n)
  <2>1. T = Nat
    <3>1. T \subseteq Nat
      OBVIOUS
    <3> HIDE DEF T
    <3> QED BY <1>2, <1>3, <3>1, Induction, ZenonT(60)
  <2> QED BY <1>1, <2>1
<1>5. ChannelEnd(p, st, i, b, base, seq) = (CHOOSE f : IsLoop(f, n))[n]
  BY Zenon DEF ChannelEnd, ForEach
<1> HIDE DEF n, At
<1>6. PICK f : f = CHOOSE h : IsLoop(h, n)
  OBVIOUS
<1>7. IsLoop(f, n)
  <2> HIDE DEF IsLoop
  <2> QED BY <1>4, <1>6, Zenon
<1>8. f[0] = base /\ \A k \in 1..n : f[k] = ChannelStep(p, st, i, b, f[k - 1], seq[k])
  <2>1. \A k \in 0..n : f[k] = At(f, k)
    BY <1>7
  <2>2. At(f, 0) = base
    BY DEF At
  <2> QED BY ONLY <1>1, <2>1, <2>2
<1>9. ChannelEnd(p, st, i, b, base, seq) = f[n]
  BY ONLY <1>5, <1>6, Zenon
<1> QED BY ONLY <1>8, <1>9, Zenon DEF n, ChannelRun

\* and the shape of a band, however its channels are coded, leaves one.
LEMMA ShapeStays ==
  ASSUME NEW f, NEW st, IsWriter(st.rc), NEW i, NEW dual
  PROVE  IsContext(BandShape(f, st, i, dual).ctx)
<1> DEFINE ctx == [rc |-> st.rc, remaining |-> BitsLeft(f, st), noise |-> st.noise, band |-> i,
                   intensity |-> f.alloc.intensity, tf |-> f.tf[i], resynth |-> f.resynth]
           base == [ctx |-> ctx, cms |-> <<>>]
           parts == IF dual THEN <<0, 1>> ELSE <<0>>
           b == BandBits(f, st, i) \div Len(parts)
           end == BandShape(f, st, i, dual).ctx
<1>1. IsContext(ctx)
  BY ONLY IsWriter(st.rc) DEF IsContext
<1>2. CASE ~dual /\ f.g.c = 2
  <2>1. \E n, bits, folds, fill : end = QuantBandStereo(ctx, n, bits, f.blocks, folds, f.g.lm, fill).ctx
    BY ONLY <1>2, ZenonT(60) DEF BandShape, ChannelShaped, end, ctx
  <2>2. ASSUME NEW c, IsContext(c), NEW n, NEW bits, NEW folds, NEW fill
        PROVE  IsContext(QuantBandStereo(c, n, bits, f.blocks, folds, f.g.lm, fill).ctx)
    BY ONLY <2>2, QuantBandStereoStays
  <2> HIDE DEF ctx
  <2>3. IsContext(end)
    <3> HIDE DEF end
    <3> QED BY ONLY <1>1, <2>1, <2>2, Zenon
  <2> QED BY ONLY <2>3, Zenon DEF end
<1>3. CASE ~(~dual /\ f.g.c = 2)
  <2>1. BandShape(f, st, i, dual) = ChannelEnd(f, st, i, b, base, parts)
    BY ONLY <1>3, ZenonT(60) DEF BandShape, ChannelEnd, ForEach, b, base, ctx, parts
  <2>2. Len(parts) \in {1, 2} /\ base.ctx = ctx
    OBVIOUS
  <2> HIDE DEF b, base, parts, ctx
  <2>3. PICK run : ChannelRun(run, f, st, i, b, base, parts)
    <3>1. Len(parts) \in Nat
      BY ONLY <2>2
    <3> QED BY ONLY <3>1, ChannelLoop, Zenon
  <2>4. IsContext(run[1].ctx)
    <3>1. run[1] = ChannelStep(f, st, i, b, run[0], parts[1])
      BY ONLY <2>2, <2>3 DEF ChannelRun
    <3>2. IsContext(run[0].ctx)
      BY ONLY <1>1, <2>2, <2>3, Zenon DEF ChannelRun
    <3>3. IsContext(ChannelStep(f, st, i, b, run[0], parts[1]).ctx)
      BY ONLY <3>2, ChannelSteps
    <3> QED BY ONLY <3>1, <3>3, Zenon
  <2>5. Len(parts) = 2 => IsContext(run[2].ctx)
    <3>1. Len(parts) = 2 => run[2] = ChannelStep(f, st, i, b, run[1], parts[2])
      BY ONLY <2>3 DEF ChannelRun
    <3>2. IsContext(ChannelStep(f, st, i, b, run[1], parts[2]).ctx)
      BY ONLY <2>4, ChannelSteps
    <3> QED BY ONLY <3>1, <3>2, Zenon
  <2>6. IsContext(run[Len(parts)].ctx)
    BY ONLY <2>2, <2>4, <2>5, Zenon
  <2> QED BY ONLY <2>1, <2>3, <2>6, Zenon DEF ChannelRun
<1> QED BY ONLY <1>2, <1>3

\* A step from one band to the next leaves a writer,
LEMMA BandStays ==
  ASSUME NEW f, NEW st, IsWriter(st.rc), NEW i
  PROVE  IsWriter(BandStep(f, st, i).rc)
<1>1. ASSUME NEW dual PROVE IsWriter(BandShape(f, st, i, dual).ctx.rc)
  <2>1. IsContext(BandShape(f, st, i, dual).ctx)
    BY ONLY IsWriter(st.rc), ShapeStays
  <2> QED BY ONLY <2>1, Zenon DEF IsContext
<1>2. BandStep(f, st, i).rc = BandShape(f, st, i, st.dual /\ i # f.alloc.intensity).ctx.rc
  BY ONLY ZenonT(60) DEF BandStep
<1> QED BY ONLY <1>1, <1>2, Zenon

\* and so do all bands of a frame.
LEMMA BandsStay ==
  ASSUME NEW g, IsGeometry(g), NEW rc, IsWriter(rc), NEW alloc, NEW tf, NEW short, NEW spread, NEW total,
         NEW resynth, NEW writing
  PROVE  IsWriter(QuantAllBands(g, rc, alloc, tf, short, spread, total, resynth, writing).rc)
<1> DEFINE f == [g |-> g, alloc |-> alloc, tf |-> tf, blocks |-> IF short THEN Pow2[g.lm] ELSE 1,
                 spread |-> spread, total |-> total, resynth |-> resynth, writing |-> writing]
           base == [rc |-> rc, noise |-> 0, dual |-> alloc.dual, masks |-> [c \in 0..1 |-> Zero],
                    balance |-> alloc.balance, update |-> TRUE, low |-> 0, norm |-> {},
                    stale |-> FALSE, over |-> FALSE]
           end == QuantAllBands(g, rc, alloc, tf, short, spread, total, resynth, writing)
<1>1. PICK seq : seq = Bands(g)
  OBVIOUS
<1>2. end = Done(f, base, seq)
  <2>1. end = Done(f, base, Bands(g))
    BY ONLY Zenon DEF QuantAllBands, Done, ForEach, end, f, base
  <2> HIDE DEF end, f, base
  <2> QED BY ONLY <1>1, <2>1, Zenon
<1>3. Len(seq) \in Nat
  <2>1. Bands(g) = [k \in 1..Most(g.end - g.start, 0) |-> g.start + k - 1]
    BY ONLY Zenon DEF Bands, Upto
  <2>2. g.start \in Nat /\ g.end \in Nat
    BY GeometryFacts
  <2>3. Most(g.end - g.start, 0) \in Nat
    BY ONLY <2>2 DEF Most
  <2> QED BY ONLY <1>1, <2>1, <2>3
<1>4. base.rc = rc
  BY ONLY DEF base
<1> HIDE DEF f, base, end
<1>5. PICK run : /\ run[0] = base
                 /\ \A k \in 1..Len(seq) : run[k] = BandStep(f, run[k - 1], seq[k])
                 /\ Done(f, base, seq) = run[Len(seq)]
  BY ONLY <1>3, Stepwise
<1> DEFINE T == {k \in Nat : IsWriter(run[k].rc)}
<1>6. 0 \in T
  BY ONLY <1>4, <1>5, IsWriter(rc)
<1>7. ASSUME NEW k \in 0..Len(seq) - 1, k \in T PROVE k + 1 \in T
  <2>1. k + 1 \in 1..Len(seq) /\ (k + 1) - 1 = k /\ k + 1 \in Nat
    BY ONLY <1>3, k \in 0..Len(seq) - 1
  <2>2. run[k + 1] = BandStep(f, run[k], seq[k + 1])
    BY ONLY <2>1, <1>5, ZenonT(30)
  <2>3. IsWriter(BandStep(f, run[k], seq[k + 1]).rc)
    BY ONLY <1>7, BandStays
  <2> QED BY ONLY <2>1, <2>2, <2>3
<1>8. 0..Len(seq) \subseteq T
  <2> HIDE DEF T
  <2> QED BY ONLY <1>3, <1>6, <1>7, InductionTo
<1>9. IsWriter(run[Len(seq)].rc)
  BY ONLY <1>3, <1>8
<1> QED BY ONLY <1>2, <1>5, <1>9, Zenon DEF end

-----------------------------------------------------------------------------
(* Fine energy and the bits left over.                                      *)

\* What a band's energy is refined from: a writer, and energies.
IsRefined(s) ==
  /\ s.old \in AllEnergies /\ s.error \in AllEnergies /\ IsWriter(s.rc)
  /\ "rc" \in DOMAIN s /\ "old" \in DOMAIN s /\ "error" \in DOMAIN s

\* What a finer energy is moved by is a number.
LEMMA Offsets ==
  ASSUME NEW q \in Int, NEW bits \in 0..8
  PROVE  FineOffset(q, bits) \in Int /\ FinalOffset(q, bits) \in Int
<1>1. Pow2[bits + 1] \in Nat \ {0} /\ Pow2[bits + 2] \in Nat \ {0}
  BY Powers
<1>2. Unit \in Nat
  BY WholeNumbers
<1>3. (2 * q + 1) * Unit \in Int /\ (2 * q - 1) * Unit \in Int
  BY <1>2, Times
<1>4. ASSUME NEW a \in Int, NEW p \in Nat \ {0} PROVE a \div p \in Int
  OBVIOUS
<1>5. ((2 * q + 1) * Unit) \div Pow2[bits + 1] \in Int /\ ((2 * q - 1) * Unit) \div Pow2[bits + 2] \in Int
  BY ONLY <1>1, <1>3, <1>4
<1>6. Unit \div 2 \in Int
  BY ONLY <1>2
<1> QED BY ONLY <1>5, <1>6 DEF FineOffset, FinalOffset

\* A refined energy is an energy.
LEMMA RefineKeeps ==
  ASSUME NEW s, IsRefined(s), NEW at, at[1] \in 0..NB - 1, at[2] \in 0..1,
         NEW rc, IsWriter(rc), NEW off \in Int
  PROVE  IsRefined(Refine(s, at, rc, off))
<1> DEFINE old == [s.old EXCEPT ![at[2]][at[1]] = @ + off]
           error == [s.error EXCEPT ![at[2]][at[1]] = @ - off]
<1>1. /\ Refine(s, at, rc, off).rc = rc /\ Refine(s, at, rc, off).old = old
      /\ Refine(s, at, rc, off).error = error
      /\ DOMAIN Refine(s, at, rc, off) = DOMAIN s
  BY ONLY IsRefined(s), ZenonT(30) DEF Refine, old, error, IsRefined
<1>2. old \in AllEnergies /\ error \in AllEnergies
  <2>1. PICK i, c : i = at[1] /\ c = at[2]
    OBVIOUS
  <2>2. i \in 0..NB - 1 /\ c \in 0..1
    BY <2>1
  <2>3. PICK o, e : o = s.old /\ e = s.error
    OBVIOUS
  <2>4. o \in AllEnergies /\ e \in AllEnergies
    BY ONLY <2>3, IsRefined(s) DEF IsRefined
  <2>5. o[c][i] \in Int /\ e[c][i] \in Int
    BY ONLY <2>2, <2>4, EnergySets, 0 \in Int
  <2>6. o[c][i] + off \in Int /\ e[c][i] - off \in Int
    BY ONLY <2>5, off \in Int
  <2>7. [o EXCEPT ![c][i] = o[c][i] + off] \in AllEnergies /\ [e EXCEPT ![c][i] = e[c][i] - off] \in AllEnergies
    BY ONLY <2>2, <2>4, <2>6, EnergySets
  <2>8. old = [o EXCEPT ![c][i] = o[c][i] + off] /\ error = [e EXCEPT ![c][i] = e[c][i] - off]
    BY ONLY <2>1, <2>2, <2>3, <2>4 DEF old, error, AllEnergies
  <2> QED BY ONLY <2>7, <2>8
<1> HIDE DEF old, error
<1> QED BY ONLY <1>1, <1>2, IsRefined(s), IsWriter(rc) DEF IsRefined

\* The fine bits of a band leave a writer and energies,
LEMMA FineKeeps ==
  ASSUME NEW s, IsRefined(s), NEW at, at[1] \in 0..NB - 1, at[2] \in 0..1,
         NEW fine \in [0..NB - 1 -> 0..8]
  PROVE  IsRefined(FineStep(fine, s, at))
<1> DEFINE bits == fine[at[1]]
           want == Within(((s.error[at[2]][at[1]] + Unit \div 2) * Pow2[bits]) \div Unit, 0, Pow2[bits] - 1)
           d == Code(s.rc, "raw", bits, want)
<1>1. FineStep(fine, s, at) = IF bits <= 0 THEN s ELSE Refine(s, at, d.rc, FineOffset(d.value, bits))
  BY ONLY ZenonT(60) DEF FineStep, bits, want, d
<1>2. bits \in 0..8
  OBVIOUS
<1>3. want \in Int
  <2>1. s.error[at[2]][at[1]] \in Int
    BY ONLY IsRefined(s), at[1] \in 0..NB - 1, at[2] \in 0..1 DEF IsRefined, AllEnergies
  <2>2. Pow2[bits] \in Nat /\ Unit \in Nat \ {0}
    <3>1. \A k \in 0..30 : Pow2[k] \in Nat \ {0}
      BY Powers, Zenon
    <3>2. Unit \in Nat \ {0}
      BY WholeNumbers
    <3>3. \A b \in 0..8 : b \in 0..30
      OBVIOUS
    <3> HIDE DEF bits
    <3> QED BY ONLY <1>2, <3>1, <3>2, <3>3, Zenon
  <2>3. PICK e, p : e = s.error[at[2]][at[1]] /\ p = Pow2[bits]
    OBVIOUS
  <2>4. (e + Unit \div 2) * p \in Int
    <3>1. e + Unit \div 2 \in Int
      BY ONLY <2>1, <2>2, <2>3
    <3>2. p \in Int
      BY ONLY <2>2, <2>3
    <3> QED BY ONLY <3>1, <3>2, Times
  <2>5. PICK a : a = ((e + Unit \div 2) * p) \div Unit
    OBVIOUS
  <2>6. a \in Int
    BY ONLY <2>2, <2>4, <2>5
  <2>7. want = Within(a, 0, p - 1)
    BY ONLY <2>3, <2>5 DEF want
  <2>8. p \in Int
    BY ONLY <2>2, <2>3
  <2> QED BY ONLY <2>6, <2>7, <2>8 DEF Within, Most, Least
<1> HIDE DEF bits, want
<1>4. IsWriter(d.rc) /\ d.value = want
  <2>1. IsWriter(s.rc)
    BY ONLY IsRefined(s) DEF IsRefined
  <2> QED BY ONLY <2>1, WriterStays DEF d
<1> HIDE DEF d
<1>5. FineOffset(d.value, bits) \in Int
  BY ONLY <1>2, <1>3, <1>4, Offsets
<1>6. IsRefined(Refine(s, at, d.rc, FineOffset(d.value, bits)))
  BY <1>4, <1>5, RefineKeeps
<1> QED BY ONLY <1>1, <1>6, IsRefined(s)

\* and so do those of every band of each channel.
LEMMA FineEnds ==
  ASSUME NEW g, IsGeometry(g), NEW st, IsRefined(st), NEW fine \in [0..NB - 1 -> 0..8]
  PROVE  IsRefined(CodeFine(g, st, fine))
<1>1. PICK seq : seq = BandsOf(g)
  OBVIOUS
<1>2. CodeFine(g, st, fine) = FineEnd(fine, st, seq)
  <2>1. CodeFine(g, st, fine) = FineEnd(fine, st, BandsOf(g))
    BY ONLY Zenon DEF CodeFine, FineEnd
  <2> QED BY ONLY <1>1, <2>1
<1>3. /\ Len(seq) \in Nat
      /\ \A k \in 1..Len(seq) : seq[k][1] \in 0..NB - 1 /\ seq[k][2] \in 0..1
  BY ONLY <1>1, IsGeometry(g), BandsOfAre
<1>4. PICK run : /\ run[0] = st /\ \A k \in 1..Len(seq) : run[k] = FineStep(fine, run[k - 1], seq[k])
                 /\ FineEnd(fine, st, seq) = run[Len(seq)]
  BY ONLY <1>3, FineLoop
<1> DEFINE T == {k \in Nat : IsRefined(run[k])}
<1>5. 0 \in T
  BY ONLY <1>4, IsRefined(st)
<1>6. ASSUME NEW k \in 0..Len(seq) - 1, k \in T PROVE k + 1 \in T
  <2>1. k + 1 \in 1..Len(seq) /\ (k + 1) - 1 = k /\ k + 1 \in Nat
    BY ONLY <1>3, k \in 0..Len(seq) - 1
  <2>2. run[k + 1] = FineStep(fine, run[k], seq[k + 1])
    BY ONLY <2>1, <1>4, ZenonT(30)
  <2>3. IsRefined(FineStep(fine, run[k], seq[k + 1]))
    <3>1. seq[k + 1][1] \in 0..NB - 1 /\ seq[k + 1][2] \in 0..1
      BY ONLY <2>1, <1>3
    <3> QED BY ONLY <1>6, <3>1, FineKeeps, fine \in [0..NB - 1 -> 0..8]
  <2> QED BY ONLY <2>1, <2>2, <2>3
<1>7. 0..Len(seq) \subseteq T
  <2> HIDE DEF T
  <2> QED BY ONLY <1>3, <1>5, <1>6, InductionTo
<1>8. IsRefined(run[Len(seq)])
  BY ONLY <1>3, <1>7
<1> QED BY ONLY <1>2, <1>4, <1>8, Zenon

\* So does a bit that was left over, in a channel,
LEMMA BitKeeps ==
  ASSUME NEW s, IsRefined(s), NEW band \in 0..NB - 1, NEW c \in 0..1,
         NEW fine \in [0..NB - 1 -> 0..8]
  PROVE  IsRefined(FinalBit(fine, s, <<band, c>>))
<1> DEFINE bit == IF s.error[c][band] < 0 THEN 0 ELSE 1
           d == Code(s.rc, "raw", 1, bit)
           off == FinalOffset(d.value, fine[band])
           r == Refine(s, <<band, c>>, d.rc, off)
<1>1. FinalBit(fine, s, <<band, c>>) = [r EXCEPT !.left = @ - 1]
  <2> DEFINE at == <<band, c>>
  <2>1. at[1] = band /\ at[2] = c
    OBVIOUS
  <2>2. FinalBit(fine, s, at)
          = LET b == IF s.error[at[2]][at[1]] < 0 THEN 0 ELSE 1
                e == Code(s.rc, "raw", 1, b)
            IN  [Refine(s, at, e.rc, FinalOffset(e.value, fine[at[1]])) EXCEPT !.left = @ - 1]
    BY ONLY ZenonT(30) DEF FinalBit
  <2>3. bit = IF s.error[at[2]][at[1]] < 0 THEN 0 ELSE 1
    BY ONLY <2>1, Zenon DEF bit
  <2> QED BY ONLY <2>1, <2>2, <2>3, Zenon DEF r, off, d
<1>2. bit \in Int
  OBVIOUS
<1> HIDE DEF bit
<1>3. IsWriter(d.rc) /\ d.value = bit
  <2>1. IsWriter(s.rc)
    BY ONLY IsRefined(s) DEF IsRefined
  <2> QED BY ONLY <2>1, WriterStays DEF d
<1> HIDE DEF d
<1>4. off \in Int
  BY ONLY <1>2, <1>3, Offsets, fine \in [0..NB - 1 -> 0..8], band \in 0..NB - 1 DEF off
<1> HIDE DEF off
<1>5. IsRefined(r)
  <2>1. PICK at : at = <<band, c>>
    OBVIOUS
  <2>2. at[1] \in 0..NB - 1 /\ at[2] \in 0..1
    BY ONLY <2>1, band \in 0..NB - 1, c \in 0..1
  <2>3. IsRefined(Refine(s, at, d.rc, off))
    BY ONLY <2>2, <1>3, <1>4, IsRefined(s), RefineKeeps
  <2> QED BY ONLY <2>1, <2>3, Zenon DEF r
<1> HIDE DEF r
<1>6. IsRefined([r EXCEPT !.left = @ - 1])
  BY ONLY <1>5, ZenonT(30) DEF IsRefined
<1> QED BY ONLY <1>1, <1>6

\* in each channel of a band,
LEMMA BitsKeep ==
  ASSUME NEW s, IsRefined(s), NEW band \in 0..NB - 1, NEW n \in 1..2,
         NEW fine \in [0..NB - 1 -> 0..8]
  PROVE  IsRefined(BitEnd(fine, band, s, Upto(0, n)))
<1>1. PICK seq : seq = Upto(0, n)
  OBVIOUS
<1>2. Len(seq) = n /\ \A k \in 1..n : seq[k] \in 0..1
  <2>1. Upto(0, n) = [k \in 1..Most(n - 0, 0) |-> 0 + k - 1]
    BY ONLY Zenon DEF Upto
  <2>2. Most(n - 0, 0) = n
    BY DEF Most
  <2>3. seq = [k \in 1..n |-> 0 + k - 1]
    BY ONLY <1>1, <2>1, <2>2
  <2> QED BY ONLY <2>3, n \in 1..2
<1>3. n \in Nat
  OBVIOUS
<1>4. PICK run : /\ run[0] = s
                 /\ \A k \in 1..n : run[k] = FinalBit(fine, run[k - 1], <<band, seq[k]>>)
                 /\ BitEnd(fine, band, s, seq) = run[n]
  <2>1. Len(seq) \in Nat
    BY ONLY <1>2, <1>3
  <2>2. \E f : /\ f[0] = s /\ \A k \in 1..Len(seq) : f[k] = FinalBit(fine, f[k - 1], <<band, seq[k]>>)
               /\ BitEnd(fine, band, s, seq) = f[Len(seq)]
    BY ONLY <2>1, BitLoop
  <2> QED BY ONLY <1>2, <2>2
<1> DEFINE T == {k \in Nat : IsRefined(run[k])}
<1>5. 0 \in T
  BY ONLY <1>4, IsRefined(s)
<1>6. ASSUME NEW k \in 0..n - 1, k \in T PROVE k + 1 \in T
  <2>1. k + 1 \in 1..n /\ (k + 1) - 1 = k /\ k + 1 \in Nat
    BY ONLY <1>3, k \in 0..n - 1
  <2>2. run[k + 1] = FinalBit(fine, run[k], <<band, seq[k + 1]>>)
    BY ONLY <2>1, <1>4, ZenonT(30)
  <2>3. seq[k + 1] \in 0..1
    BY ONLY <2>1, <1>2
  <2>4. IsRefined(FinalBit(fine, run[k], <<band, seq[k + 1]>>))
    <3>1. PICK c : c = seq[k + 1]
      OBVIOUS
    <3>2. IsRefined(FinalBit(fine, run[k], <<band, c>>))
      BY ONLY <1>6, <2>3, <3>1, BitKeeps, fine \in [0..NB - 1 -> 0..8], band \in 0..NB - 1
    <3> QED BY ONLY <3>1, <3>2, Zenon
  <2> QED BY ONLY <2>1, <2>2, <2>4, Zenon
<1>7. 0..n \subseteq T
  <2> HIDE DEF T
  <2> QED BY ONLY <1>3, <1>5, <1>6, InductionTo
<1>8. IsRefined(run[n])
  BY ONLY <1>3, <1>7
<1> QED BY ONLY <1>1, <1>4, <1>8, Zenon

\* in a band of the priority,
LEMMA FinalKeeps ==
  ASSUME NEW g, IsGeometry(g), NEW s, IsRefined(s), NEW at, at[2] \in 0..NB - 1,
         NEW fine \in [0..NB - 1 -> 0..8], NEW priority
  PROVE  IsRefined(FinalStep(g, fine, priority, s, at))
<1>1. PICK band : band = at[2]
  OBVIOUS
<1>2. FinalStep(g, fine, priority, s, at) = s
      \/ FinalStep(g, fine, priority, s, at) = BitEnd(fine, at[2], s, Upto(0, g.c))
  BY ONLY ZenonT(30) DEF FinalStep, BitEnd
<1>3. g.c \in 1..2
  <2>1. g.c \in {1, 2}
    BY GeometryFacts
  <2> QED BY ONLY <2>1
<1>4. PICK n : n = g.c
  OBVIOUS
<1>5. IsRefined(BitEnd(fine, band, s, Upto(0, n)))
  BY ONLY <1>1, <1>3, <1>4, IsRefined(s), at[2] \in 0..NB - 1, fine \in [0..NB - 1 -> 0..8], BitsKeep
<1> QED BY ONLY <1>1, <1>2, <1>4, <1>5, IsRefined(s), Zenon

\* and in all bands of both priorities.
LEMMA FinalEnds ==
  ASSUME NEW g, IsGeometry(g), NEW st, IsRefined(st), NEW fine \in [0..NB - 1 -> 0..8], NEW priority,
         NEW left
  PROVE  FinaliseEnergy(g, st, fine, priority, left).old \in AllEnergies
<1> DEFINE n == g.end - g.start
           base == [rc |-> st.rc, old |-> st.old, error |-> st.error, left |-> left]
           seq == [k \in 1..2 * n |-> <<(k - 1) \div n, g.start + ((k - 1) % n)>>]
<1>1. FinaliseEnergy(g, st, fine, priority, left).old = FinalEnd(g, fine, priority, base, seq).old
  <2>1. LET end == FinalEnd(g, fine, priority, base, seq)
        IN  FinaliseEnergy(g, st, fine, priority, left) = [rc |-> end.rc, old |-> end.old, error |-> end.error]
    BY ONLY ZenonT(60) DEF FinaliseEnergy, FinalEnd, base, seq, n
  <2> HIDE DEF base, seq
  <2> QED BY ONLY <2>1
<1>2. IsRefined(base)
  BY ONLY IsRefined(st) DEF base, IsRefined
<1> HIDE DEF base
<1>3. n \in Nat \ {0} /\ g.start \in Nat /\ \A i \in g.start..g.end - 1 : i \in 0..NB - 1
  <2>1. g.start \in Nat /\ g.end \in 1..NB /\ g.start < g.end /\ NB \in 1..23
    BY GeometryFacts, Table
  <2> QED BY ONLY <2>1
<1>4. Len(seq) \in Nat /\ \A k \in 1..Len(seq) : seq[k][2] \in 0..NB - 1
  <2>1. PICK m, top : m = n /\ top = 2 * n
    OBVIOUS
  <2>2. m \in Nat \ {0} /\ top \in Nat /\ top = 2 * m
    BY ONLY <1>3, <2>1
  <2>3. seq = [k \in 1..top |-> <<(k - 1) \div m, g.start + ((k - 1) % m)>>]
    BY ONLY <2>1 DEF seq
  <2>4. Len(seq) = top
    BY ONLY <1>3, <2>1, <2>2, <2>3
  <2>5. \A k \in 1..top : g.start + ((k - 1) % m) \in 0..NB - 1
    <3> TAKE k \in 1..top
    <3>1. (k - 1) % m \in 0..m - 1
      BY ONLY <2>2, k \in 1..top
    <3>2. m = g.end - g.start /\ g.start \in Nat
      BY ONLY <1>3, <2>1 DEF n
    <3>3. g.end \in Nat
      BY GeometryFacts
    <3>4. g.start + ((k - 1) % m) \in g.start..g.end - 1
      BY ONLY <3>1, <3>2, <3>3
    <3> QED BY ONLY <1>3, <3>4
  <2>6. \A k \in 1..top : seq[k][2] = g.start + ((k - 1) % m)
    BY ONLY <2>3
  <2> QED BY ONLY <2>2, <2>4, <2>5, <2>6
<1> HIDE DEF seq, n
<1>5. PICK run : /\ run[0] = base
                 /\ \A k \in 1..Len(seq) : run[k] = FinalStep(g, fine, priority, run[k - 1], seq[k])
                 /\ FinalEnd(g, fine, priority, base, seq) = run[Len(seq)]
  BY ONLY <1>4, FinalLoop
<1> DEFINE T == {k \in Nat : IsRefined(run[k])}
<1>6. 0 \in T
  BY ONLY <1>2, <1>5
<1>7. ASSUME NEW k \in 0..Len(seq) - 1, k \in T PROVE k + 1 \in T
  <2>1. k + 1 \in 1..Len(seq) /\ (k + 1) - 1 = k /\ k + 1 \in Nat
    BY ONLY <1>4, k \in 0..Len(seq) - 1
  <2>2. run[k + 1] = FinalStep(g, fine, priority, run[k], seq[k + 1])
    BY ONLY <2>1, <1>5, ZenonT(30)
  <2>3. IsRefined(FinalStep(g, fine, priority, run[k], seq[k + 1]))
    <3>1. seq[k + 1][2] \in 0..NB - 1
      BY ONLY <2>1, <1>4
    <3> QED BY ONLY <1>7, <3>1, FinalKeeps, IsGeometry(g), fine \in [0..NB - 1 -> 0..8]
  <2> QED BY ONLY <2>1, <2>2, <2>3
<1>8. 0..Len(seq) \subseteq T
  <2> HIDE DEF T
  <2> QED BY ONLY <1>4, <1>6, <1>7, InductionTo
<1>9. IsRefined(run[Len(seq)])
  BY ONLY <1>4, <1>8
<1> QED BY ONLY <1>1, <1>5, <1>9, Zenon DEF IsRefined

-----------------------------------------------------------------------------
(* A frame.                                                                  *)
\* Fine bits, bands and the bits left over leave energies to the next frame.
LEMMA LayersKeep ==
  ASSUME NEW x \in Inputs, channels \in {1, 2}, NEW front,
         front.energy.old \in AllEnergies, front.energy.error \in AllEnergies,
         NEW a, IsWriter(a.alloc.rc), a.alloc.fine \in [0..NB - 1 -> 0..8]
  PROVE  Layers(x, front, a).old \in AllEnergies
<1> DEFINE g == Geometry(x, channels)
           st == [rc |-> a.alloc.rc, old |-> front.energy.old, error |-> front.energy.error]
           fine == CodeFine(g, st, a.alloc.fine)
           rc1 == QuantAllBands(g, fine.rc, a.alloc, front.tf, front.short, front.spread,
                                64 * a.alloc.rc.storage - a.rsv,
                                x.complexity >= 8 /\ channels = 2 /\ ~a.alloc.dual, TRUE).rc
           rc2 == IF a.rsv > 0 THEN Code(rc1, "raw", 1, IF enc.consec < 2 THEN 1 ELSE 0).rc ELSE rc1
           left == 8 * rc2.storage - Tell(rc2)
           last == [fine EXCEPT !.rc = rc2]
<1>1. Layers(x, front, a) = FinaliseEnergy(g, last, a.alloc.fine, a.alloc.priority, left)
  BY ONLY ZenonT(90) DEF Layers, g, st, fine, rc1, rc2, left, last
<1>2. IsGeometry(g)
  BY DEF IsGeometry
<1> HIDE DEF g
<1>3. IsRefined(fine)
  <2>1. IsRefined(st)
    BY ONLY IsWriter(a.alloc.rc), front.energy.old \in AllEnergies, front.energy.error \in AllEnergies
       DEF IsRefined, st
  <2> HIDE DEF st
  <2> QED BY ONLY <1>2, <2>1, a.alloc.fine \in [0..NB - 1 -> 0..8], FineEnds DEF fine
<1> HIDE DEF fine
<1>4. IsWriter(rc1)
  <2>1. IsWriter(fine.rc)
    BY ONLY <1>3 DEF IsRefined
  <2>2. ASSUME NEW total, NEW resynth
        PROVE IsWriter(QuantAllBands(g, fine.rc, a.alloc, front.tf, front.short, front.spread, total, resynth, TRUE).rc)
    BY ONLY <1>2, <2>1, BandsStay
  <2> QED BY ONLY <2>2, Zenon DEF rc1
<1> HIDE DEF rc1
<1>5. IsWriter(rc2)
  <2>1. ASSUME NEW v PROVE IsWriter(Code(rc1, "raw", 1, v).rc)
    BY ONLY <1>4, WriterStays
  <2> QED BY ONLY <1>4, <2>1, Zenon DEF rc2
<1> HIDE DEF rc2, left
<1>6. IsRefined(last)
  BY ONLY <1>3, <1>5, ZenonT(30) DEF IsRefined, last
<1> HIDE DEF last
<1>7. FinaliseEnergy(g, last, a.alloc.fine, a.alloc.priority, left).old \in AllEnergies
  BY ONLY <1>2, <1>6, a.alloc.fine \in [0..NB - 1 -> 0..8], FinalEnds
<1> QED BY ONLY <1>1, <1>7, Zenon

\* What a packet begins with, and its size.
LEMMA Opens ==
  ASSUME NEW x \in Inputs, enc.reservoir \in Nat
  PROVE  LET open == Opening(x)
         IN  /\ open.rc.storage \in Int /\ open.rc \in Writers(open.rc.storage) /\ open.told \in Int
             /\ Constrained(x) /\ ~open.silence =>
                  open.rc.storage <= Most(2, (2 * x.rate - enc.reservoir) \div 64)
<1> DEFINE rc0 == [Writer(x.bytes, x.seed) EXCEPT !.used = @ + 64 * x.before]
           first == Tell(rc0) = 1
           filled == (Tell(rc0) + 4) \div 8
           silence == first /\ x.silent
           rc1 == IF first THEN Flag(rc0, 15, silence).rc ELSE rc0
           size1 == IF silence /\ x.vbr THEN Least(x.bytes, filled + 2) ELSE x.bytes
           rc2 == IF silence THEN ReadAll(rc1, 8 * size1) ELSE rc1
           allowed == Most(IF first THEN 2 ELSE 0, (2 * x.rate - enc.reservoir) \div 64)
           size2 == IF Constrained(x) THEN Least(size1, filled + allowed) ELSE size1
           open == Opening(x)
<1>1. open = [rc |-> Resize(rc2, size2), silence |-> silence, told |-> TellFrac(rc0)]
  BY ONLY ZenonT(60) DEF Opening, open, rc0, first, filled, silence, rc1, size1, rc2, allowed, size2
<1>2. /\ x.bytes \in Nat /\ x.before \in Nat /\ x.seed \in Nat /\ x.rate \in Nat
      /\ x.vbr /\ x.start = 0 => x.before = 0
  BY InputShape, RatesAreEnough
<1> HIDE DEF open
<1>3. rc0 \in Coders(TRUE, Simple, x.bytes) /\ rc0.used = 8 + 64 * x.before
  <2>1. PICK u, r : u = 8 + 64 * x.before /\ r = Writer(x.bytes, x.seed)
    OBVIOUS
  <2>2. u \in Int
    BY ONLY <1>2, <2>1
  <2>3. r \in Coders(TRUE, Simple, x.bytes) /\ r.used = 8
    <3>1. <<>> \in Seq(Simple)
      OBVIOUS
    <3>2. x.bytes \in {x.bytes} /\ x.seed \in Nat
      BY ONLY <1>2
    <3>3. r = [writing |-> TRUE, symbols |-> <<>>, at |-> 0, used |-> 8, storage |-> x.bytes,
               seed |-> x.seed, lost |-> FALSE]
      BY ONLY <2>1 DEF Writer
    <3> QED BY ONLY <3>1, <3>2, <3>3 DEF Coders
  <2>4. [r EXCEPT !.used = u] \in Coders(TRUE, Simple, x.bytes) /\ [r EXCEPT !.used = u].used = u
    <3>1. [r EXCEPT !.used = u] \in Coders(TRUE, Simple, x.bytes)
      BY ONLY <2>2, <2>3, CoderSets
    <3>2. [r EXCEPT !.used = u].used = u
      BY ONLY <2>2, <2>3 DEF Coders
    <3> QED BY ONLY <3>1, <3>2
  <2>5. rc0 = [r EXCEPT !.used = @ + 64 * x.before]
    BY ONLY <2>1 DEF rc0
  <2>6. rc0 = [r EXCEPT !.used = u]
    <3>1. r.used + 64 * x.before = u
      BY ONLY <2>1, <2>3
    <3> HIDE DEF rc0
    <3> QED BY ONLY <2>5, <3>1
  <2> HIDE DEF rc0
  <2> QED BY ONLY <2>1, <2>4, <2>6
<1> HIDE DEF rc0
<1>4. Tell(rc0) = (15 + 64 * x.before) \div 8 /\ filled \in Int
  BY ONLY <1>2, <1>3 DEF Tell, filled
<1>4a. TellFrac(rc0) \in Int
  BY ONLY <1>2, <1>3 DEF TellFrac
<1> HIDE DEF first
<1>5. rc1 \in Coders(TRUE, Simple, x.bytes)
  <2>1. ASSUME NEW on PROVE Flag(rc0, 15, on).rc \in Coders(TRUE, Simple, x.bytes)
    <3>1. rc0 \in Writers(x.bytes)
      BY ONLY <1>3 DEF Writers
    <3>2. \A p \in Int : \A o : Flag(rc0, p, o).rc \in Writers(x.bytes)
      BY ONLY <3>1, WriterKeeps
    <3> QED BY ONLY <3>2, 15 \in Int DEF Writers
  <2> QED BY ONLY <1>3, <2>1, Zenon DEF rc1
<1> HIDE DEF rc1, filled, silence
<1>6. size1 \in Int
  BY ONLY <1>2, <1>4 DEF size1, Least
<1> HIDE DEF size1
<1>7. rc2 \in Coders(TRUE, Simple, x.bytes)
  <2>1. PICK u : u = rc1.used + 8 * (8 * size1 - Tell(rc1))
    OBVIOUS
  <2>2. rc1.used \in Int
    BY ONLY <1>5 DEF Coders
  <2>3. u \in Int
    BY ONLY <1>6, <2>1, <2>2 DEF Tell
  <2>4. [rc1 EXCEPT !.used = u] \in Coders(TRUE, Simple, x.bytes)
    BY ONLY <1>5, <2>3, CoderSets
  <2>5. ReadAll(rc1, 8 * size1) = [rc1 EXCEPT !.used = u]
    BY ONLY <1>5, <2>1 DEF ReadAll, Coders
  <2> QED BY ONLY <1>5, <2>4, <2>5 DEF rc2
<1> HIDE DEF rc2
<1>8. allowed \in Int /\ allowed <= Most(2, (2 * x.rate - enc.reservoir) \div 64)
  BY ONLY <1>2, enc.reservoir \in Nat DEF Most, allowed
<1> HIDE DEF allowed
<1>9. size2 \in Int /\ (Constrained(x) => size2 <= filled + allowed)
  BY ONLY <1>4, <1>6, <1>8 DEF size2, Least
<1> HIDE DEF size2
<1>10. open.rc \in Coders(TRUE, Simple, size2) /\ open.rc.storage = size2
  <2>1. Resize(rc2, size2) \in Coders(TRUE, Simple, size2)
    BY ONLY <1>7, CoderSets DEF Resize
  <2>2. Resize(rc2, size2).storage = size2
    BY ONLY <2>1 DEF Coders
  <2> QED BY ONLY <1>1, <2>1, <2>2
<1>11. Constrained(x) => filled = 0
  BY ONLY <1>2, <1>4 DEF Constrained, filled
<1>12. Constrained(x) => size2 <= allowed
  BY ONLY <1>4, <1>8, <1>9, <1>11
<1>13. Most(2, (2 * x.rate - enc.reservoir) \div 64) \in Int
  BY ONLY <1>2, enc.reservoir \in Nat DEF Most
<1>14. Constrained(x) => size2 <= Most(2, (2 * x.rate - enc.reservoir) \div 64)
  BY ONLY <1>8, <1>9, <1>12, <1>13
<1>15. open.told \in Int
  BY ONLY <1>1, <1>4a
<1> QED BY ONLY <1>9, <1>10, <1>14, <1>15 DEF Writers, open

\* Where a frame's bits go.
LEMMA AllocationKeeps ==
  ASSUME NEW x \in Inputs, channels \in {1, 2}, NEW front, NEW S \in Int, Fronts(front, S), NEW size \in Int
  PROVE  /\ IsWriter(Allocate(x, front, size).alloc.rc)
         /\ Allocate(x, front, size).alloc.fine \in [0..NB - 1 -> 0..8]
<1> DEFINE g == Geometry(x, channels)
           rc == Resize(front.rc, size)
           rsv == AntiCollapse(x.transient, x.lm, rc)
           bits == 64 * size - TellFrac(rc) - 1 - rsv
           alloc == ComputeAllocation(g, front.boosts.offsets, front.trim, x.intensity, x.dual, bits, rc)
<1>1. Allocate(x, front, size) = [rsv |-> rsv, alloc |-> alloc]
  BY ONLY Zenon DEF Allocate, alloc, bits, rsv, rc, g
<1>2. IsGeometry(g) /\ x.intensity \in Int
  BY InputShape DEF IsGeometry
<1> HIDE DEF g
<1>3. front.rc \in Coders(TRUE, Simple, S) /\ front.boosts.offsets \in Amounts /\ front.trim \in Int
  BY ONLY Fronts(front, S) DEF Fronts, Writers
<1>4. rc \in Coders(TRUE, Simple, size)
  BY ONLY <1>3, CoderSets DEF Resize, rc
<1> HIDE DEF rc
<1>5. bits \in Int
  <2>1. TellFrac(rc) \in Int
    BY ONLY <1>4, CoderIs
  <2>2. rsv \in Int
    BY ONLY DEF rsv, AntiCollapse
  <2> HIDE DEF rsv
  <2> QED BY ONLY <2>1, <2>2, size \in Int
<1> HIDE DEF rsv, bits
<1>6. alloc.rc \in Coders(TRUE, Simple, size) /\ alloc.fine \in [0..NB - 1 -> 0..8]
  BY ONLY <1>2, <1>3, <1>4, <1>5, TRUE \in BOOLEAN, SimpleReads, Allocates DEF alloc
<1> HIDE DEF alloc
<1>7. IsWriter(alloc.rc)
  BY ONLY <1>6 DEF IsWriter, Coders
<1> QED BY ONLY <1>1, <1>6, <1>7

\* The size of a frame and what it does to the reservoir.
LEMMA SizeSettles ==
  ASSUME NEW x \in Inputs, enc.reservoir \in Nat, NEW open, open.told \in Int,
         NEW front, NEW S \in Int, Fronts(front, S),
         Constrained(x) /\ ~open.silence => S <= Most(2, (2 * x.rate - enc.reservoir) \div 64)
  PROVE  LET s == Settled(x, open, front)
         IN  /\ s.size \in Int /\ s.reservoir \in Nat
             /\ ~Constrained(x) => s.reservoir = enc.reservoir
             /\ Constrained(x) =>
                  /\ enc.reservoir + 64 * s.size - x.rate <= s.reservoir
                  /\ s.reservoir <= enc.reservoir \/ s.reservoir <= x.rate
<1> DEFINE most == front.rc.storage
           target == x.target + TellFrac(front.rc)
           least == MinAllowed(x, open, front)
           asked == IF target + 32 < 0 THEN most ELSE Least(most, Most((target + 32) \div 64, least))
           size == IF open.silence THEN 2 ELSE asked
           level == enc.reservoir + 64 * size - x.rate
           more == IF level < 0 /\ ~open.silence THEN (-level) \div 64 ELSE 0
           s == Settled(x, open, front)
<1>1. s = IF ~x.vbr THEN [size |-> most, reservoir |-> enc.reservoir]
          ELSE IF Constrained(x) THEN [size |-> Least(most, size + more), reservoir |-> Most(0, level)]
          ELSE [size |-> Least(most, size), reservoir |-> enc.reservoir]
  BY ONLY ZenonT(60) DEF Settled, s, most, target, least, asked, size, level, more
<1> HIDE DEF s
<1>2. x.rate \in Nat /\ x.target \in Int
  BY ONLY InputShape, x \in Inputs
<1>3. most = S /\ TellFrac(front.rc) \in Int /\ front.boosts.total \in Nat
  <2>1. front.rc \in Writers(S) /\ front.boosts.total \in Nat
    BY ONLY Fronts(front, S) DEF Fronts
  <2> QED BY ONLY <2>1, WriterKeeps DEF most
<1> HIDE DEF most
<1>4. target \in Int
  BY ONLY <1>2, <1>3 DEF target
<1> HIDE DEF target
<1>5. least \in Int
  <2>1. PICK t, b, o, h : t = TellFrac(front.rc) /\ b = front.boosts.total /\ o = open.told /\ h = HybridBits
    OBVIOUS
  <2>2. t \in Int /\ b \in Int /\ o \in Int /\ h \in Int
    BY ONLY <1>3, <2>1, open.told \in Int, HybridFloor
  <2>3. least = IF x.start # 0
                THEN Most((t + b + 63) \div 64 + 2, (o + 8 * h + b + 63) \div 64)
                ELSE (t + b + 63) \div 64 + 2
    BY ONLY <2>1, Zenon DEF least, MinAllowed
  <2> HIDE DEF least
  <2> QED BY ONLY <2>2, <2>3 DEF Most
<1> HIDE DEF least
<1>6. asked \in Int /\ asked <= S
  BY ONLY <1>3, <1>4, <1>5, S \in Int DEF asked, Least, Most
<1> HIDE DEF asked
<1>7. size \in Int /\ (open.silence => size = 2) /\ (~open.silence => size <= S)
  BY ONLY <1>6 DEF size
<1> HIDE DEF size
<1>8. level \in Int
  BY ONLY <1>2, <1>7, enc.reservoir \in Nat
<1>9. more \in Nat /\ (more = 0 \/ level + 64 * more <= 0)
  <2> HIDE DEF level
  <2> QED BY ONLY <1>8 DEF more
<1>10. s.size \in Int /\ s.reservoir \in Nat /\ (~Constrained(x) => s.reservoir = enc.reservoir)
  <2> HIDE DEF level, more
  <2>1. Least(most, size + more) \in Int /\ Least(most, size) \in Int /\ Most(0, level) \in Nat
    BY ONLY <1>3, <1>7, <1>8, <1>9, S \in Int DEF Least, Most
  <2>2. most \in Int
    BY ONLY <1>3, S \in Int
  <2>3. Constrained(x) => x.vbr
    BY ONLY DEF Constrained
  <2> QED BY ONLY <1>1, <2>1, <2>2, <2>3, enc.reservoir \in Nat
<1>11. ASSUME Constrained(x)
       PROVE  /\ enc.reservoir + 64 * s.size - x.rate <= s.reservoir
              /\ s.reservoir <= enc.reservoir \/ s.reservoir <= x.rate
  <2>1. s.size = Least(most, size + more) /\ s.reservoir = Most(0, level)
    <3>1. x.vbr
      BY ONLY <1>11 DEF Constrained
    <3> HIDE DEF level, more
    <3> QED BY ONLY <1>1, <1>11, <3>1
  <2>2. PICK R, r, n, k, l, m : /\ R = enc.reservoir /\ r = x.rate /\ n = size /\ k = more /\ l = level
                                /\ m = s.size
    OBVIOUS
  <2>3. /\ R \in Nat /\ r \in Nat /\ n \in Int /\ k \in Nat /\ l \in Int /\ m \in Int
        /\ l = R + 64 * n - r /\ (k = 0 \/ l + 64 * k <= 0)
        /\ m <= n + k
    <3>1. R \in Nat /\ r \in Nat /\ n \in Int /\ l \in Int
      <4> HIDE DEF level, more
      <4> QED BY ONLY <1>2, <1>7, <1>8, <2>2, enc.reservoir \in Nat
    <3>2. l = R + 64 * n - r
      BY ONLY <2>2
    <3> HIDE DEF level, more
    <3>3. k \in Nat /\ (k = 0 \/ l + 64 * k <= 0)
      BY ONLY <1>9, <2>2
    <3>4. m \in Int /\ m <= n + k
      BY ONLY <1>3, <1>7, <1>9, <2>1, <2>2, S \in Int DEF Least
    <3> QED BY ONLY <3>1, <3>2, <3>3, <3>4
  <2> HIDE DEF level, more
  <2>4. R + 64 * m - r <= Most(0, l)
    BY ONLY <2>3 DEF Most
  <2>5. Most(0, l) <= R \/ Most(0, l) <= r
    <3>1. r >= 192
      BY ONLY <1>11, <2>2, RatesAreEnough, x \in Inputs DEF Constrained
    <3>2. n <= Most(2, (2 * r - R) \div 64)
      <4>1. CASE open.silence
        BY ONLY <4>1, <1>7, <2>2, <2>3 DEF Most
      <4>2. CASE ~open.silence
        <5>1. S <= Most(2, (2 * r - R) \div 64)
          BY ONLY <4>2, <1>11, <2>2, Constrained(x) /\ ~open.silence => S <= Most(2, (2 * x.rate - enc.reservoir) \div 64)
        <5>2. n <= S
          BY ONLY <4>2, <1>7, <2>2
        <5> QED BY ONLY <5>1, <5>2, <2>3, S \in Int DEF Most
      <4> QED BY ONLY <4>1, <4>2
    <3>3. n <= 2 \/ 64 * n <= 2 * r - R
      BY ONLY <2>3, <3>2 DEF Most
    <3> QED BY ONLY <2>3, <3>1, <3>3 DEF Most
  <2> QED BY ONLY <2>1, <2>2, <2>4, <2>5
<1>12. Constrained(x) => /\ enc.reservoir + 64 * s.size - x.rate <= s.reservoir
                         /\ s.reservoir <= enc.reservoir \/ s.reservoir <= x.rate
  BY ONLY <1>11
<1>13. s = Settled(x, open, front)
  BY ONLY DEF s
<1> QED BY ONLY <1>10, <1>12, <1>13

EncoderState == {"old", "delayed", "tapset", "pf", "consec", "reservoir"}
\* An encoder has its state, and a frame changes all of it.
Changed(e, o, d, t, p, n, r) ==
  [e EXCEPT !.old = o, !.delayed = d, !.tapset = t, !.pf = p, !.consec = n, !.reservoir = r]
LEMMA EncoderChanges ==
  ASSUME NEW e, e = [f \in EncoderState |-> e[f]], NEW o, NEW d, NEW t, NEW p, NEW n, NEW r
  PROVE  LET e2 == Changed(e, o, d, t, p, n, r)
         IN  /\ e2.old = o /\ e2.tapset = t /\ e2.reservoir = r
             /\ e2 = [f \in EncoderState |-> e2[f]]
<1>1. Changed(e, o, d, t, p, n, r)
      = [f \in EncoderState |-> IF f = "reservoir" THEN r ELSE IF f = "consec" THEN n
           ELSE IF f = "pf" THEN p ELSE IF f = "tapset" THEN t ELSE IF f = "delayed" THEN d ELSE o]
  <2>1. DOMAIN e = EncoderState
    OBVIOUS
  <2> QED BY <2>1 DEF EncoderState, Changed
<1> QED BY <1>1 DEF EncoderState

\* A new encoder is one.
LEMMA EncoderStarts == EncoderInv(NewEncoder) /\ NewEncoder = [f \in EncoderState |-> NewEncoder[f]]
<1>1. Energies(0) \in AllEnergies
  BY DEF Energies, AllEnergies
<1>2. NewEncoder.old = Energies(0) /\ NewEncoder.tapset = 0 /\ NewEncoder.reservoir = 0
  BY DEF NewEncoder
<1>3. EncoderInv(NewEncoder)
  BY ONLY <1>1, <1>2 DEF EncoderInv
<1>4. NewEncoder = [f \in EncoderState |-> NewEncoder[f]]
  BY DEF NewEncoder, EncoderState
<1> QED BY <1>3, <1>4

\* The inductive invariant: the encoder's energies are numbers, and so is
\* what its rate is counted in, and the rate is kept.
RateInv ==
  /\ channels \in {1, 2} /\ spent \in Int
  /\ EncoderInv(enc) /\ enc = [f \in EncoderState |-> enc[f]]
  /\ RateIsKept

\* A stream starts with nothing spent.
LEMMA RateStarts == Init => RateInv
<1> SUFFICES ASSUME Init PROVE RateInv
  OBVIOUS
<1>1. channels \in {1, 2} /\ spent = 0 /\ enc = NewEncoder
  BY DEF Init
<1>2. EncoderInv(enc) /\ enc = [f \in EncoderState |-> enc[f]]
  BY ONLY <1>1, EncoderStarts
<1>3. enc.reservoir = 0
  BY ONLY <1>1 DEF NewEncoder
<1>4. PICK x \in Inputs : TRUE
  BY InputShape
<1>5. x.rate \in Nat
  BY InputShape
<1>6. enc.reservoir <= Most(x.rate, 128)
  BY ONLY <1>3, <1>5 DEF Most
<1>7. RateIsKept
  BY ONLY <1>1, <1>3, <1>4, <1>6 DEF RateIsKept
<1> QED BY ONLY <1>1, <1>2, <1>7 DEF RateInv

\* What coding a frame does.
Coded(x, open, front, sized, out) ==
  LET old == IF open.silence THEN Energies(Silent) ELSE out.old
  IN  /\ enc' = [enc EXCEPT !.old = old, !.delayed = front.energy.delayed,
                            !.tapset = front.tapset,
                            !.pf = [Prefilter(x) EXCEPT !.tapset = front.tapset],
                            !.consec = IF x.transient THEN Least(2, @ + 1) ELSE 0,
                            !.reservoir = sized.reservoir]
      /\ wire' = [g |-> Geometry(x, channels), before |-> x.before, bytes |-> sized.size,
                  symbols |-> out.rc.symbols, used |-> TellFrac(out.rc), old |-> old,
                  intra |-> front.energy.intra, fade |-> Fade(x),
                  amiss |-> Dropped(x) \/ Untold(x, open),
                  leaves |-> Untold(x, open) \/ Retapped(x, front.tapset)]
      /\ mode' = x.start
      /\ spent' = IF Constrained(x) THEN spent + 64 * sized.size - x.rate ELSE spent

\* The only step that counts is the encoder's.
LEMMA RateAfterEncode ==
  ASSUME RateInv, Encode
  PROVE  RateInv'
<1>1. PICK x \in {y \in Inputs : mode \in {None, y.start}} :
        \E open \in {Opening(x)} : \E front \in {CodeFront(x, open)} :
        \E sized \in {Settled(x, open, front)} : \E a \in {Allocate(x, front, sized.size)} :
        \E out \in {Layers(x, front, a)} : Coded(x, open, front, sized, out)
  BY ONLY Encode, Zenon DEF Encode, Coded
<1>2. x \in Inputs
  BY ONLY x \in {y \in Inputs : mode \in {None, y.start}}
<1>2a. PICK open, front, sized, a, out :
        /\ open = Opening(x) /\ front = CodeFront(x, open) /\ sized = Settled(x, open, front)
        /\ a = Allocate(x, front, sized.size) /\ out = Layers(x, front, a)
        /\ Coded(x, open, front, sized, out)
  BY ONLY <1>1, Zenon
<1> DEFINE S == open.rc.storage
           old == IF open.silence THEN Energies(Silent) ELSE out.old
<1>3. /\ channels \in {1, 2} /\ spent \in Int /\ EncoderInv(enc)
      /\ enc = [f \in EncoderState |-> enc[f]] /\ RateIsKept /\ enc.reservoir \in Nat
  BY ONLY RateInv DEF RateInv, EncoderInv
<1>4. /\ S \in Int /\ open.rc \in Writers(S) /\ open.told \in Int
      /\ Constrained(x) /\ ~open.silence => S <= Most(2, (2 * x.rate - enc.reservoir) \div 64)
  BY ONLY <1>2a, <1>2, <1>3, Opens
<1> HIDE DEF S
<1>5. Fronts(front, S)
  <2>1. Fronts(CodeFront(x, open), S)
    BY ONLY <1>2, <1>3, <1>4, FrontKeeps
  <2> QED BY ONLY <1>2a, <1>2, <2>1
<1>6. /\ sized.size \in Int /\ sized.reservoir \in Nat
      /\ ~Constrained(x) => sized.reservoir = enc.reservoir
      /\ Constrained(x) =>
           /\ enc.reservoir + 64 * sized.size - x.rate <= sized.reservoir
           /\ sized.reservoir <= enc.reservoir \/ sized.reservoir <= x.rate
  BY ONLY <1>2a, <1>2, <1>3, <1>4, <1>5, SizeSettles
<1>7. IsWriter(a.alloc.rc) /\ a.alloc.fine \in [0..NB - 1 -> 0..8]
  BY ONLY <1>2a, <1>2, <1>3, <1>4, <1>5, <1>6, AllocationKeeps
<1>8. old \in AllEnergies /\ front.tapset \in Int
  <2>1. front.energy.old \in AllEnergies /\ front.energy.error \in AllEnergies /\ front.tapset \in Int
    BY ONLY <1>5 DEF Fronts
  <2>2. Layers(x, front, a).old \in AllEnergies
    BY ONLY <1>2, <1>3, <1>7, <2>1, LayersKeep
  <2>3. Energies(Silent) \in AllEnergies
    <3>1. Silent \in Int
      BY WholeNumbers DEF Silent
    <3> QED BY ONLY <3>1 DEF Energies, AllEnergies
  <2> QED BY ONLY <1>2a, <1>2, <2>1, <2>2, <2>3
<1>9. /\ enc'.old = old /\ enc'.tapset = front.tapset /\ enc'.reservoir = sized.reservoir
      /\ enc' = [f \in EncoderState |-> enc'[f]]
  <2>1. enc' = [enc EXCEPT !.old = old, !.delayed = front.energy.delayed,
                           !.tapset = front.tapset,
                           !.pf = [Prefilter(x) EXCEPT !.tapset = front.tapset],
                           !.consec = IF x.transient THEN Least(2, @ + 1) ELSE 0,
                           !.reservoir = sized.reservoir]
    BY ONLY <1>2a, <1>2, Zenon DEF old, Coded
  <2>2. PICK c : c = IF x.transient THEN Least(2, enc.consec + 1) ELSE 0
    OBVIOUS
  <2>3. enc' = [enc EXCEPT !.old = old, !.delayed = front.energy.delayed,
                           !.tapset = front.tapset,
                           !.pf = [Prefilter(x) EXCEPT !.tapset = front.tapset],
                           !.consec = c,
                           !.reservoir = sized.reservoir]
    BY ONLY <2>1, <2>2, Zenon
  <2> HIDE DEF old
  <2>4. PICK d, p : d = front.energy.delayed /\ p = [Prefilter(x) EXCEPT !.tapset = front.tapset]
    OBVIOUS
  <2>5. enc' = [enc EXCEPT !.old = old, !.delayed = d, !.tapset = front.tapset, !.pf = p,
                           !.consec = c, !.reservoir = sized.reservoir]
    BY ONLY <2>3, <2>4, Zenon
  <2>6. enc' = Changed(enc, old, d, front.tapset, p, c, sized.reservoir)
    BY ONLY <2>5, Zenon DEF Changed
  <2> QED BY ONLY <1>3, <2>6, EncoderChanges
<1>10. spent' = IF Constrained(x) THEN spent + 64 * sized.size - x.rate ELSE spent
  BY ONLY <1>2a, Zenon DEF Coded
<1> HIDE DEF old
<1>11. EncoderInv(enc')
  BY ONLY <1>6, <1>8, <1>9 DEF EncoderInv
<1>12. PICK y \in Inputs : enc.reservoir <= Most(y.rate, 128)
  BY ONLY <1>3 DEF RateIsKept
<1>13. x.rate \in Nat /\ y.rate \in Nat
  BY <1>2, InputShape
<1>14. spent <= enc.reservoir
  BY ONLY <1>3 DEF RateIsKept
<1>15. spent' \in Int /\ spent' <= enc'.reservoir
  <2>1. CASE Constrained(x)
    BY ONLY <2>1, <1>3, <1>6, <1>9, <1>10, <1>13, <1>14
  <2>2. CASE ~Constrained(x)
    BY ONLY <2>2, <1>3, <1>6, <1>9, <1>10, <1>14
  <2> QED BY ONLY <2>1, <2>2
<1>16. \E z \in Inputs : enc'.reservoir <= Most(z.rate, 128)
  <2>1. CASE sized.reservoir <= enc.reservoir
    <3>1. enc'.reservoir <= Most(y.rate, 128)
      BY ONLY <2>1, <1>3, <1>6, <1>9, <1>12, <1>13 DEF Most
    <3> QED BY ONLY <3>1, y \in Inputs
  <2>2. CASE sized.reservoir <= x.rate
    <3>1. enc'.reservoir <= Most(x.rate, 128)
      BY ONLY <2>2, <1>6, <1>9, <1>13 DEF Most
    <3> QED BY ONLY <1>2, <3>1
  <2>3. sized.reservoir <= enc.reservoir \/ sized.reservoir <= x.rate
    <3>1. enc.reservoir <= enc.reservoir
      BY ONLY <1>3
    <3> QED BY ONLY <1>6, <3>1
  <2> QED BY ONLY <2>1, <2>2, <2>3
<1>17. channels' \in {1, 2}
  BY ONLY <1>3, Encode DEF Encode
<1>18. RateIsKept'
  BY ONLY <1>15, <1>16 DEF RateIsKept
<1> QED BY ONLY <1>9, <1>11, <1>15, <1>17, <1>18 DEF RateInv, EncoderInv

\* What the constrained frames of CeltEncoder::encode_impl() take above the
\* rate is never more than vbr_reservoir, and that is never more than one
\* frame: each frame's size is bounded by what the reservoir has left, before
\* the frame is coded and again when its bits are known.
THEOREM RateHolds == Spec => []RateIsKept
<1>1. Init => RateInv
  BY RateStarts
<1>2. RateInv /\ [Next]_vars => RateInv'
  <2> SUFFICES ASSUME RateInv, [Next]_vars PROVE RateInv'
    OBVIOUS
  <2>1. ASSUME enc' = enc, spent' = spent, channels' = channels PROVE RateInv'
    BY ONLY RateInv, <2>1 DEF RateInv, EncoderInv, RateIsKept
  <2>2. CASE Encode
    BY ONLY <2>2, RateInv, RateAfterEncode
  <2>3. CASE Decode
    BY <2>3, <2>1 DEF Decode
  <2>4. CASE Lose
    BY <2>4, <2>1 DEF Lose
  <2>5. CASE Switch
    BY <2>5, <2>1 DEF Switch
  <2>6. CASE UNCHANGED vars
    BY <2>6, <2>1 DEF vars
  <2> QED BY <2>2, <2>3, <2>4, <2>5, <2>6 DEF Next
<1>3. RateInv => RateIsKept
  BY DEF RateInv
<1> QED BY <1>1, <1>2, <1>3, PTL DEF Spec
=============================================================================
