----------------------------- MODULE CeltCoder ------------------------------
(***************************************************************************)
(* The entropy coder as CELT's frames use it: a list of symbols and a      *)
(* count of eighths of bits, which is all that their control depends on.   *)
(* RangeCoder shows that a decoder gets the symbols back in this order,    *)
(* with the count the encoder had.  One operator writes or reads, as many  *)
(* routines of src/src/rate.rs and src/src/bands.rs do; a read of a symbol *)
(* of another kind than the one written marks the coder as lost.           *)
(***************************************************************************)
EXTENDS Integers, Sequences, SequencesExt

\* 1 << k
Pow2[k \in 0..30] == IF k = 0 THEN 1 ELSE 2 * Pow2[k - 1]

\* log2(n) in eighths of a bit for n = 1..24, LOG2_FRAC_TABLE of rate.rs.
Log2Frac == <<0, 8, 13, 16, 19, 21, 23, 24, 26, 27, 28, 29, 30, 31, 32, 32,
              33, 34, 34, 35, 36, 36, 37, 37>>

\* The same for larger n, rounded up.
Log8[n \in Nat \ {0}] == IF n <= 24 THEN Log2Frac[n] ELSE 8 + Log8[(n + 1) \div 2]

Most(a, b) == IF a < b THEN b ELSE a
Least(a, b) == IF a < b THEN a ELSE b
Within(x, lo, hi) == Most(lo, Least(x, hi))
Size(x) == IF x < 0 THEN -x ELSE x
\* Division towards zero.
Quot(a, b) == IF a < 0 THEN -((-a) \div b) ELSE a \div b

\* What a symbol of a kind costs: "bit" has odds of 2^of, "uint" and "pvq"
\* are numbers below of, "raw" is of bits, "icdf" has a table of 2^of
\* shares and "laplace" costs at most the 15 bits of its table.
UnlikelyCost(p) == IF p <= 1 THEN 8 ELSE IF p = 2 THEN 3 ELSE IF p <= 4 THEN 1 ELSE 0
Cost(kind, of, value) ==
  CASE kind = "bit" -> IF value = 1 THEN 8 * of ELSE UnlikelyCost(of)
    [] kind \in {"uint", "pvq", "theta"} -> Log8[of]
    [] kind = "raw" -> 8 * of
    [] kind = "icdf" -> 8 * Least(of, 3)
    [] kind = "laplace" -> Least(120, 6 + 14 * Size(value))

Writer(bytes, seed) ==
  [writing |-> TRUE, symbols |-> <<>>, at |-> 0, used |-> 8, storage |-> bytes,
   seed |-> seed, lost |-> FALSE]

Reader(symbols, bytes) ==
  [writing |-> FALSE, symbols |-> symbols, at |-> 0, used |-> 8, storage |-> bytes,
   seed |-> 0, lost |-> FALSE]

TellFrac(rc) == rc.used
Tell(rc) == (rc.used + 7) \div 8

\* The symbol a reader has come to, and whether it is of the kind asked for.
NextSymbol(rc) ==
  IF rc.at < Len(rc.symbols) THEN rc.symbols[rc.at + 1] ELSE [kind |-> "none", of |-> 0, value |-> 0]
IsNext(rc, kind, of) ==
  LET next == NextSymbol(rc)
  IN  /\ next.kind = kind /\ next.of = of
      /\ kind \in {"uint", "theta", "pvq"} => next.value \in 0..of - 1

\* The coder once a symbol was written or read.
Written(rc, symbol, cost) ==
  [rc EXCEPT !.used = @ + cost, !.symbols = Append(@, symbol)]
Passed(rc, found, cost) ==
  [rc EXCEPT !.used = @ + cost, !.at = @ + 1, !.lost = @ \/ ~found]
Code(rc, kind, of, v) ==
  LET found == IsNext(rc, kind, of)
      Read(value) == [value |-> value, rc |-> Passed(rc, found, Cost(kind, of, value))]
  IN  IF rc.writing
      THEN [value |-> v,
            rc |-> Written(rc, [kind |-> kind, of |-> of, value |-> v], Cost(kind, of, v))]
      ELSE Read(IF found THEN NextSymbol(rc).value ELSE 0)

Flag(rc, p, on) ==
  LET Told(s) == [value |-> s.value = 1, rc |-> s.rc]
  IN  Told(Code(rc, "bit", p, IF on THEN 1 ELSE 0))

\* What the signal asks for, below n: any of them, by the packet's seed.
Wanted(rc, n) == (rc.seed * (Len(rc.symbols) + 3) + Len(rc.symbols)) % n

\* nbits_total jumps to the end of the packet.
ReadAll(rc, bits) == [rc EXCEPT !.used = @ + 8 * (bits - Tell(rc))]

\* FoldLeft() of SequencesExt, a step evaluated before the next one is: a
\* frame is a long chain of steps, each of which needs the coder of the last.
ForEach(Op(_, _), base, seq) ==
  LET f[k \in 0..Len(seq)] ==
        IF k = 0 THEN base ELSE CHOOSE s \in {Op(t, seq[k]) : t \in {f[k - 1]}} : TRUE
  IN  f[Len(seq)]

\* a, a+1, ..., b-1.
Upto(a, b) == [k \in 1..Most(b - a, 0) |-> a + k - 1]
=============================================================================
