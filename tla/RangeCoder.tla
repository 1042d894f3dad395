----------------------------- MODULE RangeCoder -----------------------------
(***************************************************************************)
(* The range coder of src/src/range_coder.rs.  An encoder writes a packet  *)
(* symbol by symbol: range-coded bytes grow from the front of its buffer   *)
(* and raw bits from the end, a carry may still run through the pending    *)
(* bytes, the buffer may shrink and the reserved first bits are patched.   *)
(* done() flushes both ends, and a decoder then reads the same symbols     *)
(* back.  The widths are parameters: the code has SymBits = 8,             *)
(* CodeBits = 32 and UintBits = 8, which TLC's integers cannot hold.       *)
(*                                                                         *)
(* An operator Mut<Name> is <Name> with a slip the properties must catch;  *)
(* nothing here uses it.                                                   *)
(***************************************************************************)
EXTENDS Integers, Sequences

CONSTANTS
  SymBits,      \* bits of a byte of the buffer (8)
  CodeBits,     \* bits of val, rng and of the raw-bit window (32)
  UintBits,     \* the bits of enc_uint() that are range coded (8)
  Sizes,        \* the sizes a packet's buffer is made with
  Stale,        \* contents a buffer may have from the packet before
  Alphabet,     \* the symbols a packet may hold: see Codable
  Reserves,     \* numbers of first bits a packet may reserve (0: none)
  MaxSymbols    \* bound on the symbols of a packet

ASSUME WidthsFit ==
  /\ SymBits \in Nat \ {0, 1} /\ CodeBits \in Nat /\ UintBits \in Nat
  /\ CodeBits >= 2 * SymBits + 2 /\ SymBits - 1 <= UintBits /\ UintBits < CodeBits - SymBits
ASSUME SizesPositive == Sizes \subseteq Nat \ {0}

\* 1 << k.  The provers know nothing of 2^k.
Pow[k \in 0..CodeBits] == IF k = 0 THEN 1 ELSE 2 * Pow[k - 1]

SymMax == Pow[SymBits] - 1
CodeShift == CodeBits - SymBits - 1
CodeTop == Pow[CodeBits - 1]
CodeBot == Pow[CodeBits - 1 - SymBits]
CodeExtra == ((CodeBits - 2) % SymBits) + 1
Word == Pow[CodeBits]

\* 32 - x.leading_zeros(): the bits of x.
ILog(x) == CHOOSE n \in 0..CodeBits : x < Pow[n] /\ (n = 0 \/ Pow[n - 1] <= x)

\* The bits of x below bit k, and those from it on.
Low(x, k) == x % Pow[k]
High(x, k) == x \div Pow[k]

VARIABLES
  enc,      \* the encoder
  dec,      \* the decoder
  sent,     \* the symbols written, each with the encoder's range after it
  got,      \* the values read back
  phase,    \* "write" | "read"
  bits,     \* tell() when done() was called
  jumped    \* pad_to_bits() wrote bytes past raw bits still in the window

vars == <<enc, dec, sent, got, phase, bits, jumped>>

-----------------------------------------------------------------------------
(* The two writers of the buffer.                                          *)

Room(rc) == rc.offs + rc.endOffs < rc.storage

WriteByte(rc, b) ==
  IF Room(rc) THEN [rc EXCEPT !.buf[rc.offs] = b, !.offs = @ + 1]
  ELSE [rc EXCEPT !.error = 1]

WriteByteAtEnd(rc, b) ==
  IF Room(rc) THEN [rc EXCEPT !.buf[rc.storage - rc.endOffs - 1] = b, !.endOffs = @ + 1]
  ELSE [rc EXCEPT !.error = 1]

\* A loop of a known bound: Round changes nothing once the loop has ended.
Repeat(Round(_), rc, n) ==
  LET after[i \in 0..n] == IF i = 0 THEN rc ELSE Round(after[i - 1]) IN after[n]
WriteBytes(rc, b, n) == Repeat(LAMBDA r : WriteByte(r, b), rc, n)

\* c is the next byte and, above it, a carry into the bytes before.  0xFF
\* waits in ext, as a later carry would run through it.
MutCarryOut(rc, c) ==
  IF c = SymMax THEN [rc EXCEPT !.ext = @ + 1]
  ELSE LET first == IF rc.rem >= 0 THEN WriteByte(rc, Low(rc.rem + High(c, SymBits), SymBits)) ELSE rc
           chain == WriteBytes(first, SymMax, rc.ext)
       IN  [chain EXCEPT !.ext = 0, !.rem = Low(c, SymBits)]
CarryOut(rc, c) ==
  IF c = SymMax THEN [rc EXCEPT !.ext = @ + 1]
  ELSE LET carry == High(c, SymBits)
           first == IF rc.rem >= 0 THEN WriteByte(rc, Low(rc.rem + carry, SymBits)) ELSE rc
           chain == WriteBytes(first, Low(SymMax + carry, SymBits), rc.ext)
       IN  [chain EXCEPT !.ext = 0, !.rem = Low(c, SymBits)]

\* The most rounds a normalisation takes: rng is at least 1.
Rounds == CodeBits \div SymBits + 1

\* The top byte of val goes out and the rest moves up.
ShiftOut(rc) ==
  [CarryOut(rc, High(rc.val, CodeShift)) EXCEPT !.val = Low(rc.val * Pow[SymBits], CodeBits - 1)]

EncoderRound(rc) ==
  IF rc.rng > CodeBot THEN rc
  ELSE [ShiftOut(rc) EXCEPT !.rng = @ * Pow[SymBits], !.nbitsTotal = @ + SymBits]
NormalizeEncoder(rc) == Repeat(EncoderRound, rc, Rounds)

ReadByte(rc) == IF rc.offs < rc.storage THEN rc.buf[rc.offs] ELSE 0

DecoderRound(rc) ==
  LET b == ReadByte(rc)
      sym == Low(High(rc.rem * Pow[SymBits] + b, SymBits - CodeExtra), SymBits)
  IN  IF rc.rng > CodeBot THEN rc
      ELSE [rc EXCEPT !.nbitsTotal = @ + SymBits, !.rng = @ * Pow[SymBits], !.rem = b,
                      !.offs = IF rc.offs < rc.storage THEN @ + 1 ELSE @,
                      !.val = Low(@ * Pow[SymBits] + (SymMax - sym), CodeBits - 1)]
NormalizeDecoder(rc) == Repeat(DecoderRound, rc, Rounds)

Tell(rc) == rc.nbitsTotal - ILog(rc.rng)

-----------------------------------------------------------------------------
(* Making a coder.                                                         *)

\* resize() keeps the bytes that were there.
ResetForEncode(old, size) ==
  [buf |-> [i \in 0..size - 1 |-> IF i \in DOMAIN old THEN old[i] ELSE 0],
   storage |-> size, endOffs |-> 0, endWindow |-> 0, nendBits |-> 0,
   nbitsTotal |-> CodeBits + 1, offs |-> 0, rng |-> CodeTop, val |-> 0,
   ext |-> 0, rem |-> -1, error |-> 0]

NewDecoder(data, n) ==
  LET fresh == [buf |-> data, storage |-> n, endOffs |-> 0, endWindow |-> 0, nendBits |-> 0,
                nbitsTotal |-> CodeBits + 1 - ((CodeBits - CodeExtra) \div SymBits) * SymBits,
                offs |-> 0, rng |-> Pow[CodeExtra], val |-> 0, ext |-> 0, rem |-> 0, error |-> 0]
      b == ReadByte(fresh)
  IN  NormalizeDecoder([fresh EXCEPT !.rem = b, !.offs = IF n > 0 THEN 1 ELSE 0,
                                     !.val = Pow[CodeExtra] - 1 - High(b, SymBits - CodeExtra)])

-----------------------------------------------------------------------------
(* Range-coded symbols.  A symbol of frequencies fl..fh-1 out of ft takes  *)
(* its share of the range; the first one also takes what the division of   *)
(* the range leaves over.                                                  *)

EncodeVal(rc, fl, ft) == IF fl > 0 THEN rc.val + rc.rng - (rc.rng \div ft) * (ft - fl) ELSE rc.val
EncodeRng(rc, fl, fh, ft) ==
  IF fl > 0 THEN (rc.rng \div ft) * (fh - fl) ELSE rc.rng - (rc.rng \div ft) * (ft - fh)

Encode(rc, fl, fh, ft) ==
  NormalizeEncoder([rc EXCEPT !.val = EncodeVal(rc, fl, ft) % Word,
                              !.rng = EncodeRng(rc, fl, fh, ft)])

\* decode() leaves the unit of the range in ext for update().
Decode(rc, ft) ==
  LET s == rc.val \div (rc.rng \div ft) + 1 IN ft - (IF ft < s THEN ft ELSE s)

Update(rc, fl, fh, ft) ==
  LET r == rc.rng \div ft
  IN  NormalizeDecoder([rc EXCEPT !.ext = r, !.val = @ - r * (ft - fh),
                                  !.rng = IF fl > 0 THEN r * (fh - fl) ELSE @ - r * (ft - fh)])

EncodeBitLogp(rc, one, logp) ==
  LET s == rc.rng \div Pow[logp]
  IN  NormalizeEncoder(IF one THEN [rc EXCEPT !.val = (@ + rc.rng - s) % Word, !.rng = s]
                       ELSE [rc EXCEPT !.rng = @ - s])

DecodeBitLogp(rc, logp) ==
  LET s == rc.rng \div Pow[logp]
      one == rc.val < s
  IN  [value |-> IF one THEN 1 ELSE 0,
       rc |-> NormalizeDecoder(IF one THEN [rc EXCEPT !.rng = s]
                               ELSE [rc EXCEPT !.val = @ - s, !.rng = @ - s])]

\* icdf[s+1] is how much of Pow[ftb] lies above symbol s; the last entry is 0.
EncodeIcdf(rc, s, icdf, ftb) ==
  LET r == rc.rng \div Pow[ftb]
  IN  NormalizeEncoder(
        IF s > 0 THEN [rc EXCEPT !.val = (@ + rc.rng - r * icdf[s]) % Word,
                                 !.rng = r * (icdf[s] - icdf[s + 1])]
        ELSE [rc EXCEPT !.rng = @ - r * icdf[1]])

DecodeIcdf(rc, icdf, ftb) ==
  LET r == rc.rng \div Pow[ftb]
      found == CHOOSE i \in 1..Len(icdf) :
                 /\ rc.val >= r * icdf[i]
                 /\ \A j \in 1..i - 1 : rc.val < r * icdf[j]
      top == IF found = 1 THEN rc.rng ELSE r * icdf[found - 1]
  IN  [value |-> found - 1,
       rc |-> NormalizeDecoder([rc EXCEPT !.val = @ - r * icdf[found],
                                          !.rng = top - r * icdf[found]])]

-----------------------------------------------------------------------------
(* Raw bits, which grow from the end of the buffer.                        *)

\* Whole bytes of the window go to the end of the buffer.
FlushRound(rc) ==
  IF rc.nendBits < SymBits THEN rc
  ELSE [WriteByteAtEnd(rc, Low(rc.endWindow, SymBits)) EXCEPT
          !.endWindow = High(@, SymBits), !.nendBits = @ - SymBits]
FlushWindow(rc) == Repeat(FlushRound, rc, Rounds)

EncBits(rc, v, n) ==
  IF n = 0 THEN rc
  ELSE LET r == IF rc.nendBits + n > CodeBits THEN FlushWindow(rc) ELSE rc
       IN  [r EXCEPT !.endWindow = @ + Low(v, n) * Pow[r.nendBits],
                     !.nendBits = @ + n, !.nbitsTotal = @ + n]

\* The window is filled up before it is read from.
FillRound(rc) ==
  LET more == rc.endOffs < rc.storage
      b == IF more THEN rc.buf[rc.storage - rc.endOffs - 1] ELSE 0
  IN  IF rc.nendBits > CodeBits - SymBits THEN rc
      ELSE [rc EXCEPT !.endOffs = IF more THEN @ + 1 ELSE @,
                      !.endWindow = @ + b * Pow[rc.nendBits], !.nendBits = @ + SymBits]
DecBits(rc, n) ==
  LET r == IF n > 0 /\ rc.nendBits < n THEN Repeat(FillRound, rc, Rounds) ELSE rc
  IN  [value |-> Low(r.endWindow, n),
       rc |-> [r EXCEPT !.endWindow = High(@, n), !.nendBits = @ - n, !.nbitsTotal = @ + n]]

\* A number below ft: its top UintBits are range coded and the rest are raw.
Split(ft) == LET b == ILog(ft - 1) IN IF b > UintBits THEN b - UintBits ELSE 0

EncUint(rc, v, ft) ==
  IF ft <= 1 THEN rc
  ELSE LET s == Split(ft)
           top == High(v, s)
       IN  EncBits(Encode(rc, top, top + 1, High(ft - 1, s) + 1), Low(v, s), s)

DecUint(rc, ft) ==
  IF ft <= 1 THEN [value |-> 0, rc |-> rc]
  ELSE LET s == Split(ft)
           n == High(ft - 1, s) + 1
           top == Decode(rc, n)
           low == DecBits(Update(rc, top, top + 1, n), s)
       IN  [value |-> top * Pow[s] + low.value, rc |-> low.rc]

-----------------------------------------------------------------------------
(* Steps of a packet other than symbols.                                   *)

\* Move the raw bits already written to the new end.
ShrinkTo(rc, size) ==
  [rc EXCEPT !.storage = size,
             !.buf = [i \in DOMAIN rc.buf |->
                        IF i \in size - rc.endOffs..size - 1
                        THEN rc.buf[i + rc.storage - size] ELSE rc.buf[i]]]

\* The first n bits are replaced wherever they are by now.
PatchInitialBits(rc, v, n) ==
  LET Patched(x, above) == Low(x, above) + v * Pow[above] + High(x, above + n) * Pow[above + n]
  IN  CASE rc.offs > 0 -> [rc EXCEPT !.buf[0] = Patched(@, SymBits - n)]
        [] rc.offs = 0 /\ rc.rem >= 0 -> [rc EXCEPT !.rem = Patched(@, SymBits - n)]
        [] rc.offs = 0 /\ rc.rem < 0 /\ rc.rng <= High(CodeTop, n) ->
             [rc EXCEPT !.val = Patched(@, CodeShift + SymBits - n)]
        [] OTHER -> [rc EXCEPT !.error = -1]

\* Zero bits up to target: to the end of a byte, whole bytes, the rest.
\* The whole bytes go straight to the buffer.
PadBytes(rc, target) ==
  LET left == target - rc.nbitsTotal
      partial == (SymBits - (rc.nendBits % SymBits)) % SymBits
  IN  [aligned |-> IF left >= partial THEN EncBits(rc, 0, partial) ELSE rc,
       bytes |-> (IF left >= partial THEN left - partial ELSE left) \div SymBits]

PadToBits(rc, target) ==
  LET p == PadBytes(rc, target)
      r == p.aligned
      room == r.storage - r.offs - r.endOffs
      n == IF p.bytes < room THEN p.bytes ELSE room
      w == [r EXCEPT !.buf = [i \in DOMAIN r.buf |->
                                IF i \in r.storage - r.endOffs - n..r.storage - r.endOffs - 1
                                THEN 0 ELSE r.buf[i]],
                     !.endOffs = @ + n,
                     !.error = IF n < p.bytes THEN 1 ELSE @,
                     !.nbitsTotal = @ + p.bytes * SymBits]
      end == IF p.bytes > 0 THEN w ELSE r
  IN  IF target <= rc.nbitsTotal THEN rc ELSE EncBits(end, 0, target - end.nbitsTotal)

\* The shortest code within the range, and how many bits of it count.
MutFinalBits(rc) ==
  LET l == CodeBits - ILog(rc.rng) + 2
      unit == Pow[CodeBits - 1 - l]
  IN  [end |-> ((rc.val + unit - 1) \div unit) * unit, l |-> l]
FinalBits(rc) ==
  LET l == CodeBits - ILog(rc.rng)
      Up(k) == LET unit == Pow[CodeBits - 1 - k] IN ((rc.val + unit - 1) \div unit) * unit
      Last(k) == Up(k) + Pow[CodeBits - 1 - k] - 1
  IN  IF Last(l) >= rc.val + rc.rng THEN [end |-> Up(l + 1), l |-> l + 1]
      ELSE [end |-> Up(l), l |-> l]

\* done() takes the code's bytes from the top; the first may hold a carry.
Bytes(n) == (n + SymBits - 1) \div SymBits
FrontDone(rc) ==
  LET f == FinalBits(rc)
      r == [Repeat(ShiftOut, [rc EXCEPT !.val = f.end], Bytes(f.l)) EXCEPT !.val = rc.val]
  IN  IF r.rem >= 0 \/ r.ext > 0 THEN CarryOut(r, 0) ELSE r

\* done(): the front, the window's whole bytes; then the gap is zeroed and
\* the window's last bits join the byte they end in, which may be the last
\* one of the front.
Done(rc) ==
  LET l == FinalBits(rc).l
      spare == SymBits * Bytes(l) - l
      flushed == FlushWindow(FrontDone(rc))
      used == flushed.nendBits
      r == [flushed EXCEPT !.endWindow = rc.endWindow, !.nendBits = rc.nendBits]
      gap == [r EXCEPT !.buf = [i \in DOMAIN r.buf |->
                                  IF i \in r.offs..r.storage - r.endOffs - 1 THEN 0 ELSE r.buf[i]]]
      busted == ~Room(r) /\ spare < used
      window == IF busted THEN Low(flushed.endWindow, spare) ELSE flushed.endWindow
  IN  CASE r.error # 0 -> r
        [] r.error = 0 /\ used = 0 -> gap
        [] r.error = 0 /\ used > 0 /\ r.endOffs >= r.storage -> [gap EXCEPT !.error = -1]
        [] OTHER -> [gap EXCEPT !.buf[r.storage - r.endOffs - 1] = @ + window,
                                !.error = IF busted THEN -1 ELSE @]

-----------------------------------------------------------------------------
(* Symbols by kind, as CELT and SILK write and read them.                  *)

\* What a caller may write: odds, tables and sizes that leave every symbol a
\* share of the smallest range, tables that fall to 0, and no more raw bits
\* at once than the window has room for, with a value that they hold.
Symbol ==
  [op : {"bit"}, value : {0, 1}, logp : 1..CodeShift] \cup
  [op : {"icdf"}, value : Nat, icdf : Seq(Nat), ftb : 0..CodeShift] \cup
  [op : {"uint"}, value : Nat, ft : 1..Word - 1] \cup
  [op : {"raw"}, value : Nat, n : 0..CodeBits - SymBits + 1]
Codable(s) ==
  /\ s \in Symbol
  /\ s.op = "uint" => s.value < s.ft
  /\ s.op = "raw" => s.value < Pow[s.n]
  /\ s.op = "icdf" =>
       /\ s.value < Len(s.icdf) /\ s.icdf[1] < Pow[s.ftb] /\ s.icdf[Len(s.icdf)] = 0
       /\ \A i \in 2..Len(s.icdf) : s.icdf[i] < s.icdf[i - 1]
ASSUME AlphabetCodable == \A s \in Alphabet : Codable(s)
ASSUME ReservesFit == Reserves \subseteq 0..SymBits
ASSUME StaleBytes == \A old \in Stale : \A i \in DOMAIN old : old[i] \in 0..SymMax

EncodeSymbol(rc, s) ==
  CASE s.op = "bit" -> EncodeBitLogp(rc, s.value = 1, s.logp)
    [] s.op = "icdf" -> EncodeIcdf(rc, s.value, s.icdf, s.ftb)
    [] s.op = "uint" -> EncUint(rc, s.value, s.ft)
    [] s.op = "raw" -> EncBits(rc, s.value, s.n)

\* The reserved bits are written as one symbol, the first of a table with
\* that share, and read as n bits of even odds.
Reserve(n) == [op |-> "icdf", value |-> 0, icdf |-> <<Pow[SymBits] - Pow[SymBits - n], 0>>, ftb |-> SymBits]

DecodeFlags(rc, n) ==
  LET read[i \in 0..n] ==
        IF i = 0 THEN [value |-> 0, rc |-> rc]
        ELSE LET b == DecodeBitLogp(read[i - 1].rc, 1)
             IN  [value |-> 2 * read[i - 1].value + b.value, rc |-> b.rc]
  IN  read[n]

DecodeSymbol(rc, s) ==
  CASE s.op = "bit" -> DecodeBitLogp(rc, s.logp)
    [] s.op = "icdf" -> DecodeIcdf(rc, s.icdf, s.ftb)
    [] s.op = "uint" -> DecUint(rc, s.ft)
    [] s.op = "raw" -> DecBits(rc, s.n)
    [] s.op = "flags" -> DecodeFlags(rc, s.n)

-----------------------------------------------------------------------------
(* A packet, written and read.                                             *)

Entry(s, rc) == [symbol |-> s, rng |-> rc.rng, total |-> rc.nbitsTotal]

Init ==
  /\ \E old \in Stale, size \in Sizes, n \in Reserves :
       LET fresh == ResetForEncode(old, size)
           first == EncodeSymbol(fresh, Reserve(n))
       IN  IF n = 0 THEN enc = fresh /\ sent = <<>>
           ELSE enc = first /\ sent = <<Entry([op |-> "flags", value |-> 0, n |-> n], first)>>
  /\ dec = enc /\ got = <<>> /\ phase = "write" /\ bits = 0 /\ jumped = FALSE

Write(s) ==
  /\ phase = "write" /\ Len(sent) < MaxSymbols
  /\ enc' = EncodeSymbol(enc, s)
  /\ sent' = Append(sent, Entry(s, enc'))
  /\ UNCHANGED <<dec, got, phase, bits, jumped>>

\* As its assertion asks, the callers keep room for the bytes written.
Shrink(size) ==
  /\ phase = "write"
  /\ enc.offs + enc.endOffs <= size /\ 0 < size /\ size < enc.storage
  /\ enc' = ShrinkTo(enc, size)
  /\ UNCHANGED <<dec, sent, got, phase, bits, jumped>>

Patch(v) ==
  /\ phase = "write" /\ sent # <<>> /\ sent[1].symbol.op = "flags"
  /\ sent[1].symbol.value = 0 /\ v \in 1..Pow[sent[1].symbol.n] - 1
  /\ enc' = PatchInitialBits(enc, v, sent[1].symbol.n)
  /\ sent' = [sent EXCEPT ![1].symbol.value = v]
  /\ UNCHANGED <<dec, got, phase, bits, jumped>>

\* The encoder of CELT pads its packet, then done() ends it.
Finish(pads) ==
  LET target == SymBits * enc.storage
      p == PadBytes(enc, target)
      padded == IF pads THEN PadToBits(enc, target) ELSE enc
  IN  /\ phase = "write" /\ phase' = "read"
      /\ enc' = Done(padded)
      /\ bits' = Tell(padded)
      /\ jumped' = (pads /\ target > enc.nbitsTotal /\ p.bytes > 0 /\ p.aligned.nendBits > 0)
      /\ dec' = NewDecoder(enc'.buf, enc'.storage)
      /\ UNCHANGED <<sent, got>>

\* A SILK-only packet keeps the bytes tell() counts, without the zeros at
\* their end.
TrimmedSize(rc, n) ==
  LET most == IF n < rc.storage THEN n ELSE rc.storage
      ends == {k \in 2..most : k > 2 => rc.buf[k - 1] # 0}
  IN  IF most <= 2 THEN most ELSE CHOOSE k \in ends : \A j \in ends : j <= k

FinishTrimmed ==
  /\ phase = "write" /\ phase' = "read" /\ enc.nendBits = 0 /\ enc.endOffs = 0
  /\ enc' = Done(enc)
  /\ bits' = Tell(enc)
  /\ dec' = NewDecoder(enc'.buf, TrimmedSize(enc', Bytes(Tell(enc))))
  /\ UNCHANGED <<sent, got, jumped>>

Read ==
  LET i == Len(got) + 1
      d == DecodeSymbol(dec, sent[i].symbol)
  IN  /\ phase = "read" /\ i <= Len(sent)
      /\ dec' = d.rc /\ got' = Append(got, d.value)
      /\ UNCHANGED <<enc, sent, phase, bits, jumped>>

Next ==
  \/ \E s \in Alphabet : Write(s)
  \/ \E size \in Sizes : Shrink(size)
  \/ \E v \in 1..SymMax : Patch(v)
  \/ \E pads \in BOOLEAN : Finish(pads)
  \/ FinishTrimmed
  \/ Read

Spec == Init /\ [][Next]_vars

-----------------------------------------------------------------------------
(* Properties.                                                             *)

CoderOK(rc) ==
  /\ \A i \in DOMAIN rc.buf : rc.buf[i] \in 0..SymMax
  /\ rc.storage \in Nat
  /\ rc.offs \in 0..rc.storage /\ rc.endOffs \in 0..rc.storage
  /\ rc.rng \in CodeBot + 1..CodeTop /\ rc.val \in 0..Word - rc.rng
  /\ rc.nendBits \in 0..CodeBits /\ rc.endWindow \in 0..Pow[rc.nendBits] - 1
  /\ rc.rem \in -1..SymMax /\ rc.ext \in Nat /\ rc.error \in {-1, 0, 1}

\* Between symbols either coder's range is normalised, its window holds no
\* more than its bits, and an encoder's two writers have not met.
TypeOK ==
  /\ phase \in {"write", "read"} /\ bits \in Nat /\ jumped \in BOOLEAN
  /\ CoderOK(enc) /\ enc.offs + enc.endOffs <= enc.storage
  /\ CoderOK(dec)

\* What tell() counted fits the buffer as it was when done() was called.
Fits == bits <= SymBits * enc.storage

\* Property: a packet whose tell() fits its buffer is written without error,
\* however its range-coded bytes, carries, raw bits and shrinks fell.
FitMeansWritten == phase = "read" /\ Fits => enc.error = 0

\* Property: the decoder then reads back every symbol, and after each one has
\* the range and the bit count the encoder had there (which budgets, hence
\* the symbols that follow, depend on).  The exception is stated: padding
\* that was written past raw bits which still waited in the window.
SymbolsReturn ==
  phase = "read" /\ Fits /\ ~jumped =>
    /\ \A i \in 1..Len(got) : got[i] = sent[i].symbol.value
    /\ got # <<>> => dec.rng = sent[Len(got)].rng /\ dec.nbitsTotal = sent[Len(got)].total

\* Not so of every packet, padded ones included: no run checks it, and one
\* that did would end in a counterexample.
PaddedSymbolsReturn ==
  phase = "read" /\ Fits => \A i \in 1..Len(got) : got[i] = sent[i].symbol.value
=============================================================================
