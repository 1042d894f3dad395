-------------------------- MODULE OpusFramingProof ---------------------------
(* The lengths in a packet are read as they were written, for every length  *)
(* and whatever follows.                                                    *)
EXTENDS OpusFraming, SequenceTheorems, TLAPS

\* The longest length two bytes can say: 1275 in the code.
MaxSize == 5 * ByteMax

LEMMA ByteRange == LongSize \in Nat /\ LongSize >= 4 /\ LongSize % 4 = 0
                   /\ ByteMax = LongSize + 3 /\ ByteMax \in Nat
  BY LongSizeIsEven DEF ByteMax

LEMMA DivideBy ==
  ASSUME NEW a \in Nat, NEW b \in Nat \ {0}
  PROVE  (a \div b) \in Nat /\ a - b * (a \div b) \in 0..b - 1
<1> DEFINE q == a \div b
<1>1. (a \div b) \in Int
  BY SMT
<1>2. a = b * (a \div b) + (a % b)
  BY SMT
<1>3. (a % b) \in 0..b - 1
  BY SMT
<1>4. a \div b >= 0
  <2> SUFFICES ASSUME q <= -1 PROVE FALSE
    BY <1>1
  <2>1. b * q <= -b
    <3> HIDE DEF q
    <3> QED
      BY <1>1 DEF q
  <2> QED
    BY <1>1, <1>2, <1>3, <2>1
<1> HIDE DEF q
<1>5. q \in Int /\ q >= 0 /\ a = b * q + (a % b)
  BY <1>1, <1>2, <1>4 DEF q
<1>6. b * q \in Int
  BY <1>5
<1>7. a - b * q = a % b
  BY <1>3, <1>5, <1>6
<1> QED
  BY <1>3, <1>5, <1>7 DEF q

\* Theorem: put_size() writes bytes, and parse_frame_size() reads from them
\* the same length and stops where they end.  It is for every value of the
\* constant at which a length takes a second byte.
THEOREM SizeReturns ==
  ASSUME NEW n \in 0..MaxSize, NEW rest \in Seq(0..ByteMax)
  PROVE  /\ PutSize(n) \in Seq(0..ByteMax)
         /\ ParseFrameSize(PutSize(n) \o rest) = <<n, Len(PutSize(n))>>
<1>0. n \in Nat /\ n <= 5 * ByteMax
  BY ByteRange DEF MaxSize
<1>1. CASE n < LongSize
  <2>1. PutSize(n) = <<n>> /\ n \in 0..ByteMax
    BY <1>0, <1>1, ByteRange DEF PutSize
  <2>2. (<<n>> \o rest)[1] = n /\ <<n>> \o rest # <<>>
    BY <2>1
  <2> QED
    BY <1>1, <2>1, <2>2, ByteRange, SMTT(60) DEF ParseFrameSize
<1>2. CASE n >= LongSize
  <2> DEFINE first == LongSize + (n % 4)
             second == (n - first) \div 4
  <2>1. PutSize(n) = <<first, second>>
    BY <1>0, <1>2, ByteRange DEF PutSize
  <2>2. first \in 0..ByteMax /\ first >= LongSize
    BY <1>0, ByteRange
  <2>3. second \in Int /\ 4 * second = n - first
    <3>1. (n - first) % 4 = 0
      BY <1>0, ByteRange
    <3> QED
      BY <1>0, <2>2, <3>1, ByteRange
  <2>4. second \in 0..ByteMax
    <3>1. 0 <= n - first
      BY <1>0, <1>2, <2>2, <2>3, ByteRange, SMTT(60)
    <3>2. n - first <= 4 * ByteMax + 3
      BY <1>0, <2>2, ByteRange
    <3> QED
      BY <2>2, <2>3, <3>1, <3>2, ByteRange
  <2> HIDE DEF first, second
  <2>5. /\ (<<first, second>> \o rest)[1] = first
        /\ (<<first, second>> \o rest)[2] = second
        /\ Len(<<first, second>> \o rest) >= 2
        /\ <<first, second>> \o rest # <<>>
    BY <2>2, <2>4
  <2>6. ParseFrameSize(<<first, second>> \o rest) = <<second * 4 + first, 2>>
    BY <2>2, <2>4, <2>5, ByteRange, SMTT(60) DEF ParseFrameSize
  <2>7. second * 4 + first = n
    BY <1>0, <2>2, <2>3, <2>4
  <2> QED
    BY <2>1, <2>2, <2>4, <2>6, <2>7, SMTT(60)
<1> QED
  BY <1>0, <1>1, <1>2, ByteRange

LEMMA PadShape ==
  ASSUME NEW n \in Nat \ {0}
  PROVE  \E full \in Nat, left \in 0..ByteMax - 1 :
           /\ n = full * ByteMax + left + 1
           /\ PadLengths(n) \in Seq(0..ByteMax) /\ Len(PadLengths(n)) = full + 1
           /\ \A i \in 1..full : PadLengths(n)[i] = ByteMax
           /\ PadLengths(n)[full + 1] = left
<1> DEFINE full == (n - 1) \div ByteMax
           left == n - ByteMax * full - 1
           bytes == [i \in 1..full |-> ByteMax]
<1>1. n - 1 \in Nat /\ ByteMax \in Nat \ {0}
  BY ByteRange
<1>2. full \in Nat /\ n - 1 - ByteMax * full \in 0..ByteMax - 1
  BY <1>1, DivideBy
<1>3. PadLengths(n) = bytes \o <<left>>
  BY DEF PadLengths
<1>4. left \in 0..ByteMax - 1 /\ n = full * ByteMax + left + 1
  <2> HIDE DEF full
  <2>1. ByteMax * full \in Int /\ full * ByteMax = ByteMax * full
    BY <1>1, <1>2
  <2> QED
    BY <1>1, <1>2, <2>1
<1> HIDE DEF full, left
<1>5. bytes \in Seq(0..ByteMax) /\ Len(bytes) = full
  BY <1>1, <1>2
<1> QED
  BY <1>1, <1>2, <1>3, <1>4, <1>5

LEMMA ChainEnds ==
  ASSUME NEW data, NEW at \in Nat \ {0}, NEW full \in Nat, NEW left \in 0..ByteMax - 1,
         Len(data) \in Nat, at + full <= Len(data),
         \A i \in at..at + full - 1 : data[i] = ByteMax, data[at + full] = left
  PROVE  ParsePadding(data, at) = [pad |-> full * (ByteMax - 1) + left, at |-> at + full + 1]
<1> DEFINE last == at + full
           ends == {i \in at..Len(data) :
                      data[i] # ByteMax /\ \A j \in at..i - 1 : data[j] = ByteMax}
<1>1. left # ByteMax
  BY ByteRange
<1>2. last \in ends
  BY <1>1
<1>3. \A i \in ends : i = last
  <2>1. TAKE i \in ends
  <2>2. ~(i < last)
    BY DEF last
  <2>3. ~(last < i)
    BY <1>1 DEF last
  <2> QED
    BY <2>2, <2>3
<1>4. ends # {} /\ (CHOOSE i \in ends : TRUE) = last
  BY <1>2, <1>3
<1>5. ParsePadding(data, at) = [pad |-> (last - at) * (ByteMax - 1) + data[last], at |-> last + 1]
  <2> HIDE DEF last
  <2> QED
    BY <1>4 DEF ParsePadding
<1>6. last - at = full
  OBVIOUS
<1> QED
  BY <1>5, <1>6

\* Theorem: a chain of padding lengths for n bytes says, counted as
\* frame_payloads() does, that n - Len(chain) bytes of padding are left, and
\* ends where the writer ended it, whatever stands before and after.
THEOREM ChainParsed ==
  ASSUME NEW n \in Nat \ {0}, NEW data \in Seq(Nat), NEW at \in Nat \ {0},
         at - 1 + Len(PadLengths(n)) <= Len(data),
         \A i \in 1..Len(PadLengths(n)) : data[at - 1 + i] = PadLengths(n)[i]
  PROVE  /\ PadLengths(n) \in Seq(0..ByteMax)
         /\ ParsePadding(data, at)
            = [pad |-> n - Len(PadLengths(n)), at |-> at + Len(PadLengths(n))]
<1>1. PICK full \in Nat, left \in 0..ByteMax - 1 :
        /\ n = full * ByteMax + left + 1
        /\ PadLengths(n) \in Seq(0..ByteMax) /\ Len(PadLengths(n)) = full + 1
        /\ \A i \in 1..full : PadLengths(n)[i] = ByteMax
        /\ PadLengths(n)[full + 1] = left
  BY PadShape
<1>2. \A i \in 1..full + 1 : data[at - 1 + i] = PadLengths(n)[i]
  BY <1>1
<1>3. \A i \in at..at + full - 1 : data[i] = ByteMax
  <2>1. TAKE i \in at..at + full - 1
  <2>2. i - at + 1 \in 1..full /\ i - at + 1 \in 1..full + 1 /\ at - 1 + (i - at + 1) = i
    OBVIOUS
  <2> QED
    BY <1>1, <1>2, <2>2, ZenonT(60)
<1>4. data[at + full] = left
  <2>1. full + 1 \in 1..full + 1 /\ at - 1 + (full + 1) = at + full
    OBVIOUS
  <2> QED
    BY <1>1, <1>2, <2>1
<1>5. Len(data) \in Nat /\ at + full <= Len(data)
  BY <1>1, SMTT(60)
<1>6. ParsePadding(data, at) = [pad |-> full * (ByteMax - 1) + left, at |-> at + full + 1]
  BY <1>3, <1>4, <1>5, ChainEnds, SMTT(60)
<1>7. full * (ByteMax - 1) + left = n - (full + 1)
  <2>1. full * ByteMax \in Int /\ full * (ByteMax - 1) = full * ByteMax - full
    BY ByteRange
  <2> QED
    BY <1>1, <2>1, ByteRange
<1>8. full * (ByteMax - 1) + left = n - Len(PadLengths(n)) /\ at + full + 1 = at + Len(PadLengths(n))
  <2>1. Len(PadLengths(n)) = full + 1
    BY <1>1
  <2>2. full * (ByteMax - 1) + left = n - Len(PadLengths(n))
    BY <1>7, <2>1
  <2> QED
    BY <2>1, <2>2
<1>9. ParsePadding(data, at) = [pad |-> n - Len(PadLengths(n)), at |-> at + Len(PadLengths(n))]
  BY <1>6, <1>8
<1> QED
  BY <1>1, <1>9

-----------------------------------------------------------------------------
LEMMA TotalOfNone ==
  ASSUME NEW s \in Seq(Nat), Len(s) = 0
  PROVE  Total(s) = 0
<1>1. DOMAIN s = {}
  OBVIOUS
<1> QED
  BY <1>1 DEF Total, FoldLeft, MapThenFoldSet

LEMMA CutOne ==
  ASSUME NEW data, NEW at \in Nat, NEW n \in Nat
  PROVE  Cut(data, at, <<n>>) = <<SubSeq(data, at, at + n - 1)>>
<1> DEFINE Piece(j) == LET start == at + Total(SubSeq(<<n>>, 1, j - 1))
                       IN  SubSeq(data, start, start + <<n>>[j] - 1)
<1>1. SubSeq(<<n>>, 1, 0) \in Seq(Nat) /\ Len(SubSeq(<<n>>, 1, 0)) = 0
  OBVIOUS
<1>2. Total(SubSeq(<<n>>, 1, 0)) = 0
  BY <1>1, TotalOfNone
<1>3. Piece(1) = SubSeq(data, at, at + n - 1)
  BY <1>2
<1>4. Cut(data, at, <<n>>) = [j \in {1} |-> Piece(j)]
  BY DEF Cut
<1> HIDE DEF Piece
<1>5. Cut(data, at, <<n>>) = [j \in {1} |-> SubSeq(data, at, at + n - 1)]
  BY <1>3, <1>4
<1> QED
  BY <1>5

LEMMA TocIs ==
  ASSUME NEW code \in 0..3, NEW units \in Nat
  PROVE  Toc(code, units) \in Nat /\ Code(Toc(code, units)) = code
  BY DEF Toc, Code

LEMMA CountIs ==
  /\ Count(1, TRUE, FALSE) = 65 /\ Count(1, FALSE, FALSE) = 1
  /\ FrameCount(65) = 1 /\ FrameCount(1) = 1
  /\ Padded(65) /\ ~Padded(1)
<1>1. Count(1, TRUE, FALSE) = 65 /\ Count(1, FALSE, FALSE) = 1
  BY DEF Count
<1>2. FrameCount(65) = 1 /\ FrameCount(1) = 1
  BY DEF FrameCount
<1>3. 65 \div 64 = 1 /\ 1 \div 64 = 0
  OBVIOUS
<1>4. Padded(65) /\ ~Padded(1)
  BY <1>3 DEF Padded
<1> QED
  BY <1>1, <1>2, <1>4

\* A code 3 packet of one frame, by what its padding was found to be.
LEMMA OneFrame ==
  ASSUME NEW data \in Seq(Nat), NEW count \in {1, 65}, NEW pad \in Nat, NEW at \in Nat,
         Len(data) >= 2, Code(data[1]) = 3, data[2] = count,
         at >= 3, at - 1 + pad <= Len(data),
         count = 65 => ParsePadding(data, 3) = [pad |-> pad, at |-> at],
         count = 1 => pad = 0 /\ at = 3
  PROVE  FramePayloads(data) = <<SubSeq(data, at, Len(data) - pad)>>
<1> DEFINE p == [pad |-> pad, at |-> at]
           left == Len(data) - pad - at + 1
<1>1. /\ FrameCount(count) = 1
      /\ Padded(count) <=> count = 65
  BY CountIs
<1>2. (IF Padded(count) THEN ParsePadding(data, 3) ELSE [pad |-> 0, at |-> 3]) = p
  BY <1>1
<1>3. p # Error /\ p.pad = pad /\ p.at = at
  BY ErrorIsNoResult, SMTT(60)
<1>4. FrameCount(count) \in 1..MaxFrames
  BY <1>1, SomeFrames
<1>5. ~(p.at - 1 + p.pad > Len(data))
  BY <1>3
<1> HIDE DEF p
<1>6. ParseCode3(data) = ParseFrames(data, at, pad, count)
  BY <1>2, <1>3, <1>4, <1>5 DEF ParseCode3
<1>7. left \in Nat /\ at + left - 1 = Len(data) - pad
  OBVIOUS
<1>8. ParseFrames(data, at, pad, count) = Cut(data, at, <<left>>)
  <2> HIDE DEF left
  <2> DEFINE m == FrameCount(count)
  <2>1. m = 1
    BY <1>1
  <2> HIDE DEF m
  <2> QED
    BY <2>1, SMT DEF ParseFrames, m, left
<1> HIDE DEF left
<1>9. Cut(data, at, <<left>>) = <<SubSeq(data, at, Len(data) - pad)>>
  <2>0. at \in Nat /\ left \in Nat
    BY <1>7
  <2>1. Cut(data, at, <<left>>) = <<SubSeq(data, at, at + left - 1)>>
    BY <2>0, CutOne, SMTT(60)
  <2> QED
    BY <1>7, <2>1, Zenon
<1>10. FramePayloads(data) = ParseCode3(data)
  BY DEF FramePayloads
<1> QED
  BY <1>6, <1>8, <1>9, <1>10

\* A part of a sequence that agrees with b is b.
LEMMA Part ==
  ASSUME NEW s \in Seq(Nat), NEW b \in Seq(Nat), NEW k \in Nat, k + Len(b) <= Len(s),
         \A i \in 1..Len(b) : s[k + i] = b[i]
  PROVE  SubSeq(s, k + 1, k + Len(b)) = b
<1> DEFINE m == k + 1
           n == k + Len(b)
           t == SubSeq(s, m, n)
<1>1. Len(b) \in Nat /\ m \in Int /\ n \in Int /\ n - m + 1 = Len(b) /\ (m <= n <=> Len(b) > 0)
  OBVIOUS
<1>2. \A i \in m..n : s[i] \in Nat
  OBVIOUS
<1>3. \A i \in 1..Len(b) : m + i - 1 = k + i
  OBVIOUS
<1> HIDE DEF m, n
<1>4. /\ t \in Seq(Nat)
      /\ Len(t) = IF m <= n THEN n - m + 1 ELSE 0
      /\ \A i \in 1..n - m + 1 : t[i] = s[m + i - 1]
  <2>1. m \in Int /\ n \in Int
    BY <1>1
  <2>2. t \in Seq(Nat)
    BY <1>2, <2>1, SubSeqProperties
  <2>3. Len(t) = IF m <= n THEN n - m + 1 ELSE 0
    BY <1>2, <2>1, SubSeqProperties
  <2>4. \A i \in 1..n - m + 1 : t[i] = s[m + i - 1]
    BY <1>2, <2>1, SubSeqProperties
  <2> QED
    BY <2>2, <2>3, <2>4
<1> HIDE DEF t
<1>5. Len(t) = Len(b)
  BY <1>1, <1>4
<1>6. \A i \in 1..Len(b) : t[i] = b[i]
  BY <1>1, <1>3, <1>4
<1>7. t = b
  BY <1>4, <1>5, <1>6, SeqEqual
<1> QED
  BY <1>7 DEF t, m, n

LEMMA Joined ==
  ASSUME NEW a \in Seq(Nat), NEW b \in Seq(Nat)
  PROVE  /\ a \o b \in Seq(Nat)
         /\ Len(a \o b) = Len(a) + Len(b)
         /\ \A i \in 1..Len(a) : (a \o b)[i] = a[i]
         /\ \A i \in 1..Len(b) : (a \o b)[Len(a) + i] = b[i]
  OBVIOUS

LEMMA BareFrame ==
  ASSUME NEW toc \in Nat, Code(toc) = 0, NEW frame \in Seq(Nat), NEW data, data = <<toc>> \o frame
  PROVE  Len(data) = Len(frame) + 1 /\ FramePayloads(data) = <<frame>>
<1>1. Len(frame) \in Nat
  OBVIOUS
<1>2. /\ data \in Seq(Nat) /\ Len(data) = 1 + Len(frame) /\ data[1] = toc
      /\ \A i \in 1..Len(frame) : data[1 + i] = frame[i]
  OBVIOUS
<1>3. FramePayloads(data) = <<From(data, 2)>>
  BY <1>2 DEF FramePayloads
<1>4. SubSeq(data, 1 + 1, 1 + Len(frame)) = frame
  BY <1>2, Part
<1>5. Len(data) = Len(frame) + 1
  BY <1>1, <1>2
<1>6. From(data, 2) = frame
  <2>1. 1 + 1 = 2 /\ 1 + Len(frame) = Len(data)
    BY <1>2
  <2> QED
    BY <1>4, <2>1 DEF From
<1> QED
  BY <1>3, <1>5, <1>6

LEMMA UnpaddedFrame ==
  ASSUME NEW toc \in Nat, Code(toc) = 3, NEW frame \in Seq(Nat), NEW data, data = <<toc, 1>> \o frame
  PROVE  Len(data) = Len(frame) + 2 /\ FramePayloads(data) = <<frame>>
<1>1. Len(frame) \in Nat
  OBVIOUS
<1>2. /\ data \in Seq(Nat) /\ Len(data) = 2 + Len(frame) /\ data[1] = toc /\ data[2] = 1
      /\ \A i \in 1..Len(frame) : data[2 + i] = frame[i]
  OBVIOUS
<1>3. Len(data) >= 2 /\ 3 - 1 + 0 <= Len(data) /\ Len(data) - 0 = 2 + Len(frame)
  BY <1>1, <1>2
<1>4. FramePayloads(data) = <<SubSeq(data, 3, Len(data) - 0)>>
  <2> DEFINE count == 1
             at == 3
             pad == 0
  <2>1. /\ count \in {1, 65} /\ pad \in Nat /\ at \in Nat /\ at >= 3 /\ data[2] = count
        /\ at - 1 + pad <= Len(data) /\ ~(count = 65) /\ pad = 0 /\ at = 3
    BY <1>2, <1>3
  <2>2. data \in Seq(Nat) /\ Len(data) >= 2 /\ Code(data[1]) = 3
    BY <1>2, <1>3
  <2> HIDE DEF count, at, pad
  <2>3. FramePayloads(data) = <<SubSeq(data, at, Len(data) - pad)>>
    BY <2>1, <2>2, OneFrame, ZenonT(60)
  <2> QED
    BY <2>1, <2>3
<1>5. SubSeq(data, 2 + 1, 2 + Len(frame)) = frame
  BY <1>2, Part
<1>6. Len(data) = Len(frame) + 2
  BY <1>1, <1>2
<1>7. SubSeq(data, 3, Len(data) - 0) = frame
  <2>1. 2 + 1 = 3 /\ Len(data) - 0 = 2 + Len(frame)
    BY <1>3
  <2> QED
    BY <1>5, <2>1
<1> QED
  BY <1>4, <1>6, <1>7

\* The bytes of a padded packet.
LEMMA PaddedBytes ==
  ASSUME NEW toc \in Nat, NEW chain \in Seq(Nat), NEW frame \in Seq(Nat), NEW zeros \in Seq(Nat),
         NEW data, data = <<toc, 65>> \o chain \o frame \o zeros
  PROVE  /\ data \in Seq(Nat)
         /\ Len(data) = Len(chain) + Len(frame) + Len(zeros) + 2
         /\ data[1] = toc /\ data[2] = 65
         /\ \A i \in 1..Len(chain) : data[2 + i] = chain[i]
         /\ \A i \in 1..Len(frame) : data[2 + Len(chain) + i] = frame[i]
<1> DEFINE front == <<toc, 65>> \o chain
           body == front \o frame
<1>0. data = body \o zeros
  OBVIOUS
<1>1. /\ front \in Seq(Nat) /\ Len(front) = 2 + Len(chain)
      /\ front[1] = toc /\ front[2] = 65
      /\ \A i \in 1..Len(chain) : front[2 + i] = chain[i]
  OBVIOUS
<1>a. front \in Seq(Nat)
  BY <1>1
<1> HIDE DEF front
<1>2. /\ body \in Seq(Nat) /\ Len(body) = Len(front) + Len(frame)
      /\ \A i \in 1..Len(front) : body[i] = front[i]
      /\ \A i \in 1..Len(frame) : body[Len(front) + i] = frame[i]
  BY <1>a, Joined
<1>b. body \in Seq(Nat)
  BY <1>2
<1> HIDE DEF body
<1>3. /\ data \in Seq(Nat) /\ Len(data) = Len(body) + Len(zeros)
      /\ \A i \in 1..Len(body) : data[i] = body[i]
  <2>1. /\ body \o zeros \in Seq(Nat) /\ Len(body \o zeros) = Len(body) + Len(zeros)
        /\ \A i \in 1..Len(body) : (body \o zeros)[i] = body[i]
    BY <1>b, Joined
  <2> QED
    BY <1>0, <2>1
<1>4. Len(frame) \in Nat /\ Len(chain) \in Nat /\ Len(zeros) \in Nat
  OBVIOUS
<1>5. Len(data) = Len(chain) + Len(frame) + Len(zeros) + 2
  BY <1>1, <1>2, <1>3, <1>4
<1>6. data[1] = toc /\ data[2] = 65
  <2>1. 1 \in 1..Len(front) /\ 2 \in 1..Len(front) /\ 1 \in 1..Len(body) /\ 2 \in 1..Len(body)
    BY <1>1, <1>2, <1>4, SMTT(60)
  <2> QED
    BY <1>1, <1>2, <1>3, <2>1
<1>7. \A i \in 1..Len(chain) : data[2 + i] = chain[i]
  <2>1. TAKE i \in 1..Len(chain)
  <2>2. 2 + i \in 1..Len(front) /\ 2 + i \in 1..Len(body)
    BY <1>1, <1>2, <1>4
  <2> QED
    BY <1>1, <1>2, <1>3, <2>2
<1>8. \A i \in 1..Len(frame) : data[2 + Len(chain) + i] = frame[i]
  <2>1. TAKE i \in 1..Len(frame)
  <2>2. Len(front) + i \in 1..Len(body) /\ Len(front) + i = 2 + Len(chain) + i
    BY <1>1, <1>2, <1>4
  <2> QED
    BY <1>2, <1>3, <2>2, ZenonT(60)
<1> QED
  BY <1>3, <1>5, <1>6, <1>7, <1>8

LEMMA PaddedFrame ==
  ASSUME NEW data \in Seq(Nat), Code(data[1]) = 3, data[2] = 65,
         NEW pad \in Nat \ {0}, Len(PadLengths(pad)) \in Nat, Len(PadLengths(pad)) <= pad,
         NEW frame \in Seq(Nat), Len(data) = Len(frame) + pad + 2,
         \A i \in 1..Len(PadLengths(pad)) : data[2 + i] = PadLengths(pad)[i],
         \A i \in 1..Len(frame) : data[2 + Len(PadLengths(pad)) + i] = frame[i]
  PROVE  FramePayloads(data) = <<frame>>
<1> DEFINE k == Len(PadLengths(pad))
           at == 3 + k
           more == pad - k
           first == 3
           count == 65
<1>1. Len(frame) \in Nat
  OBVIOUS
<1>2. ParsePadding(data, first) = [pad |-> more, at |-> at]
  <2>1. first \in Nat \ {0} /\ first - 1 = 2
    OBVIOUS
  <2>2. 2 + k <= Len(data)
    BY <1>1
  <2> HIDE DEF first
  <2>3. first - 1 + Len(PadLengths(pad)) <= Len(data)
    BY <2>1, <2>2
  <2>4. \A i \in 1..Len(PadLengths(pad)) : data[first - 1 + i] = PadLengths(pad)[i]
    BY <2>1
  <2>5. ParsePadding(data, first)
        = [pad |-> pad - Len(PadLengths(pad)), at |-> first + Len(PadLengths(pad))]
    BY <2>1, <2>3, <2>4, ChainParsed, ZenonT(60)
  <2> QED
    BY <2>5 DEF first
<1>3. SubSeq(data, 2 + k + 1, 2 + k + Len(frame)) = frame
  <2> DEFINE before == 2 + k
  <2>1. before \in Nat /\ before + Len(frame) <= Len(data)
    BY <1>1, SMTT(60)
  <2>2. \A i \in 1..Len(frame) : data[before + i] = frame[i]
    OBVIOUS
  <2> HIDE DEF before
  <2>3. SubSeq(data, before + 1, before + Len(frame)) = frame
    BY <2>1, <2>2, Part
  <2> QED
    BY <2>3 DEF before
<1>4. at = 2 + k + 1 /\ Len(data) - more = 2 + k + Len(frame)
  BY <1>1
<1>5. /\ count \in {1, 65} /\ data[2] = count /\ ~(count = 1)
      /\ more \in Nat /\ at \in Nat /\ at >= 3
      /\ at - 1 + more <= Len(data) /\ Len(data) >= 2 /\ Code(data[1]) = 3
  BY <1>1, SMTT(60)
<1>6. ParsePadding(data, 3) = [pad |-> more, at |-> at]
  BY <1>2
<1> HIDE DEF more, at, count, first
<1>7. FramePayloads(data) = <<SubSeq(data, at, Len(data) - more)>>
  <2>1. data \in Seq(Nat) /\ Code(data[1]) = 3 /\ Len(data) >= 2
    BY <1>5
  <2>2. (count = 65 => ParsePadding(data, 3) = [pad |-> more, at |-> at])
        /\ (count = 1 => more = 0 /\ at = 3)
    BY <1>5, <1>6
  <2> QED
    BY <1>5, <2>1, <2>2, OneFrame, ZenonT(120)
<1>8. SubSeq(data, at, Len(data) - more) = frame
  BY <1>3, <1>4
<1> QED
  BY <1>7, <1>8

\* Theorem: the SILK-only packet of encode() is exactly as long as it was to
\* be, whether nothing, one byte or a chain of padding fills it up, and
\* frame_payloads() finds in it the one frame that was put in, whole and
\* without a byte of padding.
THEOREM SilkPacketReturns ==
  ASSUME NEW units \in Nat, NEW frame \in Seq(0..ByteMax), NEW total \in Nat, total > Len(frame)
  PROVE  SilkReturns(units, frame, total)
<1> DEFINE n == Len(frame)
           packet == SilkPacket(units, frame, total)
           pad == total - n - 2
<1>0. n \in Nat /\ frame \in Seq(Nat)
  BY ByteRange
<1>1. CASE n + 1 = total
  <2>1. SubSeq(frame, 1, n) = frame /\ n + 1 >= total /\ n < total
    BY <1>0, <1>1
  <2>2. packet = <<Toc(0, units)>> \o SubSeq(frame, 1, IF n < total THEN n ELSE total - 1)
    BY <2>1, SMTT(60) DEF SilkPacket
  <2> HIDE DEF packet
  <2>3. Toc(0, units) \in Nat /\ Code(Toc(0, units)) = 0
    <3>1. 0 \in 0..3
      OBVIOUS
    <3> QED
      BY <3>1, TocIs
  <2>4. Len(packet) = n + 1 /\ FramePayloads(packet) = <<frame>>
    BY <1>0, <2>1, <2>2, <2>3, BareFrame, ZenonT(60)
  <2> QED
    BY <1>1, <2>4 DEF SilkReturns, packet
<1>2. CASE n + 2 = total
  <2>1. ~(n + 1 >= total)
    BY <1>0, <1>2
  <2>2. packet = <<Toc(3, units), 1>> \o frame
    BY <1>2, <2>1, CountIs DEF SilkPacket
  <2> HIDE DEF packet
  <2>3. Toc(3, units) \in Nat /\ Code(Toc(3, units)) = 3
    <3>1. 3 \in 0..3
      OBVIOUS
    <3> QED
      BY <3>1, TocIs
  <2>4. Len(packet) = n + 2 /\ FramePayloads(packet) = <<frame>>
    BY <1>0, <2>2, <2>3, UnpaddedFrame
  <2> QED
    BY <1>2, <2>4 DEF SilkReturns, packet
<1>3. CASE n + 2 < total
  <2> DEFINE m == pad - Len(PadLengths(pad))
             zeros == [i \in 1..m |-> 0]
  <2>1. ~(n + 1 >= total) /\ ~(n + 2 = total) /\ pad \in Nat \ {0}
    BY <1>0, <1>3
  <2>2. packet = <<Toc(3, units), Count(1, TRUE, FALSE)>> \o PadLengths(pad) \o frame \o zeros
    BY <2>1 DEF SilkPacket
  <2> HIDE DEF packet, pad
  <2>3. m \in Nat
    <3>1. PICK full \in Nat, left \in 0..ByteMax - 1 :
            pad = full * ByteMax + left + 1 /\ Len(PadLengths(pad)) = full + 1
      BY <2>1, PadShape
    <3>2. full * ByteMax \in Int /\ full * ByteMax >= full
      BY ByteRange
    <3> DEFINE product == full * ByteMax
    <3> HIDE DEF product
    <3>3. product \in Int /\ product >= full /\ pad = product + left + 1
      BY <3>1, <3>2 DEF product
    <3> QED
      BY <3>1, <3>3, ByteRange
  <2> HIDE DEF m
  <2>4. zeros \in Seq(Nat) /\ Len(zeros) = m
    BY <2>3
  <2> HIDE DEF zeros
  <2>5. Toc(3, units) \in Nat /\ Code(Toc(3, units)) = 3
    <3>1. 3 \in 0..3
      OBVIOUS
    <3> QED
      BY <3>1, TocIs
  <2>6. PadLengths(pad) \in Seq(Nat) /\ Len(PadLengths(pad)) <= pad
    <3>1. PadLengths(pad) \in Seq(0..ByteMax)
      BY <2>1, PadShape
    <3>2. PadLengths(pad) \in Seq(Nat)
      BY <3>1, ByteRange
    <3> QED
      BY <2>1, <2>3, <3>2 DEF m
  <2>7. packet = <<Toc(3, units), 65>> \o PadLengths(pad) \o frame \o zeros
    BY <2>2, CountIs
  <2>8. /\ packet \in Seq(Nat)
        /\ Len(packet) = Len(PadLengths(pad)) + Len(frame) + Len(zeros) + 2
        /\ packet[1] = Toc(3, units) /\ packet[2] = 65
        /\ \A i \in 1..Len(PadLengths(pad)) : packet[2 + i] = PadLengths(pad)[i]
        /\ \A i \in 1..Len(frame) : packet[2 + Len(PadLengths(pad)) + i] = frame[i]
    <3> DEFINE toc == Toc(3, units)
               chain == PadLengths(pad)
    <3>1. toc \in Nat /\ chain \in Seq(Nat) /\ zeros \in Seq(Nat) /\ frame \in Seq(Nat)
      BY <1>0, <2>4, <2>5, <2>6
    <3>2. packet = <<toc, 65>> \o chain \o frame \o zeros
      BY <2>7
    <3> HIDE DEF toc, chain
    <3>3. /\ packet \in Seq(Nat)
          /\ Len(packet) = Len(chain) + Len(frame) + Len(zeros) + 2
          /\ packet[1] = toc /\ packet[2] = 65
          /\ \A i \in 1..Len(chain) : packet[2 + i] = chain[i]
          /\ \A i \in 1..Len(frame) : packet[2 + Len(chain) + i] = frame[i]
      BY <3>1, <3>2, PaddedBytes, SMTT(60)
    <3> QED
      BY <3>3 DEF toc, chain
  <2>9. Len(PadLengths(pad)) \in Nat /\ Len(zeros) = pad - Len(PadLengths(pad)) /\ Len(frame) = n
    BY <2>4, <2>6 DEF m
  <2>10. Len(packet) = Len(frame) + pad + 2
    BY <1>0, <2>1, <2>8, <2>9
  <2>11. Len(frame) + pad + 2 = total
    BY <1>0 DEF pad
  <2>12. Code(packet[1]) = 3
    BY <2>5, <2>8
  <2> HIDE DEF n
  <2>13. FramePayloads(packet) = <<frame>>
    BY <1>0, <2>1, <2>6, <2>8, <2>9, <2>10, <2>12, PaddedFrame, ZenonT(30)
  <2> QED
    BY <2>10, <2>11, <2>13 DEF SilkReturns, packet
<1> QED
  BY <1>0, <1>1, <1>2, <1>3
=============================================================================
