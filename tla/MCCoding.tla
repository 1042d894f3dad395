------------------------------ MODULE MCCoding -------------------------------
(* Inputs small enough to enumerate and large enough to reach every search, *)
(* every length coding, an escape, a trellis that prunes, fades of filters. *)
EXTENDS Coding

Bands ==
  [x : [1..2 -> -2..2] \cup UNION {[1..n -> {0, 1, -2}] : n \in 3..5} \cup
       [1..6 -> {1, -2}], k : {1, 2, 5}, build : {"scalar", "avx2", "neon"},
   blocks : {1, 2}]
Counts == [n : 1..6, k : 1..4]
UnitVectors(n) == {[i \in 1..n |-> IF i = j THEN 1 ELSE 0] : j \in 1..n}
Spreads == [x : UNION {UnitVectors(2 * n) : n \in 1..8}, stride : {1, 2}]

\* A frame whose bytes tell it from others.
Frame(n, tag) == [i \in 1..n |-> 100 * tag + i]
FramesOf(lengths) == [i \in DOMAIN lengths |-> Frame(lengths[i], i)]
SomeLengths == {0, 3, 4, 7, 9}
Joins == [frames : {FramesOf(l) : l \in UNION {[1..m -> SomeLengths] : m \in 2..3}}]
Silks == UNION {[frame : {Frame(n, 1)}, total : n + 1..n + 24] : n \in 0..6}

Tails == {<<>>, <<0>>, <<7, 7>>}
Split(code, m, vbr, pads) ==
  LET lengths == {l \in [1..m -> SomeLengths] :
                    /\ code = 2 \/ vbr \/ \A i \in 1..m : l[i] = l[1]
                    /\ code = 1 => l[1] > 0}
  IN  [toc : {Toc(code, 2)}, count : {Count(m, pads # {0}, vbr)}, padding : pads,
       frames : {FramesOf(l) : l \in lengths}, tail : Tails]
Splits2 ==
  Split(0, 1, FALSE, {0}) \cup Split(1, 2, FALSE, {0}) \cup Split(2, 2, FALSE, {0}) \cup
  UNION {Split(3, m, vbr, pads) : m \in 1..3, vbr \in BOOLEAN, pads \in {{0}, {1, 7, 8, 14, 15, 16}}}
Bytes ==
  [data : {<<Toc(c, 1)>> \o d : c \in 0..2, d \in UNION {[1..n -> {0, 1, 2, 4, 6, 7}] : n \in 1..4}}
          \cup {<<Toc(3, 1), c>> \o d : c \in {Count(m, p, v) : m \in {0, 1, 2, 3, 49}, p \in BOOLEAN, v \in BOOLEAN},
                                        d \in UNION {[1..n -> {0, 1, 2, 7}] : n \in 0..4}}]

\* Stereo and mono streams, packets that last as long, longer, that are empty
\* or malformed.
Table(streams, coupled, mapping) ==
  [streams |-> streams, coupled |-> coupled, channels |-> Len(mapping), mapping |-> mapping]
Tables == {Table(1, 1, <<1, 0>>), Table(2, 1, <<0, 2, 1>>), Table(2, 0, <<1, Silent, 0>>),
           Table(3, 1, <<2, 0, 3, 1>>)}
Inner == {<<Toc(0, 2)>> \o Frame(3, 1), <<Toc(1, 1)>> \o Frame(4, 1), <<Toc(0, 1)>> \o Frame(5, 1),
          <<Toc(1, 1)>> \o Frame(3, 1), <<Toc(0, 2)>>}
Outer == {Delimited(Toc(0, 2), 1, FramesOf(<<3>>), 0), Delimited(Toc(1, 1), 2, FramesOf(<<4, 4>>), 0),
          Delimited(Toc(3, 1), Count(2, TRUE, TRUE), FramesOf(<<2, 5>>), 8),
          Delimited(Toc(0, 1), 1, FramesOf(<<5>>), 0), <<Toc(2, 1), 4>>, <<>>}
Streams ==
  UNION {[table : {t}, size : {2, 3},
          packet : {FlattenSeq(o) \o i : o \in [1..t.streams - 1 -> Outer], i \in Inner}] : t \in Tables}

Tails4 == {<<0, 0, 0, 0>>, <<1, 1, 0, 0>>, <<0, -1, 2, 7>>}
Pulses == {[pulses |-> a \o t, n |-> n] :
             a \in [1..4 -> {0, 1, -2, 7}], t \in Tails4, n \in {6, 8}}

Sharp == [i \in 0..2 * MaxAmp |-> 5 * i * i + 3]
Trellises == [x : [1..4 -> {-19, -6, 3, 30}], w : {<<1, 3, 1, 2>>}, mu : {2},
              pred : {<<0, 1, 2, 1>>, <<2, 2, 2, 2>>}, rates : {<<Sharp, Sharp, Sharp, Sharp>>}]
Sorts == [a : [1..4 -> 0..3], k : 1..4]
Gaps == [f : [1..3 -> {0, 3, 4, 9, 15}], min : [1..4 -> {1, 4}]]
Vector(e, w) == [element |-> e, weight |-> w, select |-> <<1, 2, 1>>, table |-> <<1, 1, 1>>, bits |-> 4]
Book == [order |-> 3, one |-> 2, min |-> <<1, 2, 2, 1>>, rates |-> <<Sharp>>,
         pred |-> << <<1, 1, 1>>, <<2, 2, 0>> >>,
         vectors |-> <<Vector(<<2, 6, 11>>, <<2, 3, 2>>), Vector(<<5, 8, 14>>, <<2, 2, 4>>),
                       Vector(<<1, 3, 6>>, <<3, 2, 2>>)>>]
Books == [cb : {Book}, f : [1..3 -> {0, 4, 7, 9, 15}], w : {<<1, 2, 3>>}, mu : {1, 4}, survivors : {1, 2}]

\* The plans of the MDCTs of 2.5 to 20 ms, alone and within the longest, and
\* short ones; an impulse at the start, the end and between.
Ffts == {[base |-> p[1], n |-> p[2], at |-> a] :
           p \in {<<480, 480>>, <<480, 240>>, <<480, 120>>, <<480, 60>>, <<60, 60>>, <<120, 120>>, <<240, 240>>,
                  <<96, 96>>, <<40, 40>>, <<12, 12>>, <<8, 4>>},
           a \in {1, 2, 3, 4}}
CeltFrame(lm, short, period, gain, tapset, cancelled) ==
  [lm |-> lm, short |-> short, cancelled |-> cancelled, period |-> period, gain |-> gain, tapset |-> tapset]
CeltFrames == {CeltFrame(1, FALSE, 3, 0, 1, FALSE), CeltFrame(2, TRUE, 3, 0, 1, FALSE), CeltFrame(0, FALSE, 4, 9, 1, FALSE),
               CeltFrame(2, FALSE, 6, 11, 2, FALSE), CeltFrame(2, FALSE, 6, 11, 2, TRUE), CeltFrame(2, FALSE, 3, 0, 1, FALSE),
               CeltFrame(1, TRUE, 6, 11, 2, TRUE), CeltFrame(0, FALSE, 3, 9, 2, TRUE)}
Signals == [frames : [1..3 -> CeltFrames]]

MCWindow == [i \in 1..4 |-> IF i <= 2 THEN Sine(100 * i) ELSE Cosine(100 * (5 - i))]
MCTaps == << <<3, 5, 7>>, <<100, 20, 0>> >>

MCJobs ==
  [band |-> Bands, count |-> Counts, spread |-> Spreads, join |-> Joins, silk |-> Silks,
   split |-> Splits2, bytes |-> Bytes, streams |-> Streams, pulses |-> Pulses,
   trellis |-> Trellises, sort |-> Sorts, gaps |-> Gaps, book |-> Books,
   fft |-> Ffts, signal |-> Signals]
MCMaxPulses == <<3, 5>>
=============================================================================
