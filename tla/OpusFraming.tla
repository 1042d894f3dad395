----------------------------- MODULE OpusFraming ----------------------------
(***************************************************************************)
(* How frames are laid out in a packet: the writers of src/src/lib.rs (the *)
(* packet of 20 ms sub-frames and the padded SILK-only packet), the parser *)
(* frame_payloads() and, from src/src/multistream.rs, the sub-packets of a *)
(* multistream packet and the decoder that shares them out.                *)
(*                                                                         *)
(* A packet is a sequence of numbers.  A length byte counts up to LongSize *)
(* + 3, which is 255 in the code; a ToC byte is its frame's duration (in   *)
(* some unit) times four, plus its code.                                   *)
(*                                                                         *)
(* An operator Mut<Name> is <Name> with a slip the properties must catch;  *)
(* nothing here uses it.                                                   *)
(***************************************************************************)
EXTENDS Integers, Sequences, SequencesExt

CONSTANTS
  LongSize,     \* lengths from here on take two bytes (252)
  MaxFrames,    \* most frames of a packet (48)
  Error,        \* what a parser returns of a malformed packet
  Silent        \* the entry of a mapping that plays no stream (255)

ASSUME LongSizeIsEven == LongSize \in Nat \ {0} /\ LongSize % 4 = 0
ASSUME SomeFrames == MaxFrames \in Nat \ {0}
ASSUME ErrorIsNoResult == Error \notin [pad : Nat, at : Nat]

ByteMax == LongSize + 3
Total(lengths) == FoldLeft(+, 0, lengths)
Lengths(frames) == [i \in DOMAIN frames |-> Len(frames[i])]

Toc(code, units) == code + 4 * units
Code(toc) == toc % 4
Units(toc) == toc \div 4

\* The second byte of a code 3 packet.
Count(m, padding, vbr) == m + (IF padding THEN 64 ELSE 0) + (IF vbr THEN 128 ELSE 0)
FrameCount(count) == count % 64
Padded(count) == (count \div 64) % 2 = 1
Vbr(count) == count \div 128 = 1

From(data, i) == SubSeq(data, i, Len(data))

\* The pieces of data with these lengths, one after the other from position i.
Cut(data, i, lengths) ==
  [j \in DOMAIN lengths |->
     LET start == i + Total(SubSeq(lengths, 1, j - 1))
     IN  SubSeq(data, start, start + lengths[j] - 1)]

-----------------------------------------------------------------------------
(* Writers.                                                                *)

PutSize(n) ==
  LET first == LongSize + (n % 4)
  IN  IF n < LongSize THEN <<n>> ELSE <<first, (n - first) \div 4>>

\* Every length but the last, then every frame.
JoinSubFrames(units, frames) ==
  LET m == Len(frames)
      sizes == FlattenSeq([i \in 1..m - 1 |-> PutSize(Len(frames[i]))])
      head == IF m = 2 THEN <<Toc(2, units)>>
              ELSE <<Toc(3, units), Count(m, FALSE, TRUE)>>
  IN  head \o sizes \o FlattenSeq(frames)

\* The lengths of the padding: a full byte adds one less than it says.
PadLengths(n) ==
  LET full == (n - 1) \div ByteMax
  IN  [i \in 1..full |-> ByteMax] \o <<n - ByteMax * full - 1>>

\* A SILK-only packet, padded under CBR.
SilkPacket(units, frame, total) ==
  LET n == Len(frame)
      pad == total - n - 2
      lengths == PadLengths(pad)
  IN  CASE n + 1 >= total ->
             <<Toc(0, units)>> \o SubSeq(frame, 1, IF n < total THEN n ELSE total - 1)
        [] n + 2 = total -> <<Toc(3, units), Count(1, FALSE, FALSE)>> \o frame
        [] OTHER -> <<Toc(3, units), Count(1, TRUE, FALSE)>>
                    \o lengths \o frame \o [i \in 1..pad - Len(lengths) |-> 0]

-----------------------------------------------------------------------------
(* The parser.                                                             *)

\* A length and how many bytes it took.
ParseFrameSize(data) ==
  CASE data = <<>> -> Error
    [] data # <<>> /\ data[1] < LongSize -> <<data[1], 1>>
    [] data # <<>> /\ data[1] >= LongSize /\ Len(data) = 1 -> Error
    [] OTHER -> <<data[2] * 4 + data[1], 2>>

\* n lengths in a row: the lengths and the position after them.
ParseSizes(data, at, n) ==
  LET One(acc, i) ==
        LET size == IF acc = Error THEN Error ELSE ParseFrameSize(From(data, acc.at))
        IN  IF size = Error THEN Error
            ELSE [sizes |-> Append(acc.sizes, size[1]), at |-> acc.at + size[2]]
  IN  FoldLeft(One, [sizes |-> <<>>, at |-> at], [i \in 1..n |-> i])

\* The chain of padding lengths: the padding and the position after the chain.
MutParsePadding(data, at) ==
  LET ends == {i \in at..Len(data) : data[i] # ByteMax /\ \A j \in at..i - 1 : data[j] = ByteMax}
  IN  IF ends = {} THEN Error
      ELSE LET last == CHOOSE i \in ends : TRUE
           IN  [pad |-> (last - at) * ByteMax + data[last], at |-> last + 1]
ParsePadding(data, at) ==
  LET ends == {i \in at..Len(data) : data[i] # ByteMax /\ \A j \in at..i - 1 : data[j] = ByteMax}
  IN  IF ends = {} THEN Error
      ELSE LET last == CHOOSE i \in ends : TRUE
           IN  [pad |-> (last - at) * (ByteMax - 1) + data[last], at |-> last + 1]

ParseCode1(data) ==
  LET half == (Len(data) - 1) \div 2
  IN  IF (Len(data) - 1) % 2 = 1 \/ half = 0 THEN Error ELSE Cut(data, 2, <<half, half>>)

ParseCode2(data) ==
  LET size == ParseFrameSize(From(data, 2))
  IN  IF size = Error THEN Error
      ELSE IF 1 + size[2] + size[1] > Len(data) THEN Error
      ELSE Cut(data, 2 + size[2], <<size[1], Len(data) - 1 - size[2] - size[1]>>)

\* The frames of data, of which the last `pad` bytes are padding.
ParseFrames(data, at, pad, count) ==
  LET m == FrameCount(count)
      left == Len(data) - pad - at + 1
      p == ParseSizes(SubSeq(data, 1, Len(data) - pad), at, m - 1)
  IN  CASE m = 1 -> Cut(data, at, <<left>>)
        [] m > 1 /\ Vbr(count) ->
             IF p = Error THEN Error
             ELSE LET last == left - (p.at - at) - Total(p.sizes)
                  IN  IF last < 0 THEN Error ELSE Cut(data, p.at, Append(p.sizes, last))
        [] m > 1 /\ ~Vbr(count) ->
             IF left % m # 0 THEN Error ELSE Cut(data, at, [i \in 1..m |-> left \div m])

ParseCode3(data) ==
  LET count == data[2]
      p == IF Padded(count) THEN ParsePadding(data, 3) ELSE [pad |-> 0, at |-> 3]
  IN  IF FrameCount(count) \notin 1..MaxFrames \/ p = Error THEN Error
      ELSE IF p.at - 1 + p.pad > Len(data) THEN Error
      ELSE ParseFrames(data, p.at, p.pad, count)

\* For a packet of at least two bytes; a shorter one is a lost one.
FramePayloads(data) ==
  CASE Code(data[1]) = 0 -> <<From(data, 2)>>
    [] Code(data[1]) = 1 -> ParseCode1(data)
    [] Code(data[1]) = 2 -> ParseCode2(data)
    [] Code(data[1]) = 3 -> ParseCode3(data)

-----------------------------------------------------------------------------
(* Self-delimited packets (RFC 6716, appendix B), which name the length of *)
(* their last frame too.                                                   *)

\* External: how such a packet is written.
Delimited(toc, count, frames, padding) ==
  LET m == Len(frames)
      Sizes(n) == FlattenSeq([i \in 1..n |-> PutSize(Len(frames[i]))])
      body == FlattenSeq(frames)
      pads == IF Padded(count) THEN PadLengths(padding) ELSE <<>>
  IN  CASE Code(toc) \in {0, 1} -> <<toc>> \o Sizes(1) \o body
        [] Code(toc) = 2 -> <<toc>> \o Sizes(2) \o body
        [] Code(toc) = 3 -> <<toc, count>> \o pads \o Sizes(IF Vbr(count) THEN m ELSE 1) \o body
                           \o [i \in 1..padding - Len(pads) |-> 0]

\* How many lengths it has, how many frames they are for, and which of the
\* lengths a packet alone keeps.
SplitShape(code, count) ==
  CASE code = 0 -> [sizes |-> 1, frames |-> 1, kept |-> 0]
    [] code = 1 -> [sizes |-> 1, frames |-> 2, kept |-> 0]
    [] code = 2 -> [sizes |-> 2, frames |-> 2, kept |-> 1]
    [] code = 3 /\ Vbr(count) -> [sizes |-> FrameCount(count), frames |-> FrameCount(count),
                                  kept |-> FrameCount(count) - 1]
    [] code = 3 /\ ~Vbr(count) -> [sizes |-> 1, frames |-> FrameCount(count), kept |-> 0]

\* The first packet as it would be alone, and how much of data it took.
SplitSelfDelimited(data) ==
  LET code == Code(data[1])
      count == IF code = 3 THEN data[2] ELSE Count(1, FALSE, FALSE)
      head == IF code = 3 THEN 2 ELSE 1
      p == IF Padded(count) THEN ParsePadding(data, head + 1) ELSE [pad |-> 0, at |-> head + 1]
      shape == SplitShape(code, count)
      s == IF p = Error THEN Error ELSE ParseSizes(data, p.at, shape.sizes)
      kept == ParseSizes(data, p.at, shape.kept).at
      all == IF Len(s.sizes) = shape.frames THEN s.sizes ELSE [i \in 1..shape.frames |-> s.sizes[1]]
      end == s.at - 1 + Total(all) + p.pad
  IN  CASE data = <<>> -> Error
        [] data # <<>> /\ code = 3 /\ Len(data) = 1 -> Error
        [] data # <<>> /\ ~(code = 3 /\ Len(data) = 1) ->
             IF FrameCount(count) = 0 THEN Error
             ELSE IF s = Error THEN Error
             ELSE IF end > Len(data) THEN Error
             ELSE [packet |-> SubSeq(data, 1, kept - 1) \o SubSeq(data, s.at, end), consumed |-> end]

-----------------------------------------------------------------------------
(* The multistream decoder: one decoder per stream, the coupled ones first *)
(* and in stereo, and a table from output channels to decoded ones.        *)

TableFits(table) == Len(table.mapping) = table.channels /\ table.coupled <= table.streams

\* What one stream's decoder does with its packet: its samples per channel.
\* Of a lost packet it makes as many as it is asked for.
DecodeStream(data, frameSize) ==
  IF Len(data) <= 1 THEN frameSize
  ELSE LET frames == FramePayloads(data)
       IN  IF frames = Error THEN Error
           ELSE IF Len(frames) * Units(data[1]) > frameSize THEN Error
           ELSE Len(frames) * Units(data[1])

\* One call: the streams in turn, until one fails.  "moved" are the streams
\* whose decoders have taken their packets.
MultistreamDecode(table, packet, frameSize) ==
  LET Stream(acc, i) ==
        LET last == i = table.streams
            split == IF last THEN [packet |-> acc.rest, consumed |-> 0] ELSE SplitSelfDelimited(acc.rest)
            n == IF split = Error THEN Error ELSE DecodeStream(split.packet, frameSize)
            channels == IF i <= table.coupled THEN <<<<i, 1>>, <<i, 2>>>> ELSE <<<<i, 1>>>>
        IN  CASE ~acc.ok -> acc
              [] acc.ok /\ n = Error -> [acc EXCEPT !.ok = FALSE]
              [] acc.ok /\ n # Error /\ i > 1 /\ n # acc.n ->
                   [acc EXCEPT !.ok = FALSE, !.moved = @ \cup {i}]
              [] OTHER -> [ok |-> TRUE, n |-> n, moved |-> acc.moved \cup {i},
                           rest |-> From(acc.rest, split.consumed + 1),
                           decoded |-> acc.decoded \o channels]
      done == FoldLeft(Stream, [ok |-> TRUE, n |-> 0, moved |-> {}, rest |-> packet, decoded |-> <<>>],
                       [i \in 1..table.streams |-> i])
      Out(c) == IF table.mapping[c] = Silent THEN Silent ELSE done.decoded[table.mapping[c] + 1]
  IN  [ok |-> done.ok, n |-> done.n, moved |-> done.moved,
       out |-> IF done.ok THEN [c \in 1..table.channels |-> Out(c)] ELSE <<>>]

-----------------------------------------------------------------------------
(* Properties of one packet.                                               *)

\* What the packets of 20 ms sub-frames parse back to.
JoinReturns(units, frames) == FramePayloads(JoinSubFrames(units, frames)) = frames

\* A padded SILK-only packet is as long as it was to be, and its frame is whole.
SilkReturns(units, frame, total) ==
  LET packet == SilkPacket(units, frame, total)
  IN  Len(packet) = total /\ FramePayloads(packet) = <<frame>>

\* A self-delimited packet is cut off where it ends, whatever follows, and
\* what is left of it parses to its frames.
SplitReturns(toc, count, frames, padding, tail) ==
  LET written == Delimited(toc, count, frames, padding)
      split == SplitSelfDelimited(written \o tail)
  IN  split.consumed = Len(written) /\ FramePayloads(split.packet) = frames

\* Of any bytes, either no frame is made or frames that lie in them one after
\* the other: nothing is read twice or from outside.
FramesLieInside(data) ==
  LET frames == FramePayloads(data)
  IN  frames # Error =>
        \E i \in 1..Len(data) : LET body == FlattenSeq(frames) IN
          i + Len(body) <= Len(data) /\ SubSeq(data, i + 1, i + Len(body)) = body

\* A packet that decodes moved every stream, and each output channel carries
\* the channel its table names; one that does not moved no stream from the
\* failing one on.
StreamsShareOut(table, packet, frameSize) ==
  LET r == MultistreamDecode(table, packet, frameSize)
      ChannelOf(v) == IF v < 2 * table.coupled THEN <<(v \div 2) + 1, (v % 2) + 1>>
                      ELSE <<v - table.coupled + 1, 1>>
  IN  /\ r.ok => /\ r.moved = 1..table.streams
                 /\ \A c \in 1..table.channels :
                      r.out[c] = (IF table.mapping[c] = Silent THEN Silent ELSE ChannelOf(table.mapping[c]))
      /\ ~r.ok => \E i \in 0..table.streams : r.moved = 1..i
=============================================================================
