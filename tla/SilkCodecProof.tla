--------------------------- MODULE SilkCodecProof ---------------------------
(* Proofs about SilkCodec, for one channel or two, any number of frames per *)
(* packet, losses of any length and any impairments.                        *)
EXTENDS SilkCodec, TLAPS

(***************************************************************************)
(* What an encoder that knows the flags of the whole packet would write:   *)
(* frame i with the channels' voice activity v and the mid-only frames o.  *)
(***************************************************************************)
CodedIn(o, i) == IF i \in o THEN {Mid} ELSE Chans
CodingIn(o, ch, i) ==
    IF i = 0 THEN "independently"
    ELSE IF ch = Side /\ i - 1 \in o THEN "no_ltp_scaling"
    ELSE "conditionally"
Before(i) == Context("main", i - 1)

HeaderIn(v, i) ==
    If(Channels = 2, <<Pred>> \o If(i \notin v[Side], <<MidOnly>>))
ChannelIn(v, o, ch, i) ==
    If(ch \in CodedIn(o, i),
       <<FrameSymbol(ch, IF i \in v[ch] THEN "vad" ELSE "no_vad",
                     CodingIn(o, ch, i), Before(i))>>)
FrameIn(v, o, i) == HeaderIn(v, i) \o ChannelIn(v, o, Mid, i)
                    \o If(Channels = 2, ChannelIn(v, o, Side, i))
GainIn(o, ch, i) == IF ch \in CodedIn(o, i)
                    THEN GainBase(CodingIn(o, ch, i), Before(i)) ELSE Nothing
GainsIn(o, i) == [ch \in Chans |-> GainIn(o, ch, i)]

\* The frames of the packet that are written.
Written == IF pc = "encode" THEN {i \in Frames : i < n_frames} ELSE Frames

(***************************************************************************)
(* The parts of the inductive invariant.                                   *)
(***************************************************************************)
\* The packet says what the flags in it say.
PacketInv ==
    pc # "idle" =>
      /\ packet.head = <<FlagBits>> \o LbrrSymbols(packet.flags)
      /\ packet.lbrr = LbrrSection(packet.flags)
      /\ DOMAIN packet.frames = Frames
      /\ packet.mid_only \subseteq Written
      /\ \A ch \in Chans : packet.vad[ch] \subseteq Written
      /\ \A i \in packet.mid_only : Channels = 2 /\ i \notin packet.vad[Side]
      /\ \A i \in Written :
            /\ packet.frames[i] = FrameIn(packet.vad, packet.mid_only, i)
            /\ packet.gain[i] = GainsIn(packet.mid_only, i)

\* A side that has gone through the frames before n_frames knows the last
\* of them.
Knows(st) ==
    n_frames > 0 =>
      /\ st.only = IF n_frames - 1 \in packet.mid_only THEN 1 ELSE 0
      /\ \A ch \in CodedIn(packet.mid_only, n_frames - 1) :
            /\ st.ec[ch] = Before(n_frames)
            /\ st.gain[ch] = Before(n_frames)

ContextInv ==
    /\ pc = "encode" => Knows(enc)
    /\ pc = "decode" => Knows(dec)
    /\ pc = "fec" /\ n_frames > 0 =>
          \A ch \in Chans : n_frames - 1 \in packet.flags[ch] =>
             dec.ec[ch] = Context("lbrr", n_frames - 1)
    /\ pc \in {"idle", "sent", "arrived"} => n_frames = 0

\* A side whose history has a gap is not coded, and the decoder knows that.
StaleInv == Channels = 2 /\ dec.mem[Side] = "stale" => dec.only = 1

\* Copies are as old as the packet last coded, unless CELT came after it.
CopiesInv ==
    ~celt_before =>
        \A ch \in Chans : \A i \in Frames :
            lbrr[ch][i] = NoCopy \/ lbrr[ch][i].age = "last"

IInv == /\ TypeOK
        /\ PacketInv
        /\ ContextInv
        /\ StaleInv
        /\ CopiesInv
        /\ InStep
        /\ MainGainsAgree
        /\ SideContinues
        /\ FecRepairs

(***************************************************************************)
(* Lemmas about the operators.                                             *)
(***************************************************************************)
\* Constants, and the contexts there always are.
LEMMA Basics ==
    /\ Mid \in Chans /\ 0 \in Frames /\ Frames \subseteq Nat
    /\ Chans = IF Channels = 2 THEN {Mid, Side} ELSE {Mid}
    /\ (Channels = 2) = (Side \in Chans)
    /\ Mid # Side
    /\ Nothing \in Contexts /\ Older \in Contexts
    /\ \A i \in Frames : Context("main", i) \in Contexts
                         /\ Context("lbrr", i) \in Contexts
<1>1. Channels \in {1, 2} /\ FramesPerPacket \in 1..3
  BY ConstantsAssumption
<1>2. Chans = IF Channels = 2 THEN {Mid, Side} ELSE {Mid}
  <2>1. CASE Channels = 2
    <3>1. 1..2 = {1, 2}
      OBVIOUS
    <3>2. QED
      BY <2>1, <3>1 DEF Chans, Mid, Side
  <2>2. CASE Channels = 1
    <3>1. 1..1 = {1}
      OBVIOUS
    <3>2. QED
      BY <2>2, <3>1 DEF Chans, Mid, Side
  <2>3. QED
    BY <1>1, <2>1, <2>2
<1>3. 0 \in Frames /\ Frames \subseteq Nat
  BY <1>1 DEF Frames
<1>4. QED
  BY <1>2, <1>3, <1>1
     DEF Mid, Side, Nothing, Older, Context, Contexts

\* Whether frame i is written the same depends on frame i and, for the
\* coding, on whether the one before it was mid-only.
LEMMA FrameCongruence ==
    ASSUME NEW i \in Frames, NEW v, NEW w, NEW o, NEW p,
           \A ch \in Chans : i \in v[ch] <=> i \in w[ch],
           i \in o <=> i \in p,
           i # 0 => (i - 1 \in o <=> i - 1 \in p)
    PROVE  /\ FrameIn(v, o, i) = FrameIn(w, p, i)
           /\ GainsIn(o, i) = GainsIn(p, i)
<1>1. CodedIn(o, i) = CodedIn(p, i)
  BY DEF CodedIn
<1>2. \A ch \in Chans : CodingIn(o, ch, i) = CodingIn(p, ch, i)
  BY DEF CodingIn
<1>3. \A ch \in Chans : ChannelIn(v, o, ch, i) = ChannelIn(w, p, ch, i)
  BY <1>1, <1>2 DEF ChannelIn
<1>4. HeaderIn(v, i) = HeaderIn(w, i)
  <2>1. CASE Channels = 2
    BY <2>1, Basics DEF HeaderIn, If
  <2>2. CASE Channels # 2
    BY <2>2 DEF HeaderIn, If
  <2>3. QED
    BY <2>1, <2>2
<1>5. FrameIn(v, o, i) = FrameIn(w, p, i)
  <2>1. CASE Channels = 2
    BY <2>1, <1>3, <1>4, Basics DEF FrameIn
  <2>2. CASE Channels # 2
    BY <2>2, <1>3, <1>4, Basics DEF FrameIn, If
  <2>3. QED
    BY <2>1, <2>2
<1>6. \A ch \in Chans : GainIn(o, ch, i) = GainIn(p, ch, i)
  BY <1>1, <1>2 DEF GainIn
<1>7. QED
  BY <1>5, <1>6 DEF GainsIn

\* The decoder skips the LBRR section that the encoder writes.
LEMMA SectionsAgree ==
    /\ DecodeHead = <<FlagBits>> \o LbrrSymbols(packet.flags)
    /\ SkippedSection = LbrrSection(packet.flags)
    /\ \A i \in Frames :
          LbrrSection(packet.flags)[i] =
              DecodeLbrrHeader(i) \o SkippedFrame(Mid, i)
              \o If(Channels = 2, SkippedFrame(Side, i))
<1>1. \A i \in Frames : DecodeLbrrHeader(i) = LbrrHeader(packet.flags, i)
  BY DEF DecodeLbrrHeader, LbrrHeader, If
<1>2. \A i \in Frames : \A ch \in {Mid, Side} :
        SkippedFrame(ch, i) = LbrrFrame(packet.flags, ch, i)
  BY DEF SkippedFrame, LbrrFrame, DecodeLbrrCoding, LbrrCoding
<1>3. (FramesPerPacket # 1) = (FramesPerPacket > 1)
  BY ConstantsAssumption
<1>4. If(packet.flags[Mid] # {} /\ FramesPerPacket # 1, <<LbrrSymbol(Mid)>>) =
      If(FramesPerPacket > 1 /\ packet.flags[Mid] # {}, <<LbrrSymbol(Mid)>>)
  BY <1>3 DEF If
<1>5. If(Channels = 2, If(packet.flags[Side] # {} /\ FramesPerPacket # 1,
                          <<LbrrSymbol(Side)>>)) =
      If(Channels = 2 /\ FramesPerPacket > 1 /\ packet.flags[Side] # {},
         <<LbrrSymbol(Side)>>)
  BY <1>3, SMTT(60) DEF If
<1>6. DecodeHead = <<FlagBits>> \o LbrrSymbols(packet.flags)
  BY <1>4, <1>5 DEF DecodeHead, LbrrSymbols
<1>7. \A i \in Frames :
        LbrrHeader(packet.flags, i) \o LbrrFrame(packet.flags, Mid, i)
        \o If(Channels = 2, LbrrFrame(packet.flags, Side, i)) =
        DecodeLbrrHeader(i) \o SkippedFrame(Mid, i)
        \o If(Channels = 2, SkippedFrame(Side, i))
  BY <1>1, <1>2
<1>8. SkippedSection = LbrrSection(packet.flags)
  BY <1>7 DEF SkippedSection, LbrrSection
<1>9. QED
  BY <1>6, <1>7, <1>8 DEF LbrrSection

\* The last frame before i of S is i - 1 if that is in S.
LEMMA LastOfPrevious ==
    ASSUME NEW S \in SUBSET Frames, NEW i \in Frames, i > 0, i - 1 \in S,
           NEW before
    PROVE  LastOf(S, i, before) = Context("lbrr", i - 1)
<1> DEFINE P(j) == j < i /\ \A k \in S : k < i => k =< j
<1>1. i \in Nat /\ S \subseteq Nat
  BY Basics
<1>2. P(i - 1)
  BY <1>1
<1>3. \A j \in S : P(j) => j = i - 1
  BY <1>1
<1>4. (CHOOSE j \in S : P(j)) = i - 1
  BY <1>2, <1>3
<1>5. \E j \in S : j < i
  BY <1>1
<1>6. QED
  BY <1>4, <1>5 DEF LastOf

(***************************************************************************)
(* Types.                                                                  *)
(***************************************************************************)
\* What changes a side's record keeps it one.
LEMMA SideTypes ==
    ASSUME NEW st \in SideInfo, NEW reset \in SUBSET Chans, NEW ran,
           NEW coded \in SUBSET Chans, NEW ctx \in Contexts,
           NEW only \in {0, 1}
    PROVE  /\ Step(st, reset, ran, coded, ctx, only) \in SideInfo
           /\ Ended(st) \in SideInfo
           /\ dec \in SideInfo => Concealed(st) \in SideInfo
<1> USE Basics
<1>1. \A ch \in Chans :
        /\ st.mem[ch] \in Memories
        /\ st.gain[ch] \in Contexts
        /\ st.ec[ch] \in Contexts
  BY DEF SideInfo
<1>2. Step(st, reset, ran, coded, ctx, only) \in SideInfo
  <2>1. (st.first \cup reset) \ coded \in SUBSET Chans
    BY DEF SideInfo
  <2>2. \A mem \in Memories : /\ Skipped(mem) \in Memories
                             /\ Continued(mem) \in Memories
    BY DEF Memories, Skipped, Continued
  <2>3. "fresh" \in Memories /\ "follows" \in Memories
    BY DEF Memories
  <2>4. [ch \in Chans |->
           IF ch \in reset THEN IF ch \in ran THEN "follows" ELSE "fresh"
           ELSE IF ch \in ran THEN Continued(st.mem[ch])
           ELSE Skipped(st.mem[ch])] \in [Chans -> Memories]
    BY <1>1, <2>2, <2>3
  <2>5. [ch \in Chans |->
           IF ch \in coded THEN ctx
           ELSE IF ch \in reset THEN Older ELSE st.gain[ch]]
        \in [Chans -> Contexts]
    BY <1>1
  <2>6. [ch \in Chans |-> IF ch \in coded THEN ctx ELSE st.ec[ch]]
        \in [Chans -> Contexts]
    BY <1>1
  <2>7. QED
    BY <2>1, <2>4, <2>5, <2>6 DEF Step, SideInfo
<1>3. Ended(st) \in SideInfo
  BY DEF Ended, SideInfo
<1>4. dec \in SideInfo => Concealed(st) \in SideInfo
  BY DEF Concealed, SideInfo
<1>5. QED
  BY <1>2, <1>3, <1>4

LEMMA FreshType == Fresh \in SideInfo
BY Basics DEF Fresh, SideInfo, Memories

\* LBRR runs end in a context.
LEMMA LastOfType ==
    ASSUME NEW S \in SUBSET Frames, NEW i
    PROVE  LastOf(S, i, Older) \in Contexts
<1>1. CASE \E j \in S : j < i
  <2>1. \A j \in Frames : Context("lbrr", j) \in Contexts
    BY Basics
  <2>2. PICK j \in S : j < i /\ \A k \in S : k < i => k =< j
    <3>1. S \subseteq Nat /\ S \subseteq 0..2
      BY ConstantsAssumption DEF Frames
    <3>2. \A m \in 0..2 : m \in {0, 1, 2}
      OBVIOUS
    <3>3. CASE 2 \in S /\ 2 < i
      BY <3>1, <3>2, <3>3
    <3>4. CASE ~(2 \in S /\ 2 < i) /\ 1 \in S /\ 1 < i
      BY <3>1, <3>2, <3>4
    <3>5. CASE ~(2 \in S /\ 2 < i) /\ ~(1 \in S /\ 1 < i)
      BY <3>1, <3>2, <3>5, <1>1
    <3>6. QED
      BY <3>3, <3>4, <3>5
  <2>3. (CHOOSE k \in S : k < i /\ \A l \in S : l < i => l =< k) \in S
    BY <2>2
  <2>4. QED
    BY <1>1, <2>1, <2>3 DEF LastOf
<1>2. CASE ~\E j \in S : j < i
  BY <1>2, Basics DEF LastOf
<1>3. QED
  BY <1>1, <1>2

\* What the packet's record must be.
PacketOK(p) ==
    /\ p.flags \in [Chans -> SUBSET Frames]
    /\ p.copies \in [Chans -> [Frames -> Copies]]
    /\ p.vad \in [Chans -> SUBSET Frames]
    /\ p.mid_only \subseteq Frames
    /\ p.lbrr_only \subseteq Frames
    /\ p.gain \in [Frames -> [Chans -> Contexts]]

LEMMA NoPacketOK == PacketOK(NoPacket) /\ NoCopies \in [Frames -> Copies]
<1> USE Basics
<1>1. NoCopies \in [Frames -> Copies]
  BY DEF NoCopies, NoCopy, Copies
<1>2. /\ NoPacket.flags \in [Chans -> SUBSET Frames]
      /\ NoPacket.copies \in [Chans -> [Frames -> Copies]]
      /\ NoPacket.vad \in [Chans -> SUBSET Frames]
      /\ NoPacket.mid_only \subseteq Frames
      /\ NoPacket.lbrr_only \subseteq Frames
  BY <1>1 DEF NoPacket
<1>3. NoPacket.gain \in [Frames -> [Chans -> Contexts]]
  BY DEF NoPacket
<1>4. QED
  BY <1>1, <1>2, <1>3 DEF PacketOK

\* The initial state has the types.
LEMMA InitType == Init => TypeOK
<1> SUFFICES ASSUME Init PROVE TypeOK
  OBVIOUS
<1>1. Fresh \in SideInfo
  BY FreshType
<1>2. PacketOK(packet)
  BY NoPacketOK DEF Init
<1>3. lbrr \in [Chans -> [Frames -> Copies]]
  BY NoPacketOK DEF Init
<1>4. missing \in 0..MaxMissing /\ n_frames \in Frames
  BY Basics, ConstantsAssumption DEF Init
<1>5. channel \subseteq Impairments
  BY DEF Init
<1>6. enc \in SideInfo /\ dec \in SideInfo
  BY <1>1 DEF Init
<1>7. QED
  BY <1>2, <1>3, <1>4, <1>5, <1>6 DEF Init, TypeOK, PacketOK

\* The counter of frames stays among the frames of a packet.
LEMMA NextFrameType == n_frames \in Frames => NextFrame \in Frames
BY ConstantsAssumption DEF NextFrame, Last, Frames

\* Starting a packet preserves the types.
LEMMA StartPacketType ==
    ASSUME NEW fec \in BOOLEAN, NEW fits \in BOOLEAN, NEW stays \in BOOLEAN,
           TypeOK, StartPacket(fec, fits, stays)
    PROVE  TypeOK'
<1> USE Basics
<1>1. enc \in SideInfo /\ lbrr \in [Chans -> [Frames -> Copies]]
  BY DEF TypeOK
<1>2. EncoderAtStart \in SideInfo
  <2>1. \A mem \in Memories : Skipped(mem) \in Memories
    BY DEF Memories, Skipped
  <2>2. [ch \in Chans |-> IF ch = Mid THEN Skipped(enc.mem[Mid]) ELSE "fresh"]
        \in [Chans -> Memories]
    BY <1>1, <2>1 DEF SideInfo, Memories
  <2>3. QED
    BY <1>1, <2>2 DEF EncoderAtStart, SideInfo
<1>3. \A ch \in Chans : KeptCopies(ch) \in [Frames -> Copies]
  BY <1>1, NoPacketOK DEF KeptCopies
<1>4. LbrrFlags(fec, fits) \in [Chans -> SUBSET Frames]
  BY DEF LbrrFlags
<1>5. MidOnlyAtStart \subseteq Frames
  BY DEF MidOnlyAtStart, TypeOK
<1>6. PacketOK(PacketStart(LbrrFlags(fec, fits)))
  BY <1>3, <1>4, <1>5, NoPacketOK DEF PacketOK, PacketStart
<1>7. PacketOK(packet')
  BY <1>6 DEF StartPacket
<1>8. enc' \in SideInfo
  <2>1. [ch \in Chans |-> LastOf(LbrrFlags(fec, fits)[ch], FramesPerPacket,
                                 Older)] \in [Chans -> Contexts]
    BY <1>4, LastOfType
  <2>2. QED
    BY <1>2, <2>1 DEF StartPacket, SideInfo
<1>9. lbrr' \in [Chans -> [Frames -> Copies]]
  BY NoPacketOK DEF StartPacket
<1>10. QED
  BY <1>5, <1>7, <1>8, <1>9 DEF TypeOK, StartPacket, PacketOK

\* Coding a frame preserves the types.
LEMMA EncodeFrameType ==
    ASSUME NEW level, TypeOK, EncodeFrame(level)
    PROVE  TypeOK'
<1> USE Basics
<1>1. n_frames \in Frames /\ enc \in SideInfo
      /\ lbrr \in [Chans -> [Frames -> Copies]] /\ PacketOK(packet)
  BY DEF TypeOK, PacketOK
<1>2. \A coding : \A c \in Contexts : GainBase(coding, c) \in Contexts
  BY DEF GainBase
<1>3. enc' \in SideInfo
  <2>1. Step(enc, ResetForCoding(level), CodedBy(level), CodedBy(level),
             Context("main", n_frames), IF OnlyMid(level) THEN 1 ELSE 0)
        \in SideInfo
    <3>1. ResetForCoding(level) \in SUBSET Chans
      BY DEF ResetForCoding
    <3>2. CodedBy(level) \in SUBSET Chans
      BY DEF CodedBy
    <3>3. QED
      BY <1>1, <3>1, <3>2, SideTypes
  <2>2. QED
    BY <2>1, SideTypes, ZenonT(60) DEF EncodeFrame
<1>4. lbrr' \in [Chans -> [Frames -> Copies]]
  <2>1. \A ch \in Chans : CopyGain(ch) \in Contexts
    <3>1. ~RunStarts(Mid) => n_frames - 1 \in Frames
      BY <1>1, ConstantsAssumption DEF RunStarts, Frames
    <3>2. \A ch \in Chans : ~RunStarts(ch) => n_frames - 1 \in Frames
      BY <1>1, ConstantsAssumption DEF RunStarts, Frames
    <3>3. QED
      BY <1>1, <1>2, <3>2 DEF CopyGain
  <2>2. \A ch \in Chans : [age |-> "last", gain |-> CopyGain(ch)] \in Copies
    BY <2>1 DEF Copies
  <2>3. QED
    BY <1>1, <2>2 DEF EncodeFrame
<1>5. PacketOK(packet')
  <2>1. packet'.vad \in [Chans -> SUBSET Frames]
    BY <1>1 DEF EncodeFrame, PacketOK
  <2>2. packet'.mid_only \subseteq Frames
    BY <1>1 DEF EncodeFrame, PacketOK
  <2>3. packet'.gain \in [Frames -> [Chans -> Contexts]]
    <3>1. [ch \in Chans |-> IF ch \in CodedBy(level)
                            THEN GainBase(EncodeCoding(ch), enc.gain[ch])
                            ELSE Nothing] \in [Chans -> Contexts]
      BY <1>1, <1>2 DEF SideInfo
    <3>2. packet'.gain =
            [packet.gain EXCEPT ![n_frames] =
               [ch \in Chans |-> IF ch \in CodedBy(level)
                                THEN GainBase(EncodeCoding(ch), enc.gain[ch])
                                ELSE Nothing]]
      BY DEF EncodeFrame
    <3>3. QED
      BY <1>1, <3>1, <3>2 DEF PacketOK
  <2>4. /\ packet'.flags = packet.flags
        /\ packet'.copies = packet.copies
        /\ packet'.lbrr_only = packet.lbrr_only
    BY DEF EncodeFrame
  <2>5. QED
    BY <1>1, <2>1, <2>2, <2>3, <2>4 DEF PacketOK
<1>6. mid_only_flags' \subseteq Frames
  BY <1>1 DEF EncodeFrame, TypeOK
<1>7. n_frames' \in Frames
  BY <1>1, NextFrameType DEF EncodeFrame
<1>8. pc' \in {"encode", "sent"}
  BY DEF EncodeFrame
<1>9. QED
  BY <1>3, <1>4, <1>5, <1>6, <1>7, <1>8
     DEF TypeOK, EncodeFrame, PacketOK, decVars

\* The network and the decoder preserve the types.
LEMMA NetworkType == TypeOK /\ Lose => TypeOK'
<1> SUFFICES ASSUME TypeOK, Lose PROVE TypeOK'
  OBVIOUS
<1>1. PacketOK(packet')
  BY NoPacketOK DEF Lose
<1>2. missing' \in 0..MaxMissing
  BY ConstantsAssumption DEF Lose, TypeOK
<1>3. QED
  BY <1>1, <1>2 DEF Lose, TypeOK, PacketOK, encVars, decVars

LEMMA CeltType ==
    ASSUME NEW heard \in BOOLEAN, TypeOK, CeltPackets(heard)
    PROVE  TypeOK'
<1>1. missing' \in 0..MaxMissing
  BY ConstantsAssumption DEF CeltPackets, TypeOK
<1>2. lbrr' \in [Chans -> [Frames -> Copies]]
  <2>1. \A copies \in [Frames -> Copies] : Aged(copies) \in [Frames -> Copies]
    BY NoPacketOK DEF Aged, Copies, NoCopies, NoCopy
  <2>2. QED
    BY <2>1 DEF CeltPackets, TypeOK
<1>3. QED
  BY <1>1, <1>2 DEF CeltPackets, TypeOK

LEMMA DecoderType ==
    ASSUME TypeOK, Conceal \/ StartDecode \/ StartFec \/ DecodeFec \/ Decode
    PROVE  TypeOK'
<1> USE Basics
<1>1. dec \in SideInfo /\ n_frames \in Frames /\ PacketOK(packet)
  BY DEF TypeOK, PacketOK
<1>2. \A only : ResetForDecoding(only) \in SUBSET Chans
  BY DEF ResetForDecoding
<1>3. CASE Conceal
  <2>1. Step(dec, ResetForDecoding(0), ConcealedChannels, {}, Nothing, 0)
        \in SideInfo
    BY <1>1, <1>2, SideTypes
  <2>2. dec' \in SideInfo
    BY <1>1, <1>3, <2>1, SideTypes, ZenonT(60) DEF Conceal
  <2>3. missing' \in 0..MaxMissing
    BY <1>3, ConstantsAssumption DEF Conceal, TypeOK
  <2>4. QED
    BY <1>3, <2>2, <2>3 DEF Conceal, TypeOK, encVars
<1>4. CASE StartDecode
  <2>1. DecoderAtStart \in SideInfo
    BY <1>1, FreshType DEF DecoderAtStart
  <2>2. [ch \in Chans |-> LastOf(packet.flags[ch], FramesPerPacket, Older)]
        \in [Chans -> Contexts]
    BY <1>1, LastOfType DEF PacketOK
  <2>3. dec' \in SideInfo
    BY <1>4, <2>1, <2>2 DEF StartDecode, SideInfo
  <2>4. missing' \in 0..MaxMissing
    BY <1>4, ConstantsAssumption DEF StartDecode
  <2>5. QED
    BY <1>4, <2>3, <2>4 DEF StartDecode, TypeOK, encVars
<1>5. CASE StartFec
  <2>1. missing' \in 0..MaxMissing
    BY <1>5, ConstantsAssumption DEF StartFec
  <2>2. QED
    BY <1>5, <2>1 DEF StartFec, TypeOK, encVars
<1>6. CASE DecodeFec
  <2>1. FecCoded \in SUBSET Chans
    BY DEF FecCoded
  <2>2. LbrrOnlyMid(n_frames) \in {0, 1}
    BY DEF LbrrOnlyMid
  <2>3. dec' \in SideInfo
    BY <1>1, <1>2, <1>6, <2>1, <2>2, SideTypes DEF DecodeFec
  <2>4. n_frames' \in Frames
    BY <1>1, <1>6, NextFrameType DEF DecodeFec
  <2>5. QED
    BY <1>6, <2>3, <2>4 DEF DecodeFec, TypeOK, encVars
<1>7. CASE Decode
  <2>1. DecodedChannels \in SUBSET Chans
    BY DEF DecodedChannels
  <2>2. DecodeOnlyMid \in {0, 1}
    BY DEF DecodeOnlyMid
  <2>3. Step(dec, ResetForDecoding(DecodeOnlyMid), DecodedChannels,
             DecodedChannels, Context("main", n_frames), DecodeOnlyMid)
        \in SideInfo
    BY <1>1, <1>2, <2>1, <2>2, SideTypes
  <2>4. dec' \in SideInfo
    BY <1>7, <2>3, SideTypes DEF Decode
  <2>5. n_frames' \in Frames
    BY <1>1, <1>7, NextFrameType DEF Decode
  <2>6. PacketOK(packet')
    BY <1>1, <1>7, NoPacketOK DEF Decode
  <2>7. QED
    BY <1>7, <2>4, <2>5, <2>6 DEF Decode, TypeOK, encVars, PacketOK
<1>8. QED
  BY <1>3, <1>4, <1>5, <1>6, <1>7

(***************************************************************************)
(* The encoder's steps preserve the rest of the invariant.                 *)
(***************************************************************************)
\* The initial state satisfies the invariant.
LEMMA InitInv == Init => IInv
<1> SUFFICES ASSUME Init PROVE IInv
  OBVIOUS
<1>1. TypeOK
  BY InitType
<1>2. PacketInv /\ ContextInv
  BY DEF Init, PacketInv, ContextInv
<1>3. StaleInv
  BY Basics DEF Init, StaleInv, Fresh
<1>4. CopiesInv
  BY DEF Init, CopiesInv, NoCopies
<1>5. InStep /\ MainGainsAgree /\ SideContinues
  BY DEF Init, InStep, MainGainsAgree, SideContinues, NothingRead, Reading
<1>6. FecRepairs
  BY DEF Init, FecRepairs, NoPacket
<1>7. QED
  BY <1>1, <1>2, <1>3, <1>4, <1>5, <1>6 DEF IInv

\* A packet starts with the section its flags ask for, and with copies of
\* the packet before it only.
LEMMA StartPacketStep ==
    ASSUME NEW fec \in BOOLEAN, NEW fits \in BOOLEAN, NEW stays \in BOOLEAN,
           IInv, StartPacket(fec, fits, stays)
    PROVE  IInv'
<1>1. TypeOK'
  BY StartPacketType DEF IInv
<1>2. /\ pc' = "encode" /\ n_frames' = 0
      /\ packet' = PacketStart(LbrrFlags(fec, fits))
      /\ read' = NothingRead /\ UNCHANGED dec
  BY DEF StartPacket
<1>3. PacketInv'
  <2>1. Written' = {}
    BY <1>2 DEF Written, Frames
  <2>2. /\ packet'.flags = LbrrFlags(fec, fits)
        /\ packet'.head = <<FlagBits>> \o LbrrSymbols(LbrrFlags(fec, fits))
        /\ packet'.lbrr = LbrrSection(LbrrFlags(fec, fits))
        /\ packet'.vad = [ch \in Chans |-> {}] /\ packet'.mid_only = {}
        /\ DOMAIN packet'.frames = Frames
    BY <1>2 DEF PacketStart, NoPacket
  <2>3. QED
    BY <2>1, <2>2 DEF PacketInv
<1>4. ContextInv'
  BY <1>2 DEF ContextInv, Knows
<1>5. StaleInv'
  BY <1>2 DEF IInv, StaleInv
<1>6. CopiesInv'
  BY DEF StartPacket, CopiesInv, NoCopies
<1>7. InStep' /\ MainGainsAgree' /\ SideContinues'
  BY <1>2 DEF InStep, MainGainsAgree, SideContinues, NothingRead, Reading
<1>8. FecRepairs'
  <2>1. SUFFICES ASSUME NEW ch \in Chans, NEW i \in LbrrFlags(fec, fits)[ch]
                 PROVE  KeptCopies(ch)[i].age = "last"
    BY <1>2, <2>1 DEF FecRepairs, PacketStart
  <2>2. i \in Frames /\ KeptCopies(ch)[i] # NoCopy
    BY DEF LbrrFlags
  <2>3. KeptCopies(ch) = lbrr[ch] /\ ~celt_before
    BY <2>2 DEF KeptCopies, NoCopies, EncoderAtStart
  <2>4. QED
    BY <2>2, <2>3 DEF IInv, CopiesInv
<1>9. QED
  BY <1>1, <1>3, <1>4, <1>5, <1>6, <1>7, <1>8 DEF IInv

\* What the encoder writes next is what an encoder that knows the flags of
\* the whole packet would write.
LEMMA EncodedIn ==
    ASSUME NEW level \in [Chans -> Levels \cup {"off"}],
           \A ch \in Chans : level[ch] \in LevelsOf(ch),
           IInv, EncodeFrame(level)
    PROVE  /\ packet'.frames[n_frames] =
                  FrameIn(packet'.vad, packet'.mid_only, n_frames)
           /\ packet'.gain[n_frames] = GainsIn(packet'.mid_only, n_frames)
           /\ CodedBy(level) = CodedIn(packet'.mid_only, n_frames)
           /\ n_frames \in packet'.mid_only <=> OnlyMid(level)
           /\ \A i \in Frames : i # n_frames =>
                 /\ i \in packet'.mid_only <=> i \in packet.mid_only
                 /\ \A ch \in Chans :
                       i \in packet'.vad[ch] <=> i \in packet.vad[ch]
<1> DEFINE v == packet'.vad
           o == packet'.mid_only
<1>1. n_frames \in Frames /\ PacketOK(packet) /\ pc = "encode"
  BY DEF IInv, TypeOK, PacketOK, EncodeFrame
<1>2. /\ v = [ch \in Chans |-> packet.vad[ch] \cup
                               {i \in {n_frames} : HasVad(level, ch)}]
      /\ o = packet.mid_only \cup {i \in {n_frames} : OnlyMid(level)}
      /\ packet'.frames = [packet.frames EXCEPT ![n_frames] =
                             EncodeHeader(level) \o EncodedFrame(level, Mid)
                             \o If(Channels = 2, EncodedFrame(level, Side))]
      /\ packet'.gain = [packet.gain EXCEPT ![n_frames] =
                           [ch \in Chans |->
                              IF ch \in CodedBy(level)
                              THEN GainBase(EncodeCoding(ch), enc.gain[ch])
                              ELSE Nothing]]
  BY DEF EncodeFrame
<1>3. n_frames \notin packet.mid_only
      /\ \A ch \in Chans : n_frames \notin packet.vad[ch]
  BY <1>1 DEF IInv, PacketInv, Written, Frames
<1>4. n_frames \in o <=> OnlyMid(level)
  BY <1>2, <1>3
<1>5. \A ch \in Chans : n_frames \in v[ch] <=> HasVad(level, ch)
  BY <1>2, <1>3
<1>6. \A i \in Frames : i # n_frames =>
        /\ i \in o <=> i \in packet.mid_only
        /\ \A ch \in Chans : i \in v[ch] <=> i \in packet.vad[ch]
  BY <1>2
<1>7. CodedBy(level) = CodedIn(o, n_frames)
  <2>1. level[Mid] # "off"
    BY Basics DEF LevelsOf, Levels
  <2>2. CASE Channels = 2
    BY <1>4, <2>1, <2>2, Basics DEF CodedBy, CodedIn, OnlyMid
  <2>3. CASE Channels # 2
    BY <1>4, <2>1, <2>3, Basics DEF CodedBy, CodedIn, OnlyMid
  <2>4. QED
    BY <2>2, <2>3
<1>8. n_frames > 0 => (n_frames - 1 \in o <=> n_frames - 1 \in packet.mid_only)
  <2>1. n_frames > 0 => n_frames - 1 \in Frames /\ n_frames - 1 # n_frames
    BY <1>1, ConstantsAssumption DEF Frames
  <2>2. QED
    BY <1>6, <2>1
<1>9. ContextInv /\ (n_frames > 0 => Knows(enc)) /\ n_frames \in Nat
  BY <1>1, Basics DEF IInv, ContextInv
<1>10. \A ch \in Chans : EncodeCoding(ch) = CodingIn(o, ch, n_frames)
  BY <1>8, <1>9 DEF Knows, EncodeCoding, CodingIn
<1>11. \A ch \in CodedBy(level) :
         CodingIn(o, ch, n_frames) = "conditionally" =>
            enc.ec[ch] = Before(n_frames) /\ enc.gain[ch] = Before(n_frames)
  <2>1. SUFFICES ASSUME NEW ch \in CodedBy(level),
                        CodingIn(o, ch, n_frames) = "conditionally"
                 PROVE  ch \in CodedIn(packet.mid_only, n_frames - 1)
                        /\ n_frames > 0
    BY <1>9 DEF Knows
  <2>2. ch \in Chans /\ n_frames > 0
        /\ ~(ch = Side /\ n_frames - 1 \in packet.mid_only)
    BY <1>8, <1>9, <2>1 DEF CodingIn, CodedBy
  <2>3. QED
    BY <2>2, Basics DEF CodedIn
<1>12. \A ch \in Chans : EncodedFrame(level, ch) = ChannelIn(v, o, ch, n_frames)
  BY <1>5, <1>7, <1>10, <1>11 DEF EncodedFrame, ChannelIn, FrameSymbol, If
<1>13. EncodeHeader(level) = HeaderIn(v, n_frames)
  <2>1. CASE Channels = 2
    BY <1>5, <2>1, Basics DEF EncodeHeader, HeaderIn, If
  <2>2. CASE Channels # 2
    BY <2>2 DEF EncodeHeader, HeaderIn, If
  <2>3. QED
    BY <2>1, <2>2
<1>14. packet'.frames[n_frames] = FrameIn(v, o, n_frames)
  <2>1. DOMAIN packet.frames = Frames
    BY <1>1 DEF IInv, PacketInv
  <2>2. packet'.frames[n_frames] =
          EncodeHeader(level) \o EncodedFrame(level, Mid)
          \o If(Channels = 2, EncodedFrame(level, Side))
    BY <1>1, <1>2, <2>1
  <2>3. CASE Channels = 2
    BY <1>12, <1>13, <2>2, <2>3, Basics DEF FrameIn
  <2>4. CASE Channels # 2
    BY <1>12, <1>13, <2>2, <2>4, Basics DEF FrameIn, If
  <2>5. QED
    BY <2>3, <2>4
<1>15. packet'.gain[n_frames] = GainsIn(o, n_frames)
  <2>1. \A ch \in Chans :
          (IF ch \in CodedBy(level)
           THEN GainBase(EncodeCoding(ch), enc.gain[ch]) ELSE Nothing)
          = GainIn(o, ch, n_frames)
    BY <1>7, <1>10, <1>11 DEF GainIn, GainBase
  <2>2. packet'.gain[n_frames] =
          [ch \in Chans |-> IF ch \in CodedBy(level)
                           THEN GainBase(EncodeCoding(ch), enc.gain[ch])
                           ELSE Nothing]
    BY <1>1, <1>2 DEF PacketOK
  <2>3. QED
    BY <2>1, <2>2 DEF GainsIn
<1>16. QED
  BY <1>4, <1>6, <1>7, <1>14, <1>15

\* Coding a frame preserves the invariant.
LEMMA EncodeFrameStep ==
    ASSUME NEW level \in [Chans -> Levels \cup {"off"}],
           \A ch \in Chans : level[ch] \in LevelsOf(ch),
           IInv, EncodeFrame(level)
    PROVE  IInv'
<1> DEFINE v == packet'.vad
           o == packet'.mid_only
<1>1. TypeOK'
  BY EncodeFrameType DEF IInv
<1>2. /\ n_frames \in Frames /\ n_frames \in Nat /\ pc = "encode"
      /\ pc' = IF Last THEN "sent" ELSE "encode"
      /\ n_frames' = NextFrame
      /\ UNCHANGED <<dec, read, celt_before>>
      /\ packet'.flags = packet.flags /\ packet'.copies = packet.copies
      /\ packet'.head = packet.head /\ packet'.lbrr = packet.lbrr
      /\ DOMAIN packet'.frames = DOMAIN packet.frames
  BY Basics DEF IInv, TypeOK, EncodeFrame, decVars
<1>3. Written' = Written \cup {n_frames}
  <2>1. CASE Last
    <3>1. Written' = Frames
      BY <1>2, <2>1 DEF Written
    <3>2. \A i \in Frames : i < n_frames \/ i = n_frames
      BY <1>2, <2>1, ConstantsAssumption DEF Last, Frames
    <3>3. QED
      BY <1>2, <3>1, <3>2 DEF Written
  <2>2. CASE ~Last
    <3>1. pc' = "encode" /\ n_frames' = n_frames + 1
      BY <1>2, <2>2 DEF NextFrame
    <3>2. \A i \in Frames : i < n_frames + 1 <=> i < n_frames \/ i = n_frames
      BY <1>2 DEF Frames
    <3>3. QED
      BY <1>2, <3>1, <3>2 DEF Written
  <2>3. QED
    BY <2>1, <2>2
<1>4. PacketInv'
  <2>1. /\ packet.head = <<FlagBits>> \o LbrrSymbols(packet.flags)
        /\ packet.lbrr = LbrrSection(packet.flags)
        /\ DOMAIN packet.frames = Frames
        /\ packet.mid_only \subseteq Written
        /\ \A ch \in Chans : packet.vad[ch] \subseteq Written
        /\ \A i \in packet.mid_only : Channels = 2 /\ i \notin packet.vad[Side]
        /\ \A i \in Written :
              /\ packet.frames[i] = FrameIn(packet.vad, packet.mid_only, i)
              /\ packet.gain[i] = GainsIn(packet.mid_only, i)
    BY <1>2 DEF IInv, PacketInv
  <2>2. /\ o = packet.mid_only \cup {i \in {n_frames} : OnlyMid(level)}
        /\ v = [ch \in Chans |-> packet.vad[ch] \cup
                                 {i \in {n_frames} : HasVad(level, ch)}]
    BY DEF EncodeFrame
  <2>3. o \subseteq Written' /\ \A ch \in Chans : v[ch] \subseteq Written'
    BY <1>3, <2>1, <2>2
  <2>4. \A i \in o : Channels = 2 /\ i \notin v[Side]
    <3>1. OnlyMid(level) => Channels = 2 /\ ~HasVad(level, Side)
      BY DEF OnlyMid, HasVad
    <3>2. ~OnlyMid(level) \/ n_frames \notin packet.vad[Side]
      <4>1. n_frames \notin Written
        BY <1>2 DEF Written
      <4>2. QED
        BY <2>1, <4>1, <3>1, Basics
    <3>3. \A i \in packet.mid_only : i # n_frames
      BY <1>2, <2>1 DEF Written
    <3>4. Channels = 2 => v[Side] = packet.vad[Side] \cup
                                    {i \in {n_frames} : HasVad(level, Side)}
      BY <2>2, Basics
    <3>5. QED
      BY <2>1, <2>2, <3>1, <3>2, <3>3, <3>4
  <2>5. \A i \in Written' :
          /\ packet'.frames[i] = FrameIn(v, o, i)
          /\ packet'.gain[i] = GainsIn(o, i)
    <3>1. SUFFICES ASSUME NEW i \in Written, i # n_frames
                   PROVE  /\ packet'.frames[i] = FrameIn(v, o, i)
                          /\ packet'.gain[i] = GainsIn(o, i)
      BY <1>3, EncodedIn
    <3>2. i \in Frames /\ i < n_frames /\ (i # 0 => i - 1 \in Frames)
      BY <1>2, ConstantsAssumption DEF Written, Frames
    <3>3. /\ i \in o <=> i \in packet.mid_only
          /\ \A ch \in Chans : i \in v[ch] <=> i \in packet.vad[ch]
      BY <3>1, <3>2, EncodedIn
    <3>4. i # 0 => (i - 1 \in o <=> i - 1 \in packet.mid_only)
      <4>1. i # 0 => i - 1 # n_frames
        BY <3>2, <1>2, Basics
      <4>2. QED
        BY <3>2, <4>1, EncodedIn
    <3>5. FrameIn(v, o, i) = FrameIn(packet.vad, packet.mid_only, i)
          /\ GainsIn(o, i) = GainsIn(packet.mid_only, i)
      BY <3>2, <3>3, <3>4, FrameCongruence
    <3>6. packet'.frames[i] = packet.frames[i] /\ packet'.gain[i] = packet.gain[i]
      BY <2>1, <3>1, <3>2 DEF EncodeFrame, IInv, TypeOK
    <3>7. QED
      BY <2>1, <3>1, <3>5, <3>6
  <2>6. QED
    BY <1>2, <2>1, <2>3, <2>4, <2>5 DEF PacketInv
<1>5. ContextInv'
  <2>1. CASE Last
    BY <1>2, <2>1 DEF ContextInv, NextFrame
  <2>2. CASE ~Last
    <3>1. /\ pc' = "encode" /\ n_frames' = n_frames + 1
          /\ enc' = Step(enc, ResetForCoding(level), CodedBy(level),
                         CodedBy(level), Context("main", n_frames),
                         IF OnlyMid(level) THEN 1 ELSE 0)
      BY <1>2, <2>2 DEF NextFrame, EncodeFrame, Ended
    <3>2. n_frames' - 1 = n_frames
      BY <1>2, <3>1
    <3>3. CodedBy(level) \subseteq Chans
      BY DEF CodedBy
    <3>4. enc'.only = IF n_frames \in o THEN 1 ELSE 0
      BY <3>1, EncodedIn DEF Step
    <3>5. \A ch \in CodedIn(o, n_frames) :
            /\ enc'.ec[ch] = Context("main", n_frames)
            /\ enc'.gain[ch] = Context("main", n_frames)
      BY <3>1, <3>3, EncodedIn DEF Step
    <3>6. Knows(enc)'
      BY <3>2, <3>4, <3>5 DEF Knows, Before, CodedIn
    <3>7. QED
      BY <3>1, <3>6 DEF ContextInv
  <2>3. QED
    BY <2>1, <2>2
<1>6. StaleInv' /\ InStep' /\ MainGainsAgree' /\ SideContinues'
  BY <1>2 DEF IInv, StaleInv, InStep, MainGainsAgree, SideContinues
<1>7. CopiesInv'
  BY <1>2 DEF IInv, TypeOK, EncodeFrame, CopiesInv
<1>8. FecRepairs'
  BY <1>2 DEF IInv, FecRepairs
<1>9. QED
  BY <1>1, <1>4, <1>5, <1>6, <1>7, <1>8 DEF IInv

\* Losing a packet, and CELT packets, preserve the invariant.
LEMMA LoseStep == IInv /\ Lose => IInv'
<1> SUFFICES ASSUME IInv, Lose PROVE IInv'
  OBVIOUS
<1>1. TypeOK'
  BY NetworkType DEF IInv
<1>2. /\ pc = "sent" /\ pc' = "idle" /\ packet' = NoPacket
      /\ UNCHANGED <<dec, read, n_frames, lbrr, celt_before>>
  BY DEF Lose, encVars, decVars
<1>3. PacketInv' /\ ContextInv'
  BY <1>2 DEF IInv, PacketInv, ContextInv
<1>4. StaleInv' /\ CopiesInv' /\ InStep' /\ MainGainsAgree' /\ SideContinues'
  BY <1>2 DEF IInv, StaleInv, CopiesInv, InStep, MainGainsAgree, SideContinues
<1>5. FecRepairs'
  BY <1>2 DEF FecRepairs, NoPacket
<1>6. QED
  BY <1>1, <1>3, <1>4, <1>5 DEF IInv

LEMMA CeltStep ==
    ASSUME NEW heard \in BOOLEAN, IInv, CeltPackets(heard)
    PROVE  IInv'
<1>1. TypeOK'
  BY CeltType DEF IInv
<1>2. /\ pc = "idle" /\ celt_before' = TRUE
      /\ UNCHANGED <<pc, packet, dec, read, n_frames>>
  BY DEF CeltPackets
<1>3. PacketInv' /\ ContextInv' /\ CopiesInv'
  BY <1>2 DEF IInv, PacketInv, ContextInv, CopiesInv
<1>4. StaleInv' /\ InStep' /\ MainGainsAgree' /\ SideContinues' /\ FecRepairs'
  BY <1>2 DEF IInv, StaleInv, InStep, MainGainsAgree, SideContinues, FecRepairs
<1>5. QED
  BY <1>1, <1>3, <1>4 DEF IInv

(***************************************************************************)
(* The decoder's steps preserve the invariant.                             *)
(***************************************************************************)
\* A side that runs does not run on from a gap, and one left with a gap is
\* left by a mid-only frame: the frame sets prev_decode_only_middle to only,
\* and the side runs whenever it is not mid-only or was not before.
LEMMA SideRuns ==
    ASSUME IInv, NEW ran, NEW coded, NEW ctx, NEW only \in {0, 1},
           Side \in ran => only = 0 \/ dec.only = 0,
           Side \notin ran => only = 1 \/ dec.only = 1
    PROVE  /\ SideFrom(ResetForDecoding(only), ran) = "stale" =>
                 Channels # 2
           /\ Channels = 2 =>
                 (Step(dec, ResetForDecoding(only), ran, coded, ctx,
                       only).mem[Side] = "stale" => only = 1)
<1> SUFFICES ASSUME Channels = 2
             PROVE  /\ SideFrom(ResetForDecoding(only), ran) # "stale"
                    /\ Step(dec, ResetForDecoding(only), ran, coded, ctx,
                            only).mem[Side] = "stale" => only = 1
  OBVIOUS
<1>1. Side \in Chans /\ dec \in SideInfo /\ dec.only \in {0, 1}
      /\ (dec.mem[Side] = "stale" => dec.only = 1)
  BY Basics DEF IInv, TypeOK, StaleInv, SideInfo
<1>2. Side \in ResetForDecoding(only) <=> only = 0 /\ dec.only = 1
  BY DEF ResetForDecoding
<1>3. Side \in ran /\ Side \notin ResetForDecoding(only) =>
        dec.mem[Side] # "stale"
  BY <1>1, <1>2
<1>4. SideFrom(ResetForDecoding(only), ran) # "stale"
  BY <1>3 DEF SideFrom
<1>5. Step(dec, ResetForDecoding(only), ran, coded, ctx, only).mem[Side] =
        IF Side \in ResetForDecoding(only)
        THEN IF Side \in ran THEN "follows" ELSE "fresh"
        ELSE IF Side \in ran THEN Continued(dec.mem[Side])
        ELSE Skipped(dec.mem[Side])
  BY <1>1 DEF Step
<1>6. Continued(dec.mem[Side]) = "stale" => dec.mem[Side] = "stale"
  BY DEF Continued
<1>7. QED
  BY <1>1, <1>2, <1>3, <1>4, <1>5, <1>6

\* With one channel there is no side to go on from.
LEMMA MonoSide ==
    ASSUME Channels # 2, NEW reset, NEW ran \in SUBSET Chans
    PROVE  SideFrom(reset, ran) # "stale"
BY Basics DEF SideFrom

LEMMA ConcealStep == IInv /\ Conceal => IInv'
<1> SUFFICES ASSUME IInv, Conceal PROVE IInv'
  OBVIOUS
<1>1. TypeOK'
  BY DecoderType DEF IInv
<1>2. /\ pc \in {"sent", "arrived"} /\ pc' = "arrived"
      /\ UNCHANGED <<packet, n_frames, lbrr, celt_before>>
  BY DEF Conceal, encVars
<1>3. PacketInv' /\ ContextInv'
  BY <1>2 DEF IInv, PacketInv, ContextInv, Written
<1>4. CopiesInv' /\ FecRepairs'
  BY <1>2 DEF IInv, CopiesInv, FecRepairs
<1>5. CASE after_celt
  <2>1. UNCHANGED <<dec, read>>
    BY <1>5 DEF Conceal
  <2>2. QED
    BY <1>1, <1>3, <1>4, <2>1
       DEF IInv, StaleInv, InStep, MainGainsAgree, SideContinues
<1>6. CASE ~after_celt
  <2> DEFINE st == Step(dec, ResetForDecoding(0), ConcealedChannels, {},
                        Nothing, 0)
  <2>1. /\ dec' = Concealed(st)
        /\ read' = Reading("none", <<>>, <<>>, NoGains, NoGains,
                           SideFrom(ResetForDecoding(0), ConcealedChannels))
    BY <1>6 DEF Conceal
  <2>2. dec.only \in {0, 1}
    BY DEF IInv, TypeOK, SideInfo
  <2>3. /\ ConcealedChannels \in SUBSET Chans
        /\ Side \in ConcealedChannels => dec.only = 0
        /\ Channels = 2 => (Side \notin ConcealedChannels => dec.only = 1)
    BY <2>2, Basics DEF ConcealedChannels
  <2>4. Channels = 2 =>
          /\ SideFrom(ResetForDecoding(0), ConcealedChannels) # "stale"
          /\ st.mem[Side] # "stale"
    BY <2>3, SideRuns
  <2>5. SideFrom(ResetForDecoding(0), ConcealedChannels) # "stale"
    BY <2>3, <2>4, MonoSide
  <2>6. StaleInv'
    BY <2>1, <2>4 DEF StaleInv, Concealed
  <2>7. InStep' /\ MainGainsAgree' /\ SideContinues'
    BY <2>1, <2>5 DEF InStep, MainGainsAgree, SideContinues, Reading
  <2>8. QED
    BY <1>1, <1>3, <1>4, <2>6, <2>7 DEF IInv
<1>7. QED
  BY <1>5, <1>6

LEMMA StartDecodeStep == IInv /\ StartDecode => IInv'
<1> SUFFICES ASSUME IInv, StartDecode PROVE IInv'
  OBVIOUS
<1>1. TypeOK'
  BY DecoderType DEF IInv
<1>2. /\ pc \in {"sent", "arrived"} /\ pc' = "decode" /\ n_frames = 0
      /\ UNCHANGED <<packet, n_frames, lbrr, celt_before>>
      /\ read' = Reading("start", <<packet.head, packet.lbrr>>,
                         <<DecodeHead, SkippedSection>>, NoGains, NoGains,
                         "fresh")
  BY DEF StartDecode, encVars, IInv, ContextInv
<1>3. PacketInv'
  BY <1>2 DEF IInv, PacketInv, Written
<1>4. ContextInv'
  BY <1>2 DEF ContextInv, Knows
<1>5. StaleInv'
  BY Basics DEF IInv, StaleInv, StartDecode, DecoderAtStart, Fresh
<1>6. CopiesInv' /\ FecRepairs'
  BY <1>2 DEF IInv, CopiesInv, FecRepairs
<1>7. packet.head = DecodeHead /\ packet.lbrr = SkippedSection
  BY <1>2, SectionsAgree DEF IInv, PacketInv
<1>8. InStep' /\ MainGainsAgree' /\ SideContinues'
  BY <1>2, <1>7 DEF InStep, MainGainsAgree, SideContinues, Reading
<1>9. QED
  BY <1>1, <1>3, <1>4, <1>5, <1>6, <1>8 DEF IInv

LEMMA StartFecStep == IInv /\ StartFec => IInv'
<1> SUFFICES ASSUME IInv, StartFec PROVE IInv'
  OBVIOUS
<1>1. TypeOK'
  BY DecoderType DEF IInv
<1>2. /\ pc \in {"sent", "arrived"} /\ pc' = "fec" /\ n_frames = 0
      /\ UNCHANGED <<packet, n_frames, lbrr, celt_before, dec>>
      /\ read' = Reading("start", <<packet.head>>, <<DecodeHead>>, NoGains,
                         NoGains, "fresh")
  BY DEF StartFec, encVars, IInv, ContextInv
<1>3. PacketInv'
  BY <1>2 DEF IInv, PacketInv, Written
<1>4. ContextInv'
  BY <1>2 DEF ContextInv
<1>5. StaleInv' /\ CopiesInv' /\ FecRepairs'
  BY <1>2 DEF IInv, StaleInv, CopiesInv, FecRepairs
<1>6. packet.head = DecodeHead
  BY <1>2, SectionsAgree DEF IInv, PacketInv
<1>7. InStep' /\ MainGainsAgree' /\ SideContinues'
  BY <1>2, <1>6 DEF InStep, MainGainsAgree, SideContinues, Reading
<1>8. QED
  BY <1>1, <1>3, <1>4, <1>5, <1>7 DEF IInv

\* FEC reads the copies where the encoder put them, though it conceals the
\* frames in between.
LEMMA DecodeFecStep == IInv /\ DecodeFec => IInv'
<1> SUFFICES ASSUME IInv, DecodeFec PROVE IInv'
  OBVIOUS
<1> DEFINE only == LbrrOnlyMid(n_frames)
           st == Step(dec, ResetForDecoding(only), FecChannels, FecCoded,
                      Context("lbrr", n_frames), only)
<1>1. TypeOK'
  BY DecoderType DEF IInv
<1>2. /\ pc = "fec" /\ pc' = (IF Last THEN "arrived" ELSE "fec")
      /\ n_frames' = NextFrame /\ dec' = st
      /\ UNCHANGED <<packet, lbrr, celt_before>>
  BY DEF DecodeFec, encVars
<1>3. n_frames \in Frames /\ n_frames \in Nat /\ only \in {0, 1}
      /\ dec.only \in {0, 1}
  BY Basics DEF IInv, TypeOK, LbrrOnlyMid, SideInfo
<1>4. PacketInv'
  BY <1>2 DEF IInv, PacketInv, Written
<1>5. CopiesInv' /\ FecRepairs'
  BY <1>2 DEF IInv, CopiesInv, FecRepairs
<1>6. FecCoded \subseteq Chans /\ FecChannels \subseteq Chans
  BY DEF FecCoded, FecChannels
<1>7. ContextInv'
  <2>1. CASE Last
    BY <1>2, <2>1 DEF ContextInv, NextFrame
  <2>2. CASE ~Last
    <3>1. pc' = "fec" /\ n_frames' - 1 = n_frames
      BY <1>2, <1>3, <2>2 DEF NextFrame
    <3>2. \A ch \in FecCoded : dec'.ec[ch] = Context("lbrr", n_frames)
      BY <1>2, <1>6 DEF Step
    <3>3. \A ch \in Chans : n_frames \in packet.flags[ch] => ch \in FecCoded
      BY DEF FecCoded
    <3>4. QED
      BY <1>2, <3>1, <3>2, <3>3 DEF ContextInv
  <2>3. QED
    BY <2>1, <2>2
<1>8. /\ Side \in FecChannels => only = 0 \/ dec.only = 0
      /\ Channels = 2 => (Side \notin FecChannels => only = 1 \/ dec.only = 1)
  BY <1>3, Basics DEF FecChannels, LbrrOnlyMid
<1>9. Channels = 2 => /\ SideFrom(ResetForDecoding(only), FecChannels) # "stale"
                      /\ st.mem[Side] = "stale" => only = 1
  BY <1>3, <1>8, SideRuns
<1>10. SideFrom(ResetForDecoding(only), FecChannels) # "stale"
  BY <1>6, <1>9, MonoSide
<1>11. StaleInv'
  <2>1. st.only = only
    BY DEF Step
  <2>2. QED
    BY <1>2, <1>9, <2>1 DEF StaleInv
<1>12. \A ch \in Chans : FecFrame(ch) = SkippedFrame(ch, n_frames)
  <2>1. SUFFICES ASSUME NEW ch \in Chans, n_frames \in packet.flags[ch],
                        DecodeLbrrCoding(ch, n_frames) = "conditionally"
                 PROVE  dec.ec[ch] = LastOf(packet.flags[ch], n_frames, Older)
    BY DEF FecFrame, SkippedFrame, FecCoded, FrameSymbol, If
  <2>2. n_frames > 0 /\ n_frames - 1 \in packet.flags[ch]
    BY <2>1 DEF DecodeLbrrCoding
  <2>3. dec.ec[ch] = Context("lbrr", n_frames - 1)
    BY <1>2, <2>2 DEF IInv, ContextInv
  <2>4. packet.flags[ch] \in SUBSET Frames
    BY DEF IInv, TypeOK
  <2>5. QED
    BY <1>3, <2>2, <2>3, <2>4, LastOfPrevious
<1>13. packet.lbrr[n_frames] =
         DecodeLbrrHeader(n_frames) \o FecFrame(Mid)
         \o If(Channels = 2, FecFrame(Side))
  <2>1. packet.lbrr[n_frames] =
          DecodeLbrrHeader(n_frames) \o SkippedFrame(Mid, n_frames)
          \o If(Channels = 2, SkippedFrame(Side, n_frames))
    BY <1>2, <1>3, SectionsAgree DEF IInv, PacketInv
  <2>2. CASE Channels = 2
    BY <1>12, <2>1, <2>2, Basics
  <2>3. CASE Channels # 2
    BY <1>12, <2>1, <2>3, Basics DEF If
  <2>4. QED
    BY <2>2, <2>3
<1>14. InStep' /\ MainGainsAgree' /\ SideContinues'
  <2>1. /\ read'.want = packet.lbrr[n_frames]
        /\ read'.got = DecodeLbrrHeader(n_frames) \o FecFrame(Mid)
                       \o If(Channels = 2, FecFrame(Side))
        /\ read'.part = "lbrr"
        /\ read'.side = SideFrom(ResetForDecoding(only), FecChannels)
    BY DEF DecodeFec, Reading
  <2>2. QED
    BY <1>10, <1>13, <2>1 DEF InStep, MainGainsAgree, SideContinues
<1>15. QED
  BY <1>1, <1>4, <1>5, <1>7, <1>11, <1>14 DEF IInv

\* Decoding a frame reads what an encoder that knows the flags of the whole
\* packet writes.
LEMMA DecodedIn ==
    ASSUME IInv, Decode
    PROVE  /\ DecodeOnlyMid = IF n_frames \in packet.mid_only THEN 1 ELSE 0
           /\ DecodedChannels = CodedIn(packet.mid_only, n_frames)
           /\ packet.frames[n_frames] =
                 DecodeHeader \o DecodedFrame(Mid)
                 \o If(Channels = 2, DecodedFrame(Side))
           /\ packet.gain[n_frames] =
                 [ch \in Chans |->
                    IF ch \in DecodedChannels
                    THEN GainBase(DecodeCoding(ch), dec.gain[ch])
                    ELSE Nothing]
<1> DEFINE v == packet.vad
           o == packet.mid_only
<1>1. n_frames \in Frames /\ n_frames \in Nat /\ pc = "decode"
  BY Basics DEF IInv, TypeOK, Decode
<1>2. /\ n_frames \in Written
      /\ n_frames \in o => Channels = 2 /\ n_frames \notin v[Side]
      /\ packet.frames[n_frames] = FrameIn(v, o, n_frames)
      /\ packet.gain[n_frames] = GainsIn(o, n_frames)
  BY <1>1 DEF IInv, PacketInv, Written
<1>3. DecodeOnlyMid = IF n_frames \in o THEN 1 ELSE 0
  BY <1>2 DEF DecodeOnlyMid
<1>4. DecodedChannels = CodedIn(o, n_frames)
  BY <1>3 DEF DecodedChannels, CodedIn
<1>5. n_frames > 0 => Knows(dec)
  BY <1>1 DEF IInv, ContextInv
<1>6. \A ch \in Chans : DecodeCoding(ch) = CodingIn(o, ch, n_frames)
  BY <1>1, <1>5 DEF Knows, DecodeCoding, CodingIn
<1>7. \A ch \in DecodedChannels :
        CodingIn(o, ch, n_frames) = "conditionally" =>
           dec.ec[ch] = Before(n_frames) /\ dec.gain[ch] = Before(n_frames)
  <2>1. SUFFICES ASSUME NEW ch \in DecodedChannels,
                        CodingIn(o, ch, n_frames) = "conditionally"
                 PROVE  ch \in CodedIn(o, n_frames - 1) /\ n_frames > 0
    BY <1>5 DEF Knows
  <2>2. ch \in Chans /\ n_frames > 0 /\ ~(ch = Side /\ n_frames - 1 \in o)
    BY <1>1, <2>1, Basics DEF CodingIn, DecodedChannels
  <2>3. QED
    BY <2>2, Basics DEF CodedIn
<1>8. \A ch \in Chans : DecodedFrame(ch) = ChannelIn(v, o, ch, n_frames)
  BY <1>4, <1>6, <1>7 DEF DecodedFrame, ChannelIn, FrameSymbol, If
<1>9. DecodeHeader = HeaderIn(v, n_frames)
  BY DEF DecodeHeader, HeaderIn
<1>10. FrameIn(v, o, n_frames) =
         DecodeHeader \o DecodedFrame(Mid)
         \o If(Channels = 2, DecodedFrame(Side))
  <2>1. CASE Channels = 2
    BY <1>8, <1>9, <2>1, Basics DEF FrameIn
  <2>2. CASE Channels # 2
    BY <1>8, <1>9, <2>2, Basics DEF FrameIn, If
  <2>3. QED
    BY <2>1, <2>2
<1>11. \A ch \in Chans :
         (IF ch \in DecodedChannels
          THEN GainBase(DecodeCoding(ch), dec.gain[ch]) ELSE Nothing)
         = GainIn(o, ch, n_frames)
  BY <1>4, <1>6, <1>7 DEF GainIn, GainBase
<1>12. GainsIn(o, n_frames) =
         [ch \in Chans |-> IF ch \in DecodedChannels
                          THEN GainBase(DecodeCoding(ch), dec.gain[ch])
                          ELSE Nothing]
  BY <1>11 DEF GainsIn
<1>13. QED
  BY <1>2, <1>3, <1>4, <1>10, <1>12

LEMMA DecodeStep == IInv /\ Decode => IInv'
<1> SUFFICES ASSUME IInv, Decode PROVE IInv'
  OBVIOUS
<1> DEFINE only == DecodeOnlyMid
           st == Step(dec, ResetForDecoding(only), DecodedChannels,
                      DecodedChannels, Context("main", n_frames), only)
<1>1. TypeOK'
  BY DecoderType DEF IInv
<1>2. /\ pc = "decode" /\ pc' = (IF Last THEN "idle" ELSE "decode")
      /\ packet' = (IF Last THEN NoPacket ELSE packet)
      /\ n_frames' = NextFrame /\ dec' = Ended(st)
      /\ UNCHANGED <<lbrr, celt_before>>
  BY DEF Decode, encVars
<1>3. n_frames \in Frames /\ n_frames \in Nat /\ only \in {0, 1}
      /\ dec.only \in {0, 1}
  BY Basics DEF IInv, TypeOK, DecodeOnlyMid, SideInfo
<1>4. PacketInv'
  BY <1>2 DEF IInv, PacketInv, Written
<1>5. CopiesInv' /\ FecRepairs'
  BY <1>2 DEF IInv, CopiesInv, FecRepairs, NoPacket
<1>6. DecodedChannels \subseteq Chans
  BY Basics DEF DecodedChannels
<1>7. ContextInv'
  <2>1. CASE Last
    BY <1>2, <2>1 DEF ContextInv, NextFrame
  <2>2. CASE ~Last
    <3>1. /\ pc' = "decode" /\ n_frames' = n_frames + 1 /\ dec' = st
          /\ packet' = packet /\ n_frames' - 1 = n_frames
      BY <1>2, <1>3, <2>2 DEF NextFrame, Ended
    <3>2. dec'.only = IF n_frames \in packet.mid_only THEN 1 ELSE 0
      BY <3>1, DecodedIn DEF Step
    <3>3. \A ch \in CodedIn(packet.mid_only, n_frames) :
            /\ dec'.ec[ch] = Context("main", n_frames)
            /\ dec'.gain[ch] = Context("main", n_frames)
      BY <1>6, <3>1, DecodedIn DEF Step
    <3>4. Knows(dec)'
      BY <3>1, <3>2, <3>3 DEF Knows, Before, CodedIn
    <3>5. QED
      BY <3>1, <3>4 DEF ContextInv
  <2>3. QED
    BY <2>1, <2>2
<1>8. /\ Side \in DecodedChannels => only = 0
      /\ Channels = 2 => (Side \notin DecodedChannels => only = 1)
  BY <1>3, Basics DEF DecodedChannels
<1>9. Channels = 2 =>
        /\ SideFrom(ResetForDecoding(only), DecodedChannels) # "stale"
        /\ st.mem[Side] = "stale" => only = 1
  BY <1>3, <1>8, SideRuns
<1>10. SideFrom(ResetForDecoding(only), DecodedChannels) # "stale"
  BY <1>6, <1>9, MonoSide
<1>11. StaleInv'
  <2>1. dec'.only = only /\ dec'.mem = st.mem
    BY <1>2 DEF Ended, Step
  <2>2. QED
    BY <1>9, <2>1 DEF StaleInv
<1>12. InStep' /\ MainGainsAgree' /\ SideContinues'
  <2>1. /\ read'.want = packet.frames[n_frames]
        /\ read'.got = DecodeHeader \o DecodedFrame(Mid)
                       \o If(Channels = 2, DecodedFrame(Side))
        /\ read'.quantized = packet.gain[n_frames]
        /\ read'.dequantized =
              [ch \in Chans |-> IF ch \in DecodedChannels
                               THEN GainBase(DecodeCoding(ch), dec.gain[ch])
                               ELSE Nothing]
        /\ read'.side = SideFrom(ResetForDecoding(only), DecodedChannels)
    BY DEF Decode, Reading
  <2>2. QED
    BY <1>10, <2>1, DecodedIn DEF InStep, MainGainsAgree, SideContinues
<1>13. QED
  BY <1>1, <1>4, <1>5, <1>7, <1>11, <1>12 DEF IInv

(***************************************************************************)
(* The theorems.                                                           *)
(***************************************************************************)
\* Every step preserves the invariant.
LEMMA NextInv == IInv /\ [Next]_vars => IInv'
<1> SUFFICES ASSUME IInv, [Next]_vars PROVE IInv'
  OBVIOUS
<1>1. CASE \E fec, fits, stays \in BOOLEAN : StartPacket(fec, fits, stays)
  BY <1>1, StartPacketStep
<1>2. CASE \E level \in [Chans -> Levels \cup {"off"}] :
              /\ \A ch \in Chans : level[ch] \in LevelsOf(ch)
              /\ EncodeFrame(level)
  BY <1>2, EncodeFrameStep
<1>3. CASE Lose
  BY <1>3, LoseStep
<1>4. CASE \E heard \in BOOLEAN : CeltPackets(heard)
  BY <1>4, CeltStep
<1>5. CASE Conceal
  BY <1>5, ConcealStep
<1>6. CASE StartDecode
  BY <1>6, StartDecodeStep
<1>7. CASE StartFec
  BY <1>7, StartFecStep
<1>8. CASE DecodeFec
  BY <1>8, DecodeFecStep
<1>9. CASE Decode
  BY <1>9, DecodeStep
<1>10. CASE UNCHANGED vars
  <2>1. UNCHANGED <<channel, pc, enc, lbrr, mid_only_flags, lbrr_enabled,
                    celt_before, packet, missing, dec, after_celt, read,
                    n_frames>>
    BY <1>10 DEF vars, encVars, decVars
  <2>2. TypeOK'
    BY <2>1 DEF IInv, TypeOK
  <2>3. PacketInv'
    BY <2>1 DEF IInv, PacketInv, Written
  <2>4. ContextInv'
    BY <2>1 DEF IInv, ContextInv, Knows
  <2>5. StaleInv' /\ CopiesInv' /\ FecRepairs'
    BY <2>1 DEF IInv, StaleInv, CopiesInv, FecRepairs
  <2>6. InStep' /\ MainGainsAgree' /\ SideContinues'
    BY <2>1 DEF IInv, InStep, MainGainsAgree, SideContinues
  <2>7. QED
    BY <2>2, <2>3, <2>4, <2>5, <2>6 DEF IInv
<1>11. QED
  BY <1>1, <1>2, <1>3, <1>4, <1>5, <1>6, <1>7, <1>8, <1>9, <1>10 DEF Next

\* The strengthened invariant holds of every stream.
THEOREM Invariance == Spec => []IInv
BY InitInv, NextInv, PTL DEF Spec

\* The variables have their types.
THEOREM TypeCorrect == Spec => []TypeOK
<1>1. IInv => TypeOK
  BY DEF IInv
<1>2. QED
  BY <1>1, Invariance, PTL

\* The decoder reads each frame, and each LBRR copy, from the symbols, the
\* alphabets and the contexts the encoder wrote it with, in packets of any
\* number of frames and after losses of any length.
THEOREM DecoderIsInStep == Spec => []InStep
<1>1. IInv => InStep
  BY DEF IInv
<1>2. QED
  BY <1>1, Invariance, PTL

\* The gains of the main frames are dequantised from what they were
\* quantised from.
THEOREM GainsAgree == Spec => []MainGainsAgree
<1>1. IInv => MainGainsAgree
  BY DEF IInv
<1>2. QED
  BY <1>1, Invariance, PTL

\* The side never goes on from a history with a gap in it.
THEOREM SideIsContinuous == Spec => []SideContinues
<1>1. IInv => SideContinues
  BY DEF IInv
<1>2. QED
  BY <1>1, Invariance, PTL

\* FEC repairs a packet with copies of that packet only.
THEOREM CopiesAreRecent == Spec => []FecRepairs
<1>1. IInv => FecRepairs
  BY DEF IInv
<1>2. QED
  BY <1>1, Invariance, PTL

(***************************************************************************)
(* The histories.                                                          *)
(***************************************************************************)
\* What a side's history is follows from what it has coded so far, and from
\* whether the last frame was mid-only.
MemoryOf(st, ch) ==
    IF ch \in st.first THEN "fresh"
    ELSE IF ch = Side /\ st.only = 1 THEN "stale" ELSE "follows"
MemoryShape(st) == \A ch \in Chans : st.mem[ch] = MemoryOf(st, ch)

\* The channels coded in the packet's frames from first on, before last.
CodedAmong(o, first, last) ==
    {ch \in Chans : \E i \in Frames : first =< i /\ i < last /\ ch \in CodedIn(o, i)}
OnlyAfter(o) == IF FramesPerPacket - 1 \in o THEN 1 ELSE 0

\* A stream received whole, step by step: the encoder is ahead of the
\* decoder by the frames that are written and not decoded yet.
AheadInv ==
    channel = {} =>
      /\ ~celt_before /\ ~after_celt /\ missing = 0
      /\ pc \in {"idle", "encode", "sent", "decode"}
      /\ MemoryShape(enc) /\ MemoryShape(dec)
      /\ pc = "idle" => enc.first = dec.first /\ enc.only = dec.only
      /\ pc = "encode" =>
           /\ enc.first = dec.first \ CodedAmong(packet.mid_only, 0, n_frames)
           /\ n_frames = 0 => enc.only = dec.only
      /\ pc = "sent" =>
           /\ enc.first = dec.first \ CodedAmong(packet.mid_only, 0, FramesPerPacket)
           /\ enc.only = OnlyAfter(packet.mid_only)
      /\ pc = "decode" =>
           /\ enc.first = dec.first \
                          CodedAmong(packet.mid_only, n_frames, FramesPerPacket)
           /\ enc.only = OnlyAfter(packet.mid_only)

\* The shape is a matter of three fields.
LEMMA ShapeSame ==
    ASSUME NEW st, NEW other, MemoryShape(st), other.mem = st.mem,
           other.first = st.first, other.only = st.only
    PROVE  MemoryShape(other)
BY DEF MemoryShape, MemoryOf

\* The channels a frame codes, and the side's reset, of either end.
CodedWhen(only) == IF only = 1 THEN {Mid} ELSE Chans
ResetOf(st, only) ==
    IF Channels = 2 /\ only = 0 /\ st.only = 1 THEN {Side} ELSE {}
StepOf(st, only, ctx) ==
    Step(st, ResetOf(st, only), CodedWhen(only), CodedWhen(only), ctx, only)

\* A frame that codes the side whenever it is not mid-only keeps the shape.
LEMMA ShapeStep ==
    ASSUME NEW st \in SideInfo, NEW only \in {0, 1}, NEW ctx,
           only = 1 => Channels = 2, MemoryShape(st)
    PROVE  /\ MemoryShape(Ended(StepOf(st, only, ctx)))
           /\ Ended(StepOf(st, only, ctx)).first = st.first \ CodedWhen(only)
           /\ Ended(StepOf(st, only, ctx)).only = only
<1> DEFINE coded == CodedWhen(only)
           reset == ResetOf(st, only)
           after == StepOf(st, only, ctx)
           ended == Ended(after)
<1>0. /\ coded = (IF only = 1 THEN {Mid} ELSE Chans)
      /\ reset = (IF Channels = 2 /\ only = 0 /\ st.only = 1 THEN {Side} ELSE {})
      /\ after = Step(st, reset, coded, coded, ctx, only)
  BY DEF CodedWhen, ResetOf, StepOf
<1> HIDE DEF coded, reset, after
<1>1. /\ after.first = (st.first \cup reset) \ coded
      /\ after.only = only
      /\ \A ch \in Chans :
           after.mem[ch] =
             IF ch \in reset THEN IF ch \in coded THEN "follows" ELSE "fresh"
             ELSE IF ch \in coded THEN Continued(st.mem[ch])
             ELSE Skipped(st.mem[ch])
  BY <1>0 DEF Step
<1>2. reset \subseteq coded
  BY <1>0, Basics
<1>3. after.first = st.first \ coded
  BY <1>1, <1>2
<1>4. MemoryShape(after)
  <2>1. SUFFICES ASSUME NEW ch \in Chans PROVE after.mem[ch] = MemoryOf(after, ch)
    BY DEF MemoryShape
  <2>2. st.mem[ch] = MemoryOf(st, ch) /\ st.only \in {0, 1}
    BY DEF MemoryShape, SideInfo
  <2>3. CASE ch \in coded
    <3>1. CASE ch \in reset
      <4>1. only = 0
        BY <1>0, <3>1
      <4>2. QED
        BY <1>1, <1>3, <2>3, <3>1, <4>1 DEF MemoryOf
    <3>2. CASE ch \notin reset
      <4>1. st.mem[ch] # "stale"
        BY <1>0, <2>2, <2>3, <3>2, Basics DEF MemoryOf
      <4>2. after.mem[ch] = "follows"
        BY <1>1, <2>3, <3>2, <4>1 DEF Continued
      <4>3. ~(ch = Side /\ only = 1)
        BY <1>0, <2>3, Basics
      <4>4. QED
        BY <1>1, <1>3, <2>3, <4>2, <4>3 DEF MemoryOf
    <3>3. QED
      BY <3>1, <3>2
  <2>4. CASE ch \notin coded
    <3>1. ch = Side /\ only = 1 /\ ch \notin reset
      BY <1>0, <1>2, <2>4, Basics
    <3>2. after.mem[ch] = Skipped(st.mem[ch])
      BY <1>1, <2>4, <3>1
    <3>3. st.mem[ch] = "fresh" <=> ch \in st.first
      BY <2>2 DEF MemoryOf
    <3>4. QED
      BY <1>1, <1>3, <2>4, <3>1, <3>2, <3>3 DEF MemoryOf, Skipped
  <2>5. QED
    BY <2>3, <2>4
<1>5. ended.mem = after.mem /\ ended.first = after.first /\ ended.only = after.only
  BY DEF Ended
<1>6. MemoryShape(ended)
  BY <1>4, <1>5, ShapeSame
<1>7. QED
  BY <1>1, <1>3, <1>5, <1>6 DEF after, coded

\* The frames coded, one more at the end.
LEMMA AmongNext ==
    ASSUME NEW o, NEW p, NEW n \in Frames,
           \A i \in Frames : i < n => (i \in o <=> i \in p)
    PROVE  CodedAmong(o, 0, n + 1) = CodedAmong(p, 0, n) \cup CodedIn(o, n)
<1>1. n \in Nat /\ Frames \subseteq Nat
  BY Basics
<1>2. CodedIn(o, n) \subseteq Chans
  BY Basics DEF CodedIn
<1>3. \A i \in Frames : i < n => CodedIn(o, i) = CodedIn(p, i)
  BY DEF CodedIn
<1>4. \A i \in Frames : 0 =< i /\ (i < n + 1 <=> i < n \/ i = n)
  BY <1>1
<1>5. \A ch \in Chans : ch \in CodedAmong(o, 0, n + 1) <=>
                        ch \in CodedAmong(p, 0, n) \cup CodedIn(o, n)
  BY <1>3, <1>4 DEF CodedAmong
<1>6. QED
  BY <1>2, <1>5 DEF CodedAmong

\* And one less at the start.
LEMMA AmongRest ==
    ASSUME NEW o, NEW n \in Frames
    PROVE  /\ CodedAmong(o, 0, 0) = {}
           /\ CodedAmong(o, FramesPerPacket, FramesPerPacket) = {}
           /\ CodedAmong(o, n, FramesPerPacket) =
                CodedIn(o, n) \cup CodedAmong(o, n + 1, FramesPerPacket)
<1>1. n \in Nat /\ Frames \subseteq Nat /\ FramesPerPacket \in Nat
  BY Basics, ConstantsAssumption
<1>2. \A i \in Frames : i < FramesPerPacket
  BY ConstantsAssumption DEF Frames
<1>3. \A i : CodedIn(o, i) \subseteq Chans
  BY Basics DEF CodedIn
<1>4. CodedAmong(o, 0, 0) = {}
  BY <1>1 DEF CodedAmong
<1>5. CodedAmong(o, FramesPerPacket, FramesPerPacket) = {}
  BY <1>1, <1>2 DEF CodedAmong
<1>6. CodedAmong(o, n, FramesPerPacket) =
        CodedIn(o, n) \cup CodedAmong(o, n + 1, FramesPerPacket)
  <2>1. \A i \in Frames : n =< i <=> i = n \/ n + 1 =< i
    BY <1>1
  <2>2. \A ch \in Chans : ch \in CodedAmong(o, n, FramesPerPacket) <=>
               ch \in CodedIn(o, n) \cup CodedAmong(o, n + 1, FramesPerPacket)
    BY <1>1, <1>2, <2>1 DEF CodedAmong
  <2>3. QED
    BY <1>3, <2>2 DEF CodedAmong
<1>7. QED
  BY <1>4, <1>5, <1>6

\* Both ends start alike.
LEMMA InitAhead == Init => AheadInv
<1> SUFFICES ASSUME Init PROVE AheadInv
  OBVIOUS
<1>1. MemoryShape(Fresh)
  BY DEF MemoryShape, MemoryOf, Fresh
<1>2. QED
  BY <1>1 DEF Init, AheadInv

\* A packet starts with no frame written.
LEMMA StartPacketAhead ==
    ASSUME NEW fec \in BOOLEAN, NEW fits \in BOOLEAN, NEW stays \in BOOLEAN,
           IInv, AheadInv, StartPacket(fec, fits, stays)
    PROVE  AheadInv'
<1> SUFFICES ASSUME channel' = {} PROVE AheadInv'
  BY DEF AheadInv
<1>1. /\ ~celt_before /\ ~after_celt /\ missing = 0 /\ pc = "idle"
      /\ MemoryShape(enc) /\ MemoryShape(dec)
      /\ enc.first = dec.first /\ enc.only = dec.only
  BY DEF AheadInv, StartPacket
<1>2. /\ enc'.first = enc.first /\ enc'.mem = enc.mem /\ enc'.only = enc.only
      /\ UNCHANGED <<missing, dec, after_celt>>
      /\ ~celt_before' /\ pc' = "encode" /\ n_frames' = 0
  BY <1>1 DEF StartPacket, EncoderAtStart
<1>3. MemoryShape(enc)' /\ MemoryShape(dec)'
  BY <1>1, <1>2 DEF MemoryShape, MemoryOf
<1>4. CodedAmong(packet'.mid_only, 0, 0) = {}
  BY AmongRest, Basics
<1>5. QED
  BY <1>1, <1>2, <1>3, <1>4 DEF AheadInv

\* A frame more is written.
LEMMA EncodeFrameAhead ==
    ASSUME NEW level \in [Chans -> Levels \cup {"off"}],
           \A ch \in Chans : level[ch] \in LevelsOf(ch),
           IInv, AheadInv, EncodeFrame(level)
    PROVE  AheadInv'
<1> DEFINE only == IF OnlyMid(level) THEN 1 ELSE 0
           reset == ResetForCoding(level)
           coded == CodedBy(level)
           ctx == Context("main", n_frames)
           after == Step(enc, reset, coded, coded, ctx, only)
           o == packet.mid_only
           p == packet'.mid_only
<1> SUFFICES ASSUME channel' = {} PROVE AheadInv'
  BY DEF AheadInv
<1>1. /\ channel = {} /\ pc = "encode"
      /\ UNCHANGED <<channel, celt_before, missing, dec, after_celt>>
      /\ pc' = (IF Last THEN "sent" ELSE "encode") /\ n_frames' = NextFrame
      /\ enc' = Ended(after)
  BY DEF EncodeFrame, decVars
<1>2. /\ ~celt_before /\ ~after_celt /\ missing = 0
      /\ MemoryShape(enc) /\ MemoryShape(dec)
      /\ enc.first = dec.first \ CodedAmong(o, 0, n_frames)
  BY <1>1 DEF AheadInv
<1>3. enc \in SideInfo /\ n_frames \in Frames /\ n_frames \in Nat
  BY Basics DEF IInv, TypeOK
<1>4. /\ coded = CodedIn(p, n_frames)
      /\ n_frames \in p <=> OnlyMid(level)
      /\ \A i \in Frames : i # n_frames => (i \in p <=> i \in o)
  BY EncodedIn
<1>5. coded = IF only = 1 THEN {Mid} ELSE Chans
  BY <1>4 DEF CodedIn
<1>6. only \in {0, 1} /\ (only = 1 => Channels = 2)
  BY DEF OnlyMid
<1>7. reset = IF Channels = 2 /\ only = 0 /\ enc.only = 1 THEN {Side} ELSE {}
  BY DEF ResetForCoding
<1>8. /\ MemoryShape(enc') /\ enc'.first = enc.first \ coded
      /\ enc'.only = only
  <2>1. reset = ResetOf(enc, only) /\ coded = CodedWhen(only)
    BY <1>5, <1>7 DEF ResetOf, CodedWhen
  <2> HIDE DEF only, reset, coded, ctx
  <2>2. after = StepOf(enc, only, ctx)
    BY <2>1 DEF StepOf
  <2>3. QED
    BY <1>1, <1>2, <1>3, <1>6, <2>1, <2>2, ShapeStep
<1>9. \A i \in Frames : i < n_frames => (i \in p <=> i \in o)
  <2>1. \A i \in Frames : i < n_frames => i # n_frames
    BY <1>3, Basics
  <2>2. QED
    BY <1>4, <2>1
<1>10. CodedAmong(p, 0, n_frames + 1) = CodedAmong(o, 0, n_frames) \cup coded
  <2>1. CodedAmong(p, 0, n_frames + 1) =
          CodedAmong(o, 0, n_frames) \cup CodedIn(p, n_frames)
    BY <1>3, <1>9, AmongNext
  <2>2. QED
    BY <1>4, <2>1
<1>11. enc'.first = dec'.first \ CodedAmong(p, 0, n_frames + 1)
  BY <1>1, <1>2, <1>8, <1>10
<1>12. MemoryShape(enc)' /\ MemoryShape(dec)'
  BY <1>1, <1>2, <1>8 DEF MemoryShape, MemoryOf
<1>13. CASE Last
  <2>1. n_frames + 1 = FramesPerPacket /\ n_frames = FramesPerPacket - 1
    BY <1>3, <1>13, ConstantsAssumption DEF Last
  <2>2. enc'.only = OnlyAfter(p)
    BY <1>4, <1>8, <2>1 DEF OnlyAfter
  <2>3. QED
    BY <1>1, <1>2, <1>11, <1>12, <1>13, <2>1, <2>2 DEF AheadInv
<1>14. CASE ~Last
  <2>1. n_frames' = n_frames + 1 /\ n_frames' # 0
    BY <1>1, <1>3, <1>14 DEF NextFrame
  <2>2. QED
    BY <1>1, <1>2, <1>11, <1>12, <1>14, <2>1 DEF AheadInv
<1>15. QED
  BY <1>13, <1>14

\* All of the packet is to be decoded.
LEMMA StartDecodeAhead == IInv /\ AheadInv /\ StartDecode => AheadInv'
<1> SUFFICES ASSUME IInv, AheadInv, StartDecode, channel' = {} PROVE AheadInv'
  BY DEF AheadInv
<1>1. /\ channel = {} /\ pc = "sent" /\ n_frames = 0 /\ pc' = "decode"
      /\ UNCHANGED <<enc, celt_before, packet, n_frames>>
      /\ ~after_celt' /\ missing' = 0
  BY DEF StartDecode, AheadInv, encVars, IInv, ContextInv
<1>2. /\ dec'.first = dec.first /\ dec'.mem = dec.mem /\ dec'.only = dec.only
  BY <1>1 DEF StartDecode, DecoderAtStart, AheadInv
<1>3. MemoryShape(enc)' /\ MemoryShape(dec)'
  BY <1>1, <1>2 DEF AheadInv, MemoryShape, MemoryOf
<1>4. QED
  BY <1>1, <1>2, <1>3 DEF AheadInv

\* A frame less is to be decoded.
LEMMA DecodeAhead == IInv /\ AheadInv /\ Decode => AheadInv'
<1> SUFFICES ASSUME IInv, AheadInv, Decode, channel' = {} PROVE AheadInv'
  BY DEF AheadInv
<1> DEFINE only == DecodeOnlyMid
           reset == ResetForDecoding(only)
           coded == DecodedChannels
           ctx == Context("main", n_frames)
           after == Step(dec, reset, coded, coded, ctx, only)
           o == packet.mid_only
<1>1. /\ channel = {} /\ pc = "decode"
      /\ UNCHANGED <<channel, enc, celt_before, missing, after_celt>>
      /\ pc' = (IF Last THEN "idle" ELSE "decode") /\ n_frames' = NextFrame
      /\ packet' = (IF Last THEN NoPacket ELSE packet)
      /\ dec' = Ended(after)
  BY DEF Decode, encVars
<1>2. /\ ~celt_before /\ ~after_celt /\ missing = 0
      /\ MemoryShape(enc) /\ MemoryShape(dec)
      /\ enc.first = dec.first \ CodedAmong(o, n_frames, FramesPerPacket)
      /\ enc.only = OnlyAfter(o)
  BY <1>1 DEF AheadInv
<1>3. dec \in SideInfo /\ n_frames \in Frames /\ n_frames \in Nat
  BY Basics DEF IInv, TypeOK
<1>4. /\ only = IF n_frames \in o THEN 1 ELSE 0
      /\ coded = CodedIn(o, n_frames)
  BY DecodedIn
<1>5. coded = IF only = 1 THEN {Mid} ELSE Chans
  BY <1>4 DEF CodedIn
<1>6. only \in {0, 1} /\ (only = 1 => Channels = 2)
  BY DEF DecodeOnlyMid
<1>7. reset = IF Channels = 2 /\ only = 0 /\ dec.only = 1 THEN {Side} ELSE {}
  BY DEF ResetForDecoding
<1>8. /\ MemoryShape(dec') /\ dec'.first = dec.first \ coded
      /\ dec'.only = only
  <2>1. reset = ResetOf(dec, only) /\ coded = CodedWhen(only)
    BY <1>5, <1>7 DEF ResetOf, CodedWhen
  <2> HIDE DEF only, reset, coded, ctx
  <2>2. after = StepOf(dec, only, ctx)
    BY <2>1 DEF StepOf
  <2>3. QED
    BY <1>1, <1>2, <1>3, <1>6, <2>1, <2>2, ShapeStep
<1>9. CodedAmong(o, n_frames, FramesPerPacket) =
        coded \cup CodedAmong(o, n_frames + 1, FramesPerPacket)
  BY <1>3, <1>4, AmongRest
<1>10. enc'.first = dec'.first \ CodedAmong(o, n_frames + 1, FramesPerPacket)
  BY <1>1, <1>2, <1>8, <1>9
<1>11. MemoryShape(enc)' /\ MemoryShape(dec)'
  BY <1>1, <1>2, <1>8 DEF MemoryShape, MemoryOf
<1>12. CASE Last
  <2>1. n_frames + 1 = FramesPerPacket /\ n_frames = FramesPerPacket - 1
    BY <1>3, <1>12, ConstantsAssumption DEF Last
  <2>2. enc'.only = dec'.only
    BY <1>1, <1>2, <1>4, <1>8, <2>1 DEF OnlyAfter
  <2>3. enc'.first = dec'.first
    BY <1>3, <1>10, <2>1, AmongRest
  <2>4. QED
    BY <1>1, <1>2, <1>11, <1>12, <2>2, <2>3 DEF AheadInv
<1>13. CASE ~Last
  <2>1. n_frames' = n_frames + 1 /\ packet' = packet
    BY <1>1, <1>13 DEF NextFrame
  <2>2. QED
    BY <1>1, <1>2, <1>10, <1>11, <1>13, <2>1 DEF AheadInv
<1>14. QED
  BY <1>12, <1>13

\* The encoder stays ahead of the decoder by what is written.
LEMMA NextAhead == IInv /\ AheadInv /\ [Next]_vars => AheadInv'
<1> SUFFICES ASSUME IInv, AheadInv, [Next]_vars PROVE AheadInv'
  OBVIOUS
<1>1. CASE \E fec, fits, stays \in BOOLEAN : StartPacket(fec, fits, stays)
  BY <1>1, StartPacketAhead
<1>2. CASE \E level \in [Chans -> Levels \cup {"off"}] :
              /\ \A ch \in Chans : level[ch] \in LevelsOf(ch)
              /\ EncodeFrame(level)
  BY <1>2, EncodeFrameAhead
<1>3. CASE Lose
  BY <1>3 DEF Lose, AheadInv
<1>4. CASE \E heard \in BOOLEAN : CeltPackets(heard)
  BY <1>4 DEF CeltPackets, AheadInv
<1>5. CASE Conceal \/ StartFec
  <2>1. missing > 0 /\ UNCHANGED channel
    BY <1>5 DEF Conceal, StartFec
  <2>2. QED
    BY <2>1 DEF AheadInv
<1>6. CASE StartDecode
  BY <1>6, StartDecodeAhead
<1>7. CASE DecodeFec
  BY <1>7 DEF DecodeFec, AheadInv
<1>8. CASE Decode
  BY <1>8, DecodeAhead
<1>9. CASE UNCHANGED vars
  <2>1. UNCHANGED <<channel, pc, enc, celt_before, packet, missing, dec,
                    after_celt, n_frames>>
    BY <1>9 DEF vars, encVars, decVars
  <2>2. QED
    BY <2>1 DEF AheadInv, MemoryShape, MemoryOf
<1>10. QED
  BY <1>1, <1>2, <1>3, <1>4, <1>5, <1>6, <1>7, <1>8, <1>9 DEF Next

\* A stream received whole leaves both ends with the same histories: every
\* reset of one has its counterpart in the other, in packets of any number
\* of frames, mid-only or not.
THEOREM HistoriesAgree == Spec => []MemoriesAgree
<1>1. IInv /\ AheadInv => MemoriesAgree
  <2> SUFFICES ASSUME IInv, AheadInv, pc = "idle", channel = {}
               PROVE  dec.first = enc.first /\ dec.mem = enc.mem
                      /\ dec.only = enc.only
    BY DEF MemoriesAgree
  <2>1. /\ enc.first = dec.first /\ enc.only = dec.only
        /\ MemoryShape(enc) /\ MemoryShape(dec)
    BY DEF AheadInv
  <2>2. enc.mem \in [Chans -> Memories] /\ dec.mem \in [Chans -> Memories]
    BY DEF IInv, TypeOK, SideInfo
  <2>3. \A ch \in Chans : enc.mem[ch] = dec.mem[ch]
    BY <2>1 DEF MemoryShape, MemoryOf
  <2>4. enc.mem = dec.mem
    BY <2>2, <2>3
  <2>5. QED
    BY <2>1, <2>4
<1>2. Spec => []AheadInv
  <2>1. Init => AheadInv
    BY InitAhead
  <2>2. IInv /\ AheadInv /\ [Next]_vars => AheadInv'
    BY NextAhead
  <2>3. QED
    BY <2>1, <2>2, Invariance, PTL DEF Spec
<1>3. QED
  BY <1>1, <1>2, Invariance, PTL

=============================================================================
