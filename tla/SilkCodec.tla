----------------------------- MODULE SilkCodec -----------------------------
(***************************************************************************)
(* The SILK layer from end to end: silk_encode_stereo_packet() and         *)
(* silk_encode() (silk/enc_api.rs), a network that loses packets, and      *)
(* SilkDecoder (silk/dec_api.rs).                                          *)
(*                                                                         *)
(* Nothing in a packet says what comes next: the decoder knows which       *)
(* symbol to read, and from which alphabet, from what it has read so far,  *)
(* and must come to the same answer as the encoder did.  A packet is here  *)
(* the sequence of its symbols, each with the alphabet it is coded with    *)
(* and, where it is relative to an earlier value, that value's frame.      *)
(*                                                                         *)
(* Each side is a record: first (first_frame_after_reset), mem (whether    *)
(* the synthesis history of a channel is that of the output), gain (the    *)
(* frame last_gain_index is from), ec (the frame ec_prev_signal_type and   *)
(* ec_prev_lag_index are from) and only (prev_decode_only_middle).  The    *)
(* signal itself, what its analysis decides (voice activity, mid-only      *)
(* frames) and the search for the bit rate are left to chance; number of   *)
(* channels, sampling rate and frame size do not change.                   *)
(*                                                                         *)
(* An operator Mut<Name> is <Name> with a slip the properties must catch;  *)
(* nothing here uses it.                                                   *)
(***************************************************************************)
EXTENDS Naturals, Sequences

CONSTANTS
    Channels,           \* 1, or 2 for mid and side
    FramesPerPacket,    \* n_frames_per_packet
    MaxMissing,         \* bound: packets lost in a row
    Impairments         \* what may happen to the stream

\* "loss": the network loses packets; "celt": the encoder codes CELT-only
\* packets for a while, and comes back.
ImpairmentKinds == {"loss", "celt"}

ASSUME ConstantsAssumption ==
    /\ Channels \in {1, 2}
    /\ FramesPerPacket \in 1..3
    /\ MaxMissing \in Nat \ {0}
    /\ Impairments \subseteq ImpairmentKinds

Mid == 1
Side == 2
Chans == 1..Channels
Frames == 0..(FramesPerPacket - 1)

VARIABLES
    channel,            \* the impairments of this stream
    pc,
    \* the encoder
    enc,
    lbrr,               \* [channel -> [frame -> its LBRR copy]]
    mid_only_flags,     \* the frames of the last packet that had this flag
    lbrr_enabled,
    celt_before,        \* prev_enc_mode is CeltOnly
    \* the packet, as written so far, and the packets lost before it
    packet, missing,
    \* the decoder
    dec,
    after_celt,         \* prev_mode is CeltOnly
    \* the frame being coded or decoded
    n_frames,
    \* history: what the decoder's last step should have read and read
    read

encVars == <<enc, lbrr, mid_only_flags, lbrr_enabled, celt_before>>
decVars == <<dec, after_celt, read>>
vars == <<channel, pc, encVars, packet, missing, decVars, n_frames>>

(***************************************************************************)
(* Values.                                                                 *)
(***************************************************************************)
Codings == {"independently", "no_ltp_scaling", "conditionally"}
Memories == {"fresh", "follows", "stale"}
Levels == {"silent", "vad", "active"}   \* active enough for LBRR

\* Where a value that later ones are relative to comes from.
Contexts == [part : {"none", "older", "main", "lbrr"}, i : Frames]
Context(part, i) == [part |-> part, i |-> i]
Nothing == Context("none", 0)
\* A frame of an earlier packet, or the value after a reset.
Older == Context("older", 0)

\* The LBRR copy of a frame: how old it is, and what its gains are relative
\* to.
Copies == [age : {"none", "last", "older"}, gain : Contexts]
NoCopy == [age |-> "none", gain |-> Nothing]
NoCopies == [i \in Frames |-> NoCopy]

SideInfo == [first : SUBSET Chans, mem : [Chans -> Memories],
             gain : [Chans -> Contexts], ec : [Chans -> Contexts],
             only : {0, 1}]
Fresh == [first |-> Chans, mem |-> [ch \in Chans |-> "fresh"],
          gain |-> [ch \in Chans |-> Older], ec |-> [ch \in Chans |-> Older],
          only |-> 0]

\* The history of a channel when the output goes on without it, and with it:
\* a gap in it stays until a reset.
Skipped(mem) == IF mem = "fresh" THEN "fresh" ELSE "stale"
Continued(mem) == IF mem = "stale" THEN "stale" ELSE "follows"

(***************************************************************************)
(* The symbols.                                                            *)
(***************************************************************************)
Symbol(name, ch, alphabet, coding, lag) ==
    [name |-> name, ch |-> ch, alphabet |-> alphabet, coding |-> coding,
     lag |-> lag]
Plain(name, ch) == Symbol(name, ch, "", "", Nothing)

\* The flags of n channels, later patched in, and one LBRR symbol.
FlagBits == Plain("flags", Channels)
LbrrSymbol(ch) == Plain("lbrr_flags", ch)
Pred == Plain("pred", Mid)
MidOnly == Plain("mid_only", Mid)

\* Indices and pulses of one channel's frame.  The pitch lag is relative to
\* the last one only if the frame is coded conditionally.
FrameSymbol(ch, alphabet, coding, lag) ==
    Symbol("frame", ch, alphabet, coding,
           IF coding = "conditionally" THEN lag ELSE Nothing)

If(condition, symbols) == IF condition THEN symbols ELSE <<>>

\* A gain is relative to the last one only if coded conditionally.
GainBase(coding, gain) == IF coding = "conditionally" THEN gain ELSE Nothing

\* The last frame before frame i of those in S, as a context.
LastOf(S, i, before) ==
    IF \E j \in S : j < i
    THEN Context("lbrr", CHOOSE j \in S : j < i /\ \A k \in S : k < i => k =< j)
    ELSE before

NoPacket == [flags |-> [ch \in Chans |-> {}],
             copies |-> [ch \in Chans |-> NoCopies],
             lbrr_only |-> {}, head |-> <<>>, lbrr |-> [i \in Frames |-> <<>>],
             vad |-> [ch \in Chans |-> {}], mid_only |-> {},
             frames |-> [i \in Frames |-> <<>>],
             gain |-> [i \in Frames |-> [ch \in Chans |-> Nothing]]]

NoGains == [ch \in Chans |-> Nothing]
Reading(part, want, got, quantized, dequantized, side) ==
    [part |-> part, want |-> want, got |-> got, quantized |-> quantized,
     dequantized |-> dequantized, side |-> side]
NothingRead == Reading("none", <<>>, <<>>, NoGains, NoGains, "fresh")

\* A stream is sound, or may meet all the impairments.
Init == /\ channel \in {{}, Impairments}
        /\ pc = "idle"
        /\ enc = Fresh
        /\ lbrr = [ch \in Chans |-> NoCopies]
        /\ mid_only_flags = {}
        /\ lbrr_enabled = FALSE
        /\ celt_before = FALSE
        /\ packet = NoPacket
        /\ missing = 0
        /\ dec = Fresh
        /\ after_celt = FALSE
        /\ n_frames = 0
        /\ read = NothingRead

(***************************************************************************)
(* One frame of st, on either side: the channels in `reset` start over,    *)
(* those in `ran` produce output, by decoding or concealment, and those in *)
(* `coded` have this frame's indices, at context ctx.                      *)
(***************************************************************************)
Step(st, reset, ran, coded, ctx, only) ==
    [first |-> (st.first \cup reset) \ coded,
     mem |-> [ch \in Chans |->
                 IF ch \in reset THEN IF ch \in ran THEN "follows" ELSE "fresh"
                 ELSE IF ch \in ran THEN Continued(st.mem[ch])
                 ELSE Skipped(st.mem[ch])],
     gain |-> [ch \in Chans |->
                 IF ch \in coded THEN ctx
                 ELSE IF ch \in reset THEN Older ELSE st.gain[ch]],
     ec |-> [ch \in Chans |-> IF ch \in coded THEN ctx ELSE st.ec[ch]],
     only |-> only]

\* After the last frame of a packet all contexts are those of an older one.
Last == n_frames + 1 = FramesPerPacket
Ended(st) == IF Last
             THEN [first |-> st.first, mem |-> st.mem,
                   gain |-> [ch \in Chans |-> Older],
                   ec |-> [ch \in Chans |-> Older], only |-> st.only]
             ELSE st
MutNextFrame == n_frames + 1
NextFrame == IF Last THEN 0 ELSE n_frames + 1

(***************************************************************************)
(* The encoder: the start of a packet.  A restart (re)enters SILK from     *)
(* CELT; silk_init_encoder() leaves the mid's history where it is.         *)
(***************************************************************************)
\* prev_enc_mode is CeltOnly.
EncoderAtStart ==
    IF celt_before
    THEN [first |-> Chans,
          mem |-> [ch \in Chans |->
                      IF ch = Mid THEN Skipped(enc.mem[Mid]) ELSE "fresh"],
          gain |-> [ch \in Chans |-> Older],
          ec |-> [ch \in Chans |-> Older],
          only |-> 0]
    ELSE enc

MidOnlyAtStart == IF celt_before THEN {} ELSE mid_only_flags

\* A reset drops the copies the last packet left.
MutKeptCopies(ch) == lbrr[ch]
KeptCopies(ch) == IF ch \in EncoderAtStart.first THEN NoCopies ELSE lbrr[ch]

\* The frames whose copies go into the packet, of each channel.
LbrrFlags(fec, fits) ==
    [ch \in Chans |->
        IF fec /\ fits THEN {i \in Frames : KeptCopies(ch)[i] # NoCopy}
        ELSE {}]

\* encode_lbrr_frame(), and the loop of encode_lbrr_section().
LbrrCoding(flags, i) ==
    IF i > 0 /\ i - 1 \in flags THEN "conditionally" ELSE "independently"

LbrrFrame(flags, ch, i) ==
    If(i \in flags[ch],
       <<FrameSymbol(ch, "vad", LbrrCoding(flags[ch], i),
                     LastOf(flags[ch], i, Older))>>)

\* encode_lbrr_section_stereo(), from the multi-frame symbols on.
LbrrHeader(flags, i) ==
    If(Channels = 2 /\ i \in flags[Mid],
       <<Pred>> \o If(i \notin flags[Side], <<MidOnly>>))

LbrrSymbols(flags) ==
    If(FramesPerPacket > 1 /\ flags[Mid] # {}, <<LbrrSymbol(Mid)>>)
    \o If(Channels = 2 /\ FramesPerPacket > 1 /\ flags[Side] # {},
          <<LbrrSymbol(Side)>>)

LbrrSection(flags) ==
    [i \in Frames |->
        LbrrHeader(flags, i) \o LbrrFrame(flags, Mid, i)
        \o If(Channels = 2, LbrrFrame(flags, Side, i))]

PacketStart(flags) ==
    [flags |-> flags,
     copies |-> [ch \in Chans |-> KeptCopies(ch)],
     lbrr_only |-> MidOnlyAtStart,
     head |-> <<FlagBits>> \o LbrrSymbols(flags),
     lbrr |-> LbrrSection(flags),
     vad |-> NoPacket.vad, mid_only |-> {},
     frames |-> NoPacket.frames, gain |-> NoPacket.gain]

\* The packet's LBRR section; frame after frame follows.  fec: copies are to
\* be written and made; fits: there is room for them, on a trial whose effect
\* on ec is undone; stays: the encoder forgets to note that it left CELT.
StartPacket(fec, fits, stays) ==
    /\ pc = "idle"
    /\ packet' = PacketStart(LbrrFlags(fec, fits))
    /\ enc' = [first |-> EncoderAtStart.first, mem |-> EncoderAtStart.mem,
               gain |-> EncoderAtStart.gain,
               ec |-> [ch \in Chans |->
                         LastOf(LbrrFlags(fec, fits)[ch], FramesPerPacket,
                                Older)],
               only |-> EncoderAtStart.only]
    /\ lbrr' = [ch \in Chans |-> NoCopies]
    /\ mid_only_flags' = MidOnlyAtStart
    /\ lbrr_enabled' = fec
    /\ celt_before' = (celt_before /\ stays)
    /\ n_frames' = 0
    /\ pc' = "encode"
    /\ read' = NothingRead
    /\ UNCHANGED <<channel, missing, dec, after_celt>>

(***************************************************************************)
(* The encoder: frame n_frames.  level is the activity of each channel,    *)
(* "off" for a side that is not coded because the frame is mid-only.       *)
(***************************************************************************)
LevelsOf(ch) == IF ch = Mid THEN Levels ELSE Levels \cup {"off"}
CodedBy(level) == {ch \in Chans : level[ch] # "off"}
OnlyMid(level) == Channels = 2 /\ level[Side] = "off"

\* A side coded after mid-only frames starts over.
MutResetForCoding(level) == {}
ResetForCoding(level) ==
    IF Channels = 2 /\ ~OnlyMid(level) /\ enc.only = 1 THEN {Side} ELSE {}

MutEncodeCoding(ch) ==
    IF n_frames = 0 THEN "independently" ELSE "conditionally"
EncodeCoding(ch) ==
    IF n_frames = 0 THEN "independently"
    ELSE IF ch = Side /\ enc.only = 1 THEN "no_ltp_scaling"
    ELSE "conditionally"

HasVad(level, ch) == level[ch] \in {"vad", "active"}

\* The stereo header; a side with voice activity says by itself that the
\* frame is not mid-only.
EncodeHeader(level) ==
    If(Channels = 2, <<Pred>> \o If(~HasVad(level, Side), <<MidOnly>>))

EncodedFrame(level, ch) ==
    If(ch \in CodedBy(level),
       <<FrameSymbol(ch, IF HasVad(level, ch) THEN "vad" ELSE "no_vad",
                     EncodeCoding(ch), enc.ec[ch])>>)

\* silk_lbrr_encode(): its gains are requantized from the index of the main
\* frame, as it is coded, from the last copy's gain within a run of copies
\* and from the main frame's own gain at the start of a run.
RunStarts(ch) == n_frames = 0 \/ lbrr[ch][n_frames - 1] = NoCopy
CopyGain(ch) ==
    GainBase(EncodeCoding(ch),
             IF RunStarts(ch) THEN Context("main", n_frames)
                              ELSE Context("lbrr", n_frames - 1))
Copied(level, ch) == lbrr_enabled /\ level[ch] = "active"

EncodeFrame(level) ==
    /\ pc = "encode"
    /\ packet' = [flags |-> packet.flags, copies |-> packet.copies,
                  lbrr_only |-> packet.lbrr_only, head |-> packet.head,
                  lbrr |-> packet.lbrr,
                  vad |-> [ch \in Chans |->
                             packet.vad[ch] \cup
                             {i \in {n_frames} : HasVad(level, ch)}],
                  mid_only |-> packet.mid_only \cup
                               {i \in {n_frames} : OnlyMid(level)},
                  frames |-> [packet.frames EXCEPT ![n_frames] =
                                EncodeHeader(level) \o EncodedFrame(level, Mid)
                                \o If(Channels = 2, EncodedFrame(level, Side))],
                  gain |-> [packet.gain EXCEPT ![n_frames] =
                              [ch \in Chans |->
                                 IF ch \in CodedBy(level)
                                 THEN GainBase(EncodeCoding(ch), enc.gain[ch])
                                 ELSE Nothing]]]
    /\ enc' = Ended(Step(enc, ResetForCoding(level), CodedBy(level),
                         CodedBy(level), Context("main", n_frames),
                         IF OnlyMid(level) THEN 1 ELSE 0))
    /\ lbrr' = [ch \in Chans |->
                  IF Copied(level, ch)
                  THEN [lbrr[ch] EXCEPT ![n_frames] =
                          [age |-> "last", gain |-> CopyGain(ch)]]
                  ELSE lbrr[ch]]
    /\ mid_only_flags' = (mid_only_flags \ {n_frames}) \cup
                         {i \in {n_frames} : OnlyMid(level)}
    /\ n_frames' = NextFrame
    /\ pc' = IF Last THEN "sent" ELSE "encode"
    /\ UNCHANGED <<channel, lbrr_enabled, celt_before, missing, decVars>>

(***************************************************************************)
(* The network, and a while of CELT-only packets, heard or lost.           *)
(***************************************************************************)
\* The copies grow old with every packet that does not carry them.
Aged(copies) ==
    [i \in Frames |-> IF copies[i] = NoCopy THEN NoCopy
                      ELSE [age |-> "older", gain |-> copies[i].gain]]

Lose ==
    /\ pc = "sent"
    /\ "loss" \in channel
    /\ missing < MaxMissing
    /\ missing' = missing + 1
    /\ pc' = "idle"
    /\ packet' = NoPacket
    /\ UNCHANGED <<channel, encVars, decVars, n_frames>>

CeltPackets(heard) ==
    /\ pc = "idle"
    /\ "celt" \in channel
    /\ heard \/ ("loss" \in channel /\ missing < MaxMissing)
    /\ missing' = IF heard THEN 0 ELSE missing + 1
    /\ after_celt' = (after_celt \/ heard)
    /\ celt_before' = TRUE
    /\ lbrr' = [ch \in Chans |-> Aged(lbrr[ch])]
    /\ UNCHANGED <<channel, pc, enc, mid_only_flags, lbrr_enabled, packet,
                   dec, read, n_frames>>

(***************************************************************************)
(* The decoder.  After CELT, losses are concealed by CELT, FEC is not      *)
(* used, and SILK starts over with the next packet.                        *)
(***************************************************************************)
\* A side that is decoded or concealed after mid-only frames starts over.
MutResetForDecoding(only) == {}
ResetForDecoding(only) ==
    IF Channels = 2 /\ only = 0 /\ dec.only = 1 THEN {Side} ELSE {}

\* The history the side goes on from, if it is among those that run.
SideFrom(reset, ran) ==
    IF Side \notin ran \/ Side \in reset THEN "fresh" ELSE dec.mem[Side]

\* A loss keeps the mid-only flag of the last frame and drops the gains.
Concealed(st) == [first |-> st.first, mem |-> st.mem,
                  gain |-> [ch \in Chans |-> Older], ec |-> st.ec,
                  only |-> dec.only]

ConcealedChannels == IF dec.only = 0 THEN Chans ELSE {Mid}

\* The frames of one lost packet; the second is as the first.
Conceal ==
    /\ pc \in {"sent", "arrived"}
    /\ pc' = "arrived"
    /\ missing > 0
    /\ missing' = missing - 1
    /\ IF after_celt
       THEN UNCHANGED <<dec, read>>
       ELSE /\ dec' = Concealed(Step(dec, ResetForDecoding(0),
                                     ConcealedChannels, {}, Nothing, 0))
            /\ read' = Reading("none", <<>>, <<>>, NoGains, NoGains,
                               SideFrom(ResetForDecoding(0),
                                        ConcealedChannels))
    /\ UNCHANGED <<channel, encVars, packet, after_celt, n_frames>>

\* The flags, then one symbol for each channel with LBRR.
DecodeHead ==
    <<FlagBits>>
    \o (If(packet.flags[Mid] # {} /\ FramesPerPacket # 1, <<LbrrSymbol(Mid)>>)
        \o If(Channels = 2,
              If(packet.flags[Side] # {} /\ FramesPerPacket # 1,
                 <<LbrrSymbol(Side)>>)))

MutDecodeLbrrCoding(ch, i) ==
    IF i > 0 THEN "conditionally" ELSE "independently"
DecodeLbrrCoding(ch, i) ==
    IF i > 0 /\ i - 1 \in packet.flags[ch] THEN "conditionally"
                                           ELSE "independently"

\* The stereo header of an LBRR frame of the mid.
DecodeLbrrHeader(i) ==
    If(Channels = 2 /\ i \in packet.flags[Mid],
       <<Pred>> \o If(i \notin packet.flags[Side], <<MidOnly>>))

LbrrOnlyMid(i) ==
    IF Channels = 2 /\ i \in packet.flags[Mid] \ packet.flags[Side]
       /\ i \in packet.lbrr_only
    THEN 1 ELSE 0

\* Normal decoding reads past the LBRR frames of all channels.
SkippedFrame(ch, i) ==
    If(i \in packet.flags[ch],
       <<FrameSymbol(ch, "vad", DecodeLbrrCoding(ch, i),
                     LastOf(packet.flags[ch], i, Older))>>)

SkippedSection ==
    [i \in Frames |->
        DecodeLbrrHeader(i) \o SkippedFrame(Mid, i)
        \o If(Channels = 2, SkippedFrame(Side, i))]

\* The SILK decoder at the start of a packet, reset after CELT.  What was
\* lost and not asked for by now stays lost.
DecoderAtStart == IF after_celt THEN Fresh ELSE dec

StartDecode ==
    /\ pc \in {"sent", "arrived"}
    /\ pc' = "decode"
    /\ missing' = 0
    /\ dec' = [first |-> DecoderAtStart.first, mem |-> DecoderAtStart.mem,
               gain |-> DecoderAtStart.gain,
               ec |-> [ch \in Chans |->
                         LastOf(packet.flags[ch], FramesPerPacket, Older)],
               only |-> DecoderAtStart.only]
    /\ after_celt' = FALSE
    /\ read' = Reading("start", <<packet.head, packet.lbrr>>,
                       <<DecodeHead, SkippedSection>>, NoGains, NoGains,
                       "fresh")
    /\ UNCHANGED <<channel, encVars, packet, n_frames>>

StartFec ==
    /\ pc \in {"sent", "arrived"}
    /\ missing > 0
    /\ ~after_celt
    /\ missing' = 0
    /\ pc' = "fec"
    /\ read' = Reading("start", <<packet.head>>, <<DecodeHead>>, NoGains,
                       NoGains, "fresh")
    /\ UNCHANGED <<channel, encVars, packet, dec, after_celt, n_frames>>

\* A side that has no LBRR is concealed if the last good frame coded it.
FecChannels ==
    {ch \in Chans : ch = Mid \/ dec.only = 0 \/ n_frames \in packet.flags[ch]}
FecCoded == {ch \in Chans : n_frames \in packet.flags[ch]}

FecFrame(ch) ==
    If(ch \in FecCoded,
       <<FrameSymbol(ch, "vad", DecodeLbrrCoding(ch, n_frames), dec.ec[ch])>>)

\* The packet lost before this one, frame n_frames: its LBRR copy, or
\* concealment.
DecodeFec ==
    /\ pc = "fec"
    /\ dec' = Step(dec, ResetForDecoding(LbrrOnlyMid(n_frames)), FecChannels,
                   FecCoded, Context("lbrr", n_frames), LbrrOnlyMid(n_frames))
    /\ read' = Reading("lbrr", packet.lbrr[n_frames],
                       DecodeLbrrHeader(n_frames) \o FecFrame(Mid)
                       \o If(Channels = 2, FecFrame(Side)),
                       [ch \in Chans |->
                          IF ch \in FecCoded
                          THEN packet.copies[ch][n_frames].gain ELSE Nothing],
                       [ch \in Chans |->
                          IF ch \in FecCoded
                          THEN GainBase(DecodeLbrrCoding(ch, n_frames),
                                        dec.gain[ch])
                          ELSE Nothing],
                       SideFrom(ResetForDecoding(LbrrOnlyMid(n_frames)),
                                FecChannels))
    /\ n_frames' = NextFrame
    /\ pc' = IF Last THEN "arrived" ELSE "fec"
    /\ UNCHANGED <<channel, encVars, packet, missing, after_celt>>

DecodeHeader ==
    If(Channels = 2,
       <<Pred>> \o If(n_frames \notin packet.vad[Side], <<MidOnly>>))

DecodeOnlyMid ==
    IF Channels = 2 /\ n_frames \notin packet.vad[Side]
       /\ n_frames \in packet.mid_only
    THEN 1 ELSE 0

DecodedChannels == IF DecodeOnlyMid = 0 THEN Chans ELSE {Mid}

DecodeCoding(ch) ==
    IF n_frames = 0 THEN "independently"
    ELSE IF ch = Side /\ dec.only = 1 THEN "no_ltp_scaling"
    ELSE "conditionally"

DecodedFrame(ch) ==
    If(ch \in DecodedChannels,
       <<FrameSymbol(ch, IF n_frames \in packet.vad[ch] THEN "vad" ELSE "no_vad",
                     DecodeCoding(ch), dec.ec[ch])>>)

Decode ==
    /\ pc = "decode"
    /\ dec' = Ended(Step(dec, ResetForDecoding(DecodeOnlyMid),
                         DecodedChannels, DecodedChannels,
                         Context("main", n_frames), DecodeOnlyMid))
    /\ read' = Reading("main", packet.frames[n_frames],
                       DecodeHeader \o DecodedFrame(Mid)
                       \o If(Channels = 2, DecodedFrame(Side)),
                       packet.gain[n_frames],
                       [ch \in Chans |->
                          IF ch \in DecodedChannels
                          THEN GainBase(DecodeCoding(ch), dec.gain[ch])
                          ELSE Nothing],
                       SideFrom(ResetForDecoding(DecodeOnlyMid),
                                DecodedChannels))
    /\ n_frames' = NextFrame
    /\ pc' = IF Last THEN "idle" ELSE "decode"
    /\ packet' = IF Last THEN NoPacket ELSE packet
    /\ UNCHANGED <<channel, encVars, missing, after_celt>>

Next ==
    \/ \E fec, fits, stays \in BOOLEAN : StartPacket(fec, fits, stays)
    \/ \E level \in [Chans -> Levels \cup {"off"}] :
          /\ \A ch \in Chans : level[ch] \in LevelsOf(ch)
          /\ EncodeFrame(level)
    \/ Lose
    \/ \E heard \in BOOLEAN : CeltPackets(heard)
    \/ Conceal
    \/ StartDecode
    \/ StartFec
    \/ DecodeFec
    \/ Decode

Spec == Init /\ [][Next]_vars

(***************************************************************************)
(* Properties.                                                             *)
(***************************************************************************)
\* Every variable has its type.
TypeOK ==
    /\ channel \subseteq Impairments
    /\ pc \in {"idle", "encode", "sent", "arrived", "fec", "decode"}
    /\ enc \in SideInfo
    /\ lbrr \in [Chans -> [Frames -> Copies]]
    /\ mid_only_flags \subseteq Frames
    /\ lbrr_enabled \in BOOLEAN
    /\ celt_before \in BOOLEAN
    /\ packet.flags \in [Chans -> SUBSET Frames]
    /\ packet.copies \in [Chans -> [Frames -> Copies]]
    /\ packet.vad \in [Chans -> SUBSET Frames]
    /\ packet.mid_only \subseteq Frames
    /\ packet.lbrr_only \subseteq Frames
    /\ packet.gain \in [Frames -> [Chans -> Contexts]]
    /\ missing \in 0..MaxMissing
    /\ dec \in SideInfo
    /\ after_celt \in BOOLEAN
    /\ n_frames \in Frames

\* The decoder reads each frame as the encoder wrote it: the same symbols in
\* the same order, from the same alphabets, relative to the same earlier
\* frame, whatever was lost, repaired or skipped before it.
InStep == read.got = read.want

\* A gain coded relative to the last one is added to the gain it was taken
\* relative to: silk_gains_dequant() of a frame starts from the index
\* silk_gains_quant() started from.
MainGainsAgree == read.part = "main" => read.dequantized = read.quantized

\* The decoder never continues the side from the history of frames before
\* the last mid-only ones, not by decoding it, not from its LBRR copy and
\* not when it conceals a loss.
SideContinues == read.side # "stale"

\* What a packet repeats is the packet just before it: FEC never puts older
\* audio in the place of a lost packet.
FecRepairs ==
    \A ch \in Chans : \A i \in packet.flags[ch] :
        packet.copies[ch][i].age = "last"

\* On a stream received whole, with no time in CELT, the histories of both
\* sides are the same after each packet: every reset of one has its
\* counterpart in the other.
MemoriesAgree ==
    (pc = "idle" /\ channel = {}) =>
        /\ dec.first = enc.first
        /\ dec.mem = enc.mem
        /\ dec.only = enc.only

\* The same of the LBRR copies: "This index is coded absolutely here (first
\* frame of an LBRR run)" (enc_api.rs:558), "Decode to get gains in sync with
\* the decoder" (enc_api.rs:566).
LbrrGainsAgree == read.part = "lbrr" => read.dequantized = read.quantized
=============================================================================
