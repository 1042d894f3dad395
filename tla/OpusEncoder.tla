----------------------------- MODULE OpusEncoder -----------------------------
(***************************************************************************)
(* OpusEncoder (lib.rs): how encode() chooses the mode, the bandwidth and  *)
(* the in-band FEC of a packet, starts the SILK encoder over after CELT,   *)
(* falls back when the budget is too small, and splits 40 and 60 ms frames *)
(* into sub-frames.                                                        *)
(*                                                                         *)
(* The decisions are computed with the code's integers.  The audio and the *)
(* two codecs are reduced to what a packet's frames were coded with, which *)
(* the ToC byte must tell the decoder: packet is the result of the last    *)
(* call, and each of its frames records the SILK rate and frame size, the  *)
(* CELT end band, and where SILK's history came from.                      *)
(*                                                                         *)
(* One call of encode() is one step, or, split, a step that starts it, one *)
(* per sub-frame, and one that puts the packet together; forced_mode is    *)
(* set in between.  Durations are counted in units of 2.5 ms, sampling     *)
(* rates in kHz.  settings are the public fields after encode() clamped    *)
(* them.  A negative rate passes no threshold, so its rounding is free.    *)
(*                                                                         *)
(* An operator Mut<Name> is <Name> with a slip the properties must catch;  *)
(* nothing here uses it.                                                   *)
(***************************************************************************)
EXTENDS OpusToc, Sequences, FiniteSetsExt

CONSTANTS
    SamplingRate, Channels, Application, Complexity,
    AllSettings,    \* the settings the caller uses
    FrameSizes,     \* the frame sizes it encodes
    Buffers,        \* the lengths of its output buffers
    MayBust         \* whether a frame may exceed its budget

MaxBitrate == 3000000
LegalSettings == [bitrate : 500..MaxBitrate, cbr : BOOLEAN, fec : BOOLEAN,
                  loss : 0..100]

ASSUME ConstantsAssumption ==
    /\ SamplingRate \in {8, 12, 16, 24, 48}
    /\ Channels \in {1, 2}
    /\ Application \in {"Voip", "Audio", "RestrictedLowDelay"}
    /\ Complexity \in 0..10
    /\ AllSettings \subseteq LegalSettings
    /\ FrameSizes \subseteq {1, 2, 4, 8, 16, 24}
    /\ Buffers \subseteq Nat \ {0, 1}
    /\ MayBust \in BOOLEAN

VARIABLES
    settings,       \* bitrate_bps, use_cbr, use_inband_fec, packet_loss_perc
    silk,           \* [initialized, fs, units, lbrr, src]; units: the packet
                    \* size control_encoder was last told
    prev_enc_mode,
    \* the running call, split into sub-frames
    forced_mode, call, sub,
    \* history
    last,           \* what the last frame was coded for
    packet          \* what the last call returned

callVars == <<forced_mode, call, sub>>
vars == <<settings, silk, prev_enc_mode, callVars, last, packet>>

Sources == {"reset", "follows", "stale"}

NoPacket == [toc |-> 0, frames |-> <<>>, units |-> 0]
NoCall == [units |-> 0, buf |-> 0]
NoSettings == [bitrate |-> 0, cbr |-> FALSE, fec |-> FALSE, loss |-> 0]
NoLast == [settings |-> NoSettings, units |-> 0, buf |-> 0, mode |-> "None"]

Init == /\ settings \in AllSettings
        /\ silk = [initialized |-> FALSE, fs |-> 0, units |-> 0,
                   lbrr |-> FALSE, src |-> "reset"]
        /\ prev_enc_mode = "None"
        /\ forced_mode = "None"
        /\ call = NoCall
        /\ sub = <<>>
        /\ last = NoLast
        /\ packet = NoPacket

\* new(); enable_hybrid_mode() sets it to the same.
bandwidth == CASE SamplingRate = 8 -> NB
               [] SamplingRate = 12 -> MB
               [] SamplingRate = 16 -> WB
               [] SamplingRate = 24 -> SWB
               [] SamplingRate = 48 -> FB

(***************************************************************************)
(* The mode of a packet.                                                   *)
(***************************************************************************)
\* compute_equiv_rate()
EquivRate(units) ==
    LET rate == FrameRate(units)
        framed == settings.bitrate - (IF rate > 50
                                      THEN (40 * Channels + 20) * (rate - 50)
                                      ELSE 0)
        coded == IF settings.cbr THEN framed - framed \div 12 ELSE framed
        complex == (coded * (90 + Complexity)) \div 100
    IN  complex - (complex * settings.loss) \div (12 * settings.loss + 20)

\* compute_mode_threshold(), with hysteresis.
MutModeHysteresis == CASE prev_enc_mode = "None" -> 0
                       [] prev_enc_mode = "CeltOnly" -> 4000
                       [] OTHER -> -4000
ModeHysteresis == CASE prev_enc_mode = "None" -> 0
                    [] prev_enc_mode = "CeltOnly" -> -4000
                    [] OTHER -> 4000

ModeThreshold ==
    LET voice_est == IF Application = "Voip" THEN 115 ELSE 48
        diff == (IF Channels = 1 THEN 64000 ELSE 44000) - 10000
    IN  10000 + (voice_est * voice_est * diff) \div 16384
          + (IF Application = "Voip" THEN 8000 ELSE 0) + ModeHysteresis

MutSelectedMode(units) ==
    IF forced_mode # "None" THEN forced_mode
    ELSE IF Application = "RestrictedLowDelay" THEN "CeltOnly"
    ELSE IF EquivRate(units) >= ModeThreshold /\ SamplingRate >= 24
         THEN "CeltOnly"
    ELSE "SilkOnly"
SelectedMode(units) ==
    IF forced_mode # "None" THEN forced_mode
    ELSE IF Application = "RestrictedLowDelay" THEN "CeltOnly"
    ELSE IF EquivRate(units) >= ModeThreshold /\ SamplingRate >= 24
         THEN "CeltOnly"
    ELSE IF bandwidth >= SWB THEN "Hybrid" ELSE "SilkOnly"

\* n_bytes: the packet's budget.
Clamp(x, lo, hi) == Max({lo, Min({x, hi})})

CbrBytes(units) == ((settings.bitrate * units) \div 400 + 4) \div 8

Budget(units, buf) ==
    Clamp(IF settings.cbr THEN Min({CbrBytes(units), buf}) ELSE buf, 1, 1276)

\* A budget too small for SILK.
TinyBudget(units, n) ==
    n * 3200 < (IF FrameRate(units) > 50 THEN 9000 ELSE 6000) * units

Mode(units, n) ==
    IF TinyBudget(units, n) THEN "CeltOnly" ELSE SelectedMode(units)

\* Split into sub-frames of 20 ms.
Splits(mode, units) ==
    forced_mode = "None" /\ mode # "SilkOnly" /\ units > 8

(***************************************************************************)
(* decide_fec(): whether a packet carries FEC, and at which bandwidth.     *)
(***************************************************************************)
FecThresholds == <<12000, 14000, 16000, 20000, 22000>>
MutFecHysteresis == IF silk.lbrr THEN 1000 ELSE -1000
FecHysteresis == IF silk.lbrr THEN -1000 ELSE 1000

LbrrThreshold(bw) ==
    ((FecThresholds[bw + 1] + FecHysteresis)
        * (125 - Min({settings.loss, 25})) * 655) \div 65536

\* Up to 5% loss only the bandwidth itself will do.
MutFecBandwidths(units) ==
    {bw \in NB..bandwidth : EquivRate(units) > LbrrThreshold(bw)}
FecBandwidths(units) ==
    {bw \in NB..bandwidth : /\ EquivRate(units) > LbrrThreshold(bw)
                            /\ settings.loss <= 5 => bw = bandwidth}

LbrrCoded(mode, units) == /\ settings.fec
                          /\ settings.loss > 0
                          /\ mode # "CeltOnly"
                          /\ FecBandwidths(units) # {}

FrameBandwidth(mode, units) ==
    IF LbrrCoded(mode, units) THEN Max(FecBandwidths(units)) ELSE bandwidth

(***************************************************************************)
(* One frame: encode_impl() once the mode is settled.                      *)
(***************************************************************************)
\* A frame size the mode has no ToC for.
Supported(mode, units) == CASE mode = "CeltOnly" -> units \in {1, 2, 4, 8}
                            [] mode = "Hybrid" -> units \in {4, 8}
                            [] mode = "SilkOnly" -> units \in {4, 8, 16, 24}

\* A budget too small to code anything: the packet is a ToC, or in CBR empty
\* frames and padding.
MutStarved(units, n) ==
    n < 3 \/ settings.bitrate < 2400
Starved(units, n) ==
    LET rate == FrameRate(units)
    IN  \/ n < 3
        \/ settings.bitrate < 24 * rate
        \/ rate < 50 /\ (n * rate < 300 \/ settings.bitrate < 2400)

\* Its ToC's mode, frame rate and number of frames.
StarvedConfig(mode, units, n) ==
    LET rate == FrameRate(units)
        toc_mode == IF rate > 100 THEN "CeltOnly" ELSE mode
    IN  IF rate = 25 /\ toc_mode # "SilkOnly"
        THEN [mode |-> toc_mode, rate |-> 50, count |-> 2]
        ELSE IF rate <= 16 /\ (n = 1 \/ toc_mode = "SilkOnly")
        THEN [mode |-> "SilkOnly", rate |-> 16, count |-> 1]
        ELSE IF rate <= 16
        THEN [mode |-> toc_mode, rate |-> 50, count |-> 50 \div rate]
        ELSE [mode |-> toc_mode, rate |-> rate, count |-> 1]

StarvedToc(mode, units, n) ==
    LET config == StarvedConfig(mode, units, n)
        bw == FrameBandwidth(mode, units)
    IN  GenToc(config.mode, config.rate,
               IF config.mode = "SilkOnly" THEN Min({bw, WB}) ELSE bw,
               Channels)

\* A frame the decoder conceals, in a packet of its own.  Among sub-frames
\* only its bytes after the first are taken: in CBR the count and padding of
\* the packet it came in.
Filler(toc, mode, n) ==
    [data |-> IF forced_mode # "None" /\ settings.cbr /\ n > 1
              THEN "header" ELSE "empty",
     toc |-> toc, mode |-> mode, fs |-> 0, units |-> 0, end_band |-> 0,
     src |-> "reset", restart |-> FALSE]

StarvedFrames(mode, units, n) ==
    [i \in 1..StarvedConfig(mode, units, n).count |->
        Filler(StarvedToc(mode, units, n), mode, n)]

\* A frame that busted its budget: in CBR an empty one, else a payload of
\* one zero byte.
BustedFrame(toc, mode, n) ==
    IF settings.cbr THEN Filler(toc, mode, n)
                    ELSE [Filler(toc, mode, n) EXCEPT !.data = "zero"]

\* SILK starts over after CELT, and its geometry is set up again then, or
\* for another rate, or when enable_hybrid_mode() called for it.
SilkRate(mode) == IF mode = "Hybrid" THEN 16 ELSE Min({SamplingRate, 16})

MutRestarts == prev_enc_mode = "CeltOnly" /\ ~silk.initialized
Restarts == prev_enc_mode = "CeltOnly"

MutSilkUnits(mode, units) == Min({units, 8})
SilkUnits(mode, units) ==
    IF Restarts \/ ~silk.initialized \/ silk.fs # SilkRate(mode) THEN units
                                                              ELSE silk.units

EndBand(bw) == CASE bw = NB -> 13
                 [] bw \in {MB, WB} -> 17
                 [] bw = SWB -> 19
                 [] bw = FB -> 21

\* A frame of audio, and what it was coded with.
AudioFrame(toc, mode, units) ==
    [data |-> "audio", toc |-> toc, mode |-> mode,
     fs |-> IF mode = "CeltOnly" THEN 0 ELSE SilkRate(mode),
     units |-> IF mode = "CeltOnly" THEN units ELSE SilkUnits(mode, units),
     end_band |-> IF mode = "SilkOnly" THEN 0
                  ELSE EndBand(FrameBandwidth(mode, units)),
     src |-> IF mode = "CeltOnly" THEN "follows" ELSE silk.src,
     restart |-> mode # "CeltOnly" /\ Restarts]

\* Stereo SILK rejects a frame shorter than its packet size.
Rejected(mode, units) == /\ mode # "CeltOnly"
                         /\ Channels = 2
                         /\ SilkUnits(mode, units) > units

Fails(mode, units, n) ==
    ~Supported(mode, units) \/ (~Starved(units, n) /\ Rejected(mode, units))

\* The frames a packet of encode_impl() holds.
Frames(mode, units, n, busted) ==
    LET toc == GenToc(mode, FrameRate(units), FrameBandwidth(mode, units),
                      Channels)
    IN  IF Starved(units, n) THEN StarvedFrames(mode, units, n)
        ELSE IF busted THEN <<BustedFrame(toc, mode, n)>>
        ELSE <<AudioFrame(toc, mode, units)>>

\* What encode_impl() leaves: before the budget is checked, and after a frame
\* of CELT or SILK.  Of a SILK-only packet it remembers the mode only if it
\* is CBR with room left, or busted.
MutDropFec(mode) == /\ silk' = [silk EXCEPT !.lbrr = @ /\ mode # "CeltOnly"]
                    /\ prev_enc_mode' = mode
DropFec(mode) == /\ silk' = [silk EXCEPT !.lbrr = @ /\ mode # "CeltOnly"]
                 /\ UNCHANGED prev_enc_mode

CodeCelt == /\ silk' = [silk EXCEPT !.lbrr = FALSE,
                                    !.src = IF @ = "reset" THEN @ ELSE "stale"]
            /\ prev_enc_mode' = "CeltOnly"

CodeSilk(mode, units, busted, full) ==
    /\ silk' = [initialized |-> TRUE, fs |-> SilkRate(mode),
                units |-> SilkUnits(mode, units),
                lbrr |-> LbrrCoded(mode, units), src |-> "follows"]
    /\ prev_enc_mode' = IF /\ mode = "SilkOnly"
                           /\ ~busted
                           /\ ~settings.cbr \/ full
                        THEN prev_enc_mode ELSE mode

\* The stereo encoder rejects its input after FEC is set up.
RejectSilk(mode, units) ==
    /\ silk' = [silk EXCEPT !.lbrr = LbrrCoded(mode, units)]
    /\ UNCHANGED prev_enc_mode

CodeFrame(mode, units, n, busted, full) ==
    IF ~Supported(mode, units) \/ Starved(units, n) THEN DropFec(mode)
    ELSE IF mode = "CeltOnly" THEN CodeCelt
    ELSE IF Rejected(mode, units) THEN RejectSilk(mode, units)
    ELSE CodeSilk(mode, units, busted, full)

(***************************************************************************)
(* encode(): in one step, or split by encode_multiframe().                 *)
(***************************************************************************)
Set(s) == /\ forced_mode = "None"
          /\ settings' = s
          /\ UNCHANGED <<silk, prev_enc_mode, callVars, last, packet>>

EnableHybridMode ==
    /\ forced_mode = "None"
    /\ SamplingRate \in {24, 48}
    /\ silk' = [silk EXCEPT !.initialized = FALSE]
    /\ UNCHANGED <<settings, prev_enc_mode, callVars, last, packet>>

Encode(units, buf, busted, full) ==
    LET n == Budget(units, buf)
        mode == Mode(units, n)
    IN  /\ forced_mode = "None"
        /\ ~Splits(mode, units)
        /\ CodeFrame(mode, units, n, busted, full)
        /\ last' = [settings |-> settings, units |-> units, buf |-> buf,
                    mode |-> mode]
        /\ packet' = IF Fails(mode, units, n) THEN NoPacket
                     ELSE [toc |-> Frames(mode, units, n, busted)[1].toc,
                           frames |-> Frames(mode, units, n, busted),
                           units |-> units]
        /\ UNCHANGED <<settings, callVars>>

Split(units, buf) ==
    LET mode == Mode(units, Budget(units, buf))
    IN  /\ Splits(mode, units)
        /\ forced_mode' = mode
        /\ call' = [units |-> units, buf |-> buf]
        /\ sub' = <<>>
        /\ UNCHANGED <<settings, silk, prev_enc_mode, last, packet>>

MutEndCall == /\ forced_mode' = "None"
              /\ call' = NoCall
              /\ UNCHANGED sub
EndCall == /\ forced_mode' = "None"
           /\ call' = NoCall
           /\ sub' = <<>>

\* Each sub-frame has 20 ms and a buffer of its own.
EncodeSub(busted, full) ==
    LET n == Budget(8, 1276)
        mode == Mode(8, n)
    IN  /\ forced_mode # "None"
        /\ Len(sub) < call.units \div 8
        /\ CodeFrame(mode, 8, n, busted, full)
        /\ last' = [settings |-> settings, units |-> call.units,
                    buf |-> call.buf, mode |-> forced_mode]
        /\ IF Fails(mode, 8, n)
           THEN EndCall /\ packet' = NoPacket
           ELSE /\ sub' = Append(sub, Frames(mode, 8, n, busted)[1])
                /\ UNCHANGED <<forced_mode, call, packet>>
        /\ UNCHANGED settings

\* The sub-frames may not fit the caller's buffer.
Join(fits) ==
    /\ forced_mode # "None"
    /\ Len(sub) = call.units \div 8
    /\ packet' = IF fits THEN [toc |-> sub[1].toc, frames |-> sub,
                               units |-> call.units] ELSE NoPacket
    /\ prev_enc_mode' = IF fits THEN forced_mode ELSE prev_enc_mode
    /\ EndCall
    /\ UNCHANGED <<settings, silk, last>>

Next == \/ \E s \in AllSettings : Set(s)
        \/ EnableHybridMode
        \/ \E units \in FrameSizes, buf \in Buffers :
              \/ Split(units, buf)
              \/ \E busted \in {FALSE, MayBust}, full \in BOOLEAN :
                    Encode(units, buf, busted, full)
        \/ \E busted \in {FALSE, MayBust}, full \in BOOLEAN :
              EncodeSub(busted, full)
        \/ \E fits \in BOOLEAN : Join(fits)

Spec == Init /\ [][Next]_vars

(***************************************************************************)
(* Properties.                                                             *)
(***************************************************************************)
FrameRecords ==
    [data : {"audio", "empty", "zero", "header"}, toc : 0..255, mode : Modes,
     fs : {0, 8, 12, 16}, units : {0, 1, 2, 4, 8, 16, 24},
     end_band : {0, 13, 17, 19, 21}, src : Sources, restart : BOOLEAN]

TypeOK == /\ settings \in AllSettings
          /\ silk \in [initialized : BOOLEAN, fs : {0, 8, 12, 16},
                       units : {0, 4, 8, 16, 24}, lbrr : BOOLEAN,
                       src : Sources]
          /\ prev_enc_mode \in Modes \cup {"None"}
          /\ forced_mode \in {"None", "Hybrid", "CeltOnly"}
          /\ call \in [units : {0, 16, 24}, buf : Buffers \cup {0}]
          /\ sub \in Seq(FrameRecords)
          /\ Len(sub) <= call.units \div 8
          /\ packet.frames \in Seq(FrameRecords)

AudioFrames(p) == {i \in DOMAIN p.frames : p.frames[i].data = "audio"}

\* A packet lasts as long as the input it codes, on every path that makes
\* one: coded, starved, busted or split.
PacketLasts == packet # NoPacket =>
    Len(packet.frames) * UnitsFromToc(packet.toc) = packet.units

\* The decoder decodes every frame of audio in the mode that coded it.
ModeAgrees == \A i \in AudioFrames(packet) :
    packet.frames[i].mode = ModeFromToc(packet.toc)

\* "It can lower the frame's bandwidth when a high loss rate demands FEC":
\* SILK codes a frame at the rate of the bandwidth its packet announces.
SilkRateAgrees == \A i \in AudioFrames(packet) :
    LET f == packet.frames[i]
    IN  f.mode # "CeltOnly" => f.fs = SilkRateFromToc(packet.toc)

\* "Match the TOC bandwidth so the decoder reads the same number of coded
\* bands (issue #37)."
CeltBandsAgree == \A i \in AudioFrames(packet) :
    LET f == packet.frames[i]
    IN  f.mode # "SilkOnly" => f.end_band = EndBandFromToc(packet.toc)

\* "The encoder consumes exactly frame_size * channels samples per call":
\* SILK is set up for the frame size it codes, also when the caller changes
\* it between packets.
SilkGeometryAgrees == \A i \in AudioFrames(packet) :
    packet.frames[i].units = UnitsFromToc(packet.toc)

\* "Every sub-frame is forced to `mode` so the packet carries a single
\* config."
SingleConfig == \A i \in DOMAIN packet.frames :
    packet.frames[i].toc = packet.toc

\* "A budget too small to code anything useful produces a TOC-only 'PLC'
\* packet -- decoders conceal it as a loss", and of a frame that busted its
\* budget "the zero-length frame makes the decoder conceal": never are the
\* bytes of a packet that codes nothing decoded as a frame.
FillersAlwaysConceal == \A i \in DOMAIN packet.frames :
    packet.frames[i].data \in {"audio", "empty"}

\* What that takes: no frame busts its budget, and no CBR rate leaves a
\* 20 ms frame of a split packet two bytes, as one of 600 to 1199 bit/s does;
\* or no call is split, and what busts is CBR.
FillersSound ==
    \/ ~MayBust /\ \A s \in AllSettings : s.cbr => s.bitrate \notin 600..1199
    \/ FrameSizes \subseteq {1, 2, 4, 8}
       /\ (MayBust => \A s \in AllSettings : s.cbr)

\* A starved frame is empty and so concealed, under that condition.
FillersConceal == FillersSound => FillersAlwaysConceal

\* "(Re)entering SILK/hybrid from CELT resets the SILK encoder": it never
\* codes from what it heard before a stretch of CELT.
SilkRestartsAfterCelt == \A i \in AudioFrames(packet) :
    packet.frames[i].src = "stale" => packet.frames[i].restart

\* And it is reset only then.
SilkRestartsOnce == \A i \in AudioFrames(packet) :
    packet.frames[i].restart => packet.frames[i].src # "follows"

\* The mode does not flap: the same call is coded in the same mode as the
\* one before.
SameCall == /\ last'.settings = last.settings
            /\ last'.units = last.units
            /\ last'.buf = last.buf

ModeSettles == [][SameCall => last'.mode = last.mode]_vars
=============================================================================
