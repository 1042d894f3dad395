---------------------------- MODULE OpusDecoder ----------------------------
(***************************************************************************)
(* OpusDecoder (lib.rs): the control that switches between the SILK-only,  *)
(* Hybrid and CELT-only layers, bridges the switches, conceals losses and  *)
(* rebuilds a lost packet from in-band FEC.                                *)
(*                                                                         *)
(* The two codecs are reduced to what the switching depends on.  Each has  *)
(* a source: "reset" when it holds no history, "follows" when its history  *)
(* ends where the output so far ends, "stale" when output went on without  *)
(* it.  A layer that decodes from a stale history continues an old signal. *)
(* heard is a history variable: the pieces of audio the last step put in   *)
(* the output, each with the source it was made from.                      *)
(*                                                                         *)
(* One call of decode(), decode_fec() or decode_lost() is a sequence of    *)
(* steps, one per Opus frame or concealed chunk; pc, packet, left,         *)
(* transition, bridged and has_redundancy are its locals.  Durations are   *)
(* counted in units of 2.5 ms, sampling rates in kHz.  A call that returns *)
(* Err does so before it touches any of this state and is not a step.      *)
(*                                                                         *)
(* An operator Mut<Name> is <Name> with a slip the properties must catch;  *)
(* nothing here uses it.                                                   *)
(***************************************************************************)
EXTENDS Naturals

CONSTANTS
    SamplingRate,   \* of the output
    Channels,       \* of the output
    MaxFrames,      \* bound: frames per packet
    MaxLost,        \* bound: units one call conceals
    Impairments     \* what the network and the sender may do:

\* "loss": calls without a packet, and FEC calls; "empty": frames without
\* data or without a CELT layer; "late": a redundant frame that leaves CELT
\* in another frame than the first of a packet, or enters it in another
\* than the last.
ImpairmentKinds == {"loss", "empty", "late"}

ASSUME ConstantsAssumption ==
    /\ SamplingRate \in {8, 12, 16, 24, 48}
    /\ Channels \in {1, 2}
    /\ MaxFrames \in Nat \ {0}
    /\ MaxLost \in Nat \ {0}
    /\ Impairments \subseteq ImpairmentKinds

VARIABLES
    channel,        \* the impairments of this stream
    \* the decoder
    prev_mode, prev_redundancy, stream_channels, prev_internal_rate,
    resampler,      \* the SILK rate silk_resampler is set up for, 0 before
    right,          \* whether silk_resampler_2 has the history of the left
    silk,           \* [fs, nch, src]: sample_rate(), n_channels_internal
    celt,           \* the source of the CELT decoder's state
    \* the running call
    pc, packet,
    left,           \* frames to decode, or units to conceal
    transition, bridged, has_redundancy,
    \* history
    heard

streamVars == <<prev_mode, prev_redundancy, stream_channels>>
rateVars == <<prev_internal_rate, resampler>>
callVars == <<pc, packet, left, transition, bridged, has_redundancy>>
vars == <<streamVars, rateVars, right, silk, celt, callVars, heard, channel>>

Modes == {"SilkOnly", "Hybrid", "CeltOnly"}
SilkModes == {"SilkOnly", "Hybrid"}
InternalRates == {8, 12, 16}
Sources == {"reset", "follows", "stale"}
Layers == {"silk", "silk_plc", "right", "celt", "celt_plc", "redundant",
           "bridge"}

\* Frame durations a TOC can carry in each mode.
Durations(mode) == CASE mode = "SilkOnly" -> {4, 8, 16, 24}
                     [] mode = "Hybrid" -> {4, 8}
                     [] mode = "CeltOnly" -> {1, 2, 4, 8}

\* The rate of the SILK layer under each mode.
RatesOf(mode) == IF mode = "SilkOnly" THEN InternalRates ELSE {16}

Packets == [mode : Modes, rate : InternalRates, ch : {1, 2},
            units : {1, 2, 4, 8, 16, 24}, n : 1..MaxFrames]
NoPacket == [mode |-> "None", rate |-> 0, ch |-> 0, units |-> 0, n |-> 0]

Init == /\ channel \in SUBSET Impairments
        /\ prev_mode = "None"
        /\ prev_redundancy = FALSE
        /\ stream_channels = Channels
        /\ prev_internal_rate = 0
        /\ resampler = 0
        /\ right = TRUE
        /\ silk = [fs |-> IF SamplingRate < 16 THEN SamplingRate ELSE 16,
                   nch |-> Channels, src |-> "reset"]
        /\ celt = "reset"
        /\ pc = "idle"
        /\ packet = NoPacket
        /\ left = 0
        /\ transition = FALSE
        /\ bridged = FALSE
        /\ has_redundancy = FALSE
        /\ heard = {}

\* The source of a layer when the output goes on without it.
Skipped(src) == IF src = "reset" THEN "reset" ELSE "stale"

Piece(by, src) == [by |-> by, src |-> src]

(***************************************************************************)
(* decode_silk_frames(): the SILK layer of one Opus frame of `units`, with *)
(* the resamplers.  The first internal frame of its loop decides which     *)
(* channels run through silk_resampler_2; the next ones (frames of 40 and  *)
(* 60 ms) find the channel count unchanged.                                *)
(***************************************************************************)
\* Concealment keeps the channel count of the last frame.
SilkChannels(lost) == IF lost THEN silk.nch ELSE stream_channels

\* A stream turning stereo: the right resampler starts from the left's.
MutClonesRight(lost) == FALSE
ClonesRight(lost) ==
    Channels = 2 /\ SilkChannels(lost) = 2 /\ silk.nch = 1

\* The first mono frame after stereo still uses the right resampler.
StereoToMono(lost, rate) ==
    /\ SilkChannels(lost) = 1
    /\ silk.nch = 2
    /\ rate = silk.fs
    /\ prev_mode \in SilkModes

UsesRight(lost, rate) ==
    Channels = 2 /\ (SilkChannels(lost) = 2 \/ StereoToMono(lost, rate))

SilkLayer(lost, rate, units) ==
    /\ silk' = [fs |-> rate, nch |-> SilkChannels(lost), src |-> "follows"]
    /\ right' = (\/ SilkChannels(lost) = 2
                 \/ StereoToMono(lost, rate) /\ units =< 8)

\* Set up for another rate, the SILK decoder starts over.
SilkSource(rate) == IF rate = silk.fs THEN silk.src ELSE "reset"

RightSource(lost) == IF right \/ ClonesRight(lost) THEN "follows" ELSE "stale"

SilkPieces(lost, rate) ==
    {Piece(IF lost THEN "silk_plc" ELSE "silk", SilkSource(rate))}
    \cup
    IF UsesRight(lost, rate) THEN {Piece("right", RightSource(lost))} ELSE {}

\* The resamplers are set up again for another SILK rate, and after CELT,
\* when the rate of the last SILK frame is forgotten.
SetRate(rate, forget) ==
    /\ prev_internal_rate' = rate
    /\ IF forget \/ rate # prev_internal_rate \/ resampler = 0
       THEN resampler' = rate /\ right' = TRUE
       ELSE UNCHANGED <<resampler, right>>

(***************************************************************************)
(* decode(): what the switch from the previous packet's mode calls for.    *)
(* prev_mode and prev_redundancy keep their values until the call ends.    *)
(***************************************************************************)
Switch(mode) == prev_mode # "None" /\ prev_mode # mode

FromCelt(mode) == Switch(mode) /\ prev_mode = "CeltOnly"

ModeTransition(mode) == Switch(mode) /\ ~prev_redundancy

\* The switches bridged with 5 ms of the old mode.
Transition(mode) ==
    FromCelt(mode) \/ (mode = "CeltOnly" /\ ModeTransition(mode))

\* 10 ms of SILK concealment are made for the bridge into CELT...
SilkBridge(mode) ==
    mode = "CeltOnly" /\ Transition(mode) /\ prev_internal_rate > 0

\* ...and reach prev_pcm_tail as they are, or through the left resampler.
BridgeResamples == prev_internal_rate # SamplingRate /\ resampler # 0
MutBridgeHasAudio == BridgeResamples
BridgeHasAudio == prev_internal_rate = SamplingRate \/ BridgeResamples

\* SILK starts over on a switch from CELT.
MutSilkOnSwitch(mode) == silk
SilkOnSwitch(mode) ==
    IF FromCelt(mode) THEN [silk EXCEPT !.src = "reset"]
    ELSE IF SilkBridge(mode)
         THEN [fs |-> prev_internal_rate, nch |-> silk.nch, src |-> "follows"]
         ELSE silk

Begin(mode, rate, ch, units, n) ==
    /\ pc = "idle"
    /\ pc' = "frame"
    /\ packet' = [mode |-> mode, rate |-> rate, ch |-> ch, units |-> units,
                  n |-> n]
    /\ left' = n
    /\ transition' = Transition(mode)
    /\ bridged' = (SilkBridge(mode) /\ BridgeHasAudio)
    /\ has_redundancy' = FALSE
    /\ stream_channels' = ch
    /\ heard' = IF SilkBridge(mode)
                THEN {Piece("silk_plc", SilkSource(prev_internal_rate))}
                ELSE {}
    /\ silk' = SilkOnSwitch(mode)
    /\ celt' = IF mode = "CeltOnly" /\ ModeTransition(mode) THEN "reset"
                                                            ELSE celt
    /\ IF mode = "CeltOnly"
       THEN /\ right' = (right /\ ~(SilkBridge(mode) /\ BridgeResamples))
            /\ UNCHANGED rateVars
       ELSE SetRate(rate, FromCelt(mode))
    /\ UNCHANGED <<prev_mode, prev_redundancy>>

(***************************************************************************)
(* decode(): one frame of each mode.  redundancy is "none", "to_celt" (the *)
(* frame ends with 5 ms of CELT from a fresh state, which the next CELT    *)
(* frame carries on) or "to_silk" (it opens with 5 ms of CELT continuing   *)
(* the old state).                                                         *)
(***************************************************************************)
Redundancies == {"none", "to_celt", "to_silk"}

First == left = packet.n

InFrame(mode) == pc = "frame" /\ packet.mode = mode /\ left > 0

\* The frames a packet may hold.
Sendable(empty, has_celt, redundancy) ==
    /\ empty => redundancy = "none" /\ ~has_celt
    /\ empty \/ ~has_celt => "empty" \in channel
    /\ redundancy = "to_silk" => First \/ "late" \in channel
    /\ redundancy = "to_celt" => left = 1 \/ "late" \in channel

\* Without a redundant frame, a frame after CELT makes conceal_celt_bridge()
\* conceal the old CELT state forward.
ConcealsCelt(redundancy) ==
    First /\ FromCelt(packet.mode) /\ redundancy = "none"

BridgePieces(redundancy) ==
    IF ConcealsCelt(redundancy) THEN {Piece("celt_plc", celt)} ELSE {}

\* The frame out of CELT is mixed in unless its history is known stale.
MutUsesToSilk == TRUE
UsesToSilk == prev_mode # "SilkOnly" \/ prev_redundancy

RedundantPieces(redundancy) ==
    CASE redundancy = "to_celt" -> {Piece("redundant", "reset")}
      [] redundancy = "to_silk" /\ UsesToSilk -> {Piece("redundant", celt)}
      [] OTHER -> {}

\* A redundant frame is its own bridge.
FrameDone(redundancy) ==
    /\ left' = left - 1
    /\ transition' = (transition /\ ~(First /\ redundancy # "none"))
    /\ bridged' = (bridged \/ ConcealsCelt(redundancy))
    /\ has_redundancy' = (redundancy = "to_celt")
    /\ UNCHANGED <<pc, packet>>

SilkFrame(empty, redundancy) ==
    /\ InFrame("SilkOnly")
    /\ Sendable(empty, ~empty, redundancy)
    /\ SilkLayer(empty, packet.rate, packet.units)
    /\ celt' = IF redundancy = "to_celt" THEN "follows"
               ELSE IF redundancy = "to_silk" \/ ConcealsCelt(redundancy)
               THEN "stale" ELSE Skipped(celt)
    /\ heard' = SilkPieces(empty, packet.rate)
                  \cup RedundantPieces(redundancy)
                  \cup BridgePieces(redundancy)
    /\ FrameDone(redundancy)
    /\ UNCHANGED <<streamVars, rateVars>>

\* The state the CELT layer of a Hybrid frame starts from: the reset of a
\* mode switch comes after the redundant frame, or the bridge, out of CELT.
MutHybridCelt(redundancy) ==
    IF redundancy = "to_silk" \/ ConcealsCelt(redundancy) THEN "follows"
    ELSE celt
HybridCelt(redundancy) ==
    IF First /\ ModeTransition("Hybrid") THEN "reset"
    ELSE IF redundancy = "to_silk" \/ ConcealsCelt(redundancy) THEN "follows"
    ELSE celt

\* has_celt: more than one byte is left for the CELT layer.  Without, the
\* layer is silent and its decoder does not run.
HybridFrame(empty, has_celt, redundancy) ==
    /\ InFrame("Hybrid")
    /\ Sendable(empty, has_celt, redundancy)
    /\ SilkLayer(empty, packet.rate, packet.units)
    /\ celt' = IF redundancy = "to_celt" \/ has_celt THEN "follows"
               ELSE Skipped(HybridCelt(redundancy))
    /\ heard' = SilkPieces(empty, packet.rate)
                  \cup RedundantPieces(redundancy)
                  \cup BridgePieces(redundancy)
                  \cup IF has_celt THEN {Piece("celt", HybridCelt(redundancy))}
                                   ELSE {}
    /\ FrameDone(redundancy)
    /\ UNCHANGED <<streamVars, rateVars>>

\* A zero-length CELT frame is decoded like any other.
CeltFrame ==
    /\ InFrame("CeltOnly")
    /\ celt' = "follows"
    /\ silk' = [silk EXCEPT !.src = Skipped(@)]
    /\ heard' = {Piece("celt", celt)}
    /\ FrameDone("none")
    /\ UNCHANGED <<streamVars, rateVars, right>>

\* The locals of a call that returned.
Returned == /\ pc' = "idle"
            /\ packet' = NoPacket
            /\ left' = 0
            /\ transition' = FALSE
            /\ bridged' = FALSE
            /\ has_redundancy' = FALSE

\* The 5 ms bridge out of prev_pcm_tail, and the state for the next packet.
Finish ==
    /\ pc = "frame"
    /\ left = 0
    /\ heard' = IF transition /\ packet.n * packet.units >= 2
                THEN {Piece("bridge", IF bridged THEN "follows" ELSE "stale")}
                ELSE {}
    /\ prev_mode' = packet.mode
    /\ prev_redundancy' = has_redundancy
    /\ Returned
    /\ UNCHANGED <<stream_channels, rateVars, right, silk, celt>>

(***************************************************************************)
(* decode_lost(), alone or for the head of decode_fec().                   *)
(***************************************************************************)
BeginLost(units) ==
    /\ "loss" \in channel
    /\ pc = "idle"
    /\ pc' = "lost"
    /\ left' = units
    /\ heard' = {}
    /\ UNCHANGED <<streamVars, rateVars, right, silk, celt, packet,
                   transition, bridged, has_redundancy>>

\* The next units are concealed; then the call returns or goes on with FEC.
MutConcealed(n) ==
    IF left # n
    THEN left' = left - n /\ UNCHANGED <<pc, packet, transition, bridged,
                                         has_redundancy>>
    ELSE IF packet = NoPacket THEN Returned
    ELSE /\ pc' = "fec"
         /\ left' = 0
         /\ UNCHANGED <<packet, transition, bridged, has_redundancy>>
Concealed(n) ==
    IF left > n
    THEN left' = left - n /\ UNCHANGED <<pc, packet, transition, bridged,
                                         has_redundancy>>
    ELSE IF packet = NoPacket THEN Returned
    ELSE /\ pc' = "fec"
         /\ left' = 0
         /\ UNCHANGED <<packet, transition, bridged, has_redundancy>>

\* Nothing decoded yet: silence.
LostNothing ==
    /\ pc = "lost"
    /\ prev_mode = "None"
    /\ Concealed(left)
    /\ heard' = {}
    /\ UNCHANGED <<streamVars, rateVars, right, silk, celt>>

\* The largest CELT frame that fits.
LostCelt ==
    /\ pc = "lost"
    /\ prev_mode = "CeltOnly"
    /\ \E n \in {1, 2, 4, 8} : /\ n =< left
                               /\ n < 8 => left < 2 * n
                               /\ Concealed(n)
    /\ celt' = "follows"
    /\ silk' = [silk EXCEPT !.src = Skipped(@)]
    /\ heard' = {Piece("celt_plc", celt)}
    /\ UNCHANGED <<streamVars, rateVars, right>>

MutSilkChunk == IF left >= 8 THEN 8 ELSE IF left >= 4 THEN 4 ELSE 0
SilkChunk == IF left >= 8 THEN 8 ELSE 4

MutLostRate == 16
LostRate == IF prev_mode = "Hybrid" THEN 16 ELSE prev_internal_rate

LostSilk ==
    /\ pc = "lost"
    /\ prev_mode \in SilkModes
    /\ Concealed(SilkChunk)
    /\ SilkLayer(TRUE, LostRate, SilkChunk)
    /\ celt' = IF prev_mode = "Hybrid" THEN "follows" ELSE Skipped(celt)
    /\ heard' = SilkPieces(TRUE, LostRate)
                  \cup IF prev_mode = "Hybrid" THEN {Piece("celt_plc", celt)}
                                               ELSE {}
    /\ UNCHANGED <<streamVars, rateVars>>

(***************************************************************************)
(* decode_fec().  When the packet can hold no FEC the call is BeginLost of *)
(* the whole frame_size; otherwise its head is concealed first, and the    *)
(* last `units` come from the LBRR of the packet's first frame.            *)
(***************************************************************************)
BeginFec(mode, rate, ch, units, total) ==
    /\ "loss" \in channel
    /\ pc = "idle"
    /\ prev_mode # "CeltOnly"
    /\ total >= units
    /\ pc' = IF total > units THEN "lost" ELSE "fec"
    /\ left' = total - units
    /\ packet' = [mode |-> mode, rate |-> rate, ch |-> ch, units |-> units,
                  n |-> 1]
    /\ heard' = {}
    /\ UNCHANGED <<streamVars, rateVars, right, silk, celt, transition,
                   bridged, has_redundancy>>

FecRate ==
    /\ pc = "fec"
    /\ pc' = "lbrr"
    /\ stream_channels' = packet.ch
    /\ SetRate(packet.rate, FALSE)
    /\ heard' = {}
    /\ UNCHANGED <<prev_mode, prev_redundancy, silk, celt, packet, left,
                   transition, bridged, has_redundancy>>

\* The CELT state a Hybrid frame's high band is concealed from.
FecCelt == IF prev_mode = "SilkOnly" /\ ~prev_redundancy THEN "reset" ELSE celt

FecFrame ==
    /\ pc = "lbrr"
    /\ SilkLayer(FALSE, packet.rate, packet.units)
    /\ celt' = IF packet.mode = "Hybrid" THEN "follows" ELSE Skipped(celt)
    /\ heard' = SilkPieces(FALSE, packet.rate)
                  \cup IF packet.mode = "Hybrid"
                       THEN {Piece("celt_plc", FecCelt)} ELSE {}
    /\ prev_mode' = packet.mode
    /\ prev_redundancy' = FALSE
    /\ Returned
    /\ UNCHANGED <<stream_channels, rateVars>>

(***************************************************************************)
(* The specification: any sequence of calls.                               *)
(***************************************************************************)
Decode == \E mode \in Modes : \E rate \in RatesOf(mode),
             units \in Durations(mode), ch \in {1, 2}, n \in 1..MaxFrames :
             Begin(mode, rate, ch, units, n)

DecodeFec == \E mode \in SilkModes : \E rate \in RatesOf(mode),
                units \in Durations(mode), ch \in {1, 2},
                total \in 1..MaxLost :
                BeginFec(mode, rate, ch, units, total)

DecodeLost == \E units \in 1..MaxLost : BeginLost(units)

Continue == \/ \E empty, has_celt \in BOOLEAN, redundancy \in Redundancies :
                  \/ SilkFrame(empty, redundancy)
                  \/ HybridFrame(empty, has_celt, redundancy)
            \/ CeltFrame \/ Finish
            \/ LostNothing \/ LostCelt \/ LostSilk
            \/ FecRate \/ FecFrame

Next == /\ Decode \/ DecodeFec \/ DecodeLost \/ Continue
        /\ UNCHANGED channel

Spec == Init /\ [][Next]_vars

\* A call that has begun runs on: it is one sequential function.
FairSpec == Spec /\ WF_vars(Continue /\ UNCHANGED channel)

(***************************************************************************)
(* Properties.                                                             *)
(***************************************************************************)
TypeOK == /\ prev_mode \in Modes \cup {"None"}
          /\ prev_redundancy \in BOOLEAN
          /\ stream_channels \in {1, 2}
          /\ prev_internal_rate \in InternalRates \cup {0}
          /\ resampler \in InternalRates \cup {0}
          /\ right \in BOOLEAN
          /\ silk \in [fs : InternalRates, nch : {1, 2}, src : Sources]
          /\ celt \in Sources
          /\ pc \in {"idle", "frame", "lost", "fec", "lbrr"}
          /\ packet \in Packets \cup {NoPacket}
          /\ left \in Nat
          /\ transition \in BOOLEAN
          /\ bridged \in BOOLEAN
          /\ has_redundancy \in BOOLEAN
          /\ heard \subseteq [by : Layers, src : Sources]

Heard(layers, src) == \E p \in heard : p.by \in layers /\ p.src = src

\* SILK never decodes or conceals from the state it had before a stretch of
\* CELT: decode() resets it on every switch from CELT, whatever happened in
\* between.
SilkContinuesOutput == ~Heard({"silk", "silk_plc"}, "stale")

\* When silk_resampler_2 runs, its history is the one of silk_resampler: the
\* clone of decode_silk_frames() and the set-up for a new rate leave no
\* order of mono, stereo, lost and CELT packets in which the right channel
\* starts from an older signal.
RightContinuesLeft == ~Heard({"right"}, "stale")

\* A bridge at a mode switch plays the old mode concealed forward by this
\* call, and never the previous packet's last 5 ms again (lib.rs: "not the
\* previous frame's last 5 ms, which already played").
BridgeConceals == ~Heard({"bridge"}, "stale")

\* Nothing of the stream was lost or left empty.
Whole == "loss" \notin channel /\ "empty" \notin channel

\* CELT, decoded or concealed, starts from a reset or from the end of the
\* output, wherever redundant frames are put.
CeltContinuesOutput == Whole => ~Heard({"celt", "celt_plc"}, "stale")

\* With losses, CELT continues the output but for one case: the reset of a
\* mode switch was spared by prev_redundancy.
CeltStaleOnlyIfSpared ==
    [][/\ "empty" \notin channel
       /\ Heard({"celt", "celt_plc"}, "stale")'
       => prev_redundancy]_vars

\* A redundant frame is mixed in only when it continues the output ("It is
\* ignored when the CELT state it came from is stale").
RedundancyContinuesOutput == ~Heard({"redundant"}, "stale")

\* It is so in a stream received as encoders send it.
SentRedundancyContinues == channel = {} => RedundancyContinuesOutput

\* Redundancy spares "the next frame its transition bridge and CELT reset":
\* between calls it is remembered only while the CELT state it left is the
\* end of the output.
RedundancyIsRecent == pc = "idle" /\ prev_redundancy => celt = "follows"

\* It is so in a stream received whole.
WholeRedundancyIsRecent == Whole => RedundancyIsRecent

\* A lost frame is concealed at the rate SILK runs at: set at another rate
\* the SILK decoder would start over and conceal nothing.
LossKeepsSilkRate == [][pc = "lost" => silk'.fs = silk.fs]_vars

\* Every call returns; the loop of decode_lost() ends for every frame_size.
CallReturns == pc # "idle" ~> pc = "idle"
=============================================================================
