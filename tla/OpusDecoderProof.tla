-------------------------- MODULE OpusDecoderProof --------------------------
(* Proofs about OpusDecoder, for every output rate and channel count, any   *)
(* number of frames per packet, losses of any length and any impairments.   *)
EXTENDS OpusDecoder, TLAPS

\* The next thing the SILK decoder does is decode or conceal.
SilkNext == \/ pc = "frame" /\ packet.mode \in SilkModes
            \/ pc # "frame" /\ prev_mode # "CeltOnly"

\* What the locals of a call say.
CallInv ==
    /\ pc = "idle" => packet = NoPacket /\ ~transition
    /\ pc = "frame" => packet \in Packets /\ left =< packet.n
    /\ pc \in {"lost", "fec", "lbrr"} /\ packet # NoPacket =>
          packet.mode \in SilkModes /\ prev_mode # "CeltOnly"
    /\ pc \in {"fec", "lbrr"} => packet # NoPacket
    /\ pc = "lost" => left > 0
    /\ packet.mode = "Hybrid" => packet.rate = 16

\* The rates that must agree: the resamplers' set-up, the rate of the last
\* SILK frame and the rate the SILK decoder runs at.
RateInv ==
    /\ resampler = prev_internal_rate
    /\ prev_mode \in SilkModes => prev_internal_rate # 0
    /\ pc \in {"idle", "lost", "fec"} /\ prev_mode \in SilkModes =>
          /\ silk.fs = prev_internal_rate
          /\ prev_mode = "Hybrid" => prev_internal_rate = 16
    /\ pc = "frame" /\ packet.mode \in SilkModes =>
          /\ prev_internal_rate = packet.rate
          /\ left < packet.n => silk.fs = packet.rate
    /\ pc = "lbrr" => prev_internal_rate = packet.rate

\* The histories SILK and the right resampler hold when they run next.
HistoryInv == SilkNext => /\ silk.src # "stale"
                          /\ silk.nch = 2 => right

\* A bridge is ready by the time nothing can call it off any more.
BridgeInv ==
    /\ prev_redundancy => prev_mode \in SilkModes
    /\ pc = "frame" /\ packet.mode = "CeltOnly" => ~has_redundancy
    /\ pc = "frame" /\ transition =>
          IF left = packet.n /\ packet.mode # "CeltOnly"
          THEN prev_mode = "CeltOnly"
          ELSE bridged

IInv == /\ TypeOK
        /\ CallInv
        /\ RateInv
        /\ HistoryInv
        /\ BridgeInv
        /\ SilkContinuesOutput
        /\ RightContinuesLeft
        /\ BridgeConceals

LEMMA InitEstablishes == Init => IInv
<1> SUFFICES ASSUME Init PROVE IInv
  OBVIOUS
<1> USE ConstantsAssumption DEF Init
<1>1. TypeOK
  <2>1. silk \in [fs : InternalRates, nch : {1, 2}, src : Sources]
    BY DEF InternalRates, Sources
  <2>2. QED
    BY <2>1 DEF TypeOK, Sources
<1>2. CallInv
  BY DEF CallInv, NoPacket
<1>3. RateInv /\ HistoryInv /\ BridgeInv
  BY DEF RateInv, HistoryInv, BridgeInv, SilkNext, SilkModes
<1>4. QED
  BY <1>1, <1>2, <1>3
  DEF IInv, SilkContinuesOutput, RightContinuesLeft, BridgeConceals, Heard

\* The pieces a SILK layer adds have a sound source whenever its turn comes.
LEMMA SilkPiecesSound ==
    ASSUME TypeOK, HistoryInv, SilkNext,
           NEW lost \in BOOLEAN, NEW rate \in InternalRates
    PROVE  /\ SilkPieces(lost, rate) \subseteq [by : Layers, src : Sources]
           /\ \A p \in SilkPieces(lost, rate) :
                 p.by \in {"silk", "silk_plc", "right"} /\ p.src # "stale"
BY DEF TypeOK, HistoryInv, SilkPieces, Piece, SilkSource, RightSource,
       UsesRight, ClonesRight, StereoToMono, SilkChannels, Layers, Sources

\* What a SILK layer leaves behind.
LEMMA SilkLayerSound ==
    ASSUME TypeOK, NEW lost \in BOOLEAN, NEW rate \in InternalRates,
           NEW units, SilkLayer(lost, rate, units)
    PROVE  /\ silk' \in [fs : InternalRates, nch : {1, 2}, src : Sources]
           /\ silk'.fs = rate
           /\ silk'.src # "stale"
           /\ right' \in BOOLEAN
           /\ silk'.nch = 2 => right'
BY DEF TypeOK, SilkLayer, SilkChannels, StereoToMono, Sources

LEMMA BeginPreserves ==
    ASSUME IInv,
           NEW mode \in Modes, NEW rate \in RatesOf(mode),
           NEW units \in Durations(mode), NEW ch \in {1, 2},
           NEW n \in 1..MaxFrames,
           Begin(mode, rate, ch, units, n)
    PROVE  IInv'
<1> USE ConstantsAssumption
<1>1. /\ packet' \in Packets
      /\ packet'.mode = mode /\ packet'.rate = rate /\ packet'.n = n
      /\ mode = "Hybrid" => rate = 16
      /\ rate \in InternalRates /\ rate # 0
  BY DEF Begin, Packets, RatesOf, Durations, Modes, InternalRates
<1>2. /\ silk' \in [fs : InternalRates, nch : {1, 2}, src : Sources]
      /\ silk'.nch = silk.nch
      /\ mode # "CeltOnly" => silk'.src # "stale"
  <2>1. /\ silk \in [fs : InternalRates, nch : {1, 2}, src : Sources]
        /\ prev_internal_rate \in InternalRates \cup {0}
        /\ silk' = SilkOnSwitch(mode)
    BY DEF Begin, IInv, TypeOK
  <2>2. CASE FromCelt(mode)
    BY <2>1, <2>2 DEF SilkOnSwitch, Sources
  <2>3. CASE ~FromCelt(mode) /\ SilkBridge(mode)
    BY <2>1, <2>3 DEF SilkOnSwitch, SilkBridge, Sources
  <2>4. CASE ~FromCelt(mode) /\ ~SilkBridge(mode)
    <3>1. mode # "CeltOnly" => silk.src # "stale"
      BY <2>4 DEF Begin, IInv, HistoryInv, SilkNext, FromCelt, Switch
    <3>2. QED
      BY <2>1, <2>4, <3>1 DEF SilkOnSwitch
  <2>5. QED
    BY <2>2, <2>3, <2>4
<1>3. /\ heard' \subseteq [by : Layers, src : Sources]
      /\ \A p \in heard' : p.by = "silk_plc" /\ p.src # "stale"
  BY DEF Begin, IInv, TypeOK, SilkBridge, Transition, FromCelt, Switch, Piece,
         ModeTransition, SilkSource, HistoryInv, SilkNext, Layers, Sources
<1>4. TypeOK'
  <2>1. /\ celt' \in Sources
        /\ transition' \in BOOLEAN
        /\ bridged' \in BOOLEAN
        /\ has_redundancy' \in BOOLEAN
    BY DEF Begin, IInv, TypeOK, Transition, FromCelt, Switch, SilkBridge,
           Sources
  <2>2. /\ resampler' \in InternalRates \cup {0}
        /\ prev_internal_rate' \in InternalRates \cup {0}
        /\ right' \in BOOLEAN
    BY <1>1, ZenonT(60) DEF Begin, IInv, TypeOK, SetRate, rateVars
  <2>3. QED
    BY <1>1, <1>2, <1>3, <2>1, <2>2 DEF Begin, IInv, TypeOK
<1>5. CallInv'
  BY <1>1 DEF Begin, CallInv, SilkModes, Modes
<1>6. RateInv'
  BY <1>1 DEF Begin, IInv, RateInv, SetRate, rateVars, SilkModes, TypeOK, Modes
<1>7. HistoryInv'
  BY <1>1, <1>2 DEF Begin, IInv, HistoryInv, SilkNext, SetRate, SilkModes,
     FromCelt, Switch, Modes, CallInv
<1>8. BridgeInv'
  <2>1. /\ prev_redundancy' => prev_mode' \in SilkModes
        /\ ~has_redundancy'
    BY DEF Begin, IInv, BridgeInv
  <2>2. CASE mode # "CeltOnly"
    BY <1>1, <2>1, <2>2 DEF Begin, BridgeInv, Transition, FromCelt
  <2>3. CASE mode = "CeltOnly"
    <3>1. transition' => prev_mode \in SilkModes
      BY <2>3 DEF Begin, Transition, FromCelt, Switch, ModeTransition, IInv,
                  TypeOK, Modes, SilkModes
    <3>2. transition' => SilkBridge(mode) /\ resampler # 0
      BY <2>3, <3>1 DEF Begin, IInv, TypeOK, RateInv, SilkBridge,
                        InternalRates
    <3>3. transition' => bridged'
      BY <3>2 DEF Begin, BridgeHasAudio, BridgeResamples
    <3>4. QED
      BY <1>1, <2>1, <2>3, <3>3 DEF BridgeInv
  <2>4. QED
    BY <2>2, <2>3
<1>9. QED
  BY <1>3, <1>4, <1>5, <1>6, <1>7, <1>8
  DEF IInv, SilkContinuesOutput, RightContinuesLeft, BridgeConceals, Heard

\* The locals after a frame, and the pieces that are not SILK's.
LEMMA FrameSound ==
    ASSUME IInv, NEW mode \in Modes, InFrame(mode),
           NEW redundancy \in Redundancies, FrameDone(redundancy),
           UNCHANGED streamVars,
           mode = "CeltOnly" => redundancy = "none"
    PROVE  /\ pc' = "frame" /\ packet' = packet /\ packet \in Packets
           /\ packet.mode = mode
           /\ left' \in Nat /\ left' < packet.n
           /\ has_redundancy' \in BOOLEAN
           /\ CallInv'
           /\ transition' \in BOOLEAN /\ bridged' \in BOOLEAN
           /\ BridgeInv'
<1>1. /\ pc' = "frame" /\ packet' = packet /\ packet \in Packets
      /\ packet.mode = mode
  BY DEF IInv, CallInv, InFrame, FrameDone
<1>2. packet.n \in Nat
  BY <1>1, ConstantsAssumption DEF Packets
<1>3. left' \in Nat /\ left' < packet.n
  BY <1>1, <1>2 DEF IInv, CallInv, TypeOK, InFrame, FrameDone
<1>4. has_redundancy' \in BOOLEAN
  BY DEF FrameDone
<1>5. CallInv'
  BY <1>1, <1>2, <1>3 DEF IInv, CallInv, streamVars
<1>6. transition' \in BOOLEAN /\ bridged' \in BOOLEAN
  BY DEF IInv, TypeOK, FrameDone, ConcealsCelt, First, FromCelt, Switch
<1>7. BridgeInv'
  <2>1. prev_redundancy' => prev_mode' \in SilkModes
    BY DEF IInv, BridgeInv, streamVars
  <2>2. ASSUME transition' PROVE bridged'
    <3>1. transition /\ ~(First /\ redundancy # "none")
      BY <2>2 DEF FrameDone
    <3>2. CASE left = packet.n /\ mode # "CeltOnly"
      <4>1. prev_mode = "CeltOnly"
        BY <1>1, <3>1, <3>2 DEF IInv, BridgeInv, InFrame
      <4>2. redundancy = "none" /\ First /\ FromCelt(packet.mode)
        BY <1>1, <3>1, <3>2, <4>1 DEF First, FromCelt, Switch
      <4>3. QED
        BY <4>2 DEF FrameDone, ConcealsCelt
    <3>3. CASE ~(left = packet.n /\ mode # "CeltOnly")
      <4>1. bridged
        BY <1>1, <3>1, <3>3 DEF IInv, BridgeInv, InFrame
      <4>2. QED
        BY <4>1 DEF FrameDone
    <3>4. QED
      BY <3>2, <3>3
  <2>3. packet'.mode = "CeltOnly" => ~has_redundancy'
    BY <1>1 DEF FrameDone
  <2>4. QED
    BY <1>1, <1>3, <2>1, <2>2, <2>3 DEF BridgeInv
<1>8. QED
  BY <1>1, <1>3, <1>4, <1>5, <1>6, <1>7

\* Sources and pieces of the CELT side are well typed, and none is a SILK,
\* right-channel or bridge piece.
CeltSide == [by : {"celt", "celt_plc", "redundant"}, src : Sources]

LEMMA RedundantPiecesSound ==
    ASSUME TypeOK, NEW redundancy \in Redundancies
    PROVE  /\ RedundantPieces(redundancy) \subseteq CeltSide
           /\ BridgePieces(redundancy) \subseteq CeltSide
BY DEF TypeOK, RedundantPieces, BridgePieces, Piece, CeltSide, Sources,
       Redundancies

\* Pieces of a sound SILK layer and of the CELT side keep the properties.
LEMMA PiecesSound ==
    ASSUME heard' \subseteq [by : Layers, src : Sources],
           \A p \in heard' : \/ p \in CeltSide
                             \/ p.src # "stale"
    PROVE  (SilkContinuesOutput /\ RightContinuesLeft /\ BridgeConceals)'
BY DEF SilkContinuesOutput, RightContinuesLeft, BridgeConceals, Heard, CeltSide

LEMMA CeltSideTyped == CeltSide \subseteq [by : Layers, src : Sources]
BY DEF CeltSide, Layers

LEMMA SilkFramePreserves ==
    ASSUME IInv, NEW empty \in BOOLEAN, NEW redundancy \in Redundancies,
           SilkFrame(empty, redundancy)
    PROVE  IInv'
<1>1. /\ InFrame("SilkOnly") /\ FrameDone(redundancy)
      /\ SilkLayer(empty, packet.rate, packet.units)
      /\ UNCHANGED streamVars /\ UNCHANGED rateVars
  BY DEF SilkFrame
<1>2. /\ packet \in Packets /\ packet.mode = "SilkOnly" /\ pc = "frame"
      /\ packet.rate \in InternalRates
      /\ TypeOK /\ HistoryInv /\ SilkNext
  BY <1>1 DEF IInv, CallInv, InFrame, Packets, SilkNext, SilkModes
<1>3. /\ pc' = "frame" /\ packet' = packet /\ left' \in Nat
      /\ has_redundancy' \in BOOLEAN /\ CallInv' /\ left' < packet.n
      /\ transition' \in BOOLEAN /\ bridged' \in BOOLEAN /\ BridgeInv'
  BY <1>1, FrameSound DEF Modes
<1>4. /\ silk' \in [fs : InternalRates, nch : {1, 2}, src : Sources]
      /\ silk'.fs = packet.rate /\ silk'.src # "stale"
      /\ right' \in BOOLEAN
      /\ silk'.nch = 2 => right'
  BY <1>1, <1>2, SilkLayerSound
<1>5. /\ heard' \subseteq [by : Layers, src : Sources]
      /\ \A p \in heard' : p \in CeltSide \/ p.src # "stale"
  BY <1>2, SilkPiecesSound, RedundantPiecesSound, CeltSideTyped DEF SilkFrame
<1>6. celt' \in Sources
  BY DEF SilkFrame, Skipped, Sources
<1>7. TypeOK'
  BY <1>1, <1>2, <1>3, <1>4, <1>5, <1>6 DEF TypeOK, streamVars, rateVars
<1>8. RateInv' /\ HistoryInv'
  BY <1>1, <1>2, <1>3, <1>4
  DEF IInv, RateInv, HistoryInv, SilkNext, streamVars, rateVars, SilkModes
<1>9. QED
  BY <1>3, <1>5, <1>7, <1>8, PiecesSound DEF IInv

LEMMA HybridFramePreserves ==
    ASSUME IInv, NEW empty \in BOOLEAN, NEW has_celt \in BOOLEAN,
           NEW redundancy \in Redundancies,
           HybridFrame(empty, has_celt, redundancy)
    PROVE  IInv'
<1>1. /\ InFrame("Hybrid") /\ FrameDone(redundancy)
      /\ SilkLayer(empty, packet.rate, packet.units)
      /\ UNCHANGED streamVars /\ UNCHANGED rateVars
  BY DEF HybridFrame
<1>2. /\ packet \in Packets /\ packet.mode = "Hybrid" /\ pc = "frame"
      /\ packet.rate \in InternalRates
      /\ TypeOK /\ HistoryInv /\ SilkNext
  BY <1>1 DEF IInv, CallInv, InFrame, Packets, SilkNext, SilkModes
<1>3. /\ pc' = "frame" /\ packet' = packet /\ left' \in Nat
      /\ has_redundancy' \in BOOLEAN /\ CallInv' /\ left' < packet.n
      /\ transition' \in BOOLEAN /\ bridged' \in BOOLEAN /\ BridgeInv'
  BY <1>1, FrameSound DEF Modes
<1>4. /\ silk' \in [fs : InternalRates, nch : {1, 2}, src : Sources]
      /\ silk'.fs = packet.rate /\ silk'.src # "stale"
      /\ right' \in BOOLEAN
      /\ silk'.nch = 2 => right'
  BY <1>1, <1>2, SilkLayerSound
<1>5. HybridCelt(redundancy) \in Sources
  BY <1>2 DEF HybridCelt, TypeOK, Sources
<1>6. /\ heard' \subseteq [by : Layers, src : Sources]
      /\ \A p \in heard' : p \in CeltSide \/ p.src # "stale"
  <2>1. Piece("celt", HybridCelt(redundancy)) \in CeltSide
    BY <1>5 DEF Piece, CeltSide
  <2>2. QED
    BY <1>2, <2>1, SilkPiecesSound, RedundantPiecesSound, CeltSideTyped
    DEF HybridFrame
<1>7. celt' \in Sources
  BY DEF HybridFrame, Skipped, Sources
<1>8. TypeOK'
  BY <1>1, <1>2, <1>3, <1>4, <1>6, <1>7 DEF TypeOK, streamVars, rateVars
<1>9. RateInv' /\ HistoryInv'
  BY <1>1, <1>2, <1>3, <1>4
  DEF IInv, RateInv, HistoryInv, SilkNext, streamVars, rateVars, SilkModes
<1>10. QED
  BY <1>3, <1>6, <1>8, <1>9, PiecesSound DEF IInv

LEMMA CeltFramePreserves ==
    ASSUME IInv, CeltFrame
    PROVE  IInv'
<1>1. /\ InFrame("CeltOnly") /\ FrameDone("none")
      /\ UNCHANGED streamVars /\ UNCHANGED rateVars /\ UNCHANGED right
  BY DEF CeltFrame
<1>2. /\ pc' = "frame" /\ packet' = packet /\ left' \in Nat
      /\ packet.mode = "CeltOnly" /\ packet \in Packets
      /\ has_redundancy' \in BOOLEAN /\ CallInv' /\ left' < packet.n
      /\ transition' \in BOOLEAN /\ bridged' \in BOOLEAN /\ BridgeInv'
  BY <1>1, FrameSound DEF Modes, Redundancies
<1>3. silk' \in [fs : InternalRates, nch : {1, 2}, src : Sources]
  BY DEF CeltFrame, IInv, TypeOK, Skipped, Sources
<1>4. /\ heard' \subseteq [by : Layers, src : Sources]
      /\ \A p \in heard' : p \in CeltSide \/ p.src # "stale"
  <2>1. heard' \subseteq CeltSide
    BY DEF CeltFrame, IInv, TypeOK, Piece, CeltSide
  <2>2. QED
    BY <2>1, CeltSideTyped
<1>5. TypeOK'
  BY <1>1, <1>2, <1>3, <1>4
  DEF IInv, TypeOK, CeltFrame, Sources, streamVars, rateVars
<1>6. RateInv' /\ HistoryInv'
  BY <1>1, <1>2
  DEF IInv, RateInv, HistoryInv, SilkNext, streamVars, rateVars, SilkModes
<1>7. QED
  BY <1>2, <1>4, <1>5, <1>6, PiecesSound DEF IInv

LEMMA FinishPreserves ==
    ASSUME IInv, Finish
    PROVE  IInv'
<1>1. /\ pc = "frame" /\ left = 0 /\ packet \in Packets
      /\ packet.n \in Nat \ {0} /\ packet.mode \in Modes
      /\ packet.rate \in InternalRates
  BY ConstantsAssumption DEF Finish, IInv, CallInv, Packets
<1>2. /\ pc' = "idle" /\ packet' = NoPacket /\ left' = 0
      /\ transition' = FALSE /\ bridged' = FALSE /\ has_redundancy' = FALSE
  BY DEF Finish, Returned
<1>3. transition => bridged
  BY <1>1 DEF IInv, BridgeInv
<1>4. /\ heard' \subseteq [by : Layers, src : Sources]
      /\ \A p \in heard' : p.src # "stale"
  BY <1>3 DEF Finish, Piece, Layers, Sources
<1>5. TypeOK'
  BY <1>1, <1>2, <1>4 DEF Finish, IInv, TypeOK, rateVars
<1>6. CallInv'
  BY <1>2 DEF CallInv, NoPacket
<1>7. RateInv' /\ HistoryInv'
  BY <1>1, <1>2
  DEF Finish, IInv, RateInv, HistoryInv, SilkNext, rateVars, SilkModes,
      InternalRates, Modes, CallInv
<1>8. BridgeInv'
  BY <1>1, <1>2 DEF Finish, IInv, BridgeInv, Modes, SilkModes
<1>9. QED
  BY <1>4, <1>5, <1>6, <1>7, <1>8, PiecesSound DEF IInv

LEMMA BeginLostPreserves ==
    ASSUME IInv, NEW units \in 1..MaxLost, BeginLost(units)
    PROVE  IInv'
<1> USE ConstantsAssumption DEF BeginLost
<1>1. TypeOK'
  BY DEF IInv, TypeOK, streamVars, rateVars
<1>2. CallInv' /\ BridgeInv'
  BY DEF IInv, TypeOK, CallInv, BridgeInv, streamVars
<1>3. RateInv' /\ HistoryInv'
  BY DEF IInv, RateInv, HistoryInv, SilkNext, streamVars, rateVars
<1>4. QED
  BY <1>1, <1>2, <1>3
  DEF IInv, SilkContinuesOutput, RightContinuesLeft, BridgeConceals, Heard

\* The locals after a concealed chunk.
LEMMA ConcealedSound ==
    ASSUME IInv, pc = "lost", NEW n \in Nat \ {0}, Concealed(n),
           UNCHANGED <<prev_mode, prev_redundancy>>
    PROVE  /\ pc' \in {"idle", "lost", "fec"}
           /\ packet' \in Packets \cup {NoPacket}
           /\ left' \in Nat
           /\ transition' \in BOOLEAN
           /\ bridged' \in BOOLEAN
           /\ has_redundancy' \in BOOLEAN
           /\ CallInv'
           /\ BridgeInv'
<1> USE DEF Concealed, Returned
<1>1. TypeOK /\ CallInv /\ BridgeInv /\ left > 0
  BY DEF IInv, CallInv
<1>2. CASE left > n
  <2>1. left' \in Nat \ {0} /\ pc' = pc /\ packet' = packet
    BY <1>1, <1>2 DEF TypeOK
  <2>2. QED
    BY <1>1, <1>2, <2>1 DEF TypeOK, CallInv, BridgeInv
<1>3. CASE ~(left > n) /\ packet = NoPacket
  <2>1. Returned
    BY <1>3
  <2>2. CallInv' /\ BridgeInv'
    BY <1>1, <2>1 DEF CallInv, BridgeInv, NoPacket
  <2>3. QED
    BY <2>1, <2>2
<1>4. CASE ~(left > n) /\ packet # NoPacket
  <2>1. CallInv' /\ BridgeInv'
    BY <1>1, <1>4 DEF CallInv, BridgeInv
  <2>2. QED
    BY <1>1, <1>4, <2>1 DEF TypeOK
<1>5. QED
  BY <1>2, <1>3, <1>4

LEMMA LostNothingPreserves ==
    ASSUME IInv, LostNothing
    PROVE  IInv'
<1>1. /\ pc = "lost" /\ Concealed(left) /\ left \in Nat \ {0} /\ heard' = {}
      /\ UNCHANGED streamVars /\ UNCHANGED <<rateVars, right, silk, celt>>
  BY DEF LostNothing, IInv, TypeOK, CallInv
<1>2. UNCHANGED <<prev_mode, prev_redundancy>>
  BY <1>1 DEF streamVars
<1>3. /\ pc' \in {"idle", "lost", "fec"} /\ CallInv' /\ BridgeInv'
      /\ packet' \in Packets \cup {NoPacket} /\ left' \in Nat
      /\ transition' \in BOOLEAN /\ bridged' \in BOOLEAN
      /\ has_redundancy' \in BOOLEAN
  BY <1>1, <1>2, ConcealedSound
<1>4. TypeOK'
  BY <1>1, <1>3 DEF IInv, TypeOK, streamVars, rateVars
<1>5. RateInv' /\ HistoryInv'
  BY <1>1, <1>3
  DEF IInv, RateInv, HistoryInv, SilkNext, streamVars, rateVars
<1>6. QED
  BY <1>1, <1>3, <1>4, <1>5
  DEF IInv, SilkContinuesOutput, RightContinuesLeft, BridgeConceals, Heard

LEMMA LostCeltPreserves ==
    ASSUME IInv, LostCelt
    PROVE  IInv'
<1>1. PICK n \in {1, 2, 4, 8} : Concealed(n)
  BY DEF LostCelt
<1>2. /\ pc = "lost" /\ prev_mode = "CeltOnly" /\ celt' = "follows"
      /\ UNCHANGED streamVars /\ UNCHANGED <<rateVars, right>>
      /\ silk' = [silk EXCEPT !.src = Skipped(@)]
      /\ UNCHANGED <<prev_mode, prev_redundancy>>
  BY DEF LostCelt, streamVars
<1>3. /\ pc' \in {"idle", "lost", "fec"} /\ CallInv' /\ BridgeInv'
      /\ packet' \in Packets \cup {NoPacket} /\ left' \in Nat
      /\ transition' \in BOOLEAN /\ bridged' \in BOOLEAN
      /\ has_redundancy' \in BOOLEAN
  BY <1>1, <1>2, ConcealedSound
<1>4. /\ silk' \in [fs : InternalRates, nch : {1, 2}, src : Sources]
      /\ silk'.fs = silk.fs
  BY <1>2 DEF IInv, TypeOK, Skipped, Sources
<1>5. /\ heard' \subseteq [by : Layers, src : Sources]
      /\ \A p \in heard' : p \in CeltSide \/ p.src # "stale"
  <2>1. heard' \subseteq CeltSide
    BY DEF LostCelt, IInv, TypeOK, Piece, CeltSide
  <2>2. QED
    BY <2>1, CeltSideTyped
<1>6. TypeOK'
  BY <1>2, <1>3, <1>4, <1>5 DEF IInv, TypeOK, streamVars, rateVars, Sources
<1>7. RateInv' /\ HistoryInv'
  BY <1>2, <1>3, <1>4
  DEF IInv, RateInv, HistoryInv, SilkNext, rateVars, SilkModes
<1>8. QED
  BY <1>3, <1>5, <1>6, <1>7, PiecesSound DEF IInv

LEMMA LostSilkPreserves ==
    ASSUME IInv, LostSilk
    PROVE  IInv'
<1>1. /\ pc = "lost" /\ prev_mode \in SilkModes
      /\ Concealed(SilkChunk)
      /\ SilkLayer(TRUE, LostRate, SilkChunk)
      /\ UNCHANGED streamVars /\ UNCHANGED rateVars
      /\ UNCHANGED <<prev_mode, prev_redundancy>>
      /\ SilkChunk \in Nat \ {0}
  <2>1. SilkChunk \in Nat \ {0}
    BY DEF SilkChunk
  <2>2. QED
    BY <2>1 DEF LostSilk, streamVars
<1>2. /\ TypeOK /\ HistoryInv /\ SilkNext
      /\ LostRate = prev_internal_rate /\ LostRate \in InternalRates
  BY <1>1 DEF IInv, TypeOK, RateInv, SilkNext, SilkModes, LostRate,
              InternalRates
<1>3. /\ pc' \in {"idle", "lost", "fec"} /\ CallInv' /\ BridgeInv'
      /\ packet' \in Packets \cup {NoPacket} /\ left' \in Nat
      /\ transition' \in BOOLEAN /\ bridged' \in BOOLEAN
      /\ has_redundancy' \in BOOLEAN
  BY <1>1, ConcealedSound
<1>4. /\ silk' \in [fs : InternalRates, nch : {1, 2}, src : Sources]
      /\ silk'.fs = prev_internal_rate /\ silk'.src # "stale"
      /\ right' \in BOOLEAN
      /\ silk'.nch = 2 => right'
  BY <1>1, <1>2, SilkLayerSound
<1>5. /\ heard' \subseteq [by : Layers, src : Sources]
      /\ \A p \in heard' : p \in CeltSide \/ p.src # "stale"
  <2>1. Piece("celt_plc", celt) \in CeltSide
    BY <1>2 DEF Piece, CeltSide, TypeOK
  <2>2. QED
    BY <1>2, <2>1, SilkPiecesSound, CeltSideTyped DEF LostSilk
<1>6. celt' \in Sources
  BY DEF LostSilk, Skipped, Sources
<1>7. TypeOK'
  BY <1>1, <1>2, <1>3, <1>4, <1>5, <1>6 DEF TypeOK, streamVars, rateVars
<1>8. RateInv' /\ HistoryInv'
  BY <1>1, <1>3, <1>4
  DEF IInv, RateInv, HistoryInv, SilkNext, rateVars, SilkModes
<1>9. QED
  BY <1>3, <1>5, <1>7, <1>8, PiecesSound DEF IInv

LEMMA BeginFecPreserves ==
    ASSUME IInv,
           NEW mode \in SilkModes, NEW rate \in RatesOf(mode),
           NEW units \in Durations(mode), NEW ch \in {1, 2},
           NEW total \in 1..MaxLost,
           BeginFec(mode, rate, ch, units, total)
    PROVE  IInv'
<1> USE ConstantsAssumption
<1>1. /\ packet' \in Packets /\ packet' # NoPacket
      /\ packet'.mode \in SilkModes /\ packet'.rate = rate
      /\ mode = "Hybrid" => rate = 16
      /\ units \in Nat \ {0}
  <2>1. /\ rate \in InternalRates /\ units \in {4, 8, 16, 24}
        /\ mode \in Modes /\ 1 \in 1..MaxFrames /\ mode # "None"
    BY DEF RatesOf, Durations, SilkModes, Modes, InternalRates
  <2>2. packet' \in Packets /\ packet' # NoPacket
    BY <2>1 DEF BeginFec, Packets, NoPacket
  <2>3. QED
    BY <2>1, <2>2 DEF BeginFec, RatesOf
<1>2. /\ pc = "idle" /\ prev_mode # "CeltOnly" /\ pc' \in {"lost", "fec"}
      /\ left' \in Nat /\ (pc' = "lost" => left' > 0) /\ heard' = {}
      /\ UNCHANGED streamVars /\ UNCHANGED rateVars
      /\ UNCHANGED <<right, silk, celt>>
      /\ UNCHANGED <<transition, bridged, has_redundancy>>
  BY <1>1 DEF BeginFec
<1>3. TypeOK'
  BY <1>1, <1>2 DEF IInv, TypeOK, streamVars, rateVars
<1>4. CallInv' /\ BridgeInv'
  BY <1>1, <1>2 DEF BeginFec, IInv, CallInv, BridgeInv, streamVars, SilkModes
<1>5. RateInv' /\ HistoryInv'
  BY <1>2
  DEF IInv, RateInv, HistoryInv, SilkNext, streamVars, rateVars
<1>6. QED
  BY <1>2, <1>3, <1>4, <1>5
  DEF IInv, SilkContinuesOutput, RightContinuesLeft, BridgeConceals, Heard

\* The packet whose FEC is decoded.
LEMMA FecPacket ==
    ASSUME IInv, pc \in {"fec", "lbrr"}
    PROVE  /\ packet \in Packets
           /\ packet.mode \in SilkModes /\ packet.rate \in InternalRates
           /\ packet.ch \in {1, 2}
           /\ prev_mode # "CeltOnly"
           /\ TypeOK /\ HistoryInv /\ SilkNext
BY DEF IInv, TypeOK, CallInv, Packets, SilkNext

LEMMA FecRatePreserves ==
    ASSUME IInv, FecRate
    PROVE  IInv'
<1>1. /\ packet \in Packets
      /\ packet.mode \in SilkModes /\ packet.rate \in InternalRates
      /\ packet.ch \in {1, 2} /\ prev_mode # "CeltOnly"
      /\ TypeOK /\ HistoryInv /\ SilkNext
  BY FecPacket DEF FecRate
<1>2. /\ pc = "fec" /\ pc' = "lbrr" /\ stream_channels' = packet.ch
      /\ heard' = {} /\ packet' = packet
      /\ SetRate(packet.rate, FALSE)
      /\ UNCHANGED <<prev_mode, prev_redundancy, silk, celt, left,
                     transition, bridged, has_redundancy>>
  BY DEF FecRate
<1>3. /\ prev_internal_rate' = packet.rate /\ resampler' = packet.rate
      /\ right' \in BOOLEAN /\ (right => right')
  BY <1>1, <1>2 DEF SetRate, IInv, RateInv, TypeOK
<1>4. TypeOK'
  BY <1>1, <1>2, <1>3 DEF TypeOK
<1>5. CallInv' /\ BridgeInv'
  BY <1>1, <1>2 DEF IInv, CallInv, BridgeInv
<1>6. RateInv' /\ HistoryInv'
  BY <1>1, <1>2, <1>3
  DEF IInv, RateInv, HistoryInv, SilkNext, InternalRates
<1>7. QED
  BY <1>2, <1>4, <1>5, <1>6
  DEF IInv, SilkContinuesOutput, RightContinuesLeft, BridgeConceals, Heard

LEMMA FecFramePreserves ==
    ASSUME IInv, FecFrame
    PROVE  IInv'
<1>1. /\ packet \in Packets
      /\ packet.mode \in SilkModes /\ packet.rate \in InternalRates
      /\ packet.mode = "Hybrid" => packet.rate = 16
      /\ prev_internal_rate = packet.rate
      /\ resampler = prev_internal_rate
      /\ TypeOK /\ HistoryInv /\ SilkNext
  BY FecPacket DEF FecFrame, IInv, RateInv, CallInv
<1>2. /\ SilkLayer(FALSE, packet.rate, packet.units)
      /\ prev_mode' = packet.mode /\ prev_redundancy' = FALSE
      /\ Returned /\ UNCHANGED stream_channels /\ UNCHANGED rateVars
  BY DEF FecFrame
<1>3. /\ silk' \in [fs : InternalRates, nch : {1, 2}, src : Sources]
      /\ silk'.fs = packet.rate /\ silk'.src # "stale"
      /\ right' \in BOOLEAN
      /\ silk'.nch = 2 => right'
  BY <1>1, <1>2, SilkLayerSound
<1>4. /\ heard' \subseteq [by : Layers, src : Sources]
      /\ \A p \in heard' : p \in CeltSide \/ p.src # "stale"
  <2>1. Piece("celt_plc", FecCelt) \in CeltSide
    BY <1>1 DEF Piece, CeltSide, TypeOK, FecCelt, Sources
  <2>2. QED
    BY <1>1, <2>1, SilkPiecesSound, CeltSideTyped DEF FecFrame
<1>5. celt' \in Sources
  BY DEF FecFrame, Skipped, Sources
<1>6. TypeOK'
  BY <1>1, <1>2, <1>3, <1>4, <1>5
  DEF TypeOK, rateVars, Returned, SilkModes, Modes
<1>7. CallInv' /\ BridgeInv'
  BY <1>2 DEF CallInv, BridgeInv, Returned, NoPacket
<1>8. RateInv' /\ HistoryInv'
  BY <1>1, <1>2, <1>3
  DEF RateInv, HistoryInv, SilkNext, rateVars, Returned, InternalRates
<1>9. QED
  BY <1>4, <1>6, <1>7, <1>8, PiecesSound DEF IInv

LEMMA StepPreserves == IInv /\ [Next]_vars => IInv'
<1> SUFFICES ASSUME IInv, [Next]_vars PROVE IInv'
  OBVIOUS
<1>1. CASE Decode
  BY <1>1, BeginPreserves DEF Decode
<1>2. CASE DecodeFec
  BY <1>2, BeginFecPreserves DEF DecodeFec
<1>3. CASE DecodeLost
  BY <1>3, BeginLostPreserves DEF DecodeLost
<1>4. CASE Continue
  BY <1>4, SilkFramePreserves, HybridFramePreserves, CeltFramePreserves,
     FinishPreserves, LostNothingPreserves, LostCeltPreserves,
     LostSilkPreserves, FecRatePreserves, FecFramePreserves
  DEF Continue
<1>5. CASE UNCHANGED vars
  BY <1>5
  DEF vars, streamVars, rateVars, callVars, IInv, TypeOK, CallInv, RateInv,
      HistoryInv, SilkNext, BridgeInv, SilkContinuesOutput,
      RightContinuesLeft, BridgeConceals, Heard
<1>6. QED
  BY <1>1, <1>2, <1>3, <1>4, <1>5 DEF Next

\* The strengthened invariant.
THEOREM InvariantHolds == Spec => []IInv
BY InitEstablishes, StepPreserves, PTL DEF Spec

\* Every variable keeps its type, whatever packets and losses arrive.
THEOREM TypeCorrect == Spec => []TypeOK
<1>1. IInv => TypeOK
  BY DEF IInv
<1>2. QED
  BY <1>1, InvariantHolds, PTL

\* SILK never goes on from the state it had before a stretch of CELT.
THEOREM SilkIsContinuous == Spec => []SilkContinuesOutput
<1>1. IInv => SilkContinuesOutput
  BY DEF IInv
<1>2. QED
  BY <1>1, InvariantHolds, PTL

\* silk_resampler_2 always runs from the history of silk_resampler.
THEOREM RightIsContinuous == Spec => []RightContinuesLeft
<1>1. IInv => RightContinuesLeft
  BY DEF IInv
<1>2. QED
  BY <1>1, InvariantHolds, PTL

\* No bridge at a mode switch replays the previous packet's tail.
THEOREM BridgesConceal == Spec => []BridgeConceals
<1>1. IInv => BridgeConceals
  BY DEF IInv
<1>2. QED
  BY <1>1, InvariantHolds, PTL

\* A lost frame is concealed at the rate the SILK decoder runs at.
LEMMA LossStep == IInv /\ [Next]_vars => [pc = "lost" => silk'.fs = silk.fs]_vars
<1> SUFFICES ASSUME IInv, Next, pc = "lost" PROVE silk'.fs = silk.fs
  BY DEF vars
<1>1. CASE LostNothing
  BY <1>1 DEF LostNothing
<1>2. CASE LostCelt
  BY <1>2 DEF LostCelt, IInv, TypeOK
<1>3. CASE LostSilk
  <2>1. LostRate = silk.fs
    BY <1>3 DEF LostSilk, LostRate, IInv, RateInv
  <2>2. QED
    BY <1>3, <2>1 DEF LostSilk, SilkLayer
<1>4. QED
  BY <1>1, <1>2, <1>3
  DEF Next, Decode, DecodeFec, DecodeLost, Continue, Begin, BeginFec,
      BeginLost, SilkFrame, HybridFrame, CeltFrame, InFrame, Finish, FecRate,
      FecFrame

THEOREM LossKeepsRate == Spec => LossKeepsSilkRate
<1>1. Spec => []IInv /\ [][Next]_vars
  BY InvariantHolds, PTL DEF Spec
<1>2. QED
  BY <1>1, LossStep, PTL DEF LossKeepsSilkRate

(* Without losses and empty layers, the CELT history.  It is left behind    *)
(* only by SILK-only frames without redundancy, and what follows them       *)
(* resets it.                                                               *)
CeltInv ==
    /\ pc \in {"idle", "frame"}
    /\ pc = "idle" /\ celt = "stale" =>
          prev_mode = "SilkOnly" /\ ~prev_redundancy
    /\ pc = "frame" /\ celt = "stale" =>
          /\ \/ packet.mode = "SilkOnly" /\ ~has_redundancy
             \/ packet.mode = "Hybrid" /\ left = packet.n
          /\ left = packet.n => prev_mode = "SilkOnly" /\ ~prev_redundancy
    /\ RedundancyIsRecent
    /\ pc = "frame" /\ has_redundancy => celt = "follows"
    /\ ~Heard({"celt", "celt_plc"}, "stale")
    /\ "late" \notin channel => RedundancyContinuesOutput

\* A redundant frame out of CELT is stale in a late frame only.
LEMMA RedundantContinues ==
    ASSUME CeltInv, pc = "frame", NEW redundancy \in Redundancies,
           redundancy = "to_silk" => First
    PROVE  \A p \in RedundantPieces(redundancy) : p.src # "stale"
BY DEF CeltInv, First, UsesToSilk, RedundantPieces, Piece

LEMMA CeltStepPreserves ==
    ASSUME Whole, IInv, CeltInv, [Next]_vars
    PROVE  CeltInv'
<1>c. channel' = channel
  BY DEF vars, Next
<1> USE <1>c DEF CeltInv, RedundancyIsRecent, RedundancyContinuesOutput, Heard
<1>1. CASE Decode
  <2>1. PICK mode \in Modes :
             \E rate \in RatesOf(mode), units \in Durations(mode),
                ch \in {1, 2}, n \in 1..MaxFrames :
                Begin(mode, rate, ch, units, n)
    BY <1>1 DEF Decode
  <2>2. PICK rate \in RatesOf(mode), units \in Durations(mode),
             ch \in {1, 2}, n \in 1..MaxFrames :
             Begin(mode, rate, ch, units, n)
    BY <2>1
  <2>3. /\ pc = "idle" /\ pc' = "frame" /\ left' = packet'.n
        /\ packet'.mode = mode /\ has_redundancy' = FALSE
        /\ UNCHANGED <<prev_mode, prev_redundancy>>
    BY <2>2 DEF Begin
  <2>4. /\ ~Heard({"celt", "celt_plc"}, "stale")'
        /\ ~Heard({"redundant"}, "stale")'
    BY <2>2 DEF Begin, Piece
  <2>5. celt' = "stale" =>
           /\ celt = "stale" /\ prev_mode = "SilkOnly" /\ ~prev_redundancy
           /\ mode # "CeltOnly"
    BY <2>2, <2>3 DEF Begin, ModeTransition, Switch
  <2>6. QED
    BY <2>3, <2>4, <2>5 DEF ModeTransition, Switch, Modes
<1>2. CASE DecodeFec \/ DecodeLost
  BY <1>2 DEF DecodeFec, DecodeLost, BeginFec, BeginLost, Whole
<1>3. ASSUME NEW empty \in BOOLEAN, NEW redundancy \in Redundancies,
             SilkFrame(empty, redundancy)
      PROVE  CeltInv'
  <2>1. /\ pc' = "frame" /\ packet' = packet /\ packet.mode = "SilkOnly"
        /\ left' < packet.n /\ pc = "frame"
    BY <1>3, FrameSound DEF SilkFrame, InFrame, Modes
  <2>2. celt' = "stale" => ~has_redundancy'
    BY <1>3 DEF SilkFrame, FrameDone
  <2>3. ConcealsCelt(redundancy) => celt # "stale"
    BY <2>1 DEF ConcealsCelt, First, FromCelt
  <2>4. ~Heard({"celt", "celt_plc"}, "stale")'
    BY <1>3, <2>3
    DEF SilkFrame, SilkPieces, RedundantPieces, BridgePieces, Piece,
        Redundancies
  <2>5. packet.n \in Nat /\ left' \in Nat
    BY <1>3, <2>1, FrameSound, ConstantsAssumption
    DEF SilkFrame, Packets, Modes
  <2>6. "late" \notin channel => ~Heard({"redundant"}, "stale")'
    <3> SUFFICES ASSUME "late" \notin channel
                 PROVE  ~Heard({"redundant"}, "stale")'
      OBVIOUS
    <3>1. \A p \in RedundantPieces(redundancy) : p.src # "stale"
      BY <1>3, <2>1, RedundantContinues DEF SilkFrame, Sendable
    <3>2. QED
      BY <1>3, <3>1 DEF SilkFrame, SilkPieces, BridgePieces, Piece
  <2>7. has_redundancy' => celt' = "follows"
    BY <1>3 DEF SilkFrame, FrameDone
  <2>8. celt' = "stale" =>
           /\ packet'.mode = "SilkOnly" /\ ~has_redundancy'
           /\ left' # packet'.n
    BY <2>1, <2>2, <2>5
  <2>9. QED
    BY <2>1, <2>4, <2>6, <2>7, <2>8
<1>4. ASSUME NEW empty \in BOOLEAN, NEW has_celt \in BOOLEAN,
             NEW redundancy \in Redundancies,
             HybridFrame(empty, has_celt, redundancy)
      PROVE  CeltInv'
  <2>1. /\ pc' = "frame" /\ packet' = packet /\ packet.mode = "Hybrid"
        /\ pc = "frame"
    BY <1>4, FrameSound DEF HybridFrame, InFrame, Modes
  <2>2. has_celt /\ celt' = "follows"
    BY <1>4 DEF HybridFrame, Sendable, Whole
  <2>3. ConcealsCelt(redundancy) => celt # "stale"
    BY <2>1 DEF ConcealsCelt, First, FromCelt, ModeTransition, Switch
  <2>4. HybridCelt(redundancy) # "stale"
    BY <2>1 DEF HybridCelt, First, ModeTransition, Switch
  <2>5. ~Heard({"celt", "celt_plc"}, "stale")'
    BY <1>4, <2>3, <2>4
    DEF HybridFrame, SilkPieces, RedundantPieces, BridgePieces, Piece,
        Redundancies
  <2>6. "late" \notin channel => ~Heard({"redundant"}, "stale")'
    <3> SUFFICES ASSUME "late" \notin channel
                 PROVE  ~Heard({"redundant"}, "stale")'
      OBVIOUS
    <3>1. \A p \in RedundantPieces(redundancy) : p.src # "stale"
      BY <1>4, <2>1, RedundantContinues DEF HybridFrame, Sendable
    <3>2. QED
      BY <1>4, <3>1 DEF HybridFrame, SilkPieces, BridgePieces, Piece
  <2>7. QED
    BY <2>1, <2>2, <2>5, <2>6
<1>5. CASE CeltFrame
  <2>1. pc' = "frame" /\ celt' = "follows" /\ celt # "stale"
    BY <1>5 DEF CeltFrame, InFrame, FrameDone
  <2>2. QED
    BY <1>5, <2>1 DEF CeltFrame, Piece
<1>6. CASE Finish
  <2>1. pc' = "idle" /\ celt' = celt /\ prev_mode' = packet.mode
        /\ prev_redundancy' = has_redundancy /\ left = 0 /\ pc = "frame"
    BY <1>6 DEF Finish, Returned
  <2>2. packet.n # 0
    BY <2>1, ConstantsAssumption DEF IInv, CallInv, Packets
  <2>3. QED
    BY <1>6, <2>1, <2>2 DEF Finish, Piece
<1>7. CASE LostNothing \/ LostCelt \/ LostSilk \/ FecRate \/ FecFrame
  BY <1>7 DEF LostNothing, LostCelt, LostSilk, FecRate, FecFrame
<1>8. CASE UNCHANGED vars
  BY <1>8 DEF vars, streamVars, rateVars, callVars, ModeTransition, Switch
<1>9. QED
  BY <1>1, <1>2, <1>3, <1>4, <1>5, <1>6, <1>7, <1>8 DEF Next, Continue

LEMMA WholeInvHolds == Spec => [](Whole => CeltInv)
<1>1. Init => CeltInv
  BY DEF Init, CeltInv, RedundancyIsRecent, RedundancyContinuesOutput, Heard
<1>2. IInv /\ (Whole => CeltInv) /\ [Next]_vars => (Whole => CeltInv)'
  <2> SUFFICES ASSUME IInv, Whole => CeltInv, [Next]_vars, Whole'
               PROVE  CeltInv'
    OBVIOUS
  <2>1. Whole
    BY DEF Whole, Next, vars
  <2>2. QED
    BY <2>1, CeltStepPreserves
<1>3. QED
  BY <1>1, <1>2, InvariantHolds, PTL DEF Spec

\* Fed every packet of a stream, however it switches modes and wherever it
\* puts its redundant frames, the decoder never runs CELT from a history the
\* output has left behind.
THEOREM CeltIsContinuous == Spec => []CeltContinuesOutput
<1>1. (Whole => CeltInv) => CeltContinuesOutput
  BY DEF CeltInv, CeltContinuesOutput
<1>2. QED
  BY <1>1, WholeInvHolds, PTL

\* Fed every packet, it remembers redundancy only while the CELT state that
\* the redundant frame left is the end of the output.
THEOREM RedundancyStaysRecent == Spec => []WholeRedundancyIsRecent
<1>1. (Whole => CeltInv) => WholeRedundancyIsRecent
  BY DEF CeltInv, WholeRedundancyIsRecent
<1>2. QED
  BY <1>1, WholeInvHolds, PTL

\* With redundant frames where encoders put them, everyone it mixes in
\* continues the output.
THEOREM RedundancyIsContinuous == Spec => []SentRedundancyContinues
<1>1. (Whole => CeltInv) => SentRedundancyContinues
  BY DEF Whole, CeltInv, SentRedundancyContinues
<1>2. QED
  BY <1>1, WholeInvHolds, PTL
=============================================================================
