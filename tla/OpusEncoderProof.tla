-------------------------- MODULE OpusEncoderProof --------------------------
(***************************************************************************)
(* Theorems about OpusEncoder, for every setting, frame size and buffer.   *)
(***************************************************************************)
EXTENDS OpusEncoder, TLAPS

(***************************************************************************)
(* The ToC byte.                                                           *)
(***************************************************************************)
\* The frame rates of the frame sizes.
LEMMA FrameRateValues ==
    /\ FrameRate(1) = 400
    /\ FrameRate(2) = 200
    /\ FrameRate(4) = 100
    /\ FrameRate(8) = 50
    /\ FrameRate(16) = 25
    /\ FrameRate(24) = 16
  BY DEF FrameRate

\* A ToC fits its byte.
LEMMA TocType ==
    ASSUME NEW mode \in Modes, NEW rate \in FrameRates, NEW bw \in Bandwidths,
           NEW ch \in {1, 2}
    PROVE  GenToc(mode, rate, bw, ch) \in 0..255
<1>1. Period(rate) \in 0..5
  BY DEF Period, FrameRates
<1> QED BY <1>1 DEF GenToc, Modes, Bandwidths, NB, MB, WB, SWB, FB

\* A SILK-only ToC up to wideband tells the mode, the duration, the channels
\* and the rate of its frames.
LEMMA SilkToc ==
    ASSUME NEW units \in {4, 8, 16, 24}, NEW bw \in NB..WB, NEW ch \in {1, 2},
           NEW toc, toc = GenToc("SilkOnly", FrameRate(units), bw, ch)
    PROVE  /\ ModeFromToc(toc) = "SilkOnly"
           /\ UnitsFromToc(toc) = units
           /\ bw = NB => SilkRateFromToc(toc) = 8
           /\ bw = MB => SilkRateFromToc(toc) = 12
           /\ bw = WB => SilkRateFromToc(toc) = 16
<1> DEFINE low == (IF ch = 2 THEN 4 ELSE 0)
           p == Period(FrameRate(units)) - 2
<1>1. toc = 32 * bw + 8 * p + low
  BY FrameRateValues DEF GenToc, Period, NB, WB
<1>2. /\ p \in 0..3
      /\ units = <<4, 8, 16, 24>>[p + 1]
  BY FrameRateValues DEF Period
<1>3. low \in {0, 4}
  OBVIOUS
<1> HIDE DEF p, low
<1>4. /\ ModeFromToc(toc) = "SilkOnly"
      /\ (toc \div 8) % 4 = p
      /\ toc \div 32 = bw
  BY <1>1, <1>2, <1>3 DEF NB, WB, ModeFromToc
<1>5. UnitsFromToc(toc) = units
  BY <1>2, <1>4 DEF UnitsFromToc
<1>6. BandwidthFromToc(toc) = bw
  BY <1>4 DEF BandwidthFromToc
<1> QED BY <1>4, <1>5, <1>6 DEF SilkRateFromToc, NB, MB, WB

\* So does a Hybrid ToC, and the end band of super-wideband and above.
LEMMA HybridToc ==
    ASSUME NEW units \in {4, 8}, NEW bw \in Bandwidths, NEW ch \in {1, 2},
           NEW toc, toc = GenToc("Hybrid", FrameRate(units), bw, ch)
    PROVE  /\ ModeFromToc(toc) = "Hybrid"
           /\ UnitsFromToc(toc) = units
           /\ SilkRateFromToc(toc) = 16
           /\ bw >= SWB => EndBandFromToc(toc) = EndBand(bw)
<1>1. toc = (IF bw = SWB THEN 96 ELSE 112) + (IF units = 4 THEN 0 ELSE 8)
              + (IF ch = 2 THEN 4 ELSE 0)
  BY FrameRateValues DEF GenToc
<1> QED
  BY <1>1 DEF Bandwidths, NB, MB, WB, SWB, FB, ModeFromToc, UnitsFromToc,
              SilkRateFromToc, BandwidthFromToc, EndBandFromToc, EndBand

\* So does a CELT-only ToC, but for mediumband, which it cannot announce.
LEMMA CeltToc ==
    ASSUME NEW units \in {1, 2, 4, 8}, NEW bw \in Bandwidths,
           NEW ch \in {1, 2},
           NEW toc, toc = GenToc("CeltOnly", FrameRate(units), bw, ch)
    PROVE  /\ ModeFromToc(toc) = "CeltOnly"
           /\ UnitsFromToc(toc) = units
           /\ bw # MB => EndBandFromToc(toc) = EndBand(bw)
<1> DEFINE low == (IF ch = 2 THEN 4 ELSE 0)
           p == Period(FrameRate(units))
<1>1. toc = 128 + (IF bw > MB THEN 32 * (bw - MB) ELSE 0) + 8 * p + low
  BY FrameRateValues DEF GenToc, Period, Bandwidths, NB, MB, FB
<1>2. /\ p \in 0..3
      /\ units = <<1, 2, 4, 8>>[p + 1]
  BY FrameRateValues DEF Period
<1>3. low \in {0, 4}
  OBVIOUS
<1> HIDE DEF p, low
<1>4. /\ ModeFromToc(toc) = "CeltOnly"
      /\ (toc \div 8) % 4 = p
      /\ toc \div 32 = 4 + (IF bw > MB THEN bw - MB ELSE 0)
  BY <1>1, <1>2, <1>3 DEF Bandwidths, NB, MB, FB, ModeFromToc
<1> QED
  BY <1>2, <1>4
     DEF Bandwidths, NB, MB, WB, SWB, FB, UnitsFromToc, BandwidthFromToc,
         EndBandFromToc, EndBand

(***************************************************************************)
(* The bandwidth of a frame.                                               *)
(***************************************************************************)
LEMMA BandwidthType == bandwidth \in Bandwidths
  BY ConstantsAssumption DEF bandwidth, Bandwidths, NB, MB, WB, SWB, FB

LEMMA MaxIsIn ==
    ASSUME NEW S \in SUBSET Bandwidths, S # {}
    PROVE  Max(S) \in S
<1>1. PICK b \in S : \A c \in S : b >= c
  <2>1. CASE 4 \in S  BY <2>1 DEF Bandwidths, NB, FB
  <2>2. CASE 4 \notin S /\ 3 \in S  BY <2>2 DEF Bandwidths, NB, FB
  <2>3. CASE 4 \notin S /\ 3 \notin S /\ 2 \in S
    BY <2>3 DEF Bandwidths, NB, FB
  <2>4. CASE 4 \notin S /\ 3 \notin S /\ 2 \notin S /\ 1 \in S
    BY <2>4 DEF Bandwidths, NB, FB
  <2>5. CASE 4 \notin S /\ 3 \notin S /\ 2 \notin S /\ 1 \notin S
    <3>1. \A c \in S : c = 0  BY <2>5 DEF Bandwidths, NB, FB
    <3> QED BY <3>1
  <2> QED BY <2>1, <2>2, <2>3, <2>4, <2>5
<1> QED BY <1>1 DEF Max

LEMMA MinOfTwo ==
    ASSUME NEW a \in Int, NEW b \in Int
    PROVE  Min({a, b}) = IF a <= b THEN a ELSE b
<1>1. \E x \in {a, b} : \A y \in {a, b} : x =< y
  OBVIOUS
<1>2. Min({a, b}) \in {a, b} /\ \A y \in {a, b} : Min({a, b}) =< y
  BY <1>1 DEF Min
<1> QED BY <1>2

\* decide_fec() only lowers the bandwidth, and not at all up to 5% loss.
LEMMA FrameBandwidthRange ==
    ASSUME NEW mode, NEW units
    PROVE  /\ FrameBandwidth(mode, units) \in NB..bandwidth
           /\ FrameBandwidth(mode, units) \in Bandwidths
           /\ settings.loss <= 5 => FrameBandwidth(mode, units) = bandwidth
<1>1. /\ bandwidth \in NB..bandwidth
      /\ NB..bandwidth \subseteq Bandwidths
  BY BandwidthType DEF Bandwidths, NB, FB
<1>2. CASE ~LbrrCoded(mode, units)
  BY <1>1, <1>2 DEF FrameBandwidth
<1>3. CASE LbrrCoded(mode, units)
  <2>1. FecBandwidths(units) \subseteq NB..bandwidth
    BY DEF FecBandwidths
  <2>2. FecBandwidths(units) # {}
    BY <1>3 DEF LbrrCoded
  <2>3. Max(FecBandwidths(units)) \in FecBandwidths(units)
    BY <1>1, <2>1, <2>2, MaxIsIn
  <2>4. settings.loss <= 5 => Max(FecBandwidths(units)) = bandwidth
    BY <2>3 DEF FecBandwidths
  <2> QED BY <1>1, <1>3, <2>1, <2>3, <2>4 DEF FrameBandwidth
<1> QED BY <1>2, <1>3

(***************************************************************************)
(* A frame: every path of encode_impl() makes a packet of one frame, whose *)
(* ToC tells its mode and duration.                                        *)
(***************************************************************************)
LEMMA ModeType ==
    ASSUME NEW units, NEW n, forced_mode \in {"None", "Hybrid", "CeltOnly"}
    PROVE  /\ Mode(units, n) \in Modes
           /\ Mode(units, n) = "SilkOnly" => bandwidth <= WB
<1>1. bandwidth >= SWB \/ bandwidth <= WB
  BY BandwidthType DEF Bandwidths, NB, WB, SWB, FB
<1> QED BY <1>1 DEF Mode, SelectedMode, Modes

LEMMA SupportedUnits ==
    ASSUME NEW mode \in Modes, NEW units, Supported(mode, units)
    PROVE  /\ mode = "CeltOnly" => units \in {1, 2, 4, 8}
           /\ mode = "Hybrid" => units \in {4, 8}
           /\ mode = "SilkOnly" => units \in {4, 8, 16, 24}
           /\ units \in {1, 2, 4, 8, 16, 24}
           /\ FrameRate(units) \in FrameRates
<1>1. CASE mode = "SilkOnly"
  BY <1>1, FrameRateValues DEF Supported, FrameRates
<1>2. CASE mode = "Hybrid"
  BY <1>2, FrameRateValues DEF Supported, FrameRates
<1>3. CASE mode = "CeltOnly"
  BY <1>3, FrameRateValues DEF Supported, FrameRates
<1> QED BY <1>1, <1>2, <1>3 DEF Modes

LEMMA StarvedConfigs ==
    ASSUME NEW mode \in Modes, NEW units, Supported(mode, units), NEW n
    PROVE  StarvedConfig(mode, units, n) =
             [mode |-> mode, rate |-> FrameRate(units), count |-> 1]
<1>1. CASE mode = "SilkOnly"
  BY <1>1, SupportedUnits, FrameRateValues DEF StarvedConfig
<1>2. CASE mode = "Hybrid"
  BY <1>2, SupportedUnits, FrameRateValues DEF StarvedConfig
<1>3. CASE mode = "CeltOnly"
  BY <1>3, SupportedUnits, FrameRateValues DEF StarvedConfig
<1> QED BY <1>1, <1>2, <1>3 DEF Modes

LEMMA TocFacts ==
    ASSUME NEW mode \in Modes, NEW units, Supported(mode, units),
           NEW bw \in Bandwidths, mode = "SilkOnly" => bw <= WB,
           NEW toc, toc = GenToc(mode, FrameRate(units), bw, Channels)
    PROVE  /\ toc \in 0..255
           /\ ModeFromToc(toc) = mode
           /\ UnitsFromToc(toc) = units
<1>1. Channels \in {1, 2}
  BY ConstantsAssumption
<1>2. toc \in 0..255
  BY <1>1, SupportedUnits, TocType
<1>3. CASE mode = "SilkOnly"
  <2>1. bw \in NB..WB  BY <1>3 DEF Bandwidths, NB, WB, FB
  <2> QED BY <1>1, <1>2, <1>3, <2>1, SupportedUnits, SilkToc
<1>4. CASE mode = "Hybrid"
  BY <1>1, <1>2, <1>4, SupportedUnits, HybridToc
<1>5. CASE mode = "CeltOnly"
  BY <1>1, <1>2, <1>5, SupportedUnits, CeltToc
<1> QED BY <1>3, <1>4, <1>5 DEF Modes

LEMMA SilkRateType ==
    ASSUME NEW mode \in Modes
    PROVE  SilkRate(mode) \in {8, 12, 16}
<1>1. SamplingRate \in {8, 12, 16, 24, 48}
  BY ConstantsAssumption
<1> QED BY <1>1, MinOfTwo DEF SilkRate

LEMMA SilkUnitsType ==
    ASSUME TypeOK, NEW mode, NEW units \in {4, 8, 16, 24}
    PROVE  SilkUnits(mode, units) \in {0, 4, 8, 16, 24}
  BY DEF SilkUnits, TypeOK

LEMMA FillerType ==
    ASSUME NEW toc \in 0..255, NEW mode \in Modes, NEW n
    PROVE  /\ Filler(toc, mode, n) \in FrameRecords
           /\ Filler(toc, mode, n).toc = toc
           /\ Filler(toc, mode, n).mode = mode
           /\ Filler(toc, mode, n).data # "audio"
  BY SMTT(60) DEF Filler, FrameRecords, Sources

LEMMA BustedType ==
    ASSUME NEW toc \in 0..255, NEW mode \in Modes, NEW n
    PROVE  /\ BustedFrame(toc, mode, n) \in FrameRecords
           /\ BustedFrame(toc, mode, n).toc = toc
           /\ BustedFrame(toc, mode, n).mode = mode
           /\ BustedFrame(toc, mode, n).data # "audio"
<1> DEFINE zero == [Filler(toc, mode, n) EXCEPT !.data = "zero"]
<1>1. /\ zero.toc = toc
      /\ zero.mode = mode
      /\ zero.data = "zero"
      /\ zero \in FrameRecords
  BY ZenonT(60) DEF Filler, FrameRecords, Sources
<1> QED BY <1>1, FillerType DEF BustedFrame

LEMMA AudioType ==
    ASSUME TypeOK, NEW mode \in Modes, NEW units, Supported(mode, units),
           NEW toc \in 0..255
    PROVE  /\ AudioFrame(toc, mode, units) \in FrameRecords
           /\ AudioFrame(toc, mode, units).toc = toc
           /\ AudioFrame(toc, mode, units).mode = mode
<1>1. SilkRate(mode) \in {8, 12, 16}
  BY SilkRateType
<1>2. mode # "CeltOnly" => SilkUnits(mode, units) \in {0, 4, 8, 16, 24}
  BY SupportedUnits, SilkUnitsType DEF Modes
<1>3. EndBand(FrameBandwidth(mode, units)) \in {13, 17, 19, 21}
  BY FrameBandwidthRange DEF EndBand, Bandwidths, NB, MB, WB, SWB, FB
<1>4. silk.src \in Sources
  BY DEF TypeOK
<1>5. units \in {1, 2, 4, 8, 16, 24}
  BY SupportedUnits
<1> QED BY <1>1, <1>2, <1>3, <1>4, <1>5
        DEF AudioFrame, FrameRecords, Sources, Restarts

LEMMA Singleton ==
    ASSUME NEW x
    PROVE  [i \in 1..1 |-> x] = <<x>>
  OBVIOUS

\* What the packet of one frame says of the frame it holds.
Tells(f, mode, units) ==
    /\ f \in FrameRecords
    /\ f.mode = mode
    /\ ModeFromToc(f.toc) = mode
    /\ UnitsFromToc(f.toc) = units
    /\ f.data = "audio" => f = AudioFrame(f.toc, mode, units)
    /\ f.toc = GenToc(mode, FrameRate(units), FrameBandwidth(mode, units),
                      Channels)

LEMMA FillerTells ==
    ASSUME NEW mode \in Modes, NEW units, NEW n, NEW toc \in 0..255,
           ModeFromToc(toc) = mode, UnitsFromToc(toc) = units,
           toc = GenToc(mode, FrameRate(units), FrameBandwidth(mode, units),
                        Channels)
    PROVE  /\ Tells(Filler(toc, mode, n), mode, units)
           /\ Tells(BustedFrame(toc, mode, n), mode, units)
<1>1. Tells(Filler(toc, mode, n), mode, units)
  BY FillerType, SMTT(60) DEF Tells
<1>2. Tells(BustedFrame(toc, mode, n), mode, units)
  BY BustedType, SMTT(60) DEF Tells
<1> QED BY <1>1, <1>2, SMTT(60)

LEMMA AudioTells ==
    ASSUME TypeOK, NEW mode \in Modes, NEW units, Supported(mode, units),
           NEW toc \in 0..255,
           ModeFromToc(toc) = mode, UnitsFromToc(toc) = units,
           toc = GenToc(mode, FrameRate(units), FrameBandwidth(mode, units),
                        Channels)
    PROVE  Tells(AudioFrame(toc, mode, units), mode, units)
  BY AudioType, SMTT(60) DEF Tells

LEMMA FrameFacts ==
    ASSUME TypeOK,
           NEW mode \in Modes, NEW units, Supported(mode, units),
           mode = "SilkOnly" => bandwidth <= WB,
           NEW n, NEW busted \in BOOLEAN
    PROVE  \E f \in FrameRecords :
              /\ Frames(mode, units, n, busted) = <<f>>
              /\ Tells(f, mode, units)
<1> DEFINE bw == FrameBandwidth(mode, units)
           toc == GenToc(mode, FrameRate(units), bw, Channels)
<1>1. /\ bw \in Bandwidths
      /\ mode = "SilkOnly" => bw <= WB
  BY FrameBandwidthRange, BandwidthType DEF Bandwidths, NB, WB, FB
<1>2. /\ toc \in 0..255
      /\ ModeFromToc(toc) = mode
      /\ UnitsFromToc(toc) = units
  BY <1>1, TocFacts
<1>3. mode = "SilkOnly" => Min({bw, WB}) = bw
  BY <1>1, MinOfTwo DEF Bandwidths, NB, WB, FB
<1>4. StarvedToc(mode, units, n) = toc
  BY <1>3, StarvedConfigs DEF StarvedToc
<1>5. Starved(units, n) =>
        Frames(mode, units, n, busted) = <<Filler(toc, mode, n)>>
  <2>1. StarvedFrames(mode, units, n) = [i \in 1..1 |-> Filler(toc, mode, n)]
    BY <1>4, StarvedConfigs DEF StarvedFrames
  <2> QED BY <2>1, Singleton DEF Frames
<1>6. /\ ~Starved(units, n) /\ busted =>
           Frames(mode, units, n, busted) = <<BustedFrame(toc, mode, n)>>
      /\ ~Starved(units, n) /\ ~busted =>
           Frames(mode, units, n, busted) = <<AudioFrame(toc, mode, units)>>
  BY SMTT(60) DEF Frames
<1>7. /\ Tells(Filler(toc, mode, n), mode, units)
      /\ Tells(BustedFrame(toc, mode, n), mode, units)
  BY <1>2, FillerTells, ZenonT(60)
<1>8. Tells(AudioFrame(toc, mode, units), mode, units)
  BY <1>2, AudioTells
<1> HIDE DEF toc
<1>9. \A f : Tells(f, mode, units) => f \in FrameRecords
  BY DEF Tells
<1> QED BY <1>5, <1>6, <1>7, <1>8, <1>9

(***************************************************************************)
(* The inductive invariant: what the sub-frames of a split call have in    *)
(* common while they are coded.                                            *)
(***************************************************************************)
SubMode == Mode(8, Budget(8, 1276))

IdleOK == forced_mode = "None" => call = NoCall /\ sub = <<>>

SplitOK == /\ forced_mode # "None" => call.units \in {16, 24}
           /\ forced_mode = "Hybrid" => bandwidth >= SWB

SubOK == \A i \in 1..Len(sub) : /\ sub[i].mode = SubMode
                                /\ ModeFromToc(sub[i].toc) = SubMode
                                /\ UnitsFromToc(sub[i].toc) = 8

PacketOK ==
    packet # NoPacket =>
      /\ Len(packet.frames) * UnitsFromToc(packet.toc) = packet.units
      /\ \A i \in 1..Len(packet.frames) :
           packet.frames[i].mode = ModeFromToc(packet.toc)

Inv == TypeOK /\ IdleOK /\ SplitOK /\ SubOK /\ PacketOK

\* What is coded leaves SILK and the remembered mode well typed.
LEMMA CodeFrameType ==
    ASSUME TypeOK, NEW mode \in Modes, NEW units, NEW n,
           NEW busted \in BOOLEAN, NEW full \in BOOLEAN,
           CodeFrame(mode, units, n, busted, full)
    PROVE  /\ silk' \in [initialized : BOOLEAN, fs : {0, 8, 12, 16},
                         units : {0, 4, 8, 16, 24}, lbrr : BOOLEAN,
                         src : Sources]
           /\ prev_enc_mode' \in Modes \cup {"None"}
<1>1. /\ silk \in [initialized : BOOLEAN, fs : {0, 8, 12, 16},
                   units : {0, 4, 8, 16, 24}, lbrr : BOOLEAN, src : Sources]
      /\ prev_enc_mode \in Modes \cup {"None"}
  BY DEF TypeOK
<1>2. LbrrCoded(mode, units) \in BOOLEAN
  BY DEF LbrrCoded
<1>3. CASE DropFec(mode)
  BY <1>1, <1>3 DEF DropFec
<1>4. CASE mode = "CeltOnly" /\ CodeCelt
  BY <1>1, <1>4 DEF CodeCelt, Sources, Modes
<1>5. CASE RejectSilk(mode, units)
  BY <1>1, <1>2, <1>5 DEF RejectSilk
<1>6. CASE /\ Supported(mode, units) /\ mode # "CeltOnly"
           /\ CodeSilk(mode, units, busted, full)
  <2>1. SilkUnits(mode, units) \in {0, 4, 8, 16, 24}
    BY <1>6, SupportedUnits, SilkUnitsType DEF Modes
  <2>2. SilkRate(mode) \in {8, 12, 16}
    BY SilkRateType
  <2> QED BY <1>1, <1>2, <1>6, <2>1, <2>2 DEF CodeSilk, Sources
<1> QED BY <1>3, <1>4, <1>5, <1>6 DEF CodeFrame

LEMMA InitInv == Init => Inv
<1> SUFFICES ASSUME Init PROVE Inv  OBVIOUS
<1>1. TypeOK
  <2>1. sub \in Seq(FrameRecords) /\ packet.frames \in Seq(FrameRecords)
    BY DEF Init, NoPacket
  <2> QED BY <2>1 DEF Init, TypeOK, NoCall, Sources
<1> QED BY <1>1 DEF Init, Inv, IdleOK, SplitOK, SubOK, PacketOK

LEMMA IdleMode ==
    ASSUME Inv, forced_mode = "None", NEW units, NEW n
    PROVE  /\ Mode(units, n) \in Modes
           /\ Mode(units, n) = "SilkOnly" => bandwidth <= WB
           /\ Mode(units, n) = "Hybrid" => bandwidth >= SWB
<1>1. Mode(units, n) = "Hybrid" => bandwidth >= SWB
  BY DEF Mode, SelectedMode
<1> QED BY <1>1, ModeType

LEMMA SubModeFacts ==
    ASSUME Inv, forced_mode # "None"
    PROVE  /\ SubMode \in Modes
           /\ SubMode # "SilkOnly"
           /\ SubMode = "Hybrid" => bandwidth >= SWB
           /\ Supported(SubMode, 8)
<1>1. SubMode \in {"Hybrid", "CeltOnly"}
  BY DEF SubMode, Mode, SelectedMode, Inv, TypeOK
<1>2. SubMode = "Hybrid" => forced_mode = "Hybrid"
  BY DEF SubMode, Mode, SelectedMode
<1> QED BY <1>1, <1>2 DEF Inv, SplitOK, Supported, Modes

(***************************************************************************)
(* Every step keeps it.                                                    *)
(***************************************************************************)
\* Between calls only the packet matters.
LEMMA IdleSub ==
    ASSUME sub' = <<>>
    PROVE  SubOK' /\ (sub \in Seq(FrameRecords) /\ Len(sub) = 0)'
  BY DEF SubOK

LEMMA NoPacketOK ==
    ASSUME packet' = NoPacket
    PROVE  PacketOK' /\ packet'.frames \in Seq(FrameRecords)
  BY DEF PacketOK, NoPacket

LEMMA SetStep ==
    ASSUME Inv, NEW s \in AllSettings, Set(s)
    PROVE  Inv'
<1>1. sub' = <<>>
  BY DEF Inv, IdleOK, Set, callVars
<1> QED
  BY <1>1, IdleSub
     DEF Inv, TypeOK, IdleOK, SplitOK, PacketOK, Set, callVars, bandwidth

LEMMA EnableHybridModeStep ==
    ASSUME Inv, EnableHybridMode
    PROVE  Inv'
<1>1. sub' = <<>>
  BY DEF Inv, IdleOK, EnableHybridMode, callVars
<1>2. TypeOK'
  BY DEF Inv, TypeOK, EnableHybridMode, callVars
<1> QED
  BY <1>1, <1>2, IdleSub
     DEF Inv, IdleOK, SplitOK, PacketOK, EnableHybridMode, callVars, bandwidth

\* encode() fails or makes a packet of one frame.
LEMMA EncodeEffect ==
    ASSUME Inv, NEW units, NEW buf,
           NEW busted \in BOOLEAN, NEW full \in BOOLEAN,
           Encode(units, buf, busted, full)
    PROVE  \/ packet' = NoPacket
           \/ \E mode \in Modes, f \in FrameRecords :
                 /\ packet' = [toc |-> f.toc, frames |-> <<f>>,
                               units |-> units]
                 /\ Supported(mode, units)
                 /\ mode = "SilkOnly" => bandwidth <= WB
                 /\ mode = "Hybrid" => bandwidth >= SWB
                 /\ Tells(f, mode, units)
<1> DEFINE n == Budget(units, buf)
           mode == Mode(units, n)
<1>1. /\ forced_mode = "None"
      /\ packet' = IF Fails(mode, units, n) THEN NoPacket
                   ELSE [toc |-> Frames(mode, units, n, busted)[1].toc,
                         frames |-> Frames(mode, units, n, busted),
                         units |-> units]
  BY DEF Encode
<1>2. /\ mode \in Modes
      /\ mode = "SilkOnly" => bandwidth <= WB
      /\ mode = "Hybrid" => bandwidth >= SWB
  BY <1>1, IdleMode
<1> HIDE DEF n, mode
<1>3. CASE ~Fails(mode, units, n)
  <2>1. Supported(mode, units)
    BY <1>3 DEF Fails
  <2>2. PICK f \in FrameRecords :
           /\ Frames(mode, units, n, busted) = <<f>>
           /\ Tells(f, mode, units)
    BY <1>2, <2>1, FrameFacts DEF Inv
  <2>3. packet' = [toc |-> f.toc, frames |-> <<f>>, units |-> units]
    BY <1>1, <1>3, <2>2
  <2> QED BY <1>2, <2>1, <2>2, <2>3
<1> QED BY <1>1, <1>3

LEMMA EncodeStep ==
    ASSUME Inv, NEW units, NEW buf,
           NEW busted \in BOOLEAN, NEW full \in BOOLEAN,
           Encode(units, buf, busted, full)
    PROVE  Inv'
<1> DEFINE n == Budget(units, buf)
           mode == Mode(units, n)
<1>1. /\ forced_mode = "None"
      /\ CodeFrame(mode, units, n, busted, full)
      /\ settings' = settings /\ forced_mode' = forced_mode
      /\ call' = call /\ sub' = sub
  BY DEF Encode, callVars
<1>2. mode \in Modes
  BY <1>1, IdleMode
<1> HIDE DEF n, mode
<1>3. sub' = <<>>
  BY <1>1 DEF Inv, IdleOK
<1>4. PacketOK' /\ packet'.frames \in Seq(FrameRecords)
  <2>1. CASE packet' = NoPacket
    BY <2>1, NoPacketOK
  <2>2. ASSUME NEW m \in Modes, NEW f \in FrameRecords,
               packet' = [toc |-> f.toc, frames |-> <<f>>, units |-> units],
               Supported(m, units), Tells(f, m, units)
        PROVE  PacketOK' /\ packet'.frames \in Seq(FrameRecords)
    <3>1. /\ f.mode = m
          /\ ModeFromToc(f.toc) = m
          /\ UnitsFromToc(f.toc) = units
      BY <2>2 DEF Tells
    <3>2. units \in {1, 2, 4, 8, 16, 24}
      BY <2>2, SupportedUnits
    <3>3. /\ packet'.toc = f.toc
          /\ packet'.frames = <<f>>
          /\ packet'.units = units
      BY <2>2
    <3> QED BY <3>1, <3>2, <3>3 DEF PacketOK
  <2> QED BY <2>1, <2>2, EncodeEffect
<1>5. TypeOK'
  BY <1>1, <1>2, <1>4, CodeFrameType DEF Inv, TypeOK
<1> QED
  BY <1>1, <1>3, <1>4, <1>5, IdleSub DEF Inv, IdleOK, SplitOK, bandwidth

LEMMA SplitStep ==
    ASSUME Inv, NEW units \in FrameSizes, NEW buf \in Buffers,
           Split(units, buf)
    PROVE  Inv'
<1> DEFINE mode == Mode(units, Budget(units, buf))
<1>1. /\ forced_mode = "None" /\ mode # "SilkOnly" /\ units > 8
      /\ forced_mode' = mode
      /\ call' = [units |-> units, buf |-> buf]
      /\ sub' = <<>>
      /\ settings' = settings /\ silk' = silk
      /\ prev_enc_mode' = prev_enc_mode /\ packet' = packet
  BY DEF Split, Splits
<1>2. mode \in Modes /\ (mode = "Hybrid" => bandwidth >= SWB)
  BY <1>1, IdleMode
<1>3. units \in {16, 24}
  BY <1>1, ConstantsAssumption
<1> HIDE DEF mode
<1>4. forced_mode' \in {"Hybrid", "CeltOnly"}
  BY <1>1, <1>2 DEF Modes
<1>5. TypeOK'
  BY <1>1, <1>3, <1>4 DEF Inv, TypeOK
<1> QED
  BY <1>1, <1>2, <1>3, <1>4, <1>5, IdleSub
     DEF Inv, IdleOK, SplitOK, PacketOK, bandwidth

\* A call that ends takes its sub-frames with it.
LEMMA EndCallFacts ==
    ASSUME EndCall
    PROVE  /\ IdleOK'
           /\ SplitOK'
           /\ SubOK'
           /\ forced_mode' = "None"
           /\ call' \in [units : {0, 16, 24}, buf : Buffers \cup {0}]
           /\ (sub \in Seq(FrameRecords) /\ Len(sub) <= call.units \div 8)'
  BY DEF EndCall, NoCall, IdleOK, SplitOK, SubOK

\* A sub-frame fails its call or joins the ones before it.
Appended(f) ==
    /\ f \in FrameRecords
    /\ Tells(f, SubMode, 8)
    /\ sub' \in Seq(FrameRecords)
    /\ Len(sub') = Len(sub) + 1
    /\ Len(sub') <= call.units \div 8
    /\ \A i \in 1..Len(sub) : sub'[i] = sub[i]
    /\ sub'[Len(sub) + 1] = f
    /\ SubMode' = SubMode
    /\ forced_mode' = forced_mode /\ call' = call /\ packet' = packet

LEMMA EncodeSubEffect ==
    ASSUME Inv, NEW busted \in BOOLEAN, NEW full \in BOOLEAN,
           EncodeSub(busted, full)
    PROVE  (EndCall /\ packet' = NoPacket) \/ \E f : Appended(f)
<1> DEFINE n == Budget(8, 1276)
<1>1. /\ forced_mode # "None"
      /\ Len(sub) < call.units \div 8
      /\ settings' = settings
      /\ IF Fails(SubMode, 8, n)
         THEN EndCall /\ packet' = NoPacket
         ELSE /\ sub' = Append(sub, Frames(SubMode, 8, n, busted)[1])
              /\ forced_mode' = forced_mode
              /\ call' = call /\ packet' = packet
  BY DEF EncodeSub, SubMode
<1> HIDE DEF n
<1>2. CASE ~Fails(SubMode, 8, n)
  <2>1. PICK f \in FrameRecords :
           /\ Frames(SubMode, 8, n, busted) = <<f>>
           /\ Tells(f, SubMode, 8)
    BY <1>1, SubModeFacts, FrameFacts DEF Inv
  <2>2. /\ sub' = Append(sub, f)
        /\ forced_mode' = forced_mode
        /\ call' = call /\ packet' = packet
    BY <1>1, <1>2, <2>1
  <2>3. /\ sub \in Seq(FrameRecords)
        /\ call.units \in {0, 16, 24}
        /\ Len(sub) + 1 <= call.units \div 8
    BY <1>1 DEF Inv, TypeOK
  <2>4. /\ sub' \in Seq(FrameRecords)
        /\ Len(sub') = Len(sub) + 1
        /\ \A i \in 1..Len(sub) : sub'[i] = sub[i]
        /\ sub'[Len(sub) + 1] = f
    BY <2>2, <2>3
  <2>5. SubMode' = SubMode
    BY <1>1, <2>2
       DEF SubMode, Mode, SelectedMode, TinyBudget, Budget, CbrBytes
  <2>6. Appended(f)
    BY <2>1, <2>2, <2>3, <2>4, <2>5 DEF Appended
  <2> QED BY <2>6
<1> QED BY <1>1, <1>2

LEMMA EncodeSubStep ==
    ASSUME Inv, NEW busted \in BOOLEAN, NEW full \in BOOLEAN,
           EncodeSub(busted, full)
    PROVE  Inv'
<1>1. /\ forced_mode # "None"
      /\ CodeFrame(SubMode, 8, Budget(8, 1276), busted, full)
      /\ settings' = settings
  BY DEF EncodeSub, SubMode
<1>2. /\ silk' \in [initialized : BOOLEAN, fs : {0, 8, 12, 16},
                    units : {0, 4, 8, 16, 24}, lbrr : BOOLEAN,
                    src : Sources]
      /\ prev_enc_mode' \in Modes \cup {"None"}
  BY <1>1, SubModeFacts, CodeFrameType DEF Inv
<1>3. CASE EndCall /\ packet' = NoPacket
  <2>1. PacketOK' /\ packet'.frames \in Seq(FrameRecords)
    BY <1>3, NoPacketOK
  <2>2. TypeOK'
    BY <1>1, <1>2, <1>3, <2>1, EndCallFacts DEF Inv, TypeOK
  <2> QED BY <1>3, <2>1, <2>2, EndCallFacts DEF Inv
<1>4. ASSUME NEW f, Appended(f) PROVE Inv'
  <2>1. TypeOK'
    BY <1>1, <1>2, <1>4 DEF Inv, TypeOK, Appended
  <2>2. SubOK'
    <3>1. SUFFICES ASSUME NEW i \in 1..(Len(sub) + 1)
                   PROVE  /\ sub'[i].mode = SubMode
                          /\ ModeFromToc(sub'[i].toc) = SubMode
                          /\ UnitsFromToc(sub'[i].toc) = 8
      BY <1>4 DEF SubOK, Appended
    <3>2. CASE i \in 1..Len(sub)
      BY <1>4, <3>2 DEF Inv, SubOK, Appended
    <3>3. CASE i = Len(sub) + 1
      BY <1>4, <3>3 DEF Tells, Appended
    <3>4. Len(sub) \in Nat
      BY DEF Inv, TypeOK
    <3> QED BY <3>2, <3>3, <3>4
  <2> QED
    BY <1>1, <1>4, <2>1, <2>2, ZenonT(60)
       DEF Inv, IdleOK, SplitOK, PacketOK, Appended, bandwidth
<1> QED BY <1>3, <1>4, EncodeSubEffect

LEMMA JoinStep ==
    ASSUME Inv, NEW fits \in BOOLEAN, Join(fits)
    PROVE  Inv'
<1>1. /\ forced_mode # "None"
      /\ Len(sub) = call.units \div 8
      /\ EndCall
      /\ settings' = settings /\ silk' = silk
      /\ prev_enc_mode' \in {forced_mode, prev_enc_mode}
      /\ packet' = IF fits THEN [toc |-> sub[1].toc, frames |-> sub,
                                 units |-> call.units] ELSE NoPacket
  BY DEF Join
<1>2. prev_enc_mode' \in Modes \cup {"None"}
  BY <1>1 DEF Inv, TypeOK, Modes
<1>3. PacketOK' /\ packet'.frames \in Seq(FrameRecords)
  <2>1. CASE ~fits
    BY <1>1, <2>1, NoPacketOK
  <2>2. CASE fits
    <3>1. /\ call.units \in {16, 24}
          /\ sub \in Seq(FrameRecords)
      BY <1>1 DEF Inv, TypeOK, SplitOK
    <3>2. Len(sub) * 8 = call.units /\ 1 \in 1..Len(sub)
      BY <1>1, <3>1
    <3>3. /\ packet'.toc = sub[1].toc
          /\ packet'.frames = sub
          /\ packet'.units = call.units
      BY <1>1, <2>2
    <3> QED BY <3>1, <3>2, <3>3 DEF Inv, SubOK, PacketOK
  <2> QED BY <2>1, <2>2
<1>4. TypeOK'
  BY <1>1, <1>2, <1>3, EndCallFacts DEF Inv, TypeOK
<1> QED BY <1>1, <1>3, <1>4, EndCallFacts DEF Inv

LEMMA NextInv == Inv /\ [Next]_vars => Inv'
<1> SUFFICES ASSUME Inv, [Next]_vars PROVE Inv'  OBVIOUS
<1>1. CASE UNCHANGED vars
  <2>1. /\ settings' = settings /\ silk' = silk
        /\ prev_enc_mode' = prev_enc_mode /\ forced_mode' = forced_mode
        /\ call' = call /\ sub' = sub /\ packet' = packet
    BY <1>1 DEF vars, callVars
  <2>2. SubOK'
    <3>1. CASE forced_mode = "None"
      BY <2>1, <3>1, IdleSub DEF Inv, IdleOK
    <3>2. CASE forced_mode # "None"
      <4>1. SubMode' = SubMode
        BY <2>1, <3>2
           DEF SubMode, Mode, SelectedMode, TinyBudget, Budget, CbrBytes
      <4> QED BY <2>1, <4>1 DEF Inv, SubOK
    <3> QED BY <3>1, <3>2
  <2>3. TypeOK' /\ PacketOK'
    BY <2>1, SMTT(60) DEF Inv, TypeOK, PacketOK
  <2> QED BY <2>1, <2>2, <2>3 DEF Inv, IdleOK, SplitOK, bandwidth
<1>2. CASE Next
  <2>1. {FALSE, MayBust} \subseteq BOOLEAN
    BY ConstantsAssumption
  <2> QED
    BY <1>2, <2>1, SetStep, EnableHybridModeStep, EncodeStep, SplitStep,
       EncodeSubStep, JoinStep DEF Next
<1> QED BY <1>1, <1>2

THEOREM InvariantHolds == Spec => []Inv
<1> QED BY InitInv, NextInv, PTL DEF Spec

\* Every variable keeps its type.
THEOREM TypeCorrect == Spec => []TypeOK
<1>1. Inv => TypeOK  BY DEF Inv
<1> QED BY <1>1, InvariantHolds, PTL

\* A packet lasts as long as the input it codes: whatever the settings, the
\* frame size and the buffer, and whichever path made it.
THEOREM PacketsLast == Spec => []PacketLasts
<1>1. Inv => PacketLasts  BY DEF Inv, PacketOK, PacketLasts
<1> QED BY <1>1, InvariantHolds, PTL

\* The decoder decodes every frame of audio in the mode that coded it.
THEOREM ModesAgree == Spec => []ModeAgrees
<1>1. Inv => ModeAgrees
  <2> SUFFICES ASSUME Inv PROVE ModeAgrees  OBVIOUS
  <2>1. CASE packet = NoPacket
    BY <2>1 DEF ModeAgrees, AudioFrames, NoPacket
  <2>2. CASE packet # NoPacket
    BY <2>2, SMTT(60) DEF Inv, TypeOK, PacketOK, ModeAgrees, AudioFrames
  <2> QED BY <2>1, <2>2
<1> QED BY <1>1, InvariantHolds, PTL

(***************************************************************************)
(* Up to 5% loss, FEC never lowers the bandwidth, and every frame carries  *)
(* the one ToC of its mode and duration.  A caller that never sets a       *)
(* higher loss gets the bandwidth it reads.                                *)
(***************************************************************************)
LowLoss == \A s \in AllSettings : s.loss <= 5

PlainToc(mode, units) == GenToc(mode, FrameRate(units), bandwidth, Channels)

\* A frame of audio was coded the way its ToC announces.
Announced(f) ==
    /\ f.data = "audio" /\ f.mode # "CeltOnly" =>
         f.fs = SilkRateFromToc(f.toc)
    /\ SamplingRate # 12 /\ f.data = "audio" /\ f.mode # "SilkOnly" =>
         f.end_band = EndBandFromToc(f.toc)

LowLossInv ==
    /\ \A i \in 1..Len(sub) : /\ Announced(sub[i])
                              /\ sub[i].toc = PlainToc(SubMode, 8)
    /\ \A i \in 1..Len(packet.frames) :
         Announced(packet.frames[i]) /\ packet.frames[i].toc = packet.toc

LEMMA LowLossFrame ==
    ASSUME LowLoss, Inv, NEW mode \in Modes, NEW units,
           Supported(mode, units),
           mode = "SilkOnly" => bandwidth <= WB,
           mode = "Hybrid" => bandwidth >= SWB,
           NEW f, Tells(f, mode, units)
    PROVE  Announced(f) /\ f.toc = PlainToc(mode, units)
<1>1. FrameBandwidth(mode, units) = bandwidth
  BY FrameBandwidthRange DEF LowLoss, Inv, TypeOK
<1>2. /\ f.mode = mode
      /\ f.toc = PlainToc(mode, units)
      /\ f.data = "audio" => f = AudioFrame(f.toc, mode, units)
  BY <1>1 DEF Tells, PlainToc
<1>3. /\ SamplingRate \in {8, 12, 16, 24, 48} /\ Channels \in {1, 2}
      /\ bandwidth \in Bandwidths
  BY ConstantsAssumption, BandwidthType
<1>4. f.data = "audio" =>
        /\ mode # "CeltOnly" => f.fs = SilkRate(mode)
        /\ mode # "SilkOnly" => f.end_band = EndBand(bandwidth)
  BY <1>1, <1>2 DEF AudioFrame
<1>5. CASE mode = "SilkOnly"
  <2>1. bandwidth \in NB..WB
    BY <1>3, <1>5 DEF Bandwidths, NB, WB, FB
  <2>2. /\ bandwidth = NB => SilkRateFromToc(f.toc) = 8
        /\ bandwidth = MB => SilkRateFromToc(f.toc) = 12
        /\ bandwidth = WB => SilkRateFromToc(f.toc) = 16
    <3>1. /\ units \in {4, 8, 16, 24}
          /\ f.toc = GenToc("SilkOnly", FrameRate(units), bandwidth, Channels)
      BY <1>2, <1>5, SupportedUnits DEF PlainToc
    <3> QED BY <1>3, <2>1, <3>1, SilkToc
  <2>3. SilkRate(mode) = IF SamplingRate <= 16 THEN SamplingRate ELSE 16
    BY <1>3, <1>5, MinOfTwo DEF SilkRate
  <2>4. /\ bandwidth = NB => SamplingRate = 8
        /\ bandwidth = MB => SamplingRate = 12
        /\ bandwidth = WB => SamplingRate = 16
    BY <1>3 DEF bandwidth, NB, MB, WB, SWB, FB
  <2>5. SilkRate(mode) = SilkRateFromToc(f.toc)
    BY <2>1, <2>2, <2>3, <2>4 DEF NB, MB, WB
  <2> QED BY <1>2, <1>4, <1>5, <2>5 DEF Announced
<1>6. CASE mode = "Hybrid"
  <2>1. /\ SilkRateFromToc(f.toc) = 16
        /\ EndBandFromToc(f.toc) = EndBand(bandwidth)
    BY <1>2, <1>3, <1>6, SupportedUnits, HybridToc DEF PlainToc
  <2> QED BY <1>2, <1>4, <1>6, <2>1 DEF Announced, SilkRate
<1>7. CASE mode = "CeltOnly"
  <2>1. SamplingRate # 12 => bandwidth # MB
    BY <1>3 DEF bandwidth, NB, MB, WB, SWB, FB
  <2>2. SamplingRate # 12 => EndBandFromToc(f.toc) = EndBand(bandwidth)
    BY <1>2, <1>3, <1>7, <2>1, SupportedUnits, CeltToc DEF PlainToc
  <2> QED BY <1>2, <1>4, <1>7, <2>2 DEF Announced
<1> QED BY <1>5, <1>6, <1>7 DEF Modes

LEMMA LowLossInit == Init => LowLossInv
  BY DEF Init, LowLossInv, NoPacket

LEMMA LowLossNext ==
    LowLoss /\ Inv /\ LowLossInv /\ [Next]_vars => LowLossInv'
<1> SUFFICES ASSUME LowLoss, Inv, LowLossInv, [Next]_vars PROVE LowLossInv'
  OBVIOUS
<1> DEFINE Subs == \A i \in 1..Len(sub) :
                     Announced(sub[i]) /\ sub[i].toc = PlainToc(SubMode, 8)
           Packets == \A i \in 1..Len(packet.frames) :
                        /\ Announced(packet.frames[i])
                        /\ packet.frames[i].toc = packet.toc
<1>1. ASSUME sub' = <<>> PROVE Subs'
  BY <1>1
<1>2. ASSUME packet' = NoPacket PROVE Packets'
  BY <1>2 DEF NoPacket
<1>3. ASSUME packet' = packet PROVE Packets'
  BY <1>3 DEF LowLossInv, Announced
<1>4. ASSUME EndCall PROVE Subs'
  BY <1>1, <1>4 DEF EndCall
<1>5. ASSUME forced_mode = "None", sub' = sub PROVE Subs'
  BY <1>1, <1>5 DEF Inv, IdleOK
<1>6. Subs' /\ Packets' => LowLossInv'
  BY DEF LowLossInv
<1> HIDE DEF Subs, Packets
<1>7. ASSUME NEW s \in AllSettings, Set(s) PROVE LowLossInv'
  BY <1>3, <1>5, <1>6, <1>7 DEF Set, callVars
<1>8. ASSUME EnableHybridMode PROVE LowLossInv'
  BY <1>3, <1>5, <1>6, <1>8 DEF EnableHybridMode, callVars
<1>9. ASSUME NEW units, NEW buf,
             NEW busted \in BOOLEAN, NEW full \in BOOLEAN,
             Encode(units, buf, busted, full)
      PROVE  LowLossInv'
  <2>1. Subs'
    BY <1>5, <1>9 DEF Encode, callVars
  <2>2. ASSUME NEW mode \in Modes, NEW f \in FrameRecords,
               packet' = [toc |-> f.toc, frames |-> <<f>>, units |-> units],
               Announced(f)
        PROVE  Packets'
    BY <2>2 DEF Packets, Announced
  <2>3. Packets'
    BY <1>2, <1>9, <2>2, EncodeEffect, LowLossFrame
  <2> QED BY <1>6, <2>1, <2>3
<1>10. ASSUME NEW units, NEW buf, Split(units, buf) PROVE LowLossInv'
  BY <1>1, <1>3, <1>6, <1>10 DEF Split
<1>11. ASSUME NEW busted \in BOOLEAN, NEW full \in BOOLEAN,
              EncodeSub(busted, full)
       PROVE  LowLossInv'
  <2>1. CASE EndCall /\ packet' = NoPacket
    BY <1>2, <1>4, <1>6, <2>1
  <2>2. ASSUME NEW f, Appended(f) PROVE LowLossInv'
    <3>1. Announced(f) /\ f.toc = PlainToc(SubMode, 8)
      BY <1>11, <2>2, SubModeFacts, LowLossFrame DEF EncodeSub, Appended
    <3>2. PlainToc(SubMode, 8)' = PlainToc(SubMode, 8)
      BY <2>2 DEF Appended, PlainToc, bandwidth
    <3>3. SUFFICES ASSUME NEW i \in 1..(Len(sub) + 1)
                   PROVE  /\ Announced(sub'[i])
                          /\ sub'[i].toc = PlainToc(SubMode, 8)
      BY <1>3, <1>6, <2>2, <3>2 DEF Subs, Appended, Announced
    <3>4. Len(sub) \in Nat
      BY DEF Inv, TypeOK
    <3>5. CASE i \in 1..Len(sub)
      BY <2>2, <3>5 DEF Appended, LowLossInv
    <3>6. CASE i = Len(sub) + 1
      BY <2>2, <3>1, <3>6 DEF Appended
    <3> QED BY <3>4, <3>5, <3>6
  <2> QED BY <1>11, <2>1, <2>2, EncodeSubEffect
<1>12. ASSUME NEW fits \in BOOLEAN, Join(fits) PROVE LowLossInv'
  <2>1. Subs'
    BY <1>4, <1>12 DEF Join
  <2>2. CASE packet' = NoPacket
    BY <1>2, <1>6, <2>1, <2>2
  <2>3. CASE packet' = [toc |-> sub[1].toc, frames |-> sub,
                        units |-> call.units]
    <3>1. Len(sub) \in Nat
      BY DEF Inv, TypeOK
    <3>2. \A i \in 1..Len(sub) :
            Announced(sub[i]) /\ sub[i].toc = sub[1].toc
      BY <3>1 DEF LowLossInv
    <3>3. packet'.frames = sub /\ packet'.toc = sub[1].toc
      BY <2>3
    <3>4. Packets'
      BY <3>2, <3>3 DEF Packets, Announced
    <3> QED BY <1>6, <2>1, <3>4
  <2> QED BY <1>12, <2>2, <2>3 DEF Join
<1>13. CASE UNCHANGED vars
  <2>1. CASE forced_mode = "None"
    BY <1>3, <1>5, <1>6, <1>13, <2>1 DEF vars, callVars
  <2>2. CASE forced_mode # "None"
    <3>1. SubMode' = SubMode
      <4>1. settings' = settings /\ forced_mode' = forced_mode
        BY <1>13 DEF vars, callVars
      <4> QED BY <2>2, <4>1
              DEF SubMode, Mode, SelectedMode, TinyBudget, Budget, CbrBytes
    <3>2. PlainToc(SubMode, 8)' = PlainToc(SubMode, 8)
      BY <3>1 DEF PlainToc, bandwidth
    <3>3. Subs'
      BY <1>13, <3>2 DEF vars, callVars, LowLossInv, Subs, Announced
    <3> QED BY <1>3, <1>6, <1>13, <3>3 DEF vars
  <2> QED BY <2>1, <2>2
<1>14. CASE Next
  <2>1. {FALSE, MayBust} \subseteq BOOLEAN
    BY ConstantsAssumption
  <2> QED BY <1>7, <1>8, <1>9, <1>10, <1>11, <1>12, <1>14, <2>1 DEF Next
<1> QED BY <1>13, <1>14

LEMMA LowLossHolds == LowLoss => (Spec => []LowLossInv)
<1> SUFFICES ASSUME LowLoss PROVE Spec => []LowLossInv  OBVIOUS
<1>1. Init => LowLossInv
  BY LowLossInit
<1>2. Inv /\ LowLossInv /\ [Next]_vars => LowLossInv'
  BY LowLossNext
<1> QED BY <1>1, <1>2, InvariantHolds, PTL DEF Spec

\* Without more than 5% loss SILK codes at the rate the ToC announces.
THEOREM SilkRatesAgree == LowLoss => (Spec => []SilkRateAgrees)
<1> SUFFICES ASSUME LowLoss PROVE Spec => []SilkRateAgrees  OBVIOUS
<1>1. Inv /\ LowLossInv => SilkRateAgrees
  BY SMTT(60) DEF Inv, TypeOK, LowLossInv, SilkRateAgrees, AudioFrames, Announced
<1> QED BY <1>1, InvariantHolds, LowLossHolds, PTL

\* And, but at 12 kHz, CELT codes the bands it announces.
THEOREM CeltBandsAgreed ==
    LowLoss /\ SamplingRate # 12 => (Spec => []CeltBandsAgree)
<1> SUFFICES ASSUME LowLoss, SamplingRate # 12
             PROVE  Spec => []CeltBandsAgree
  OBVIOUS
<1>1. Inv /\ LowLossInv => CeltBandsAgree
  BY SMTT(60) DEF Inv, TypeOK, LowLossInv, CeltBandsAgree, AudioFrames, Announced
<1> QED BY <1>1, InvariantHolds, LowLossHolds, PTL

\* And the sub-frames of a packet have a single configuration.
THEOREM SingleConfigs == LowLoss => (Spec => []SingleConfig)
<1> SUFFICES ASSUME LowLoss PROVE Spec => []SingleConfig  OBVIOUS
<1>1. Inv /\ LowLossInv => SingleConfig
  BY SMTT(60) DEF Inv, TypeOK, LowLossInv, SingleConfig
<1> QED BY <1>1, InvariantHolds, LowLossHolds, PTL

(***************************************************************************)
(* Where no frame is split, SILK never codes from what it heard before a   *)
(* stretch of CELT: while its history is stale the encoder remembers CELT, *)
(* because no other path of a whole frame changes what it remembers.       *)
(***************************************************************************)
StaleInv ==
    /\ forced_mode = "None" /\ sub = <<>>
    /\ silk.src = "stale" => prev_enc_mode = "CeltOnly"
    /\ SilkRestartsAfterCelt

LEMMA StaleInit == Init => StaleInv
  BY DEF Init, StaleInv, SilkRestartsAfterCelt, AudioFrames, NoPacket

LEMMA StaleFrame ==
    ASSUME Inv, StaleInv, NEW mode \in Modes, NEW units, NEW f,
           Tells(f, mode, units)
    PROVE  f.data = "audio" /\ f.src = "stale" => f.restart
<1>1. f.data = "audio" =>
        /\ f.src = IF mode = "CeltOnly" THEN "follows" ELSE silk.src
        /\ f.restart = (mode # "CeltOnly" /\ Restarts)
  BY DEF Tells, AudioFrame
<1> QED BY <1>1 DEF StaleInv, Restarts

LEMMA StaleCoded ==
    ASSUME Inv, StaleInv, NEW mode, NEW units, NEW n, NEW busted, NEW full,
           CodeFrame(mode, units, n, busted, full)
    PROVE  (silk.src = "stale" => prev_enc_mode = "CeltOnly")'
<1>1. silk \in [initialized : BOOLEAN, fs : {0, 8, 12, 16},
                units : {0, 4, 8, 16, 24}, lbrr : BOOLEAN, src : Sources]
  BY DEF Inv, TypeOK
<1>2. CASE DropFec(mode)
  BY <1>1, <1>2 DEF DropFec, StaleInv
<1>3. CASE CodeCelt
  BY <1>3 DEF CodeCelt
<1>4. CASE RejectSilk(mode, units)
  BY <1>1, <1>4 DEF RejectSilk, StaleInv
<1>5. CASE CodeSilk(mode, units, busted, full)
  BY <1>5 DEF CodeSilk
<1> QED BY <1>2, <1>3, <1>4, <1>5 DEF CodeFrame

LEMMA StaleNext ==
    ASSUME FrameSizes \subseteq {1, 2, 4, 8}, Inv, StaleInv, [Next]_vars
    PROVE  StaleInv'
<1>1. CASE UNCHANGED vars
  BY <1>1 DEF vars, callVars, StaleInv, SilkRestartsAfterCelt, AudioFrames
<1>2. ASSUME NEW s \in AllSettings, Set(s) PROVE StaleInv'
  BY <1>2 DEF Set, callVars, StaleInv, SilkRestartsAfterCelt, AudioFrames
<1>3. CASE EnableHybridMode
  BY <1>3 DEF EnableHybridMode, callVars, StaleInv, SilkRestartsAfterCelt,
              AudioFrames, Inv, TypeOK
<1>4. ASSUME NEW units, NEW buf,
             NEW busted \in BOOLEAN, NEW full \in BOOLEAN,
             Encode(units, buf, busted, full)
      PROVE  StaleInv'
  <2>1. /\ forced_mode' = "None" /\ sub' = <<>>
        /\ (silk.src = "stale" => prev_enc_mode = "CeltOnly")'
    BY <1>4, StaleCoded DEF Encode, callVars, StaleInv
  <2>2. CASE packet' = NoPacket
    BY <2>1, <2>2 DEF StaleInv, SilkRestartsAfterCelt, AudioFrames, NoPacket
  <2>3. ASSUME NEW mode \in Modes, NEW f \in FrameRecords,
               packet' = [toc |-> f.toc, frames |-> <<f>>, units |-> units],
               Tells(f, mode, units)
        PROVE  StaleInv'
    <3>1. f.data = "audio" /\ f.src = "stale" => f.restart
      BY <2>3, StaleFrame
    <3>2. packet'.frames = <<f>>
      BY <2>3
    <3>3. SilkRestartsAfterCelt'
      BY <3>1, <3>2 DEF SilkRestartsAfterCelt, AudioFrames
    <3> QED BY <2>1, <3>3 DEF StaleInv
  <2> QED BY <1>4, <2>2, <2>3, EncodeEffect
<1>5. \A units \in FrameSizes : \A buf : ~Split(units, buf)
  BY DEF Split, Splits
<1>6. \A busted, full : ~EncodeSub(busted, full)
  BY DEF EncodeSub, StaleInv
<1>7. \A fits : ~Join(fits)
  BY DEF Join, StaleInv
<1>8. CASE Next
  <2>1. {FALSE, MayBust} \subseteq BOOLEAN
    BY ConstantsAssumption
  <2> QED BY <1>2, <1>3, <1>4, <1>5, <1>6, <1>7, <1>8, <2>1 DEF Next
<1> QED BY <1>1, <1>8

\* Re-entering SILK or Hybrid from CELT restarts the SILK encoder, however
\* the mode, the settings and the budget change in between, as long as the
\* caller encodes frames of up to 20 ms.
THEOREM RestartsAfterCelt ==
    FrameSizes \subseteq {1, 2, 4, 8} => (Spec => []SilkRestartsAfterCelt)
<1> SUFFICES ASSUME FrameSizes \subseteq {1, 2, 4, 8}
             PROVE  Spec => []SilkRestartsAfterCelt
  OBVIOUS
<1>1. Init => StaleInv
  BY StaleInit
<1>2. Inv /\ StaleInv /\ [Next]_vars => StaleInv'
  BY StaleNext
<1>3. StaleInv => SilkRestartsAfterCelt
  BY DEF StaleInv
<1> QED BY <1>1, <1>2, <1>3, InvariantHolds, PTL DEF Spec

(***************************************************************************)
(* A frame that codes nothing is empty, unless its bytes pass through the  *)
(* repacketizer of a split packet, or it is a busted one of VBR.           *)
(***************************************************************************)
Concealing(f) == f.data \in {"audio", "empty"}

FillerInv ==
    /\ \A i \in 1..Len(sub) : Concealing(sub[i])
    /\ \A i \in 1..Len(packet.frames) : Concealing(packet.frames[i])
    /\ forced_mode # "None" => \E units \in FrameSizes : units > 8

LEMMA Bitrates == \A s \in LegalSettings : s.bitrate \in Nat
<1>1. MaxBitrate \in Int
  BY SMT DEF MaxBitrate
<1>2. 500..MaxBitrate \subseteq Nat
  BY <1>1
<1> QED BY <1>2 DEF LegalSettings

LEMMA MaxOfTwo ==
    ASSUME NEW a \in Int, NEW b \in Int
    PROVE  Max({a, b}) = IF a <= b THEN b ELSE a
<1>1. \E x \in {a, b} : \A y \in {a, b} : y =< x
  OBVIOUS
<1>2. Max({a, b}) \in {a, b} /\ \A y \in {a, b} : y =< Max({a, b})
  BY <1>1 DEF Max
<1> QED BY <1>2

\* What a sub-frame has to go on.
LEMMA SubBudget ==
    ASSUME Inv
    PROVE  /\ Budget(8, 1276) \in 1..1276
           /\ ~settings.cbr => Budget(8, 1276) = 1276
           /\ settings.cbr =>
                Budget(8, 1276) =
                  LET b == ((settings.bitrate * 8) \div 400 + 4) \div 8
                  IN  IF b < 1 THEN 1 ELSE IF b > 1276 THEN 1276 ELSE b
<1> DEFINE b == CbrBytes(8)
<1>1. settings \in LegalSettings
  BY ConstantsAssumption DEF Inv, TypeOK
<1>2. settings.bitrate \in Nat
  BY <1>1, Bitrates
<1>3. b = ((settings.bitrate * 8) \div 400 + 4) \div 8 /\ b \in Int
  BY <1>2 DEF CbrBytes
<1> HIDE DEF b
<1>4. Min({b, 1276}) = IF b <= 1276 THEN b ELSE 1276
  BY <1>3, MinOfTwo, SMT
<1>5. \A x \in Int : Clamp(x, 1, 1276) =
        IF x < 1 THEN 1 ELSE IF x > 1276 THEN 1276 ELSE x
  <2>1. SUFFICES ASSUME NEW x \in Int
                 PROVE  Clamp(x, 1, 1276) =
                          IF x < 1 THEN 1 ELSE IF x > 1276 THEN 1276 ELSE x
    OBVIOUS
  <2>2. Min({x, 1276}) = IF x <= 1276 THEN x ELSE 1276
    BY MinOfTwo, SMT
  <2>3. Max({1, Min({x, 1276})}) =
          IF 1 <= Min({x, 1276}) THEN Min({x, 1276}) ELSE 1
    BY <2>2, MaxOfTwo, SMT
  <2> QED BY <2>2, <2>3, SMT DEF Clamp
<1>6. Budget(8, 1276) = Clamp(IF settings.cbr THEN Min({b, 1276}) ELSE 1276,
                              1, 1276)
  BY SMT DEF Budget, b
<1> QED BY <1>3, <1>4, <1>5, <1>6, SMT

\* A CBR sub-frame of the rates asked for is coded, or empty.
LEMMA SubStarves ==
    ASSUME Inv, settings.cbr, settings.bitrate \notin 600..1199
    PROVE  Starved(8, Budget(8, 1276)) => Budget(8, 1276) <= 1
<1>1. settings.bitrate \in Nat
  BY ConstantsAssumption, Bitrates DEF Inv, TypeOK
<1>2. CASE settings.bitrate < 600
  <2>1. (settings.bitrate * 8) \div 400 < 12
    BY <1>1, <1>2, SMT
  <2>2. ((settings.bitrate * 8) \div 400 + 4) \div 8 <= 1
    BY <1>1, <2>1, SMT
  <2> QED BY <1>1, <2>2, SubBudget, SMT
<1>3. CASE settings.bitrate >= 1200
  <2>1. (settings.bitrate * 8) \div 400 >= 24
    BY <1>1, <1>3, SMT
  <2>2. ((settings.bitrate * 8) \div 400 + 4) \div 8 >= 3
    BY <1>1, <2>1, SMT
  <2>3. Budget(8, 1276) >= 3
    BY <1>1, <2>2, SubBudget, SMT
  <2> QED BY <1>1, <1>3, <2>3, SubBudget, FrameRateValues, SMT DEF Starved
<1> QED BY <1>1, <1>2, <1>3, SMTT(60)

\* A frame codes audio or is empty, but for the two cases.
LEMMA FrameConceals ==
    ASSUME NEW mode \in Modes, NEW units, Supported(mode, units), NEW n,
           NEW busted \in BOOLEAN,
           busted => settings.cbr,
           forced_mode # "None" /\ settings.cbr /\ n > 1 =>
              ~busted /\ ~Starved(units, n)
    PROVE  /\ Len(Frames(mode, units, n, busted)) = 1
           /\ Concealing(Frames(mode, units, n, busted)[1])
<1> DEFINE plain == GenToc(mode, FrameRate(units), FrameBandwidth(mode, units),
                           Channels)
<1>1. CASE Starved(units, n)
  <2>1. StarvedFrames(mode, units, n) =
          [i \in 1..1 |-> Filler(StarvedToc(mode, units, n), mode, n)]
    BY StarvedConfigs DEF StarvedFrames
  <2>2. Frames(mode, units, n, busted) =
          <<Filler(StarvedToc(mode, units, n), mode, n)>>
    BY <1>1, <2>1, Singleton DEF Frames
  <2>3. Filler(StarvedToc(mode, units, n), mode, n).data = "empty"
    BY <1>1 DEF Filler
  <2> QED BY <2>2, <2>3 DEF Concealing
<1>2. CASE ~Starved(units, n) /\ busted
  <2>1. Frames(mode, units, n, busted) = <<Filler(plain, mode, n)>>
    BY <1>2 DEF Frames, BustedFrame
  <2>2. Filler(plain, mode, n).data = "empty"
    BY <1>2 DEF Filler
  <2> QED BY <2>1, <2>2 DEF Concealing
<1>3. CASE ~Starved(units, n) /\ ~busted
  <2>1. Frames(mode, units, n, busted) = <<AudioFrame(plain, mode, units)>>
    BY <1>3 DEF Frames
  <2>2. AudioFrame(plain, mode, units).data = "audio"
    BY DEF AudioFrame
  <2> QED BY <2>1, <2>2 DEF Concealing
<1> QED BY <1>1, <1>2, <1>3

LEMMA FillerInit == Init => FillerInv
  BY DEF Init, FillerInv, NoPacket

LEMMA FillerEncode ==
    ASSUME FillersSound, Inv, FillerInv, NEW units \in FrameSizes,
           NEW buf \in Buffers, NEW busted \in {FALSE, MayBust},
           NEW full \in BOOLEAN, Encode(units, buf, busted, full)
    PROVE  FillerInv'
<1> DEFINE n == Budget(units, buf)
           mode == Mode(units, n)
<1>1. /\ forced_mode = "None" /\ sub' = sub /\ forced_mode' = forced_mode
      /\ packet' = IF Fails(mode, units, n) THEN NoPacket
                   ELSE [toc |-> Frames(mode, units, n, busted)[1].toc,
                         frames |-> Frames(mode, units, n, busted),
                         units |-> units]
  BY DEF Encode, callVars
<1>2. mode \in Modes
  BY <1>1, IdleMode
<1>3. busted \in BOOLEAN /\ settings \in AllSettings
  BY ConstantsAssumption DEF Inv, TypeOK
<1> HIDE DEF mode
<1>4. CASE Fails(mode, units, n)
  BY <1>1, <1>4 DEF FillerInv, NoPacket
<1>5. CASE ~Fails(mode, units, n)
  <2>1. Supported(mode, units)
    BY <1>5 DEF Fails
  <2>2. CASE ~MayBust \/ settings.cbr
    <3>1. busted => settings.cbr
      BY <2>2
    <3>2. /\ Len(Frames(mode, units, n, busted)) = 1
          /\ Concealing(Frames(mode, units, n, busted)[1])
      BY <1>1, <1>2, <1>3, <2>1, <3>1, FrameConceals
    <3>3. packet'.frames = Frames(mode, units, n, busted)
      BY <1>1, <1>5
    <3>4. \A i \in 1..Len(packet'.frames) : Concealing(packet'.frames[i])
      <4>1. \A i \in 1..1 : i = 1
        OBVIOUS
      <4> QED BY <3>2, <3>3, <4>1
    <3> QED BY <1>1, <3>4 DEF FillerInv
  <2> QED BY <1>3, <2>2 DEF FillersSound
<1> QED BY <1>4, <1>5

LEMMA FillerSub ==
    ASSUME FillersSound, Inv, FillerInv, NEW busted \in {FALSE, MayBust},
           NEW full \in BOOLEAN, EncodeSub(busted, full)
    PROVE  FillerInv'
<1> DEFINE n == Budget(8, 1276)
           f == Frames(SubMode, 8, n, busted)[1]
<1>1. /\ forced_mode # "None"
      /\ IF Fails(SubMode, 8, n)
         THEN EndCall /\ packet' = NoPacket
         ELSE /\ sub' = Append(sub, f)
              /\ forced_mode' = forced_mode
              /\ call' = call /\ packet' = packet
  BY DEF EncodeSub, SubMode
<1>2. CASE Fails(SubMode, 8, n)
  BY <1>1, <1>2 DEF EndCall, FillerInv, NoPacket
<1>3. CASE ~Fails(SubMode, 8, n)
  <2>1. /\ ~MayBust
        /\ \A s \in AllSettings : s.cbr => s.bitrate \notin 600..1199
    <3>1. PICK units \in FrameSizes : units > 8
      BY <1>1 DEF FillerInv
    <3>2. units \notin {1, 2, 4, 8}
      BY <3>1
    <3> QED BY <3>2 DEF FillersSound
  <2>2. busted = FALSE /\ settings \in AllSettings
    BY <2>1, ConstantsAssumption, ZenonT(60) DEF Inv, TypeOK
  <2>3. settings.cbr /\ n > 1 => ~Starved(8, n)
    <3>1. settings.cbr => (Starved(8, n) => n <= 1)
      BY <2>1, <2>2, SubStarves
    <3>2. n \in Int
      BY SubBudget, SMTT(60)
    <3> HIDE DEF n
    <3> QED BY <3>1, <3>2
  <2>4. SubMode \in Modes /\ Supported(SubMode, 8)
    BY <1>1, SubModeFacts
  <2> HIDE DEF n
  <2>5. Concealing(f)
    BY <2>2, <2>3, <2>4, FrameConceals
  <2> HIDE DEF f
  <2>6. \A i \in 1..Len(sub') : Concealing(sub'[i])
    <3>1. sub \in Seq(FrameRecords) /\ sub' = Append(sub, f)
      BY <1>1, <1>3 DEF Inv, TypeOK
    <3>2. /\ Len(sub') = Len(sub) + 1 /\ Len(sub) \in Nat
          /\ sub'[Len(sub) + 1] = f
          /\ \A i \in 1..Len(sub) : sub'[i] = sub[i]
      BY <3>1
    <3>3. SUFFICES ASSUME NEW i \in 1..Len(sub') PROVE Concealing(sub'[i])
      OBVIOUS
    <3>4. CASE i = Len(sub) + 1
      BY <2>5, <3>2, <3>4
    <3>5. CASE i # Len(sub) + 1
      <4>1. i \in 1..Len(sub)
        BY <3>2, <3>5
      <4> QED BY <3>2, <4>1 DEF FillerInv
    <3> QED BY <3>4, <3>5
  <2> QED BY <1>1, <1>3, <2>6 DEF FillerInv
<1> QED BY <1>2, <1>3

LEMMA FillerNext ==
    FillersSound /\ Inv /\ FillerInv /\ [Next]_vars => FillerInv'
<1> SUFFICES ASSUME FillersSound, Inv, FillerInv, [Next]_vars
             PROVE  FillerInv'
  OBVIOUS
<1>1. CASE UNCHANGED vars
  BY <1>1 DEF vars, callVars, FillerInv
<1>2. ASSUME NEW s \in AllSettings, Set(s) PROVE FillerInv'
  BY <1>2 DEF Set, callVars, FillerInv
<1>3. CASE EnableHybridMode
  BY <1>3 DEF EnableHybridMode, callVars, FillerInv
<1>4. ASSUME NEW units \in FrameSizes, NEW buf, Split(units, buf)
      PROVE  FillerInv'
  <2>1. units > 8 /\ sub' = <<>> /\ packet' = packet
    BY <1>4 DEF Split, Splits
  <2> QED BY <2>1 DEF FillerInv
<1>5. ASSUME NEW fits \in BOOLEAN, Join(fits) PROVE FillerInv'
  <2>1. /\ forced_mode' = "None" /\ sub' = <<>>
        /\ packet' = IF fits THEN [toc |-> sub[1].toc, frames |-> sub,
                                   units |-> call.units] ELSE NoPacket
    BY <1>5 DEF Join, EndCall
  <2>2. packet'.frames \in {sub, <<>>}
    BY <2>1 DEF NoPacket
  <2> QED BY <2>1, <2>2 DEF FillerInv
<1>6. CASE Next
  BY <1>2, <1>3, <1>4, <1>5, <1>6, FillerEncode, FillerSub DEF Next
<1> QED BY <1>1, <1>6

\* Under the condition FillersSound no packet that codes nothing holds bytes
\* that a decoder would take for a frame.
THEOREM FillersAreConcealed == Spec => []FillersConceal
<1>1. FillersSound => (Init => FillerInv)
  BY FillerInit
<1>2. FillersSound => (Inv /\ FillerInv /\ [Next]_vars => FillerInv')
  BY FillerNext
<1>3. Inv /\ FillerInv => FillersConceal
  BY DEF Inv, TypeOK, FillerInv, FillersConceal, FillersAlwaysConceal, Concealing
<1>4. CASE FillersSound
  BY <1>1, <1>2, <1>3, <1>4, InvariantHolds, PTL DEF Spec
<1>5. CASE ~FillersSound
  <2>1. FillersConceal
    BY <1>5 DEF FillersConceal
  <2> QED BY <2>1, PTL
<1> QED BY <1>4, <1>5

(***************************************************************************)
(* Whatever the audio and the budget did to the frames of a call, what the *)
(* encoder remembers of it makes the same call choose the same mode: the   *)
(* hysteresis only widens the side of the threshold it is on.              *)
(***************************************************************************)
\* A call's mode, as a function of its settings and of what is remembered.
EquivRateOf(s, units) ==
    LET rate == FrameRate(units)
        framed == s.bitrate - (IF rate > 50
                               THEN (40 * Channels + 20) * (rate - 50) ELSE 0)
        coded == IF s.cbr THEN framed - framed \div 12 ELSE framed
        complex == (coded * (90 + Complexity)) \div 100
    IN  complex - (complex * s.loss) \div (12 * s.loss + 20)

ThresholdBase ==
    LET voice_est == IF Application = "Voip" THEN 115 ELSE 48
        diff == (IF Channels = 1 THEN 64000 ELSE 44000) - 10000
    IN  10000 + (voice_est * voice_est * diff) \div 16384
          + (IF Application = "Voip" THEN 8000 ELSE 0)
ThresholdAfter(prev) ==
    ThresholdBase + (CASE prev = "None" -> 0
                       [] prev = "CeltOnly" -> -4000
                       [] OTHER -> 4000)

BudgetOf(s, units, buf) ==
    Clamp(IF s.cbr THEN Min({((s.bitrate * units) \div 400 + 4) \div 8, buf})
          ELSE buf, 1, 1276)

CeltAnyway(s, units, buf) ==
    \/ TinyBudget(units, BudgetOf(s, units, buf))
    \/ Application = "RestrictedLowDelay"
CeltByRate(s, units, prev) ==
    EquivRateOf(s, units) >= ThresholdAfter(prev) /\ SamplingRate >= 24

CallMode(s, units, buf, prev) ==
    IF CeltAnyway(s, units, buf) \/ CeltByRate(s, units, prev)
    THEN "CeltOnly"
    ELSE IF bandwidth >= SWB THEN "Hybrid" ELSE "SilkOnly"

Calls == [settings : AllSettings, units : FrameSizes, buf : Buffers,
          mode : Modes]

SettleInv ==
    /\ last = NoLast \/
         /\ last \in Calls
         /\ CallMode(last.settings, last.units, last.buf, prev_enc_mode)
              = last.mode
    /\ forced_mode # "None" =>
         /\ call.units \in FrameSizes /\ call.buf \in Buffers
         /\ CallMode(settings, call.units, call.buf, prev_enc_mode)
              = forced_mode
         /\ sub # <<>> => last = [settings |-> settings, units |-> call.units,
                                  buf |-> call.buf, mode |-> forced_mode]

\* Quotients and products of natural numbers.
LEMMA Quotients ==
    ASSUME NEW a \in Nat, NEW b \in Nat, NEW c \in Nat \ {0}
    PROVE  a * b \in Nat /\ (a * b) \div c \in Nat
<1>1. a * b \in Nat
  BY SMT
<1>2. \A x \in Nat : x \div c \in Nat
  BY SMT
<1> QED BY <1>1, <1>2

\* The equivalent rate is a number, and of long frames no more than the rate.
LEMMA EquivRateFacts ==
    ASSUME NEW s \in LegalSettings, NEW units \in {1, 2, 4, 8, 16, 24}
    PROVE  /\ EquivRateOf(s, units) \in Int
           /\ units >= 8 => EquivRateOf(s, units) <= s.bitrate
<1> DEFINE rate == FrameRate(units)
           framed == s.bitrate - (IF rate > 50
                                  THEN (40 * Channels + 20) * (rate - 50)
                                  ELSE 0)
           coded == IF s.cbr THEN framed - framed \div 12 ELSE framed
           share == 90 + Complexity
           complex == (coded * share) \div 100
           loss == (complex * s.loss) \div (12 * s.loss + 20)
<1>1. EquivRateOf(s, units) = complex - loss
  BY Zenon DEF EquivRateOf
<1>2. s.bitrate \in Nat /\ s.loss \in 0..100
  BY Bitrates, SMT DEF LegalSettings
<1>3. /\ rate \in {400, 200, 100, 50, 25, 16}
      /\ units >= 8 => rate <= 50
  BY FrameRateValues
<1>4. /\ Channels \in {1, 2} /\ share \in 90..100
  BY ConstantsAssumption
<1> HIDE DEF rate, share
<1>5. /\ framed \in Int
      /\ units >= 8 => framed = s.bitrate
  BY <1>2, <1>3, <1>4
<1> HIDE DEF framed
<1>6. /\ coded \in Int
      /\ units >= 8 => coded \in Nat /\ coded <= s.bitrate
  BY <1>2, <1>5
<1> HIDE DEF coded
<1>7. /\ complex \in Int
      /\ units >= 8 => complex \in Nat /\ complex <= s.bitrate
  <2>1. \A x \in Int : x * share \in Int
    BY <1>4
  <2>2. \A x \in Int : x \div 100 \in Int
    BY SMT
  <2>3. complex \in Int
    BY <1>6, <2>1, <2>2
  <2>4. ASSUME units >= 8 PROVE complex \in Nat /\ complex <= s.bitrate
    <3> DEFINE product == coded * share
    <3>1. coded \in Nat /\ coded <= s.bitrate
      BY <1>6, <2>4
    <3>2. product \in Nat /\ product <= 100 * coded
      BY <1>4, <3>1, SMT
    <3> HIDE DEF product
    <3>3. product \div 100 \in Nat /\ product \div 100 <= coded
      BY <3>1, <3>2, SMT
    <3>4. complex = product \div 100
      BY DEF product
    <3> QED BY <1>2, <3>1, <3>3, <3>4
  <2> QED BY <2>3, <2>4
<1> HIDE DEF complex
<1>8. /\ loss \in Int
      /\ complex \in Nat => loss \in Nat
  <2> DEFINE d == 12 * s.loss + 20
  <2>1. d \in Nat \ {0} /\ s.loss \in Nat
    BY <1>2
  <2>2. \A x \in Int : x * s.loss \in Int
    BY <2>1
  <2> HIDE DEF d
  <2>3. \A x \in Int : x \div d \in Int
    BY <2>1, SMT
  <2>4. loss = (complex * s.loss) \div d
    BY DEF d
  <2>5. loss \in Int
    BY <1>7, <2>2, <2>3, <2>4
  <2>6. complex \in Nat => loss \in Nat
    BY <2>1, <2>4, Quotients
  <2> QED BY <2>5, <2>6
<1> HIDE DEF loss
<1> QED BY <1>1, <1>2, <1>7, <1>8

LEMMA ThresholdFacts == ThresholdBase \in Int /\ ThresholdBase >= 14000
<1>1. Channels \in {1, 2}
  BY ConstantsAssumption
<1> QED BY <1>1, SMT DEF ThresholdBase

\* The hysteresis.
LEMMA ThresholdValues ==
    /\ ThresholdAfter("CeltOnly") = ThresholdBase - 4000
    /\ \A p : p # "None" /\ p # "CeltOnly" =>
           ThresholdAfter(p) = ThresholdBase + 4000
    /\ \A p : ThresholdAfter(p) \in ThresholdBase - 4000..ThresholdBase + 4000
<1> DEFINE swing(p) == CASE p = "None" -> 0
                         [] p = "CeltOnly" -> -4000
                         [] OTHER -> 4000
<1>1. "CeltOnly" # "None"
  OBVIOUS
<1>2. swing("CeltOnly") = -4000
  BY <1>1, SMT
<1>3. \A p : p # "None" /\ p # "CeltOnly" => swing(p) = 4000
  BY SMT
<1>4. swing("None") = 0
  BY <1>1, SMT
<1>5. \A p : swing(p) \in -4000..4000
  BY <1>2, <1>3, <1>4
<1>6. \A p : ThresholdAfter(p) = ThresholdBase + swing(p)
  BY SMT DEF ThresholdAfter
<1>7. ThresholdBase \in Int
  BY ThresholdFacts
<1>8. \A p : swing(p) \in Int
  BY <1>5
<1> HIDE DEF swing
<1>9. ThresholdAfter("CeltOnly") = ThresholdBase - 4000
  BY <1>2, <1>6, <1>7
<1>10. \A p : p # "None" /\ p # "CeltOnly" =>
           ThresholdAfter(p) = ThresholdBase + 4000
  BY <1>3, <1>6
<1>11. \A p : ThresholdAfter(p) \in ThresholdBase - 4000..ThresholdBase + 4000
  <2>1. SUFFICES ASSUME NEW p
                 PROVE  ThresholdAfter(p)
                          \in ThresholdBase - 4000..ThresholdBase + 4000
    OBVIOUS
  <2> DEFINE x == swing(p)
  <2>2. x \in -4000..4000
    BY <1>5
  <2>3. ThresholdAfter(p) = ThresholdBase + x
    BY <1>6, Zenon
  <2> HIDE DEF x
  <2> QED BY <1>7, <2>2, <2>3, SMT
<1> QED BY <1>9, <1>10, <1>11, SMT

\* The model's definitions are these of the settings of the day.
LEMMA CallModes ==
    ASSUME Inv, forced_mode = "None", NEW units, NEW buf
    PROVE  /\ Budget(units, buf) = BudgetOf(settings, units, buf)
           /\ Mode(units, Budget(units, buf)) =
                CallMode(settings, units, buf, prev_enc_mode)
<1>1. EquivRate(units) = EquivRateOf(settings, units)
  BY Zenon DEF EquivRate, EquivRateOf
<1>2. Budget(units, buf) = BudgetOf(settings, units, buf)
  BY Zenon DEF Budget, BudgetOf, CbrBytes
<1>3. ThresholdBase \in Int
  BY ThresholdFacts
<1>4. ModeThreshold = ThresholdAfter(prev_enc_mode)
  <2> DEFINE base == 10000
              + ((IF Application = "Voip" THEN 115 ELSE 48)
                  * (IF Application = "Voip" THEN 115 ELSE 48)
                  * ((IF Channels = 1 THEN 64000 ELSE 44000) - 10000)) \div 16384
              + (IF Application = "Voip" THEN 8000 ELSE 0)
  <2>1. ThresholdBase = base
    BY SMT DEF ThresholdBase
  <2>2. ModeThreshold = base + ModeHysteresis
    BY SMT DEF ModeThreshold
  <2> HIDE DEF base
  <2>3. ThresholdAfter(prev_enc_mode) = ThresholdBase + ModeHysteresis
    BY SMT DEF ThresholdAfter, ModeHysteresis
  <2> QED BY <2>1, <2>2, <2>3
<1> DEFINE n == Budget(units, buf)
<1>5. Mode(units, n) = IF TinyBudget(units, n) THEN "CeltOnly" ELSE SelectedMode(units)
  BY DEF Mode
<1>6. SelectedMode(units) =
        IF Application = "RestrictedLowDelay" THEN "CeltOnly"
        ELSE IF EquivRateOf(settings, units) >= ThresholdAfter(prev_enc_mode)
                /\ SamplingRate >= 24
             THEN "CeltOnly"
        ELSE IF bandwidth >= SWB THEN "Hybrid" ELSE "SilkOnly"
  BY <1>1, <1>4, Zenon DEF SelectedMode
<1> QED BY <1>2, <1>5, <1>6, Zenon DEF CallMode, CeltAnyway, CeltByRate

\* What is remembered of a mode keeps it chosen.
LEMMA ModeStays ==
    ASSUME NEW s \in LegalSettings, NEW units \in {1, 2, 4, 8, 16, 24}, NEW buf,
           NEW prev, NEW mode \in Modes,
           CallMode(s, units, buf, prev) = mode
    PROVE  CallMode(s, units, buf, mode) = mode
<1> DEFINE E == EquivRateOf(s, units)
           Forced == CeltAnyway(s, units, buf)
           High(p) == CeltByRate(s, units, p)
           low == IF bandwidth >= SWB THEN "Hybrid" ELSE "SilkOnly"
<1>1. \A p : CallMode(s, units, buf, p) =
               IF Forced \/ High(p) THEN "CeltOnly" ELSE low
  BY DEF CallMode
<1>2. E \in Int
  BY EquivRateFacts
<1>3. ThresholdBase \in Int
  BY ThresholdFacts
<1>4. \A p : ThresholdAfter(p) \in ThresholdBase - 4000..ThresholdBase + 4000
  BY ThresholdValues
<1>5. ThresholdAfter("CeltOnly") = ThresholdBase - 4000
  BY ThresholdValues
<1>6. mode # "CeltOnly" => ThresholdAfter(mode) = ThresholdBase + 4000
  BY ThresholdValues DEF Modes
<1>7. low \in {"Hybrid", "SilkOnly"}
  OBVIOUS
<1>8. mode = "CeltOnly" /\ High(prev) => High(mode)
  <2>1. CeltByRate(s, units, prev) => EquivRateOf(s, units) >= ThresholdBase - 4000
    BY <1>2, <1>3, <1>4, SMT DEF CeltByRate
  <2> QED BY <1>5, <2>1, SMT DEF CeltByRate
<1>9. mode # "CeltOnly" /\ High(mode) => High(prev)
  <2>1. mode # "CeltOnly" /\ CeltByRate(s, units, mode)
          => EquivRateOf(s, units) >= ThresholdBase + 4000
    BY <1>6, SMT DEF CeltByRate
  <2>2. EquivRateOf(s, units) >= ThresholdBase + 4000
          => EquivRateOf(s, units) >= ThresholdAfter(prev)
    BY <1>2, <1>3, <1>4, SMT
  <2> QED BY <2>1, <2>2, SMT DEF CeltByRate
<1> HIDE DEF Forced, High, low
<1>10. CASE mode = "CeltOnly"
  <2>1. Forced \/ High(prev)
    BY <1>1, <1>7, <1>10
  <2> QED BY <1>1, <1>8, <1>10, <2>1
<1>11. CASE mode # "CeltOnly"
  <2>1. ~Forced /\ ~High(prev) /\ low = mode
    BY <1>1, <1>11
  <2> QED BY <1>1, <1>9, <1>11, <2>1
<1> QED BY <1>10, <1>11

\* A frame leaves its mode behind, or nothing.
LEMMA Remembered ==
    ASSUME NEW mode, NEW units, NEW n, NEW busted, NEW full,
           CodeFrame(mode, units, n, busted, full)
    PROVE  prev_enc_mode' \in {prev_enc_mode, mode}
<1>1. CASE DropFec(mode)
  BY <1>1 DEF DropFec
<1>2. CASE mode = "CeltOnly" /\ CodeCelt
  BY <1>2 DEF CodeCelt
<1>3. CASE RejectSilk(mode, units)
  BY <1>3 DEF RejectSilk
<1>4. CASE CodeSilk(mode, units, busted, full)
  BY <1>4 DEF CodeSilk
<1> QED BY <1>1, <1>2, <1>3, <1>4 DEF CodeFrame

\* A sub-frame may have too little for SILK, and is then coded by CELT: of a
\* rate that is far below any threshold.
LEMMA PoorSub ==
    ASSUME Inv, forced_mode = "Hybrid", SubMode # "Hybrid"
    PROVE  SubMode = "CeltOnly" /\ settings.bitrate <= 6000
<1>1. TinyBudget(8, Budget(8, 1276)) /\ SubMode = "CeltOnly"
  BY DEF SubMode, Mode, SelectedMode
<1>2. Budget(8, 1276) * 3200 < 6000 * 8
  BY <1>1, FrameRateValues DEF TinyBudget
<1>3. Budget(8, 1276) \in Int /\ Budget(8, 1276) < 15
  BY <1>2, SubBudget, SMT
<1>4. settings.cbr /\ settings.bitrate \in Nat
  BY <1>3, SubBudget, ConstantsAssumption, Bitrates, SMT DEF Inv, TypeOK
<1>5. ((settings.bitrate * 8) \div 400 + 4) \div 8 < 15
  BY <1>3, <1>4, SubBudget, SMT
<1>6. settings.bitrate <= 6000
  <2> DEFINE b == (settings.bitrate * 8) \div 400
  <2>1. b \in Int /\ b < 116
    BY <1>4, <1>5, SMT
  <2> QED BY <1>4, <2>1, SMT
<1> QED BY <1>1, <1>6

LEMMA PoorStays ==
    ASSUME NEW s \in LegalSettings, NEW units \in {16, 24}, NEW buf, NEW prev,
           s.bitrate <= 6000,
           CallMode(s, units, buf, prev) = "Hybrid"
    PROVE  \A other : CallMode(s, units, buf, other) = "Hybrid"
<1>1. EquivRateOf(s, units) \in Int /\ EquivRateOf(s, units) <= 6000
  BY EquivRateFacts, Bitrates
<1>2. ThresholdBase \in Int /\ ThresholdBase >= 14000
  BY ThresholdFacts
<1>3. \A p : ThresholdAfter(p) \in Int /\ ThresholdAfter(p) >= 6001
  BY <1>2, ThresholdValues
<1>4. \A p : ~(EquivRateOf(s, units) >= ThresholdAfter(p))
  BY <1>1, <1>3
<1>5. \A p : ~CeltByRate(s, units, p)
  BY <1>4 DEF CeltByRate
<1> QED BY <1>5 DEF CallMode

LEMMA SettleInit == Init => SettleInv
  BY DEF Init, SettleInv

\* Steps that code nothing.
LEMMA SettleSame ==
    ASSUME SettleInv,
           last' = last, prev_enc_mode' = prev_enc_mode, forced_mode' = forced_mode,
           \/ forced_mode = "None"
           \/ settings' = settings /\ call' = call /\ sub' = sub
    PROVE  SettleInv'
  BY DEF SettleInv

LEMMA SettingsLegal == Inv => settings \in AllSettings /\ settings \in LegalSettings
  BY ConstantsAssumption DEF Inv, TypeOK

\* What the last call's mode says of the next one.
LEMMA LastCall ==
    ASSUME SettleInv, NEW s \in LegalSettings, NEW units, NEW buf,
           last.settings = s, last.units = units, last.buf = buf
    PROVE  last.mode = CallMode(s, units, buf, prev_enc_mode)
<1>1. s.bitrate # 0
  <2>1. s.bitrate \in 500..MaxBitrate
    BY DEF LegalSettings
  <2>2. MaxBitrate \in Int
    BY SMT DEF MaxBitrate
  <2> QED BY <2>1, <2>2, SMT
<1>2. last # NoLast
  BY <1>1 DEF NoLast, NoSettings
<1> QED BY <1>2 DEF SettleInv

LEMMA SettleEncode ==
    ASSUME Inv, SettleInv, NEW units \in FrameSizes, NEW buf \in Buffers,
           NEW busted, NEW full, Encode(units, buf, busted, full)
    PROVE  SettleInv' /\ (SameCall => last'.mode = last.mode)
<1> DEFINE n == Budget(units, buf)
           mode == Mode(units, n)
<1>1. /\ forced_mode = "None"
      /\ CodeFrame(mode, units, n, busted, full)
      /\ last' = [settings |-> settings, units |-> units, buf |-> buf,
                  mode |-> mode]
      /\ forced_mode' = "None"
  BY DEF Encode, callVars
<1>2. mode \in Modes
  BY <1>1, IdleMode
<1>3. CallMode(settings, units, buf, prev_enc_mode) = mode
  BY <1>1, CallModes
<1> HIDE DEF n, mode
<1>4. settings \in AllSettings /\ settings \in LegalSettings
  BY SettingsLegal
<1>5. units \in {1, 2, 4, 8, 16, 24}
  BY ConstantsAssumption
<1>6. CallMode(settings, units, buf, mode) = mode
  BY <1>2, <1>3, <1>4, <1>5, ModeStays
<1>7. prev_enc_mode' \in {prev_enc_mode, mode}
  BY <1>1, Remembered
<1>8. last' \in Calls
  BY <1>1, <1>2, <1>4 DEF Calls
<1>9. SettleInv'
  BY <1>1, <1>3, <1>6, <1>7, <1>8 DEF SettleInv
<1>10. SameCall => last'.mode = last.mode
  BY <1>1, <1>3, <1>4, LastCall DEF SameCall
<1> QED BY <1>9, <1>10

LEMMA SettleSplit ==
    ASSUME Inv, SettleInv, NEW units \in FrameSizes, NEW buf \in Buffers,
           Split(units, buf)
    PROVE  SettleInv' /\ (SameCall => last'.mode = last.mode)
<1> DEFINE mode == Mode(units, Budget(units, buf))
<1>1. /\ forced_mode = "None" /\ forced_mode' = mode
      /\ call' = [units |-> units, buf |-> buf] /\ sub' = <<>>
      /\ settings' = settings /\ prev_enc_mode' = prev_enc_mode
      /\ last' = last
  BY DEF Split, Splits
<1>2. CallMode(settings, units, buf, prev_enc_mode) = mode
  BY <1>1, CallModes
<1> HIDE DEF mode
<1> QED BY <1>1, <1>2 DEF SettleInv

LEMMA SettleSub ==
    ASSUME Inv, SettleInv, NEW busted, NEW full, EncodeSub(busted, full)
    PROVE  SettleInv' /\ (SameCall => last'.mode = last.mode)
<1> DEFINE Chosen(prev) ==
             CallMode(settings, call.units, call.buf, prev) = forced_mode
<1>1. /\ forced_mode # "None"
      /\ CodeFrame(SubMode, 8, Budget(8, 1276), busted, full)
      /\ last' = [settings |-> settings, units |-> call.units,
                  buf |-> call.buf, mode |-> forced_mode]
      /\ settings' = settings
      /\ \/ forced_mode' = "None"
         \/ forced_mode' = forced_mode /\ call' = call
  BY DEF EncodeSub, SubMode, EndCall
<1>2. /\ forced_mode \in {"Hybrid", "CeltOnly"} /\ forced_mode \in Modes
      /\ call.units \in {16, 24}
  BY <1>1 DEF Inv, TypeOK, SplitOK, Modes
<1>3. /\ call.units \in FrameSizes /\ call.buf \in Buffers
      /\ Chosen(prev_enc_mode)
  BY <1>1 DEF SettleInv
<1>4. settings \in AllSettings /\ settings \in LegalSettings
  BY SettingsLegal
<1>5. prev_enc_mode' \in {prev_enc_mode, SubMode}
  BY <1>1, Remembered
<1>6. Chosen(SubMode)
  <2>1. CASE SubMode = forced_mode
    <3>1. call.units \in {1, 2, 4, 8, 16, 24}
      BY <1>2
    <3> QED BY <1>2, <1>3, <1>4, <2>1, <3>1, ModeStays
  <2>2. CASE SubMode # forced_mode
    <3>1. forced_mode = "Hybrid"
      BY <1>2, <2>2 DEF SubMode, Mode, SelectedMode
    <3>2. settings.bitrate <= 6000
      BY <2>2, <3>1, PoorSub
    <3> QED BY <1>2, <1>3, <1>4, <3>1, <3>2, PoorStays
  <2> QED BY <2>1, <2>2
<1>7. Chosen(prev_enc_mode')
  BY <1>3, <1>5, <1>6
<1>8. last' \in Calls
  BY <1>1, <1>2, <1>3, <1>4 DEF Calls
<1>9. SettleInv'
  BY <1>1, <1>3, <1>7, <1>8 DEF SettleInv
<1>10. SameCall => last'.mode = last.mode
  BY <1>1, <1>3, <1>4, LastCall DEF SameCall
<1> QED BY <1>9, <1>10

LEMMA SettleJoin ==
    ASSUME Inv, SettleInv, NEW fits, Join(fits)
    PROVE  SettleInv' /\ (SameCall => last'.mode = last.mode)
<1>1. /\ forced_mode # "None" /\ Len(sub) = call.units \div 8
      /\ prev_enc_mode' \in {prev_enc_mode, forced_mode}
      /\ forced_mode' = "None" /\ last' = last
  BY DEF Join, EndCall
<1>2. call.units \in {16, 24} /\ forced_mode \in Modes
  BY <1>1 DEF Inv, TypeOK, SplitOK, Modes
<1>3. sub # <<>>
  BY <1>1, <1>2
<1>4. /\ CallMode(settings, call.units, call.buf, prev_enc_mode) = forced_mode
      /\ last = [settings |-> settings, units |-> call.units,
                 buf |-> call.buf, mode |-> forced_mode]
      /\ last \in Calls
  BY <1>1, <1>2, <1>3, SettingsLegal DEF SettleInv, Calls
<1>5. settings \in LegalSettings /\ call.units \in {1, 2, 4, 8, 16, 24}
  BY <1>2, SettingsLegal
<1>6. CallMode(settings, call.units, call.buf, forced_mode) = forced_mode
  BY <1>2, <1>4, <1>5, ModeStays
<1> QED BY <1>1, <1>4, <1>6 DEF SettleInv

LEMMA SettleNext ==
    ASSUME Inv, SettleInv, [Next]_vars
    PROVE  SettleInv' /\ (SameCall => last'.mode = last.mode)
<1>1. CASE UNCHANGED vars
  BY <1>1, SettleSame DEF vars, callVars
<1>2. ASSUME NEW s, Set(s)
      PROVE  SettleInv' /\ (SameCall => last'.mode = last.mode)
  BY <1>2, SettleSame DEF Set, callVars
<1>3. CASE EnableHybridMode
  BY <1>3, SettleSame DEF EnableHybridMode, callVars
<1>4. CASE Next
  BY <1>2, <1>3, <1>4, SettleEncode, SettleSplit, SettleSub, SettleJoin DEF Next
<1> QED BY <1>1, <1>4

\* The same call, made twice, is coded in the same mode, whichever frames
\* were starved, busted or rejected in between.
THEOREM ModesSettle == Spec => ModeSettles
<1>1. Spec => []Inv /\ [][Next]_vars
  BY InvariantHolds, PTL DEF Spec
<1>2. Init => SettleInv
  BY SettleInit
<1>3. Inv /\ SettleInv /\ [Next]_vars => SettleInv'
  BY SettleNext
<1>4. Inv /\ SettleInv /\ [Next]_vars
        => [SameCall => last'.mode = last.mode]_vars
  BY SettleNext
<1> QED BY <1>1, <1>2, <1>3, <1>4, PTL DEF Spec, ModeSettles
=============================================================================
