------------------------------- MODULE OpusToc -------------------------------
(***************************************************************************)
(* The first byte of an Opus packet (lib.rs): how the encoder writes it    *)
(* and what the decoder reads from it.  Bit fields are read and written    *)
(* with \div and %.  Durations are counted in units of 2.5 ms.             *)
(* An operator Mut<Name> is <Name> with a slip; nothing here uses it.      *)
(***************************************************************************)
EXTENDS Integers

\* Bandwidths, in the order of bandwidth_fec_index().
NB == 0
MB == 1
WB == 2
SWB == 3
FB == 4
Bandwidths == NB..FB

Modes == {"SilkOnly", "Hybrid", "CeltOnly"}

\* frame_rate_from_params(): frames per second, rounded down for 60 ms.
FrameRate(units) == 400 \div units

FrameRates == {400, 200, 100, 50, 25, 16}

\* gen_toc(): how often a frame rate doubles before it reaches 400.
MutPeriod(rate) == CASE rate = 400 -> 0
                     [] rate = 200 -> 1
                     [] rate = 100 -> 2
                     [] rate = 50 -> 3
                     [] rate = 25 -> 4
                     [] rate = 16 -> 4
Period(rate) == CASE rate = 400 -> 0
                  [] rate = 200 -> 1
                  [] rate = 100 -> 2
                  [] rate = 50 -> 3
                  [] rate = 25 -> 4
                  [] rate = 16 -> 5

\* 10 ms Hybrid frames take the configuration of 20 ms.
MutGenToc(mode, rate, bw, channels) ==
    ((CASE mode = "SilkOnly" -> 32 * bw + 8 * (Period(rate) - 2)
        [] mode = "CeltOnly" -> 128 + (IF bw > MB THEN 32 * (bw - MB) ELSE 0)
                                    + 8 * Period(rate)
        [] mode = "Hybrid" -> (IF bw = SWB THEN 96 ELSE 112)
                                + (IF rate > 100 THEN 0 ELSE 8))
     + (IF channels = 2 THEN 4 ELSE 0)) % 256

\* The result is a u8: a SILK-only ToC above wideband runs into the bits
\* that tell the modes apart.
GenToc(mode, rate, bw, channels) ==
    ((CASE mode = "SilkOnly" -> 32 * bw + 8 * (Period(rate) - 2)
        [] mode = "CeltOnly" -> 128 + (IF bw > MB THEN 32 * (bw - MB) ELSE 0)
                                    + 8 * Period(rate)
        [] mode = "Hybrid" -> (IF bw = SWB THEN 96 ELSE 112)
                                + (IF rate >= 100 THEN 0 ELSE 8))
     + (IF channels = 2 THEN 4 ELSE 0)) % 256

ModeFromToc(toc) == IF toc >= 128 THEN "CeltOnly"
                    ELSE IF toc >= 96 THEN "Hybrid" ELSE "SilkOnly"

ChannelsFromToc(toc) == IF (toc \div 4) % 2 = 1 THEN 2 ELSE 1

BandwidthFromToc(toc) ==
    CASE ModeFromToc(toc) = "SilkOnly" -> toc \div 32
      [] ModeFromToc(toc) = "Hybrid" -> IF toc >= 112 THEN FB ELSE SWB
      [] ModeFromToc(toc) = "CeltOnly" -> (toc \div 32) - 4 + MB

\* frame_samples_from_toc(), in units.
UnitsFromToc(toc) ==
    LET config == (toc \div 8) % 4
    IN  CASE ModeFromToc(toc) = "SilkOnly" -> <<4, 8, 16, 24>>[config + 1]
          [] ModeFromToc(toc) = "Hybrid" -> IF config % 2 = 0 THEN 4 ELSE 8
          [] ModeFromToc(toc) = "CeltOnly" -> <<1, 2, 4, 8>>[config + 1]

\* decode(): the rate in kHz at which the SILK layer is decoded.
SilkRateFromToc(toc) ==
    IF ModeFromToc(toc) = "SilkOnly"
    THEN CASE BandwidthFromToc(toc) = NB -> 8
           [] BandwidthFromToc(toc) = MB -> 12
           [] OTHER -> 16
    ELSE 16

\* celt_end_band_from_toc(): the bands the CELT layer is decoded to.
EndBandFromToc(toc) ==
    CASE ModeFromToc(toc) = "CeltOnly" ->
             <<13, 17, 19, 21>>[BandwidthFromToc(toc) - MB + 1]
      [] ModeFromToc(toc) = "Hybrid" ->
             IF BandwidthFromToc(toc) = SWB THEN 19 ELSE 21
      [] OTHER -> 0
=============================================================================
