---------------------------- MODULE MCOpusEncoder ----------------------------
(* Settings on both sides of the encoder's thresholds, for small instances. *)
EXTENDS OpusEncoder

Vbr(bitrate) == [bitrate |-> bitrate, cbr |-> FALSE, fec |-> FALSE, loss |-> 0]
Cbr(bitrate) == [Vbr(bitrate) EXCEPT !.cbr = TRUE]
Fec(bitrate, loss) == [Vbr(bitrate) EXCEPT !.fec = TRUE, !.loss = loss]

\* From Hybrid's rates, through the hysteresis of the mode, to CELT's; and
\* through the hysteresis of FEC at 5% loss.
Voice == {Vbr(24000), Vbr(62500), Vbr(80000), Cbr(32000),
          Fec(24000, 5), Fec(28500, 5), Fec(32000, 5)}

\* Wideband: too little for any frame, for SILK, for FEC, and enough.
Poor == {Vbr(1000), Cbr(2000), Cbr(16000), Fec(14000, 5), Fec(20000, 5)}

\* Wideband FEC at 20% loss, just above the narrowband threshold.
NarrowFec == {Fec(15000, 20)}

\* FEC in a small buffer, where the copies leave a frame too few bytes.
SmallFec == {Fec(24000, 5)}

\* A CBR rate that leaves a 20 ms frame two bytes.
StarvingCbr == {Cbr(800), Cbr(24000)}
=============================================================================
