---------------------------- MODULE MCOpusDecoder ----------------------------
(* The decoder on small instances: packets of up to three frames, losses of *)
(* up to 32.5 ms (a 20 ms and a 10 ms chunk and one cut short).             *)
EXTENDS OpusDecoder

Losses == {"loss"}
LateRedundancy == {"late"}
=============================================================================
