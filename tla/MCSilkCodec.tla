---------------------------- MODULE MCSilkCodec ----------------------------
(* The SILK layer on small instances: stereo, packets of 40 ms (two frames, *)
(* so that a frame may follow one with or without LBRR, mid-only or not).   *)
EXTENDS SilkCodec
=============================================================================
