---------------------------- MODULE MCRangeCoder ----------------------------
(* Bytes of 3 bits and a range of 11: the widths of the code, scaled.       *)
EXTENDS RangeCoder

\* A raw run wider than a byte, a likely and an unlikely bit, a table of
\* three symbols, a number whose low bits are raw and one that is coded.
Symbols ==
  {[op |-> "bit", value |-> 0, logp |-> 2], [op |-> "bit", value |-> 1, logp |-> 4],
   [op |-> "icdf", value |-> 1, icdf |-> <<5, 4, 0>>, ftb |-> 3],
   [op |-> "icdf", value |-> 2, icdf |-> <<5, 4, 0>>, ftb |-> 3],
   [op |-> "uint", value |-> 0, ft |-> 5], [op |-> "uint", value |-> 22, ft |-> 23],
   [op |-> "raw", value |-> 5, n |-> 3], [op |-> "raw", value |-> 201, n |-> 8]}

Buffers == {[i \in {} |-> 0], [i \in 0..9 |-> SymMax]}
=============================================================================
