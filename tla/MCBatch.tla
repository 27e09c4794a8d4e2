------------------------------ MODULE MCBatch -------------------------------
(* An instance of Batch for TLC: keys that are prefixes of each other, and *)
(* the last byte.                                                          *)
EXTENDS Batch, TLC

MCKeys     == {<<0>>, <<0, 0>>, <<0, 1>>, <<1>>, <<1, 1>>}
MCPrefixes == {<<>>, <<0>>, <<0, 0>>, <<1>>, <<1, 1>>}
=============================================================================
