------------------------- MODULE MCPrachThresholds -------------------------
(* PrachThresholds with two or three configurations and two cyclic shifts. *)
EXTENDS PrachThresholds

MCNCSs == {0, 2}
MCOneFormat == {[first |-> 2, last |-> 3]}
MCFormats == {[first |-> 1, last |-> 1], [first |-> 2, last |-> 2]}
=============================================================================
