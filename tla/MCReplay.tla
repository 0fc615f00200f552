------------------------------ MODULE MCReplay ------------------------------
(***************************************************************************)
(* Instances of Replay for TLC: a quantity of 15 needs the finer of the    *)
(* two precisions.                                                         *)
(***************************************************************************)
EXTENDS Replay

CONSTANT a

MCPrecisions == {[price |-> 0, qty |-> 0], [price |-> 0, qty |-> 1]}
=============================================================================
