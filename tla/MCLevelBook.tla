---------------------------- MODULE MCLevelBook ----------------------------
(***************************************************************************)
(* Instances of LevelBook for TLC.  Numbers are multiples of ten, which    *)
(* every precision expresses.  When only quantities have a decimal, an ask *)
(* of 410 (4100 here) with the quantity zero has the digits of an ask of 4 *)
(* with the quantity 1.0, and the checksum cannot tell them apart.         *)
(***************************************************************************)
EXTENDS LevelBook

CONSTANT a

\* The instance satisfies what VerifiedTopAgrees is proved from.
ASSUME MCLevelBookAssumption == CrcDepth <= BookDepth

TwoPrecisions == {[price |-> 1, qty |-> 0], [price |-> 0, qty |-> 1]}
=============================================================================
