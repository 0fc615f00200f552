------------------------- MODULE MCRecorderJournal -------------------------
(***************************************************************************)
(* Instances of the refinement of Journal for TLC.                         *)
(***************************************************************************)
EXTENDS RecorderJournal, MCRecorder
=============================================================================
