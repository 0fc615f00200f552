------------------------------ MODULE Journal ------------------------------
(***************************************************************************)
(* What the book recording promises, with no queue, batch or builder: a    *)
(* log of the messages received, a mark of how far it has been taken, and  *)
(* a file that comes into being when the recorder finishes and holds the   *)
(* log up to the mark - or, if writing may fail, some prefix of that - and *)
(* never holds anything if it crashes.                                     *)
(***************************************************************************)
EXTENDS Naturals, Sequences

CONSTANTS
  Message,   \* what may be received
  Lossless   \* whether no write fails

VARIABLES
  log,      \* the messages received
  taken,    \* how many of them have been taken to be recorded
  durable,  \* what the file holds for a reader
  phase     \* "running", "finished" or "crashed"

journalVars == <<log, taken, durable, phase>>

JournalInit ==
  /\ log = <<>>
  /\ taken = 0
  /\ durable = <<>>
  /\ phase = "running"

Receive ==
  /\ phase = "running"
  /\ \E m \in Message : log' = Append(log, m)
  /\ UNCHANGED <<taken, durable, phase>>

Take ==
  /\ phase = "running"
  /\ taken < Len(log)
  /\ taken' = taken + 1
  /\ UNCHANGED <<log, durable, phase>>

Finish ==
  /\ phase = "running"
  /\ phase' = "finished"
  /\ \E n \in 0 .. taken :
       /\ Lossless => n = taken
       /\ durable' = SubSeq(log, 1, n)
  /\ UNCHANGED <<log, taken>>

Crash ==
  /\ phase = "running"
  /\ phase' = "crashed"
  /\ UNCHANGED <<log, taken, durable>>

JournalNext == Receive \/ Take \/ Finish \/ Crash

JournalSpec == JournalInit /\ [][JournalNext]_journalVars

\* What is received is taken, unless the recorder ends first.
FairJournalSpec == JournalSpec /\ WF_journalVars(Take)
=============================================================================
