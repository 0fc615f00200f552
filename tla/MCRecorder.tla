----------------------------- MODULE MCRecorder -----------------------------
(***************************************************************************)
(* Instances of Recorder for TLC: two symbols, and the bounds on what the  *)
(* venue sends.                                                            *)
(***************************************************************************)
EXTENDS Recorder

CONSTANTS a, b

Bounds(snapshots, books, trades, others) ==
  [k \in Kinds |-> CASE k = "snapshot" -> snapshots [] k = "book" -> books
                     [] k = "trade" -> trades [] k = "other" -> others]

SentBookFaults == Bounds(1, 3, 0, 1)
SentTradeFaults == Bounds(1, 0, 4, 0)
SentFeed == Bounds(1, 2, 2, 0)
SentBooks == Bounds(1, 4, 0, 0)
SentLive == Bounds(1, 2, 0, 1)
SentTwice == Bounds(2, 0, 0, 0)
=============================================================================
