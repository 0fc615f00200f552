------------------------------- MODULE Venue -------------------------------
(***************************************************************************)
(* The venue, external to the program: what src/engine.cpp and             *)
(* src/book.cpp expect to find on the websocket.  It lists pairs, whose    *)
(* formatting precision it may change, and announces them on the           *)
(* instrument channel; it publishes book and trade messages for the        *)
(* symbols subscribed to; all travel in order on one connection.           *)
(***************************************************************************)
EXTENDS Naturals, Sequences, FiniteSets

CONSTANTS
  Symbols,          \* the symbols the venue may list
  InitiallyListed,  \* those listed when the recorder starts
  MaxPrecision,     \* bound: precisions a pair goes through, numbered 1, 2, ...
  MaxSent,          \* bound: messages sent of each kind
  Faults            \* what may go wrong in a run, a subset of FaultKinds

FaultKinds == {"corrupt", "stray", "malformed", "empty", "link", "io", "sigint"}
Kinds == {"snapshot", "book", "trade", "other"}

ASSUME VenueAssumption ==
  /\ InitiallyListed \subseteq Symbols
  /\ MaxPrecision \in Nat \ {0}
  /\ MaxSent \in [Kinds -> Nat]
  /\ Faults \subseteq FaultKinds

VARIABLES
  listed,  \* the venue's current precision of each symbol, 0 if not listed
  wire,    \* messages sent and not yet read by the recorder
  sent     \* how many of each kind were sent

venueVars == <<listed, wire, sent>>

Precision == 1 .. MaxPrecision

\* A book message: its number in the feed, its symbol, the precision its
\* prices and checksum were computed with, and whether its checksum is right.
\* One without data has the empty symbol, which is never listed ("stray"); one
\* with several entries does not parse ("malformed").
BookMsg == [ch : {"book"}, id : 1 .. MaxSent["book"], sym : Symbols,
            prec : 0 .. MaxPrecision, ok : BOOLEAN]
\* One trade of a trade message, numbered in the feed.
Trade == [id : 1 .. MaxSent["trade"], sym : Symbols, prec : 0 .. MaxPrecision]
TradeMsg == [ch : {"trade"}, trades : Seq(Trade)]
InstrumentMsg == [ch : {"snapshot", "update"},
                  pairs : UNION {[S -> Precision] : S \in SUBSET Symbols}]
OtherMsg == [ch : {"other", "malformed", "empty"}]
Msg == BookMsg \cup TradeMsg \cup InstrumentMsg \cup OtherMsg

VenueTypeOK ==
  /\ listed \in [Symbols -> 0 .. MaxPrecision]
  /\ wire \in Seq(Msg)
  /\ sent \in [Kinds -> Nat]

VenueInit ==
  /\ listed = [s \in Symbols |-> IF s \in InitiallyListed THEN 1 ELSE 0]
  /\ wire = <<>>
  /\ sent = [k \in Kinds |-> 0]

Listed == {s \in Symbols : listed[s] > 0}

\* One message of a kind, which carries `n` numbered items.
Send(kind, msg, n) ==
  /\ sent[kind] + n <= MaxSent[kind]
  /\ sent' = [sent EXCEPT ![kind] = @ + n]
  /\ wire' = Append(wire, msg)

-----------------------------------------------------------------------------
\* The full list, answering the instrument subscription.
SendSnapshot ==
  /\ Send("snapshot", [ch |-> "snapshot", pairs |-> [s \in Listed |-> listed[s]]], 1)
  /\ UNCHANGED listed

\* A pair is listed, or its precision changes.  Once the snapshot is out the
\* change is announced.
ChangePair(s) ==
  /\ listed[s] < MaxPrecision
  /\ listed' = [listed EXCEPT ![s] = @ + 1]
  /\ wire' = IF sent["snapshot"] = 0 THEN wire
             ELSE Append(wire, [ch |-> "update", pairs |-> [x \in {s} |-> listed'[s]]])
  /\ UNCHANGED sent

SendBook(s, ok) ==
  /\ ok \/ "corrupt" \in Faults
  /\ Send("book", [ch |-> "book", id |-> sent["book"] + 1, sym |-> s,
                   prec |-> listed[s], ok |-> ok], 1)
  /\ UNCHANGED listed

\* Several trades of possibly several symbols travel in one message.
SendTrades(ss) ==
  /\ Send("trade",
          [ch |-> "trade",
           trades |-> [i \in 1 .. Len(ss) |-> [id |-> sent["trade"] + i, sym |-> ss[i],
                                               prec |-> listed[ss[i]]]]],
          Len(ss))
  /\ UNCHANGED listed

\* Heartbeats, pongs, status messages and answers to subscriptions; with the
\* faults, messages that do not parse and empty frames.
SendOther(ch) ==
  /\ ch = "other" \/ ch \in Faults
  /\ Send("other", [ch |-> ch], 1)
  /\ UNCHANGED listed

\* A broken connection loses what was still in flight.
LoseInFlight ==
  /\ \E n \in 0 .. Len(wire) : wire' = SubSeq(wire, 1, n)
  /\ UNCHANGED <<listed, sent>>
=============================================================================
