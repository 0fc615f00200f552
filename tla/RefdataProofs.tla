--------------------------- MODULE RefdataProofs ----------------------------
(***************************************************************************)
(* What Recorder knows of the pairs: what the pairs file tells of the rows *)
(* of the other files, and that what is asked for and taken is of known    *)
(* pairs.  Then the precisions of the venue's pairs in the rows: the wire  *)
(* tells the recorder of a change before it brings anything stamped with   *)
(* it, and a message in the queue can be overtaken by later ones only.  For*)
(* any number of symbols, precisions and messages and any set of faults.   *)
(***************************************************************************)
EXTENDS FeedProofs

\* The pairs file says that the symbol had the precision.
Explained(s, p) ==
  \E b \in DOMAIN pairsWritten : s \in DOMAIN pairsWritten[b] /\ pairsWritten[b][s] = p

\* What refdata knows it has from a message the pairs file has, too.
RefdataExplained == \A s \in Symbols : Known(s) => Explained(s, precision[s])

ExplainedBookRows == {r \in BookRow : Explained(r.msg.sym, r.prec)}
ExplainedTradeRows == {r \in TradeRow : Explained(r.msg.sym, r.prec)}

\* The inductive form of RowsExplained.
RowsHeld ==
  /\ bookRows \in Seq(ExplainedBookRows) /\ bookWritten \in Seq(ExplainedBookRows)
  /\ tradeRows \in Seq(ExplainedTradeRows) /\ tradeWritten \in Seq(ExplainedTradeRows)

-----------------------------------------------------------------------------
(* The pairs file only grows.                                               *)

LEMMA PairsFileGrows ==
  ASSUME TypeOK, [Next]_vars
  PROVE  \A s, p : Explained(s, p) => Explained(s, p)'
<1>1. pairsWritten \in Seq(Pairs)
  BY DEF TypeOK, RefTypeOK, PairsSink!BatchTypeOK
<1>2. CASE ReadSnapshot \/ ReadUpdate
  <2>1. pairsWritten' = Append(pairsWritten, Incoming.pairs)
    BY <1>2 DEF ReadSnapshot, ReadUpdate, AcceptInstrument, RecordPairs, PairsSink!Write
  <2>2. \A b \in DOMAIN pairsWritten :
          b \in DOMAIN pairsWritten' /\ pairsWritten'[b] = pairsWritten[b]
    BY <1>1, <2>1
  <2>3. QED  BY <2>2 DEF Explained
<1>3. CASE ~(ReadSnapshot \/ ReadUpdate)
  <2>1. pairsWritten' = pairsWritten
    BY <1>3 DEF Next, Process, Read, Terminated, Connect, Interrupt, PingFails, OnProcessTimer,
         ProcessOne, ProcessThrows, InstrumentThrows, ReadBook, ReadTrades, TradesThrow,
         ReadOther, ReadError, Exit, VenueStep, LinkLost, vars, refVars,
         PairsSink!WriteThrows, PairsSink!CloseBatches, PairsSink!CloseBatchesThrows,
         PairsSink!AbandonBatches
  <2>2. QED  BY <2>1 DEF Explained
<1>4. QED
  BY <1>2, <1>3

\* The batch of an instrument message explains what refdata takes from it.
LEMMA AcceptInstrumentExplains ==
  ASSUME TypeOK, RefdataExplained, [Next]_vars,
         NEW ch \in {"snapshot", "update"}, Reads(ch), AcceptInstrument
  PROVE  RefdataExplained'
<1>1. /\ pairsWritten \in Seq(Pairs) /\ Len(pairsWritten) \in Nat
      /\ precision \in [Symbols -> 0 .. MaxPrecision]
  BY LenProperties DEF TypeOK, RefTypeOK, PairsSink!BatchTypeOK
<1>2. pairsWritten' = Append(pairsWritten, Incoming.pairs)
  BY DEF AcceptInstrument, RecordPairs, PairsSink!Write
<1>3. /\ Len(pairsWritten) + 1 \in DOMAIN pairsWritten'
      /\ pairsWritten'[Len(pairsWritten) + 1] = Incoming.pairs
  BY <1>1, <1>2
<1>4. ASSUME NEW s \in Symbols, Known(s)'
      PROVE  Explained(s, precision[s])'
  <2>1. precision'[s] = IF s \in DOMAIN Incoming.pairs THEN Incoming.pairs[s] ELSE precision[s]
    BY <1>1 DEF AcceptInstrument, RefdataAccept
  <2>2. CASE s \in DOMAIN Incoming.pairs
    BY <1>3, <2>1, <2>2 DEF Explained
  <2>3. CASE s \notin DOMAIN Incoming.pairs
    <3>1. Known(s) /\ precision'[s] = precision[s]
      BY <1>4, <2>1, <2>3 DEF Known
    <3>2. Explained(s, precision[s])
      BY <3>1 DEF RefdataExplained
    <3>3. QED  BY <3>1, <3>2, PairsFileGrows DEF Explained
  <2>4. QED  BY <2>2, <2>3
<1>5. QED
  BY <1>4 DEF RefdataExplained

LEMMA NextRefdata == TypeOK /\ RefdataExplained /\ [Next]_vars => RefdataExplained'
<1> SUFFICES ASSUME TypeOK, RefdataExplained, [Next]_vars PROVE RefdataExplained'
  OBVIOUS
<1>1. CASE ReadSnapshot \/ ReadUpdate
  <2>1. AcceptInstrument /\ \E ch \in {"snapshot", "update"} : Reads(ch)
    BY <1>1 DEF ReadSnapshot, ReadUpdate
  <2>2. QED  BY <2>1, AcceptInstrumentExplains
<1>2. CASE ~(ReadSnapshot \/ ReadUpdate)
  <2>1. pairsWritten' = pairsWritten /\ precision' = precision
    BY <1>2 DEF Next, Process, Read, Terminated, Connect, Interrupt, PingFails, OnProcessTimer,
         ProcessOne, ProcessThrows, InstrumentThrows, ReadBook, ReadTrades, TradesThrow,
         ReadOther, ReadError, Exit, VenueStep, LinkLost, vars, refVars,
         PairsSink!WriteThrows, PairsSink!CloseBatches, PairsSink!CloseBatchesThrows,
         PairsSink!AbandonBatches
  <2>2. QED  BY <2>1 DEF RefdataExplained, Explained, Known
<1>3. QED
  BY <1>1, <1>2

-----------------------------------------------------------------------------
(* The rows.                                                                *)

LEMMA BookRowsIn ==
  ASSUME NEW G, bookRows \in Seq(G), bookWritten \in Seq(G), NEW rs \in Seq(G),
         \/ BookSink!Accept(rs) \/ BookSink!Close \/ BookSink!CloseThrows \/ BookSink!Abandon
  PROVE  bookRows' \in Seq(G) /\ bookWritten' \in Seq(G)
BY BookLemmas!SinkStepIn
   DEF BookSink!Accept, BookLemmas!Accept, BookSink!AddRows, BookLemmas!AddRows,
       BookSink!Flush, BookLemmas!Flush, BookSink!Close, BookLemmas!Close,
       BookSink!CloseThrows, BookLemmas!CloseThrows, BookSink!Abandon, BookLemmas!Abandon

LEMMA TradeRowsIn ==
  ASSUME NEW G, tradeRows \in Seq(G), tradeWritten \in Seq(G), NEW rs \in Seq(G),
         \/ TradeSink!Accept(rs) \/ TradeSink!AddRows(rs) \/ TradeSink!AcceptThrows(rs)
         \/ TradeSink!Close \/ TradeSink!CloseThrows \/ TradeSink!Abandon
  PROVE  tradeRows' \in Seq(G) /\ tradeWritten' \in Seq(G)
BY TradeLemmas!SinkStepIn
   DEF TradeSink!Accept, TradeLemmas!Accept, TradeSink!AddRows, TradeLemmas!AddRows,
       TradeSink!Flush, TradeLemmas!Flush, TradeSink!AcceptThrows, TradeLemmas!AcceptThrows,
       TradeSink!Close, TradeLemmas!Close, TradeSink!CloseThrows, TradeLemmas!CloseThrows,
       TradeSink!Abandon, TradeLemmas!Abandon

\* A row made now is made with refdata's precision.
LEMMA FrontRowExplained ==
  ASSUME TypeOK, TodoQueued, RefdataExplained, todo > 0, Known(Front.sym)
  PROVE  <<FrontRow>> \in Seq(ExplainedBookRows)
<1>1. Front.sym \in Symbols /\ FrontRow \in BookRow
  BY FrontType DEF BookMsg
<1>2. FrontRow.msg = Front /\ FrontRow.prec = precision[Front.sym]
  BY DEF FrontRow
<1>3. Explained(Front.sym, precision[Front.sym])
  BY <1>1 DEF RefdataExplained
<1>4. FrontRow \in ExplainedBookRows
  BY <1>1, <1>2, <1>3 DEF ExplainedBookRows
<1>5. QED
  BY <1>4

LEMMA TradeRowsExplained ==
  ASSUME TypeOK, RefdataExplained, NEW ts \in Seq(Trade), \A i \in DOMAIN ts : Known(ts[i].sym)
  PROVE  TradeRows(ts) \in Seq(ExplainedTradeRows)
<1>1. /\ TradeRows(ts) \in Seq(TradeRow) /\ Len(ts) \in Nat /\ DOMAIN ts = 1 .. Len(ts)
      /\ \A i \in 1 .. Len(ts) : ts[i] \in Trade
  BY TradeRowsType, LenProperties, ElementOfSeq
<1>2. \A i \in 1 .. Len(ts) :
        TradeRows(ts)[i] = [msg |-> ts[i], prec |-> precision[ts[i].sym]]
  BY <1>1 DEF TradeRows
<1>3. DOMAIN TradeRows(ts) = 1 .. Len(ts)
  BY <1>1 DEF TradeRows
<1>4. ASSUME NEW i \in 1 .. Len(ts)
      PROVE  TradeRows(ts)[i] \in ExplainedTradeRows
  <2>1. ts[i].sym \in Symbols /\ Known(ts[i].sym)
    BY <1>1 DEF Trade
  <2>2. Explained(ts[i].sym, precision[ts[i].sym])
    BY <2>1 DEF RefdataExplained
  <2>3. TradeRows(ts)[i] \in TradeRow
    BY <1>1, <1>3, ElementOfSeq, LenProperties
  <2> DEFINE row == [msg |-> ts[i], prec |-> precision[ts[i].sym]]
  <2>4. row.msg = ts[i] /\ row.prec = precision[ts[i].sym]
    OBVIOUS
  <2>5. TradeRows(ts)[i] = row
    BY <1>2
  <2> HIDE DEF row
  <2>6. row \in ExplainedTradeRows
    BY <2>2, <2>3, <2>4, <2>5 DEF ExplainedTradeRows
  <2>7. QED  BY <2>5, <2>6
<1> DEFINE rs == TradeRows(ts)
<1>5. Len(rs) = Len(ts) /\ rs \in Seq(TradeRow) /\ \A i \in 1 .. Len(rs) : rs[i] \in ExplainedTradeRows
  BY <1>1, <1>3, <1>4, LenProperties
<1> HIDE DEF rs
<1>6. rs \in [1 .. Len(rs) -> ExplainedTradeRows] /\ Len(rs) \in Nat
  BY <1>5, LenProperties
<1>7. rs \in Seq(ExplainedTradeRows)
  BY <1>6, SeqDef
<1>8. QED
  BY <1>7 DEF rs

\* The trades taken of a message are of known symbols.
LEMMA KnownTradesKnown ==
  ASSUME Incoming.trades \in Seq(Trade)
  PROVE  \A i \in DOMAIN KnownTrades : Known(KnownTrades[i].sym)
<1> DEFINE ts == Incoming.trades
           start == {i \in DOMAIN ts : \A j \in 1 .. i : Known(ts[j].sym)}
           n == Cardinality(start)
<1>1. /\ DOMAIN ts = 1 .. Len(ts) /\ Len(ts) \in Nat
      /\ IsFiniteSet(1 .. Len(ts)) /\ Cardinality(1 .. Len(ts)) = Len(ts)
  <2>1. DOMAIN ts = 1 .. Len(ts) /\ Len(ts) \in Nat
    BY LenProperties
  <2>2. QED  BY <2>1, FS_Interval
<1>2. start \subseteq 1 .. Len(ts) /\ IsFiniteSet(start) /\ n \in Nat /\ n <= Len(ts)
  BY <1>1, FS_Subset, FS_CardinalityType
<1>3. DOMAIN KnownTrades = 1 .. n /\ \A i \in 1 .. n : KnownTrades[i] = ts[i]
  <2> HIDE DEF start
  <2>1. KnownTrades = SubSeq(ts, 1, n)
    BY DEF KnownTrades, start
  <2> HIDE DEF ts, n
  <2>2. QED  BY <1>1, <1>2, <2>1
<1>4. ASSUME NEW i \in 1 .. n
      PROVE  Known(ts[i].sym)
  <2>1. PICK k \in start : k >= i
    <3>1. SUFFICES ASSUME \A k \in start : ~(k >= i) PROVE FALSE
      OBVIOUS
    <3>2. start \subseteq 1 .. (i - 1)
      BY <1>2, <3>1
    <3>3. IsFiniteSet(1 .. (i - 1)) /\ Cardinality(1 .. (i - 1)) = i - 1
      BY FS_Interval
    <3>4. n <= i - 1
      BY <3>2, <3>3, FS_Subset
    <3>5. QED  BY <1>2, <3>4
  <2>2. \A j \in 1 .. k : Known(ts[j].sym)
    BY <2>1
  <2>3. k \in Nat
    BY <1>2, <2>1
  <2>4. QED  BY <2>1, <2>2, <2>3
<1>5. QED
  BY <1>3, <1>4

\* The explained rows stay explained.
LEMMA ExplainedStay ==
  ASSUME TypeOK, [Next]_vars
  PROVE  ExplainedBookRows \subseteq ExplainedBookRows' /\ ExplainedTradeRows \subseteq ExplainedTradeRows'
BY PairsFileGrows DEF ExplainedBookRows, ExplainedTradeRows, BookRow, TradeRow

LEMMA SeqSubset ==
  ASSUME NEW S, NEW T, S \subseteq T, NEW s \in Seq(S)
  PROVE  s \in Seq(T)
<1>1. Len(s) \in Nat /\ s \in [1 .. Len(s) -> S]
  BY LenProperties
<1>2. s \in [1 .. Len(s) -> T]
  BY <1>1
<1>3. QED
  BY <1>1, <1>2, SeqDef

LEMMA NextRows ==
  TypeOK /\ TodoQueued /\ RefdataExplained /\ RowsHeld /\ [Next]_vars => RowsHeld'
<1> SUFFICES ASSUME TypeOK, TodoQueued, RefdataExplained, RowsHeld, [Next]_vars
             PROVE  RowsHeld'
  OBVIOUS
<1> DEFINE B == ExplainedBookRows
           T == ExplainedTradeRows
<1>1. /\ bookRows \in Seq(B) /\ bookWritten \in Seq(B)
      /\ tradeRows \in Seq(T) /\ tradeWritten \in Seq(T)
      /\ <<>> \in Seq(B) /\ <<>> \in Seq(T)
  BY EmptySeq DEF RowsHeld
<1>2. SUFFICES /\ bookRows' \in Seq(B) /\ bookWritten' \in Seq(B)
               /\ tradeRows' \in Seq(T) /\ tradeWritten' \in Seq(T)
  <2>1. B \subseteq B' /\ T \subseteq T'
    BY ExplainedStay
  <2> HIDE DEF B, T
  <2>2. ASSUME /\ bookRows' \in Seq(B) /\ bookWritten' \in Seq(B)
               /\ tradeRows' \in Seq(T) /\ tradeWritten' \in Seq(T)
        PROVE  /\ bookRows' \in Seq(B') /\ bookWritten' \in Seq(B')
               /\ tradeRows' \in Seq(T') /\ tradeWritten' \in Seq(T')
    BY <2>1, <2>2, SeqSubset
  <2>3. QED  BY <2>2 DEF RowsHeld, B, T
<1> HIDE DEF B, T
<1>3. CASE ProcessOne
  <2>1. UNCHANGED <<tradeRows, tradeWritten>>
    BY <1>3 DEF ProcessOne, tradeVars
  <2>2. CASE CaptureBook
    <3>1. todo > 0 /\ Known(Front.sym) /\ BookSink!Accept(<<FrontRow>>)
      BY <1>3, <2>2 DEF ProcessOne
    <3>2. <<FrontRow>> \in Seq(B)
      BY <3>1, FrontRowExplained DEF B
    <3>3. QED  BY <1>1, <2>1, <3>1, <3>2, BookRowsIn
  <2>3. CASE ~CaptureBook
    BY <1>1, <1>3, <2>1, <2>3 DEF ProcessOne, bookVars
  <2>4. QED  BY <2>2, <2>3
<1>4. CASE ReadTrades \/ TradesThrow
  <2>1. UNCHANGED <<bookRows, bookWritten>> /\ Incoming.trades \in Seq(Trade)
    BY <1>4, ReadsType, IncomingTypes DEF ReadTrades, TradesThrow, bookVars
  <2>2. TradeRows(KnownTrades) \in Seq(T)
    BY <2>1, KnownTradesType, KnownTradesKnown, TradeRowsExplained DEF T
  <2>3. \/ UNCHANGED tradeVars
        \/ TradeSink!Accept(TradeRows(KnownTrades)) \/ TradeSink!AddRows(TradeRows(KnownTrades))
        \/ TradeSink!AcceptThrows(TradeRows(KnownTrades))
    BY <1>4 DEF ReadTrades, TradesThrow
  <2>4. QED  BY <1>1, <2>1, <2>2, <2>3, TradeRowsIn DEF tradeVars
<1>5. CASE ProcessThrows
  BY <1>1, <1>5, BookRowsIn, TradeRowsIn DEF ProcessThrows
<1>6. CASE Exit
  BY <1>1, <1>6, BookRowsIn, TradeRowsIn DEF Exit
<1>7. CASE \/ Connect \/ Interrupt \/ PingFails \/ OnProcessTimer
           \/ ReadSnapshot \/ ReadUpdate \/ InstrumentThrows \/ ReadBook
           \/ ReadOther \/ ReadError \/ VenueStep \/ LinkLost \/ UNCHANGED vars
  <2>1. UNCHANGED <<bookRows, bookWritten, tradeRows, tradeWritten>>
    BY <1>7 DEF Connect, Interrupt, PingFails, OnProcessTimer, ReadSnapshot, ReadUpdate,
                InstrumentThrows, ReadBook, ReadOther, ReadError, VenueStep, LinkLost, vars,
                bookVars, tradeVars
  <2>2. QED  BY <1>1, <2>1
<1>8. QED
  BY <1>3, <1>4, <1>5, <1>6, <1>7 DEF Next, Process, Read, Terminated

\* Every row was written with a precision that its pair has in the pairs file: the
\* pairs go to their file before refdata takes them, and a pair whose batch could
\* not be written is never used (kdr_record/kdr_record.cpp:102-113).
THEOREM RowsExplainedCorrect == Spec => []RowsExplained
<1>1. Init => RefdataExplained /\ RowsHeld
  BY EmptySeq DEF Init, BookSink!SinkInit, TradeSink!SinkInit, RefdataExplained, RowsHeld, Known
<1>2. RowsHeld => RowsExplained
  <2> SUFFICES ASSUME RowsHeld, NEW rows \in {bookRows, bookWritten, tradeRows, tradeWritten},
                      NEW i \in DOMAIN rows
               PROVE  Explained(rows[i].msg.sym, rows[i].prec)
    BY DEF RowsExplained, Explained
  <2>1. rows \in Seq(ExplainedBookRows) \/ rows \in Seq(ExplainedTradeRows)
    BY DEF RowsHeld
  <2>2. rows[i] \in ExplainedBookRows \/ rows[i] \in ExplainedTradeRows
    BY <2>1, LenProperties, ElementOfSeq
  <2>3. QED  BY <2>2 DEF ExplainedBookRows, ExplainedTradeRows
<1>3. QED
  BY <1>1, <1>2, TypeCorrect, NextRefdata, NextRows, PTL DEF Spec

-----------------------------------------------------------------------------
(* What Recorder asks the venue for, is sent and takes, is of pairs it      *)
(* knows and wants, if the venue publishes only what was subscribed to.     *)

\* The symbols in refdata that pass the filter, and what is only of them.
Wanted == {s \in Symbols : Known(s) /\ (PairFilter = {} \/ s \in PairFilter)}
WantedRequest == {r \in Request : r.symbols \subseteq Wanted}
WantedBook == {m \in BookMsg : m.sym \in Wanted}
WantedTrade == {t \in Trade : t.sym \in Wanted}

IsWanted(m) ==
  /\ m.ch = "book" => m.sym \in Wanted
  /\ m.ch = "trade" => \A i \in DOMAIN m.trades : m.trades[i].sym \in Wanted

WireWanted == \A i \in DOMAIN wire : IsWanted(wire[i])

\* The inductive form of OnlyWantedSymbols: it follows a symbol from the request
\* over the wire to where it is taken.
WantedHeld ==
  /\ requests \in Seq(WantedRequest)
  /\ WireWanted
  /\ queue \in Seq(WantedBook)
  /\ traded \in Seq(WantedTrade)

-----------------------------------------------------------------------------
(* What is known stays known.                                               *)

LEMMA WantedGrows ==
  ASSUME TypeOK, [Next]_vars
  PROVE  Wanted \subseteq Wanted'
<1>1. CASE ReadSnapshot \/ ReadUpdate
  <2>1. PICK ch \in {"snapshot", "update"} : Reads(ch)
    BY <1>1 DEF ReadSnapshot, ReadUpdate
  <2>2. \A s \in DOMAIN Incoming.pairs : Incoming.pairs[s] # 0
    BY <2>1, ReadsType, IncomingTypes DEF Precision
  <2>3. \A s \in Symbols :
          precision'[s] = IF s \in DOMAIN Incoming.pairs THEN Incoming.pairs[s] ELSE precision[s]
    BY <1>1 DEF ReadSnapshot, ReadUpdate, AcceptInstrument, RefdataAccept
  <2>4. QED  BY <2>2, <2>3 DEF Wanted, Known
<1>2. CASE ~(ReadSnapshot \/ ReadUpdate)
  <2>1. precision' = precision
    BY <1>2 DEF Next, Process, Read, Terminated, Connect, Interrupt, PingFails, OnProcessTimer,
         ProcessOne, ProcessThrows, InstrumentThrows, ReadBook, ReadTrades, TradesThrow,
         ReadOther, ReadError, Exit, VenueStep, LinkLost, vars, refVars
  <2>2. QED  BY <2>1 DEF Wanted, Known
<1>3. QED
  BY <1>1, <1>2

LEMMA WantedStay ==
  ASSUME TypeOK, [Next]_vars
  PROVE  /\ WantedRequest \subseteq WantedRequest'
         /\ WantedBook \subseteq WantedBook'
         /\ WantedTrade \subseteq WantedTrade'
BY WantedGrows DEF WantedRequest, WantedBook, WantedTrade, Request, BookMsg, Trade

-----------------------------------------------------------------------------
(* The requests.                                                            *)

LEMMA SubscriptionsIn ==
  ASSUME NEW symbols, NEW book, NEW trade, NEW R,
         [ch |-> "book", symbols |-> symbols, outcome |-> book] \in R,
         [ch |-> "trade", symbols |-> symbols, outcome |-> trade] \in R
  PROVE  Subscriptions(symbols, book, trade) \in Seq(R)
<1> DEFINE b == [ch |-> "book", symbols |-> symbols, outcome |-> book]
           t == [ch |-> "trade", symbols |-> symbols, outcome |-> trade]
           bs == IF CaptureBook THEN <<b>> ELSE <<>>
           ts == IF CaptureTrades THEN <<t>> ELSE <<>>
<1> HIDE DEF b, t
<1>1. b \in R /\ t \in R
  BY DEF b, t
<1>2. bs \in Seq(R) /\ ts \in Seq(R)
  BY <1>1
<1> HIDE DEF bs, ts
<1>3. bs \o ts \in Seq(R)
  BY <1>2, ConcatProperties
<1>4. QED
  BY <1>3 DEF Subscriptions, bs, ts, b, t

\* After a snapshot the recorder subscribes to what it has just learnt.
LEMMA SnapshotRequests ==
  ASSUME TypeOK, [Next]_vars, requests \in Seq(WantedRequest), ReadSnapshot
  PROVE  requests' \in Seq(WantedRequest')
<1> DEFINE asked == Filtered(DOMAIN Incoming.pairs)
           R == WantedRequest'
<1>1. Incoming.pairs \in Pairs /\ \A s \in DOMAIN Incoming.pairs : Incoming.pairs[s] # 0
  BY InstrumentType, ReadsType, IncomingTypes DEF ReadSnapshot, Precision
<1>2. DOMAIN Incoming.pairs \subseteq Symbols
  BY <1>1 DEF Pairs
<1>3. \A s \in DOMAIN Incoming.pairs : precision'[s] # 0
  BY <1>1, <1>2 DEF ReadSnapshot, AcceptInstrument, RefdataAccept
<1>4. asked \subseteq Symbols /\ asked \subseteq Wanted'
  BY <1>2, <1>3 DEF Filtered, Wanted, Known
<1> HIDE DEF asked
<1>5. PICK book \in SendOutcomes, trade \in SendOutcomes :
        requests' = requests \o Subscriptions(asked, book, trade)
  BY DEF ReadSnapshot, asked
<1>6. {book, trade} \subseteq {"delivered", "lost", "failed"}
  BY <1>5, SendOutcomesType DEF TypeOK, SessionTypeOK
<1>7. /\ [ch |-> "book", symbols |-> asked, outcome |-> book] \in R
      /\ [ch |-> "trade", symbols |-> asked, outcome |-> trade] \in R
  BY <1>4, <1>6 DEF WantedRequest, Request
<1>8. requests \in Seq(R)
  <2>1. WantedRequest \subseteq R
    BY WantedStay
  <2> HIDE DEF R
  <2>2. QED  BY <2>1, SeqSubset
<1> HIDE DEF R
<1>9. Subscriptions(asked, book, trade) \in Seq(R)
  BY <1>7, SubscriptionsIn
<1>10. requests \o Subscriptions(asked, book, trade) \in Seq(R)
  BY <1>8, <1>9, ConcatProperties
<1>11. QED
  BY <1>5, <1>10 DEF R

\* The process timer asks for the instrument channel, which names no symbols.
LEMMA FinishProcessRequests ==
  ASSUME TypeOK, requests \in Seq(WantedRequest), FinishProcess
  PROVE  requests' \in Seq(WantedRequest)
<1>1. CASE timer = "first"
  <2>1. PICK out \in SendOutcomes :
          requests' = Append(requests, [ch |-> "instrument", symbols |-> {}, outcome |-> out])
    BY <1>1 DEF FinishProcess
  <2>2. [ch |-> "instrument", symbols |-> {}, outcome |-> out] \in WantedRequest
    BY <2>1, SendOutcomesType DEF WantedRequest, Request, TypeOK, SessionTypeOK
  <2>3. QED  BY <2>1, <2>2, AppendProperties
<1>2. CASE timer # "first"
  BY <1>2 DEF FinishProcess
<1>3. QED
  BY <1>1, <1>2

LEMMA NextRequests ==
  ASSUME TypeOK, [Next]_vars, requests \in Seq(WantedRequest)
  PROVE  requests' \in Seq(WantedRequest')
<1>1. CASE ReadSnapshot
  BY <1>1, SnapshotRequests
<1>2. CASE ~ReadSnapshot
  <2>1. FinishProcess \/ requests' = requests
    BY <1>2 DEF Next, Process, Read, Terminated, Connect, Interrupt, PingFails, OnProcessTimer,
         ProcessOne, ProcessThrows, ReadUpdate, InstrumentThrows, ReadBook, ReadTrades,
         TradesThrow, ReadOther, ReadError, Exit, VenueStep, LinkLost, vars, engineVars
  <2>2. requests' \in Seq(WantedRequest)
    BY <2>1, FinishProcessRequests
  <2>3. QED  BY <2>2, WantedStay, SeqSubset
<1>3. QED
  BY <1>1, <1>2

-----------------------------------------------------------------------------
(* The wire.                                                                *)

LEMMA PublishedWanted ==
  ASSUME "stray" \notin Faults, requests \in Seq(WantedRequest), NEW ch
  PROVE  Published(ch) \subseteq Wanted
<1>1. \A i \in DOMAIN requests : requests[i] \in WantedRequest
  BY LenProperties, ElementOfSeq
<1>2. \A i \in DOMAIN requests : requests[i].symbols \subseteq Wanted
  BY <1>1 DEF WantedRequest
<1>3. QED
  BY <1>2 DEF Published, Delivered

LEMMA AppendWanted ==
  ASSUME wire \in Seq(Msg), WireWanted, NEW m, IsWanted(m), wire' = Append(wire, m)
  PROVE  \A i \in DOMAIN wire' : IsWanted(wire'[i])
<1>1. DOMAIN wire = 1 .. Len(wire) /\ Len(wire) \in Nat
  BY LenProperties
<1>2. DOMAIN wire' = 1 .. Len(wire) + 1
  BY <1>1
<1>3. \A i \in 1 .. Len(wire) + 1 : wire'[i] = IF i <= Len(wire) THEN wire[i] ELSE m
  BY <1>1
<1>4. \A i \in 1 .. Len(wire) : IsWanted(wire[i])
  BY <1>1 DEF WireWanted
<1>5. \A i \in 1 .. Len(wire) + 1 : i <= Len(wire) => i \in 1 .. Len(wire)
  BY <1>1
<1>6. \A i \in 1 .. Len(wire) + 1 : IsWanted(wire'[i])
  BY <1>3, <1>4, <1>5
<1>7. QED
  BY <1>2, <1>6

\* The venue's steps put only wanted messages on the wire.
LEMMA VenueStepWanted ==
  ASSUME TypeOK, "stray" \notin Faults, requests \in Seq(WantedRequest), WireWanted, VenueStep
  PROVE  \A i \in DOMAIN wire' : IsWanted(wire'[i])
<1> DEFINE Goal == \A i \in DOMAIN wire' : IsWanted(wire'[i])
<1> SUFFICES Goal
  OBVIOUS
<1>1. ASSUME NEW k, NEW m, NEW n, IsWanted(m), Send(k, m, n)
      PROVE  Goal
  BY <1>1, AppendWanted DEF Send, TypeOK, VenueTypeOK
<1> HIDE DEF Goal
<1>2. CASE SendSnapshot
  <2> DEFINE m == [ch |-> "snapshot", pairs |-> [s \in Listed |-> listed[s]]]
  <2>1. IsWanted(m) /\ Send("snapshot", m, 1)
    BY <1>2 DEF SendSnapshot, IsWanted
  <2> HIDE DEF m
  <2>2. QED  BY <1>1, <2>1
<1>3. ASSUME NEW s, ChangePair(s)
      PROVE  Goal
  <2> DEFINE m == [ch |-> "update", pairs |-> [x \in {s} |-> listed'[s]]]
  <2>1. wire' = IF sent["snapshot"] = 0 THEN wire ELSE Append(wire, m)
    BY <1>3, Zenon DEF ChangePair
  <2>2. IsWanted(m)
    BY DEF IsWanted
  <2> HIDE DEF m
  <2>3. CASE wire' = wire
    BY <2>3 DEF WireWanted, Goal
  <2>4. CASE wire' = Append(wire, m)
    BY <2>2, <2>4, AppendWanted DEF TypeOK, VenueTypeOK, Goal
  <2>5. QED  BY <2>1, <2>3, <2>4
<1>4. ASSUME NEW s \in Wanted, NEW ok, SendBook(s, ok)
      PROVE  Goal
  <2> DEFINE m == [ch |-> "book", id |-> sent["book"] + 1, sym |-> s,
                   prec |-> listed[s], ok |-> ok]
  <2>1. IsWanted(m) /\ Send("book", m, 1)
    BY <1>4 DEF SendBook, IsWanted
  <2> HIDE DEF m
  <2>2. QED  BY <1>1, <2>1
<1>5. ASSUME NEW ss \in Seq(Wanted), SendTrades(ss)
      PROVE  Goal
  <2> DEFINE ts == [i \in 1 .. Len(ss) |-> [id |-> sent["trade"] + i, sym |-> ss[i],
                                            prec |-> listed[ss[i]]]]
             m == [ch |-> "trade", trades |-> ts]
  <2>1. Send("trade", m, Len(ss))
    BY <1>5 DEF SendTrades
  <2>2. \A i \in 1 .. Len(ss) : ss[i] \in Wanted
    BY ElementOfSeq
  <2>3. \A i \in DOMAIN ts : ts[i].sym \in Wanted
    BY <2>2
  <2> HIDE DEF ts
  <2>4. IsWanted(m)
    BY <2>3 DEF IsWanted
  <2> HIDE DEF m
  <2>5. QED  BY <1>1, <2>1, <2>4
<1>6. ASSUME NEW ch \in {"other", "malformed", "empty"}, SendOther(ch)
      PROVE  Goal
  <2>1. IsWanted([ch |-> ch]) /\ Send("other", [ch |-> ch], 1)
    BY <1>6 DEF SendOther, IsWanted
  <2>2. QED  BY <1>1, <2>1
<1>7. Published("book") \subseteq Wanted /\ Published("trade") \subseteq Wanted
  BY PublishedWanted
<1>8. \A s, t \in Wanted : <<s>> \in Seq(Wanted) /\ <<s, t>> \in Seq(Wanted)
  OBVIOUS
<1>9. Goal
  <2>1. \/ SendSnapshot
        \/ \E s \in Symbols : ChangePair(s)
        \/ \E s \in Wanted, ok \in BOOLEAN : SendBook(s, ok)
        \/ \E ss \in Seq(Wanted) : SendTrades(ss)
        \/ \E ch \in {"other", "malformed", "empty"} : SendOther(ch)
    BY <1>7, <1>8, Zenon DEF VenueStep
  <2>2. QED  BY <1>2, <1>3, <1>4, <1>5, <1>6, <2>1, Zenon
<1>10. QED
  BY <1>9

\* The wire of the next state, by what is wanted now.
LEMMA NextWire ==
  ASSUME TypeOK, [Next]_vars, "stray" \notin Faults,
         requests \in Seq(WantedRequest), WireWanted
  PROVE  \A i \in DOMAIN wire' : IsWanted(wire'[i])
<1>1. wire \in Seq(Msg) /\ DOMAIN wire = 1 .. Len(wire) /\ Len(wire) \in Nat
  BY LenProperties DEF TypeOK, VenueTypeOK
<1>2. CASE VenueStep
  BY <1>2, VenueStepWanted
<1>3. CASE LinkLost
  <2>1. PICK n \in 0 .. Len(wire) : wire' = SubSeq(wire, 1, n)
    BY <1>3 DEF LinkLost, LoseInFlight
  <2>2. DOMAIN wire' = 1 .. n /\ \A i \in 1 .. n : wire'[i] = wire[i] /\ i \in DOMAIN wire
    BY <1>1, <2>1
  <2>3. QED  BY <2>2 DEF WireWanted
<1>4. CASE Read /\ ~ReadError
  <2>1. wire # <<>> /\ wire' = Tail(wire)
    BY <1>4 DEF Read, ReadSnapshot, ReadUpdate, InstrumentThrows, ReadBook, ReadTrades,
                TradesThrow, ReadOther, Reads
  <2>2. /\ DOMAIN wire' = 1 .. Len(wire) - 1
        /\ \A i \in 1 .. Len(wire) - 1 : wire'[i] = wire[i + 1] /\ i + 1 \in DOMAIN wire
    BY <1>1, <2>1
  <2>3. QED  BY <2>2 DEF WireWanted
<1>5. CASE \/ Connect \/ Interrupt \/ PingFails \/ Process \/ ReadError \/ Exit
           \/ UNCHANGED vars
  <2>1. wire' = wire
    BY <1>5 DEF Connect, Interrupt, PingFails, Process, OnProcessTimer, ProcessOne,
                ProcessThrows, ReadError, Exit, vars, venueVars
  <2>2. QED  BY <2>1 DEF WireWanted
<1>6. QED
  BY <1>2, <1>3, <1>4, <1>5 DEF Next, Read, Terminated

LEMMA WireWantedStays ==
  ASSUME TypeOK, [Next]_vars, \A i \in DOMAIN wire' : IsWanted(wire'[i])
  PROVE  WireWanted'
<1>1. \A m : IsWanted(m) => IsWanted(m)'
  BY WantedGrows DEF IsWanted
<1>2. QED
  BY <1>1 DEF WireWanted, IsWanted

-----------------------------------------------------------------------------
(* What is taken.                                                           *)

LEMMA IncomingWanted ==
  ASSUME TypeOK, WireWanted, NEW ch, Reads(ch)
  PROVE  IsWanted(Incoming)
<1>1. wire \in Seq(Msg) /\ wire # <<>>
  BY DEF TypeOK, VenueTypeOK, Reads
<1>2. 1 \in DOMAIN wire /\ Incoming = wire[1]
  BY <1>1 DEF Incoming
<1>3. QED
  BY <1>2 DEF WireWanted

LEMMA KnownTradesWanted ==
  ASSUME TypeOK, WireWanted, Reads("trade")
  PROVE  KnownTrades \in Seq(WantedTrade)
<1> DEFINE ts == Incoming.trades
           n == Cardinality({i \in DOMAIN ts : \A j \in 1 .. i : Known(ts[j].sym)})
<1>1. /\ ts \in Seq(Trade) /\ DOMAIN ts = 1 .. Len(ts) /\ Len(ts) \in Nat
      /\ \A i \in 1 .. Len(ts) : ts[i] \in Trade
  BY ReadsType, IncomingTypes, LenProperties, ElementOfSeq
<1>2. \A i \in 1 .. Len(ts) : ts[i] \in WantedTrade
  BY <1>1, IncomingWanted, ReadsType DEF IsWanted, WantedTrade
<1>3. ts \in [1 .. Len(ts) -> WantedTrade]
  <2>1. ts \in [1 .. Len(ts) -> Trade]
    BY <1>1, LenProperties
  <2> HIDE DEF ts
  <2>2. QED  BY <1>2, <2>1
<1>4. ts \in Seq(WantedTrade)
  BY <1>1, <1>3, SeqDef
<1>5. n \in Nat /\ n <= Len(ts)
  <2> DEFINE start == {i \in DOMAIN ts : \A j \in 1 .. i : Known(ts[j].sym)}
  <2>1. IsFiniteSet(1 .. Len(ts)) /\ Cardinality(1 .. Len(ts)) = Len(ts)
    BY <1>1, FS_Interval
  <2>2. start \subseteq 1 .. Len(ts)
    BY <1>1
  <2> HIDE DEF start, ts
  <2>3. Cardinality(start) \in Nat /\ Cardinality(start) <= Len(ts)
    BY <2>1, <2>2, FS_Subset, FS_CardinalityType
  <2>4. QED  BY <2>3 DEF start
<1>6. KnownTrades = SubSeq(ts, 1, n)
  BY DEF KnownTrades
<1> HIDE DEF ts, n
<1>7. SubSeq(ts, 1, n) \in Seq(WantedTrade)
  BY <1>1, <1>2, <1>5, SubSeqProperties
<1>8. QED
  BY <1>6, <1>7

LEMMA NextTaken ==
  ASSUME TypeOK, TodoQueued, [Next]_vars, WantedHeld
  PROVE  queue' \in Seq(WantedBook) /\ traded' \in Seq(WantedTrade)
<1>1. queue \in Seq(WantedBook) /\ traded \in Seq(WantedTrade) /\ WireWanted
  BY DEF WantedHeld
<1>2. CASE ReadBook
  <2>1. Incoming \in WantedBook
    BY <1>1, <1>2, ReadsType, IncomingTypes, IncomingWanted DEF ReadBook, IsWanted, WantedBook
  <2>2. queue' = Append(queue, Incoming) /\ traded' = traded
    BY <1>2 DEF ReadBook
  <2>3. QED  BY <1>1, <2>1, <2>2, AppendProperties
<1>3. CASE ReadTrades \/ TradesThrow
  <2>1. KnownTrades \in Seq(WantedTrade)
    BY <1>1, <1>3, KnownTradesWanted DEF ReadTrades, TradesThrow
  <2>2. queue' = queue /\ (traded' = traded \/ traded' = traded \o KnownTrades)
    BY <1>3 DEF ReadTrades, TradesThrow
  <2>3. QED  BY <1>1, <2>1, <2>2, ConcatProperties
<1>4. CASE ProcessOne
  <2>1. queue # <<>> /\ queue' = Tail(queue) /\ traded' = traded
    BY <1>4, FrontType DEF ProcessOne, history
  <2>2. QED  BY <1>1, <2>1, HeadTailProperties
<1>5. CASE \/ Connect \/ Interrupt \/ PingFails \/ OnProcessTimer \/ ProcessThrows
           \/ ReadSnapshot \/ ReadUpdate \/ InstrumentThrows \/ ReadOther \/ ReadError
           \/ Exit \/ VenueStep \/ LinkLost \/ UNCHANGED vars
  <2>1. queue' = queue /\ traded' = traded
    BY <1>5 DEF Connect, Interrupt, PingFails, OnProcessTimer, ProcessThrows, ReadSnapshot,
                ReadUpdate, InstrumentThrows, ReadOther, ReadError, Exit, VenueStep, LinkLost,
                vars, engineVars, history
  <2>2. QED  BY <1>1, <2>1
<1>6. QED
  BY <1>2, <1>3, <1>4, <1>5 DEF Next, Process, Read, Terminated

LEMMA NextWanted ==
  "stray" \notin Faults /\ TypeOK /\ TodoQueued /\ WantedHeld /\ [Next]_vars => WantedHeld'
<1> SUFFICES ASSUME "stray" \notin Faults, TypeOK, TodoQueued, WantedHeld, [Next]_vars
             PROVE  WantedHeld'
  OBVIOUS
<1>1. requests' \in Seq(WantedRequest')
  BY NextRequests DEF WantedHeld
<1>2. WireWanted'
  BY NextWire, WireWantedStays DEF WantedHeld
<1>3. queue' \in Seq(WantedBook') /\ traded' \in Seq(WantedTrade')
  BY NextTaken, WantedStay, SeqSubset
<1>4. QED
  BY <1>1, <1>2, <1>3 DEF WantedHeld

\* What the recorder asked for it knows: books and trades are asked for only after
\* refdata has taken their pairs, which it never loses, so of a venue that sends what
\* was asked every message taken is of a known pair that passes the filter
\* (src/engine.cpp:131-163).
THEOREM OnlyWantedSymbolsCorrect == Spec => []OnlyWantedSymbols
<1>1. Init => WantedHeld
  BY EmptySeq DEF Init, VenueInit, WantedHeld, WireWanted
<1>2. WantedHeld => OnlyWantedSymbols
  <2> SUFFICES ASSUME WantedHeld, NEW msgs \in {queue, traded}, NEW i \in DOMAIN msgs
               PROVE  msgs[i].sym \in Wanted
    BY DEF OnlyWantedSymbols, Wanted
  <2>1. msgs \in Seq(WantedBook) \/ msgs \in Seq(WantedTrade)
    BY DEF WantedHeld
  <2>2. msgs[i] \in WantedBook \/ msgs[i] \in WantedTrade
    BY <2>1, LenProperties, ElementOfSeq
  <2>3. QED  BY <2>2 DEF WantedBook, WantedTrade
<1>3. CASE "stray" \notin Faults
  BY <1>1, <1>2, <1>3, TypeCorrect, NextWanted, PTL DEF Spec
<1>4. CASE "stray" \in Faults
  <2>1. OnlyWantedSymbols
    BY <1>4 DEF OnlyWantedSymbols
  <2>2. QED  BY <2>1, PTL
<1>5. QED
  BY <1>3, <1>4

-----------------------------------------------------------------------------
(* What the wire tells of a pair's precision.                               *)

\* The message is an instrument message that names the pair.
Names(m, s) == m.ch \in {"snapshot", "update"} /\ s \in DOMAIN m.pairs

\* Who knows precision q of the pair (0 if none), and reads the first n messages of w,
\* knows none still or knows it to be p.
Told(w, n, s, q, p) ==
  \/ \E j \in 1 .. n : /\ Names(w[j], s) /\ w[j].pairs[s] = p
                       /\ \A k \in j + 1 .. n : ~Names(w[k], s)
  \/ (\A j \in 1 .. n : ~Names(w[j], s)) /\ (q # 0 => q = p)

\* The message carries a book or a trade of the pair at this precision.
Stamped(m, s, p) ==
  \/ m.ch = "book" /\ m.sym = s /\ m.prec = p
  \/ m.ch = "trade" /\ \E i \in DOMAIN m.trades : m.trades[i].sym = s /\ m.trades[i].prec = p

LEMMA ToldSame ==
  ASSUME NEW w, NEW v, NEW n, \A j \in 1 .. n : v[j] = w[j], NEW s, NEW q, NEW p,
         Told(w, n, s, q, p)
  PROVE  Told(v, n, s, q, p)
<1>1. CASE (\A j \in 1 .. n : ~Names(w[j], s)) /\ (q # 0 => q = p)
  BY <1>1 DEF Told
<1>2. CASE \E j \in 1 .. n : /\ Names(w[j], s) /\ w[j].pairs[s] = p
                             /\ \A k \in j + 1 .. n : ~Names(w[k], s)
  <2>1. PICK j \in 1 .. n : /\ Names(w[j], s) /\ w[j].pairs[s] = p
                            /\ \A k \in j + 1 .. n : ~Names(w[k], s)
    BY <1>2
  <2>2. \A k \in j + 1 .. n : k \in 1 .. n
    BY <2>1
  <2>3. QED  BY <2>1, <2>2 DEF Told
<1>3. QED
  BY <1>1, <1>2 DEF Told

LEMMA ToldAppend ==
  ASSUME NEW w \in Seq(Msg), NEW m, NEW s, NEW q, NEW p
  PROVE  /\ \A n \in 0 .. Len(w) : Told(w, n, s, q, p) => Told(Append(w, m), n, s, q, p)
         /\ Names(m, s) /\ m.pairs[s] = p => Told(Append(w, m), Len(Append(w, m)), s, q, p)
         /\ ~Names(m, s) /\ Told(w, Len(w), s, q, p)
              => Told(Append(w, m), Len(Append(w, m)), s, q, p)
<1> DEFINE v == Append(w, m)
           n == Len(w)
<1>1. /\ n \in Nat /\ Len(v) = n + 1 /\ v[n + 1] = m
      /\ \A j \in 1 .. n : v[j] = w[j]
  BY LenProperties
<1> HIDE DEF v, n
<1>2. \A k \in 0 .. n : Told(w, k, s, q, p) => Told(v, k, s, q, p)
  <2> SUFFICES ASSUME NEW k \in 0 .. n, Told(w, k, s, q, p) PROVE Told(v, k, s, q, p)
    OBVIOUS
  <2>1. \A j \in 1 .. k : v[j] = w[j]
    BY <1>1
  <2>2. QED  BY <2>1, ToldSame
<1>3. Names(m, s) /\ m.pairs[s] = p => Told(v, Len(v), s, q, p)
  <2> SUFFICES ASSUME Names(m, s), m.pairs[s] = p PROVE Told(v, n + 1, s, q, p)
    BY <1>1
  <2>1. n + 1 \in 1 .. n + 1 /\ \A k \in (n + 1) + 1 .. n + 1 : FALSE
    BY <1>1
  <2>2. QED  BY <1>1, <2>1 DEF Told
<1>4. ~Names(m, s) /\ Told(w, n, s, q, p) => Told(v, Len(v), s, q, p)
  <2> SUFFICES ASSUME ~Names(m, s), Told(w, n, s, q, p) PROVE Told(v, n + 1, s, q, p)
    BY <1>1
  <2>1. \A k \in 1 .. n + 1 : k \in 1 .. n \/ k = n + 1
    BY <1>1
  <2>2. CASE (\A j \in 1 .. n : ~Names(w[j], s)) /\ (q # 0 => q = p)
    <3>1. \A j \in 1 .. n + 1 : ~Names(v[j], s)
      BY <1>1, <2>1, <2>2
    <3>2. QED  BY <2>2, <3>1 DEF Told
  <2>3. CASE \E j \in 1 .. n : /\ Names(w[j], s) /\ w[j].pairs[s] = p
                               /\ \A k \in j + 1 .. n : ~Names(w[k], s)
    <3>1. PICK j \in 1 .. n : /\ Names(w[j], s) /\ w[j].pairs[s] = p
                              /\ \A k \in j + 1 .. n : ~Names(w[k], s)
      BY <2>3
    <3>2. j \in 1 .. n + 1 /\ v[j] = w[j]
      BY <1>1
    <3>3. ASSUME NEW k \in j + 1 .. n + 1 PROVE ~Names(v[k], s)
      <4>1. CASE k = n + 1
        BY <1>1, <4>1
      <4>2. CASE k # n + 1
        <5>1. k \in j + 1 .. n /\ k \in 1 .. n
          BY <1>1, <4>2
        <5>2. QED  BY <1>1, <3>1, <5>1
      <4>3. QED  BY <4>1, <4>2
    <3>4. QED  BY <3>1, <3>2, <3>3 DEF Told
  <2>4. QED  BY <2>2, <2>3 DEF Told
<1>5. QED
  BY <1>2, <1>3, <1>4 DEF v, n

\* Who has read the first message knows what it says.
LEMMA ToldTail ==
  ASSUME NEW w \in Seq(Msg), w # <<>>, NEW n \in 0 .. Len(w) - 1, NEW s, NEW q, NEW p,
         Told(w, n + 1, s, q, p), NEW r,
         r = IF Names(Head(w), s) THEN Head(w).pairs[s] ELSE q
  PROVE  Told(Tail(w), n, s, r, p)
<1> DEFINE v == Tail(w)
<1>1. /\ Len(w) \in Nat /\ Head(w) = w[1]
      /\ \A j \in 1 .. Len(w) - 1 : v[j] = w[j + 1]
  BY LenProperties
<1> HIDE DEF v
<1>2. \A j \in 1 .. n : v[j] = w[j + 1] /\ j + 1 \in 1 .. n + 1
  BY <1>1
<1>3. 1 \in 1 .. n + 1
  BY <1>1
<1>4. CASE (\A j \in 1 .. n + 1 : ~Names(w[j], s)) /\ (q # 0 => q = p)
  <2>1. r = q /\ \A j \in 1 .. n : ~Names(v[j], s)
    BY <1>1, <1>2, <1>3, <1>4
  <2>2. QED  BY <1>4, <2>1 DEF Told, v
<1>5. CASE \E j \in 1 .. n + 1 : /\ Names(w[j], s) /\ w[j].pairs[s] = p
                                 /\ \A k \in j + 1 .. n + 1 : ~Names(w[k], s)
  <2>1. PICK j \in 1 .. n + 1 : /\ Names(w[j], s) /\ w[j].pairs[s] = p
                                /\ \A k \in j + 1 .. n + 1 : ~Names(w[k], s)
    BY <1>5
  <2>2. CASE j = 1
    <3>1. r = p
      BY <1>1, <2>1, <2>2
    <3>2. \A k \in 1 .. n : k + 1 \in j + 1 .. n + 1
      BY <2>2
    <3>3. \A k \in 1 .. n : ~Names(v[k], s)
      BY <1>2, <2>1, <3>2
    <3>4. QED  BY <3>1, <3>3 DEF Told, v
  <2>3. CASE j # 1
    <3>1. j - 1 \in 1 .. n /\ (j - 1) + 1 = j
      BY <2>3
    <3>2. v[j - 1] = w[j]
      BY <1>2, <3>1
    <3>3. \A k \in (j - 1) + 1 .. n : k \in 1 .. n /\ k + 1 \in j + 1 .. n + 1
      BY <3>1
    <3>4. \A k \in (j - 1) + 1 .. n : ~Names(v[k], s)
      BY <1>2, <2>1, <3>3
    <3>5. QED  BY <2>1, <3>1, <3>2, <3>4 DEF Told, v
  <2>4. QED  BY <2>2, <2>3
<1>6. QED
  BY <1>4, <1>5 DEF Told

-----------------------------------------------------------------------------
(* The precision of what is read.                                           *)

\* A book or trade on the wire is stamped with the precision that the recorder, if it
\* knows one then, will know when it reads it.
WireTold ==
  \A i \in DOMAIN wire : \A s \in Symbols, p \in 0 .. MaxPrecision :
    Stamped(wire[i], s, p) => Told(wire, i - 1, s, precision[s], p)

\* Once it has read the whole wire of a sound connection it is up to date.
EndTold ==
  link # "broken" =>
    \A s \in Symbols : Told(wire, Len(wire), s, precision[s], listed[s])

\* Nothing is known of a pair before the snapshot.
Unannounced ==
  sent["snapshot"] = 0 =>
    \A s \in Symbols : ~Known(s) /\ \A i \in DOMAIN wire : ~Names(wire[i], s)

PrecisionTold == Unannounced /\ (MayContinue => WireTold /\ EndTold)

\* The precision p of a pair is behind l and behind what the wire says of the pair
\* after its first n messages.
Behind(w, n, s, l, p) ==
  p <= l /\ \A j \in DOMAIN w : j > n /\ Names(w[j], s) => p <= w[j].pairs[s]

\* The message carries an instrument entry or a book of the pair at this precision.
Dated(m, s, p) ==
  \/ Names(m, s) /\ m.pairs[s] = p
  \/ m.ch = "book" /\ m.sym = s /\ m.prec = p

\* A pair's precision only grows from what refdata knows, and from what a queued
\* message is stamped with, along the wire to what the venue has listed.
WireBehind ==
  \A i \in DOMAIN wire : \A s \in Symbols, p \in 0 .. MaxPrecision :
    Dated(wire[i], s, p) => Behind(wire, i, s, listed[s], p)

RefdataBehind == \A s \in Symbols : Behind(wire, 0, s, listed[s], precision[s])

QueueBehind ==
  \A k \in DOMAIN queue : Behind(wire, 0, queue[k].sym, listed[queue[k].sym], queue[k].prec)

Monotone == WireBehind /\ RefdataBehind /\ QueueBehind

\* A queued message is not ahead of refdata.
QueueDated ==
  \A k \in DOMAIN queue : Known(queue[k].sym) => queue[k].prec <= precision[queue[k].sym]

\* A sound venue's checksums are right.
ChecksumsSound ==
  "corrupt" \notin Faults =>
    /\ \A i \in DOMAIN wire : wire[i].ch = "book" => wire[i].ok
    /\ \A k \in DOMAIN queue : queue[k].ok

LEMMA StampedTypes ==
  ASSUME NEW m \in Msg, NEW s, NEW p, Stamped(m, s, p) \/ Dated(m, s, p)
  PROVE  m.ch \in {"snapshot", "update"} \/ (s \in Symbols /\ p \in 0 .. MaxPrecision)
<1>1. CASE m.ch = "book"
  BY <1>1 DEF Msg, BookMsg, TradeMsg, InstrumentMsg, OtherMsg, Stamped, Dated, Names
<1>2. CASE m.ch = "trade"
  <2>1. PICK i \in DOMAIN m.trades : m.trades[i].sym = s /\ m.trades[i].prec = p
    BY <1>2 DEF Stamped, Dated, Names
  <2>2. m.trades \in Seq(Trade)
    BY <1>2 DEF Msg, BookMsg, TradeMsg, InstrumentMsg, OtherMsg
  <2>3. m.trades[i] \in Trade
    BY <2>1, <2>2
  <2>4. QED  BY <2>1, <2>3 DEF Trade
<1>3. QED
  BY <1>1, <1>2 DEF Stamped, Dated, Names

\* What a message sent means for the pairs.
LEMMA SentMeans ==
  ASSUME TypeOK, NEW m, Announces(m) \/ SendsBook(m) \/ SendsTrades(m) \/ SendsOther(m)
  PROVE  /\ m \in Msg /\ wire' = Append(wire, m)
         /\ sent'["snapshot"] = 0 => sent["snapshot"] = 0 /\ \A s : ~Names(m, s)
         /\ \A s \in Symbols :
              /\ listed'[s] >= listed[s]
              /\ Names(m, s) => m.pairs[s] = listed'[s]
              /\ ~Names(m, s) => listed'[s] = listed[s]
         /\ \A s, p : Stamped(m, s, p) => s \in Symbols /\ p = listed[s] /\ ~Names(m, s)
<1>1. listed \in [Symbols -> 0 .. MaxPrecision] /\ MaxPrecision \in Nat
  BY VenueAssumption DEF TypeOK, VenueTypeOK
<1>2. \A s \in Symbols : listed[s] \in 0 .. MaxPrecision
  BY <1>1
<1>3. CASE Announces(m)
  <2>1. m \in InstrumentMsg /\ m \in Msg /\ m.ch \in {"snapshot", "update"}
    BY <1>3 DEF Announces, Msg, InstrumentMsg
  <2>2. \A s : Names(m, s) <=> s \in DOMAIN m.pairs
    BY <2>1 DEF Names
  <2>3. \A s, p : ~Stamped(m, s, p)
    BY <2>1 DEF Stamped
  <2>4. QED  BY <1>3, <2>1, <2>2, <2>3 DEF Announces
<1>4. CASE SendsBook(m)
  <2>1. m \in BookMsg /\ m \in Msg /\ m.ch = "book" /\ m.prec = listed[m.sym] /\ m.sym \in Symbols
    BY <1>4 DEF SendsBook, Msg, BookMsg
  <2>2. \A s : ~Names(m, s)
    BY <2>1 DEF Names
  <2>3. \A s, p : Stamped(m, s, p) => s \in Symbols /\ p = listed[s]
    BY <2>1 DEF Stamped
  <2>4. QED  BY <1>2, <1>4, <2>1, <2>2, <2>3 DEF SendsBook
<1>5. CASE SendsTrades(m)
  <2>1. /\ m \in TradeMsg /\ m \in Msg /\ m.ch = "trade" /\ m.trades \in Seq(Trade)
        /\ \A i \in DOMAIN m.trades : m.trades[i].prec = listed[m.trades[i].sym]
    BY <1>5 DEF SendsTrades, Msg, TradeMsg
  <2>2. \A s : ~Names(m, s)
    BY <2>1 DEF Names
  <2>3. \A i \in DOMAIN m.trades : m.trades[i].sym \in Symbols
    <3>1. ASSUME NEW ts \in Seq(Trade) PROVE \A i \in DOMAIN ts : ts[i] \in Trade
      OBVIOUS
    <3>2. \A i \in DOMAIN m.trades : m.trades[i] \in Trade
      BY <2>1, <3>1
    <3>3. QED  BY <3>2 DEF Trade
  <2>4. \A s, p : Stamped(m, s, p) => s \in Symbols /\ p = listed[s]
    BY <2>1, <2>3 DEF Stamped
  <2>5. QED  BY <1>2, <1>5, <2>1, <2>2, <2>4 DEF SendsTrades
<1>6. CASE SendsOther(m)
  <2>1. m \in OtherMsg /\ m \in Msg /\ m.ch \in {"other", "malformed", "empty"}
    BY <1>6 DEF SendsOther, Msg, OtherMsg
  <2>2. \A s : ~Names(m, s)
    BY <2>1 DEF Names
  <2>3. \A s, p : ~Stamped(m, s, p)
    BY <2>1 DEF Stamped
  <2>4. QED  BY <1>2, <1>6, <2>1, <2>2, <2>3 DEF SendsOther
<1>7. QED
  BY <1>3, <1>4, <1>5, <1>6

\* What reading does to refdata: an instrument message it accepts gives the pairs it
\* names their precisions, and after one it does not accept nothing more is read.
LEMMA ReadMeans ==
  ASSUME TypeOK, [Next]_vars, Read, ~ReadError
  PROVE  /\ wire \in Seq(Msg) /\ wire # <<>> /\ Incoming = Head(wire) /\ Incoming \in Msg
         /\ wire' = Tail(wire) /\ sent' = sent /\ listed' = listed /\ MayContinue
         /\ \/ InstrumentThrows /\ precision' = precision /\ ~MayContinue'
            \/ \A s \in Symbols :
                 precision'[s] = IF Names(Incoming, s) THEN Incoming.pairs[s] ELSE precision[s]
<1>1. PICK ch : Reads(ch)
  BY DEF Read, ReadSnapshot, ReadUpdate, InstrumentThrows, ReadBook, ReadTrades, TradesThrow,
         ReadOther
<1>2. /\ wire \in Seq(Msg) /\ wire # <<>> /\ Incoming = Head(wire) /\ Incoming \in Msg
      /\ wire' = Tail(wire) /\ sent' = sent /\ listed' = listed /\ MayContinue
  BY <1>1, ReadSteps
<1>3. CASE InstrumentThrows
  BY <1>2, <1>3 DEF InstrumentThrows, Caught, OnRead, MayContinue
<1>4. CASE ReadSnapshot \/ ReadUpdate
  <2>1. RefdataAccept /\ Incoming.ch \in {"snapshot", "update"}
    BY <1>4, ReadSteps DEF ReadSnapshot, ReadUpdate, AcceptInstrument
  <2>2. \A s \in Symbols : Names(Incoming, s) <=> s \in DOMAIN Incoming.pairs
    BY <2>1 DEF Names
  <2>3. QED  BY <1>2, <2>1, <2>2 DEF RefdataAccept
<1>5. CASE ReadBook \/ ReadTrades \/ TradesThrow \/ ReadOther
  <2>1. precision' = precision
    BY <1>5 DEF ReadBook, ReadTrades, TradesThrow, ReadOther, refVars
  <2>2. Incoming.ch \notin {"snapshot", "update"}
    <3>1. \E c : c \notin {"snapshot", "update"} /\ Reads(c)
      BY <1>5 DEF ReadBook, ReadTrades, TradesThrow, ReadOther
    <3>2. QED  BY <3>1, ReadSteps
  <2>3. \A s : ~Names(Incoming, s)
    BY <2>2 DEF Names
  <2>4. QED  BY <1>2, <2>1, <2>3
<1>6. QED
  BY <1>3, <1>4, <1>5 DEF Read

\* The steps, by what they do to the wire and to refdata.
LEMMA PrecisionSteps ==
  ASSUME TypeOK, [Next]_vars
  PROVE  \/ ChangesSilently /\ link = "open" /\ UNCHANGED <<precision, queue, link>>
         \/ \E m : /\ Announces(m) \/ SendsBook(m) \/ SendsTrades(m) \/ SendsOther(m)
                   /\ link = "open" /\ UNCHANGED <<precision, queue, link>>
         \/ LinkLost /\ UNCHANGED <<precision, queue>>
         \/ Read /\ ~ReadError
         \/ UNCHANGED <<listed, wire, sent, precision>>
<1>1. CASE VenueStep
  <2>1. link = "open" /\ UNCHANGED <<precision, queue, link>>
    BY <1>1 DEF VenueStep, engineVars, refVars, sessionVars
  <2>2. QED  BY <1>1, <2>1, VenueStepSends DEF VenueSends
<1>2. CASE LinkLost
  BY <1>2 DEF LinkLost, engineVars, refVars
<1>3. CASE Read /\ ~ReadError
  BY <1>3
<1>4. CASE \/ Connect \/ Interrupt \/ PingFails \/ Process \/ ReadError \/ Exit
           \/ UNCHANGED vars
  BY <1>4 DEF Connect, Interrupt, PingFails, Process, OnProcessTimer, ProcessOne,
              ProcessThrows, ReadError, Exit, vars, venueVars, refVars
<1>5. QED
  BY <1>1, <1>2, <1>3, <1>4 DEF Next, Read, Terminated

LEMMA NextUnannounced == TypeOK /\ Unannounced /\ [Next]_vars => Unannounced'
<1> SUFFICES ASSUME TypeOK, Unannounced, [Next]_vars, sent'["snapshot"] = 0
             PROVE  \A s \in Symbols : ~Known(s)' /\ \A i \in DOMAIN wire' : ~Names(wire'[i], s)
  BY DEF Unannounced, Names
<1>1. wire \in Seq(Msg) /\ DOMAIN wire = 1 .. Len(wire) /\ Len(wire) \in Nat
  BY LenProperties DEF TypeOK, VenueTypeOK
<1>2. sent["snapshot"] = 0 =>
        \A s \in Symbols : ~Known(s) /\ \A i \in DOMAIN wire : ~Names(wire[i], s)
  BY DEF Unannounced
<1>3. CASE ChangesSilently /\ UNCHANGED precision
  BY <1>2, <1>3 DEF ChangesSilently, Known
<1>4. ASSUME NEW m, Announces(m) \/ SendsBook(m) \/ SendsTrades(m) \/ SendsOther(m),
             UNCHANGED precision
      PROVE  \A s \in Symbols : ~Known(s)' /\ \A i \in DOMAIN wire' : ~Names(wire'[i], s)
  <2>1. wire' = Append(wire, m) /\ sent["snapshot"] = 0 /\ \A s : ~Names(m, s)
    BY <1>4, SentMeans
  <2>2. \A i \in DOMAIN wire' : wire'[i] = m \/ (i \in DOMAIN wire /\ wire'[i] = wire[i])
    BY <1>1, <2>1
  <2>3. QED  BY <1>2, <1>4, <2>1, <2>2 DEF Known
<1>5. CASE LinkLost /\ UNCHANGED precision
  <2>1. PICK n \in 0 .. Len(wire) : wire' = SubSeq(wire, 1, n)
    BY <1>5, LinkLostWire
  <2>2. \A i \in DOMAIN wire' : i \in DOMAIN wire /\ wire'[i] = wire[i]
    BY <1>1, <2>1
  <2>3. sent' = sent
    BY <1>5, LinkLostWire
  <2>4. QED  BY <1>2, <1>5, <2>2, <2>3 DEF Known
<1>6. CASE Read /\ ~ReadError
  <2>1. /\ wire # <<>> /\ Incoming = Head(wire) /\ wire' = Tail(wire) /\ sent' = sent
        /\ \/ precision' = precision
           \/ \A s \in Symbols :
                precision'[s] = IF Names(Incoming, s) THEN Incoming.pairs[s] ELSE precision[s]
    BY <1>6, ReadMeans
  <2>2. /\ 1 \in DOMAIN wire /\ Incoming = wire[1]
        /\ \A i \in DOMAIN wire' : i + 1 \in DOMAIN wire /\ wire'[i] = wire[i + 1]
    BY <1>1, <2>1
  <2>3. \A s \in Symbols : precision'[s] = precision[s]
    BY <1>2, <2>1, <2>2
  <2>4. QED  BY <1>2, <2>1, <2>2, <2>3 DEF Known
<1>7. CASE UNCHANGED <<listed, wire, sent, precision>>
  BY <1>2, <1>7 DEF Known
<1>8. QED
  BY <1>3, <1>4, <1>5, <1>6, <1>7, PrecisionSteps

\* What is sent is stamped with what the wire already tells, or tells it itself.
LEMMA ToldSent ==
  ASSUME TypeOK, WireTold, EndTold, link = "open", UNCHANGED <<precision, link>>,
         NEW m, Announces(m) \/ SendsBook(m) \/ SendsTrades(m) \/ SendsOther(m)
  PROVE  (WireTold /\ EndTold)'
<1> DEFINE v == Append(wire, m)
           n == Len(wire)
<1>1. /\ wire \in Seq(Msg) /\ n \in Nat /\ DOMAIN wire = 1 .. n
      /\ Len(v) = n + 1 /\ DOMAIN v = 1 .. n + 1 /\ v[n + 1] = m
      /\ \A j \in 1 .. n : v[j] = wire[j]
  BY LenProperties DEF TypeOK, VenueTypeOK
<1>2. /\ wire' = v
      /\ \A s \in Symbols : /\ Names(m, s) => m.pairs[s] = listed'[s]
                            /\ ~Names(m, s) => listed'[s] = listed[s]
      /\ \A s, p : Stamped(m, s, p) => p = listed[s]
  BY SentMeans
<1>3. \A s \in Symbols : \A p : \A k \in 0 .. n :
        Told(wire, k, s, precision[s], p) => Told(v, k, s, precision[s], p)
  BY <1>1, ToldAppend
<1>4. \A s \in Symbols : Told(wire, n, s, precision[s], listed[s])
  BY DEF EndTold
<1>5. \A s \in Symbols : Told(v, n + 1, s, precision[s], listed'[s])
  BY <1>1, <1>2, <1>4, ToldAppend
<1> HIDE DEF v
<1>6. ASSUME NEW i \in DOMAIN v, NEW s \in Symbols, NEW p \in 0 .. MaxPrecision,
             Stamped(v[i], s, p)
      PROVE  Told(v, i - 1, s, precision[s], p)
  <2>1. CASE i = n + 1
    <3>1. p = listed[s]
      BY <1>1, <1>2, <1>6, <2>1
    <3>2. n \in 0 .. n /\ i - 1 = n
      BY <1>1, <2>1
    <3>3. QED  BY <1>3, <1>4, <3>1, <3>2
  <2>2. CASE i # n + 1
    <3>1. i \in DOMAIN wire /\ i - 1 \in 0 .. n /\ v[i] = wire[i]
      BY <1>1, <2>2
    <3>2. Told(wire, i - 1, s, precision[s], p)
      BY <1>6, <3>1 DEF WireTold
    <3>3. QED  BY <1>3, <3>1, <3>2
  <2>3. QED  BY <2>1, <2>2
<1>7. precision' = precision
  OBVIOUS
<1>8. WireTold'
  BY <1>2, <1>6, <1>7 DEF WireTold, Stamped, Told, Names
<1>9. EndTold'
  BY <1>1, <1>2, <1>5, <1>7 DEF EndTold, Told, Names
<1>10. QED
  BY <1>8, <1>9

\* What is read is known, and what was told of later is told still.
LEMMA ToldRead ==
  ASSUME TypeOK, NoLinkYet, WireTold, EndTold, [Next]_vars, Read, ~ReadError, MayContinue'
  PROVE  (WireTold /\ EndTold)'
<1> DEFINE v == Tail(wire)
<1>1. /\ wire \in Seq(Msg) /\ wire # <<>> /\ Incoming = Head(wire)
      /\ wire' = v /\ listed' = listed
      /\ \A s \in Symbols :
           precision'[s] = IF Names(Incoming, s) THEN Incoming.pairs[s] ELSE precision[s]
  BY ReadMeans
<1>2. /\ Len(wire) \in Nat /\ DOMAIN wire = 1 .. Len(wire)
      /\ Len(v) = Len(wire) - 1 /\ DOMAIN v = 1 .. Len(wire) - 1
      /\ \A i \in 1 .. Len(wire) - 1 : v[i] = wire[i + 1]
  BY <1>1, LenProperties
<1>3. ASSUME NEW s \in Symbols, NEW p, NEW n \in 0 .. Len(wire) - 1,
             Told(wire, n + 1, s, precision[s], p)
      PROVE  Told(v, n, s, precision'[s], p)
  BY <1>1, <1>3, ToldTail
<1> HIDE DEF v
<1>4. ASSUME NEW i \in DOMAIN v, NEW s \in Symbols, NEW p \in 0 .. MaxPrecision,
             Stamped(v[i], s, p)
      PROVE  Told(v, i - 1, s, precision'[s], p)
  <2>1. i + 1 \in DOMAIN wire /\ v[i] = wire[i + 1] /\ i - 1 \in 0 .. Len(wire) - 1
    BY <1>2
  <2>2. Told(wire, (i + 1) - 1, s, precision[s], p)
    BY <1>4, <2>1 DEF WireTold
  <2>3. (i + 1) - 1 = (i - 1) + 1
    BY <2>1
  <2>4. QED  BY <1>3, <2>1, <2>2, <2>3
<1>5. ASSUME NEW s \in Symbols, link' # "broken"
      PROVE  Told(v, Len(v), s, precision'[s], listed'[s])
  <2>1. Told(wire, Len(wire), s, precision[s], listed[s])
    BY <1>5, LinkStaysBroken DEF EndTold
  <2>2. Len(v) \in 0 .. Len(wire) - 1 /\ Len(v) + 1 = Len(wire)
    <3>1. Len(wire) # 0
      BY <1>1, EmptySeq
    <3>2. QED  BY <1>2, <3>1
  <2>3. QED  BY <1>1, <1>3, <2>1, <2>2
<1>6. WireTold'
  BY <1>1, <1>4 DEF WireTold, Stamped, Told, Names
<1>7. EndTold'
  BY <1>1, <1>5 DEF EndTold, Told, Names
<1>8. QED
  BY <1>6, <1>7

LEMMA NextPrecisionTold ==
  TypeOK /\ NoLinkYet /\ PrecisionTold /\ [Next]_vars => PrecisionTold'
<1> SUFFICES ASSUME TypeOK, NoLinkYet, PrecisionTold, [Next]_vars, MayContinue'
             PROVE  (WireTold /\ EndTold)'
  BY NextUnannounced DEF PrecisionTold
<1>1. Unannounced /\ WireTold /\ EndTold /\ wire \in Seq(Msg)
  BY MayContinueBefore DEF PrecisionTold, TypeOK, VenueTypeOK
<1>2. CASE ChangesSilently /\ UNCHANGED precision
  <2>1. wire' = wire /\ \A s \in Symbols : ~Known(s) /\ \A i \in DOMAIN wire : ~Names(wire[i], s)
    BY <1>1, <1>2 DEF ChangesSilently, Unannounced
  <2>2. ASSUME NEW s \in Symbols PROVE Told(wire, Len(wire), s, precision[s], listed'[s])
    BY <1>1, <2>1, LenProperties DEF Told, Known
  <2>3. WireTold'
    BY <1>1, <1>2, <2>1 DEF WireTold, Stamped, Told, Names
  <2>4. EndTold'
    BY <1>2, <2>1, <2>2 DEF EndTold, Told, Names
  <2>5. QED  BY <2>3, <2>4
<1>3. ASSUME NEW m, Announces(m) \/ SendsBook(m) \/ SendsTrades(m) \/ SendsOther(m),
             link = "open", UNCHANGED <<precision, link>>
      PROVE  (WireTold /\ EndTold)'
  BY <1>1, <1>3, ToldSent
<1>4. CASE LinkLost /\ UNCHANGED precision
  <2>1. PICK n \in 0 .. Len(wire) : wire' = SubSeq(wire, 1, n)
    BY <1>4, LinkLostWire
  <2>2. link' = "broken"
    BY <1>4, LinkLostWire
  <2>3. DOMAIN wire' = 1 .. n /\ n <= Len(wire) /\ DOMAIN wire = 1 .. Len(wire) /\ Len(wire) \in Nat
    BY <1>1, <2>1, LenProperties
  <2>4. \A j \in 1 .. n : wire'[j] = wire[j]
    BY <1>1, <2>1
  <2>5. ASSUME NEW i \in DOMAIN wire', NEW s \in Symbols, NEW p \in 0 .. MaxPrecision,
               Stamped(wire'[i], s, p)
        PROVE  Told(wire', i - 1, s, precision[s], p)
    <3>1. i \in DOMAIN wire /\ wire'[i] = wire[i] /\ \A j \in 1 .. i - 1 : wire'[j] = wire[j]
      BY <2>3, <2>4
    <3>2. Told(wire, i - 1, s, precision[s], p)
      BY <1>1, <2>5, <3>1 DEF WireTold
    <3>3. QED  BY <3>1, <3>2, ToldSame
  <2>6. WireTold'
    BY <1>4, <2>5 DEF WireTold, Stamped, Told, Names
  <2>7. QED  BY <2>2, <2>6 DEF EndTold
<1>5. CASE Read /\ ~ReadError
  BY <1>1, <1>5, ToldRead
<1>6. CASE UNCHANGED <<listed, wire, sent, precision>>
  <2>1. link' # "broken" => link # "broken"
    BY LinkStaysBroken
  <2>2. QED  BY <1>1, <1>6, <2>1 DEF WireTold, EndTold, Stamped, Told, Names
<1>7. QED
  BY <1>2, <1>3, <1>4, <1>5, <1>6, PrecisionSteps

-----------------------------------------------------------------------------
(* The precision of the trades' rows.                                       *)

VenueTradeRows == {r \in TradeRow : r.prec = r.msg.prec}

\* The inductive form of TradesAtVenuePrecision.
TradesDated == tradeRows \in Seq(VenueTradeRows) /\ tradeWritten \in Seq(VenueTradeRows)

\* What refdata knows of the pairs of the trades it takes is what they are stamped with.
LEMMA TakenDated ==
  ASSUME TypeOK, PrecisionTold, [Next]_vars, Reads("trade")
  PROVE  \A i \in DOMAIN KnownTrades : precision[KnownTrades[i].sym] = KnownTrades[i].prec
<1> SUFFICES ASSUME NEW i \in DOMAIN KnownTrades
             PROVE  precision[KnownTrades[i].sym] = KnownTrades[i].prec
  OBVIOUS
<1>1. /\ wire \in Seq(Msg) /\ wire # <<>> /\ Incoming = Head(wire) /\ Incoming \in Msg
      /\ Incoming.ch = "trade" /\ MayContinue
  BY ReadSteps
<1>2. 1 \in DOMAIN wire /\ Incoming = wire[1]
  BY <1>1
<1>3. Incoming.trades \in Seq(Trade)
  BY <1>1, IncomingTypes
<1> DEFINE t == KnownTrades[i]
<1>4. /\ i \in DOMAIN Incoming.trades /\ t = Incoming.trades[i] /\ Known(t.sym)
  BY <1>3, KnownTradesFirst, KnownTradesKnown
<1>5. t \in Trade
  <2>1. ASSUME NEW ts \in Seq(Trade) PROVE \A k \in DOMAIN ts : ts[k] \in Trade
    OBVIOUS
  <2>2. QED  BY <1>3, <1>4, <2>1
<1> HIDE DEF t
<1>6. t.sym \in Symbols /\ t.prec \in 0 .. MaxPrecision
  BY <1>5 DEF Trade
<1>7. Stamped(wire[1], t.sym, t.prec)
  BY <1>1, <1>2, <1>4 DEF Stamped
<1>8. Told(wire, 1 - 1, t.sym, precision[t.sym], t.prec)
  BY <1>1, <1>2, <1>6, <1>7 DEF PrecisionTold, WireTold
<1>9. precision[t.sym] # 0 => precision[t.sym] = t.prec
  BY <1>8 DEF Told
<1>10. QED
  BY <1>4, <1>9 DEF Known, t

\* Rows of trades with the precision they are stamped with.
LEMMA TradeRowsDated ==
  ASSUME TypeOK, NEW ts \in Seq(Trade), \A i \in DOMAIN ts : precision[ts[i].sym] = ts[i].prec
  PROVE  TradeRows(ts) \in Seq(VenueTradeRows)
<1> DEFINE rs == TradeRows(ts)
<1>1. rs \in Seq(TradeRow) /\ DOMAIN rs = DOMAIN ts
  BY TradeRowsType DEF TradeRows
<1>2. \A i \in DOMAIN rs : rs[i].msg = ts[i] /\ rs[i].prec = precision[ts[i].sym]
  BY DEF TradeRows
<1> HIDE DEF rs
<1>3. Len(rs) \in Nat /\ DOMAIN rs = 1 .. Len(rs) /\ \A i \in DOMAIN rs : rs[i] \in TradeRow
  BY <1>1, LenProperties, ElementOfSeq
<1>4. \A i \in DOMAIN rs : rs[i] \in VenueTradeRows
  BY <1>1, <1>2, <1>3 DEF VenueTradeRows
<1>5. rs \in [1 .. Len(rs) -> VenueTradeRows]
  BY <1>1, <1>3, <1>4, LenProperties
<1>6. rs \in Seq(VenueTradeRows)
  BY <1>3, <1>5, SeqDef
<1>7. QED
  BY <1>6 DEF rs

LEMMA NextTradesDated ==
  TypeOK /\ PrecisionTold /\ TradesDated /\ [Next]_vars => TradesDated'
<1> SUFFICES ASSUME TypeOK, PrecisionTold, TradesDated, [Next]_vars PROVE TradesDated'
  OBVIOUS
<1> DEFINE G == VenueTradeRows
<1>1. tradeRows \in Seq(G) /\ tradeWritten \in Seq(G) /\ <<>> \in Seq(G)
  BY EmptySeq DEF TradesDated
<1>2. SUFFICES tradeRows' \in Seq(G) /\ tradeWritten' \in Seq(G)
  BY DEF TradesDated, VenueTradeRows, TradeRow, Trade
<1> HIDE DEF G
<1>3. CASE ReadTrades \/ TradesThrow
  <2>1. Reads("trade") /\ Incoming.trades \in Seq(Trade)
    BY <1>3, ReadsType, IncomingTypes DEF ReadTrades, TradesThrow
  <2>2. TradeRows(KnownTrades) \in Seq(G)
    BY <2>1, KnownTradesType, TakenDated, TradeRowsDated DEF G
  <2>3. \/ UNCHANGED tradeVars
        \/ TradeSink!Accept(TradeRows(KnownTrades)) \/ TradeSink!AddRows(TradeRows(KnownTrades))
        \/ TradeSink!AcceptThrows(TradeRows(KnownTrades))
    BY <1>3 DEF ReadTrades, TradesThrow
  <2>4. QED  BY <1>1, <2>2, <2>3, TradeRowsIn DEF tradeVars
<1>4. CASE ProcessThrows \/ Exit
  BY <1>1, <1>4, TradeRowsIn DEF ProcessThrows, Exit
<1>5. CASE \/ Connect \/ Interrupt \/ PingFails \/ OnProcessTimer \/ ProcessOne
           \/ ReadSnapshot \/ ReadUpdate \/ InstrumentThrows \/ ReadBook
           \/ ReadOther \/ ReadError \/ VenueStep \/ LinkLost \/ UNCHANGED vars
  <2>1. UNCHANGED <<tradeRows, tradeWritten>>
    BY <1>5 DEF Connect, Interrupt, PingFails, OnProcessTimer, ProcessOne, ReadSnapshot,
                ReadUpdate, InstrumentThrows, ReadBook, ReadOther, ReadError, VenueStep,
                LinkLost, vars, tradeVars
  <2>2. QED  BY <1>1, <2>1
<1>6. QED
  BY <1>3, <1>4, <1>5 DEF Next, Process, Read, Terminated

LEMMA InitPrecisionTold == Init => NoLinkYet /\ PrecisionTold
<1> SUFFICES ASSUME Init PROVE NoLinkYet /\ PrecisionTold
  OBVIOUS
<1>1. wire = <<>> /\ DOMAIN wire = {} /\ Len(wire) = 0 /\ link = "down"
  BY DEF Init, VenueInit, SessionInit
<1>2. \A s \in Symbols : precision[s] = 0
  BY DEF Init
<1>3. Unannounced /\ WireTold /\ EndTold
  BY <1>1, <1>2 DEF Unannounced, WireTold, EndTold, Told, Known
<1>4. QED
  BY <1>1, <1>3 DEF PrecisionTold, NoLinkYet

\* A trade is written with the precision its pair had at the venue when the trade was
\* sent: the connection keeps the order of the venue's messages and a trade is
\* formatted when it is read (src/engine.cpp:176-180, parquet/src/trade_sink.cpp:38-41).
THEOREM TradesAtVenuePrecisionCorrect == Spec => []TradesAtVenuePrecision
<1>1. Init => TradesDated
  BY EmptySeq DEF Init, TradeSink!SinkInit, TradesDated
<1>2. TradesDated => TradesAtVenuePrecision
  <2> SUFFICES ASSUME TradesDated, NEW rows \in {tradeRows, tradeWritten}, NEW i \in DOMAIN rows
               PROVE  rows[i].prec = rows[i].msg.prec
    BY DEF TradesAtVenuePrecision
  <2>1. rows \in Seq(VenueTradeRows)
    BY DEF TradesDated
  <2>2. rows[i] \in VenueTradeRows
    BY <2>1, LenProperties, ElementOfSeq
  <2>3. QED  BY <2>2 DEF VenueTradeRows
<1>3. QED
  BY <1>1, <1>2, TypeCorrect, InitPrecisionTold, NextNoLink, NextPrecisionTold,
     NextTradesDated, PTL DEF Spec

-----------------------------------------------------------------------------
(* The precision of the queue, and of the rows made from it.                *)

LEMMA BehindAppend ==
  ASSUME NEW w \in Seq(Msg), NEW m, NEW n \in Nat, NEW s, NEW l \in Nat, NEW k \in Nat, l <= k,
         NEW p \in Nat, Names(m, s) => m.pairs[s] = k, Behind(w, n, s, l, p)
  PROVE  Behind(Append(w, m), n, s, k, p)
<1> DEFINE v == Append(w, m)
<1>1. /\ Len(w) \in Nat /\ DOMAIN w = 1 .. Len(w) /\ DOMAIN v = 1 .. Len(w) + 1
      /\ \A j \in 1 .. Len(w) + 1 : v[j] = IF j <= Len(w) THEN w[j] ELSE m
  BY LenProperties
<1>2. p <= l /\ p <= k
  BY DEF Behind
<1>3. ASSUME NEW j \in DOMAIN v, j > n, Names(v[j], s)
      PROVE  p <= v[j].pairs[s]
  <2>1. CASE j <= Len(w)
    <3>1. j \in DOMAIN w /\ v[j] = w[j]
      BY <1>1, <2>1
    <3>2. QED  BY <1>3, <3>1 DEF Behind
  <2>2. CASE ~(j <= Len(w))
    <3>1. v[j] = m
      BY <1>1, <2>2
    <3> HIDE DEF v
    <3>2. QED  BY <1>2, <1>3, <3>1
  <2>3. QED  BY <2>1, <2>2
<1> HIDE DEF v
<1>4. QED
  BY <1>2, <1>3 DEF Behind, v

LEMMA BehindTail ==
  ASSUME NEW w \in Seq(Msg), w # <<>>, NEW n \in Nat, NEW k \in Nat, n <= k + 1, NEW s, NEW l, NEW p,
         Behind(w, n, s, l, p)
  PROVE  Behind(Tail(w), k, s, l, p)
<1> DEFINE v == Tail(w)
<1>1. /\ Len(w) \in Nat /\ DOMAIN w = 1 .. Len(w) /\ DOMAIN v = 1 .. Len(w) - 1
      /\ \A j \in 1 .. Len(w) - 1 : v[j] = w[j + 1]
  BY LenProperties
<1> HIDE DEF v
<1>2. ASSUME NEW j \in DOMAIN v, j > k, Names(v[j], s)
      PROVE  p <= v[j].pairs[s]
  <2>1. j + 1 \in DOMAIN w /\ j + 1 > n /\ v[j] = w[j + 1]
    BY <1>1, <1>2
  <2>2. QED  BY <1>2, <2>1 DEF Behind
<1>3. QED
  BY <1>2 DEF Behind, v

LEMMA BehindPrefix ==
  ASSUME NEW w, NEW v, \A j \in DOMAIN v : j \in DOMAIN w /\ v[j] = w[j],
         NEW n, NEW s, NEW l, NEW p, Behind(w, n, s, l, p)
  PROVE  Behind(v, n, s, l, p)
BY DEF Behind

LEMMA ListedTypes ==
  ASSUME TypeOK, TypeOK'
  PROVE  /\ MaxPrecision \in Nat /\ wire \in Seq(Msg)
         /\ \A s \in Symbols : listed[s] \in 0 .. MaxPrecision /\ listed'[s] \in 0 .. MaxPrecision
         /\ \A s \in Symbols : precision[s] \in 0 .. MaxPrecision
BY VenueAssumption DEF TypeOK, VenueTypeOK, RefTypeOK

\* What is behind the wire stays behind it.
LEMMA BehindStays ==
  ASSUME TypeOK, TypeOK', [Next]_vars, NEW s \in Symbols, NEW p \in 0 .. MaxPrecision,
         Behind(wire, 0, s, listed[s], p)
  PROVE  Behind(wire', 0, s, listed'[s], p)
<1>1. /\ wire \in Seq(Msg) /\ DOMAIN wire = 1 .. Len(wire) /\ Len(wire) \in Nat
      /\ p \in Nat /\ listed[s] \in Nat /\ listed'[s] \in Nat
  BY ListedTypes, LenProperties
<1>2. CASE ChangesSilently
  <2>1. wire' = wire /\ listed[s] <= listed'[s]
    BY <1>1, <1>2 DEF ChangesSilently
  <2>2. QED  BY <1>1, <2>1 DEF Behind
<1>3. ASSUME NEW m, Announces(m) \/ SendsBook(m) \/ SendsTrades(m) \/ SendsOther(m)
      PROVE  Behind(wire', 0, s, listed'[s], p)
  <2>1. /\ wire' = Append(wire, m) /\ listed[s] <= listed'[s]
        /\ Names(m, s) => m.pairs[s] = listed'[s]
    BY <1>1, <1>3, SentMeans
  <2>2. QED  BY <1>1, <2>1, BehindAppend
<1>4. CASE LinkLost
  <2>1. PICK n \in 0 .. Len(wire) : wire' = SubSeq(wire, 1, n)
    BY <1>4, LinkLostWire
  <2>2. \A j \in DOMAIN wire' : j \in DOMAIN wire /\ wire'[j] = wire[j]
    BY <1>1, <2>1
  <2>3. listed' = listed
    BY <1>4, LinkLostWire
  <2>4. QED  BY <2>2, <2>3, BehindPrefix
<1>5. CASE Read /\ ~ReadError
  <2>1. wire # <<>> /\ wire' = Tail(wire) /\ listed' = listed
    BY <1>5, ReadMeans
  <2>2. QED  BY <1>1, <2>1, BehindTail
<1>6. CASE UNCHANGED <<listed, wire, sent, precision>>
  BY <1>6
<1>7. QED
  BY <1>2, <1>3, <1>4, <1>5, <1>6, PrecisionSteps

\* What a message that is read is dated with is behind the rest of the wire.
LEMMA BehindRead ==
  ASSUME TypeOK, [Next]_vars, Read, ~ReadError, WireBehind,
         NEW s \in Symbols, NEW p \in 0 .. MaxPrecision, Dated(Incoming, s, p)
  PROVE  Behind(wire', 0, s, listed'[s], p)
<1>1. /\ wire \in Seq(Msg) /\ wire # <<>> /\ Incoming = Head(wire) /\ wire' = Tail(wire)
      /\ listed' = listed
  BY ReadMeans
<1>2. 1 \in DOMAIN wire /\ Incoming = wire[1]
  BY <1>1
<1>3. Behind(wire, 1, s, listed[s], p)
  BY <1>2 DEF WireBehind
<1>4. QED
  BY <1>1, <1>3, BehindTail

LEMMA NextWireBehind ==
  ASSUME TypeOK, TypeOK', [Next]_vars, WireBehind
  PROVE  WireBehind'
<1> SUFFICES ASSUME NEW i \in DOMAIN wire', NEW s \in Symbols, NEW p \in 0 .. MaxPrecision,
                    Dated(wire'[i], s, p)
             PROVE  Behind(wire', i, s, listed'[s], p)
  BY DEF WireBehind, Dated, Behind, Names
<1>1. /\ wire \in Seq(Msg) /\ DOMAIN wire = 1 .. Len(wire) /\ Len(wire) \in Nat
      /\ p \in Nat /\ listed[s] \in Nat /\ listed'[s] \in Nat
  BY ListedTypes, LenProperties
<1>2. CASE ChangesSilently
  <2>1. wire' = wire /\ listed[s] <= listed'[s]
    BY <1>1, <1>2 DEF ChangesSilently
  <2>2. Behind(wire, i, s, listed[s], p)
    BY <2>1 DEF WireBehind
  <2>3. QED  BY <1>1, <2>1, <2>2 DEF Behind
<1>3. ASSUME NEW m, Announces(m) \/ SendsBook(m) \/ SendsTrades(m) \/ SendsOther(m)
      PROVE  Behind(wire', i, s, listed'[s], p)
  <2>1. /\ wire' = Append(wire, m) /\ listed[s] <= listed'[s]
        /\ Names(m, s) => m.pairs[s] = listed'[s]
        /\ ~Names(m, s) => listed'[s] = listed[s]
        /\ Stamped(m, s, p) => p = listed[s] /\ ~Names(m, s)
    BY <1>1, <1>3, SentMeans
  <2>2. DOMAIN wire' = 1 .. Len(wire) + 1 /\ wire'[i] = IF i <= Len(wire) THEN wire[i] ELSE m
    BY <1>1, <2>1
  <2>3. CASE i <= Len(wire)
    <3>1. i \in DOMAIN wire /\ wire'[i] = wire[i] /\ i \in Nat
      BY <1>1, <2>2, <2>3
    <3>2. Behind(wire, i, s, listed[s], p)
      BY <3>1 DEF WireBehind
    <3>3. QED  BY <1>1, <2>1, <3>1, <3>2, BehindAppend
  <2>4. CASE ~(i <= Len(wire))
    <3>1. wire'[i] = m /\ \A j \in DOMAIN wire' : ~(j > i)
      BY <1>1, <2>2, <2>4
    <3>2. CASE Names(m, s) /\ m.pairs[s] = p
      BY <1>1, <2>1, <3>1, <3>2 DEF Behind
    <3>3. CASE m.ch = "book" /\ m.sym = s /\ m.prec = p
      <4>1. p = listed'[s]
        BY <2>1, <3>3 DEF Stamped
      <4>2. QED  BY <1>1, <3>1, <4>1 DEF Behind
    <3>4. QED  BY <3>1, <3>2, <3>3 DEF Dated
  <2>5. QED  BY <2>3, <2>4
<1>4. CASE LinkLost
  <2>1. PICK n \in 0 .. Len(wire) : wire' = SubSeq(wire, 1, n)
    BY <1>4, LinkLostWire
  <2>2. \A j \in DOMAIN wire' : j \in DOMAIN wire /\ wire'[j] = wire[j]
    BY <1>1, <2>1
  <2>3. listed' = listed
    BY <1>4, LinkLostWire
  <2>4. Behind(wire, i, s, listed[s], p)
    BY <2>2 DEF WireBehind
  <2>5. QED  BY <2>2, <2>3, <2>4, BehindPrefix
<1>5. CASE Read /\ ~ReadError
  <2>1. wire # <<>> /\ wire' = Tail(wire) /\ listed' = listed
    BY <1>5, ReadMeans
  <2>2. i \in Nat /\ i + 1 \in DOMAIN wire /\ wire'[i] = wire[i + 1]
    BY <1>1, <2>1
  <2>3. Behind(wire, i + 1, s, listed[s], p)
    BY <2>2 DEF WireBehind
  <2>4. QED  BY <2>1, <1>1, <2>2, <2>3, BehindTail
<1>6. CASE UNCHANGED <<listed, wire, sent, precision>>
  BY <1>6 DEF WireBehind
<1>7. QED
  BY <1>2, <1>3, <1>4, <1>5, <1>6, PrecisionSteps

\* Where the messages of the queue come from.
LEMMA QueueFrom ==
  ASSUME TypeOK, TodoQueued, [Next]_vars, NEW k \in DOMAIN queue'
  PROVE  \/ \E j \in DOMAIN queue : queue'[k] = queue[j]
         \/ ReadBook /\ queue'[k] = Incoming
<1>1. queue \in Seq(BookMsg) /\ DOMAIN queue = 1 .. Len(queue) /\ Len(queue) \in Nat
  BY LenProperties DEF TypeOK
<1>2. CASE ReadBook
  <2>1. queue' = Append(queue, Incoming)
    BY <1>2 DEF ReadBook
  <2>2. /\ k \in 1 .. Len(queue) + 1
        /\ queue'[k] = IF k <= Len(queue) THEN queue[k] ELSE Incoming
    BY <1>1, <2>1
  <2>3. k <= Len(queue) => k \in DOMAIN queue
    BY <1>1, <2>2
  <2>4. QED  BY <1>2, <2>2, <2>3
<1>3. CASE ProcessOne
  <2>1. queue # <<>> /\ queue' = Tail(queue)
    BY <1>3, FrontType DEF ProcessOne
  <2>2. k + 1 \in DOMAIN queue /\ queue'[k] = queue[k + 1]
    BY <1>1, <2>1
  <2>3. QED  BY <2>2
<1>4. CASE \/ Connect \/ Interrupt \/ PingFails \/ OnProcessTimer \/ ProcessThrows
           \/ ReadSnapshot \/ ReadUpdate \/ InstrumentThrows \/ ReadTrades \/ TradesThrow
           \/ ReadOther \/ ReadError \/ Exit \/ VenueStep \/ LinkLost \/ UNCHANGED vars
  <2>1. queue' = queue
    BY <1>4 DEF Connect, Interrupt, PingFails, OnProcessTimer, ProcessThrows, ReadSnapshot,
                ReadUpdate, InstrumentThrows, ReadTrades, TradesThrow, ReadOther, ReadError,
                Exit, VenueStep, LinkLost, vars, engineVars
  <2>2. QED  BY <2>1
<1>5. QED
  BY <1>2, <1>3, <1>4 DEF Next, Process, Read, Terminated

LEMMA QueueTypes ==
  ASSUME TypeOK, NEW k \in DOMAIN queue
  PROVE  queue[k] \in BookMsg /\ queue[k].sym \in Symbols /\ queue[k].prec \in 0 .. MaxPrecision
<1>1. queue[k] \in BookMsg
  BY LenProperties, ElementOfSeq DEF TypeOK
<1>2. QED
  BY <1>1 DEF BookMsg

\* The message read is a book message of a symbol, at a precision.
LEMMA ReadBookTypes ==
  ASSUME TypeOK, [Next]_vars, ReadBook
  PROVE  /\ Read /\ ~ReadError /\ Incoming \in BookMsg /\ Incoming.ch = "book"
         /\ Incoming.sym \in Symbols /\ Incoming.prec \in 0 .. MaxPrecision
         /\ Dated(Incoming, Incoming.sym, Incoming.prec)
         /\ Stamped(Incoming, Incoming.sym, Incoming.prec)
<1>1. Reads("book") /\ Read
  BY DEF ReadBook, Read
<1>2. Incoming \in BookMsg /\ Incoming.ch = "book"
  BY <1>1, ReadsType, IncomingTypes
<1>3. ~ReadError
  <2>1. wire' # wire
    <3>1. wire \in Seq(Msg) /\ wire # <<>> /\ wire' = Tail(wire)
      BY <1>1, ReadSteps
    <3>2. Len(wire') = Len(wire) - 1 /\ Len(wire) \in Nat
      BY <3>1, LenProperties, HeadTailProperties
    <3>3. QED  BY <3>2
  <2>2. QED  BY <2>1 DEF ReadError, venueVars
<1>4. QED
  BY <1>1, <1>2, <1>3 DEF BookMsg, Dated, Stamped

LEMMA NextMonotone ==
  TypeOK /\ TypeOK' /\ TodoQueued /\ Monotone /\ [Next]_vars => Monotone'
<1> SUFFICES ASSUME TypeOK, TypeOK', TodoQueued, Monotone, [Next]_vars PROVE Monotone'
  OBVIOUS
<1>1. WireBehind /\ RefdataBehind /\ QueueBehind
  BY DEF Monotone
<1>2. WireBehind'
  BY <1>1, NextWireBehind
<1>3. ASSUME NEW s \in Symbols PROVE Behind(wire', 0, s, listed'[s], precision'[s])
  <2>1. CASE precision'[s] = precision[s]
    BY <1>1, <2>1, BehindStays, ListedTypes DEF RefdataBehind
  <2>2. CASE /\ Read /\ ~ReadError
             /\ precision'[s] = IF Names(Incoming, s) THEN Incoming.pairs[s] ELSE precision[s]
    <3>1. CASE Names(Incoming, s)
      <4>1. precision'[s] \in 0 .. MaxPrecision
        BY DEF TypeOK, RefTypeOK
      <4>2. Dated(Incoming, s, precision'[s])
        BY <2>2, <3>1 DEF Dated
      <4>3. QED  BY <1>1, <2>2, <4>1, <4>2, BehindRead
    <3>2. QED  BY <2>1, <2>2, <3>1
  <2>3. QED  BY <2>1, <2>2, PrecisionSteps, ReadMeans
<1>4. ASSUME NEW k \in DOMAIN queue'
      PROVE  Behind(wire', 0, queue'[k].sym, listed'[queue'[k].sym], queue'[k].prec)
  <2>1. CASE \E j \in DOMAIN queue : queue'[k] = queue[j]
    BY <1>1, <2>1, QueueTypes, BehindStays DEF QueueBehind
  <2>2. CASE ReadBook /\ queue'[k] = Incoming
    BY <1>1, <2>2, ReadBookTypes, BehindRead
  <2>3. QED  BY <2>1, <2>2, QueueFrom
<1>5. RefdataBehind' /\ QueueBehind'
  BY <1>3, <1>4 DEF RefdataBehind, QueueBehind, Behind, Names
<1>6. QED
  BY <1>2, <1>5 DEF Monotone

LEMMA NextQueueDated ==
  TypeOK /\ TodoQueued /\ PrecisionTold /\ Monotone /\ QueueDated /\ [Next]_vars => QueueDated'
<1> SUFFICES ASSUME TypeOK, TodoQueued, PrecisionTold, Monotone, QueueDated, [Next]_vars,
                    NEW k \in DOMAIN queue', precision'[queue'[k].sym] # 0
             PROVE  queue'[k].prec <= precision'[queue'[k].sym]
  BY DEF QueueDated, Known
<1> DEFINE m == queue'[k]
<1>1. ASSUME NEW j \in DOMAIN queue, m = queue[j]
      PROVE  m.prec <= precision'[m.sym]
  <2>1. m.sym \in Symbols
    BY <1>1, QueueTypes
  <2>2. CASE precision'[m.sym] = precision[m.sym]
    BY <1>1, <2>2 DEF QueueDated, Known
  <2>3. CASE Read /\ ~ReadError /\ Names(Incoming, m.sym) /\ precision'[m.sym] = Incoming.pairs[m.sym]
    <3>1. wire \in Seq(Msg) /\ wire # <<>> /\ Incoming = Head(wire)
      BY <2>3, ReadMeans
    <3>2. 1 \in DOMAIN wire /\ 1 > 0 /\ Incoming = wire[1]
      BY <3>1
    <3>3. Behind(wire, 0, m.sym, listed[m.sym], m.prec)
      BY <1>1 DEF Monotone, QueueBehind
    <3>4. QED  BY <2>3, <3>2, <3>3 DEF Behind
  <2>4. QED  BY <2>1, <2>2, <2>3, PrecisionSteps, ReadMeans
<1>2. CASE ReadBook /\ m = Incoming
  <2>1. /\ m.sym \in Symbols /\ m.prec \in 0 .. MaxPrecision /\ Stamped(m, m.sym, m.prec)
        /\ Read /\ ~ReadError
    BY <1>2, ReadBookTypes
  <2>2. /\ wire \in Seq(Msg) /\ wire # <<>> /\ Incoming = Head(wire) /\ MayContinue
    BY <2>1, ReadMeans
  <2>3. 1 \in DOMAIN wire /\ m = wire[1]
    BY <1>2, <2>2
  <2>4. Told(wire, 1 - 1, m.sym, precision[m.sym], m.prec)
    BY <2>1, <2>2, <2>3 DEF PrecisionTold, WireTold
  <2>5. precision' = precision
    BY <1>2 DEF ReadBook, refVars
  <2>6. precision[m.sym] = m.prec
    BY <2>4, <2>5 DEF Told
  <2>7. QED  BY <2>1, <2>5, <2>6
<1>3. QED
  BY <1>1, <1>2, QueueFrom

FreshBookRows == {r \in BookRow : r.prec >= r.msg.prec}

\* The inductive form of BookRowsNeverOlder.
BooksDated == bookRows \in Seq(FreshBookRows) /\ bookWritten \in Seq(FreshBookRows)

LEMMA NextBooksDated ==
  TypeOK /\ TodoQueued /\ QueueDated /\ BooksDated /\ [Next]_vars => BooksDated'
<1> SUFFICES ASSUME TypeOK, TodoQueued, QueueDated, BooksDated, [Next]_vars PROVE BooksDated'
  OBVIOUS
<1> DEFINE G == FreshBookRows
<1>1. bookRows \in Seq(G) /\ bookWritten \in Seq(G) /\ <<>> \in Seq(G)
  BY EmptySeq DEF BooksDated
<1>2. SUFFICES bookRows' \in Seq(G) /\ bookWritten' \in Seq(G)
  BY DEF BooksDated, FreshBookRows, BookRow, BookMsg
<1> HIDE DEF G
<1>3. CASE ProcessOne
  <2>1. CASE CaptureBook
    <3>1. todo > 0 /\ Known(Front.sym) /\ BookSink!Accept(<<FrontRow>>)
      BY <1>3, <2>1 DEF ProcessOne
    <3>2. queue \in Seq(BookMsg) /\ queue # <<>> /\ FrontRow \in BookRow
      BY <3>1, FrontType DEF TypeOK
    <3>3. 1 \in DOMAIN queue /\ Front = queue[1]
      BY <3>2 DEF Front
    <3>4. Front.prec <= precision[Front.sym]
      BY <3>1, <3>3 DEF QueueDated
    <3>5. Front.prec \in Nat /\ precision[Front.sym] \in Nat
      BY <3>3, QueueTypes, VenueAssumption DEF TypeOK, RefTypeOK
    <3>6. FrontRow.msg = Front /\ FrontRow.prec = precision[Front.sym]
      BY DEF FrontRow
    <3>7. FrontRow.prec >= FrontRow.msg.prec
      BY <3>4, <3>5, <3>6
    <3>8. <<FrontRow>> \in Seq(G)
      BY <3>2, <3>7 DEF G, FreshBookRows
    <3>9. QED  BY <1>1, <3>1, <3>8, BookRowsIn
  <2>2. CASE ~CaptureBook
    BY <1>1, <1>3, <2>2 DEF ProcessOne, bookVars
  <2>3. QED  BY <2>1, <2>2
<1>4. CASE ProcessThrows \/ Exit
  BY <1>1, <1>4, BookRowsIn DEF ProcessThrows, Exit
<1>5. CASE \/ Connect \/ Interrupt \/ PingFails \/ OnProcessTimer
           \/ (Read /\ UNCHANGED bookVars) \/ VenueStep \/ LinkLost \/ UNCHANGED vars
  <2>1. UNCHANGED <<bookRows, bookWritten>>
    BY <1>5 DEF Connect, Interrupt, PingFails, OnProcessTimer, VenueStep, LinkLost, vars,
                bookVars
  <2>2. QED  BY <1>1, <2>1
<1>6. Read => UNCHANGED bookVars
  BY DEF Read, ReadSnapshot, ReadUpdate, InstrumentThrows, ReadBook, ReadTrades, TradesThrow,
         ReadOther, ReadError
<1>7. QED
  BY <1>3, <1>4, <1>5, <1>6 DEF Next, Process, Terminated

LEMMA InitMonotone == Init => Monotone /\ QueueDated
<1> SUFFICES ASSUME Init PROVE Monotone /\ QueueDated
  OBVIOUS
<1>1. DOMAIN wire = {} /\ DOMAIN queue = {}
  BY DEF Init, VenueInit
<1>2. \A s \in Symbols : precision[s] = 0 /\ 0 <= listed[s]
  BY DEF Init, VenueInit
<1>3. QED
  BY <1>1, <1>2 DEF Monotone, WireBehind, RefdataBehind, QueueBehind, QueueDated, Behind

LEMMA PrecisionsCorrect ==
  Spec => [](TypeOK /\ TodoQueued /\ PrecisionTold /\ Monotone /\ QueueDated)
BY TypeCorrect, InitPrecisionTold, InitMonotone, NextNoLink, NextPrecisionTold, NextMonotone,
   NextQueueDated, PTL DEF Spec

\* A book message is never written with a precision older than its own: the instrument
\* messages that preceded it were handled before it was queued, and those handled while
\* it waits bring only later precisions (src/engine.cpp:171-174, 225-249).
THEOREM BookRowsNeverOlderCorrect == Spec => []BookRowsNeverOlder
<1>1. Init => BooksDated
  BY EmptySeq DEF Init, BookSink!SinkInit, BooksDated
<1>2. BooksDated => BookRowsNeverOlder
  <2> SUFFICES ASSUME BooksDated, NEW rows \in {bookRows, bookWritten}, NEW i \in DOMAIN rows
               PROVE  rows[i].prec >= rows[i].msg.prec
    BY DEF BookRowsNeverOlder
  <2>1. rows \in Seq(FreshBookRows)
    BY DEF BooksDated
  <2>2. rows[i] \in FreshBookRows
    BY <2>1, LenProperties, ElementOfSeq
  <2>3. QED  BY <2>2 DEF FreshBookRows
<1>3. QED
  BY <1>1, <1>2, PrecisionsCorrect, NextBooksDated, PTL DEF Spec

-----------------------------------------------------------------------------
(* What makes the process abort.                                            *)

LEMMA NextChecksumsSound ==
  TypeOK /\ TodoQueued /\ ChecksumsSound /\ [Next]_vars => ChecksumsSound'
<1> SUFFICES ASSUME TypeOK, TodoQueued, ChecksumsSound, [Next]_vars, "corrupt" \notin Faults
             PROVE  /\ \A i \in DOMAIN wire' : wire'[i].ch = "book" => wire'[i].ok
                    /\ \A k \in DOMAIN queue' : queue'[k].ok
  BY DEF ChecksumsSound
<1>1. /\ \A i \in DOMAIN wire : wire[i].ch = "book" => wire[i].ok
      /\ \A k \in DOMAIN queue : queue[k].ok
  BY DEF ChecksumsSound
<1>2. ASSUME NEW i \in DOMAIN wire', wire'[i].ch = "book" PROVE wire'[i].ok
  <2>1. CASE \E j \in DOMAIN wire : wire'[i] = wire[j]
    BY <1>1, <1>2, <2>1
  <2>2. CASE SendsBook(wire'[i])
    BY <2>2 DEF SendsBook
  <2>3. ~(Announces(wire'[i]) \/ SendsTrades(wire'[i]) \/ SendsOther(wire'[i]))
    BY <1>2 DEF Announces, SendsTrades, SendsOther, InstrumentMsg, TradeMsg, OtherMsg
  <2>4. QED  BY <2>1, <2>2, <2>3, WireFrom
<1>3. ASSUME NEW k \in DOMAIN queue' PROVE queue'[k].ok
  <2>1. CASE \E j \in DOMAIN queue : queue'[k] = queue[j]
    BY <1>1, <2>1
  <2>2. CASE ReadBook /\ queue'[k] = Incoming
    <3>1. Incoming.ch = "book" /\ Reads("book")
      BY <2>2, ReadBookTypes DEF ReadBook
    <3>2. wire \in Seq(Msg) /\ wire # <<>> /\ Incoming = Head(wire)
      BY <3>1, ReadSteps
    <3>3. 1 \in DOMAIN wire /\ Incoming = wire[1]
      BY <3>2
    <3>4. QED  BY <1>1, <2>2, <3>1, <3>3
  <2>3. QED  BY <2>1, <2>2, QueueFrom
<1>4. QED
  BY <1>2, <1>3

\* The process can only abort on a message that was overtaken: of a venue that sends
\* what was asked the pair is known, a sound checksum fails only at another precision
\* than the venue's, and that can only be a later one.
LEMMA NextAborts ==
  TypeOK /\ TodoQueued /\ QueueDated /\ ChecksumsSound /\ OnlyWantedSymbols
  /\ AbortsOnlyOvertaken /\ [Next]_vars => AbortsOnlyOvertaken'
<1> SUFFICES ASSUME TypeOK, TodoQueued, QueueDated, ChecksumsSound, OnlyWantedSymbols,
                    AbortsOnlyOvertaken, [Next]_vars, proc' = "aborted",
                    Faults \cap {"corrupt", "stray", "io"} = {}
             PROVE  Front'.prec < precision'[Front'.sym]
  BY DEF AbortsOnlyOvertaken
<1>1. CASE ProcessThrows
  <2>1. queue' = queue /\ precision' = precision /\ Front' = Front /\ todo > 0
    BY <1>1 DEF ProcessThrows, engineVars, Front
  <2>2. queue \in Seq(BookMsg) /\ queue # <<>>
    BY <2>1, FrontType DEF TypeOK
  <2>3. 1 \in DOMAIN queue /\ Front = queue[1]
    BY <2>2 DEF Front
  <2>4. Known(Front.sym) /\ Front.ok /\ Front.prec <= precision[Front.sym]
    BY <2>3 DEF OnlyWantedSymbols, ChecksumsSound, QueueDated
  <2>5. precision[Front.sym] # Front.prec
    BY <1>1, <2>4 DEF ProcessThrows, MayMismatch
  <2>6. Front.prec \in Nat /\ precision[Front.sym] \in Nat
    BY <2>3, QueueTypes, VenueAssumption DEF TypeOK, RefTypeOK
  <2>7. QED  BY <2>1, <2>4, <2>5, <2>6
<1>2. CASE ~ProcessThrows
  <2>1. proc = "aborted"
    <3>1. \/ proc' = proc \/ proc' = "exited"
      BY <1>2 DEF Next, Process, Read, Terminated, Connect, Interrupt, PingFails,
           OnProcessTimer, ProcessOne, ReadSnapshot, ReadUpdate, InstrumentThrows, ReadBook,
           ReadTrades, TradesThrow, ReadOther, ReadError, Exit, VenueStep, LinkLost, Reads,
           vars, mainVars
    <3>2. QED  BY <3>1
  <2>2. UNCHANGED vars
    BY <1>2, <2>1 DEF Next, Process, Read, Terminated, Connect, Interrupt, PingFails,
         OnProcessTimer, ProcessOne, ReadSnapshot, ReadUpdate, InstrumentThrows, ReadBook,
         ReadTrades, TradesThrow, ReadOther, ReadError, Exit, VenueStep, LinkLost, Reads,
         Dispatch
  <2>3. QED  BY <2>1, <2>2 DEF AbortsOnlyOvertaken, vars, engineVars, refVars, Front
<1>3. QED
  BY <1>1, <1>2

\* Of a venue whose feed is sound a timer handler throws on nothing but a book message
\* that was overtaken, in the queue, by a change of its pair's precision
\* (src/engine.cpp:235, kdr_record/kdr_record.cpp:117-121).
THEOREM AbortsOnlyOvertakenCorrect == Spec => []AbortsOnlyOvertaken
<1>1. Init => ChecksumsSound /\ AbortsOnlyOvertaken
  BY DEF Init, VenueInit, ChecksumsSound, AbortsOnlyOvertaken
<1>2. QED
  BY <1>1, PrecisionsCorrect, OnlyWantedSymbolsCorrect, NextChecksumsSound, NextAborts,
     PTL DEF Spec
=============================================================================
