--------------------------- MODULE RecorderProofs ---------------------------
(***************************************************************************)
(* Proofs about Recorder.  First its types.  Then the journals: nothing the*)
(* recorder took is lost, doubled or reordered while it runs, nor by an    *)
(* orderly exit, and what it does to the book messages is what Journal     *)
(* promises.  Then the chain of session_t's handlers: while it may go on,  *)
(* exactly one operation is outstanding, a stop is final, and the recorder *)
(* drives the session as Session says a client may.  Proved for any        *)
(* number of symbols, any batch size and threshold, any bounds on the      *)
(* venue and any set of faults.                                            *)
(***************************************************************************)
EXTENDS Recorder, RecorderJournal, SequenceTheorems, FiniteSetTheorems, TLAPS

BookLemmas == INSTANCE RowSinkProofs WITH Row <- BookRow, rows <- bookRows,
                count <- bookCount, written <- bookWritten, file <- bookFile
TradeLemmas == INSTANCE RowSinkProofs WITH Row <- TradeRow, rows <- tradeRows,
                 count <- tradeCount, written <- tradeWritten, file <- tradeFile

LEMMA SendOutcomesType ==
  ASSUME link \in Links
  PROVE  SendOutcomes \subseteq {"delivered", "lost", "failed"}
BY DEF SendOutcomes, Links

\* Every request's symbols are symbols, so what is published is, too.
LEMMA PublishedType ==
  ASSUME TypeOK, NEW ch
  PROVE  Published(ch) \subseteq Symbols
<1>1. \A i \in DOMAIN requests : requests[i] \in Request
  BY DEF TypeOK
<1>2. \A i \in DOMAIN requests : requests[i].symbols \subseteq Symbols
  BY <1>1 DEF Request
<1>3. QED
  BY <1>2 DEF Published, Delivered

\* One message more of a known kind keeps the types of the venue's variables.
LEMMA SendType ==
  ASSUME VenueTypeOK, NEW k \in Kinds, NEW m \in Msg, NEW n \in Nat,
         Send(k, m, n), UNCHANGED listed
  PROVE  VenueTypeOK'
<1>1. sent' = [sent EXCEPT ![k] = sent[k] + n] /\ wire' = Append(wire, m)
  BY DEF Send
<1>2. sent' \in [Kinds -> Nat]
  <2>1. sent \in [Kinds -> Nat] /\ sent[k] + n \in Nat
    BY DEF VenueTypeOK
  <2>2. QED  BY <1>1, <2>1
<1>3. wire' \in Seq(Msg)
  <2>1. wire \in Seq(Msg)
    BY DEF VenueTypeOK
  <2>2. QED  BY <1>1, <2>1, AppendProperties
<1>4. QED
  BY <1>2, <1>3 DEF VenueTypeOK

\* The venue's steps keep the types of its variables.
LEMMA VenueStepType ==
  ASSUME TypeOK, VenueStep
  PROVE  VenueTypeOK'
<1>1. VenueTypeOK
  BY DEF TypeOK
<1>2. /\ listed \in [Symbols -> 0 .. MaxPrecision] /\ wire \in Seq(Msg)
      /\ sent \in [Kinds -> Nat] /\ MaxPrecision \in Nat /\ MaxSent \in [Kinds -> Nat]
  BY <1>1, VenueAssumption DEF VenueTypeOK
<1>3. {"snapshot", "book", "trade", "other"} = Kinds
  BY DEF Kinds
<1>4. CASE SendSnapshot
  <2> DEFINE m == [ch |-> "snapshot", pairs |-> [s \in Listed |-> listed[s]]]
  <2>1. Listed \in SUBSET Symbols /\ \A s \in Listed : listed[s] \in Precision
    BY <1>2 DEF Listed, Precision
  <2>2. m.pairs \in [Listed -> Precision]
    BY <2>1
  <2>3. m \in Msg
    BY <2>1, <2>2 DEF Msg, InstrumentMsg
  <2>4. Send("snapshot", m, 1) /\ UNCHANGED listed
    BY <1>4 DEF SendSnapshot
  <2> HIDE DEF m
  <2>5. QED  BY <1>1, <1>3, <2>3, <2>4, SendType
<1>5. ASSUME NEW s \in Symbols, ChangePair(s)
      PROVE  VenueTypeOK'
  <2>1. /\ listed[s] < MaxPrecision /\ listed' = [listed EXCEPT ![s] = listed[s] + 1]
        /\ sent' = sent
    BY <1>5 DEF ChangePair
  <2>2. listed' \in [Symbols -> 0 .. MaxPrecision] /\ listed'[s] \in Precision
    BY <1>2, <2>1 DEF Precision
  <2> DEFINE m == [ch |-> "update", pairs |-> [x \in {s} |-> listed'[s]]]
  <2>3. m.pairs \in [{s} -> Precision] /\ {s} \in SUBSET Symbols
    BY <2>2
  <2>4. m \in Msg
    BY <2>3 DEF Msg, InstrumentMsg
  <2>5. wire' = wire \/ wire' = Append(wire, m)
    <3>1. wire' = IF sent["snapshot"] = 0 THEN wire ELSE Append(wire, m)
      BY <1>5, Zenon DEF ChangePair
    <3> HIDE DEF m
    <3>2. QED  BY <3>1
  <2> HIDE DEF m
  <2>6. wire' \in Seq(Msg)
    <3>1. wire \in Seq(Msg)
      BY <1>2
    <3>2. Append(wire, m) \in Seq(Msg)
      BY <2>4, <3>1, AppendProperties
    <3>3. QED  BY <2>5, <3>1, <3>2
  <2>7. QED  BY <1>2, <2>1, <2>2, <2>6 DEF VenueTypeOK
<1>6. ASSUME NEW s \in Symbols, NEW ok \in BOOLEAN, SendBook(s, ok)
      PROVE  VenueTypeOK'
  <2> DEFINE m == [ch |-> "book", id |-> sent["book"] + 1, sym |-> s,
                   prec |-> listed[s], ok |-> ok]
  <2>1. Send("book", m, 1) /\ UNCHANGED listed
    BY <1>6 DEF SendBook
  <2>2. sent["book"] + 1 <= MaxSent["book"] /\ sent["book"] \in Nat /\ MaxSent["book"] \in Nat
    BY <1>2, <1>3, <2>1 DEF Send
  <2>3. sent["book"] + 1 \in 1 .. MaxSent["book"] /\ listed[s] \in 0 .. MaxPrecision
    BY <1>2, <2>2
  <2>4. m \in Msg
    BY <2>3 DEF Msg, BookMsg
  <2> HIDE DEF m
  <2>5. QED  BY <1>1, <1>3, <2>1, <2>4, SendType
<1>7. ASSUME NEW ss \in Seq(Symbols), SendTrades(ss)
      PROVE  VenueTypeOK'
  <2> DEFINE ts == [i \in 1 .. Len(ss) |-> [id |-> sent["trade"] + i, sym |-> ss[i],
                                            prec |-> listed[ss[i]]]]
             m == [ch |-> "trade", trades |-> ts]
  <2>1. Send("trade", m, Len(ss)) /\ UNCHANGED listed
    BY <1>7 DEF SendTrades
  <2>2. /\ sent["trade"] + Len(ss) <= MaxSent["trade"] /\ Len(ss) \in Nat
        /\ sent["trade"] \in Nat /\ MaxSent["trade"] \in Nat
    BY <1>2, <1>3, <2>1 DEF Send
  <2>3. \A i \in 1 .. Len(ss) :
          /\ sent["trade"] + i \in 1 .. MaxSent["trade"]
          /\ ss[i] \in Symbols /\ listed[ss[i]] \in 0 .. MaxPrecision
    BY <1>2, <2>2
  <2>4. \A i \in 1 .. Len(ss) : ts[i] \in Trade
    BY <2>3 DEF Trade
  <2>5. ts \in [1 .. Len(ss) -> Trade]
    BY <2>4
  <2> HIDE DEF ts
  <2>6. ts \in Seq(Trade)
    BY <2>2, <2>5, SeqDef
  <2>7. m \in Msg
    BY <2>6 DEF Msg, TradeMsg
  <2> HIDE DEF m
  <2>8. QED  BY <1>1, <1>3, <2>1, <2>2, <2>7, SendType
<1>8. ASSUME NEW ch \in {"other", "malformed", "empty"}, SendOther(ch)
      PROVE  VenueTypeOK'
  <2>1. [ch |-> ch] \in Msg
    BY DEF Msg, OtherMsg
  <2>2. Send("other", [ch |-> ch], 1) /\ UNCHANGED listed
    BY <1>8 DEF SendOther
  <2>3. QED  BY <1>1, <1>3, <2>1, <2>2, SendType
<1>9. Published("book") \subseteq Symbols /\ Published("trade") \subseteq Symbols
  BY PublishedType
<1>10. \A s, t \in Symbols : <<s>> \in Seq(Symbols) /\ <<s, t>> \in Seq(Symbols)
  OBVIOUS
<1>11. QED
  BY <1>4, <1>5, <1>6, <1>7, <1>8, <1>9, <1>10 DEF VenueStep

\* The sinks' lemmas, of the book sink and of the trades sink.
LEMMA BookStepType ==
  ASSUME BookSink!SinkTypeOK, NEW rs \in Seq(BookRow),
         \/ BookSink!Accept(rs) \/ BookSink!Close \/ BookSink!CloseThrows \/ BookSink!Abandon
  PROVE  BookSink!SinkTypeOK'
BY BookLemmas!SinkStepType
   DEF BookSink!SinkTypeOK, BookLemmas!SinkTypeOK, BookSink!Accept, BookLemmas!Accept,
       BookSink!AddRows, BookLemmas!AddRows, BookSink!Flush, BookLemmas!Flush,
       BookSink!Close, BookLemmas!Close, BookSink!CloseThrows, BookLemmas!CloseThrows,
       BookSink!Abandon, BookLemmas!Abandon

LEMMA TradeStepType ==
  ASSUME TradeSink!SinkTypeOK, NEW rs \in Seq(TradeRow),
         \/ TradeSink!Accept(rs) \/ TradeSink!AddRows(rs) \/ TradeSink!AcceptThrows(rs)
         \/ TradeSink!Close \/ TradeSink!CloseThrows \/ TradeSink!Abandon
  PROVE  TradeSink!SinkTypeOK'
BY TradeLemmas!SinkStepType
   DEF TradeSink!SinkTypeOK, TradeLemmas!SinkTypeOK, TradeSink!Accept, TradeLemmas!Accept,
       TradeSink!AddRows, TradeLemmas!AddRows, TradeSink!Flush, TradeLemmas!Flush,
       TradeSink!AcceptThrows, TradeLemmas!AcceptThrows, TradeSink!Close, TradeLemmas!Close,
       TradeSink!CloseThrows, TradeLemmas!CloseThrows, TradeSink!Abandon, TradeLemmas!Abandon

LEMMA BookAcceptHolds ==
  ASSUME BookSink!SinkTypeOK, NEW rs \in Seq(BookRow), BookSink!Accept(rs)
  PROVE  /\ bookWritten' \o bookRows' = (bookWritten \o bookRows) \o rs
         /\ bookFile' = bookFile
         /\ bookCount = Len(bookRows) => bookCount' = Len(bookRows')
BY BookLemmas!AcceptHolds, BookLemmas!AcceptCounts
   DEF BookSink!SinkTypeOK, BookLemmas!SinkTypeOK, BookSink!Accept, BookLemmas!Accept,
       BookSink!AddRows, BookLemmas!AddRows, BookSink!Flush, BookLemmas!Flush,
       BookLemmas!Held

LEMMA TradeAcceptHolds ==
  ASSUME TradeSink!SinkTypeOK, NEW rs \in Seq(TradeRow),
         TradeSink!Accept(rs) \/ TradeSink!AddRows(rs)
  PROVE  /\ tradeWritten' \o tradeRows' = (tradeWritten \o tradeRows) \o rs
         /\ tradeFile' = tradeFile
         /\ tradeCount = Len(tradeRows) => tradeCount' = Len(tradeRows')
BY TradeLemmas!AcceptHolds, TradeLemmas!AcceptCounts
   DEF TradeSink!SinkTypeOK, TradeLemmas!SinkTypeOK, TradeSink!Accept, TradeLemmas!Accept,
       TradeSink!AddRows, TradeLemmas!AddRows, TradeSink!Flush, TradeLemmas!Flush,
       TradeLemmas!Held

\* The session's operations keep its types.
LEMMA SessionStepType ==
  ASSUME SessionTypeOK, NEW ok \in BOOLEAN, NEW outs,
         \/ OnResolve(ok) \/ OnConnect(ok) \/ OnSslHandshake(ok) \/ OnHandshake(ok)
         \/ Sent(outs) \/ OnRead(ok, outs) \/ OnReadEmpty \/ OnReadError
         \/ StopProcessing \/ LinkBreaks \/ UNCHANGED sessionVars
  PROVE  SessionTypeOK'
<1> USE DEF SessionTypeOK, Operations, Links, Fail
<1>1. CASE OnResolve(ok)  BY <1>1 DEF OnResolve
<1>2. CASE OnConnect(ok)  BY <1>2 DEF OnConnect
<1>3. CASE OnSslHandshake(ok)  BY <1>3 DEF OnSslHandshake
<1>4. CASE OnHandshake(ok)  BY <1>4 DEF OnHandshake
<1>5. CASE Sent(outs)  BY <1>5 DEF Sent
<1>6. CASE OnRead(ok, outs)  BY <1>6 DEF OnRead
<1>7. CASE OnReadEmpty  BY <1>7 DEF OnReadEmpty
<1>8. CASE OnReadError  BY <1>8 DEF OnReadError
<1>9. CASE StopProcessing  BY <1>9 DEF StopProcessing
<1>10. CASE LinkBreaks  BY <1>10 DEF LinkBreaks
<1>11. CASE UNCHANGED sessionVars  BY <1>11 DEF sessionVars
<1>12. QED
  BY <1>1, <1>2, <1>3, <1>4, <1>5, <1>6, <1>7, <1>8, <1>9, <1>10, <1>11

\* Reading takes a message off the wire.
LEMMA ReadsType ==
  ASSUME TypeOK, NEW ch, Reads(ch)
  PROVE  VenueTypeOK' /\ Incoming \in Msg /\ Incoming.ch = ch
<1>1. wire \in Seq(Msg) /\ wire # <<>>
  BY DEF TypeOK, VenueTypeOK, Reads
<1>2. Head(wire) \in Msg /\ Tail(wire) \in Seq(Msg)
  BY <1>1, HeadTailProperties
<1>3. QED
  BY <1>2 DEF TypeOK, VenueTypeOK, Reads, Incoming

LEMMA IncomingTypes ==
  ASSUME Incoming \in Msg
  PROVE  /\ Incoming.ch = "book" => Incoming \in BookMsg
         /\ Incoming.ch = "trade" => Incoming.trades \in Seq(Trade)
         /\ Incoming.ch \in {"snapshot", "update"} =>
              \A s \in DOMAIN Incoming.pairs : Incoming.pairs[s] \in Precision
BY DEF Msg, BookMsg, TradeMsg, InstrumentMsg, OtherMsg

\* The pairs of an instrument message are a batch, which refdata and the files take.
LEMMA InstrumentType ==
  ASSUME TypeOK, NEW ch \in {"snapshot", "update"}, Reads(ch)
  PROVE  Incoming.pairs \in Pairs
BY ReadsType DEF Msg, BookMsg, TradeMsg, InstrumentMsg, OtherMsg, Pairs

LEMMA RefdataAcceptType ==
  ASSUME TypeOK, NEW ch \in {"snapshot", "update"}, Reads(ch), RefdataAccept
  PROVE  precision' \in [Symbols -> 0 .. MaxPrecision]
<1>1. \A s \in DOMAIN Incoming.pairs : Incoming.pairs[s] \in Precision
  BY ReadsType, IncomingTypes
<1>2. Precision \subseteq 0 .. MaxPrecision
  BY VenueAssumption DEF Precision
<1>3. precision \in [Symbols -> 0 .. MaxPrecision]
  BY DEF TypeOK, RefTypeOK
<1>4. QED
  BY <1>1, <1>2, <1>3 DEF RefdataAccept

\* What a sink of batches does keeps its type.
LEMMA BatchStepTypes ==
  ASSUME RefTypeOK, NEW batch \in Pairs
  PROVE  /\ \/ AssetsSink!Write(batch) \/ AssetsSink!WriteThrows \/ AssetsSink!CloseBatches
            \/ AssetsSink!CloseBatchesThrows \/ AssetsSink!AbandonBatches
            => AssetsSink!BatchTypeOK'
         /\ \/ PairsSink!Write(batch) \/ PairsSink!WriteThrows \/ PairsSink!CloseBatches
            \/ PairsSink!CloseBatchesThrows \/ PairsSink!AbandonBatches
            \/ UNCHANGED <<pairsWritten, pairsFile>>
            => PairsSink!BatchTypeOK'
<1>1. assetsWritten \in Seq(Pairs) /\ pairsWritten \in Seq(Pairs)
  BY DEF RefTypeOK, AssetsSink!BatchTypeOK, PairsSink!BatchTypeOK
<1>2. Append(assetsWritten, batch) \in Seq(Pairs) /\ Append(pairsWritten, batch) \in Seq(Pairs)
  BY <1>1, AppendProperties
<1>3. QED
  BY <1>1, <1>2 DEF RefTypeOK, AssetsSink!BatchTypeOK, PairsSink!BatchTypeOK,
       AssetsSink!Write, AssetsSink!WriteThrows, AssetsSink!CloseBatches,
       AssetsSink!CloseBatchesThrows, AssetsSink!AbandonBatches,
       PairsSink!Write, PairsSink!WriteThrows, PairsSink!CloseBatches,
       PairsSink!CloseBatchesThrows, PairsSink!AbandonBatches

LEMMA AcceptInstrumentType ==
  ASSUME TypeOK, NEW ch \in {"snapshot", "update"}, Reads(ch), AcceptInstrument
  PROVE  RefTypeOK'
<1>1. AssetsSink!BatchTypeOK' /\ PairsSink!BatchTypeOK'
  BY InstrumentType, BatchStepTypes DEF AcceptInstrument, RecordPairs, TypeOK
<1>2. QED
  BY <1>1, RefdataAcceptType DEF AcceptInstrument, RefTypeOK

\* The rows made of a message's trades are typed, as is the known start of it.
LEMMA TradeRowsType ==
  ASSUME TypeOK, NEW ts \in Seq(Trade)
  PROVE  TradeRows(ts) \in Seq(TradeRow)
<1>1. Len(ts) \in Nat /\ DOMAIN ts = 1 .. Len(ts)
  BY LenProperties
<1>2. \A i \in 1 .. Len(ts) : ts[i] \in Trade
  BY ElementOfSeq
<1>3. \A i \in 1 .. Len(ts) : precision[ts[i].sym] \in 0 .. MaxPrecision
  BY <1>2 DEF TypeOK, RefTypeOK, Trade
<1>4. \A i \in 1 .. Len(ts) : [msg |-> ts[i], prec |-> precision[ts[i].sym]] \in TradeRow
  BY <1>2, <1>3 DEF TradeRow
<1>5. TradeRows(ts) \in [1 .. Len(ts) -> TradeRow]
  BY <1>1, <1>4 DEF TradeRows
<1>6. QED
  BY <1>1, <1>5, SeqDef

LEMMA KnownTradesType ==
  ASSUME Incoming.trades \in Seq(Trade)
  PROVE  KnownTrades \in Seq(Trade)
<1> DEFINE ts == Incoming.trades
           start == {i \in DOMAIN ts : \A j \in 1 .. i : Known(ts[j].sym)}
<1>1. DOMAIN ts = 1 .. Len(ts) /\ Len(ts) \in Nat /\ \A i \in 1 .. Len(ts) : ts[i] \in Trade
  BY LenProperties, ElementOfSeq
<1>2. IsFiniteSet(1 .. Len(ts)) /\ Cardinality(1 .. Len(ts)) = Len(ts)
  BY <1>1, FS_Interval
<1>3. start \subseteq 1 .. Len(ts)
  BY <1>1
<1>4. Cardinality(start) \in Nat /\ Cardinality(start) <= Len(ts)
  BY <1>2, <1>3, FS_Subset, FS_CardinalityType
<1>5. \A i \in 1 .. Cardinality(start) : ts[i] \in Trade
  BY <1>1, <1>4
<1> HIDE DEF ts, start
<1>6. SubSeq(ts, 1, Cardinality(start)) \in Seq(Trade)
  BY <1>4, <1>5, SubSeqProperties
<1>7. QED
  BY <1>6 DEF KnownTrades, ts, start

\* What FinishProcess changes keeps its types.
LEMMA FinishProcessType ==
  ASSUME TypeOK, FinishProcess
  PROVE  timer' = "on" /\ requests' \in Seq(Request) /\ SessionTypeOK'
<1>1. timer' = "on" /\ requests \in Seq(Request) /\ SessionTypeOK /\ link \in Links
  BY DEF FinishProcess, TypeOK, SessionTypeOK
<1>2. CASE timer = "first"
  <2>1. PICK out \in SendOutcomes :
          /\ requests' = Append(requests, [ch |-> "instrument", symbols |-> {},
                                           outcome |-> out])
          /\ Sent({out})
    BY <1>2 DEF FinishProcess
  <2>2. [ch |-> "instrument", symbols |-> {}, outcome |-> out] \in Request
    BY <1>1, <2>1, SendOutcomesType DEF Request
  <2>3. requests' \in Seq(Request)
    BY <1>1, <2>1, <2>2, AppendProperties
  <2>4. QED  BY <1>1, <2>1, <2>3, SessionStepType
<1>3. CASE timer # "first"
  <2>1. requests' = requests /\ UNCHANGED sessionVars
    BY <1>3 DEF FinishProcess
  <2>2. QED  BY <1>1, <2>1, SessionStepType
<1>4. QED
  BY <1>2, <1>3

\* The subscriptions made for some symbols are requests.
LEMMA SubscriptionsType ==
  ASSUME NEW symbols \in SUBSET Symbols, link \in Links,
         NEW book \in SendOutcomes, NEW trade \in SendOutcomes
  PROVE  Subscriptions(symbols, book, trade) \in Seq(Request)
<1> DEFINE b == [ch |-> "book", symbols |-> symbols, outcome |-> book]
           t == [ch |-> "trade", symbols |-> symbols, outcome |-> trade]
           bs == IF CaptureBook THEN <<b>> ELSE <<>>
           ts == IF CaptureTrades THEN <<t>> ELSE <<>>
<1>1. b \in Request /\ t \in Request
  BY SendOutcomesType DEF Request
<1> HIDE DEF b, t
<1>2. bs \in Seq(Request) /\ ts \in Seq(Request)
  BY <1>1
<1> HIDE DEF bs, ts
<1>3. bs \o ts \in Seq(Request)
  BY <1>2, ConcatProperties
<1>4. QED
  BY <1>3 DEF Subscriptions, bs, ts, b, t

\* The initial state is well typed.
LEMMA InitType == Init => TypeOK
<1> SUFFICES ASSUME Init PROVE TypeOK
  OBVIOUS
<1> USE VenueAssumption, RecorderAssumption
<1>1. SessionTypeOK
  BY DEF Init, SessionInit, SessionTypeOK, Operations, Links
<1>2. VenueTypeOK
  <2>1. <<>> \in Seq(Msg)
    BY EmptySeq
  <2>2. listed \in [Symbols -> 0 .. MaxPrecision]
    BY DEF Init, VenueInit
  <2>3. QED  BY <2>1, <2>2 DEF Init, VenueInit, VenueTypeOK
<1>3. BookSink!SinkTypeOK /\ TradeSink!SinkTypeOK
  BY DEF Init, BookSink!SinkInit, BookSink!SinkTypeOK, TradeSink!SinkInit, TradeSink!SinkTypeOK
<1>4. RefTypeOK
  BY EmptySeq DEF Init, RefTypeOK, AssetsSink!BatchInit, AssetsSink!BatchTypeOK,
                  PairsSink!BatchInit, PairsSink!BatchTypeOK
<1>5. /\ 0 \in 0 .. BatchSize /\ <<>> \in Seq(BookMsg) /\ <<>> \in Seq(Request)
      /\ <<>> \in Seq(Trade)
  BY EmptySeq DEF Init
<1>6. QED
  BY <1>1, <1>2, <1>3, <1>4, <1>5 DEF Init, TypeOK

\* on_process_timer never counts more messages than there are in the queue.
TodoQueued == todo <= Len(queue)

\* The message at the front of the queue makes a row.
LEMMA FrontType ==
  ASSUME TypeOK, TodoQueued, todo > 0
  PROVE  /\ queue # <<>> /\ Front \in BookMsg /\ FrontRow \in BookRow
         /\ queue = <<Front>> \o Tail(queue)
         /\ Tail(queue) \in Seq(BookMsg) /\ Len(Tail(queue)) = Len(queue) - 1
<1>1. queue \in Seq(BookMsg) /\ todo \in Nat
  BY RecorderAssumption DEF TypeOK
<1>2. queue # <<>>
  BY <1>1, EmptySeq DEF TodoQueued
<1>3. /\ Front \in BookMsg /\ queue = <<Front>> \o Tail(queue)
      /\ Tail(queue) \in Seq(BookMsg) /\ Len(Tail(queue)) = Len(queue) - 1
  BY <1>1, <1>2, HeadTailProperties DEF Front
<1>4. FrontRow \in BookRow
  BY <1>3 DEF FrontRow, BookRow, BookMsg, TypeOK, RefTypeOK
<1>5. QED
  BY <1>2, <1>3, <1>4

\* Every step keeps the types.
LEMMA NextType == TypeOK /\ TodoQueued /\ [Next]_vars => TypeOK'
<1> SUFFICES ASSUME TypeOK, TodoQueued, [Next]_vars PROVE TypeOK'
  OBVIOUS
<1>1. /\ SessionTypeOK /\ VenueTypeOK
      /\ BookSink!SinkTypeOK /\ TradeSink!SinkTypeOK
      /\ queue \in Seq(BookMsg) /\ requests \in Seq(Request)
      /\ RefTypeOK
      /\ received \in Seq(BookMsg) /\ traded \in Seq(Trade) /\ link \in Links
      /\ TRUE \in BOOLEAN /\ FALSE \in BOOLEAN
  BY DEF TypeOK, SessionTypeOK
\* What stays as it is keeps its type.
<1>2. /\ UNCHANGED sessionVars => SessionTypeOK'
      /\ UNCHANGED venueVars => VenueTypeOK'
      /\ UNCHANGED bookVars => BookSink!SinkTypeOK'
      /\ UNCHANGED tradeVars => TradeSink!SinkTypeOK'
      /\ UNCHANGED refVars => RefTypeOK'
  BY <1>1 DEF sessionVars, venueVars, bookVars, tradeVars, refVars, SessionTypeOK,
              VenueTypeOK, BookSink!SinkTypeOK, TradeSink!SinkTypeOK, RefTypeOK,
              AssetsSink!BatchTypeOK, PairsSink!BatchTypeOK
<1>3. CASE Connect
  <2>1. SessionTypeOK'
    BY <1>1, <1>3, SessionStepType DEF Connect
  <2>2. timer' \in {"off", "first", "on"}
    BY <1>3 DEF Connect, TypeOK
  <2>3. QED  BY <1>2, <1>3, <2>1, <2>2 DEF Connect, TypeOK, mainVars, history
<1>4. CASE Interrupt
  BY <1>2, <1>4 DEF Interrupt, TypeOK, engineVars, history
<1>5. CASE PingFails
  <2>1. SessionTypeOK'
    BY <1>1, <1>5, SessionStepType DEF PingFails
  <2>2. QED  BY <1>2, <1>5, <2>1 DEF PingFails, TypeOK, mainVars, engineVars, history
<1>6. CASE OnProcessTimer
  <2>1. CASE queue = <<>>
    <3>1. FinishProcess /\ todo' = todo
      BY <1>6, <2>1 DEF OnProcessTimer
    <3>2. QED
      BY <1>2, <1>6, <3>1, FinishProcessType DEF OnProcessTimer, TypeOK, mainVars, history
  <2>2. CASE queue # <<>>
    <3>1. todo' = NumToProcess /\ UNCHANGED <<timer, requests, sessionVars>>
      BY <1>6, <2>2 DEF OnProcessTimer
    <3>2. NumToProcess \in 0 .. BatchSize
      BY <1>1, LenProperties, RecorderAssumption DEF NumToProcess
    <3>3. QED
      BY <1>2, <1>6, <3>1, <3>2 DEF OnProcessTimer, TypeOK, mainVars, history
  <2>3. QED  BY <2>1, <2>2
<1>7. CASE ProcessOne
  <2>1. todo > 0 /\ todo' = todo - 1 /\ queue' = Tail(queue)
    BY <1>7 DEF ProcessOne
  <2>2. todo' \in 0 .. BatchSize /\ queue' \in Seq(BookMsg) /\ FrontRow \in BookRow
    BY <2>1, FrontType, RecorderAssumption DEF TypeOK
  <2>3. BookSink!SinkTypeOK'
    <3>1. BookSink!Accept(<<FrontRow>>) \/ UNCHANGED bookVars
      BY <1>7 DEF ProcessOne
    <3>2. <<FrontRow>> \in Seq(BookRow)
      BY <2>2
    <3>3. QED  BY <1>1, <1>2, <3>1, <3>2, BookStepType
  <2>4. timer' \in {"off", "first", "on"} /\ requests' \in Seq(Request) /\ SessionTypeOK'
    <3>1. FinishProcess \/ UNCHANGED <<timer, requests, sessionVars>>
      BY <1>7 DEF ProcessOne
    <3>2. QED  BY <1>1, <1>2, <3>1, FinishProcessType DEF TypeOK
  <2>5. QED
    BY <1>2, <1>7, <2>2, <2>3, <2>4 DEF ProcessOne, TypeOK, mainVars, history
<1>8. CASE ProcessThrows
  <2>1. BookSink!SinkTypeOK' /\ TradeSink!SinkTypeOK'
    BY <1>1, <1>8, EmptySeq, BookStepType, TradeStepType DEF ProcessThrows
  <2>2. RefTypeOK'
    <3>1. [s \in {} |-> 1] \in Pairs
      BY DEF Pairs
    <3>2. AssetsSink!AbandonBatches /\ PairsSink!AbandonBatches /\ UNCHANGED precision
      BY <1>8 DEF ProcessThrows
    <3>3. QED  BY <1>1, <3>1, <3>2, BatchStepTypes DEF RefTypeOK
  <2>3. QED  BY <1>2, <1>8, <2>1, <2>2 DEF ProcessThrows, TypeOK, engineVars, history
<1>9. CASE InstrumentThrows
  <2>1. PICK ch \in {"snapshot", "update"} : Reads(ch)
    BY <1>9 DEF InstrumentThrows
  <2>2. VenueTypeOK' /\ SessionTypeOK'
    BY <1>1, <1>9, <2>1, ReadsType, SessionStepType DEF InstrumentThrows, Caught
  <2>3. RefTypeOK'
    BY <1>1, <1>9, <2>1, InstrumentType, BatchStepTypes DEF InstrumentThrows, RefTypeOK
  <2>4. QED
    BY <1>2, <1>9, <2>1, <2>2, <2>3 DEF InstrumentThrows, Reads, TypeOK, mainVars, history
<1>10. CASE ReadSnapshot
  <2>1. Reads("snapshot") /\ AcceptInstrument
    BY <1>10 DEF ReadSnapshot
  <2>2. VenueTypeOK' /\ RefTypeOK'
    BY <2>1, ReadsType, AcceptInstrumentType
  <2> DEFINE symbols == Filtered(DOMAIN Incoming.pairs)
  <2>3. symbols \in SUBSET Symbols
    BY <2>1, ReadsType DEF Msg, BookMsg, TradeMsg, InstrumentMsg, OtherMsg, Filtered
  <2>4. PICK book \in SendOutcomes, trade \in SendOutcomes :
          LET new == Subscriptions(symbols, book, trade)
          IN  /\ requests' = requests \o new
              /\ OnRead(TRUE, {new[i].outcome : i \in DOMAIN new})
    BY <1>10 DEF ReadSnapshot
  <2> HIDE DEF symbols
  <2>5. SessionTypeOK'
    BY <1>1, <2>4, SessionStepType
  <2>6. requests' \in Seq(Request)
    BY <1>1, <2>3, <2>4, SubscriptionsType, ConcatProperties
  <2>7. QED
    BY <1>2, <1>10, <2>1, <2>2, <2>5, <2>6 DEF ReadSnapshot, Reads, TypeOK, mainVars, history
<1>11. CASE ReadUpdate
  <2>1. VenueTypeOK' /\ SessionTypeOK' /\ RefTypeOK'
    BY <1>1, <1>11, ReadsType, AcceptInstrumentType, SessionStepType DEF ReadUpdate
  <2>2. QED
    BY <1>2, <1>11, <2>1 DEF ReadUpdate, Reads, TypeOK, mainVars, history
<1>12. CASE ReadBook
  <2>1. VenueTypeOK' /\ SessionTypeOK' /\ Incoming \in BookMsg
    BY <1>1, <1>12, ReadsType, IncomingTypes, SessionStepType DEF ReadBook
  <2>2. queue' \in Seq(BookMsg) /\ received' \in Seq(BookMsg)
    BY <1>1, <1>12, <2>1, AppendProperties DEF ReadBook
  <2>3. QED
    BY <1>2, <1>12, <2>1, <2>2 DEF ReadBook, Reads, TypeOK, mainVars
<1>13. CASE ReadTrades
  <2>1. VenueTypeOK' /\ SessionTypeOK' /\ Incoming.trades \in Seq(Trade)
    BY <1>1, <1>13, ReadsType, IncomingTypes, SessionStepType DEF ReadTrades
  <2>2. TradeSink!SinkTypeOK' /\ traded' \in Seq(Trade)
    BY <1>1, <1>2, <1>13, <2>1, TradeRowsType, TradeStepType, ConcatProperties DEF ReadTrades
  <2>3. QED
    BY <1>2, <1>13, <2>1, <2>2 DEF ReadTrades, Reads, TypeOK, mainVars
<1>14. CASE TradesThrow
  <2>1. VenueTypeOK' /\ SessionTypeOK' /\ Incoming.trades \in Seq(Trade)
    BY <1>1, <1>14, ReadsType, IncomingTypes, SessionStepType DEF TradesThrow, Caught
  <2>2. TradeSink!SinkTypeOK' /\ traded' \in Seq(Trade)
    BY <1>1, <1>14, <2>1, KnownTradesType, TradeRowsType, TradeStepType, ConcatProperties
       DEF TradesThrow
  <2>3. QED
    BY <1>2, <1>14, <2>1, <2>2 DEF TradesThrow, Reads, TypeOK, mainVars
<1>15. CASE ReadOther
  <2>1. VenueTypeOK' /\ SessionTypeOK'
    BY <1>1, <1>15, ReadsType, SessionStepType DEF ReadOther, Caught
  <2>2. QED
    BY <1>2, <1>15, <2>1 DEF ReadOther, Reads, TypeOK, mainVars, history
<1>16. CASE ReadError
  <2>1. SessionTypeOK'
    BY <1>1, <1>16, SessionStepType DEF ReadError
  <2>2. QED  BY <1>2, <1>16, <2>1 DEF ReadError, TypeOK, mainVars, engineVars, history
<1>17. CASE Exit
  <2>1. SessionTypeOK' /\ BookSink!SinkTypeOK' /\ TradeSink!SinkTypeOK'
    BY <1>1, <1>17, EmptySeq, SessionStepType, BookStepType, TradeStepType DEF Exit
  <2>2. RefTypeOK'
    <3>1. [s \in {} |-> 1] \in Pairs
      BY DEF Pairs
    <3>2. /\ AssetsSink!CloseBatches \/ AssetsSink!CloseBatchesThrows
          /\ PairsSink!CloseBatches \/ PairsSink!CloseBatchesThrows
          /\ UNCHANGED precision
      BY <1>17 DEF Exit
    <3>3. QED  BY <1>1, <3>1, <3>2, BatchStepTypes DEF RefTypeOK
  <2>3. QED  BY <1>2, <1>17, <2>1, <2>2 DEF Exit, TypeOK, history
<1>18. CASE VenueStep
  <2>1. VenueTypeOK'
    BY <1>18, VenueStepType
  <2>2. QED
    BY <1>2, <1>18, <2>1 DEF VenueStep, TypeOK, mainVars, engineVars, history
<1>19. CASE LinkLost
  <2>1. SessionTypeOK'
    BY <1>1, <1>19, SessionStepType DEF LinkLost
  <2>2. VenueTypeOK'
    <3>1. PICK n \in 0 .. Len(wire) : wire' = SubSeq(wire, 1, n)
      BY <1>19 DEF LinkLost, LoseInFlight
    <3>2. wire \in Seq(Msg) /\ Len(wire) \in Nat
      BY <1>1, LenProperties DEF VenueTypeOK
    <3>3. \A i \in 1 .. n : wire[i] \in Msg
      BY <3>2, ElementOfSeq
    <3>4. wire' \in Seq(Msg)
      BY <3>1, <3>2, <3>3, SubSeqProperties
    <3>5. QED  BY <1>1, <1>19, <3>4 DEF LinkLost, LoseInFlight, VenueTypeOK
  <2>3. QED
    BY <1>2, <1>19, <2>1, <2>2 DEF LinkLost, TypeOK, mainVars, engineVars, history
<1>20. CASE UNCHANGED vars
  BY <1>2, <1>20 DEF vars, TypeOK, mainVars, engineVars, history
<1>21. QED
  BY <1>3, <1>4, <1>5, <1>6, <1>7, <1>8, <1>9, <1>10, <1>11, <1>12, <1>13, <1>14, <1>15,
     <1>16, <1>17, <1>18, <1>19, <1>20 DEF Next, Process, Read, Terminated

\* The count of the messages still to process stays within the queue.
LEMMA NextTodo == TypeOK /\ TodoQueued /\ [Next]_vars => TodoQueued'
<1> SUFFICES ASSUME TypeOK, TodoQueued, [Next]_vars PROVE TodoQueued'
  OBVIOUS
<1>1. /\ queue \in Seq(BookMsg) /\ Len(queue) \in Nat
      /\ todo \in Nat /\ BatchSize \in Nat
  BY LenProperties, RecorderAssumption DEF TypeOK
<1>2. CASE OnProcessTimer
  <2>1. queue' = queue /\ (todo' = todo \/ todo' = NumToProcess)
    BY <1>2 DEF OnProcessTimer
  <2>2. QED  BY <1>1, <2>1 DEF NumToProcess, TodoQueued
<1>3. CASE ProcessOne
  <2>1. todo > 0 /\ todo' = todo - 1 /\ queue' = Tail(queue)
    BY <1>3 DEF ProcessOne
  <2>2. QED  BY <1>1, <2>1, FrontType DEF TodoQueued
<1>4. CASE ReadBook
  <2>1. Incoming \in BookMsg /\ queue' = Append(queue, Incoming) /\ todo' = todo
    BY <1>4, ReadsType, IncomingTypes DEF ReadBook, Reads
  <2>2. QED  BY <1>1, <2>1, AppendProperties DEF TodoQueued
<1>5. CASE \/ Connect \/ Interrupt \/ PingFails \/ ProcessThrows
           \/ ReadSnapshot \/ ReadUpdate \/ InstrumentThrows \/ ReadTrades \/ TradesThrow
           \/ ReadOther \/ ReadError \/ Exit \/ VenueStep \/ LinkLost \/ UNCHANGED vars
  <2>1. UNCHANGED <<todo, queue>>
    BY <1>5 DEF Connect, Interrupt, PingFails, ProcessThrows, ReadSnapshot, ReadUpdate,
                InstrumentThrows, ReadTrades, TradesThrow, ReadOther, ReadError, Exit,
                VenueStep, LinkLost, Reads, vars, engineVars
  <2>2. QED  BY <2>1 DEF TodoQueued
<1>6. QED
  BY <1>2, <1>3, <1>4, <1>5 DEF Next, Process, Read, Terminated

\* The variables keep their types, and on_process_timer never counts more
\* messages than are queued, so that it pops no empty queue (src/engine.cpp:232).
THEOREM TypeCorrect == Spec => [](TypeOK /\ TodoQueued)
<1>1. Init => TodoQueued
  BY EmptySeq DEF Init, TodoQueued
<1>2. QED
  BY <1>1, InitType, NextType, NextTodo, PTL DEF Spec

-----------------------------------------------------------------------------
(* Messages and rows.                                                       *)

\* The messages of rows are a sequence as long as the rows.
LEMMA MsgsType ==
  ASSUME NEW R, NEW M, \A r \in R : r.msg \in M, NEW s \in Seq(R)
  PROVE  Msgs(s) \in Seq(M) /\ Len(Msgs(s)) = Len(s) /\ \A i \in 1 .. Len(s) : Msgs(s)[i] = s[i].msg
<1>1. Len(s) \in Nat /\ DOMAIN s = 1 .. Len(s)
  BY LenProperties
<1>2. \A i \in 1 .. Len(s) : s[i].msg \in M
  BY ElementOfSeq
<1>3. Msgs(s) = [i \in 1 .. Len(s) |-> s[i].msg]
  BY <1>1 DEF Msgs
<1>4. Msgs(s) \in [1 .. Len(s) -> M]
  BY <1>2, <1>3
<1>5. Msgs(s) \in Seq(M)
  BY <1>1, <1>4, SeqDef
<1>6. DOMAIN Msgs(s) = 1 .. Len(s)
  BY <1>3
<1>7. Len(Msgs(s)) = Len(s)
  BY <1>1, <1>5, <1>6, LenProperties
<1>8. QED
  BY <1>3, <1>5, <1>7

\* The messages of more rows are more messages.
LEMMA MsgsConcat ==
  ASSUME NEW R, NEW M, \A r \in R : r.msg \in M, NEW s \in Seq(R), NEW t \in Seq(R)
  PROVE  Msgs(s \o t) = Msgs(s) \o Msgs(t)
<1>1. /\ s \o t \in Seq(R) /\ Len(s \o t) = Len(s) + Len(t)
      /\ \A i \in 1 .. Len(s) + Len(t) :
           (s \o t)[i] = IF i <= Len(s) THEN s[i] ELSE t[i - Len(s)]
  BY ConcatProperties
<1>2. /\ Msgs(s) \in Seq(M) /\ Len(Msgs(s)) = Len(s)
      /\ \A i \in 1 .. Len(s) : Msgs(s)[i] = s[i].msg
  BY MsgsType
<1>3. /\ Msgs(t) \in Seq(M) /\ Len(Msgs(t)) = Len(t)
      /\ \A i \in 1 .. Len(t) : Msgs(t)[i] = t[i].msg
  BY MsgsType
<1>4. /\ Msgs(s \o t) \in Seq(M) /\ Len(Msgs(s \o t)) = Len(s) + Len(t)
      /\ \A i \in 1 .. Len(s) + Len(t) : Msgs(s \o t)[i] = (s \o t)[i].msg
  BY <1>1, MsgsType
<1>5. /\ Msgs(s) \o Msgs(t) \in Seq(M)
      /\ Len(Msgs(s) \o Msgs(t)) = Len(Msgs(s)) + Len(Msgs(t))
      /\ \A i \in 1 .. Len(Msgs(s)) + Len(Msgs(t)) :
           (Msgs(s) \o Msgs(t))[i] = IF i <= Len(Msgs(s)) THEN Msgs(s)[i]
                                     ELSE Msgs(t)[i - Len(Msgs(s))]
  <2>1. Msgs(s) \in Seq(M) /\ Msgs(t) \in Seq(M)
    BY <1>2, <1>3
  <2>2. QED  BY ONLY <2>1, ConcatProperties
<1>6. Len(s) \in Nat /\ Len(t) \in Nat
  BY LenProperties
<1>7. ASSUME NEW i \in 1 .. Len(s) + Len(t)
      PROVE  Msgs(s \o t)[i] = (Msgs(s) \o Msgs(t))[i]
  <2>1. CASE i <= Len(s)
    <3>1. i \in 1 .. Len(s)
      BY <1>6, <2>1
    <3>2. Msgs(s \o t)[i] = s[i].msg
      BY <1>1, <1>4, <2>1
    <3>3. (Msgs(s) \o Msgs(t))[i] = s[i].msg
      BY <1>2, <1>3, <1>5, <2>1, <3>1
    <3>4. QED  BY <3>2, <3>3
  <2>2. CASE ~(i <= Len(s))
    <3>1. i - Len(s) \in 1 .. Len(t)
      BY <1>6, <2>2
    <3>2. Msgs(s \o t)[i] = t[i - Len(s)].msg
      BY <1>1, <1>4, <2>2
    <3>3. (Msgs(s) \o Msgs(t))[i] = t[i - Len(s)].msg
      BY <1>2, <1>3, <1>5, <2>2, <3>1
    <3>4. QED  BY <3>2, <3>3
  <2>3. QED  BY <2>1, <2>2
<1>8. QED
  <2> DEFINE u == Msgs(s \o t)
             v == Msgs(s) \o Msgs(t)
  <2>1. u \in Seq(M) /\ v \in Seq(M) /\ Len(u) = Len(v) /\ Len(u) = Len(s) + Len(t)
    BY <1>2, <1>3, <1>4, <1>5
  <2>2. \A i \in 1 .. Len(u) : u[i] = v[i]
    BY <1>7, <2>1
  <2> HIDE DEF u, v
  <2>3. u = v
    BY <2>1, <2>2, SeqEqual
  <2>4. QED  BY <2>3 DEF u, v

\* The messages of one row, and of the rows made of trades.
LEMMA MsgsOfFront ==
  ASSUME FrontRow \in BookRow
  PROVE  Msgs(<<FrontRow>>) = <<Front>>
BY DEF Msgs, FrontRow

LEMMA MsgsOfTradeRows ==
  ASSUME NEW ts \in Seq(Trade)
  PROVE  Msgs(TradeRows(ts)) = ts
<1>1. DOMAIN ts = 1 .. Len(ts) /\ ts = [i \in 1 .. Len(ts) |-> ts[i]]
  BY LenProperties
<1>2. Msgs(TradeRows(ts)) = [i \in 1 .. Len(ts) |-> ts[i]]
  BY <1>1 DEF Msgs, TradeRows
<1>3. QED
  BY <1>1, <1>2

LEMMA RowMsgs == (\A r \in BookRow : r.msg \in BookMsg) /\ (\A r \in TradeRow : r.msg \in Trade)
BY DEF BookRow, TradeRow

-----------------------------------------------------------------------------
(* The journal of book messages.                                            *)

\* A message the sink accepts leaves the queue for the rows, in order.
LEMMA JournalProcessOne ==
  ASSUME TypeOK, TodoQueued, BookJournal, ProcessOne
  PROVE  BookJournal'
<1> SUFFICES ASSUME CaptureBook, proc = "running"
             PROVE  received' = Msgs(bookWritten' \o bookRows') \o queue'
  BY DEF BookJournal, ProcessOne, mainVars
<1> DEFINE held == bookWritten \o bookRows
<1>1. BookSink!Accept(<<FrontRow>>) /\ queue' = Tail(queue) /\ received' = received
  BY DEF ProcessOne, history
<1>2. /\ FrontRow \in BookRow /\ Front \in BookMsg
      /\ queue = <<Front>> \o Tail(queue) /\ Tail(queue) \in Seq(BookMsg)
  BY FrontType DEF ProcessOne
<1>3. <<FrontRow>> \in Seq(BookRow) /\ <<Front>> \in Seq(BookMsg) /\ held \in Seq(BookRow)
  BY <1>2, ConcatProperties DEF TypeOK, BookSink!SinkTypeOK
<1>4. bookWritten' \o bookRows' = held \o <<FrontRow>>
  BY <1>1, <1>3, BookAcceptHolds DEF TypeOK
<1> HIDE DEF held
<1>5. Msgs(held \o <<FrontRow>>) = Msgs(held) \o <<Front>> /\ Msgs(held) \in Seq(BookMsg)
  BY <1>2, <1>3, MsgsConcat, MsgsType, MsgsOfFront, RowMsgs
<1>6. (Msgs(held) \o <<Front>>) \o Tail(queue) = Msgs(held) \o queue
  BY <1>2, <1>3, <1>5, ConcatAssociative
<1>7. received = Msgs(held) \o queue
  BY DEF BookJournal, held
<1>8. QED
  BY <1>1, <1>4, <1>5, <1>6, <1>7

\* A message read goes to the end of the queue.
LEMMA JournalReadBook ==
  ASSUME TypeOK, BookJournal, ReadBook
  PROVE  BookJournal'
<1> SUFFICES ASSUME CaptureBook, proc = "running"
             PROVE  received' = Msgs(bookWritten' \o bookRows') \o queue'
  BY DEF BookJournal, ReadBook, Reads, mainVars
<1> DEFINE held == bookWritten \o bookRows
<1>1. /\ queue' = Append(queue, Incoming) /\ received' = Append(received, Incoming)
      /\ bookWritten' \o bookRows' = held /\ Incoming \in BookMsg
  BY ReadsType, IncomingTypes DEF ReadBook, bookVars
<1>2. /\ held \in Seq(BookRow) /\ queue \in Seq(BookMsg) /\ received \in Seq(BookMsg)
      /\ <<Incoming>> \in Seq(BookMsg)
  BY <1>1, ConcatProperties DEF TypeOK, BookSink!SinkTypeOK
<1>3. received = Msgs(held) \o queue
  BY DEF BookJournal
<1> HIDE DEF held
<1>4. Msgs(held) \in Seq(BookMsg)
  BY <1>2, MsgsType, RowMsgs
<1>5. received \o <<Incoming>> = Msgs(held) \o (queue \o <<Incoming>>)
  BY <1>2, <1>3, <1>4, ConcatAssociative
<1>6. received' = received \o <<Incoming>> /\ queue' = queue \o <<Incoming>>
  BY <1>1, <1>2, AppendIsConcat
<1>7. QED
  BY <1>1, <1>5, <1>6

LEMMA NextBookJournal ==
  TypeOK /\ TodoQueued /\ BookJournal /\ [Next]_vars => BookJournal'
<1> SUFFICES ASSUME TypeOK, TodoQueued, BookJournal, [Next]_vars PROVE BookJournal'
  OBVIOUS
<1>1. CASE ProcessThrows \/ Exit
  BY <1>1 DEF ProcessThrows, Exit, BookJournal
<1>2. CASE \/ Connect \/ Interrupt \/ PingFails \/ OnProcessTimer
           \/ ReadSnapshot \/ ReadUpdate \/ InstrumentThrows \/ ReadTrades \/ TradesThrow
           \/ ReadOther \/ ReadError \/ VenueStep \/ LinkLost \/ UNCHANGED vars
  <2>1. UNCHANGED <<proc, queue, received, bookRows, bookWritten>>
    BY <1>2 DEF Connect, Interrupt, PingFails, OnProcessTimer, ReadSnapshot, ReadUpdate,
                InstrumentThrows, ReadTrades, TradesThrow, ReadOther, ReadError, Reads,
                VenueStep, LinkLost, vars, mainVars, engineVars, bookVars, history
  <2>2. QED  BY <2>1 DEF BookJournal
<1>3. QED
  BY <1>1, <1>2, JournalProcessOne, JournalReadBook DEF Next, Process, Read, Terminated

\* While the recorder runs, every book message it took is in the file's rows or
\* in the queue, once and in order (src/engine.cpp:171-249).
THEOREM BookJournalCorrect == Spec => []BookJournal
<1>1. Init => BookJournal
  <2> SUFFICES ASSUME Init PROVE BookJournal
    OBVIOUS
  <2>1. received = <<>> /\ queue = <<>> /\ bookWritten = <<>> /\ bookRows = <<>>
    BY DEF Init, BookSink!SinkInit
  <2>2. <<>> \o <<>> = <<>> /\ Msgs(<<>>) = <<>>
    BY DEF Msgs
  <2>3. QED  BY <2>1, <2>2 DEF BookJournal
<1>2. QED
  BY <1>1, TypeCorrect, NextBookJournal, PTL DEF Spec

-----------------------------------------------------------------------------
(* The journal of trades.                                                   *)

\* The trades a sink takes are written to the journal with their rows.
LEMMA JournalTrades ==
  ASSUME TypeOK, TradeJournal, NEW ts \in Seq(Trade), proc = "running", tradeFile = "open",
         TradeSink!Accept(TradeRows(ts)) \/ TradeSink!AddRows(TradeRows(ts)),
         traded' = traded \o ts
  PROVE  traded' = Msgs(tradeWritten' \o tradeRows')
<1> DEFINE held == tradeWritten \o tradeRows
<1>1. TradeRows(ts) \in Seq(TradeRow) /\ held \in Seq(TradeRow)
  BY TradeRowsType, ConcatProperties DEF TypeOK, TradeSink!SinkTypeOK
<1>2. tradeWritten' \o tradeRows' = held \o TradeRows(ts)
  <2>1. TradeSink!SinkTypeOK
    BY DEF TypeOK
  <2>2. QED  BY <1>1, <2>1, TradeAcceptHolds
<1>3. traded = Msgs(held)
  BY DEF TradeJournal
<1> HIDE DEF held
<1>4. Msgs(held \o TradeRows(ts)) = Msgs(held) \o ts
  <2>1. \A r \in TradeRow : r.msg \in Trade
    BY RowMsgs
  <2>2. Msgs(held \o TradeRows(ts)) = Msgs(held) \o Msgs(TradeRows(ts))
    BY <1>1, <2>1, MsgsConcat
  <2>3. QED  BY <2>2, MsgsOfTradeRows
<1>5. QED
  BY <1>2, <1>3, <1>4

LEMMA NextTradeJournal ==
  TypeOK /\ TradeJournal /\ [Next]_vars => TradeJournal'
<1> SUFFICES ASSUME TypeOK, TradeJournal, [Next]_vars, proc' = "running", tradeFile' = "open"
             PROVE  traded' = Msgs(tradeWritten' \o tradeRows')
  BY DEF TradeJournal
<1>1. CASE ReadTrades
  <2>1. Incoming.trades \in Seq(Trade) /\ proc = "running"
    BY <1>1, ReadsType, IncomingTypes DEF ReadTrades, Reads, Dispatch
  <2>2. CASE CaptureTrades
    <3>1. TradeSink!Accept(TradeRows(Incoming.trades)) /\ traded' = traded \o Incoming.trades
      BY <1>1, <2>2 DEF ReadTrades
    <3>2. tradeFile = "open"
      BY <2>1, <3>1, TradeRowsType, TradeAcceptHolds DEF TypeOK
    <3>3. QED  BY <2>1, <3>1, <3>2, JournalTrades
  <2>3. CASE ~CaptureTrades
    BY <1>1, <2>1, <2>3 DEF ReadTrades, TradeJournal, tradeVars
  <2>4. QED  BY <2>2, <2>3
<1>2. CASE TradesThrow
  <2>1. KnownTrades \in Seq(Trade) /\ proc = "running"
    BY <1>2, ReadsType, IncomingTypes, KnownTradesType DEF TradesThrow, Reads, Dispatch
  <2>2. TradeSink!AddRows(TradeRows(KnownTrades)) /\ traded' = traded \o KnownTrades
    BY <1>2 DEF TradesThrow, TradeSink!AcceptThrows
  <2>3. tradeFile = "open"
    BY <2>1, <2>2, TradeRowsType, TradeAcceptHolds DEF TypeOK
  <2>4. QED  BY <2>1, <2>2, <2>3, JournalTrades
<1>3. CASE \/ Connect \/ Interrupt \/ PingFails \/ OnProcessTimer \/ ProcessOne
           \/ ReadSnapshot \/ ReadUpdate \/ InstrumentThrows \/ ReadBook
           \/ ReadOther \/ ReadError \/ VenueStep \/ LinkLost \/ UNCHANGED vars
  <2>1. UNCHANGED <<proc, traded, tradeRows, tradeWritten, tradeFile>>
    BY <1>3 DEF Connect, Interrupt, PingFails, OnProcessTimer, ProcessOne, ReadSnapshot,
                ReadUpdate, InstrumentThrows, ReadBook, ReadOther, ReadError, Reads,
                VenueStep, LinkLost, vars, mainVars, engineVars, tradeVars, history
  <2>2. QED  BY <2>1 DEF TradeJournal
<1>4. CASE ProcessThrows \/ Exit
  BY <1>4 DEF ProcessThrows, Exit
<1>5. QED
  BY <1>1, <1>2, <1>3, <1>4 DEF Next, Process, Read, Terminated

\* While the recorder runs and its trades file is sound, every trade the sink was
\* given is in the file's rows, once and in order, though a message that names an
\* unknown symbol is taken half way (src/engine.cpp:176-180).
THEOREM TradeJournalCorrect == Spec => []TradeJournal
<1>1. Init => TradeJournal
  <2> SUFFICES ASSUME Init PROVE TradeJournal
    OBVIOUS
  <2>1. traded = <<>> /\ tradeWritten = <<>> /\ tradeRows = <<>>
    BY DEF Init, TradeSink!SinkInit
  <2>2. <<>> \o <<>> = <<>> /\ Msgs(<<>>) = <<>>
    BY DEF Msgs
  <2>3. QED  BY <2>1, <2>2 DEF TradeJournal
<1>2. QED
  BY <1>1, TypeCorrect, NextTradeJournal, PTL DEF Spec

-----------------------------------------------------------------------------
(* The row counts.                                                          *)

\* Main may run another handler, or an operation is outstanding that could set
\* m_keep_processing again.
MayContinue == proc = "running" /\ (keep \/ pending # "none")

\* The inductive form of CountsMatch: keep alone could become true again.
CountsHeld ==
  proc = "running" =>
    /\ bookCount = Len(bookRows)
    /\ tradeCount = Len(tradeRows) \/ (tradeFile = "damaged" /\ ~MayContinue)

\* Once main can run no further handler it never can.
LEMMA MayContinueBefore == [Next]_vars /\ MayContinue' => MayContinue
<1> SUFFICES ASSUME [Next]_vars, MayContinue' PROVE MayContinue
  OBVIOUS
<1>1. CASE \/ Connect \/ Interrupt \/ PingFails \/ OnProcessTimer
           \/ ReadSnapshot \/ ReadUpdate \/ InstrumentThrows \/ ReadBook \/ ReadTrades
           \/ TradesThrow \/ ReadOther \/ ReadError
  <2>1. Dispatch
    BY <1>1 DEF Connect, Interrupt, PingFails, OnProcessTimer, ReadSnapshot, ReadUpdate,
                InstrumentThrows, ReadBook, ReadTrades, TradesThrow, ReadOther, ReadError,
                Reads
  <2>2. QED  BY <2>1 DEF Dispatch, Continue, MayContinue
<1>2. CASE ProcessOne
  <2>1. FinishProcess \/ UNCHANGED sessionVars
    BY <1>2 DEF ProcessOne
  <2>2. CASE FinishProcess
    <3>1. UNCHANGED sessionVars \/ \E outs : Sent(outs)
      BY <2>2 DEF FinishProcess
    <3>2. ASSUME NEW outs, Sent(outs)
          PROVE  pending' = pending /\ (keep' => keep)
      BY <3>2 DEF Sent, Fail
    <3>3. QED  BY <1>2, <3>1, <3>2 DEF ProcessOne, sessionVars, mainVars, MayContinue
  <2>3. CASE UNCHANGED sessionVars
    BY <1>2, <2>3 DEF ProcessOne, sessionVars, mainVars, MayContinue
  <2>4. QED  BY <2>1, <2>2, <2>3
<1>3. CASE ProcessThrows \/ Exit
  BY <1>3 DEF ProcessThrows, Exit, MayContinue
<1>4. CASE VenueStep \/ LinkLost \/ UNCHANGED vars
  BY <1>4 DEF VenueStep, LinkLost, LinkBreaks, vars, sessionVars, mainVars, MayContinue
<1>5. QED
  BY <1>1, <1>2, <1>3, <1>4 DEF Next, Process, Read, Terminated

LEMMA NextCounts == TypeOK /\ TodoQueued /\ CountsHeld /\ [Next]_vars => CountsHeld'
<1> SUFFICES ASSUME TypeOK, TodoQueued, CountsHeld, [Next]_vars, proc' = "running"
             PROVE  /\ bookCount' = Len(bookRows')
                    /\ tradeCount' = Len(tradeRows') \/ (tradeFile' = "damaged" /\ ~MayContinue')
  BY DEF CountsHeld
<1>1. proc = "running" \/ UNCHANGED vars
  BY DEF Next, Connect, Interrupt, PingFails, Process, OnProcessTimer, ProcessOne, ProcessThrows,
         Read, ReadSnapshot, ReadUpdate, InstrumentThrows, ReadBook, ReadTrades, TradesThrow,
         ReadOther, ReadError, Reads, Dispatch, Exit, VenueStep, LinkLost, Terminated
<1>2. proc = "running"
  BY <1>1 DEF vars, mainVars
<1>3. /\ bookCount = Len(bookRows)
      /\ tradeCount = Len(tradeRows) \/ (tradeFile = "damaged" /\ ~MayContinue)
  BY <1>2 DEF CountsHeld
<1>4. ASSUME UNCHANGED <<tradeRows, tradeCount, tradeFile>>
      PROVE  tradeCount' = Len(tradeRows') \/ (tradeFile' = "damaged" /\ ~MayContinue')
  BY <1>3, <1>4, MayContinueBefore
<1>5. CASE ProcessOne
  <2>1. BookSink!Accept(<<FrontRow>>) \/ UNCHANGED bookVars
    BY <1>5 DEF ProcessOne
  <2>2. <<FrontRow>> \in Seq(BookRow)
    BY <1>5, FrontType DEF ProcessOne
  <2>3. BookSink!SinkTypeOK
    BY DEF TypeOK
  <2>4. bookCount' = Len(bookRows')
    BY <1>3, <2>1, <2>2, <2>3, BookAcceptHolds DEF bookVars
  <2>5. QED  BY <1>4, <1>5, <2>4 DEF ProcessOne, tradeVars
<1>6. CASE ReadTrades
  <2>1. tradeCount = Len(tradeRows)
    BY <1>3, <1>6 DEF ReadTrades, Reads, Dispatch, Continue, MayContinue
  <2>2. TradeSink!Accept(TradeRows(Incoming.trades)) \/ UNCHANGED tradeVars
    BY <1>6 DEF ReadTrades
  <2>3. TradeRows(Incoming.trades) \in Seq(TradeRow)
    BY <1>6, ReadsType, IncomingTypes, TradeRowsType DEF ReadTrades
  <2>4. TradeSink!SinkTypeOK
    BY DEF TypeOK
  <2>5. tradeCount' = Len(tradeRows')
    BY <2>1, <2>2, <2>3, <2>4, TradeAcceptHolds DEF tradeVars
  <2>6. QED  BY <1>3, <1>6, <2>5 DEF ReadTrades, bookVars
<1>7. CASE TradesThrow
  <2>1. UNCHANGED <<bookRows, bookCount>> /\ ~MayContinue'
    BY <1>7 DEF TradesThrow, Caught, OnRead, MayContinue, bookVars
  \* Trades before an unknown symbol are counted; a flush that fails damages the file.
  <2>2. CASE TradeSink!AddRows(TradeRows(KnownTrades))
    <3>1. tradeCount = Len(tradeRows)
      BY <1>3, <1>7 DEF TradesThrow, Reads, Dispatch, Continue, MayContinue
    <3>2. TradeRows(KnownTrades) \in Seq(TradeRow)
      BY <1>7, ReadsType, IncomingTypes, KnownTradesType, TradeRowsType DEF TradesThrow
    <3>3. tradeCount' = Len(tradeRows')
      BY <2>2, <3>1, <3>2, TradeAcceptHolds DEF TypeOK
    <3>4. QED  BY <1>3, <2>1, <3>3
  <2>3. CASE TradeSink!AcceptThrows(TradeRows(Incoming.trades))
    BY <1>3, <2>1, <2>3 DEF TradeSink!AcceptThrows
  <2>4. QED  BY <1>7, <2>2, <2>3 DEF TradesThrow
<1>8. CASE ProcessThrows \/ Exit
  BY <1>8 DEF ProcessThrows, Exit
<1>9. CASE \/ Connect \/ Interrupt \/ PingFails \/ OnProcessTimer
           \/ ReadSnapshot \/ ReadUpdate \/ InstrumentThrows \/ ReadBook
           \/ ReadOther \/ ReadError \/ VenueStep \/ LinkLost \/ UNCHANGED vars
  <2>1. UNCHANGED <<bookRows, bookCount, tradeRows, tradeCount, tradeFile>>
    BY <1>9 DEF Connect, Interrupt, PingFails, OnProcessTimer, ReadSnapshot, ReadUpdate,
                InstrumentThrows, ReadBook, ReadOther, ReadError, VenueStep, LinkLost,
                vars, bookVars, tradeVars
  <2>2. QED  BY <1>3, <1>4, <2>1
<1>10. QED
  BY <1>5, <1>6, <1>7, <1>8, <1>9 DEF Next, Process, Read, Terminated

\* m_num_rows is the number of rows in the builders, but after a flush of trades that
\* failed; that stops the session, nothing can start it again, and only the
\* destructor uses the count left behind (parquet/src/trade_sink.cpp:14-20, :57-85).
THEOREM CountsMatchCorrect == Spec => []CountsMatch
<1>1. Init => CountsHeld
  BY DEF Init, BookSink!SinkInit, TradeSink!SinkInit, CountsHeld
<1>2. CountsHeld => CountsMatch
  BY DEF CountsHeld, CountsMatch, MayContinue
<1>3. QED
  BY <1>1, <1>2, TypeCorrect, NextCounts, PTL DEF Spec

-----------------------------------------------------------------------------
(* The exit.                                                                *)

\* Until main returns the files are open, and only a failed flush of the trades
\* sink damages one.
FilesSound ==
  proc = "running" =>
    /\ bookFile = "open"
    /\ tradeFile \in {"open", "damaged"}
    /\ "io" \notin Faults => tradeFile = "open"

LEMMA NextFiles == TypeOK /\ TodoQueued /\ FilesSound /\ [Next]_vars => FilesSound'
<1> SUFFICES ASSUME TypeOK, TodoQueued, FilesSound, [Next]_vars, proc' = "running"
             PROVE  /\ bookFile' = "open"
                    /\ tradeFile' \in {"open", "damaged"}
                    /\ "io" \notin Faults => tradeFile' = "open"
  BY DEF FilesSound
<1>1. CASE ProcessOne
  <2>1. BookSink!Accept(<<FrontRow>>) \/ UNCHANGED bookVars
    BY <1>1 DEF ProcessOne
  <2>2. bookFile' = bookFile
    <3>1. <<FrontRow>> \in Seq(BookRow) /\ BookSink!SinkTypeOK
      BY <1>1, FrontType DEF ProcessOne, TypeOK
    <3>2. QED  BY <2>1, <3>1, BookAcceptHolds DEF bookVars
  <2>3. QED  BY <1>1, <2>2 DEF ProcessOne, FilesSound, mainVars, tradeVars
<1>2. CASE ReadTrades
  <2>1. TradeSink!Accept(TradeRows(Incoming.trades)) \/ UNCHANGED tradeVars
    BY <1>2 DEF ReadTrades
  <2>2. tradeFile' = tradeFile
    <3>1. TradeRows(Incoming.trades) \in Seq(TradeRow) /\ TradeSink!SinkTypeOK
      BY <1>2, ReadsType, IncomingTypes, TradeRowsType DEF ReadTrades, TypeOK
    <3>2. QED  BY <2>1, <3>1, TradeAcceptHolds DEF tradeVars
  <2>3. QED  BY <1>2, <2>2 DEF ReadTrades, Reads, FilesSound, mainVars, bookVars
<1>3. CASE TradesThrow
  <2>1. \/ tradeFile' = tradeFile
        \/ "io" \in Faults /\ tradeFile' = "damaged"
    BY <1>3 DEF TradesThrow, TradeSink!AddRows, TradeSink!AcceptThrows
  <2>2. QED  BY <1>3, <2>1 DEF TradesThrow, Reads, FilesSound, mainVars, bookVars
<1>4. CASE ProcessThrows \/ Exit
  BY <1>4 DEF ProcessThrows, Exit
<1>5. CASE \/ Connect \/ Interrupt \/ PingFails \/ OnProcessTimer
           \/ ReadSnapshot \/ ReadUpdate \/ InstrumentThrows \/ ReadBook
           \/ ReadOther \/ ReadError \/ VenueStep \/ LinkLost \/ UNCHANGED vars
  <2>1. UNCHANGED <<proc, bookFile, tradeFile>>
    BY <1>5 DEF Connect, Interrupt, PingFails, OnProcessTimer, ReadSnapshot, ReadUpdate,
                InstrumentThrows, ReadBook, ReadOther, ReadError, Reads, VenueStep,
                LinkLost, vars, mainVars, bookVars, tradeVars
  <2>2. QED  BY <2>1 DEF FilesSound
<1>6. QED
  BY <1>1, <1>2, <1>3, <1>4, <1>5 DEF Next, Process, Read, Terminated

\* Main's last step writes out what the sinks hold.
LEMMA ExitWritesAll ==
  ASSUME TypeOK, BookJournal, TradeJournal, FilesSound, Exit, "io" \notin Faults
  PROVE  /\ bookFile' = "readable" /\ tradeFile' = "readable"
         /\ CaptureBook => received' = Msgs(bookWritten') \o queue'
         /\ traded' = Msgs(tradeWritten')
<1>1. /\ proc = "running" /\ bookFile = "open" /\ tradeFile = "open"
      /\ received' = received /\ queue' = queue /\ traded' = traded
  BY DEF Exit, FilesSound, history
<1>2. BookSink!Close /\ TradeSink!Close
  BY <1>1 DEF Exit
<1>3. /\ bookWritten' = bookWritten \o bookRows /\ bookFile' = "readable"
      /\ tradeWritten' = tradeWritten \o tradeRows /\ tradeFile' = "readable"
  BY <1>2 DEF BookSink!Close, TradeSink!Close
<1>4. /\ CaptureBook => received = Msgs(bookWritten \o bookRows) \o queue
      /\ traded = Msgs(tradeWritten \o tradeRows)
  BY <1>1 DEF BookJournal, TradeJournal
<1>5. QED
  BY <1>1, <1>3, <1>4

LEMMA NextExit ==
  /\ TypeOK /\ BookJournal /\ TradeJournal /\ FilesSound /\ ExitLosesOnlyQueue
  /\ [Next]_vars
  => ExitLosesOnlyQueue'
<1> SUFFICES ASSUME TypeOK, BookJournal, TradeJournal, FilesSound, ExitLosesOnlyQueue,
                    [Next]_vars
             PROVE  ExitLosesOnlyQueue'
  OBVIOUS
<1>1. CASE Exit
  BY <1>1, ExitWritesAll DEF ExitLosesOnlyQueue
<1>2. CASE ProcessThrows
  BY <1>2 DEF ProcessThrows, ExitLosesOnlyQueue
<1>3. CASE \/ Connect \/ Interrupt \/ PingFails \/ OnProcessTimer \/ ProcessOne
           \/ ReadSnapshot \/ ReadUpdate \/ InstrumentThrows \/ ReadBook \/ ReadTrades
           \/ TradesThrow \/ ReadOther \/ ReadError \/ VenueStep \/ LinkLost
  <2>1. proc = "running" /\ proc' = proc
    BY <1>3 DEF Connect, Interrupt, PingFails, OnProcessTimer, ProcessOne, ReadSnapshot,
                ReadUpdate, InstrumentThrows, ReadBook, ReadTrades, TradesThrow, ReadOther,
                ReadError, Reads, Dispatch, VenueStep, LinkLost, mainVars
  <2>2. QED  BY <2>1 DEF ExitLosesOnlyQueue
<1>4. CASE UNCHANGED vars
  BY <1>4 DEF vars, bookVars, tradeVars, engineVars, mainVars, history, ExitLosesOnlyQueue
<1>5. QED
  BY <1>1, <1>2, <1>3, <1>4 DEF Next, Process, Read, Terminated

\* An orderly exit without I/O errors leaves two readable files that lack
\* nothing but the book messages the process timer had not drained
\* (kdr_record/kdr_record.cpp:152-158).
THEOREM ExitCorrect == Spec => []ExitLosesOnlyQueue
<1>1. Init => FilesSound /\ ExitLosesOnlyQueue
  BY DEF Init, BookSink!SinkInit, TradeSink!SinkInit, FilesSound, ExitLosesOnlyQueue
<1>2. QED
  BY <1>1, TypeCorrect, BookJournalCorrect, TradeJournalCorrect, NextFiles, NextExit, PTL
     DEF Spec

-----------------------------------------------------------------------------
(* The recorder implements Journal.                                         *)

\* The queue is the end of what was received; nothing can be read back before the exit.
LEMMA JournalRunning ==
  ASSUME TypeOK, BookJournal, FilesSound, CaptureBook, proc = "running"
  PROVE  /\ Len(received) \in Nat /\ Len(queue) \in Nat /\ Len(queue) <= Len(received)
         /\ Msgs(bookWritten \o bookRows) = SubSeq(received, 1, Len(received) - Len(queue))
         /\ \E n \in 0 .. Len(received) - Len(queue) : Msgs(bookWritten) = SubSeq(received, 1, n)
         /\ Msgs(BookSink!Recovered) = <<>>
<1> DEFINE held == bookWritten \o bookRows
<1>1. /\ received = Msgs(held) \o queue /\ received \in Seq(BookMsg) /\ queue \in Seq(BookMsg)
      /\ bookWritten \in Seq(BookRow) /\ bookRows \in Seq(BookRow) /\ held \in Seq(BookRow)
  BY ConcatProperties DEF BookJournal, TypeOK, BookSink!SinkTypeOK
<1>2. /\ Msgs(held) \in Seq(BookMsg)
      /\ Msgs(bookWritten) \in Seq(BookMsg) /\ Msgs(bookRows) \in Seq(BookMsg)
  BY <1>1, MsgsType, RowMsgs
<1>3. Msgs(held) = Msgs(bookWritten) \o Msgs(bookRows)
  BY <1>1, MsgsConcat, RowMsgs
<1> HIDE DEF held
<1>4. ASSUME NEW u \in Seq(BookMsg), NEW v \in Seq(BookMsg)
      PROVE  /\ Len(u) \in Nat /\ Len(v) \in Nat /\ Len(u \o v) = Len(u) + Len(v)
             /\ SubSeq(u \o v, 1, Len(u)) = u
  <2>1. /\ u \o v \in Seq(BookMsg) /\ Len(u) \in Nat /\ Len(v) \in Nat
        /\ Len(u \o v) = Len(u) + Len(v)
        /\ \A i \in 1 .. Len(u) + Len(v) : (u \o v)[i] = IF i <= Len(u) THEN u[i] ELSE v[i - Len(u)]
    BY ConcatProperties, LenProperties
  <2> DEFINE w == u \o v
  <2>2. w \in Seq(BookMsg) /\ Len(u) <= Len(w) /\ \A i \in 1 .. Len(u) : w[i] = u[i] /\ u[i] \in BookMsg
    BY <2>1, ElementOfSeq
  <2> HIDE DEF w
  <2> DEFINE x == SubSeq(w, 1, Len(u))
  <2>3. x \in Seq(BookMsg) /\ Len(x) = Len(u) /\ \A i \in 1 .. Len(u) : x[i] = w[i]
    BY <2>1, <2>2, SubSeqProperties
  <2> HIDE DEF x
  <2>4. x = u
    BY <2>2, <2>3, SeqEqual
  <2>5. QED  BY <2>1, <2>4 DEF x, w
<1>5. /\ Len(Msgs(held)) \in Nat /\ Len(queue) \in Nat
      /\ Len(received) = Len(Msgs(held)) + Len(queue)
      /\ SubSeq(received, 1, Len(Msgs(held))) = Msgs(held)
  BY <1>1, <1>2, <1>4
<1>6. Len(received) - Len(queue) = Len(Msgs(held))
  BY <1>5
<1>7. \E n \in 0 .. Len(Msgs(held)) : Msgs(bookWritten) = SubSeq(received, 1, n)
  <2>1. received = Msgs(bookWritten) \o (Msgs(bookRows) \o queue)
    BY <1>1, <1>2, <1>3, ConcatAssociative
  <2>2. Msgs(bookRows) \o queue \in Seq(BookMsg)
    BY <1>1, <1>2, ConcatProperties
  <2>3. /\ Len(Msgs(bookWritten)) \in Nat
        /\ SubSeq(received, 1, Len(Msgs(bookWritten))) = Msgs(bookWritten)
    BY <1>2, <1>4, <2>1, <2>2
  <2>4. /\ Len(Msgs(held)) = Len(Msgs(bookWritten)) + Len(Msgs(bookRows))
        /\ Len(Msgs(bookRows)) \in Nat
    BY <1>2, <1>3, <1>4
  <2>5. Len(Msgs(bookWritten)) \in 0 .. Len(Msgs(held))
    BY <2>3, <2>4
  <2>6. QED  BY <2>3, <2>5
<1>8. Msgs(BookSink!Recovered) = <<>>
  <2>1. BookSink!Recovered = <<>>
    BY DEF FilesSound, BookSink!Recovered
  <2>2. QED  BY <2>1 DEF Msgs
<1>9. QED
  BY <1>5, <1>6, <1>7, <1>8 DEF held

\* Nothing of the journal changes.
LEMMA JournalStutter ==
  ASSUME UNCHANGED <<proc, queue, received, bookWritten, bookFile>>
  PROVE  UNCHANGED J!journalVars
BY DEF J!journalVars, Msgs, BookSink!Recovered

LEMMA JournalReceive ==
  ASSUME TypeOK, BookJournal, FilesSound, CaptureBook, ReadBook
  PROVE  J!Receive
<1>1. /\ proc = "running" /\ UNCHANGED <<proc, bookWritten, bookFile>>
      /\ queue' = Append(queue, Incoming) /\ received' = Append(received, Incoming)
      /\ Incoming \in BookMsg
  BY ReadsType, IncomingTypes DEF ReadBook, Reads, Dispatch, mainVars, bookVars
<1>2. Len(received') - Len(queue') = Len(received) - Len(queue)
  <2>1. Len(received') = Len(received) + 1 /\ Len(queue') = Len(queue) + 1
    BY <1>1 DEF TypeOK
  <2>2. QED  BY <1>1, <2>1, JournalRunning
<1>3. Msgs(BookSink!Recovered)' = Msgs(BookSink!Recovered)
  BY <1>1 DEF Msgs, BookSink!Recovered
<1>4. QED
  BY <1>1, <1>2, <1>3 DEF J!Receive

LEMMA JournalTake ==
  ASSUME TypeOK, TodoQueued, BookJournal, FilesSound, CaptureBook, ProcessOne
  PROVE  J!Take
<1>1. /\ proc = "running" /\ proc' = proc /\ received' = received /\ queue' = Tail(queue)
      /\ BookSink!Accept(<<FrontRow>>) /\ todo > 0
  BY DEF ProcessOne, mainVars, history
<1>2. bookFile' = "open" /\ bookFile = "open"
  <2>1. <<FrontRow>> \in Seq(BookRow) /\ BookSink!SinkTypeOK
    BY <1>1, FrontType DEF TypeOK
  <2>2. QED  BY <1>1, <2>1, BookAcceptHolds DEF FilesSound
<1>3. Msgs(BookSink!Recovered)' = Msgs(BookSink!Recovered)
  BY <1>2 DEF Msgs, BookSink!Recovered
<1>4. queue \in Seq(BookMsg) /\ queue # <<>>
  BY <1>1, FrontType DEF TypeOK
<1>5. Len(queue) > 0 /\ Len(queue') = Len(queue) - 1
  BY <1>1, <1>4, HeadTailProperties, EmptySeq
<1>6. /\ Len(received) \in Nat /\ Len(queue) \in Nat /\ Len(queue) <= Len(received)
  BY <1>1, JournalRunning
<1>7. /\ Len(received) - Len(queue) < Len(received)
      /\ Len(received') - Len(queue') = (Len(received) - Len(queue)) + 1
  <2>1. Len(received') = Len(received)
    BY <1>1
  <2>2. QED  BY ONLY <1>5, <1>6, <2>1
<1>8. QED
  BY <1>1, <1>3, <1>7 DEF J!Take

LEMMA JournalFinish ==
  ASSUME TypeOK, BookJournal, FilesSound, CaptureBook, Exit
  PROVE  J!Finish
<1>1. /\ proc = "running" /\ proc' = "exited" /\ bookFile = "open"
      /\ received' = received /\ queue' = queue
  BY DEF Exit, history, FilesSound
<1> DEFINE t == Len(received) - Len(queue)
<1>2. /\ t \in Nat
      /\ Msgs(bookWritten \o bookRows) = SubSeq(received, 1, t)
      /\ \E n \in 0 .. t : Msgs(bookWritten) = SubSeq(received, 1, n)
  BY <1>1, JournalRunning
<1>3. t' = t
  BY <1>1
<1>4. \E n \in 0 .. t : /\ "io" \notin Faults => n = t
                        /\ Msgs(BookSink!Recovered)' = SubSeq(received, 1, n)
  <2> HIDE DEF t
  <2>1. \/ BookSink!Close
        \/ "io" \in Faults /\ BookSink!CloseThrows
    BY <1>1 DEF Exit
  <2>2. CASE BookSink!Close
    <3>1. bookWritten' = bookWritten \o bookRows /\ bookFile' = "readable"
      BY <2>2 DEF BookSink!Close
    <3>2. Msgs(BookSink!Recovered)' = SubSeq(received, 1, t)
      BY <1>2, <3>1 DEF BookSink!Recovered, Msgs
    <3>3. t \in 0 .. t
      BY <1>2
    <3>4. QED  BY <3>2, <3>3
  <2>3. CASE "io" \in Faults /\ BookSink!CloseThrows
    <3>1. bookWritten' = bookWritten /\ bookFile' \in {"readable", "unreadable"}
      BY <2>3 DEF BookSink!CloseThrows
    <3>2. CASE bookFile' = "readable"
      <4>1. Msgs(BookSink!Recovered)' = Msgs(bookWritten)
        BY <3>1, <3>2 DEF BookSink!Recovered, Msgs
      <4>2. QED  BY <1>2, <2>3, <4>1
    <3>3. CASE bookFile' = "unreadable"
      <4>1. Msgs(BookSink!Recovered)' = <<>>
        BY <3>3 DEF BookSink!Recovered, Msgs
      <4>2. SubSeq(received, 1, 0) = <<>> /\ 0 \in 0 .. t
        BY <1>2 DEF TypeOK
      <4>3. QED  BY <2>3, <4>1, <4>2
    <3>4. QED  BY <3>1, <3>2, <3>3
  <2>4. QED  BY <2>1, <2>2, <2>3
<1>5. QED
  BY <1>1, <1>3, <1>4 DEF J!Finish

LEMMA JournalStep ==
  ASSUME TypeOK, TodoQueued, BookJournal, FilesSound, CaptureBook, [Next]_vars
  PROVE  [J!JournalNext]_(J!journalVars)
<1>1. CASE ReadBook
  BY <1>1, JournalReceive DEF J!JournalNext
<1>2. CASE ProcessOne
  BY <1>2, JournalTake DEF J!JournalNext
<1>3. CASE Exit
  BY <1>3, JournalFinish DEF J!JournalNext
<1>4. CASE ProcessThrows
  <2>1. /\ proc = "running" /\ proc' = "aborted" /\ UNCHANGED <<queue, received>>
        /\ bookFile = "open" /\ bookFile' = "unreadable"
    BY <1>4 DEF ProcessThrows, BookSink!Abandon, FilesSound, engineVars, history
  <2>2. Msgs(BookSink!Recovered)' = Msgs(BookSink!Recovered)
    BY <2>1 DEF Msgs, BookSink!Recovered
  <2>3. J!Crash
    BY <2>1, <2>2 DEF J!Crash
  <2>4. QED  BY <2>3 DEF J!JournalNext
<1>5. CASE \/ Connect \/ Interrupt \/ PingFails \/ OnProcessTimer
           \/ ReadSnapshot \/ ReadUpdate \/ InstrumentThrows \/ ReadTrades \/ TradesThrow
           \/ ReadOther \/ ReadError \/ VenueStep \/ LinkLost \/ UNCHANGED vars
  <2>1. UNCHANGED <<proc, queue, received, bookWritten, bookFile>>
    BY <1>5 DEF Connect, Interrupt, PingFails, OnProcessTimer, ReadSnapshot, ReadUpdate,
                InstrumentThrows, ReadTrades, TradesThrow, ReadOther, ReadError, Reads,
                VenueStep, LinkLost, vars, mainVars, engineVars, bookVars, history
  <2>2. QED  BY <2>1, JournalStutter
<1>6. QED
  BY <1>1, <1>2, <1>3, <1>4, <1>5 DEF Next, Process, Read, Terminated

\* A recorder that captures books implements Journal: whatever fails, the book file
\* comes to hold a start of what was received up to the mark of the queue - all of it
\* if no write fails, nothing if the process aborts - in one step, at the exit
\* (src/engine.cpp:171-249, parquet/src/book_sink.cpp:41-126).
THEOREM JournalImplemented == CaptureBook => (Spec => ImplementsJournal)
<1> SUFFICES ASSUME CaptureBook PROVE Spec => ImplementsJournal
  OBVIOUS
<1>1. Init => FilesSound
  BY DEF Init, BookSink!SinkInit, TradeSink!SinkInit, FilesSound
<1>2. Init => J!JournalInit
  <2> SUFFICES ASSUME Init PROVE J!JournalInit
    OBVIOUS
  <2>1. received = <<>> /\ queue = <<>> /\ bookFile = "open" /\ proc = "running"
    BY DEF Init, BookSink!SinkInit
  <2>2. Len(<<>>) = 0 /\ Msgs(<<>>) = <<>>
    BY DEF Msgs
  <2>3. QED  BY <2>1, <2>2 DEF J!JournalInit, BookSink!Recovered
<1>3. QED
  BY <1>1, <1>2, TypeCorrect, BookJournalCorrect, NextFiles, JournalStep, PTL
     DEF Spec, ImplementsJournal, J!JournalSpec

-----------------------------------------------------------------------------
(* The session's chain of handlers.                                         *)

\* A venue without the fault sends no empty frame.
NoEmptyFrame == \A i \in DOMAIN wire : wire[i].ch # "empty"

\* Before the websocket handshake there is no link, and the chain of handlers
\* ends only when the session is stopped.
ChainHolds ==
  /\ pending \in {"resolve", "connect", "ssl_handshake", "handshake"} => link = "down"
  /\ pending = "none" => ~keep

-----------------------------------------------------------------------------
(* The wire of a venue that sends no empty frame.                           *)

LEMMA AppendNoEmpty ==
  ASSUME wire \in Seq(Msg), NoEmptyFrame, NEW m, m.ch # "empty", wire' = Append(wire, m)
  PROVE  NoEmptyFrame'
<1>1. DOMAIN wire = 1 .. Len(wire) /\ Len(wire) \in Nat
  BY LenProperties
<1>2. DOMAIN wire' = 1 .. Len(wire) + 1
  BY <1>1
<1>3. \A i \in 1 .. Len(wire) + 1 : wire'[i] = IF i <= Len(wire) THEN wire[i] ELSE m
  BY <1>1
<1>4. QED
  BY <1>1, <1>2, <1>3 DEF NoEmptyFrame

LEMMA VenueStepNoEmpty ==
  ASSUME wire \in Seq(Msg), "empty" \notin Faults, NoEmptyFrame, VenueStep
  PROVE  NoEmptyFrame'
<1>1. ASSUME NEW k, NEW m, NEW n, m.ch # "empty", Send(k, m, n)
      PROVE  NoEmptyFrame'
  BY <1>1, AppendNoEmpty DEF Send
<1>2. CASE SendSnapshot
  <2> DEFINE m == [ch |-> "snapshot", pairs |-> [s \in Listed |-> listed[s]]]
  <2>1. m.ch # "empty" /\ Send("snapshot", m, 1)
    BY <1>2 DEF SendSnapshot
  <2> HIDE DEF m
  <2>2. QED  BY <1>1, <2>1
<1>3. ASSUME NEW s, ChangePair(s)
      PROVE  NoEmptyFrame'
  <2> DEFINE m == [ch |-> "update", pairs |-> [x \in {s} |-> listed'[s]]]
  <2>1. wire' = IF sent["snapshot"] = 0 THEN wire ELSE Append(wire, m)
    BY <1>3, Zenon DEF ChangePair
  <2>2. m.ch # "empty"
    OBVIOUS
  <2> HIDE DEF m
  <2>3. CASE wire' = wire
    BY <2>3 DEF NoEmptyFrame
  <2>4. CASE wire' = Append(wire, m)
    BY <2>2, <2>4, AppendNoEmpty
  <2>5. QED  BY <2>1, <2>3, <2>4
<1>4. ASSUME NEW s, NEW ok, SendBook(s, ok)
      PROVE  NoEmptyFrame'
  <2> DEFINE m == [ch |-> "book", id |-> sent["book"] + 1, sym |-> s,
                   prec |-> listed[s], ok |-> ok]
  <2>1. m.ch # "empty" /\ Send("book", m, 1)
    BY <1>4 DEF SendBook
  <2> HIDE DEF m
  <2>2. QED  BY <1>1, <2>1
<1>5. ASSUME NEW ss, SendTrades(ss)
      PROVE  NoEmptyFrame'
  <2> DEFINE m == [ch |-> "trade",
                   trades |-> [i \in 1 .. Len(ss) |-> [id |-> sent["trade"] + i, sym |-> ss[i],
                                                       prec |-> listed[ss[i]]]]]
  <2>1. Send("trade", m, Len(ss))
    BY <1>5, Zenon DEF SendTrades
  <2>2. m.ch # "empty"
    OBVIOUS
  <2> HIDE DEF m
  <2>3. QED  BY <1>1, <2>1, <2>2
<1>6. ASSUME NEW ch \in {"other", "malformed", "empty"}, SendOther(ch)
      PROVE  NoEmptyFrame'
  <2> DEFINE m == [ch |-> ch]
  <2>1. m.ch # "empty" /\ Send("other", m, 1)
    BY <1>6 DEF SendOther
  <2> HIDE DEF m
  <2>2. QED  BY <1>1, <2>1
<1>7. QED
  BY <1>2, <1>3, <1>4, <1>5, <1>6 DEF VenueStep

LEMMA NextNoEmpty ==
  TypeOK /\ "empty" \notin Faults /\ NoEmptyFrame /\ [Next]_vars => NoEmptyFrame'
<1> SUFFICES ASSUME TypeOK, "empty" \notin Faults, NoEmptyFrame, [Next]_vars
             PROVE  NoEmptyFrame'
  OBVIOUS
<1>1. wire \in Seq(Msg) /\ DOMAIN wire = 1 .. Len(wire) /\ Len(wire) \in Nat
  BY LenProperties DEF TypeOK, VenueTypeOK
<1>2. CASE VenueStep
  BY <1>1, <1>2, VenueStepNoEmpty
<1>3. CASE LinkLost
  <2>1. PICK n \in 0 .. Len(wire) : wire' = SubSeq(wire, 1, n)
    BY <1>3 DEF LinkLost, LoseInFlight
  <2>2. DOMAIN wire' = 1 .. n /\ \A i \in 1 .. n : wire'[i] = wire[i]
    BY <1>1, <2>1
  <2>3. QED  BY <1>1, <2>2 DEF NoEmptyFrame
<1>4. CASE \/ ReadSnapshot \/ ReadUpdate \/ InstrumentThrows \/ ReadBook \/ ReadTrades
           \/ TradesThrow \/ ReadOther
  <2>1. wire # <<>> /\ wire' = Tail(wire)
    BY <1>4 DEF ReadSnapshot, ReadUpdate, InstrumentThrows, ReadBook, ReadTrades,
                TradesThrow, ReadOther, Reads
  <2>2. DOMAIN wire' = 1 .. Len(wire) - 1 /\ \A i \in 1 .. Len(wire) - 1 : wire'[i] = wire[i + 1]
    BY <1>1, <2>1
  <2>3. QED  BY <1>1, <2>2 DEF NoEmptyFrame
<1>5. CASE \/ Connect \/ Interrupt \/ PingFails \/ Process \/ ReadError \/ Exit
           \/ UNCHANGED vars
  <2>1. wire' = wire
    BY <1>5 DEF Connect, Interrupt, PingFails, Process, OnProcessTimer, ProcessOne,
                ProcessThrows, ReadError, Exit, vars, venueVars
  <2>2. QED  BY <2>1 DEF NoEmptyFrame
<1>6. QED
  BY <1>2, <1>3, <1>4, <1>5 DEF Next, Read, Terminated

-----------------------------------------------------------------------------
(* The chain of handlers.                                                   *)

\* What a handler that only sends does to the session.
LEMMA SendsStop ==
  ASSUME FinishProcess \/ PingFails
  PROVE  pending' = pending /\ link' = link /\ (~keep => ~keep')
<1>1. UNCHANGED sessionVars \/ \E outs : Sent(outs)
  BY DEF FinishProcess, PingFails
<1>2. ASSUME NEW outs, Sent(outs)
      PROVE  pending' = pending /\ link' = link /\ (~keep => ~keep')
  BY <1>2 DEF Sent, Fail
<1>3. QED
  BY <1>1, <1>2 DEF sessionVars

\* A read that yields a message ends in another read, or in a stop.
LEMMA ReadsRearm ==
  ASSUME NEW ok, NEW outs, OnRead(ok, outs), keep
  PROVE  pending' = (IF keep' THEN "read" ELSE "none") /\ link' = link
BY DEF OnRead

LEMMA NextChain ==
  TypeOK /\ "empty" \notin Faults /\ NoEmptyFrame /\ ChainHolds /\ [Next]_vars => ChainHolds'
<1> SUFFICES ASSUME TypeOK, "empty" \notin Faults, NoEmptyFrame, ChainHolds, [Next]_vars
             PROVE  ChainHolds'
  OBVIOUS
<1>1. CASE Connect
  BY <1>1 DEF Connect, ChainHolds, OnResolve, OnConnect, OnSslHandshake, OnHandshake
<1>2. CASE \/ ReadSnapshot \/ ReadUpdate \/ InstrumentThrows \/ ReadBook \/ ReadTrades
           \/ TradesThrow \/ ReadOther
  <2>1. (\E ok, outs : OnRead(ok, outs)) \/ Reads("empty")
    BY <1>2 DEF ReadSnapshot, ReadUpdate, InstrumentThrows, ReadBook, ReadTrades,
                TradesThrow, ReadOther, Caught
  <2>2. ~Reads("empty")
    <3>1. wire # <<>> => 1 \in DOMAIN wire /\ Head(wire) = wire[1]
      BY LenProperties DEF TypeOK, VenueTypeOK
    <3>2. QED  BY <3>1 DEF Reads, NoEmptyFrame
  <2>3. PICK ok, outs : OnRead(ok, outs)
    BY <2>1, <2>2
  <2>4. keep
    BY <1>2 DEF ReadSnapshot, ReadUpdate, InstrumentThrows, ReadBook, ReadTrades,
                TradesThrow, ReadOther, Reads, Dispatch, Continue
  <2>5. QED  BY <2>3, <2>4, ReadsRearm DEF ChainHolds
<1>3. CASE ReadError
  BY <1>3 DEF ReadError, OnReadError, Fail, ChainHolds
<1>4. CASE PingFails \/ ProcessOne \/ OnProcessTimer
  <2>1. FinishProcess \/ PingFails \/ UNCHANGED sessionVars
    BY <1>4 DEF ProcessOne, OnProcessTimer
  <2>2. QED  BY <2>1, SendsStop DEF sessionVars, ChainHolds
<1>5. CASE Exit
  BY <1>5 DEF Exit, StopProcessing, ChainHolds
<1>6. CASE LinkLost
  BY <1>6 DEF LinkLost, LinkBreaks, ChainHolds
<1>7. CASE Interrupt \/ ProcessThrows \/ VenueStep \/ UNCHANGED vars
  BY <1>7 DEF Interrupt, ProcessThrows, VenueStep, vars, sessionVars, ChainHolds
<1>8. QED
  BY <1>1, <1>2, <1>3, <1>4, <1>5, <1>6, <1>7 DEF Next, Process, Read, Terminated

\* Of a venue that sends no empty frame, a connected recorder that goes on has a
\* read outstanding: no handler forgets to start the next one
\* (src/session.cpp:122-178).
THEOREM ReaderArmedCorrect == "empty" \notin Faults => (Spec => []ReaderArmed)
<1> SUFFICES ASSUME "empty" \notin Faults PROVE Spec => []ReaderArmed
  OBVIOUS
<1>1. Init => NoEmptyFrame /\ ChainHolds
  BY DEF Init, SessionInit, VenueInit, NoEmptyFrame, ChainHolds
<1>2. TypeOK /\ ChainHolds => ReaderArmed
  BY DEF TypeOK, SessionTypeOK, Operations, ChainHolds, ReaderArmed
<1>3. QED
  BY <1>1, <1>2, TypeCorrect, NextNoEmpty, NextChain, PTL DEF Spec

\* Once cleared, m_keep_processing stays cleared, although on_handshake sets it:
\* main runs no handler after one that failed (kdr_record/kdr_record.cpp:152).
THEOREM StopIsFinalCorrect == Spec => StopIsFinal
<1>1. ASSUME TypeOK, [Next]_vars, ~keep PROVE ~keep'
  <2>1. CASE PingFails \/ ProcessOne \/ OnProcessTimer
    <3>1. FinishProcess \/ PingFails \/ UNCHANGED sessionVars
      BY <2>1 DEF ProcessOne, OnProcessTimer
    <3>2. QED  BY <1>1, <3>1, SendsStop DEF sessionVars
  <2>2. ~(Connect \/ Interrupt \/ Read)
    BY <1>1 DEF Connect, Interrupt, Read, ReadSnapshot, ReadUpdate, InstrumentThrows,
                ReadBook, ReadTrades, TradesThrow, ReadOther, ReadError, Reads, Dispatch,
                Continue
  <2>3. CASE Exit \/ LinkLost \/ ProcessThrows \/ VenueStep \/ UNCHANGED vars
    BY <1>1, <2>3 DEF Exit, StopProcessing, LinkLost, LinkBreaks, ProcessThrows, VenueStep,
                      vars, sessionVars
  <2>4. QED  BY <1>1, <2>1, <2>2, <2>3 DEF Next, Process, Terminated
<1>2. TypeOK /\ [Next]_vars => [~keep => ~keep']_vars
  BY <1>1
<1>3. QED
  BY <1>2, TypeCorrect, PTL DEF Spec, StopIsFinal

-----------------------------------------------------------------------------
(* The session in the recorder.                                             *)

\* on_process_timer, once it has started, is not interrupted by a stop.
TodoKept == todo > 0 => keep

LEMMA NextTodoKept == TypeOK /\ TodoKept /\ [Next]_vars => TodoKept'
<1> SUFFICES ASSUME TypeOK, TodoKept, [Next]_vars, todo' > 0 PROVE keep'
  BY DEF TodoKept
<1>1. todo \in Nat
  BY RecorderAssumption DEF TypeOK
<1>2. CASE OnProcessTimer
  <2>1. keep
    BY <1>2 DEF OnProcessTimer, Dispatch, Continue
  <2>2. todo = 0
    BY <1>2 DEF OnProcessTimer, Dispatch
  <2>3. UNCHANGED sessionVars
    BY <1>2, <2>2 DEF OnProcessTimer
  <2>4. QED  BY <2>1, <2>3 DEF sessionVars
<1>3. CASE ProcessOne
  <2>1. todo > 0 /\ todo' = todo - 1 /\ todo # 1
    BY <1>3 DEF ProcessOne
  <2>2. UNCHANGED sessionVars
    BY <1>3, <2>1 DEF ProcessOne
  <2>3. QED  BY <2>1, <2>2 DEF sessionVars, TodoKept
<1>4. CASE Connect \/ Interrupt \/ PingFails \/ Read \/ Exit
  <2>1. todo = 0 /\ todo' = todo
    BY <1>4 DEF Connect, Interrupt, PingFails, Read, ReadSnapshot, ReadUpdate,
         InstrumentThrows, ReadBook, ReadTrades, TradesThrow, ReadOther, ReadError, Reads,
         Dispatch, Exit, engineVars
  <2>2. QED  BY <2>1
<1>5. CASE ProcessThrows \/ VenueStep \/ LinkLost \/ UNCHANGED vars
  BY <1>5 DEF ProcessThrows, VenueStep, LinkLost, LinkBreaks, vars, engineVars, sessionVars,
              TodoKept
<1>6. QED
  BY <1>2, <1>3, <1>4, <1>5 DEF Next, Process, Terminated

\* Every step of the recorder is a step of the session or leaves it alone.
LEMMA NextSession ==
  ASSUME TypeOK, TodoKept, [Next]_vars
  PROVE  [SessionNext]_sessionVars
<1>1. CASE Connect
  <2>1. keep /\ \E ok \in BOOLEAN :
                  OnResolve(ok) \/ OnConnect(ok) \/ OnSslHandshake(ok) \/ OnHandshake(ok)
    BY <1>1 DEF Connect, Dispatch, Continue
  <2>2. QED  BY <2>1 DEF SessionNext
<1>2. CASE PingFails
  <2>1. keep /\ {"failed"} \in SUBSET SendOutcomes /\ Sent({"failed"})
    BY <1>2 DEF PingFails, Dispatch, Continue
  <2>2. QED  BY <2>1 DEF SessionNext
<1>3. CASE OnProcessTimer \/ ProcessOne
  <2>1. keep /\ (FinishProcess \/ UNCHANGED sessionVars)
    BY <1>3 DEF OnProcessTimer, ProcessOne, Dispatch, Continue, TodoKept
  <2>2. ASSUME FinishProcess
        PROVE  UNCHANGED sessionVars \/ \E outs \in SUBSET SendOutcomes : Sent(outs)
    <3>1. CASE timer = "first"
      <4>1. PICK out \in SendOutcomes : Sent({out})
        BY <2>2, <3>1 DEF FinishProcess
      <4>2. {out} \in SUBSET SendOutcomes
        BY <4>1
      <4>3. QED  BY <4>1, <4>2
    <3>2. CASE timer # "first"
      BY <2>2, <3>2 DEF FinishProcess
    <3>3. QED  BY <3>1, <3>2
  <2>3. QED  BY <2>1, <2>2 DEF SessionNext
<1>4. CASE ReadSnapshot
  <2>1. PICK book \in SendOutcomes, trade \in SendOutcomes :
          LET new == Subscriptions(Filtered(DOMAIN Incoming.pairs), book, trade)
          IN  OnRead(TRUE, {new[i].outcome : i \in DOMAIN new})
    BY <1>4 DEF ReadSnapshot
  <2> DEFINE asked == Filtered(DOMAIN Incoming.pairs)
             new == Subscriptions(asked, book, trade)
             outs == {new[i].outcome : i \in DOMAIN new}
  <2>2. \A i \in DOMAIN new : new[i].outcome \in SendOutcomes
    <3> HIDE DEF asked
    <3> DEFINE b == [ch |-> "book", symbols |-> asked, outcome |-> book]
               t == [ch |-> "trade", symbols |-> asked, outcome |-> trade]
    <3>1. b.outcome \in SendOutcomes /\ t.outcome \in SendOutcomes
      OBVIOUS
    <3>2. new \in {<<>> \o <<>>, <<b>> \o <<>>, <<>> \o <<t>>, <<b>> \o <<t>>}
      BY Zenon DEF Subscriptions
    <3> HIDE DEF b, t, new
    <3>3. QED  BY <3>1, <3>2
  <2>3. OnRead(TRUE, outs)
    BY <2>1
  <2>4. outs \in SUBSET SendOutcomes
    BY <2>2
  <2> HIDE DEF outs
  <2>5. keep
    BY <1>4 DEF ReadSnapshot, Reads, Dispatch, Continue
  <2>6. QED  BY <2>3, <2>4, <2>5 DEF SessionNext
<1>5. CASE ReadUpdate \/ InstrumentThrows \/ ReadBook \/ ReadTrades \/ TradesThrow \/ ReadOther
  <2>1. keep
    BY <1>5 DEF ReadUpdate, InstrumentThrows, ReadBook, ReadTrades, TradesThrow, ReadOther,
                Reads, Dispatch, Continue
  <2>2. OnReadEmpty \/ \E ok \in BOOLEAN : OnRead(ok, {})
    BY <1>5 DEF ReadUpdate, InstrumentThrows, ReadBook, ReadTrades, TradesThrow, ReadOther,
                Caught
  <2>3. {} \in SUBSET SendOutcomes
    OBVIOUS
  <2>4. QED  BY <2>1, <2>2, <2>3 DEF SessionNext
<1>6. CASE ReadError
  BY <1>6 DEF ReadError, Dispatch, Continue, SessionNext
<1>7. CASE Exit \/ LinkLost
  BY <1>7 DEF Exit, LinkLost, SessionNext
<1>8. CASE Interrupt \/ ProcessThrows \/ VenueStep \/ UNCHANGED vars
  BY <1>8 DEF Interrupt, ProcessThrows, VenueStep, vars
<1>9. QED
  BY <1>1, <1>2, <1>3, <1>4, <1>5, <1>6, <1>7, <1>8 DEF Next, Process, Read, Terminated

\* The recorder implements the session: whatever main and the engine do, they
\* call it only as its handlers allow, and never after it was stopped, on_process_timer's
\* subscription at the end of a batch included (src/session.cpp:122-178,
\* kdr_record/kdr_record.cpp:117-152).
THEOREM SessionImplemented == Spec => SessionSpec
<1>1. Init => SessionInit /\ TodoKept
  BY DEF Init, TodoKept
<1>2. QED
  BY <1>1, TypeCorrect, NextTodoKept, NextSession, PTL DEF Spec, SessionSpec
=============================================================================
