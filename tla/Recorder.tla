------------------------------ MODULE Recorder ------------------------------
(***************************************************************************)
(* kdr_record: the event loop of main (kdr_record/kdr_record.cpp), the     *)
(* engine that dispatches messages and drains the book queue               *)
(* (src/engine.cpp), the session it talks through, the sinks it feeds and  *)
(* the venue at the other end.                                             *)
(*                                                                         *)
(* The program is single-threaded: ioc.run_one() runs one completion       *)
(* handler to its end.  Every handler is one action, but for               *)
(* on_process_timer, whose loop over the queued book messages takes one    *)
(* step per message because every message may throw; while `todo` > 0      *)
(* nothing else of the program can run.                                    *)
(***************************************************************************)
EXTENDS Session, Venue

CONSTANTS
  PairFilter,      \* --pair_filter; the empty set records every pair
  CaptureBook,     \* --capture_book
  CaptureTrades,   \* --capture_trades
  BatchSize,       \* c_process_batch_size
  FlushThreshold   \* c_flush_threshold of both sinks

ASSUME RecorderAssumption ==
  /\ PairFilter \subseteq Symbols
  /\ CaptureBook \in BOOLEAN
  /\ CaptureTrades \in BOOLEAN
  /\ BatchSize \in Nat \ {0}
  /\ FlushThreshold \in Nat \ {0}

VARIABLES
  proc,          \* the process: "running", "exited" from main, or "aborted"
  shutting,      \* shutting_down
  timer,         \* the process timer: "off", "first" firing to come, or "on"
  todo,          \* num_to_process, while on_process_timer is in its loop
  queue,         \* m_book_responses
  precision,     \* refdata's precision of each symbol, 0 if not known
  assetsWritten, assetsFile,                       \* assets_sink
  pairsWritten, pairsFile,                         \* pairs_sink
  requests,      \* the subscriptions requested, and whether they got through
  bookRows, bookCount, bookWritten, bookFile,      \* book_sink
  tradeRows, tradeCount, tradeWritten, tradeFile,  \* trades_sink
  received,      \* history: the book messages handle_book_msg accepted
  traded         \* history: the trades of the messages trades_sink was given

engineVars == <<timer, todo, queue, requests>>
refVars == <<precision, assetsWritten, assetsFile, pairsWritten, pairsFile>>
bookVars == <<bookRows, bookCount, bookWritten, bookFile>>
tradeVars == <<tradeRows, tradeCount, tradeWritten, tradeFile>>
history == <<received, traded>>
mainVars == <<proc, shutting>>
vars == <<sessionVars, venueVars, mainVars, engineVars, refVars,
          bookVars, tradeVars, history>>

\* A row is a message (or trade) formatted with the precision known then.
BookRow == [msg : BookMsg, prec : 0 .. MaxPrecision]
TradeRow == [msg : Trade, prec : 0 .. MaxPrecision]

BookSink == INSTANCE RowSink WITH Row <- BookRow, rows <- bookRows,
              count <- bookCount, written <- bookWritten, file <- bookFile
TradeSink == INSTANCE RowSink WITH Row <- TradeRow, rows <- tradeRows,
              count <- tradeCount, written <- tradeWritten, file <- tradeFile

\* A batch of assets or of pairs is named by the pairs of its message.
Pairs == UNION {[S -> Precision] : S \in SUBSET Symbols}

AssetsSink == INSTANCE BatchSink WITH Batch <- Pairs,
                written <- assetsWritten, file <- assetsFile
PairsSink == INSTANCE BatchSink WITH Batch <- Pairs,
               written <- pairsWritten, file <- pairsFile

Request == [ch : {"instrument", "book", "trade"}, symbols : SUBSET Symbols,
            outcome : {"delivered", "lost", "failed"}]

\* refdata and the two files that record what it was given.
RefTypeOK ==
  /\ precision \in [Symbols -> 0 .. MaxPrecision]
  /\ AssetsSink!BatchTypeOK
  /\ PairsSink!BatchTypeOK

TypeOK ==
  /\ SessionTypeOK
  /\ VenueTypeOK
  /\ proc \in {"running", "exited", "aborted"}
  /\ shutting \in BOOLEAN
  /\ timer \in {"off", "first", "on"}
  /\ todo \in 0 .. BatchSize
  /\ queue \in Seq(BookMsg)
  /\ RefTypeOK
  /\ requests \in Seq(Request)
  /\ BookSink!SinkTypeOK
  /\ TradeSink!SinkTypeOK
  /\ received \in Seq(BookMsg)
  /\ traded \in Seq(Trade)

Init ==
  /\ SessionInit
  /\ VenueInit
  /\ proc = "running"
  /\ shutting = FALSE
  /\ timer = "off"
  /\ todo = 0
  /\ queue = <<>>
  /\ precision = [s \in Symbols |-> 0]
  /\ requests = <<>>
  /\ AssetsSink!BatchInit
  /\ PairsSink!BatchInit
  /\ BookSink!SinkInit
  /\ TradeSink!SinkInit
  /\ received = <<>>
  /\ traded = <<>>

-----------------------------------------------------------------------------
(* The event loop.                                                          *)

\* Variants that test only one of the two flags.
ContinueUnlessSignalled == ~shutting
ContinueWhileKept == keep

\* The condition main tests after every handler.
Continue == ~shutting /\ keep

\* The loop is between handlers and will run another one.
Dispatch == proc = "running" /\ todo = 0 /\ Continue

Delivered(ch) ==
  UNION {requests[i].symbols : i \in {j \in DOMAIN requests :
            requests[j].ch = ch /\ requests[j].outcome = "delivered"}}

Connected(ch) == \E i \in DOMAIN requests :
                   requests[i].ch = ch /\ requests[i].outcome = "delivered"

Requested(ch) == UNION {requests[i].symbols : i \in {j \in DOMAIN requests :
                                                        requests[j].ch = ch}}

\* The steps of the way to the connection.  Reaching the websocket starts the
\* timers (connected_cb).
Connect ==
  /\ Dispatch
  /\ \E ok \in BOOLEAN :
       /\ ok \/ "link" \in Faults
       /\ \/ (OnResolve(ok) \/ OnConnect(ok) \/ OnSslHandshake(ok)) /\ UNCHANGED timer
          \/ OnHandshake(ok) /\ timer' = "first"
  /\ UNCHANGED <<venueVars, mainVars, todo, queue, requests, refVars,
                 bookVars, tradeVars, history>>

\* SIGINT runs signal_handler on the loop, like any other handler.
Interrupt ==
  /\ Dispatch
  /\ "sigint" \in Faults
  /\ shutting' = TRUE
  /\ UNCHANGED <<sessionVars, venueVars, proc, engineVars, refVars,
                 bookVars, tradeVars, history>>

\* on_ping_timer, when the ping cannot be sent; a ping sent changes nothing here.
PingFails ==
  /\ Dispatch
  /\ timer # "off"
  /\ "failed" \in SendOutcomes
  /\ Sent({"failed"})
  /\ UNCHANGED <<venueVars, mainVars, engineVars, refVars,
                 bookVars, tradeVars, history>>

-----------------------------------------------------------------------------
(* on_process_timer.                                                        *)

\* A variant that does not set the timer again.
FinishProcessOnce ==
  /\ timer' = "off"
  /\ IF timer = "first"
     THEN \E out \in SendOutcomes :
            /\ requests' = Append(requests, [ch |-> "instrument", symbols |-> {},
                                             outcome |-> out])
            /\ Sent({out})
     ELSE UNCHANGED <<requests, sessionVars>>

\* The end of the handler: its first firing goes on to subscribe to the
\* instrument channel, and the timer is set again.
FinishProcess ==
  /\ timer' = "on"
  /\ IF timer = "first"
     THEN \E out \in SendOutcomes :
            /\ requests' = Append(requests, [ch |-> "instrument", symbols |-> {},
                                             outcome |-> out])
            /\ Sent({out})
     ELSE UNCHANGED <<requests, sessionVars>>

\* A variant that takes the whole queue.
WholeQueue == Len(queue)

NumToProcess == IF Len(queue) < BatchSize THEN Len(queue) ELSE BatchSize

OnProcessTimer ==
  /\ Dispatch
  /\ timer # "off"
  /\ IF queue = <<>>
     THEN FinishProcess /\ UNCHANGED todo
     ELSE /\ todo' = NumToProcess
          /\ UNCHANGED <<timer, requests, sessionVars>>
  /\ UNCHANGED <<venueVars, mainVars, queue, refVars, bookVars, tradeVars, history>>

\* A variant that takes the newest message.
Newest == queue[Len(queue)]

Front == Head(queue)
Known(s) == precision[s] # 0
FrontRow == [msg |-> Front, prec |-> precision[Front.sym]]

\* What level_book.accept makes of the front message: its checksum agrees if
\* the message is sound and the book is formatted as the venue formatted it; a
\* later precision may change the digits the checksum is computed over.
MayVerify == Front.ok
MayMismatch == ~Front.ok \/ precision[Front.sym] # Front.prec

\* One turn of the loop that succeeds: m_sink.accept, then pop.
ProcessOne ==
  /\ proc = "running" /\ todo > 0
  /\ IF CaptureBook
     THEN Known(Front.sym) /\ MayVerify /\ BookSink!Accept(<<FrontRow>>)
     ELSE UNCHANGED bookVars
  /\ queue' = Tail(queue)
  /\ todo' = todo - 1
  /\ IF todo = 1 THEN FinishProcess ELSE UNCHANGED <<timer, requests, sessionVars>>
  /\ UNCHANGED <<venueVars, mainVars, refVars, tradeVars, history>>

\* One that throws.  Nothing catches it between the handler and main, so the
\* process terminates without running the destructors of the sinks, and a row
\* the level book refuses after the sink took it is lost with the rest.
ProcessThrows ==
  /\ proc = "running" /\ todo > 0 /\ CaptureBook
  /\ \/ ~Known(Front.sym)
     \/ Known(Front.sym) /\ MayMismatch
     \/ Known(Front.sym) /\ "io" \in Faults /\ bookCount + 1 >= FlushThreshold
  /\ proc' = "aborted"
  /\ AssetsSink!AbandonBatches
  /\ PairsSink!AbandonBatches
  /\ BookSink!Abandon
  /\ TradeSink!Abandon
  /\ UNCHANGED <<sessionVars, venueVars, shutting, engineVars, precision, history>>

-----------------------------------------------------------------------------
(* on_read and handle_msg, by the kind of message.  handle_msg returns      *)
(* FALSE when an exception is thrown anywhere below it.                     *)

Reads(ch) ==
  /\ Dispatch
  /\ pending = "read"
  /\ wire # <<>>
  /\ Head(wire).ch = ch
  /\ wire' = Tail(wire)
  /\ UNCHANGED <<listed, sent, mainVars, timer, todo>>

Incoming == Head(wire)

\* A variant that swallows the exception.
Swallowed == OnRead(TRUE, {})

\* handle_msg caught an exception.
Caught == OnRead(FALSE, {})

\* Variants that keep the entry there is, or take no new one.
RefdataAcceptOnce ==
  precision' = [s \in Symbols |-> IF s \in DOMAIN Incoming.pairs /\ ~Known(s)
                                  THEN Incoming.pairs[s] ELSE precision[s]]
RefdataAcceptKnown ==
  precision' = [s \in Symbols |-> IF s \in DOMAIN Incoming.pairs /\ Known(s)
                                  THEN Incoming.pairs[s] ELSE precision[s]]

\* refdata.accept: the entries of the pairs are replaced; the level books, told
\* of each pair next, take its precision with it.
RefdataAccept ==
  precision' = [s \in Symbols |-> IF s \in DOMAIN Incoming.pairs THEN Incoming.pairs[s]
                                  ELSE precision[s]]

\* A variant that records the pairs of a snapshot only.
RecordSnapshotPairs ==
  /\ AssetsSink!Write(Incoming.pairs)
  /\ IF Incoming.ch = "snapshot" THEN PairsSink!Write(Incoming.pairs)
     ELSE UNCHANGED <<pairsWritten, pairsFile>>

\* The two sinks take their batches.
RecordPairs == AssetsSink!Write(Incoming.pairs) /\ PairsSink!Write(Incoming.pairs)

\* accept_instrument: the files, then refdata and the level books.
AcceptInstrument == RecordPairs /\ RefdataAccept

\* The assets or the pairs cannot be written: refdata does not take them.
InstrumentThrows ==
  /\ \E ch \in {"snapshot", "update"} : Reads(ch)
  /\ "io" \in Faults
  /\ \/ AssetsSink!WriteThrows /\ UNCHANGED <<pairsWritten, pairsFile>>
     \/ AssetsSink!Write(Incoming.pairs) /\ PairsSink!WriteThrows
  /\ Caught
  /\ UNCHANGED <<queue, requests, precision, bookVars, tradeVars, history>>

\* The subscriptions handle_instrument_snapshot makes, with these outcomes.
Subscriptions(symbols, book, trade) ==
  (IF CaptureBook
   THEN <<[ch |-> "book", symbols |-> symbols, outcome |-> book]>> ELSE <<>>)
  \o
  (IF CaptureTrades
   THEN <<[ch |-> "trade", symbols |-> symbols, outcome |-> trade]>> ELSE <<>>)

\* A variant that forgets the filter.
Unfiltered(symbols) == symbols

Filtered(symbols) == IF PairFilter = {} THEN symbols ELSE symbols \cap PairFilter

\* handle_instrument_snapshot.  A send that fails does not make it return FALSE.
ReadSnapshot ==
  /\ Reads("snapshot")
  /\ AcceptInstrument
  /\ \E book, trade \in SendOutcomes :
       LET new == Subscriptions(Filtered(DOMAIN Incoming.pairs), book, trade)
       IN  /\ requests' = requests \o new
           /\ OnRead(TRUE, {new[i].outcome : i \in DOMAIN new})
  /\ UNCHANGED <<queue, bookVars, tradeVars, history>>

\* handle_instrument_update: nothing is subscribed to.
ReadUpdate ==
  /\ Reads("update")
  /\ AcceptInstrument
  /\ OnRead(TRUE, {})
  /\ UNCHANGED <<queue, requests, bookVars, tradeVars, history>>

\* handle_book_msg: the message waits for the process timer.
ReadBook ==
  /\ Reads("book")
  /\ queue' = Append(queue, Incoming)
  /\ received' = Append(received, Incoming)
  /\ OnRead(TRUE, {})
  /\ UNCHANGED <<requests, refVars, bookVars, tradeVars, traded>>

\* A variant that skips the trades of unknown symbols.
KnownTradesAll == SelectSeq(Incoming.trades, LAMBDA t : Known(t.sym))

\* The trades before the first one whose symbol is not known.
KnownTrades ==
  LET ts == Incoming.trades
      start == {i \in DOMAIN ts : \A j \in 1 .. i : Known(ts[j].sym)}
  IN  SubSeq(ts, 1, Cardinality(start))

TradeRows(ts) == [i \in DOMAIN ts |-> [msg |-> ts[i], prec |-> precision[ts[i].sym]]]

\* handle_trade_msg: the rows go to the sink at once.
ReadTrades ==
  /\ Reads("trade")
  /\ IF CaptureTrades
     THEN /\ KnownTrades = Incoming.trades
          /\ TradeSink!Accept(TradeRows(Incoming.trades))
          /\ traded' = traded \o Incoming.trades
     ELSE UNCHANGED <<tradeVars, traded>>
  /\ OnRead(TRUE, {})
  /\ UNCHANGED <<queue, requests, refVars, bookVars, received>>

\* An unknown symbol stops the message half way, or the flush fails.
TradesThrow ==
  /\ Reads("trade")
  /\ CaptureTrades
  /\ \/ /\ KnownTrades # Incoming.trades
        /\ TradeSink!AddRows(TradeRows(KnownTrades))
        /\ traded' = traded \o KnownTrades
     \/ /\ KnownTrades = Incoming.trades
        /\ "io" \in Faults
        /\ TradeSink!AcceptThrows(TradeRows(Incoming.trades))
        /\ traded' = traded \o Incoming.trades
  /\ Caught
  /\ UNCHANGED <<queue, requests, refVars, bookVars, received>>

\* Heartbeats, pongs, answers to subscriptions and unexpected messages are
\* counted at most; a message that does not parse ends the session; an empty
\* one never reaches handle_msg.
ReadOther ==
  /\ \/ Reads("other") /\ OnRead(TRUE, {})
     \/ Reads("malformed") /\ Caught
     \/ Reads("empty") /\ OnReadEmpty
  /\ UNCHANGED <<queue, requests, refVars, bookVars, tradeVars, history>>

ReadError ==
  /\ Dispatch
  /\ OnReadError
  /\ UNCHANGED <<venueVars, mainVars, engineVars, refVars,
                 bookVars, tradeVars, history>>

-----------------------------------------------------------------------------
\* The loop ends: the timers are cancelled, main returns and the sinks are
\* destroyed.  Messages still in the queue are dropped with the engine.
Exit ==
  /\ proc = "running" /\ todo = 0
  /\ ~Continue
  /\ proc' = "exited"
  /\ StopProcessing
  /\ timer' = "off"
  /\ \/ AssetsSink!CloseBatches
     \/ (assetsFile = "damaged" \/ "io" \in Faults) /\ AssetsSink!CloseBatchesThrows
  /\ \/ PairsSink!CloseBatches
     \/ (pairsFile = "damaged" \/ "io" \in Faults) /\ PairsSink!CloseBatchesThrows
  /\ \/ BookSink!Close
     \/ (bookFile = "damaged" \/ "io" \in Faults) /\ BookSink!CloseThrows
  /\ \/ TradeSink!Close
     \/ (tradeFile = "damaged" \/ "io" \in Faults) /\ TradeSink!CloseThrows
  /\ UNCHANGED <<venueVars, shutting, todo, queue, requests,
                 precision, history>>

-----------------------------------------------------------------------------
(* The venue's steps, and the connection's.                                 *)

Published(ch) ==
  IF "stray" \in Faults THEN Symbols ELSE Delivered(ch)

VenueStep ==
  /\ proc = "running" /\ link = "open"
  /\ \/ Connected("instrument") /\ SendSnapshot
     \/ \E s \in Symbols : ChangePair(s)
     \/ \E s \in Published("book"), ok \in BOOLEAN : SendBook(s, ok)
     \/ \E s \in Published("trade") : SendTrades(<<s>>)
     \/ \E s, t \in Published("trade") : SendTrades(<<s, t>>)
     \/ \E ch \in {"other", "malformed", "empty"} : SendOther(ch)
  /\ UNCHANGED <<sessionVars, mainVars, engineVars, refVars,
                 bookVars, tradeVars, history>>

LinkLost ==
  /\ proc = "running"
  /\ "link" \in Faults
  /\ LinkBreaks
  /\ LoseInFlight
  /\ UNCHANGED <<mainVars, engineVars, refVars, bookVars, tradeVars, history>>

\* The process is gone.
Terminated == proc # "running" /\ UNCHANGED vars

Read ==
  \/ ReadSnapshot \/ ReadUpdate \/ InstrumentThrows
  \/ ReadBook \/ ReadTrades \/ TradesThrow \/ ReadOther \/ ReadError

Process == OnProcessTimer \/ ProcessOne \/ ProcessThrows

Next ==
  \/ Connect \/ Interrupt \/ PingFails
  \/ Process \/ Read \/ Exit
  \/ VenueStep \/ LinkLost \/ Terminated

Spec == Init /\ [][Next]_vars

\* The event loop runs every handler that is ready: the io_context serves its
\* ready handlers in order, timers expire, and a lost connection is reported to
\* the outstanding read or, at the latest, to a ping (the ping timer never stops).
Fairness ==
  /\ WF_vars(Connect)
  /\ WF_vars(Process)
  /\ WF_vars(Read)
  /\ WF_vars(PingFails)
  /\ WF_vars(Exit)

FairSpec == Spec /\ Fairness

-----------------------------------------------------------------------------
(* Safety.                                                                  *)

Msgs(rows) == [i \in DOMAIN rows |-> rows[i].msg]

\* While the recorder runs, every book message handle_book_msg took is in
\* exactly one place, in the order of arrival: handed to the file's writer, in
\* the sink's builders, or in the engine's queue (src/engine.cpp:171-249,
\* parquet/src/book_sink.cpp:49-126).
BookJournal ==
  proc = "running" /\ CaptureBook =>
    received = Msgs(bookWritten \o bookRows) \o queue

\* The same of trades, which are not queued; a sink whose flush failed has lost
\* a batch (parquet/src/trade_sink.cpp:22-85).
TradeJournal ==
  proc = "running" /\ tradeFile = "open" => traded = Msgs(tradeWritten \o tradeRows)

\* When main returns with no I/O error, both files can be read, every trade
\* taken is in its file, and the book file lacks only what the process timer
\* had not yet drained (kdr_record/kdr_record.cpp:152-158).
ExitLosesOnlyQueue ==
  proc = "exited" /\ "io" \notin Faults =>
    /\ bookFile = "readable" /\ tradeFile = "readable"
    /\ CaptureBook => received = Msgs(bookWritten) \o queue
    /\ traded = Msgs(tradeWritten)

\* Whatever happened, what can be read back is the venue's feed from its start,
\* with no message missing, doubled or out of order.
RecoveredIsFeedPrefix ==
  /\ \A i \in DOMAIN BookSink!Recovered : BookSink!Recovered[i].msg.id = i
  /\ \A i \in DOMAIN TradeSink!Recovered : TradeSink!Recovered[i].msg.id = i

\* Between handlers m_num_rows is the number of rows in the builders.  Only a flush
\* of trades that failed, and was caught, leaves another count behind, of rows that
\* the builders have no more, and then no handler runs that could add to it: what
\* uses that count is the destructor, whose flush makes a batch of it over empty
\* columns (parquet/src/trade_sink.cpp:14-20, :57-85).
CountsMatch ==
  proc = "running" =>
    /\ bookCount = Len(bookRows)
    /\ tradeCount = Len(tradeRows) \/ (tradeFile = "damaged" /\ ~keep)

\* A trade is written with the precision its pair had at the venue when the
\* trade was sent (src/engine.cpp:176-180, parquet/src/trade_sink.cpp:38-41).
TradesAtVenuePrecision ==
  \A rows \in {tradeRows, tradeWritten} :
    \A i \in DOMAIN rows : rows[i].prec = rows[i].msg.prec

\* A book message is never written with a precision older than its own: the
\* instrument messages that preceded it have been handled when it is drained.
BookRowsNeverOlder ==
  \A rows \in {bookRows, bookWritten} :
    \A i \in DOMAIN rows : rows[i].prec >= rows[i].msg.prec

\* What the recorder asked for it knows: of a venue that sends what was asked,
\* every queued message and every trade taken is of a pair in refdata that passes
\* the filter (src/engine.cpp:131-163).
OnlyWantedSymbols ==
  "stray" \notin Faults =>
    \A msgs \in {queue, traded} : \A i \in DOMAIN msgs :
      /\ Known(msgs[i].sym)
      /\ PairFilter = {} \/ msgs[i].sym \in PairFilter

\* Of a venue whose feed is sound a timer handler throws on nothing but a book
\* message that was overtaken, in the queue, by a change of its pair's precision
\* (src/engine.cpp:235, kdr_record/kdr_record.cpp:117-121).
AbortsOnlyOvertaken ==
  proc = "aborted" /\ Faults \cap {"corrupt", "stray", "io"} = {} =>
    Front.prec < precision[Front.sym]

\* A connected recorder that goes on processing has a read outstanding, as long
\* as no empty frame was sent to it (src/session.cpp:122-178; the run empty_frame
\* shows the other case).
ReaderArmed ==
  proc = "running" /\ keep /\ link # "down" => pending = "read"

\* m_keep_processing that is cleared when a handler returns stays cleared, though
\* on_handshake sets it: no handshake is outstanding then, and none starts another
\* (src/session.cpp:127).  What on_handshake itself clears and sets again shows in
\* no state between handlers; FailedHandshakeEnds is about it.
StopIsFinal == [][~keep => ~keep']_vars

\* A row is formatted with a precision that the pairs sink has handed to its
\* writer, also when the assets or the pairs of a message could not be written:
\* refdata takes no pair before that.  If the pairs file can be opened at all it
\* tells the precision of every row of the others
\* (kdr_record/kdr_record.cpp:102-113, parquet/src/pairs_sink.cpp).
RowsExplained ==
  \A rows \in {bookRows, bookWritten, tradeRows, tradeWritten} : \A i \in DOMAIN rows :
    \E b \in DOMAIN pairsWritten :
      /\ rows[i].msg.sym \in DOMAIN pairsWritten[b]
      /\ pairsWritten[b][rows[i].msg.sym] = rows[i].prec

(* What the repository's text says.                                         *)

\* README.md:130: an empty filter records all pairs.
EveryPairSubscribed ==
  proc = "running" /\ todo = 0 /\ PairFilter = {} /\ CaptureBook =>
    \A s \in Symbols : Known(s) => s \in Requested("book")

\* README.md:104: the files can be replayed to reproduce the state.
BookRowsAtVenuePrecision ==
  \A rows \in {bookRows, bookWritten} :
    \A i \in DOMAIN rows : rows[i].prec = rows[i].msg.prec

-----------------------------------------------------------------------------
(* Liveness.                                                                *)

\* A signal, or a handler that stopped the session, ends the process.
StopEnds == (shutting \/ ~keep) ~> (proc # "running")

\* A lost connection ends the process, whatever the reader is doing.
LostLinkEnds == (link = "broken") ~> (proc # "running")

\* A websocket handshake that failed does, too, though its failure is forgotten.
FailedHandshakeEnds == (pending = "read" /\ link = "down") ~> (proc # "running")

\* Whatever the venue sends is read (include/session.hpp:23), unless the process
\* ends first.
FeedIsRead == (wire # <<>>) ~> (wire = <<>> \/ proc # "running")
=============================================================================
