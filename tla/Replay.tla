------------------------------- MODULE Replay -------------------------------
(***************************************************************************)
(* What a recording is for: the level book of the recorder behind its      *)
(* queue of book messages, the rows it writes of them, and check_book      *)
(* (test/check_book.cpp), which builds a second level book from the pairs  *)
(* file and the book file and checks every row against its checksum.       *)
(*                                                                         *)
(* Instrument messages are handled as they arrive, book messages wait.     *)
(* The process timer drains several messages in one handler; here each is  *)
(* a step, which allows more interleavings.  The quotes of a message come  *)
(* in one fixed order (LevelBook has them in all).  The venue is a sound    *)
(* one, so LevelBook's histories stay as they begin.                        *)
(***************************************************************************)
EXTENDS LevelBook

CONSTANTS
  MaxMessages,  \* bound: book messages
  MaxPairs      \* bound: instrument messages

VARIABLES
  queue,       \* m_book_responses
  rows,        \* the book file
  pairs,       \* the pairs file
  phase,       \* "recording", then check_book reads "pairs", then the "book"
  read,        \* rows check_book has read of the file it is in
  toolSides,   \* check_book's level book
  toolThrown   \* check_book has refused a row

toolVars == <<phase, read, toolSides, toolThrown>>
venueVars == <<venue, listed, synced>>
replayVars == <<vars, queue, rows, pairs, toolVars>>

Tool == INSTANCE LevelBook WITH sides <- toolSides, thrown <- toolThrown

ReplayInit ==
  /\ Init
  /\ queue = <<>> /\ rows = <<>> /\ pairs = <<>>
  /\ phase = "recording" /\ read = 0
  /\ toolSides = [s \in {} |-> 0] /\ toolThrown = FALSE

-----------------------------------------------------------------------------
(* The venue (external): its prices and quantities have no more digits than *)
(* the precision it announced last.                                         *)

Expressible(book, prec) ==
  \A sd \in {"bids", "asks"} : \A p \in DOMAIN book[sd] :
    p % Unit(prec.price) = 0 /\ book[sd][p] % Unit(prec.qty) = 0

\* A book message is read and queued; `prec` is what its checksum is made with.
Enqueue(s, type, bids, asks, book) ==
  /\ Len(rows) + Len(queue) < MaxMessages
  /\ queue' = Append(queue, [symbol |-> s, type |-> type, bids |-> SetToSeq(bids),
                             asks |-> SetToSeq(asks), crc |-> VenueCrc(s, book),
                             prec |-> listed[s]])

SendSnapshot(s) ==
  /\ s \in DOMAIN sides
  /\ Enqueue(s, "snapshot", Quotes(Best("bids", venue[s])), Quotes(Best("asks", venue[s])),
             venue[s])
  /\ synced' = synced \cup {s}
  /\ UNCHANGED <<venue, listed>>

SendUpdate(s) ==
  \E new \in NextBooks(venue[s]) :
    LET bids == Changes("bids", venue[s], new)
        asks == Changes("asks", venue[s], new)
    IN  /\ Expressible(new, listed[s])
        /\ venue' = [venue EXCEPT ![s] = new]
        /\ IF s \in synced /\ bids \cup asks # {} THEN Enqueue(s, "update", bids, asks, new)
           ELSE UNCHANGED queue
        /\ UNCHANGED <<listed, synced>>

-----------------------------------------------------------------------------
(* The recorder.                                                            *)

Recording == phase = "recording" /\ ~thrown

\* accept_instrument: the row of the pair, refdata and the level book.
AcceptInstrument(s) ==
  /\ Recording /\ Len(pairs) < MaxPairs
  /\ Instrument(s)
  /\ Expressible(venue[s], listed'[s])
  /\ pairs' = Append(pairs, [symbol |-> s, prec |-> listed'[s]])
  /\ UNCHANGED <<queue, rows, toolVars>>

ReadBook(s) ==
  /\ Recording
  /\ SendSnapshot(s) \/ SendUpdate(s)
  /\ UNCHANGED <<sides, refdata, thrown, history, rows, pairs, toolVars>>

\* A variant that takes the newest message.
Newest == queue[Len(queue)]

Oldest == Head(queue)

Printed(quotes, prec) ==
  [i \in DOMAIN quotes |-> [price |-> Cut(quotes[i].price, prec.price),
                            qty   |-> Cut(quotes[i].qty, prec.qty)]]

\* A variant that prints the quantities with the precision of the prices.
RowOfPrices(msg) ==
  LET prec == [refdata[msg.symbol] EXCEPT !.qty = refdata[msg.symbol].price]
  IN  [symbol |-> msg.symbol, type |-> msg.type, crc |-> msg.crc,
       bids |-> Printed(msg.bids, prec), asks |-> Printed(msg.asks, prec)]

\* The row of a message: its decimals cut to the precision refdata has now.
Row(msg) ==
  [symbol |-> msg.symbol, type |-> msg.type, crc |-> msg.crc,
   bids |-> Printed(msg.bids, refdata[msg.symbol]),
   asks |-> Printed(msg.asks, refdata[msg.symbol])]

\* One message of on_process_timer: accept_book, then the pop; if the level
\* book refuses the message the process ends before it.
Drain ==
  /\ Recording /\ queue # <<>>
  /\ LET msg == Oldest
     IN  /\ rows' = Append(rows, Row(msg))
         /\ AcceptBook(msg.symbol,
                       IF msg.type = "snapshot" THEN AcceptSnapshot(msg.symbol, msg)
                       ELSE AcceptUpdate(msg.symbol, msg),
                       msg.crc)
  /\ queue' = IF thrown' THEN queue ELSE Tail(queue)
  /\ UNCHANGED <<venueVars, history, refdata, pairs, toolVars>>

\* The recorder is stopped in order, queue or not, and its files are complete.
StopRecording ==
  /\ Recording
  /\ phase' = "pairs"
  /\ UNCHANGED <<vars, queue, rows, pairs, read, toolSides, toolThrown>>

-----------------------------------------------------------------------------
(* check_book.                                                              *)

\* process_pairs: all of the pairs file, before the first row of the book.
ReadPair ==
  /\ phase = "pairs"
  /\ IF read < Len(pairs)
     THEN /\ toolSides' = Tool!AcceptPair(pairs[read + 1].symbol, pairs[read + 1].prec)
          /\ read' = read + 1
          /\ UNCHANGED phase
     ELSE phase' = "book" /\ read' = 0 /\ UNCHANGED toolSides
  /\ UNCHANGED <<vars, queue, rows, pairs, toolThrown>>

\* process_book: a row that the level book refuses ends it.
ReadRow ==
  /\ phase = "book" /\ ~toolThrown /\ read < Len(rows)
  /\ LET row == rows[read + 1]
     IN  Tool!AcceptBook(row.symbol,
                         IF row.type = "snapshot" THEN Tool!AcceptSnapshot(row.symbol, row)
                         ELSE Tool!AcceptUpdate(row.symbol, row),
                         row.crc)
  /\ read' = read + 1
  /\ UNCHANGED <<vars, queue, rows, pairs, phase>>

ReplayNext ==
  \/ \E s \in Symbols : AcceptInstrument(s) \/ ReadBook(s)
  \/ Drain \/ StopRecording \/ ReadPair \/ ReadRow

ReplaySpec == ReplayInit /\ [][ReplayNext]_replayVars

-----------------------------------------------------------------------------
(* Properties.                                                              *)

\* A side of the book of s after a message of the queue, or a row of the file.
After(sd, s, side, msg) ==
  IF msg.symbol # s THEN side
  ELSE IF msg.type = "snapshot" THEN FromSnapshot(msg[sd])
  ELSE ApplyUpdate(sd, side, msg[sd])

\* The side after each number of messages.
Course(sd, s, side, msgs) ==
  LET after[i \in 0 .. Len(msgs)] ==
        IF i = 0 THEN side ELSE After(sd, s, after[i - 1], msgs[i])
  IN  after

\* However far the recorder's book is behind, what is queued leads from it to
\* the venue's book, over changes of precision and repeated snapshots
\* (src/engine.cpp:172, :235).
QueueCatchesUp ==
  ~thrown => \A s \in synced, sd \in {"bids", "asks"} :
    Course(sd, s, sides[s][sd], queue)[Len(queue)] = Best(sd, venue[s])

\* The level book refuses a message of a sound venue only if the precision of
\* its pair has changed while it was queued (src/sides.cpp:35): this is what
\* Recorder assumes of the checksum.
RefusesOnlyOvertaken ==
  thrown => Head(queue).prec # sides[Head(queue).symbol].prec

PrecisionsKept ==
  \A i, j \in DOMAIN pairs : pairs[i].symbol = pairs[j].symbol => pairs[i].prec = pairs[j].prec

\* If no pair changed its precision, check_book accepts every row and ends
\* with the book the recorder had when it stopped (test/check_book.cpp:160).
ReplayReproduces ==
  PrecisionsKept =>
    /\ ~toolThrown
    /\ phase = "book" /\ read = Len(rows) => toolSides = sides

\* README.md:104 says of the files that they "can be replayed in an *event
\* sourced* or *change data capture* fashion to reproduce state at any given
\* time": check_book would accept every row of a recording that ended in order.
ReplayAccepts == ~toolThrown
=============================================================================
