# A formal model of kdr_record

`kdr_record` subscribes to Kraken's websocket feed and writes instruments, level
books and trades to parquet files. This directory holds TLA+ modules of that
program, the TLC configurations that model-check them, and proofs checked by
TLAPS. Paths below are relative to the root of the repository.

## 1. The system

### Components

| Component | Code | State | Operations |
|---|---|---|---|
| event loop | `kdr_record/kdr_record.cpp` | `shutting_down`; the sinks, level book and refdata live in `main` | `ioc.run_one()` while neither flag stops it; `signal_handler`; the accept lambdas; teardown at the end of `main` |
| session | `src/session.cpp` | `m_keep_processing`, the websocket, the outstanding asynchronous operation | resolve, connect, TLS handshake, websocket handshake, read (a chain of handlers), synchronous `send`, `fail`, `stop_processing` |
| engine | `src/engine.cpp` | `m_book_responses`, four timers' state, request numbers | `handle_msg` and its handlers; the process, ping and metrics timers |
| book and trades sinks | `parquet/src/book_sink.cpp`, `trade_sink.cpp` | column builders, `m_num_rows`, the parquet writer | `accept`, `flush`, destructor |
| assets and pairs sinks | `parquet/src/assets_sink.cpp`, `pairs_sink.cpp` | the writer only | `accept` writes one batch per message |
| refdata | `src/refdata.cpp` | the assets and pairs last announced | `accept`, `pair_precision` |
| level book, sides | `src/level_book.cpp`, `src/sides.cpp`, `include/sides.hpp` | per symbol: precision, bids, asks | `accept(pair)`, `accept(book)`, checksum |
| decimal | `include/decimal.hpp`, `src/decimal.cpp` | a buffer of characters and a view of it | parse, copy, compare, print, feed the checksum |
| replay tool | `test/check_book.cpp` | the files read back | rebuild the books from the rows and verify them |
| metrics, config, request and response types, generated model | `src/metrics.cpp`, `src/config.cpp`, ... | counters, options | logging, parsing, formatting |
| the venue | external | its books, its pairs | answers subscriptions, publishes |

### How they interact

The program has one thread. `ioc.run_one()` runs one completion handler to its
end, and the loop looks at both stop flags between handlers. Resolving, connecting
and the two handshakes follow one another; after the last one the timers are
started and the first read is outstanding. The first firing of the process timer
subscribes to the instrument channel; the snapshot that answers makes the engine
subscribe to books and trades. Instrument and trade messages go to their sinks in
the read handler. Book messages go to a queue which the process timer drains, up
to `c_process_batch_size` at a time, into `book_sink` and then `level_book`.
`refdata` couples the two paths: it is written in the read handler and read when
a row is formatted.

What is hard here is not parallelism but *what runs between two handlers, and what
an error leaves behind*:

- book messages wait while instrument messages overtake them;
- `fail()` does not return from its callers, and `on_handshake` undoes it;
- an exception below `handle_msg` stops the session in order, the same exception
  below a timer ends the process without destructors, and a parquet file is
  unreadable until the writer in the sink's destructor has written its footer;
- a flush that fails has emptied the builders but not the row count;
- the next read is started only at the very end of `on_read`;
- numbers are texts: `str_view` of a const decimal writes to its buffer and reads past
  its view, and a printed decimal is parsed again by the replay tool;
- the replay tool reads two files one after the other that were written interleaved.

### What makes each component correct

- session: one operation outstanding as long as the session may go on; a stop is
  final; a stop, a signal or a dead connection ends the process.
- engine and sinks: every message taken is recorded once and in order, or is lost
  only by a stop (what is still queued) or a crash (the whole file); what can be
  read back is a prefix of the feed; row counts match the builders.
- subscriptions: books and trades are asked for only of known, wanted pairs.
- rows are formatted with the precision the venue used, which the pairs file tells.
- level book: equal to the best levels of the venue's book, no false alarm, and the
  checksum guards the levels it covers; behind its queue, it is where the queued
  messages expect it to be.
- decimals: order, checksum digits and printed text agree with the number.
- replay: a recording is accepted and gives back the recorder's book.

The hazards, each at its line with the properties aimed at it, are listed in
`PROJECT.json`.

## 2. The modules

```
Session, Venue, RowSink (twice), BatchSink (twice)
  Recorder                 MCRecorder
    RecorderJournal        MCRecorderJournal        with Journal
      RecorderProofs       with RowSinkProofs
        FeedProofs
          RefdataProofs

Numbers
  Sides
    LevelBook              MCLevelBook
      Replay               MCReplay                 with LevelBook again, as Tool
  Decimal                  MCDecimal
  NumberProofs
    LevelBookProofs        on LevelBook
      ReplayProofs         on Replay
    DecimalProofs          on Decimal
```

A module is below what it extends, beside it is its instance for TLC.

**Session** - `session_t`. `pending` is the one asynchronous operation whose handler
runs next, `keep` is `m_keep_processing`, `link` is the websocket as the operating
system sees it. There is one action per handler. `ok` says whether the handler was
given an error; `outcomes` are those of the sends the callbacks made. The branch of
`on_read` for a size that differs from the buffer's is taken only after a read
error that left part of a message behind, and is `OnReadError`.
`SessionSpec` is the session under callbacks that may do anything.

**RowSink** - `book_sink_t` and `trades_sink_t`, which differ only in their columns and
in how many rows a message makes. `rows` are in the builders, `written` in the
parquet writer, `file` tells whether a reader could open the file. `Flush` is
possible only with a well formed batch. `AcceptThrows` is a failing flush
(builders emptied by `Finish`, count kept). `Close` is the destructor, after a
failed flush `CloseThrows`: it flushes once more, a batch of the stale count over empty
columns, and it is left open whether the footer is sound;
`Abandon` is a process that dies without destructors.

**BatchSink** - `assets_sink_t` and `pairs_sink_t`. Nothing stays in the builders between
two messages, so the state is what was handed to the writer and what has become of
the file. A batch is the pairs of the message with their precisions; an asset has
nothing the properties tell apart, so the assets file is given the same batches.

**Venue** - external. Lists pairs and changes their precision, answers the
instrument subscription with a snapshot, announces changes afterwards, publishes
numbered books and trades, heartbeats and, if `Faults` say so, malformed messages
and empty frames. Everything travels in order. What a message contains is reduced
to what the recorder's path tells apart: number, symbol, the precision the venue
formatted it with, and whether its checksum is right.

**Recorder** - composes the three with the loop, the engine and refdata. One action is
one completion handler. The one exception is `on_process_timer`: its loop takes one
step per queued message, because each may throw; `todo` is `num_to_process`, and
while it is positive no other handler is enabled, as the program has one thread
(the venue and the connection may move). `FinishProcess` is the end of that handler
with, on its first firing, the instrument subscription. `AcceptInstrument` is
the accept lambda: assets file, pairs file, refdata, in that order, and `InstrumentThrows`
ends it at either file; the level book's own content is left to LevelBook and appears here
as `MayVerify` and `MayMismatch`: a checksum agrees if the message is sound, and may
disagree if it is not or if the precision now differs from the message's
(`Replay!RefusesOnlyOvertaken` checks that on real books). `received`
and `traded` are history variables.

**Journal**, **RecorderJournal** - the abstract promise of the book recording: a log of
what was received, a mark of what was taken, and a file that appears at the finish
and holds the log up to the mark, or nothing after a crash. RecorderJournal states
that Recorder implements it under the mapping log = `received`, mark = where the
queue begins, file = what can be read back.

**Numbers** - decimals as integers in units of 10^-Scale: the number cut at a precision,
which is what `str` prints, and the digits up to it, which is what `process` feeds to a
checksum. Sides and Replay compute with these; Decimal shows that texts agree with them.

**Sides**, **LevelBook** - the order-book algorithms on real prices and quantities
(decimals as integers in units of 10^-Scale): snapshot, quote by quote update, cut to
the depth, checksum stream, change of precision. The venue keeps full books and
sends the net difference of the promised levels in any order; `LossyUpdate` leaves
one quote out, and `DeepSnapshot` sends more levels than were subscribed to, which
`accept_snapshot` does not cut. Three variables are histories: `sound`, the venue has sent every
change so far, no book before its pair and no deep snapshot (`MirrorsVenue` and `NoFalseAlarm` are
promised only then); `deep`, the symbols whose last message was a deep snapshot; `mistaken`, a checksum has
agreed with levels that were wrong, which happens because the digits of prices and quantities are
put together without separators. The CRC-32 is represented by the digits it is computed over, so two
checksums agree exactly if the streams do: CRC collisions are outside the model.

**Replay** - LevelBook's books behind the engine's queue, and `check_book`. Instrument
messages are handled in the step they arrive in, book messages are queued; `Drain` is
one message of the process timer's loop: the row, printed at refdata's precision and
so cut, then the level book. `StopRecording` may come at any time. Then `check_book`
reads the pairs file to its end, one row a step, and after it the book file, into a
second level book (`Tool`, an instance of LevelBook on `toolSides`). The venue only
publishes numbers that its announced precision can express. The messages' quotes
come in a fixed order; LevelBook has them in every order.

**Decimal** - `decimal_t` character by character, because its hazards are there: which
zeros the text carries, where the point is, what lies in the buffer behind the view. An
object is the buffer, the length of the view and `own`, whether the view is of the
buffer or of the static "0.0". `exact` is the number the text stands for. Slots are
objects that are constructed, assigned and fed to a checksum in any order; `Feed` is
for copies only, as the maps of a side hold nothing else. 2^64 is the constant `Wrap`;
the properties are about numbers whose parts are below it (`Fits`).

**MCRecorder**, **MCRecorderJournal**, **MCLevelBook**, **MCReplay**, **MCDecimal** -
instances for TLC.

**RowSinkProofs**, **RecorderProofs**, **FeedProofs**, **RefdataProofs**, **NumberProofs**,
**LevelBookProofs**, **ReplayProofs**, **DecimalProofs** - section 5.

Operators introduced as "a variant" next to a definition are what that
definition would be with a plausible bug. They are used only to see that each
property fails when the code is wrong in that way, and occur in no specification.

## 3. The runs

Bounds: `MaxSent` bounds the messages of each kind, `MaxPrecision` the precisions a
pair goes through, `BatchSize` and `FlushThreshold` (64 and 4096 in the code) are
1 or 2.

| Run | Spec | What it shows |
|---|---|---|
| `book_faults` | Spec | All faults together on the book path, three book messages: `BookJournal`, `RecoveredIsFeedPrefix`, `CountsMatch`, `StopIsFinal`, and that the composition implements `SessionSpec` |
| `trade_faults` | Spec | Two symbols, one unknown; messages of one or two trades, writes of any file that fail, a changing precision: `TradeJournal`, `RecoveredIsFeedPrefix`, `CountsMatch`, `RowsExplained` |
| `feed` | Spec | A sound venue, a filter, changing precisions, lost connections, signals: `TradesAtVenuePrecision`, `BookRowsNeverOlder`, `OnlyWantedSymbols`, `ReaderArmed`, `AbortsOnlyOvertaken`, `ExitLosesOnlyQueue`, `RowsExplained` |
| `live` | FairSpec | `StopEnds`, `LostLinkEnds`, `FailedHandshakeEnds`, also when the reader has stalled; `ImplementsFairJournal`: the refinement, with its fairness |
| `levels` | Spec | `MirrorsVenue`, `NoFalseAlarm` of a sound venue, `PrecisionsAgree`, and `VerifiedTopAgrees`, `DepthBounded` also when quotes are lost and snapshots are too deep: three prices per side, depth two, two precisions, two books that collide |
| `decimal` | Spec | `OrderAgrees`, `StreamAgrees`, `RowsReadBack`: texts of up to two digits and a fraction of up to three, or a bare point, with and without a blank behind |
| `replay` | ReplaySpec | `QueueCatchesUp`, `RefusesOnlyOvertaken` over a change of precision; `ReplayReproduces` when there is none |
| `empty_frame`, `new_pair`, `late_precision`, `exponent`, `replay_precision` | | the disagreements of section 6 |

Why the bounds are enough for the interesting cases: a batch of two with three or
four messages splits the queue over two firings; a threshold of two puts the flush
in the middle of a drain and in the middle of the feed and leaves a partial batch
for the destructor; two trades in a message let the second one be the unknown one;
two precisions are one change, which may fall before, between and after the
messages in flight. In LevelBook a depth of two with three prices makes levels fall
out of and come back into view; a checksum depth of one leaves one unguarded level.
`TwoPrecisions` differ in both fields, and the numbers of `levels` are multiples of ten,
which either of them expresses; quantities there are equal, and `replay` has two. An ask of 410
(4100 in units of the model) at quantity zero and one of 4 at 1.0 have the same digits, so that run has a
checksum that agrees with the wrong book.
In `decimal` the digits 0 and 6 make every pattern of leading, inner and trailing zeros, and
`Wrap` is 64, so 66 wraps; two objects are enough for a comparison and for a copy of a
copy. In `replay` three messages are a snapshot and two updates, two of which may be
queued while the precision changes; a quantity of 15 needs the finer precision; asks
are left empty, as both sides run through the same code and `levels` has both.
The model has no symmetry reduction: the two symbols play different roles.

## 4. Fairness

Only `live` and `empty_frame` use `FairSpec`. It has weak fairness of the
connection handlers, the process timer's handler, the reads, a ping that fails, and
the exit. The io_context runs its ready handlers in order; resolve, connect and TLS
handshake complete or time out (30 s), the websocket handshake has beast's suggested
timeouts; both timers are set again at the end of their handlers, so they fire as
long as the loop runs; a read of a broken connection reports an error, and a broken
connection makes a ping fail sooner or later because pings never stop. A send may
vanish in the local socket buffer any number of times, but not for ever:
that the ping's failure is eventually seen is `WF_vars(PingFails)`. Nothing is
assumed of the venue or of signals.

## 5. The proofs

All are for arbitrary constants under `VenueAssumption` and `RecorderAssumption`: any set
of symbols, filter, batch size, thresholds, bounds on what is sent, faults; those about
LevelBook and Replay under `NumbersAssumption`, `SidesAssumption` and `LevelBookAssumption`: any finite sets of prices, any quantities, precisions
and depths; those about Decimal under `NumbersAssumption` and `DecimalAssumption`: any buffer
that the longest text fits, any digits, any 2^64. Every invariant and every safety property of
the passing runs is proved. Some theorems have a hypothesis of their own, given where they are
described: `JournalImplemented` that books are captured, `ReaderArmed` that no empty frame arrives,
`VerifiedTopAgrees` that the checksum covers no more levels than are subscribed to, and those about
Decimal that no text has an exponent.

What Recorder takes and writes:

- `RowSinkProofs`: what a sink's operations keep. The main lemmas: `accept`, flushing or
  not, appends its rows to `written \o rows`; the count stays the length of the
  builders; closing writes all; rows stay in any set that held them.
- `RecorderProofs!TypeCorrect`: `Spec => [](TypeOK /\ TodoQueued)`. `TypeOK` alone is
  not inductive: `ProcessOne` takes the head of the queue, which exists only because
  `num_to_process` was bounded by the queue's length when the loop began and nothing
  else pops. `TodoQueued` says so.
- `RecorderProofs!BookJournalCorrect`: `received = Msgs(written \o rows) \o queue` is
  inductive together with the above. Two actions disturb it: a read appends at both
  ends, a turn of the loop moves the front message across the boundary. The work is in
  `MsgsConcat` and associativity.
- `RecorderProofs!TradeJournalCorrect`: the same for trades, through the message that is
  taken half way.
- `RecorderProofs!CountsMatchCorrect`: a failed flush of the books ends the process; one of the
  trades is caught and leaves a count that is too high, a damaged file and a session that has stopped,
  and all that still uses the count is the destructor. `CountsMatch` says the last by `keep`, which
  `on_handshake` may set, so it is not inductive. `CountsHeld` replaces `keep` by "may continue": keep, or
  an operation outstanding. `MayContinueBefore` shows that this never becomes true again.
- `RecorderProofs!ExitCorrect`: from the two journals and `FilesSound` (the files are open
  until `main` returns and only a failing flush damages one).
- `RecorderProofs!JournalImplemented`: `Spec` implements the abstract journal. The journal's
  mark is where the queue begins in `received`, so the proof needs `BookJournal`
  (`JournalRunning`); a step of Recorder is a receipt, a take, a finish or a stutter of the
  journal (`JournalReceive`, `JournalTake`, `JournalFinish`, `JournalStutter`). It is about
  `CaptureBook`: without it the queue is drained into nothing. The fairness of the
  journal is `live`'s.
- `RecorderProofs!ReaderArmedCorrect`: without empty frames the chain of reads is unbroken.
  The strengthening `ChainHolds` relates `pending`, `link` and `keep`; `NoEmptyFrame` follows
  the wire. The hypothesis on `Faults` is needed: section 6 shows the case without it.
- `RecorderProofs!StopIsFinalCorrect` and `SessionImplemented`: `Spec => StopIsFinal` and
  `Spec => SessionSpec`, the session as Session specifies it for any client. Both are about the flag
  between two handlers: that `on_handshake` clears it and sets it again is one step. A handler runs
  only while `keep` holds or, of the turns of `on_process_timer`'s loop, held when the
  loop began: `TodoKept` is the invariant that the last case needs.

The feed in the files:

- `FeedProofs!RecoveredIsFeedPrefixCorrect`. The journals say that what is in the files
  was received; what remains is that the messages received are numbered 1, 2, 3, ...
  `BookFeed` and `TradeFeed` say that what was received and what is on the wire
  (`InFeed`, `Whole`) is the venue's feed, of which a broken connection may have lost the
  end. `TradeFeed` holds only while another message may be read, because a message taken half
  way leaves a gap and must therefore be the last; `MayContinue` is the same notion as for
  the counts. `RowsNumbered` carries the result past the end of the process, where the
  journals no longer speak.
- `RefdataProofs!RowsExplainedCorrect`: rows carry refdata's precision, refdata's precision
  came from a message that was handed to the pairs file (`RefdataExplained`), and what was handed to
  it only grows (`PairsFileGrows`). Whether that file can be opened in the end is another matter: after a
  failed write or without a footer it may not be. `RefdataExplained` is the strengthening: without it nothing is known
  of the next row.
- `RefdataProofs!OnlyWantedSymbolsCorrect`: a symbol is followed from the request over the
  wire to the queue or the trades sink (`WantedHeld`); the step works because what refdata
  knows it never forgets (`WantedGrows`), so an older request or message stays justified. A
  venue that sends what was not asked for ("stray") is excluded by the property itself.
- `RefdataProofs!TradesAtVenuePrecisionCorrect`. The invariant is `PrecisionTold`: who knows what
  refdata knows and reads the wire up to a message knows the precision the message is
  stamped with (`WireTold`), and who reads all of it knows what the venue lists
  (`EndTold`). It needs `Unannounced` (before the snapshot nothing is known and nothing
  told) for the pairs the venue changes without a word, and holds while another message may
  be read: an instrument message that cannot be written to its file is not accepted.
- `RefdataProofs!BookRowsNeverOlderCorrect`: `Monotone` orders the precisions of a pair from the queue
  and refdata along the wire to the venue, `QueueDated` says that a queued message is not
  ahead of refdata: equal when it is queued, by `PrecisionTold`, and refdata only moves on,
  by `Monotone`.
- `RefdataProofs!AbortsOnlyOvertakenCorrect`: from `QueueDated`, `ChecksumsSound` and
  `OnlyWantedSymbols`, which exclude every other reason for `ProcessThrows`.

The level book:

- `LevelBookProofs`, first half: `Top`, `ApplyQuote`, `Applied` and `FromSnapshot` for any side
  and any quotes. A list of quotes with distinct prices has the effect of the set of them,
  whatever its order, and cutting a side that lacks levels beyond the venue's best gives
  the best. The library's induction theorems take a predicate as a parameter and cannot be
  used; `Least` and `Upward` state induction for sets of numbers instead, which a proof can
  define for its own purpose, and the loops of the code are recursive functions.
- `LevelBookProofs!BookInvCorrect`: `BookInv` is `TypeOK`, `BooksFormed` (`m_sides` maps symbols to books with a
  precision), `DepthBounded`, which excepts the symbols in `deep`, `PrecisionsAgree` and `Faithful`, which says that every book has the precision
  the venue lists (of any venue), and of a sound one that every book synced is known and is
  the best levels of the venue's, and that nothing was refused. From it `MirrorsVenueCorrect`, `NoFalseAlarmCorrect`,
  `DepthBoundedCorrect`, `PrecisionsAgreeCorrect` and `TypeCorrect` are read off. The central lemmas are
  `SnapshotGives` and `UpdateGives`: the quotes of a snapshot, and those of an update in
  whatever order, take the recorder's side to the venue's best levels.
- `LevelBookProofs!VerifiedTopAgreesCorrect`: a venue that loses quotes is not followed, so `Faithful`
  says nothing of the levels; what holds (`Verified`) is that the books subscribed to are known and
  their best levels are the venue's, as long as nothing was refused and no checksum was mistaken. A
  message that was sent was verified, or `mistaken` now says so (`ReceiveVerifies`); one that was not sent
  had nothing to say of the levels promised (`UpdateVerifies`); a change of precision copies them. How
  often a checksum is mistaken is a matter of the numbers: 32 bits, and the digits of several
  numbers without separators, cannot tell all books apart, and nothing is assumed of that. The hypothesis
  is `CrcDepth <= BookDepth`: the checksum covers ten levels (`include/sides.hpp:60`), and the
  depths one can subscribe to are ten and more (`README.md:132`).

Behind the queue, and from the files again:

- `ReplayProofs`, first part: `Course`, the side of a book after each number of messages.
  Reading a message appends to it (`CourseAppend`), taking one off the queue starts it one
  message later (`CourseTail`), and messages of other symbols leave it alone (`CourseIdle`).
- `ReplayProofs!ReplayInvCorrect`: `ReplayInv` has three parts. `QueueInv` adds to `QueueCatchesUp`
  and `RefusesOnlyOvertaken` that the checksum of each queued message is that of the book it
  leads to, at the precision it was sent with (`QueueChecked`); without it nothing is known of
  the next message to be taken. `FilesInv` says the same of the rows, from an empty book to
  the recorder's, if no precision changed (`RowsLead`, `RowsChecked`). Both parts meet in
  `PrintedIs`: a row cut at the precision its message was sent with has the message's numbers,
  because the venue's numbers are multiples of that precision's unit (`SnapshotSends`,
  `UpdateSends`). `ToolInv` follows `check_book` through the files.
- `QueueCatchesUpCorrect` and `RefusesOnlyOvertakenCorrect` are read off; `ReplayReproducesCorrect`
  follows because the pairs file names every pair with its precision (`PairsKnown`), so that
  `check_book` verifies with the precisions the recorder had, and the rows take it where they
  took the recorder. That `Tool`, the second instance of the level book, computes what the
  first one does is `ToolSame`.

Decimals:

- `NumberProofs`: that the powers of ten and the digits of a number, which are defined by recursion,
  exist and are what they are defined to be (`PowersAre`, `DigitsAre`), what cutting a number
  does, and induction (`Least`, `Upward`) and loops (`LoopExists`), which all of these proofs use.
- `DecimalProofs!StandingCorrect`: the inductive invariant is that every object whose number fits
  stands for it (`Stands`): its buffer holds a string of digits the number is read from, the digits it
  does not show are zeros, and behind the integer part there is a point or the room for the one
  `str_view` writes. The properties themselves are far from inductive: that a later checksum is
  right depends on what lies behind the view, which no comparison shows.
- The constructor establishes it (`ParseStands`) by an induction along its loop whose invariant,
  `Parsed`, says of every state of the automaton how many zeros were left out and what was kept;
  `TrimmedHolds` and `NullObject` are its two results, the trimmed view and the static zero.
  Copies keep it (`CopyStands`), and `str_view` does (`MarkedStands`).
- `OrderAgreesCorrect` from `StandsCompare`: as long as the digits of two fractions agree, the numbers
  read so far compare as the whole ones (`SignStays`). `StreamAgreesCorrect` from `StandsProcess`: the
  digits fed are those of what was read so far (`FeedDigit`), and the early return comes after the
  last digit. `RowsReadBackCorrect` from `StrText`: what `str` prints is again a text, of the number cut off,
  so that the constructor's theorem applies to it.
- They hold for texts without an exponent (`PlainTails`, which the tails of the run `decimal` satisfy);
  `exponent` in section 6 is the case without it.

Only model-checked: the liveness properties and the fairness of the refinement (the prover
has no rules for ENABLED).

## 6. Where the code and the text disagree

- `empty_frame`: `on_read` returns on an empty message before it starts the next read
  and without stopping the session. The process keeps pinging and records nothing more.
- `new_pair`: a pair listed while the recorder runs is written to the pairs file and never
  subscribed to, although an empty filter is documented to record all pairs.
- `late_precision`: a book message queued behind a change of its pair's precision is
  written with the new one; such a file does not reproduce the venue's book.
- `exponent`: a number in exponent notation, which JSON allows and a message of the unit tests
  has, is read as another number: what follows the fraction is dropped (1.5E1 is 1.5), and
  0E1 is 1.
- `replay_precision`: `check_book` verifies every row with the last precision of its pair and
  refuses a sound recording that has rows from before a change.

Two more are in the models, without a run of their own: every instrument snapshot subscribes
again (`ReadSnapshot`), so the application state that `include/engine.hpp:14` speaks of does
not exist; and an integer followed by a blank makes the constructor of `decimal_t` throw,
while a fraction does not (`Construct`).

## 7. What is not modelled

- Metrics, request numbers, the metrics timer, logging: nothing reads them.
- The command line, the options' values, parquet columns, timestamps, JSON text: no
  control depends on them beyond the cases "parses" and "does not parse".
- The content of assets: stored and written, read by nothing.
- `decimal_t::double_value`, `level_book_t::str` and the printing of a refused row by
  `check_book`: output for people.
- A checksum of a zero that was never copied (`src/decimal.cpp:112`), which would read past a
  static array: no caller does it.
- How `from_json` walks a message (`src/book.cpp`, `src/trades.cpp`, `src/instrument.cpp`): the messages are
  modelled as what it returns. A book message without data is one of an unlisted symbol (the
  fault "stray"), one with several entries does not parse ("malformed").
- `on_write`, `on_close`: registered nowhere.
- Errors of Arrow builders for want of memory; an exception from a constructor before
  the loop starts.
- The generated model types, the build and the Docker files.

## 8. Plan

Done, in this order: Session, RowSink, Venue, Recorder with its safety runs; liveness;
Journal and the refinement; Sides and LevelBook; BatchSink; Decimal; Replay; the proofs
of section 5.

Open: the liveness properties have no proofs, only runs; the JSON shapes of messages and the answers
to subscriptions (section 7) would be the next to model.
