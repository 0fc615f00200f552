----------------------------- MODULE LevelBook -----------------------------
(***************************************************************************)
(* level_book_t and refdata_t (src/level_book.cpp, src/refdata.cpp): the   *)
(* recorder's copy of the venue's books, rebuilt from the snapshot and     *)
(* updates of the book channel and checked against the checksum of each    *)
(* message, and the pair precisions used to write the rows.                *)
(*                                                                         *)
(* Messages are handled in the order the venue sends them, each in the     *)
(* step it is sent: how the queue delays book messages behind instrument   *)
(* messages is the subject of Recorder.                                    *)
(***************************************************************************)
EXTENDS Sides

CONSTANTS
  Symbols,
  BidPrices,   \* the prices, decimals in units of 10^-Scale, that bids
  AskPrices,   \* and asks may have; disjoint, as a venue's book is not crossed
  Qtys,
  Precisions,  \* records of a price and a qty precision
  MaxChanges   \* bound: levels of a venue book that change in one update

ASSUME LevelBookAssumption ==
  /\ BidPrices \subseteq Nat \ {0} /\ AskPrices \subseteq Nat \ {0}
  /\ IsFiniteSet(BidPrices) /\ IsFiniteSet(AskPrices)
  /\ Qtys \subseteq Nat \ {0}
  /\ Precisions \subseteq [price : 0 .. Scale, qty : 0 .. Scale]
  /\ MaxChanges \in Nat

VARIABLES
  venue,    \* the venue's books, full depth
  listed,   \* the venue's precision of each symbol
  synced,   \* the symbols a snapshot was sent for
  sides,    \* m_sides: the book of each symbol known
  refdata,  \* m_pairs' precision of each symbol known
  thrown,   \* an accept has thrown
  sound,    \* history: the venue has kept its promises and sent no book before its pair
  deep,     \* history: the symbols whose last message was a snapshot beyond the depth
  mistaken  \* history: a checksum agreed though the best levels it covers did not

history == <<sound, deep, mistaken>>
vars == <<venue, listed, synced, sides, refdata, thrown, history>>

SideOf(P, Q) == UNION {[S -> Q] : S \in SUBSET P}
Book(Q) == [bids : SideOf(BidPrices, Q), asks : SideOf(AskPrices, Q)]
Partial(S, T) == UNION {[X -> T] : X \in SUBSET S}

TypeOK ==
  /\ venue \in [Symbols -> Book(Qtys)]
  /\ listed \in [Symbols -> Precisions]
  /\ synced \subseteq Symbols
  /\ DOMAIN sides \subseteq Symbols
  /\ \A s \in DOMAIN sides :
       /\ sides[s].prec \in Precisions
       /\ [bids |-> sides[s].bids, asks |-> sides[s].asks] \in Book(Qtys \cup {0})
  /\ refdata \in Partial(Symbols, Precisions)
  /\ thrown \in BOOLEAN /\ sound \in BOOLEAN
  /\ deep \subseteq Symbols /\ mistaken \in BOOLEAN

Init ==
  /\ venue = [s \in Symbols |-> [bids |-> EmptySide, asks |-> EmptySide]]
  /\ listed \in [Symbols -> Precisions]
  /\ synced = {}
  /\ sides = [s \in {} |-> 0]
  /\ refdata = [s \in {} |-> 0]
  /\ thrown = FALSE /\ sound = TRUE
  /\ deep = {} /\ mistaken = FALSE

-----------------------------------------------------------------------------
\* A variant that leaves a book it has as it is.
AcceptPairOnce(s, prec) ==
  IF s \in DOMAIN sides THEN sides
  ELSE With(sides, s, [bids |-> EmptySide, asks |-> EmptySide, prec |-> prec])

\* A variant that starts a book over when its precision changes.
AcceptPairAfresh(s, prec) ==
  IF s \in DOMAIN sides /\ sides[s].prec = prec THEN sides
  ELSE With(sides, s, [bids |-> EmptySide, asks |-> EmptySide, prec |-> prec])

\* level_book.accept(pair): the books after it.
AcceptPair(s, prec) ==
  IF s \notin DOMAIN sides
  THEN With(sides, s, [bids |-> EmptySide, asks |-> EmptySide, prec |-> prec])
  ELSE IF sides[s].prec # prec THEN [sides EXCEPT ![s].prec = prec] ELSE sides

\* An instrument message of the pair: refdata.accept, then level_book.accept.
Instrument(s) ==
  /\ ~thrown
  /\ \E prec \in Precisions :
       /\ listed' = [listed EXCEPT ![s] = prec]
       /\ refdata' = With(refdata, s, prec)
       /\ sides' = AcceptPair(s, prec)
  /\ UNCHANGED <<venue, synced, thrown, history>>

-----------------------------------------------------------------------------
\* A variant that does not look at the checksum.
VerifyNothing(s, new, crc) ==
  /\ sides' = [sides EXCEPT ![s] = new]
  /\ thrown' = FALSE

\* level_book.accept(book) once the sides are replaced by `new`, against the
\* checksum of the message.  The new levels stay when the checksum disagrees.
Verify(s, new, crc) ==
  /\ sides' = [sides EXCEPT ![s] = new]
  /\ thrown' = (Crc32(new.bids, new.asks, new.prec) # crc)

\* A variant that swaps the sides.
AcceptSnapshotSwapped(s, msg) ==
  [sides[s] EXCEPT !.bids = FromSnapshot(msg.asks), !.asks = FromSnapshot(msg.bids)]

\* accept_snapshot and accept_update: the sides after the message.
AcceptSnapshot(s, msg) ==
  [sides[s] EXCEPT !.bids = FromSnapshot(msg.bids), !.asks = FromSnapshot(msg.asks)]

AcceptUpdate(s, msg) ==
  [sides[s] EXCEPT !.bids = ApplyUpdate("bids", sides[s].bids, msg.bids),
                   !.asks = ApplyUpdate("asks", sides[s].asks, msg.asks)]

\* An unknown symbol throws before anything is changed.
AcceptBook(s, new, crc) ==
  IF s \in DOMAIN sides THEN Verify(s, new, crc)
  ELSE thrown' = TRUE /\ UNCHANGED sides

-----------------------------------------------------------------------------
(* The venue (external): a subscriber is promised the BookDepth best levels *)
(* of each side.  An update carries, in some order, each level of the old   *)
(* best that is gone from the book, with quantity zero, and each level of   *)
(* the new best that is new or changed; a level pushed beyond the depth is  *)
(* not mentioned.  A venue that is not sound may leave out a quote, or send *)
(* a snapshot of more levels than were subscribed to.                       *)

Best(sd, book) == Top(sd, book[sd], BookDepth)

VenueCrc(s, book) == Crc32(Best("bids", book), Best("asks", book), listed[s])

Quotes(side) == {[price |-> p, qty |-> side[p]] : p \in DOMAIN side}

Changes(sd, old, new) ==
  LET was == Best(sd, old)
      is  == Best(sd, new)
  IN  {[price |-> p, qty |-> 0] : p \in DOMAIN was \ DOMAIN new[sd]}
      \cup (Quotes(is) \ Quotes(was))

\* A side after at most n levels were taken away or changed and as many added.
Changed(side, prices, n) ==
  {new \in SideOf(prices, Qtys) :
     /\ Cardinality(Quotes(side) \ Quotes(new)) <= n
     /\ Cardinality(Quotes(new) \ Quotes(side)) <= n}

NextBooks(book) ==
  [bids : Changed(book.bids, BidPrices, MaxChanges),
   asks : Changed(book.asks, AskPrices, MaxChanges)]

\* Two books have the same best levels, as far as the checksum covers them.
SameTop(mine, theirs) ==
  \A sd \in {"bids", "asks"} : Top(sd, mine[sd], CrcDepth) = Top(sd, theirs[sd], CrcDepth)

\* A message that takes the recorder's book to `new`, when the venue's is `book`.
Receive(s, new, book, crc) ==
  /\ AcceptBook(s, new, crc)
  /\ mistaken' = \/ mistaken
                 \/ /\ s \in DOMAIN sides
                    /\ Crc32(new.bids, new.asks, new.prec) = crc
                    /\ ~SameTop(new, book)

\* The book is subscribed to, for the first time or again, and these levels sent.
SnapshotOf(s, bidSide, askSide) ==
  /\ ~thrown
  /\ \E bids \in SetToSeqs(Quotes(bidSide)), asks \in SetToSeqs(Quotes(askSide)) :
       Receive(s, AcceptSnapshot(s, [bids |-> bids, asks |-> asks]), venue[s],
               Crc32(bidSide, askSide, listed[s]))
  /\ synced' = synced \cup {s}
  /\ UNCHANGED <<venue, listed, refdata>>

Snapshot(s) ==
  /\ SnapshotOf(s, Best("bids", venue[s]), Best("asks", venue[s]))
  /\ sound' = (sound /\ s \in DOMAIN sides)
  /\ deep' = deep \ {s}

\* All levels, though not as many were subscribed to: nothing cuts a snapshot.
DeepSnapshot(s) ==
  /\ \E sd \in {"bids", "asks"} : Best(sd, venue[s]) # venue[s][sd]
  /\ SnapshotOf(s, venue[s].bids, venue[s].asks)
  /\ sound' = FALSE
  /\ deep' = deep \cup {s}

\* The venue's book changes to `new`, and a subscriber is sent these quotes.
Update(s, new, bidQuotes, askQuotes) ==
  /\ ~thrown
  /\ venue' = [venue EXCEPT ![s] = new]
  /\ IF s \in synced /\ bidQuotes \cup askQuotes # {}
     THEN /\ \E bids \in SetToSeqs(bidQuotes), asks \in SetToSeqs(askQuotes) :
               Receive(s, AcceptUpdate(s, [bids |-> bids, asks |-> asks]), new,
                       VenueCrc(s, new))
          /\ deep' = deep \ {s}
     ELSE UNCHANGED <<sides, thrown, deep, mistaken>>
  /\ UNCHANGED <<listed, synced, refdata>>

\* A sound venue sends every change.
SoundUpdate(s) ==
  /\ \E new \in NextBooks(venue[s]) :
       Update(s, new, Changes("bids", venue[s], new), Changes("asks", venue[s], new))
  /\ UNCHANGED sound

\* One that is not leaves a quote out of an update.
LossyUpdate(s) ==
  /\ \E new \in NextBooks(venue[s]) :
       LET bids == Changes("bids", venue[s], new)
           asks == Changes("asks", venue[s], new)
       IN  \E lost \in bids \cup asks :
             /\ bids \cup asks # {lost}
             /\ Update(s, new, bids \ {lost}, asks \ {lost})
  /\ sound' = FALSE

\* The exception ends the process.
Stopped == thrown /\ UNCHANGED vars

Next ==
  \/ \E s \in Symbols : \/ Instrument(s)
                       \/ Snapshot(s) \/ DeepSnapshot(s)
                       \/ SoundUpdate(s) \/ LossyUpdate(s)
  \/ Stopped

Spec == Init /\ [][Next]_vars

-----------------------------------------------------------------------------
(* Properties.                                                              *)

\* Of a sound venue the recorder's book is, after every message, the BookDepth
\* best levels of the venue's, in whatever order an update lists its quotes
\* (include/sides.hpp:75-98, src/sides.cpp:17-28).
MirrorsVenue ==
  sound => \A s \in synced :
    /\ sides[s].bids = Best("bids", venue[s])
    /\ sides[s].asks = Best("asks", venue[s])

\* ... and the checksum never disagrees, across changes of precision and
\* repeated snapshots (src/level_book.cpp:17-38, src/sides.cpp:35-50).
NoFalseAlarm == sound => ~thrown

\* Rows are written with the precisions the books are verified with
\* (kdr_record/kdr_record.cpp:102-113).
PrecisionsAgree == refdata = [s \in DOMAIN sides |-> sides[s].prec]

\* Of a venue that loses quotes, or sends deeper snapshots than it should, the
\* levels the checksum covers are right until a message is refused or a checksum
\* agrees with the wrong ones: between messages, while the precision changes, and
\* though changes below them are not sent, they do not go wrong
\* (src/sides.cpp:35-50, include/sides.hpp:56-73).
VerifiedTopAgrees == ~thrown /\ ~mistaken => \A s \in synced : SameTop(sides[s], venue[s])

\* A side is deeper than the depth subscribed to only between a snapshot that is
\* and the next update: accept_snapshot does not cut, apply_update does, and a
\* change of precision copies what there is (src/sides.cpp:17-28,
\* include/sides.hpp:93-98, src/level_book.cpp:31-37).
DepthBounded ==
  \A s \in DOMAIN sides \ deep, sd \in {"bids", "asks"} :
    Cardinality(DOMAIN sides[s][sd]) <= BookDepth
=============================================================================
