--------------------------- MODULE RowSinkProofs ---------------------------
(***************************************************************************)
(* What the operations of a sink do, for any rows and any threshold.       *)
(***************************************************************************)
EXTENDS RowSink, SequenceTheorems, TLAPS

\* What the sink holds in memory or has handed to the writer, in order.
Held == written \o rows

\* Every operation keeps the types of the sink's variables.
LEMMA SinkStepType ==
  ASSUME SinkTypeOK, NEW rs \in Seq(Row),
         \/ Accept(rs) \/ AddRows(rs) \/ AcceptThrows(rs)
         \/ Close \/ CloseThrows \/ Abandon
  PROVE  SinkTypeOK'
<1>1. /\ rows \in Seq(Row) /\ written \in Seq(Row) /\ count \in Nat
      /\ file \in {"open", "damaged", "readable", "unreadable"}
  BY DEF SinkTypeOK
<1>2. /\ rows \o rs \in Seq(Row) /\ written \o rows \in Seq(Row)
      /\ written \o (rows \o rs) \in Seq(Row) /\ <<>> \in Seq(Row)
  BY <1>1, ConcatProperties, EmptySeq
<1>3. count + Len(rs) \in Nat
  BY <1>1, LenProperties
<1>4. CASE AddRows(rs)
  BY <1>1, <1>2, <1>3, <1>4 DEF AddRows, SinkTypeOK
<1>5. CASE Accept(rs)
  <2>1. AddRows(rs) \/ Flush(rs)
    BY <1>5, Zenon DEF Accept
  <2>2. CASE Flush(rs)
    BY <1>1, <1>2, <2>2 DEF Flush, SinkTypeOK
  <2>3. QED  BY <1>4, <2>1, <2>2
<1>6. CASE AcceptThrows(rs)
  BY <1>1, <1>2, <1>3, <1>6 DEF AcceptThrows, SinkTypeOK
<1>7. CASE Close
  BY <1>1, <1>2, <1>7 DEF Close, SinkTypeOK
<1>8. CASE CloseThrows
  BY <1>1, <1>2, <1>8 DEF CloseThrows, SinkTypeOK
<1>9. CASE Abandon
  BY <1>1, <1>2, <1>9 DEF Abandon, SinkTypeOK
<1>10. QED
  BY <1>4, <1>5, <1>6, <1>7, <1>8, <1>9

\* Whether or not it flushes, accept adds its rows to what is held, at the end.
LEMMA AcceptHolds ==
  ASSUME SinkTypeOK, NEW rs \in Seq(Row), Accept(rs) \/ AddRows(rs)
  PROVE  Held' = Held \o rs /\ file' = file
<1>1. rows \in Seq(Row) /\ written \in Seq(Row)
  BY DEF SinkTypeOK
<1>2. written \o (rows \o rs) = (written \o rows) \o rs
  BY <1>1, ConcatAssociative
<1>3. CASE AddRows(rs)
  BY <1>2, <1>3 DEF AddRows, Held
<1>4. CASE Flush(rs)
  <2>1. (written \o (rows \o rs)) \o <<>> = written \o (rows \o rs)
    BY <1>1, ConcatProperties, ConcatEmptySeq
  <2>2. QED  BY <1>2, <1>4, <2>1 DEF Flush, Held
<1>5. QED
  BY <1>3, <1>4 DEF Accept

\* m_num_rows stays the number of rows held in the builders.
LEMMA AcceptCounts ==
  ASSUME SinkTypeOK, count = Len(rows), NEW rs \in Seq(Row), Accept(rs) \/ AddRows(rs)
  PROVE  count' = Len(rows')
<1>1. rows \in Seq(Row)
  BY DEF SinkTypeOK
<1>2. Len(rows \o rs) = Len(rows) + Len(rs) /\ Len(<<>>) = 0
  BY <1>1, ConcatProperties
<1>3. QED
  BY <1>2 DEF Accept, AddRows, Flush

\* No operation makes a row of its own: what the rows and the new rows have in
\* common, the rows still have.
LEMMA SinkStepIn ==
  ASSUME NEW G, rows \in Seq(G), written \in Seq(G), NEW rs \in Seq(G),
         \/ Accept(rs) \/ AddRows(rs) \/ AcceptThrows(rs)
         \/ Close \/ CloseThrows \/ Abandon
  PROVE  rows' \in Seq(G) /\ written' \in Seq(G)
<1>1. /\ rows \o rs \in Seq(G) /\ written \o rows \in Seq(G)
      /\ written \o (rows \o rs) \in Seq(G) /\ <<>> \in Seq(G)
  BY ConcatProperties, EmptySeq
<1>2. CASE Accept(rs) \/ AddRows(rs)
  BY <1>1, <1>2 DEF Accept, AddRows, Flush
<1>3. CASE AcceptThrows(rs) \/ Close \/ CloseThrows \/ Abandon
  BY <1>1, <1>3 DEF AcceptThrows, Close, CloseThrows, Abandon
<1>4. QED
  BY <1>2, <1>3

\* Closed without an error, the file holds everything that was held.
LEMMA CloseWritesAll ==
  ASSUME SinkTypeOK, Close
  PROVE  file = "open" /\ written' = Held /\ file' = "readable"
BY DEF Close, Held
=============================================================================
