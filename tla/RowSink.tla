------------------------------ MODULE RowSink ------------------------------
(***************************************************************************)
(* book_sink_t and trades_sink_t (parquet/src/): rows are collected in     *)
(* Arrow column builders and handed to the parquet writer in batches.      *)
(* What the writer holds can be read back only once its footer is written, *)
(* which happens when the sink is destroyed.                               *)
(***************************************************************************)
EXTENDS Naturals, Sequences

CONSTANTS
  Row,             \* the rows a sink may be given
  FlushThreshold   \* c_flush_threshold, a positive number

VARIABLES
  rows,     \* the rows in the column builders
  count,    \* m_num_rows
  written,  \* the rows handed to the parquet writer
  file      \* what has become of the file

sinkVars == <<rows, count, written, file>>

SinkTypeOK ==
  /\ rows \in Seq(Row)
  /\ count \in Nat
  /\ written \in Seq(Row)
  /\ file \in {"open", "damaged", "readable", "unreadable"}

SinkInit ==
  /\ rows = <<>>
  /\ count = 0
  /\ written = <<>>
  /\ file = "open"

-----------------------------------------------------------------------------
\* A variant that puts the new rows first.
AddRowsFirst(rs) ==
  /\ rows' = rs \o rows
  /\ count' = count + Len(rs)
  /\ UNCHANGED <<written, file>>

\* Rows appended with no flush following: below the threshold, or an accept
\* that throws half way.
AddRows(rs) ==
  /\ rows' = rows \o rs
  /\ count' = count + Len(rs)
  /\ UNCHANGED <<written, file>>

\* A variant that does not reset m_num_rows.
FlushKeepsCount(rs) ==
  /\ file = "open"
  /\ written' = written \o (rows \o rs)
  /\ rows' = <<>>
  /\ count' = count + Len(rs)
  /\ UNCHANGED file

\* flush() succeeds on the rows of the builders followed by rs.  The batch
\* claims m_num_rows rows, so it is well formed only if that is their number.
Flush(rs) ==
  /\ file = "open"
  /\ count = Len(rows)
  /\ written' = written \o (rows \o rs)
  /\ rows' = <<>>
  /\ count' = 0
  /\ UNCHANGED file

\* accept(): the rows of one message, then a flush at the threshold.
Accept(rs) ==
  \/ count + Len(rs) < FlushThreshold /\ AddRows(rs)
  \/ count + Len(rs) >= FlushThreshold /\ Flush(rs)

\* accept() throws from its flush: the builders were emptied by Finish()
\* before the write failed, and m_num_rows keeps its value.
AcceptThrows(rs) ==
  /\ count + Len(rs) >= FlushThreshold
  /\ rows' = <<>>
  /\ count' = count + Len(rs)
  /\ file' = "damaged"
  /\ UNCHANGED written

\* A variant whose destructor only writes the footer.
CloseWithoutFlush ==
  /\ file = "open"
  /\ count = Len(rows)
  /\ rows' = <<>>
  /\ count' = 0
  /\ file' = "readable"
  /\ UNCHANGED written

\* The destructor when nothing fails: a last flush, then the footer.
Close ==
  /\ file = "open"
  /\ count = Len(rows)
  /\ written' = written \o rows
  /\ rows' = <<>>
  /\ count' = 0
  /\ file' = "readable"

\* The destructor when its flush fails, or after a flush that did: then its batch
\* claims the rows of the count left behind over empty columns, which adds none.
\* The error is swallowed, and whether the footer is sound is up to the writer.
CloseThrows ==
  /\ file \in {"open", "damaged"}
  /\ rows' = <<>>
  /\ file' \in {"readable", "unreadable"}
  /\ UNCHANGED <<count, written>>

\* The process dies without running destructors: no footer, no last flush.
Abandon ==
  /\ rows' = <<>>
  /\ count' = 0
  /\ file' = "unreadable"
  /\ UNCHANGED written

\* What can be read back.
Recovered == IF file = "readable" THEN written ELSE <<>>
=============================================================================
