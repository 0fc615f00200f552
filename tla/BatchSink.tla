----------------------------- MODULE BatchSink -----------------------------
(***************************************************************************)
(* assets_sink_t and pairs_sink_t (parquet/src/): every accept() hands one *)
(* batch to the parquet writer, and nothing stays in the builders between  *)
(* two messages.  There is no destructor of the sink's own; the writer's   *)
(* writes the footer.                                                      *)
(***************************************************************************)
EXTENDS Naturals, Sequences

CONSTANT Batch  \* the batches a sink may be given

VARIABLES
  written,  \* the batches handed to the parquet writer
  file      \* what has become of the file

batchVars == <<written, file>>

BatchTypeOK ==
  /\ written \in Seq(Batch)
  /\ file \in {"open", "damaged", "readable", "unreadable"}

BatchInit ==
  /\ written = <<>>
  /\ file = "open"

\* accept(): the builders are filled, finished and written.
Write(batch) ==
  /\ file = "open"
  /\ written' = Append(written, batch)
  /\ UNCHANGED file

\* accept() when the batch cannot be written.
WriteThrows ==
  /\ file = "open"
  /\ file' = "damaged"
  /\ UNCHANGED written

\* The writer is destroyed: the footer is written, or, after an error, may be.
CloseBatches ==
  /\ file = "open"
  /\ file' = "readable"
  /\ UNCHANGED written

CloseBatchesThrows ==
  /\ file \in {"open", "damaged"}
  /\ file' \in {"readable", "unreadable"}
  /\ UNCHANGED written

\* The process dies without running destructors.
AbandonBatches ==
  /\ file' = "unreadable"
  /\ UNCHANGED written
=============================================================================
