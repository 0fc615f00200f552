-------------------------- MODULE RecorderJournal --------------------------
(***************************************************************************)
(* The recorder as an implementation of Journal: the log is what           *)
(* handle_book_msg took, the mark is where the engine's queue begins, and  *)
(* the file is what can be read back of book_sink's.                       *)
(***************************************************************************)
EXTENDS Recorder

J == INSTANCE Journal WITH
       Message <- BookMsg,
       Lossless <- "io" \notin Faults,
       log <- received,
       taken <- Len(received) - Len(queue),
       durable <- Msgs(BookSink!Recovered),
       phase <- CASE proc = "running" -> "running"
                  [] proc = "exited"  -> "finished"
                  [] proc = "aborted" -> "crashed"

\* The path of a book message from handle_book_msg to the footer of its file
\* loses, doubles and reorders nothing but what a stop or a crash loses
\* (src/engine.cpp:171-249, parquet/src/book_sink.cpp:41-126).
ImplementsJournal == J!JournalSpec

\* The same, and a message received is taken from the queue in the end.
ImplementsFairJournal == J!FairJournalSpec
=============================================================================
