------------------------------ MODULE Session ------------------------------
(***************************************************************************)
(* session_t (src/session.cpp): the websocket connection to the venue.     *)
(*                                                                         *)
(* Every operation is a completion handler that boost.asio runs on the one *)
(* thread of the program, and each handler starts at most one further      *)
(* asynchronous operation, so the chain resolve -> connect -> TLS ->       *)
(* websocket handshake -> read -> read ... has one operation outstanding   *)
(* at a time: `pending`.  The client code's callbacks are parameters here: *)
(* whether handle_recv returned true, and how the sends it made ended.     *)
(***************************************************************************)
EXTENDS Naturals

VARIABLES
  pending,  \* the asynchronous operation whose completion handler will run next
  keep,     \* m_keep_processing
  link      \* the websocket as the operating system sees it

sessionVars == <<pending, keep, link>>

Operations == {"resolve", "connect", "ssl_handshake", "handshake", "read", "none"}
Links == {"down", "open", "broken"}

SessionTypeOK ==
  /\ pending \in Operations
  /\ keep \in BOOLEAN
  /\ link \in Links

\* start_processing: called once by main, before the event loop.
SessionInit ==
  /\ pending = "resolve"
  /\ keep = TRUE
  /\ link = "down"

-----------------------------------------------------------------------------
(* The way to the connection.  An error calls fail(), which clears          *)
(* m_keep_processing, and the handler then goes on as if it had succeeded.  *)

\* A variant that only logs the error.
FailIgnored(failed) == keep' = keep

\* fail(), called if the handler met an error.
Fail(failed) == keep' = (keep /\ ~failed)

OnResolve(ok) ==
  /\ pending = "resolve"
  /\ pending' = "connect"
  /\ Fail(~ok)
  /\ UNCHANGED link

\* `ok` stands for both the connect and the setting of the TLS host name.
OnConnect(ok) ==
  /\ pending = "connect"
  /\ pending' = "ssl_handshake"
  /\ Fail(~ok)
  /\ UNCHANGED link

OnSslHandshake(ok) ==
  /\ pending = "ssl_handshake"
  /\ pending' = "handshake"
  /\ Fail(~ok)
  /\ UNCHANGED link

\* m_keep_processing is set again after fail() may have cleared it: a refused
\* websocket handshake leaves the loop running on a stream that is not open.
OnHandshake(ok) ==
  /\ pending = "handshake"
  /\ pending' = "read"
  /\ keep' = TRUE
  /\ link' = IF ok THEN "open" ELSE "down"

-----------------------------------------------------------------------------
(* Sending is synchronous.  A send over a broken link may still be accepted *)
(* by the local socket buffer ("lost").                                     *)

SendOutcomes ==
  CASE link = "open"   -> {"delivered"}
    [] link = "broken" -> {"lost", "failed"}
    [] link = "down"   -> {"failed"}

\* A handler other than on_read that made sends with these outcomes.
Sent(outcomes) ==
  /\ Fail("failed" \in outcomes)
  /\ UNCHANGED <<pending, link>>

-----------------------------------------------------------------------------
(* on_read.                                                                 *)

\* A variant that starts the next read only if the handler sent nothing.
OnReadNotRearmed(ok, outcomes) ==
  /\ pending = "read"
  /\ keep' = (keep /\ ok /\ "failed" \notin outcomes)
  /\ pending' = IF keep' /\ outcomes = {} THEN "read" ELSE "none"
  /\ UNCHANGED link

\* A message whose handle_recv returned `ok` after sends with these outcomes.
\* The next read is started only while m_keep_processing still holds.
OnRead(ok, outcomes) ==
  /\ pending = "read"
  /\ keep' = (keep /\ ok /\ "failed" \notin outcomes)
  /\ pending' = IF keep' THEN "read" ELSE "none"
  /\ UNCHANGED link

\* A message of size 0: the handler returns before it starts the next read.
OnReadEmpty ==
  /\ pending = "read"
  /\ pending' = "none"
  /\ UNCHANGED <<keep, link>>

\* The read completes with an error; the bytes read so far, if any, are not a
\* whole message and handle_recv rejects them.
OnReadError ==
  /\ pending = "read"
  /\ link # "open"
  /\ Fail(TRUE)
  /\ pending' = "none"
  /\ UNCHANGED link

\* stop_processing, called by main when its loop has ended.
StopProcessing ==
  /\ keep' = FALSE
  /\ UNCHANGED <<pending, link>>

\* The connection is lost (external).
LinkBreaks ==
  /\ link = "open"
  /\ link' = "broken"
  /\ UNCHANGED <<pending, keep>>

-----------------------------------------------------------------------------
(* The session on its own, under a loop that runs a handler while           *)
(* keep_processing() holds and with client callbacks that may do anything.  *)

SessionNext ==
  \/ keep /\ \E ok \in BOOLEAN :
               \/ OnResolve(ok)
               \/ OnConnect(ok)
               \/ OnSslHandshake(ok)
               \/ OnHandshake(ok)
               \/ \E outs \in SUBSET SendOutcomes : OnRead(ok, outs)
  \/ keep /\ \E outs \in SUBSET SendOutcomes : Sent(outs)
  \/ keep /\ OnReadEmpty
  \/ keep /\ OnReadError
  \/ StopProcessing
  \/ LinkBreaks

SessionSpec == SessionInit /\ [][SessionNext]_sessionVars
=============================================================================
