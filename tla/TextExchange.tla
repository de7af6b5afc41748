----------------------------- MODULE TextExchange -----------------------------
(***************************************************************************)
(* wm_https_get, wm_https_request and wm_tls_exchange: one function opens  *)
(* a connection, writes a request, reads the response into the caller's    *)
(* buffer until it is full or the stream ends, and closes.  The            *)
(* application either runs such an exchange or makes the calls of          *)
(* TlsConnection by itself.                                                *)
(***************************************************************************)
EXTENDS TlsConnection, Integers

CONSTANTS
  Requests,    \* values of strlen(request_text), in units
  Sizes        \* values of response_size, in units, the final 0 included

ASSUME ExchangeAssumption ==
  /\ Requests \subseteq 0..MaxWrites
  /\ Sizes \subseteq Nat \ {0, 1}   \* below 2 nothing is done

VARIABLE
  x    \* the exchange: where it is, the length of the request, response_size,
       \* response_len, ok; history: units of data that came in

xvars == <<vars, x>>

NoExchange ==
  [at |-> "none", request |-> 0, size |-> 0, len |-> 0, ok |-> FALSE, came |-> 0]

\* Both begin with wm_tls_open.
XInit ==
  /\ Init
  /\ \/ x = NoExchange
     \/ \E n \in Requests, s \in Sizes :
          x = [NoExchange EXCEPT !.at = "opening", !.request = n, !.size = s]

\* Data that a step brings in for the application.
Arrived ==
  IF call.at = "recv" /\ e'.application_data = 1 /\ e'.record_type_in = "app"
  THEN Len(e'.inbuf) ELSE 0

\* A step of a call, made by the exchange or by the application.
InCall ==
  /\ Step
  /\ x' = IF x.at = "none" THEN x ELSE [x EXCEPT !.came = @ + Arrived]

\* That call has returned.
Returned(op) == call = NoCall /\ ~e.running /\ last.op = op

\* The exchange makes its next call, or is over.
Make(op, len, y) ==
  /\ call' = Call(op, len) /\ last' = NoReturn
  /\ x' = y
  /\ UNCHANGED <<e, conn, net, hist>>

Done(ok) == x' = [x EXCEPT !.at = "done", !.ok = ok] /\ UNCHANGED vars

\* An error: the connection is closed and the exchange has failed.
GiveUp == Make("close", 0, [x EXCEPT !.at = "closing", !.ok = FALSE])

ReadMore(y) == Make("read", y.size - y.len - 1, [y EXCEPT !.at = "reading"])

Opened ==
  /\ x.at = "opening" /\ Returned("open")
  /\ IF last.ok THEN Make("write", x.request, [x EXCEPT !.at = "writing"])
     ELSE Done(FALSE)

Written ==
  /\ x.at = "writing" /\ Returned("write")
  /\ IF last.ok THEN ReadMore(x) ELSE GiveUp

\* Mutant: a read that fails ends the response.
Read_lenient ==
  /\ x.at = "reading" /\ Returned("read")
  /\ LET y == [x EXCEPT !.len = @ + last.n, !.ok = @ \/ last.n > 0] IN
     IF last.n = 0 \/ y.len >= x.size - 1
       THEN Make("close", 0, [y EXCEPT !.at = "closing"])
     ELSE ReadMore(y)

Read ==
  /\ x.at = "reading" /\ Returned("read")
  /\ LET y == [x EXCEPT !.len = @ + last.n, !.ok = @ \/ last.n > 0] IN
     IF ~last.ok THEN GiveUp
     ELSE IF last.n = 0 \/ y.len >= x.size - 1
       THEN Make("close", 0, [y EXCEPT !.at = "closing"])
     ELSE ReadMore(y)

Closed == x.at = "closing" /\ Returned("close") /\ Done(x.ok)

XNext ==
  \/ x.at = "none" /\ Begin /\ UNCHANGED x
  \/ InCall
  \/ Opened \/ Written \/ Read \/ Closed

XSpec == XInit /\ [][XNext]_xvars

\* As in TlsConnection: a call in progress goes on.
XFairSpec == XSpec /\ WF_xvars(InCall)

-----------------------------------------------------------------------------
\* An exchange that reports success has sent the whole request, unless the
\* connection broke while it was being closed, and has put into the response
\* all the data that came before the end of the stream, or as much as there is
\* room for ("response is collected until close", wm_https.h:49): nothing is
\* left in the engine, no error is taken for the end, nothing goes past the
\* buffer.
ExchangeWhole ==
  (x.at = "done" /\ x.ok) =>
    /\ hist.gone = x.request \/ net = "down"
    /\ \/ x.len = x.size - 1 /\ x.came >= x.len
       \/ x.len = x.came /\ (e.shutdown_recv \/ net = "eof")
=============================================================================
