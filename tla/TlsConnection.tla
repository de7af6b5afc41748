---------------------------- MODULE TlsConnection ----------------------------
(***************************************************************************)
(* The streaming API of wm_https.c: wm_tls_open, wm_tls_write, wm_tls_read *)
(* and wm_tls_close drive a TLS client engine over a blocking socket. One  *)
(* thread makes the calls; between any two steps of a call the peer may    *)
(* send, close or vanish. The engine has a buffer for each direction (the  *)
(* bidi argument of br_ssl_engine_set_buffer is 1).                        *)
(***************************************************************************)
EXTENDS HsClient

CONSTANTS
  Records,     \* what the peer may send: type and payload units
  Lengths,     \* values of data_len and buffer_size, in units
  WithResult   \* TRUE when the caller passes a wm_https_result

ASSUME ConnectionAssumption ==
  /\ Shared = FALSE
  /\ OutRoom = 1      \* a unit is what fits into one record
  /\ \A r \in Records : r.type \in RecordTypes /\ r.units \in Seq(InUnits)
  /\ Lengths \subseteq Nat /\ WithResult \in BOOLEAN

VARIABLES
  e,       \* ssl_client.eng
  conn,    \* the wm_tls_connection: not freed, its field "closed"
  call,    \* the call in progress: what, where it is, its locals
  net,     \* the socket: "up", "eof" (the peer closed), "down" (reset)
  last,    \* what the last call returned, until the next one begins
  hist     \* history: units accepted by wm_tls_write, those of them accepted
           \* before the end of the stream was seen, units sent, Finished
           \* message sent, Finished message of the server read

vars == <<e, conn, call, net, last, hist>>

Ops == {"open", "write", "read", "close"}
NoCall == [op |-> "none", at |-> "none", len |-> 0, sent |-> 0, ok |-> TRUE]
Call(op, len) == [op |-> op, at |-> "loop", len |-> len, sent |-> 0,
                  ok |-> TRUE]
NoReturn == [op |-> "none", ok |-> TRUE, n |-> 0]

\* wm_tls_open has connected the socket and reset the engine.
Init ==
  /\ e = InitEngine
  /\ conn = [live |-> TRUE, closed |-> FALSE]
  /\ call = Call("open", 0)
  /\ net = "up"
  /\ last = NoReturn
  /\ hist = [accepted |-> 0, due |-> 0, gone |-> 0, finOut |-> FALSE, finIn |-> FALSE]

State == br_ssl_engine_current_state(e)
At(ops, at) == ~e.running /\ call.op \in ops /\ call.at = at

Return(ok, n) ==
  /\ last' = [op |-> call.op, ok |-> ok, n |-> n]
  /\ call' = NoCall

\* The connection is closed and freed.
Free(ok) == conn' = [conn EXCEPT !.live = FALSE] /\ Return(ok, 0)

-----------------------------------------------------------------------------
(* wm_tls_drive_records and the two functions it calls.                    *)

Driven(ok) ==
  /\ call' = [call EXCEPT !.at = "driven", !.ok = ok]
  /\ UNCHANGED last

\* Mutant: records are received before those at hand are sent.
Drive_recv_first ==
  IF "CLOSED" \in State
  THEN conn' = [conn EXCEPT !.closed = TRUE] /\ Driven(FALSE)
  ELSE /\ call' = [call EXCEPT !.at = IF "RECVREC" \in State THEN "recv"
                                      ELSE IF "SENDREC" \in State THEN "send"
                                      ELSE "driven",
                               !.ok = TRUE]
       /\ UNCHANGED <<conn, last>>

\* Records are sent before any is received; a closed engine is an error.
Drive ==
  IF "CLOSED" \in State
  THEN conn' = [conn EXCEPT !.closed = TRUE] /\ Driven(FALSE)
  ELSE /\ call' = [call EXCEPT !.at = IF "SENDREC" \in State THEN "send"
                                      ELSE IF "RECVREC" \in State THEN "recv"
                                      ELSE "driven",
                               !.ok = TRUE]
       /\ UNCHANGED <<conn, last>>

Carries(units, m) == \E i \in 1..Len(units) : units[i].msg = m

\* send() takes the record.
SendOk ==
  /\ At(Ops, "send")
  /\ sendrec_open(e) /\ net # "down"
  /\ e' = br_ssl_engine_sendrec_ack(e)
  /\ hist' = [hist EXCEPT
       !.gone = @ + IF Carries(e.outrec.units, "data") THEN 1 ELSE 0,
       !.finOut = @ \/ Carries(e.outrec.units, "finished")]
  /\ UNCHANGED <<conn, call, net, last>>

\* send() fails.
SendError ==
  /\ At(Ops, "send")
  /\ sendrec_open(e)
  /\ net' = "down"
  /\ Driven(FALSE)
  /\ UNCHANGED <<e, conn, hist>>

\* Nothing is left to send.
SendDone ==
  /\ At(Ops, "send")
  /\ ~sendrec_open(e)
  /\ Driven(TRUE)
  /\ UNCHANGED <<e, conn, net, hist>>

\* recv() returns the rest of a record.
RecvRecord(r) ==
  /\ At(Ops, "recv")
  /\ net = "up"
  /\ e.part => r.type = e.record_type_in
  /\ e' = br_ssl_engine_recvrec_ack(e, r.type, r.units)
  /\ Driven(TRUE)
  /\ UNCHANGED <<conn, net, hist>>

\* recv() returns the beginning of a record.
RecvPart(type) ==
  /\ At(Ops, "recv")
  /\ net = "up" /\ ~e.part
  /\ e' = [e EXCEPT !.part = TRUE, !.record_type_in = type]
  /\ Driven(TRUE)
  /\ UNCHANGED <<conn, net, hist>>

\* recv() returns what the record layer refuses.
RecvBad ==
  /\ At(Ops, "recv")
  /\ net = "up"
  /\ e' = br_ssl_engine_fail(e, "record")
  /\ Driven(TRUE)
  /\ UNCHANGED <<conn, net, hist>>

\* recv() returns 0.
RecvEof ==
  /\ At(Ops, "recv")
  /\ net # "down"
  /\ net' = "eof"
  /\ conn' = [conn EXCEPT !.closed = TRUE]
  /\ Driven(TRUE)
  /\ UNCHANGED <<e, hist>>

\* recv() fails.
RecvError ==
  /\ At(Ops, "recv")
  /\ net' = "down"
  /\ Driven(FALSE)
  /\ UNCHANGED <<e, conn, hist>>

-----------------------------------------------------------------------------
(* The calls.                                                              *)

\* The application calls; the connection exists.
Begin ==
  /\ call = NoCall /\ conn.live /\ ~e.running
  /\ \/ \E len \in Lengths :
          /\ hist.accepted + len <= MaxWrites
          /\ call' = Call("write", len)
     \/ \E len \in Lengths \ {0} : call' = Call("read", len)
     \/ call' = Call("close", 0)
  /\ last' = NoReturn
  /\ UNCHANGED <<e, conn, net, hist>>

\* After wm_tls_drive_records in the loop of each call.
AfterDrive ==
  /\ At(Ops, "driven")
  /\ CASE call.op = "close" ->
            /\ call' = [call EXCEPT !.at = IF call.ok THEN "closing" ELSE "free"]
            /\ UNCHANGED <<conn, last>>
       [] call.op # "close" /\ call.ok /\ ~conn.closed ->
            call' = [call EXCEPT !.at = "loop"] /\ UNCHANGED <<conn, last>>
       [] call.op = "open" /\ (~call.ok \/ conn.closed) -> Free(FALSE)
       [] call.op = "write" /\ (~call.ok \/ conn.closed) ->
            Return(FALSE, call.sent) /\ UNCHANGED conn
       [] call.op = "read" /\ (~call.ok \/ conn.closed) ->
            Return(call.ok, 0) /\ UNCHANGED conn
  /\ UNCHANGED <<e, net, hist>>

wm_tls_open ==
  /\ At({"open"}, "loop")
  /\ IF State \cap {"SENDAPP", "RECVAPP"} # {}
     THEN Return(TRUE, 0) /\ UNCHANGED conn
     ELSE Drive
  /\ UNCHANGED <<e, net, hist>>

\* What fits is copied, acknowledged and flushed.
WriteUnit ==
  /\ e' = br_ssl_engine_flush(
            sendpld_ack(e, <<AppData(hist.accepted + 1)>>), FALSE)
  /\ hist' = [hist EXCEPT !.accepted = @ + 1,
                          !.due = IF conn.closed THEN @ ELSE @ + 1]
  /\ call' = [call EXCEPT !.sent = @ + 1]

wm_tls_write ==
  /\ At({"write"}, "loop")
  /\ CASE call.sent = call.len -> Return(TRUE, call.sent) /\ UNCHANGED <<e, conn, hist>>
       [] call.sent < call.len /\ "CLOSED" \in State ->
            /\ conn' = [conn EXCEPT !.closed = TRUE]
            /\ Return(FALSE, call.sent)
            /\ UNCHANGED <<e, hist>>
       [] call.sent < call.len /\ "SENDAPP" \in State ->
            WriteUnit /\ UNCHANGED <<conn, last>>
       [] call.sent < call.len /\ State \cap {"CLOSED", "SENDAPP"} = {} ->
            Drive /\ UNCHANGED <<e, hist>>
  /\ UNCHANGED net

\* Mutant: the error of a closed engine is not looked at.
ReadOfClosed_blind == TRUE

\* What wm_tls_read returns when the engine is closed.
ReadOfClosed == ~WithResult \/ e.err = "ok"

wm_tls_read ==
  /\ At({"read"}, "loop")
  /\ CASE "CLOSED" \in State ->
            /\ conn' = [conn EXCEPT !.closed = TRUE]
            /\ Return(ReadOfClosed, 0)
            /\ UNCHANGED e
       [] "RECVAPP" \in State ->
            LET n == IF Len(e.inbuf) < call.len THEN Len(e.inbuf) ELSE call.len IN
            /\ e' = [e EXCEPT !.inbuf = SubSeq(@, n + 1, Len(@))]
            /\ Return(TRUE, n)
            /\ UNCHANGED conn
       [] OTHER -> Drive /\ UNCHANGED e
  /\ UNCHANGED <<net, hist>>

\* Mutant: the engine is told, but what it has to say is not sent.
wm_tls_close_hasty ==
  /\ At({"close"}, "loop")
  /\ e' = IF conn.closed \/ e.failed THEN e ELSE jump_handshake(e, 1)
  /\ call' = [call EXCEPT !.at = "free"]
  /\ UNCHANGED <<conn, net, last, hist>>

wm_tls_close ==
  /\ At({"close"}, "loop")
  /\ e' = IF conn.closed \/ e.failed THEN e ELSE jump_handshake(e, 1)
  /\ call' = [call EXCEPT !.at = IF conn.closed THEN "free" ELSE "closing"]
  /\ UNCHANGED <<conn, net, last, hist>>

\* Mutant: it goes on until the engine is closed.
CloseLoop_until_closed ==
  /\ At({"close"}, "closing")
  /\ call' = [call EXCEPT !.at = IF "CLOSED" \in State THEN "free" ELSE "send"]
  /\ UNCHANGED <<e, conn, net, last, hist>>

\* Its loop: everything that can be sent is sent, unless sending fails.
CloseLoop ==
  /\ At({"close"}, "closing")
  /\ call' = [call EXCEPT !.at = IF "SENDREC" \in State THEN "send" ELSE "free"]
  /\ UNCHANGED <<e, conn, net, last, hist>>

CloseFree ==
  /\ At({"close"}, "free")
  /\ Free(TRUE)
  /\ UNCHANGED <<e, net, hist>>

\* The handshake processor.
HsRun ==
  /\ e.running
  /\ e' = HsStep(e)
  /\ hist' = [hist EXCEPT !.finIn = @ \/ (e.pc = "finished_in" /\
                                          e'.pc \in {"open", "ccs_out"})]
  /\ UNCHANGED <<conn, call, net, last>>

Step ==
  \/ SendOk \/ SendError \/ SendDone
  \/ \E r \in Records : RecvRecord(r) \/ RecvPart(r.type)
  \/ RecvBad \/ RecvEof \/ RecvError
  \/ AfterDrive
  \/ wm_tls_open \/ wm_tls_write \/ wm_tls_read \/ wm_tls_close
  \/ CloseLoop \/ CloseFree
  \/ HsRun

-----------------------------------------------------------------------------
(* Properties.                                                             *)

\* The caller never blocks in recv() while it holds something the peer may be
\* waiting for: a request, a handshake message or a close_notify that was
\* written is sent first (wm_tls_drive_records; wm_tls_write leaves its last
\* record to the next call).
NeverWaitsWithOutput == call.at = "recv" => OutIdle(e)

\* A connection that is closed while the peer can still be reached has sent
\* all that wm_tls_write accepted until the end of the stream was seen, unless
\* TLS had failed before (wm_tls_close, do-close).
CloseSendsAll ==
  (~conn.live /\ last.op = "close" /\ net # "down" /\
   ~(e.failed /\ e.err # "ok")) => hist.gone >= hist.due

\* wm_https.h:61-63: wm_tls_read returns 1 with *bytes_read = 0 "when the peer
\* closes the connection", and 1 means success: never after an error.
EndMeansClosed ==
  (last.op = "read" /\ last.ok /\ last.n = 0) =>
    e.shutdown_recv \/ net = "eof"

\* wm_tls_open returns a connection only when both Finished messages have been
\* exchanged: nothing is written or read before the server is known.
OpenMeansFinished ==
  (last.op = "open" /\ last.ok) => hist.finOut /\ hist.finIn

\* The peer puts nothing behind a HelloRequest or a Finished message in the same
\* record, though RFC 5246 would let it.
ApartFromNext ==
  \A r \in Records : r.type = "handshake" =>
    \A i \in DOMAIN r.units :
      r.units[i] \in {"hello_request", "finished"} => i = Len(r.units)

\* No call spins while the peer keeps to that: where wm_tls_drive_records would
\* find neither a closed engine, nor a record to send, nor room for one, and
\* return 1 to a loop that calls it again, the loop has what it waits for.  With a
\* message behind one of those two it is false: the message is left unread when
\* the processor yields (jump_handshake), and wm_tls_read turns for ever.
Awaited == [open |-> {"SENDAPP", "RECVAPP"}, write |-> {"SENDAPP"},
            read |-> {"RECVAPP"}]
NeverSpins ==
  ApartFromNext =>
    \A op \in {"open", "write", "read"} :
      At({op}, "loop") =>
        State \cap ({"CLOSED", "SENDREC", "RECVREC"} \cup Awaited[op]) # {}

\* wm_tls_close comes to an end, whatever the peer and the socket do.
CloseReturns == (call.op = "close") ~> ~conn.live

=============================================================================
