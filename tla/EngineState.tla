----------------------------- MODULE EngineState -----------------------------
(***************************************************************************)
(* The state of br_ssl_engine_context above the record layer, and the      *)
(* payload functions of ssl_engine.c that the calls of the API and the     *)
(* handshake processor use. Each direction is one slot, as RecordSlots     *)
(* promises: lengths, ciphers and offsets are in RecordLayer.              *)
(* Every operator takes the engine record e and returns its new value.     *)
(***************************************************************************)
EXTENDS Naturals, Sequences, FiniteSets

CONSTANTS
  Shared,      \* TRUE when one buffer serves both directions
  OutRoom,     \* units of payload that one outgoing record can gather
  MaxWrites    \* units of application data that are written, at most

ASSUME EngineAssumption ==
  /\ Shared \in BOOLEAN
  /\ OutRoom \in Nat \ {0} /\ MaxWrites \in Nat

RecordTypes == {"ccs", "alert", "handshake", "app", "other"}

\* Units of payload. Incoming handshake messages: "sh" is a ServerHello with
\* the secure renegotiation extension, "sh_old" one without it (and without a
\* session ID), "sh_resume" one that carries the session ID of the client;
\* "hello_done" stands for Certificate to ServerHelloDone.
HandshakeUnits ==
  {"hello_request", "sh", "sh_old", "sh_resume", "hello_done", "finished"}

\* Bytes of alerts, which may come one at a time: 0 is close_notify or an
\* invalid level, 1 is "warning", 100 is no_renegotiation.
AlertBytes == {"b0", "b1", "b100"}
InUnits == HandshakeUnits \cup AlertBytes \cup {"ccs", "data"}

\* Outgoing units: messages of the handshake processor, and numbered units
\* of application data.
Message(m) == [msg |-> m, n |-> 0]
AppData(n) == [msg |-> "data", n |-> n]
Messages == {"client_hello", "client_key", "ccs", "finished", "close_notify",
             "no_renegotiation"}
OutUnits == {Message(m) : m \in Messages} \cup {AppData(n) : n \in 1..MaxWrites}

DataPlaces(units) == {i \in DOMAIN units : units[i].msg = "data"}

\* Of w units of application data, the last ones, from g + 1 on, are among
\* these units, whole and in order.
DataKept(units, w, g) ==
  LET upTo(i) == {j \in DataPlaces(units) : j <= i}
  IN  /\ w = g + Cardinality(DataPlaces(units))
      /\ \A i \in DataPlaces(units) :
           units[i] = AppData(g + Cardinality(upTo(i)))

\* No outgoing record is assembled.
NoRec == [type |-> "none", units |-> <<>>]

-----------------------------------------------------------------------------
\* Fields of e:
\*   failed, err          iomode = BR_IO_FAILED, and why
\*   part                 a record has begun, nothing of it can be read yet
\*   record_type_in, inbuf   the record being read and its unread payload
\*   outbuf, outrec       gathered payload; assembled record
\*   record_type_out, application_data, shutdown_recv, alert, reneg
\*   session              session_id_len > 0
\*   running, action      the handshake processor has control, and why
\*   resumed              it was just given control
\*   pc, cnr, resume      where its coroutine stands, and its locals
\*   hin, hout, took      its input (hbuf_in, hlen_in), whether hlen_out > 0,
\*                        whether it has read something
InIdle(e) == ~e.part /\ e.inbuf = <<>>
OutIdle(e) == e.outbuf = <<>> /\ e.outrec = NoRec

CanIn(e) == ~e.failed /\ (Shared => OutIdle(e))

CanOut(e) == ~e.failed /\ (Shared => InIdle(e))

br_ssl_engine_fail(e, err) ==
  IF e.failed THEN e ELSE [e EXCEPT !.failed = TRUE, !.err = err]

recvrec_open(e) == ~e.shutdown_recv /\ CanIn(e) /\ e.inbuf = <<>>
recvpld_open(e) == CanIn(e) /\ e.inbuf # <<>>
sendpld_open(e) == CanOut(e) /\ e.outrec = NoRec
sendrec_open(e) == CanOut(e) /\ e.outrec # NoRec
has_pld_to_send(e) == e.outbuf # <<>>

Pending(e) == e.outrec.units \o e.outbuf

sendpld_flush(e, force) ==
  IF e.outrec # NoRec \/ (e.outbuf = <<>> /\ ~force) THEN e
  ELSE [e EXCEPT !.outrec = [type |-> e.record_type_out, units |-> e.outbuf],
                 !.outbuf = <<>>]

\* Mutant: the units that fill a record are not in it.
sendpld_ack_lost(e, units) ==
  IF Len(e.outbuf) + Len(units) >= OutRoom THEN sendpld_flush(e, FALSE)
  ELSE [e EXCEPT !.outbuf = @ \o units]

\* Some more units are gathered; a full record is flushed at once.
sendpld_ack(e, units) ==
  LET more == [e EXCEPT !.outbuf = @ \o units]
  IN  IF Len(more.outbuf) >= OutRoom THEN sendpld_flush(more, FALSE) ELSE more

-----------------------------------------------------------------------------
\* The processor is given control, with the buffers as they are: application
\* data is not shown to it, and it may not write after application data.
jump_handshake(e, action) ==
  [e EXCEPT
    !.running = TRUE, !.action = action, !.resumed = TRUE, !.took = FALSE,
    !.hin = IF recvpld_open(e) /\ e.record_type_in # "app" THEN e.inbuf
            ELSE <<>>,
    !.hout = sendpld_open(e) /\ ~has_pld_to_send(e)]

\* Mutant: what it read is not acknowledged.
leave_handshake_unread(e) ==
  [e EXCEPT !.running = FALSE, !.hin = <<>>, !.hout = FALSE,
            !.took = FALSE, !.resumed = FALSE, !.action = 0]

\* It gives control back: what it read is acknowledged. Having read
\* everything may have freed a shared buffer, so it is called once more.
leave_handshake(e) ==
  LET back == [e EXCEPT !.running = FALSE, !.hin = <<>>, !.hout = FALSE,
                        !.took = FALSE, !.resumed = FALSE, !.action = 0]
      read == [back EXCEPT !.inbuf = e.hin]
  IN  IF ~e.took \/ e.failed THEN back
      ELSE IF e.hin = <<>> THEN jump_handshake(read, 0)
      ELSE read

\* flush_record: what it wrote is acknowledged and sealed.
flush_record(e) ==
  LET sealed == sendpld_flush(e, FALSE)
  IN  [sealed EXCEPT !.hout = sendpld_open(sealed)]

\* It writes one message and flushes it; the type of the record is set first.
write_message(e, type, msg) ==
  flush_record(sendpld_ack([e EXCEPT !.record_type_out = type], <<Message(msg)>>))

-----------------------------------------------------------------------------
sendapp_open(e) == e.application_data = 1 /\ sendpld_open(e)
recvapp_open(e) ==
  /\ e.application_data = 1
  /\ e.record_type_in = "app"
  /\ recvpld_open(e)

br_ssl_engine_current_state(e) ==
  IF e.failed THEN {"CLOSED"}
  ELSE {f \in {"SENDREC", "RECVREC", "SENDAPP", "RECVAPP"} :
          \/ f = "SENDREC" /\ sendrec_open(e)
          \/ f = "RECVREC" /\ recvrec_open(e)
          \/ f = "SENDAPP" /\ sendapp_open(e)
          \/ f = "RECVAPP" /\ recvapp_open(e)}

br_ssl_engine_flush(e, force) ==
  IF ~e.failed /\ e.application_data = 1 THEN sendpld_flush(e, force) ELSE e

\* A record of the peer is complete (or, in the clear, some of it): its
\* payload goes to the processor, to the application, or is dropped while
\* closing.
br_ssl_engine_recvrec_ack(e, type, body) ==
  LET got == [e EXCEPT !.part = FALSE, !.record_type_in = type, !.inbuf = body]
  IN  CASE body = <<>> \/ (type = "app" /\ e.application_data = 1) -> got
        [] body # <<>> /\ type \in {"ccs", "alert", "handshake"} ->
             jump_handshake(got, 0)
        [] body # <<>> /\ type = "app" /\ e.application_data = 2 ->
             [got EXCEPT !.inbuf = <<>>]
        [] OTHER -> br_ssl_engine_fail(got, "unexpected")

\* The record is gone; the processor is told, unless the application has the
\* floor.
br_ssl_engine_sendrec_ack(e) ==
  LET sent == [e EXCEPT !.outrec = NoRec]
  IN  IF sent.record_type_out # "app" \/ sent.application_data # 1
      THEN jump_handshake(sent, 0) ELSE sent

\* The engine after br_ssl_client_reset, about to run the processor.
InitEngine ==
  jump_handshake(
    [failed |-> FALSE, err |-> "ok", part |-> FALSE,
     record_type_in |-> "handshake", inbuf |-> <<>>, outbuf |-> <<>>,
     outrec |-> NoRec, record_type_out |-> "handshake",
     application_data |-> 0, shutdown_recv |-> FALSE, alert |-> 0,
     reneg |-> 0, session |-> FALSE, running |-> FALSE, action |-> 0,
     resumed |-> FALSE, pc |-> "handshake", cnr |-> FALSE, resume |-> FALSE,
     hin |-> <<>>, hout |-> FALSE, took |-> FALSE], 0)

=============================================================================
