------------------------------ MODULE TlsEngine ------------------------------
(***************************************************************************)
(* The TLS client engine as its users see it: the transport, the           *)
(* application and the handshake processor. Calls of the API come in any   *)
(* order the engine's state allows. A call that hands control to the       *)
(* processor is not over until the processor gives it back: e.running is   *)
(* TRUE in between, and only HsRun can happen.                             *)
(***************************************************************************)
EXTENDS HsClient

CONSTANTS
  Records,     \* what the peer may send: type and payload units
  Forces,      \* values of "force" given to br_ssl_engine_flush
  FlushEarly   \* TRUE when the caller flushes whatever it writes at once,
               \* as wm_tls_write does

ASSUME UseAssumption ==
  /\ \A r \in Records : r.type \in RecordTypes /\ r.units \in Seq(InUnits)
  /\ Forces \subseteq BOOLEAN /\ FlushEarly \in BOOLEAN

VARIABLES
  e,         \* the engine
  written,   \* history: units of application data given to the engine
  gone,      \* history: units of application data that left in a record
  hello,     \* history: a ClientHello left and its Finished did not
  notified   \* history: a close_notify left

history == <<written, gone, hello, notified>>
vars == <<e, history>>

Init ==
  /\ e = InitEngine
  /\ written = 0 /\ gone = 0
  /\ hello = FALSE /\ notified = FALSE

Idle == ~e.running

-----------------------------------------------------------------------------
(* The transport.                                                          *)

\* A record has begun; its type is known once the header is there.
RecvPart(type) ==
  /\ Idle /\ recvrec_open(e) /\ ~e.part
  /\ e' = [e EXCEPT !.part = TRUE, !.record_type_in = type]
  /\ UNCHANGED history

\* A record is complete.
RecvRec(r) ==
  /\ Idle /\ recvrec_open(e)
  /\ e.part => r.type = e.record_type_in
  /\ e' = br_ssl_engine_recvrec_ack(e, r.type, r.units)
  /\ UNCHANGED history

\* The record layer refuses what came.
RecvBad ==
  /\ Idle /\ recvrec_open(e)
  /\ e' = br_ssl_engine_fail(e, "record")
  /\ UNCHANGED history

Carries(units, m) == \E i \in 1..Len(units) : units[i] = Message(m)

\* The last byte of the record goes to the transport.
SendRec ==
  /\ Idle /\ sendrec_open(e)
  /\ e' = br_ssl_engine_sendrec_ack(e)
  /\ gone' = gone + Cardinality(DataPlaces(e.outrec.units))
  /\ hello' = ((hello \/ Carries(e.outrec.units, "client_hello"))
               /\ ~Carries(e.outrec.units, "finished"))
  /\ notified' = (notified \/ Carries(e.outrec.units, "close_notify"))
  /\ UNCHANGED written

-----------------------------------------------------------------------------
(* The application.                                                        *)

SendApp ==
  /\ Idle /\ sendapp_open(e)
  /\ written < MaxWrites
  /\ LET acked == sendpld_ack(e, <<AppData(written + 1)>>)
     IN  e' = IF FlushEarly THEN br_ssl_engine_flush(acked, FALSE) ELSE acked
  /\ written' = written + 1
  /\ UNCHANGED <<gone, hello, notified>>

FlushApp(force) ==
  /\ Idle
  /\ e' = br_ssl_engine_flush(e, force)
  /\ UNCHANGED history

RecvApp ==
  /\ Idle /\ recvapp_open(e)
  /\ e' = [e EXCEPT !.inbuf = Tail(@)]
  /\ UNCHANGED history

Close ==
  /\ Idle /\ ~e.failed
  /\ e' = jump_handshake(e, 1)
  /\ UNCHANGED history

Renegotiate ==
  /\ Idle /\ ~e.failed /\ e.reneg # 1 /\ ~NoRenegotiation /\ ~recvapp_open(e)
  /\ e' = jump_handshake(e, 2)
  /\ UNCHANGED history

-----------------------------------------------------------------------------
\* The handshake processor.
HsRun ==
  /\ e.running
  /\ e' = HsStep(e)
  /\ UNCHANGED history

Next ==
  \/ \E r \in Records : RecvPart(r.type) \/ RecvRec(r)
  \/ RecvBad
  \/ SendRec
  \/ SendApp
  \/ \E force \in Forces : FlushApp(force)
  \/ RecvApp
  \/ Close
  \/ Renegotiate
  \/ HsRun

Spec == Init /\ [][Next]_vars

\* The processor runs when it has control. Whatever calls come in between, a
\* record that can be sent again and again is sent: wm_tls_drive_records and
\* run_until send before they do anything else.
FairSpec == Spec /\ WF_vars(HsRun) /\ SF_vars(SendRec)

-----------------------------------------------------------------------------
(* Properties.                                                             *)

\* What the application wrote leaves in order, whole and once, or is still in
\* the buffers: flushes, full records, renegotiations and closures that come
\* in between neither drop nor reorder a unit (ssl_engine.c sendpld_ack,
\* sendpld_flush, flush_record).
AppStreamKept == DataKept(Pending(e), written, gone)

\* "Records of type handshake, alert or change-cipher-spec are handled by the
\* handshake processor", which "is responsible for producing the contents of
\* all records except application data" (ssl_engine.c:979-997): no record
\* mixes the two, and data never leaves under another type.
RecordsPure ==
  \A i \in 1..Len(e.outrec.units) :
    (e.outrec.units[i].msg = "data") <=> (e.outrec.type = "app")

\* Between the ClientHello and the Finished of a handshake, first or
\* renegotiation, no application data leaves: the peer would take it for part
\* of the wrong epoch (application_data, do-handshake).
HandshakeUninterrupted == hello => DataPlaces(e.outrec.units) = {}

\* The close_notify is the last record: whatever comes in, and whatever is
\* called, nothing is assembled once it has left (do-close).
CloseNotifyLast == notified => OutIdle(e)

\* An engine that ends without an error has exchanged both close_notify
\* alerts and has sent all that was written (do-close, process-alerts).
CleanEnd ==
  (e.failed /\ e.err = "ok") =>
    notified /\ e.shutdown_recv /\ gone = written

\* A closure that has begun, with buffers of its own for each direction, gets
\* its close_notify out, or the engine fails: data still gathered or a record
\* on its way only delay it.
CloseGoesOut == (e.pc \in Closing) ~> (notified \/ e.failed)

=============================================================================
