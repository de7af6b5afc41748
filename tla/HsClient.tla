------------------------------- MODULE HsClient -------------------------------
(***************************************************************************)
(* The handshake processor of a TLS client: the T0 coroutine of            *)
(* ssl_hs_client.t0 and ssl_hs_common.t0. HsStep runs it from one point    *)
(* where it may yield to the next. e.pc names the word that continues:     *)
(*   "handshake"    start of do-handshake                                  *)
(*   "client_hello" room for ClientHello is awaited                        *)
(*   "server_hello" read-ServerHello                                       *)
(*   "server_done"  Certificate to ServerHelloDone                         *)
(*   "client_key"   room for ClientKeyExchange is awaited                  *)
(*   "ccs_out", "finished_out"   write-CCS-Finished                        *)
(*   "ccs_in", "finished_in"     read-CCS-Finished                         *)
(*   "open"         the end of do-handshake, or of a refused one           *)
(*   "main"         the loop of main                                       *)
(*   "reject"       room for the no_renegotiation warning is awaited       *)
(*   "close", "close_room", "close_wait"   do-close                        *)
(* Messages are whole units; that they fit in one record, and what their   *)
(* contents are checked for, is left out.                                  *)
(***************************************************************************)
EXTENDS EngineState

CONSTANT NoRenegotiation   \* the BR_OPT_NO_RENEGOTIATION flag

ASSUME OptionAssumption == NoRenegotiation \in BOOLEAN

Points == {"handshake", "client_hello", "server_hello", "server_done",
           "client_key", "ccs_out", "finished_out", "ccs_in", "finished_in",
           "open", "main", "reject", "close", "close_room", "close_wait"}

Closing == {"close", "close_room", "close_wait"}

\* The word "fail": the error is recorded and control given back for good.
Fail(e, err) == leave_handshake(br_ssl_engine_fail(e, err))

Goto(e, pc) == [e EXCEPT !.pc = pc]

\* The word "co".
Yield(e) == leave_handshake(e)

Take(e) == [e EXCEPT !.hin = Tail(@), !.took = TRUE]

\* The application has the floor; main waits.
open(e) ==
  Yield([e EXCEPT !.application_data = 1, !.record_type_out = "app",
                  !.pc = "main"])

-----------------------------------------------------------------------------
(* Alerts.                                                                 *)

\* What one more byte does, in the state r = [alert, close, fatal].
process_alert_byte(r, byte) ==
  CASE r.alert = 0 -> [r EXCEPT !.alert = IF byte = "b1" THEN 1 ELSE 2]
    [] r.alert = 1 /\ byte = "b100" -> [r EXCEPT !.alert = 0, !.fatal = TRUE]
    [] r.alert = 1 /\ byte # "b100" ->
         [r EXCEPT !.alert = 0, !.close = @ \/ byte = "b0"]
    [] OTHER -> [r EXCEPT !.fatal = TRUE]

\* All the bytes at hand, in order; the first fatal one ends it.
AlertState(e) ==
  LET after[i \in 0..Len(e.hin)] ==
        IF i = 0 THEN [alert |-> e.alert, close |-> FALSE, fatal |-> FALSE]
        ELSE IF after[i - 1].fatal THEN after[i - 1]
        ELSE process_alert_byte(after[i - 1], e.hin[i])
  IN  after[Len(e.hin)]

process_alerts(e) ==
  LET r == AlertState(e)
  IN  [e EXCEPT !.alert = r.alert, !.hin = <<>>, !.took = TRUE,
                !.shutdown_recv = @ \/ r.close]

-----------------------------------------------------------------------------
(* What happens first when control comes back.                             *)

HasInput(e, type) == e.hin # <<>> /\ e.record_type_in = type

\* After "co" in wait-co: a close asked for by the application comes first,
\* then alerts.
wait_co(e) ==
  LET awake == [e EXCEPT !.resumed = FALSE]
  IN  IF e.action = 1 THEN Goto(awake, "close")
      ELSE IF ~HasInput(e, "alert") THEN awake
      ELSE IF AlertState(awake).fatal THEN Fail(awake, "fatal_alert")
      ELSE IF AlertState(awake).close
      THEN [process_alerts(awake) EXCEPT !.pc = "close", !.cnr = TRUE]
      ELSE process_alerts(awake)

\* After "co" in wait-for-close: until the close_notify of the peer is there,
\* alerts are processed and everything else is dropped.
wait_for_close(e) ==
  LET awake == [e EXCEPT !.resumed = FALSE]
  IN  IF e.cnr \/ e.hin = <<>> THEN awake
      ELSE IF ~HasInput(e, "alert")
      THEN [awake EXCEPT !.hin = <<>>, !.took = TRUE]
      ELSE IF AlertState(awake).fatal THEN Fail(awake, "fatal_alert")
      ELSE [process_alerts(awake) EXCEPT !.application_data = 0,
                                         !.cnr = AlertState(awake).close]

Resume(e) == IF e.pc \in Closing THEN wait_for_close(e) ELSE wait_co(e)

-----------------------------------------------------------------------------
(* The words, from a point to the next.                                    *)

\* Input of another type than handshake where a message is read.
AlienInput(e) == e.hin # <<>> /\ e.record_type_in # "handshake"

\* Mutant: the floor is not taken from the application.
do_handshake_open(e) ==
  Goto([e EXCEPT !.record_type_out = "handshake"], "client_hello")

\* Mutant: the type of the outgoing records is left as it was.
do_handshake_typed(e) ==
  Goto([e EXCEPT !.application_data = 0], "client_hello")

do_handshake(e) ==
  Goto([e EXCEPT !.application_data = 0, !.record_type_out = "handshake"],
       "client_hello")

write_ClientHello(e) ==
  IF e.hout
  THEN Goto(write_message(e, e.record_type_out, "client_hello"),
            "server_hello")
  ELSE Yield(e)

\* A server that knew secure renegotiation must go on knowing it.
read_ServerHello(e) ==
  LET u == Head(e.hin)
      secure == u # "sh_old"
      resume == u = "sh_resume" /\ e.session
  IN  IF e.hin = <<>> THEN Yield(e)
      ELSE IF AlienInput(e) THEN Fail(e, "unexpected")
      ELSE IF u = "hello_request" THEN Take(e)
      ELSE IF u \notin {"sh", "sh_old", "sh_resume"} THEN Fail(e, "unexpected")
      ELSE IF e.reneg = 2 /\ ~secure THEN Fail(e, "bad_secreneg")
      ELSE [Take(e) EXCEPT
             !.reneg = IF secure THEN 2 ELSE 1,
             !.session = secure,
             !.resume = resume,
             !.pc = IF resume THEN "ccs_in" ELSE "server_done"]

read_ServerDone(e) ==
  IF e.hin = <<>> THEN Yield(e)
  ELSE IF AlienInput(e) THEN Fail(e, "unexpected")
  ELSE IF Head(e.hin) = "hello_request" THEN Take(e)
  ELSE IF e.hin # <<"hello_done">> THEN Fail(e, "unexpected")
  ELSE Goto(Take(e), "client_key")

write_ClientKeyExchange(e) ==
  IF e.hout
  THEN Goto(flush_record(sendpld_ack(e, <<Message("client_key")>>)), "ccs_out")
  ELSE Yield(e)

write_CCS(e) ==
  IF e.hout THEN Goto(write_message(e, "ccs", "ccs"), "finished_out")
  ELSE Yield(e)

\* Mutant: the Finished message of the server is not awaited.
write_Finished_open(e) ==
  IF ~e.hout THEN Yield(e)
  ELSE Goto(write_message(e, "handshake", "finished"), "open")

write_Finished(e) ==
  IF ~e.hout THEN Yield(e)
  ELSE LET out == write_message(e, "handshake", "finished")
       IN  IF e.resume THEN Goto(out, "open") ELSE Goto(out, "ccs_in")

read_CCS(e) ==
  IF e.hin = <<>> THEN Yield(e)
  ELSE IF e.record_type_in # "ccs" THEN Fail(e, "unexpected")
  ELSE IF Len(e.hin) # 1 THEN Fail(e, "bad_ccs")
  ELSE Goto(Take(e), "finished_in")

read_Finished(e) ==
  IF e.hin = <<>> THEN Yield(e)
  ELSE IF AlienInput(e) THEN Fail(e, "unexpected")
  ELSE IF Head(e.hin) = "hello_request" THEN Take(e)
  ELSE IF Head(e.hin) # "finished" THEN Fail(e, "unexpected")
  ELSE IF e.resume THEN Goto(flush_record(Take(e)), "ccs_out")
  ELSE Goto(Take(e), "open")

-----------------------------------------------------------------------------
\* The loop of main: a renegotiation is asked for by the application, or by
\* a HelloRequest of the peer; nothing else is expected.
main(e) ==
  IF e.hin = <<>>
  THEN IF e.action = 2 /\ e.application_data = 1
       THEN Goto([e EXCEPT !.action = 0], "handshake") ELSE Yield(e)
  ELSE IF e.record_type_in # "handshake" \/ Head(e.hin) # "hello_request"
  THEN Fail([e EXCEPT !.application_data =
               IF e.record_type_in = "handshake" THEN 0 ELSE @], "unexpected")
  ELSE LET asked == [Take(e) EXCEPT !.application_data = 0]
       IN  IF e.reneg = 1 \/ NoRenegotiation
           THEN Goto(flush_record(asked), "reject")
           ELSE Goto(asked, "handshake")

reject(e) ==
  IF e.hout THEN Goto(write_message(e, "alert", "no_renegotiation"), "open")
  ELSE Yield(e)

\* Mutant: the application keeps the floor.
do_close_open(e) == Goto(flush_record(e), "close_room")

\* Mutant: room for the close_notify is taken from what waits to be sent.
do_close_discard(e) ==
  Goto([e EXCEPT !.application_data = IF e.cnr THEN 0 ELSE 2 * @,
                 !.outbuf = <<>>, !.outrec = NoRec, !.hout = TRUE],
       "close_room")

do_close(e) ==
  Goto(flush_record([e EXCEPT !.application_data = IF e.cnr THEN 0 ELSE 2 * @]),
       "close_room")

\* Mutant: the close_notify of the peer is awaited first.
close_room_second(e) ==
  IF e.hout /\ e.cnr
  THEN Goto(write_message(e, "alert", "close_notify"), "close_wait")
  ELSE Yield(e)

close_room(e) ==
  IF e.hout THEN Goto(write_message(e, "alert", "close_notify"), "close_wait")
  ELSE Yield(e)

\* Mutant: the end does not wait until the close_notify is gone.
close_wait_hasty(e) == IF e.cnr THEN Fail(e, "ok") ELSE Yield(e)

close_wait(e) == IF e.cnr /\ e.hout THEN Fail(e, "ok") ELSE Yield(e)

-----------------------------------------------------------------------------
Word(e) ==
  CASE e.pc = "handshake" -> do_handshake(e)
    [] e.pc = "client_hello" -> write_ClientHello(e)
    [] e.pc = "server_hello" -> read_ServerHello(e)
    [] e.pc = "server_done" -> read_ServerDone(e)
    [] e.pc = "client_key" -> write_ClientKeyExchange(e)
    [] e.pc = "ccs_out" -> write_CCS(e)
    [] e.pc = "finished_out" -> write_Finished(e)
    [] e.pc = "ccs_in" -> read_CCS(e)
    [] e.pc = "finished_in" -> read_Finished(e)
    [] e.pc = "open" -> open(e)
    [] e.pc = "main" -> main(e)
    [] e.pc = "reject" -> reject(e)
    [] e.pc = "close" -> do_close(e)
    [] e.pc = "close_room" -> close_room(e)
    [] e.pc = "close_wait" -> close_wait(e)

HsStep(e) == IF e.resumed THEN Resume(e) ELSE Word(e)

=============================================================================
