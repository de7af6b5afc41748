-------------------------------- MODULE SslIo --------------------------------
(***************************************************************************)
(* The blocking wrapper of ssl_io.c around a TLS engine: br_sslio_read,    *)
(* br_sslio_write, br_sslio_flush and br_sslio_close run the engine over   *)
(* two callbacks, low_read and low_write, until it is in the state they    *)
(* need (run_until).  Unlike wm_tls_write, br_sslio_write lets data gather *)
(* and the buffer may serve both directions.                               *)
(***************************************************************************)
EXTENDS HsClient, Integers

CONSTANTS
  Records,     \* what the peer may send: type and payload units
  Lengths,     \* values of len, in units
  MaxReads     \* bound: units of data the peer sends

ASSUME SslIoAssumption ==
  /\ \A r \in Records : r.type \in RecordTypes /\ r.units \in Seq(InUnits)
  /\ MaxReads \in Nat
  /\ Lengths \subseteq Nat \ {0}   \* a call with len = 0 returns at once

VARIABLES
  e,      \* ctx->engine
  call,   \* the call in progress, where it is, what is left of its length
  up,     \* callbacks may succeed: their errors are permanent
  last,   \* what the last call returned, until the next one begins
  hist    \* history: units written and sent, units of data that came in a
          \* record and units read

vars == <<e, call, up, last, hist>>

NoCall == [op |-> "none", all |-> FALSE, at |-> "none", left |-> 0, rc |-> 0]
NoReturn == [op |-> "none", rc |-> 0]

Ops == {"read", "write", "flush", "close"}
Target == [read |-> {"RECVAPP"}, write |-> {"SENDAPP"},
           flush |-> {"SENDAPP", "RECVAPP"}, close |-> {"RECVAPP"}]

\* br_sslio_init, after br_ssl_client_reset.
Init ==
  /\ e = InitEngine
  /\ call = NoCall /\ up = TRUE /\ last = NoReturn
  /\ hist = [written |-> 0, gone |-> 0, came |-> 0, read |-> 0]

State == br_ssl_engine_current_state(e)
At(at) == ~e.running /\ call.at = at
Goon(at) == call' = [call EXCEPT !.at = at] /\ UNCHANGED last
Return(rc) == call' = NoCall /\ last' = [op |-> call.op, rc |-> rc]

-----------------------------------------------------------------------------
(* run_until: "run" is the head of its loop, "ran" its return.               *)
Ran(rc) == call' = [call EXCEPT !.at = "ran", !.rc = rc] /\ UNCHANGED last

run_until ==
  /\ At("run")
  /\ IF "CLOSED" \in State THEN Ran(-1) /\ UNCHANGED e
     ELSE IF "SENDREC" \in State THEN Goon("low_write") /\ UNCHANGED e
     ELSE IF State \cap Target[call.op] # {} THEN Ran(0) /\ UNCHANGED e
     ELSE IF "RECVAPP" \in State THEN Ran(-1) /\ UNCHANGED e
     ELSE IF "RECVREC" \in State THEN Goon("low_read") /\ UNCHANGED e
     ELSE e' = br_ssl_engine_flush(e, FALSE) /\ UNCHANGED <<call, last>>
  /\ UNCHANGED <<up, hist>>

\* low_write takes the record.
LowWrite ==
  /\ At("low_write") /\ up
  /\ e' = br_ssl_engine_sendrec_ack(e)
  /\ hist' = [hist EXCEPT !.gone = @ + Cardinality(DataPlaces(e.outrec.units))]
  /\ Goon("run") /\ UNCHANGED up

\* low_write fails; a peer that has sent its close_notify need not be there.
LowWriteError ==
  /\ At("low_write")
  /\ up' = FALSE
  /\ e' = IF e.shutdown_recv THEN e ELSE br_ssl_engine_fail(e, "io")
  /\ Ran(-1) /\ UNCHANGED hist

\* low_read brings the rest of a record.
LowRead(r) ==
  /\ At("low_read") /\ up
  /\ e.part => r.type = e.record_type_in
  /\ r.type = "app" => hist.came + Len(r.units) <= MaxReads
  /\ e' = br_ssl_engine_recvrec_ack(e, r.type, r.units)
  /\ hist' = [hist EXCEPT !.came = @ +
                IF r.type = "app" /\ e.application_data = 1 THEN Len(r.units) ELSE 0]
  /\ Goon("run") /\ UNCHANGED up

\* It brings the beginning of one.
LowReadPart(type) ==
  /\ At("low_read") /\ up /\ ~e.part
  /\ e' = [e EXCEPT !.part = TRUE, !.record_type_in = type]
  /\ Goon("run") /\ UNCHANGED <<up, hist>>

\* It brings what the record layer refuses.
LowReadBad ==
  /\ At("low_read") /\ up
  /\ e' = br_ssl_engine_fail(e, "record")
  /\ Goon("run") /\ UNCHANGED <<up, hist>>

\* Mutant: the engine is not told.
LowReadError_untold ==
  /\ At("low_read")
  /\ up' = FALSE
  /\ Ran(-1) /\ UNCHANGED <<e, hist>>

LowReadError ==
  /\ At("low_read")
  /\ up' = FALSE
  /\ e' = br_ssl_engine_fail(e, "io")
  /\ Ran(-1) /\ UNCHANGED hist

-----------------------------------------------------------------------------
(* The calls.  all: br_sslio_read_all and br_sslio_write_all.                *)
Call(op, all, left) ==
  [op |-> op, all |-> all, at |-> "run", left |-> left, rc |-> 0]

\* The bound on what is written is that of EngineState.
Begin ==
  /\ call = NoCall /\ ~e.running
  /\ \E len \in Lengths, all \in BOOLEAN :
       \/ call' = Call("read", all, len)
       \/ hist.written + len <= MaxWrites /\ call' = Call("write", all, len)
  /\ last' = NoReturn
  /\ UNCHANGED <<e, up, hist>>

\* Mutant: the engine is not asked to flush.
BeginFlush_waiting ==
  /\ call = NoCall /\ ~e.running
  /\ call' = Call("flush", FALSE, 0)
  /\ last' = NoReturn
  /\ UNCHANGED <<e, up, hist>>

\* br_sslio_flush and br_sslio_close begin with a call of the engine.
BeginFlush ==
  /\ call = NoCall /\ ~e.running
  /\ e' = br_ssl_engine_flush(e, FALSE)
  /\ call' = Call("flush", FALSE, 0)
  /\ last' = NoReturn
  /\ UNCHANGED <<up, hist>>

BeginClose ==
  /\ call = NoCall /\ ~e.running
  /\ e' = IF e.failed THEN e ELSE jump_handshake(e, 1)
  /\ call' = [Call("close", FALSE, 0) EXCEPT !.at = "closing"]
  /\ last' = NoReturn
  /\ UNCHANGED <<up, hist>>

\* n units were copied: the call is over, or goes on with the rest.
Copied(n) ==
  IF call.all /\ n < call.left
    THEN call' = [call EXCEPT !.at = "run", !.left = @ - n] /\ UNCHANGED last
    ELSE Return(IF call.all THEN 0 ELSE n)

Least(a, b) == IF a < b THEN a ELSE b

br_sslio_read ==
  /\ At("ran") /\ call.op = "read"
  /\ IF call.rc < 0 THEN Return(-1) /\ UNCHANGED <<e, hist>>
     ELSE LET n == Least(Len(e.inbuf), call.left) IN
          /\ e' = [e EXCEPT !.inbuf = SubSeq(@, n + 1, Len(@))]
          /\ hist' = [hist EXCEPT !.read = @ + n]
          /\ Copied(n)
  /\ UNCHANGED up

\* What fits is copied; the engine seals what is full.
br_sslio_write ==
  /\ At("ran") /\ call.op = "write"
  /\ IF call.rc < 0 THEN Return(-1) /\ UNCHANGED <<e, hist>>
     ELSE LET n == Least(OutRoom - Len(e.outbuf), call.left)
          IN /\ e' = sendpld_ack(e, [k \in 1..n |-> AppData(hist.written + k)])
             /\ hist' = [hist EXCEPT !.written = @ + n]
             /\ Copied(n)
  /\ UNCHANGED up

br_sslio_flush ==
  /\ At("ran") /\ call.op = "flush"
  /\ Return(call.rc)
  /\ UNCHANGED <<e, up, hist>>

\* Its loop: it discards what it is given until the engine is closed, and
\* returns whether it was closed without an error.
br_sslio_close ==
  /\ At("closing")
  /\ IF "CLOSED" \in State
       THEN Return(IF e.err = "ok" THEN 1 ELSE 0)
       ELSE Goon("run")
  /\ UNCHANGED <<e, up, hist>>

Discard ==
  /\ At("ran") /\ call.op = "close"
  /\ e' = IF recvapp_open(e) THEN [e EXCEPT !.inbuf = <<>>] ELSE e
  /\ Goon("closing")
  /\ UNCHANGED <<up, hist>>

\* The handshake processor.
HsRun ==
  /\ e.running
  /\ e' = HsStep(e)
  /\ UNCHANGED <<call, up, last, hist>>

Step ==
  \/ run_until \/ LowWrite \/ LowWriteError
  \/ \E r \in Records : LowRead(r) \/ LowReadPart(r.type)
  \/ LowReadBad \/ LowReadError
  \/ br_sslio_read \/ br_sslio_write \/ br_sslio_flush \/ br_sslio_close
  \/ Discard \/ HsRun

Next == Begin \/ BeginFlush \/ BeginClose \/ Step

Spec == Init /\ [][Next]_vars

CloseNotify == [type |-> "alert", units |-> <<"b1", "b0">>]

\* The peer closes, or is found to be gone.
PeerEnds == (CloseNotify \in Records /\ LowRead(CloseNotify)) \/ LowReadError

\* A call in progress goes on: the callbacks return some time.  Reading again and
\* again brings the close_notify of the peer or an error some time: the peer does
\* not send other things for ever.  Which of the two is left open, so that what is
\* read may never fail.
FairSpec == Spec /\ WF_vars(Step) /\ SF_vars(PeerEnds)

-----------------------------------------------------------------------------
(* Properties.                                                               *)

\* What was written is on its way in order, once and whole, and what came is
\* read in the same way, in whatever pieces the calls cut it and whatever
\* handshakes, refusals and closures come between (br_sslio_write,
\* br_sslio_read).
StreamsKept ==
  /\ DataKept(Pending(e), hist.written, hist.gone)
  /\ ~e.failed =>
       hist.came = hist.read + IF e.record_type_in = "app" THEN Len(e.inbuf) ELSE 0

\* br_sslio_flush "makes sure that any buffered application data [...] has been
\* sent" (bearssl_ssl.h:4105) when it returns 0, though it leaves it to the
\* engine whether to flush at all, as during a handshake.
FlushSends == (last.op = "flush" /\ last.rc = 0) => hist.gone = hist.written

\* Data of the peer that was not read before the closure began: it can be read
\* no more, and nothing else can come in.
Hidden == e.application_data # 1 /\ e.record_type_in = "app" /\ e.inbuf # <<>>

\* The answer to the close_notify of the peer cannot be written: that peer need
\* not be there, so the engine does not fail.
Unanswerable == ~up /\ e.shutdown_recv /\ "SENDREC" \in State

\* br_sslio_close comes to an end: when the peer answers it, when reading fails,
\* and when writing fails before the peer has closed.  Two states remain in which
\* its loop goes on for ever: data was left unread, or the peer has closed and is
\* gone (run_until, br_sslio_close).
CloseEnds ==
  (call.op = "close") ~> (last.op = "close" \/ Hidden \/ Unanswerable)

\* "When it returns, the SSL connection is finished" (bearssl_ssl.h:4124): it
\* returns, whatever was left unread and whether or not the peer is still there.
CloseReturns == (call.op = "close") ~> (last.op = "close")
=============================================================================
