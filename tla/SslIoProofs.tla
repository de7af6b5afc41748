----------------------------- MODULE SslIoProofs -----------------------------
(***************************************************************************)
(* The blocking wrapper, for every peer, every length of a call, any room  *)
(* for payload and with one buffer or two.  The engine keeps Fine of       *)
(* HsClientProofs, with the history of the wrapper; br_sslio_write lets    *)
(* data gather, so that nothing is assumed to be flushed at once.          *)
(***************************************************************************)
EXTENDS SslIo, HsClientProofs

History(hello, notified) ==
  [written |-> hist.written, gone |-> hist.gone, hello |-> hello,
   notified |-> notified, early |-> FALSE]

Typed ==
  /\ call \in [op : Ops \cup {"none"}, all : BOOLEAN,
               at : {"none", "run", "ran", "low_write", "low_read", "closing"},
               left : Nat, rc : {-1, 0}]
  /\ last \in [op : Ops \cup {"none"}, rc : Int]
  /\ hist \in [written : Nat, gone : Nat, came : Nat, read : Nat]

\* The engine; less is gathered than fills a record.
EngineOk ==
  /\ \E hello, notified \in BOOLEAN : Fine(e, History(hello, notified))
  /\ Unseen(e)
  /\ ~e.running /\ ~e.failed => e.pc \notin {"handshake", "open", "close"}
  /\ Len(e.outbuf) < OutRoom

\* What came in is either read or waits to be read.
Incoming ==
  /\ e.record_type_in = "app" => e.inbuf \in Seq(InUnits)
  /\ ~e.failed =>
       hist.came = hist.read + IF e.record_type_in = "app" THEN Len(e.inbuf) ELSE 0

\* The application has asked for the end, and the processor knows it or is
\* told next.
Shut(r) ==
  r.failed \/ r.pc \in Closing \/ (r.running /\ r.resumed /\ r.action = 1)

\* Where a call is.
Calls ==
  /\ call.op = "none" <=> call = NoCall
  /\ call.at = "none" <=> call = NoCall
  /\ call # NoCall => last = NoReturn
  /\ call.at = "closing" => call.op = "close"
  /\ call.op \in {"read", "write"} => call.left >= 1
  /\ call.at \in {"ran", "low_write", "low_read"} => ~e.running
  /\ call.at = "low_write" => sendrec_open(e)
  /\ call.at = "low_read" => recvrec_open(e)
  /\ call.at = "ran" /\ call.rc = 0 =>
       /\ call.op = "read" => recvapp_open(e)
       /\ call.op = "write" => sendapp_open(e)
       /\ call.op = "flush" => hist.gone = hist.written
  /\ call.op = "close" => Shut(e)

\* A flush has left nothing unsealed, while the application has the floor.
Flushed ==
  /\ call.op = "flush" /\ e.application_data = 1 /\ ~e.failed =>
       e.outbuf = <<>>
  /\ FlushSends

SInv == Typed /\ EngineOk /\ Incoming /\ Calls /\ Flushed

-----------------------------------------------------------------------------
(* What the engine is like.                                                *)

LEMMA HistoryOf ==
  ASSUME NEW hello, NEW notified
  PROVE  LET h == History(hello, notified)
         IN  /\ h.written = hist.written /\ h.gone = hist.gone
             /\ h.hello = hello /\ h.notified = notified /\ ~h.early
BY DEF History

LEMMA EngineFine ==
  ASSUME EngineOk
  PROVE  \E hello, notified \in BOOLEAN :
           LET h == History(hello, notified)
           IN  /\ Fine(e, h)
               /\ UNCHANGED hist /\ Fine(e', h) =>
                    \E l, n \in BOOLEAN : Fine(e', History(l, n)')
BY DEF EngineOk, History

LEMMA EngineFacts ==
  ASSUME EngineOk
  PROVE  /\ Shape(e) /\ e.application_data \in Nat
         /\ e.failed => ~e.running
         /\ ~e.running => e.hin = <<>> /\ ~e.took
         /\ e.outrec = NoRec /\ e.outbuf = <<>> => hist.gone = hist.written
         /\ e.outrec # NoRec => e.outbuf = <<>>
         /\ e.pc = "open" => e.outbuf = <<>> /\ e.application_data = 0
         /\ e.pc \in {"close_room", "close_wait"} => e.application_data # 1
<1>1. PICK hello \in BOOLEAN, notified \in BOOLEAN :
        Fine(e, History(hello, notified))
  BY DEF EngineOk
<1> DEFINE h == History(hello, notified)
<1>2. h.written = hist.written /\ h.gone = hist.gone
  BY HistoryOf
<1> HIDE DEF h
<1>3. Fine(e, h)
  BY <1>1 DEF h
<1>4. h.written \in Nat /\ h.gone \in Nat /\ h.gone <= h.written
  BY <1>3 DEF Fine, Core, Stream
<1>5. e.outrec = NoRec /\ e.outbuf = <<>> => h.gone = h.written
  BY <1>3, <1>4, OwedIsData DEF Fine, Core, Stream, Holds
<1>6. e.pc = "open" => e.outbuf = <<>>
  BY <1>3, <1>4, OwedIsData DEF Fine, Core, Shaking, Stream
<1> QED
  BY <1>2, <1>3, <1>5, <1>6
     DEF Fine, Given, Core, Stream, Floor, Silent, Holds

LEMMA Opens ==
  /\ sendrec_open(e) => ~e.failed /\ e.outrec # NoRec
  /\ recvrec_open(e) => ~e.failed /\ ~e.shutdown_recv /\ e.inbuf = <<>>
  /\ sendapp_open(e) => ~e.failed /\ e.application_data = 1 /\ e.outrec = NoRec
  /\ recvapp_open(e) =>
       /\ ~e.failed /\ e.application_data = 1
       /\ e.record_type_in = "app" /\ e.inbuf # <<>>
  /\ ~e.failed /\ e.outrec # NoRec /\ e.application_data = 1 /\
     recvapp_open(e) => sendrec_open(e)
BY DEF sendrec_open, recvrec_open, sendapp_open, recvapp_open, sendpld_open,
       recvpld_open, CanIn, CanOut, OutIdle

LEMMA States ==
  /\ "CLOSED" \in State <=> e.failed
  /\ "SENDREC" \in State <=> sendrec_open(e)
  /\ "RECVREC" \in State <=> recvrec_open(e)
  /\ "SENDAPP" \in State <=> sendapp_open(e)
  /\ "RECVAPP" \in State <=> recvapp_open(e)
BY DEF State, br_ssl_engine_current_state, sendrec_open, recvrec_open,
   sendapp_open, recvapp_open, sendpld_open, recvpld_open, CanIn, CanOut

\* A step that does not touch the engine.
LEMMA EngineQuiet ==
  ASSUME EngineOk, e' = e, hist'.written = hist.written,
         hist'.gone = hist.gone
  PROVE  EngineOk'
BY DEF EngineOk, History

\* The fields that the transport and a write leave alone.
Same(r, s) ==
  /\ s.pc = r.pc /\ s.inbuf = r.inbuf
  /\ s.application_data = r.application_data
  /\ s.record_type_in = r.record_type_in /\ s.failed = r.failed

LEMMA JumpSame ==
  ASSUME NEW r, NEW a, Shape(r), ~r.failed
  PROVE  LET s == jump_handshake(r, a)
         IN  /\ Same(r, s) /\ s.running /\ s.action = a /\ s.resumed /\ ~s.took
             /\ s.outrec = r.outrec /\ s.outbuf = r.outbuf
             /\ r.record_type_in = "app" => s.hin = <<>>
BY DEF jump_handshake, Shape, Fields, Same, recvpld_open, CanIn

-----------------------------------------------------------------------------
(* What the steps do to the engine.                                        *)

\* A record leaves, with all the data in it.
LEMMA SendEffect ==
  ASSUME EngineOk, Typed, ~e.running, sendrec_open(e),
         e' = br_ssl_engine_sendrec_ack(e),
         hist' = [hist EXCEPT
           !.gone = @ + Cardinality(DataPlaces(e.outrec.units))]
  PROVE  /\ EngineOk' /\ Same(e, e') /\ e'.outbuf = <<>>
         /\ hist'.gone = hist.written /\ hist'.written = hist.written
         /\ hist'.came = hist.came /\ hist'.read = hist.read
<1>1. PICK hello \in BOOLEAN, notified \in BOOLEAN :
        Fine(e, History(hello, notified))
  BY DEF EngineOk
<1> DEFINE h == History(hello, notified)
           gone == hist.gone + Cardinality(DataPlaces(e.outrec.units))
           hello2 == (hello \/ Holds(e, "client_hello")) /\ ~Holds(e, "finished")
           notified2 == notified \/ Holds(e, "close_notify")
           k == [written |-> hist.written, gone |-> gone, hello |-> hello2,
                 notified |-> notified2, early |-> FALSE]
<1>2. /\ hist'.gone = gone /\ hist'.written = hist.written
      /\ hist'.came = hist.came /\ hist'.read = hist.read
  BY DEF Typed
<1>3. /\ h.written = hist.written /\ h.gone = hist.gone
      /\ h.hello = hello /\ h.notified = notified /\ h.early = FALSE
      /\ k.written = hist.written /\ k.gone = gone
      /\ k.hello = hello2 /\ k.notified = notified2 /\ k.early = FALSE
  BY DEF History
<1>4. hello2 \in BOOLEAN /\ notified2 \in BOOLEAN
  BY DEF Holds
<1>5. [written |-> hist'.written, gone |-> hist'.gone, hello |-> hello2,
       notified |-> notified2, early |-> FALSE] = k
  BY <1>2
<1>6. Sent(e, h, k)
  BY <1>3 DEF Sent
<1> HIDE DEF h, k, hello2, notified2, gone
<1>7. Fine(e, h)
  BY <1>1 DEF h
<1> DEFINE sent == [e EXCEPT !.outrec = NoRec]
<1>8. /\ Fine(e', k) /\ k.gone = h.written
      /\ e' \in {sent, jump_handshake(sent, 0)}
  BY <1>6, <1>7, SentFine, Opens
<1>9. /\ Shape(e) /\ ~e.failed /\ e.outbuf = <<>> /\ e.hin = <<>> /\ ~e.took
      /\ Unseen(e)
  BY EngineFacts, Opens DEF EngineOk
<1>10. /\ Shape(sent) /\ ~sent.failed /\ Same(e, sent) /\ sent.outbuf = <<>>
       /\ ~sent.running /\ sent.hin = <<>> /\ ~sent.took
  BY <1>9 DEF Shape, Fields, Same
<1> HIDE DEF sent
<1>11. /\ Same(e, e') /\ e'.outbuf = <<>> /\ Unseen(e')
       /\ e'.running \/ e'.pc = e.pc
  <2>1. CASE e' = sent
    BY <1>10, <2>1 DEF Unseen, Same
  <2>2. CASE e' = jump_handshake(sent, 0)
    <3> DEFINE j == jump_handshake(sent, 0)
    <3>1. /\ Same(sent, j) /\ j.outbuf = sent.outbuf /\ ~j.took /\ j.running
          /\ sent.record_type_in = "app" => j.hin = <<>>
      BY <1>10, JumpSame
    <3> HIDE DEF j
    <3>2. Same(e, j) /\ j.outbuf = <<>> /\ Unseen(j)
      BY <1>10, <3>1 DEF Same, Unseen
    <3>3. e' = j
      BY <2>2 DEF j
    <3> QED
      BY <3>1, <3>2, <3>3
  <2> QED
    BY <1>8, <2>1, <2>2
<1>12. \E l, n \in BOOLEAN : Fine(e', History(l, n)')
  BY <1>4, <1>5, <1>8 DEF History
<1>13. Len(e'.outbuf) < OutRoom
  BY <1>11, EngineAssumption
<1>14. ~e'.running /\ ~e'.failed => e'.pc \notin {"handshake", "open", "close"}
  BY <1>11 DEF EngineOk, Same
<1> QED
  BY <1>2, <1>3, <1>8, <1>11, <1>12, <1>13, <1>14 DEF EngineOk

\* A record comes in: the application finds its data, the processor runs, or
\* it is dropped, or it is an error.
LEMMA RecvEffect ==
  ASSUME EngineOk, ~e.running, recvrec_open(e), NEW r \in Records,
         e' = br_ssl_engine_recvrec_ack(e, r.type, r.units),
         hist'.written = hist.written, hist'.gone = hist.gone
  PROVE  /\ EngineOk'
         /\ e'.pc = e.pc /\ e'.application_data = e.application_data
         /\ e'.outbuf = e.outbuf /\ e'.record_type_in = r.type
         /\ ~e'.failed /\ r.type = "app" =>
              e'.inbuf = IF e.application_data = 1 THEN r.units ELSE <<>>
         /\ e'.inbuf \in {r.units, <<>>}
<1>1. PICK hello \in BOOLEAN, notified \in BOOLEAN :
        Fine(e, History(hello, notified))
  BY DEF EngineOk
<1> DEFINE h == History(hello, notified)
           got == [e EXCEPT !.part = FALSE, !.record_type_in = r.type,
                            !.inbuf = r.units]
           dropped == [got EXCEPT !.inbuf = <<>>]
<1>2. History(hello, notified)' = h
  BY DEF History
<1> HIDE DEF h
<1>3. Fine(e, h) /\ Shape(e) /\ e.hin = <<>> /\ ~e.took /\ ~e.failed
  BY <1>1, EngineFacts, Opens DEF h
<1>4. Fine(e', h)
  BY <1>3, RecvFine
<1>5. /\ Shape(got)
      /\ got.outbuf = e.outbuf /\ got.pc = e.pc
      /\ got.application_data = e.application_data /\ ~got.failed
      /\ ~got.running /\ got.record_type_in = r.type
      /\ got.inbuf = r.units /\ got.hin = <<>> /\ ~got.took
  BY <1>3 DEF Shape, Fields
<1>6. \/ e' = got /\ (r.units = <<>> \/ e.application_data = 1 \/ r.type # "app")
      \/ e' = jump_handshake(got, 0) /\ r.type # "app"
      \/ e' = dropped /\ e.application_data # 1
      \/ e' = br_ssl_engine_fail(got, "unexpected")
  <2>1. CASE r.units = <<>> \/ (r.type = "app" /\ e.application_data = 1)
    BY <2>1 DEF br_ssl_engine_recvrec_ack
  <2>2. CASE r.units # <<>> /\ r.type \in {"ccs", "alert", "handshake"}
    BY <2>2 DEF br_ssl_engine_recvrec_ack
  <2>3. CASE r.units # <<>> /\ r.type = "app" /\ e.application_data = 2
    BY <2>3 DEF br_ssl_engine_recvrec_ack
  <2>4. CASE /\ r.units # <<>> /\ r.type \notin {"ccs", "alert", "handshake"}
             /\ ~(r.type = "app" /\ e.application_data \in {1, 2})
    BY <2>4 DEF br_ssl_engine_recvrec_ack
  <2> QED
    BY <2>1, <2>2, <2>3, <2>4
<1> HIDE DEF got
<1>7. /\ dropped.pc = got.pc /\ dropped.outbuf = got.outbuf
      /\ dropped.application_data = got.application_data
      /\ dropped.record_type_in = got.record_type_in /\ dropped.inbuf = <<>>
      /\ dropped.hin = got.hin /\ dropped.took = got.took
      /\ dropped.running = got.running /\ dropped.failed = got.failed
  BY <1>5 DEF Shape, Fields
<1> HIDE DEF dropped
<1>8. /\ e'.pc = e.pc /\ e'.application_data = e.application_data
      /\ e'.outbuf = e.outbuf /\ e'.record_type_in = r.type
      /\ ~e'.failed /\ r.type = "app" =>
           e'.inbuf = IF e.application_data = 1 THEN r.units ELSE <<>>
      /\ e'.inbuf \in {r.units, <<>>} /\ Unseen(e')
  <2>1. CASE e' = got /\ (r.units = <<>> \/ e.application_data = 1 \/ r.type # "app")
    BY <1>5, <2>1 DEF Unseen
  <2>2. CASE e' = jump_handshake(got, 0) /\ r.type # "app"
    <3> DEFINE j == jump_handshake(got, 0)
    <3>1. Same(got, j) /\ j.outbuf = got.outbuf /\ ~j.took
      BY <1>5, JumpSame
    <3> HIDE DEF j
    <3>2. e' = j
      BY <2>2 DEF j
    <3> QED
      BY <1>5, <2>2, <3>1, <3>2 DEF Same, Unseen
  <2>3. CASE e' = dropped /\ e.application_data # 1
    BY <1>5, <1>7, <2>3 DEF Unseen
  <2>4. CASE e' = br_ssl_engine_fail(got, "unexpected")
    <3>1. e' = [got EXCEPT !.failed = TRUE, !.err = "unexpected"]
      BY <1>5, <2>4 DEF br_ssl_engine_fail
    <3>2. /\ e'.failed /\ e'.pc = got.pc /\ e'.inbuf = got.inbuf
          /\ e'.application_data = got.application_data
          /\ e'.outbuf = got.outbuf /\ e'.took = got.took
          /\ e'.record_type_in = got.record_type_in /\ e'.hin = got.hin
      BY <1>5, <3>1 DEF Shape, Fields
    <3> QED
      BY <1>5, <3>2 DEF Unseen
  <2> QED
    BY <1>6, <2>1, <2>2, <2>3, <2>4
<1>9. EngineOk'
  BY <1>2, <1>3, <1>4, <1>8 DEF EngineOk
<1> QED
  BY <1>8, <1>9

\* A step that only touches what came in, or fails.
LEMMA InputEffect ==
  ASSUME EngineOk, ~e.running, NEW s, Shape(s), Agree(e, s),
         s.hout = e.hout, s.running = e.running, s.hin = e.hin,
         s.took = e.took, e' = s,
         hist'.written = hist.written, hist'.gone = hist.gone
  PROVE  EngineOk'
<1>1. PICK hello \in BOOLEAN, notified \in BOOLEAN :
        Fine(e, History(hello, notified))
  BY DEF EngineOk
<1> DEFINE h == History(hello, notified)
<1>2. History(hello, notified)' = h
  BY DEF History
<1> HIDE DEF h
<1>3. Fine(e, h) /\ e.hin = <<>> /\ ~e.took
  BY <1>1, EngineFacts DEF h
<1>4. Fine(s, h)
  BY <1>3, AgreeFine
<1>5. Unseen(s) /\ s.pc = e.pc /\ s.outbuf = e.outbuf /\ s.failed = e.failed
  BY <1>3 DEF Unseen, Agree
<1> QED
  BY <1>2, <1>4, <1>5 DEF EngineOk

LEMMA FailEffect ==
  ASSUME EngineOk, ~e.running, NEW err, err # "ok",
         e' = br_ssl_engine_fail(e, err),
         hist'.written = hist.written, hist'.gone = hist.gone
  PROVE  /\ EngineOk' /\ e'.failed /\ ~e'.running
         /\ e'.inbuf = e.inbuf /\ e'.record_type_in = e.record_type_in
<1>1. PICK hello \in BOOLEAN, notified \in BOOLEAN :
        Fine(e, History(hello, notified))
  BY DEF EngineOk
<1> DEFINE h == History(hello, notified)
<1>2. History(hello, notified)' = h
  BY DEF History
<1> HIDE DEF h
<1>3. Fine(e, h) /\ Shape(e) /\ e.hin = <<>> /\ ~e.took
  BY <1>1, EngineFacts DEF h
<1>4. Fine(e', h)
  BY <1>3, FailFine
<1>5. /\ e'.failed /\ e'.running = e.running /\ e'.hin = e.hin
      /\ e'.took = e.took /\ e'.outbuf = e.outbuf /\ e'.inbuf = e.inbuf
      /\ e'.record_type_in = e.record_type_in
  <2>1. CASE e.failed
    BY <2>1 DEF br_ssl_engine_fail
  <2>2. CASE ~e.failed
    <3>1. e' = [e EXCEPT !.failed = TRUE, !.err = err]
      BY <2>2 DEF br_ssl_engine_fail
    <3> QED
      BY <1>3, <3>1 DEF Shape, Fields
  <2> QED
    BY <2>1, <2>2
<1> QED
  BY <1>2, <1>3, <1>4, <1>5 DEF EngineOk, Unseen

\* The application closes.
LEMMA JumpEffect ==
  ASSUME EngineOk, ~e.running, ~e.failed, e' = jump_handshake(e, 1),
         hist'.written = hist.written, hist'.gone = hist.gone
  PROVE  EngineOk' /\ Same(e, e') /\ Shut(e')
<1>1. PICK hello \in BOOLEAN, notified \in BOOLEAN :
        Fine(e, History(hello, notified))
  BY DEF EngineOk
<1> DEFINE h == History(hello, notified)
<1>2. History(hello, notified)' = h
  BY DEF History
<1> HIDE DEF h
<1>3. Fine(e, h)
  BY <1>1 DEF h
<1>4. Fine(e', h)
  BY <1>3, JumpFine DEF Fine
<1>5. /\ Same(e, e') /\ e'.running /\ e'.action = 1 /\ e'.resumed /\ ~e'.took
      /\ e'.outbuf = e.outbuf
      /\ e.record_type_in = "app" => e'.hin = <<>>
  BY <1>3, JumpSame DEF Fine
<1>6. Unseen(e')
  BY <1>5 DEF Unseen, Same
<1> QED
  BY <1>2, <1>4, <1>5, <1>6 DEF EngineOk, Shut

\* br_ssl_engine_flush seals what is gathered.
LEMMA FlushEffect ==
  ASSUME EngineOk, ~e.running, e' = br_ssl_engine_flush(e, FALSE),
         hist'.written = hist.written, hist'.gone = hist.gone
  PROVE  /\ EngineOk' /\ Same(e, e') /\ ~e'.running
         /\ ~e.failed /\ e.application_data = 1 => e'.outbuf = <<>>
         /\ e'.outbuf \in {<<>>, e.outbuf}
<1>1. PICK hello \in BOOLEAN, notified \in BOOLEAN :
        Fine(e, History(hello, notified))
  BY DEF EngineOk
<1> DEFINE h == History(hello, notified)
<1>2. History(hello, notified)' = h
  BY DEF History
<1> HIDE DEF h
<1>3. Fine(e, h) /\ Shape(e) /\ e.hin = <<>> /\ ~e.took
  BY <1>1, EngineFacts DEF h
<1>4. /\ Fine(e', h) /\ e' \in {e, Sealed(e)}
      /\ ~e.failed /\ e.application_data = 1 => e'.outbuf = <<>>
  BY <1>3, FlushFine
<1>5. /\ Same(e, e') /\ ~e'.running /\ e'.hin = <<>> /\ ~e'.took
      /\ e'.outbuf \in {<<>>, e.outbuf}
  <2>1. CASE e' = e
    BY <1>3, <2>1 DEF Same
  <2>2. CASE e' = Sealed(e)
    BY <1>3, <2>2 DEF Sealed, Shape, Fields, Same
  <2> QED
    BY <1>4, <2>1, <2>2
<1>6. Len(e'.outbuf) < OutRoom
  <2>1. Len(e.outbuf) < OutRoom
    BY DEF EngineOk
  <2>2. Len(<<>>) < OutRoom
    BY EngineAssumption
  <2> QED
    BY <1>5, <2>1, <2>2
<1> QED
  BY <1>2, <1>4, <1>5, <1>6 DEF EngineOk, Unseen, Same

\* The application writes n units, as many as fit.
LEMMA WriteEffect ==
  ASSUME EngineOk, Typed, ~e.running, sendapp_open(e), NEW n \in Nat, n # 0,
         n <= OutRoom - Len(e.outbuf),
         e' = sendpld_ack(e, [k \in 1..n |-> AppData(hist.written + k)]),
         hist'.written = hist.written + n, hist'.gone = hist.gone
  PROVE  EngineOk' /\ Same(e, e') /\ ~e'.running
<1>1. PICK hello \in BOOLEAN, notified \in BOOLEAN :
        Fine(e, History(hello, notified))
  BY DEF EngineOk
<1> DEFINE h == History(hello, notified)
           k == [written |-> hist'.written, gone |-> hist'.gone,
                 hello |-> hello, notified |-> notified, early |-> FALSE]
<1>2. /\ h.written = hist.written /\ More(h, k, n) /\ k.early = FALSE
      /\ k = History(hello, notified)'
  BY DEF History, More
<1> HIDE DEF h, k
<1>3. Fine(e, h) /\ Shape(e) /\ e.hin = <<>> /\ ~e.took
      /\ ~e.failed /\ e.application_data = 1 /\ e.outrec = NoRec
  BY <1>1, EngineFacts, Opens DEF h
<1> DEFINE u == NextData(h.written, n)
           m == [e EXCEPT !.outbuf = @ \o u]
<1>4. e' = sendpld_ack(e, u)
  BY <1>2 DEF NextData
<1>5. e' \in {m, Sealed(m)} /\ Fine(e', k)
  <2>1. ~k.early /\ More(h, k, n)
    BY <1>2
  <2> DEFINE a == sendpld_ack(e, NextData(h.written, n))
  <2>2. /\ a \in {m, Sealed(m)}
        /\ ~k.early => Fine(a, k)
    BY <1>3, <2>1, WriteFine
  <2>3. e' = a
    BY <1>4
  <2> HIDE DEF a, m
  <2> QED
    BY <2>1, <2>2, <2>3
<1>6. /\ Shape(m) /\ Same(e, m) /\ ~m.running /\ m.hin = <<>> /\ ~m.took
      /\ m.outbuf = e.outbuf \o u
  BY <1>3 DEF Shape, Fields, Same
<1>7. e' = IF Len(m.outbuf) >= OutRoom THEN sendpld_flush(m, FALSE) ELSE m
  BY <1>4 DEF sendpld_ack
<1> HIDE DEF m
<1>8. /\ Same(m, Sealed(m)) /\ ~Sealed(m).running /\ Sealed(m).hin = m.hin
      /\ Sealed(m).took = m.took /\ Sealed(m).outbuf = <<>>
  BY <1>6 DEF Sealed, Shape, Fields, Same
<1>9. Same(e, e') /\ ~e'.running /\ Unseen(e')
  BY <1>5, <1>6, <1>8 DEF Same, Unseen
<1>10. Len(e'.outbuf) < OutRoom
  <2>1. CASE e' = Sealed(m)
    BY <1>8, <2>1, EngineAssumption
  <2>2. CASE e' = m /\ ~(Len(m.outbuf) >= OutRoom)
    <3>1. Len(e.outbuf) \in Nat /\ Len(m.outbuf) \in Nat
      <4>1. h.written \in Nat /\ h.gone \in Nat /\ h.gone <= h.written
            /\ e.outbuf = DataFrom(h.written, h.gone)
        BY <1>3 DEF Fine, Core, Stream, Owed, Holds
      <4>2. e.outbuf \o u = DataFrom(h.written + n, h.gone)
        BY ZenonT(60), <4>1, DataGrows
      <4>3. Len(DataFrom(h.written, h.gone)) \in Nat
        BY <4>1, DataIsData
      <4>4. Len(DataFrom(h.written + n, h.gone)) \in Nat
        <5>1. h.written + n \in Nat /\ h.gone <= h.written + n
          BY <4>1
        <5> QED
          BY <4>1, <5>1, DataIsData
      <4> QED
        BY <1>6, <4>1, <4>2, <4>3, <4>4
    <3> QED
      BY <2>2, <3>1, EngineAssumption
  <2>3. CASE e' = m /\ Len(m.outbuf) >= OutRoom
    <3>1. e' = sendpld_flush(m, FALSE)
      BY <1>7, <2>3
    <3>2. m.outrec = NoRec
      BY <1>3 DEF m, Shape, Fields
    <3>3. m.outbuf # <<>>
      BY <2>3, EngineAssumption
    <3>4. e' = Sealed(m)
      BY <3>1, <3>2, <3>3, FlushForms
    <3> QED
      BY <2>1, <3>4
  <2> QED
    BY <1>5, <2>1, <2>2, <2>3
<1>11. Fine(e', History(hello, notified)')
  BY <1>2, <1>5
<1>12. ~e'.running /\ ~e'.failed => e'.pc \notin {"handshake", "open", "close"}
  BY <1>3, <1>9 DEF EngineOk, Same
<1> QED
  BY <1>9, <1>10, <1>11, <1>12 DEF EngineOk

\* The processor runs: it may seal what is gathered, and it closes when it is
\* told to.
LEMMA RunEffect ==
  ASSUME EngineOk, e.running, e' = HsStep(e),
         hist'.written = hist.written, hist'.gone = hist.gone
  PROVE  /\ EngineOk' /\ Kept(e, e') /\ Moves(e, e')
         /\ e'.outbuf \in {<<>>, e.outbuf}
         /\ Shut(e) => Shut(e')
<1>1. PICK hello \in BOOLEAN, notified \in BOOLEAN :
        Fine(e, History(hello, notified))
  BY DEF EngineOk
<1> DEFINE h == History(hello, notified)
<1>2. History(hello, notified)' = h
  BY DEF History
<1> HIDE DEF h
<1>3. Fine(e, h) /\ Unseen(e) /\ Shape(e) /\ ~e.failed
  BY <1>1 DEF h, EngineOk, Fine, Given
<1>4. /\ Fine(e', h) /\ Kept(e, e') /\ Moves(e, e')
  BY <1>3, HsStepFine, HsStepMoves
<1>5. e'.outbuf \in {<<>>, e.outbuf}
  BY <1>3, <1>4 DEF Fine, Core, Stream, Kept, Holds
<1>6. Len(e'.outbuf) < OutRoom
  BY <1>5, EngineAssumption DEF EngineOk
<1>7. ~e'.running /\ ~e'.failed => e'.pc \notin {"handshake", "open", "close"}
  BY <1>4 DEF Moves
<1>8. ASSUME Shut(e) PROVE Shut(e')
  <2>1. CASE e.pc \in Closing
    BY <1>4, <2>1 DEF Moves, Shut, Closing
  <2>2. CASE e.pc \notin Closing
    <3> DEFINE awake == [e EXCEPT !.resumed = FALSE]
    <3>1. e.resumed /\ e.action = 1
      BY <1>3, <1>8, <2>2 DEF Shut
    <3>2. e' = Goto(awake, "close")
      BY <2>2, <3>1 DEF HsStep, Resume, wait_co
    <3>3. e'.pc = "close"
      BY <1>3, <3>2 DEF Goto, Shape, Fields
    <3> QED
      BY <3>3 DEF Shut, Closing
  <2> QED
    BY <2>1, <2>2
<1> QED
  BY <1>2, <1>4, <1>5, <1>6, <1>7, <1>8 DEF EngineOk, Kept

-----------------------------------------------------------------------------
(* Every step keeps SInv.                                                  *)

\* A call is in progress and goes on.
LEMMA GoesOnKeeps ==
  ASSUME SInv, call.op \in Ops, last' = last, Typed', EngineOk', Incoming',
         call'.op = call.op, call'.at # "none",
         call'.at = "closing" => call.op = "close",
         call.op \in {"read", "write"} => call'.left >= 1,
         call'.at \in {"ran", "low_write", "low_read"} => ~e'.running,
         call'.at = "low_write" => sendrec_open(e'),
         call'.at = "low_read" => recvrec_open(e'),
         call'.at = "ran" /\ call'.rc = 0 =>
           /\ call.op = "read" => recvapp_open(e')
           /\ call.op = "write" => sendapp_open(e')
           /\ call.op = "flush" => hist'.gone = hist'.written,
         call.op = "close" => Shut(e'),
         call.op = "flush" /\ e'.application_data = 1 /\ ~e'.failed =>
           e'.outbuf = <<>>
  PROVE  SInv'
<1>1. NoCall.op = "none" /\ NoCall.at = "none" /\ "none" \notin Ops
  BY DEF NoCall, Ops
<1>2. last = NoReturn /\ NoReturn.op = "none"
  BY <1>1 DEF SInv, Calls, NoReturn
<1>3. Calls'
  BY <1>1, <1>2 DEF Calls
<1>4. Flushed'
  BY <1>2 DEF Flushed, FlushSends
<1> QED
  BY <1>3, <1>4 DEF SInv

\* Where a call goes, nothing else of it changes.
LEMMA CallGoes ==
  ASSUME Typed, call.op \in Ops,
         NEW at \in {"run", "ran", "low_write", "low_read", "closing"},
         NEW rc \in {-1, 0},
         \/ call' = [call EXCEPT !.at = at, !.rc = rc]
         \/ rc = call.rc /\ call' = [call EXCEPT !.at = at],
         last' = last, hist' \in [written : Nat, gone : Nat, came : Nat, read : Nat]
  PROVE  /\ Typed' /\ call'.op = call.op /\ call'.at = at /\ call'.rc = rc
         /\ call'.left = call.left
<1>1. /\ call'.op = call.op /\ call'.at = at /\ call'.rc = rc
      /\ call'.left = call.left
  BY DEF Typed
<1>2. call' \in [op : Ops \cup {"none"}, all : BOOLEAN,
                 at : {"none", "run", "ran", "low_write", "low_read", "closing"},
                 left : Nat, rc : {-1, 0}]
  BY DEF Typed
<1> QED
  BY <1>1, <1>2 DEF Typed

\* A call returns.
LEMMA ReturnKeeps ==
  ASSUME SInv, call.op \in Ops, NEW rc \in Int, Return(rc), EngineOk', Incoming',
         hist' \in [written : Nat, gone : Nat, came : Nat, read : Nat],
         call.op = "flush" /\ rc = 0 => hist'.gone = hist'.written,
         ~e'.running
  PROVE  SInv'
<1>1. /\ call' = NoCall /\ last' = [op |-> call.op, rc |-> rc]
      /\ NoCall.op = "none" /\ NoCall.at = "none" /\ "none" \notin Ops
  BY DEF Return, NoCall, Ops
<1>2. Typed'
  BY <1>1 DEF Typed, NoCall
<1>3. Calls'
  BY <1>1 DEF Calls
<1>4. Flushed'
  BY <1>1 DEF Flushed, FlushSends
<1> QED
  BY <1>2, <1>3, <1>4 DEF SInv

\* A call begins.
LEMMA CallKeeps ==
  ASSUME SInv, NEW op \in Ops, NEW all \in BOOLEAN, NEW left \in Nat,
         NEW at \in {"run", "closing"}, at = "closing" => op = "close",
         call' = [op |-> op, all |-> all, at |-> at, left |-> left, rc |-> 0],
         op \in {"read", "write"} => left >= 1,
         last' = NoReturn, hist' = hist, EngineOk', Incoming',
         op = "close" => Shut(e'),
         op = "flush" /\ e'.application_data = 1 /\ ~e'.failed =>
           e'.outbuf = <<>>
  PROVE  SInv'
<1>1. /\ NoCall.op = "none" /\ NoCall.at = "none" /\ "none" \notin Ops
      /\ NoReturn.op = "none" /\ NoReturn.rc = 0
      /\ call'.op = op /\ call'.at = at /\ call'.left = left /\ call'.rc = 0
  BY DEF NoCall, NoReturn, Ops
<1>2. Typed'
  BY <1>1 DEF SInv, Typed, NoReturn
<1>3. Calls'
  BY <1>1 DEF Calls
<1>4. Flushed'
  BY <1>1 DEF Flushed, FlushSends
<1> QED
  BY <1>2, <1>3, <1>4 DEF SInv

\* Where the application has closed, the engine stays on its way to the end.
LEMMA ShutStays ==
  ASSUME Shut(e), ~e.running,
         e'.failed \/ (e'.pc = e.pc /\ (e.failed => e'.failed))
  PROVE  Shut(e')
BY DEF Shut

LEMMA IncomingStays ==
  ASSUME Incoming, e'.inbuf = e.inbuf, e'.record_type_in = e.record_type_in,
         e.failed => e'.failed,
         hist'.came = hist.came, hist'.read = hist.read
  PROVE  Incoming'
BY DEF Incoming

LEMMA RunUntilKeeps ==
  ASSUME SInv, run_until
  PROVE  SInv'
<1>1. /\ call.at = "run" /\ ~e.running /\ UNCHANGED <<up, hist>>
      /\ call.op \in Ops /\ Typed /\ EngineOk /\ Incoming /\ call.rc \in {-1, 0}
      /\ hist \in [written : Nat, gone : Nat, came : Nat, read : Nat]
      /\ call.op \in {"read", "write"} => call.left >= 1
  BY DEF run_until, At, SInv, Typed, Calls, NoCall
<1>2. ASSUME e' = e PROVE EngineOk' /\ Incoming'
  BY <1>1, <1>2, EngineQuiet, IncomingStays
<1>3. CASE e.failed
  <2>1. Ran(-1) /\ e' = e
    BY <1>3, States DEF run_until
  <2>2. Typed' /\ call'.op = call.op /\ call'.at = "ran" /\ call'.rc = -1
        /\ call'.left = call.left
    BY <1>1, <2>1, CallGoes DEF Ran
  <2> QED
    BY <1>1, <1>2, <1>3, <2>1, <2>2, GoesOnKeeps DEF Ran, Shut
<1>4. CASE ~e.failed /\ sendrec_open(e)
  <2>1. Goon("low_write") /\ e' = e
    BY <1>4, States DEF run_until
  <2>2. Typed' /\ call'.op = call.op /\ call'.at = "low_write"
        /\ call'.left = call.left
    BY <1>1, <2>1, CallGoes DEF Goon
  <2> QED
    BY <1>1, <1>2, <1>4, <2>1, <2>2, GoesOnKeeps
       DEF Goon, SInv, Calls, Flushed
<1>5. CASE /\ ~e.failed /\ ~sendrec_open(e)
           /\ State \cap Target[call.op] # {}
  <2>1. Ran(0) /\ e' = e
    BY <1>5, States DEF run_until
  <2>2. Typed' /\ call'.op = call.op /\ call'.at = "ran" /\ call'.rc = 0
        /\ call'.left = call.left
    BY <1>1, <2>1, CallGoes DEF Ran
  <2>3. /\ call.op = "read" => recvapp_open(e)
        /\ call.op = "write" => sendapp_open(e)
        /\ call.op = "flush" => sendapp_open(e) \/ recvapp_open(e)
    BY <1>5, States DEF Target, Ops
  <2>4. call.op = "flush" => hist.gone = hist.written
    <3> SUFFICES ASSUME call.op = "flush" PROVE hist.gone = hist.written
      OBVIOUS
    <3>1. e.application_data = 1 /\ e.outrec = NoRec
      BY <1>5, <2>3, Opens
    <3>2. e.outbuf = <<>>
      BY <1>5, <3>1 DEF SInv, Flushed
    <3> QED
      BY <1>1, <3>1, <3>2, EngineFacts
  <2> QED
    BY <1>1, <1>2, <2>1, <2>2, <2>3, <2>4, GoesOnKeeps
       DEF Ran, SInv, Calls, Flushed
<1>6. CASE /\ ~e.failed /\ ~sendrec_open(e)
           /\ State \cap Target[call.op] = {} /\ recvapp_open(e)
  <2>1. Ran(-1) /\ e' = e
    BY <1>6, States DEF run_until
  <2>2. Typed' /\ call'.op = call.op /\ call'.at = "ran" /\ call'.rc = -1
        /\ call'.left = call.left
    BY <1>1, <2>1, CallGoes DEF Ran
  <2> QED
    BY <1>1, <1>2, <2>1, <2>2, GoesOnKeeps DEF Ran, SInv, Calls, Flushed
<1>7. CASE /\ ~e.failed /\ ~sendrec_open(e)
           /\ State \cap Target[call.op] = {} /\ ~recvapp_open(e)
           /\ recvrec_open(e)
  <2>1. Goon("low_read") /\ e' = e
    BY <1>7, States DEF run_until
  <2>2. Typed' /\ call'.op = call.op /\ call'.at = "low_read"
        /\ call'.left = call.left
    BY <1>1, <2>1, CallGoes DEF Goon
  <2> QED
    BY <1>1, <1>2, <1>7, <2>1, <2>2, GoesOnKeeps
       DEF Goon, SInv, Calls, Flushed
<1>8. CASE /\ ~e.failed /\ ~sendrec_open(e)
           /\ State \cap Target[call.op] = {} /\ ~recvapp_open(e)
           /\ ~recvrec_open(e)
  <2>1. e' = br_ssl_engine_flush(e, FALSE) /\ UNCHANGED <<call, last>>
    BY <1>8, States DEF run_until
  <2>2. /\ EngineOk' /\ Same(e, e') /\ ~e'.running
        /\ ~e.failed /\ e.application_data = 1 => e'.outbuf = <<>>
        /\ e'.outbuf \in {<<>>, e.outbuf}
    BY <1>1, <2>1, FlushEffect
  <2>3. Incoming'
    BY <1>1, <2>2, IncomingStays DEF Same
  <2>4. Typed'
    BY <1>1, <2>1 DEF Typed
  <2>5. call.op = "close" => Shut(e')
    BY <1>1, <2>2, ShutStays DEF Same, SInv, Calls
  <2>6. call.op = "flush" /\ e'.application_data = 1 /\ ~e'.failed =>
          e'.outbuf = <<>>
    BY <2>2 DEF Same
  <2> QED
    BY <1>1, <2>1, <2>2, <2>3, <2>4, <2>5, <2>6, GoesOnKeeps
<1> QED
  BY <1>3, <1>4, <1>5, <1>6, <1>7, <1>8

LEMMA LowWriteKeeps ==
  ASSUME SInv, LowWrite
  PROVE  SInv'
<1>1. /\ call.at = "low_write" /\ ~e.running /\ sendrec_open(e)
      /\ e' = br_ssl_engine_sendrec_ack(e) /\ Goon("run")
      /\ call.op \in Ops /\ Typed /\ EngineOk /\ Incoming /\ call.rc \in {-1, 0}
      /\ call.op \in {"read", "write"} => call.left >= 1
      /\ hist' = [hist EXCEPT
           !.gone = @ + Cardinality(DataPlaces(e.outrec.units))]
  BY DEF LowWrite, At, SInv, Typed, Calls, NoCall
<1>2. /\ EngineOk' /\ Same(e, e') /\ e'.outbuf = <<>>
      /\ hist'.gone = hist.written /\ hist'.written = hist.written
      /\ hist'.came = hist.came /\ hist'.read = hist.read
  BY <1>1, SendEffect
<1>3. hist' \in [written : Nat, gone : Nat, came : Nat, read : Nat]
  <2>1. hist' = [hist EXCEPT !.gone = hist.written]
    BY <1>1, <1>2 DEF Typed
  <2> QED
    BY <1>1, <2>1 DEF Typed
<1>4. Typed' /\ call'.op = call.op /\ call'.at = "run" /\ call'.left = call.left
  BY <1>1, <1>3, CallGoes DEF Goon
<1>5. Incoming'
  BY <1>1, <1>2, IncomingStays DEF Same
<1>6. call.op = "close" => Shut(e')
  BY <1>1, <1>2, ShutStays DEF Same, SInv, Calls
<1> QED
  BY <1>1, <1>2, <1>4, <1>5, <1>6, GoesOnKeeps DEF Goon

\* The callbacks fail.
LEMMA ErrorKeeps ==
  ASSUME SInv, LowWriteError \/ LowReadError
  PROVE  SInv'
<1>1. /\ ~e.running /\ Ran(-1) /\ hist' = hist
      /\ call.op \in Ops /\ Typed /\ EngineOk /\ Incoming
      /\ call.op \in {"read", "write"} => call.left >= 1
      /\ hist \in [written : Nat, gone : Nat, came : Nat, read : Nat]
      /\ e' = e \/ e' = br_ssl_engine_fail(e, "io")
  BY DEF LowWriteError, LowReadError, At, SInv, Typed, Calls, NoCall
<1>2. Typed' /\ call'.op = call.op /\ call'.at = "ran" /\ call'.rc = -1
      /\ call'.left = call.left
  BY <1>1, CallGoes DEF Ran
<1>3. CASE e' = e
  <2>1. EngineOk' /\ Incoming'
    BY <1>1, <1>3, EngineQuiet, IncomingStays
  <2> QED
    BY <1>1, <1>2, <1>3, <2>1, GoesOnKeeps DEF Ran, SInv, Calls, Flushed
<1>4. CASE e' = br_ssl_engine_fail(e, "io")
  <2>1. /\ EngineOk' /\ e'.failed /\ ~e'.running
        /\ e'.inbuf = e.inbuf /\ e'.record_type_in = e.record_type_in
    BY <1>1, <1>4, FailEffect
  <2>2. Incoming'
    BY <1>1, <2>1, IncomingStays
  <2> QED
    BY <1>1, <1>2, <2>1, <2>2, GoesOnKeeps DEF Ran, Shut
<1> QED
  BY <1>1, <1>3, <1>4

LEMMA LowReadKeeps ==
  ASSUME SInv, NEW r \in Records, LowRead(r)
  PROVE  SInv'
<1> DEFINE more == IF r.type = "app" /\ e.application_data = 1
                   THEN Len(r.units) ELSE 0
<1>1. /\ call.at = "low_read" /\ ~e.running /\ recvrec_open(e)
      /\ e' = br_ssl_engine_recvrec_ack(e, r.type, r.units) /\ Goon("run")
      /\ call.op \in Ops /\ Typed /\ EngineOk /\ Incoming /\ call.rc \in {-1, 0}
      /\ call.op \in {"read", "write"} => call.left >= 1
      /\ hist' = [hist EXCEPT !.came = @ + more]
  BY DEF LowRead, At, SInv, Typed, Calls, NoCall
<1>2. /\ r.units \in Seq(InUnits) /\ <<>> \in Seq(InUnits) /\ more \in Nat
      /\ r.type # "app" => more = 0
  BY SslIoAssumption
<1>3. /\ hist'.written = hist.written /\ hist'.gone = hist.gone
      /\ hist'.read = hist.read /\ hist'.came = hist.came + more
      /\ hist' \in [written : Nat, gone : Nat, came : Nat, read : Nat]
  <2>1. hist \in [written : Nat, gone : Nat, came : Nat, read : Nat]
    BY <1>1 DEF Typed
  <2>2. more \in Nat
    BY <1>2
  <2>3. hist' = [hist EXCEPT !.came = hist.came + more]
    BY <1>1
  <2> HIDE DEF more
  <2> QED
    BY <2>1, <2>2, <2>3
<1>4. /\ EngineOk'
      /\ e'.pc = e.pc /\ e'.application_data = e.application_data
      /\ e'.outbuf = e.outbuf /\ e'.record_type_in = r.type
      /\ ~e'.failed /\ r.type = "app" =>
           e'.inbuf = IF e.application_data = 1 THEN r.units ELSE <<>>
      /\ e'.inbuf \in {r.units, <<>>}
  BY <1>1, <1>3, RecvEffect
<1>5. /\ e.inbuf = <<>> /\ ~e.failed /\ hist.came = hist.read
  <2>1. e.inbuf = <<>> /\ ~e.failed
    BY <1>1, Opens
  <2>2. hist.came = hist.read + 0
    BY <1>1, <2>1 DEF Incoming
  <2> QED
    BY <1>1, <2>1, <2>2 DEF Typed
<1>6. Incoming'
  <2>1. ASSUME ~e'.failed
        PROVE  hist'.came = hist'.read +
                 IF e'.record_type_in = "app" THEN Len(e'.inbuf) ELSE 0
    <3>1. CASE r.type = "app"
      <4>1. Len(e'.inbuf) = more
        BY <1>4, <2>1, <3>1
      <4> HIDE DEF more
      <4> QED
        BY <1>3, <1>4, <1>5, <3>1, <4>1
    <3>2. CASE r.type # "app"
      BY <1>1, <1>2, <1>3, <1>4, <1>5, <3>2 DEF Typed
    <3> QED
      BY <3>1, <3>2
  <2>2. e'.inbuf \in Seq(InUnits)
    BY <1>2, <1>4
  <2> QED
    BY <2>1, <2>2 DEF Incoming
<1> HIDE DEF more
<1>7. Typed' /\ call'.op = call.op /\ call'.at = "run" /\ call'.left = call.left
  BY <1>1, <1>3, CallGoes DEF Goon
<1>8. call.op = "close" => Shut(e')
  BY <1>1, <1>4, <1>5 DEF Shut, SInv, Calls
<1>9. call.op = "flush" /\ e'.application_data = 1 /\ ~e'.failed =>
        e'.outbuf = <<>>
  BY <1>4, <1>5 DEF SInv, Flushed
<1> QED
  BY <1>1, <1>4, <1>6, <1>7, <1>8, <1>9, GoesOnKeeps DEF Goon

\* The beginning of a record, or no record.
LEMMA LowReadOtherKeeps ==
  ASSUME SInv, NEW type, LowReadPart(type) \/ LowReadBad
  PROVE  SInv'
<1>1. /\ ~e.running /\ recvrec_open(e) /\ Goon("run") /\ hist' = hist
      /\ call.op \in Ops /\ Typed /\ EngineOk /\ Incoming /\ call.rc \in {-1, 0}
      /\ call.op \in {"read", "write"} => call.left >= 1
      /\ hist \in [written : Nat, gone : Nat, came : Nat, read : Nat]
  BY DEF LowReadPart, LowReadBad, At, SInv, Typed, Calls, NoCall
<1>2. Typed' /\ call'.op = call.op /\ call'.at = "run" /\ call'.left = call.left
  BY <1>1, CallGoes DEF Goon
<1>3. Shape(e) /\ e.inbuf = <<>> /\ ~e.failed
  BY <1>1, EngineFacts, Opens
<1>4. CASE LowReadPart(type)
  <2> DEFINE s == [e EXCEPT !.part = TRUE, !.record_type_in = type]
  <2>1. e' = s
    BY <1>4 DEF LowReadPart
  <2>2. /\ Shape(s) /\ Agree(e, s) /\ s.hout = e.hout /\ s.running = e.running
        /\ s.hin = e.hin /\ s.took = e.took /\ s.inbuf = <<>>
    BY <1>3 DEF Shape, Fields, Agree
  <2> HIDE DEF s
  <2>3. EngineOk'
    BY <1>1, <2>1, <2>2, InputEffect
  <2>4. Incoming'
    <3>1. hist.came = hist.read + 0
      BY <1>1, <1>3 DEF Incoming
    <3> QED
      BY <1>1, <2>1, <2>2, <3>1 DEF Incoming
  <2>5. call.op = "close" => Shut(e')
    BY <1>1, <2>1, <2>2, ShutStays DEF Agree, SInv, Calls
  <2> QED
    BY <1>1, <1>2, <1>3, <2>1, <2>2, <2>3, <2>4, <2>5, GoesOnKeeps
       DEF Goon, Agree, SInv, Flushed
<1>5. CASE LowReadBad
  <2>1. e' = br_ssl_engine_fail(e, "record")
    BY <1>5 DEF LowReadBad
  <2>2. /\ EngineOk' /\ e'.failed /\ ~e'.running
        /\ e'.inbuf = e.inbuf /\ e'.record_type_in = e.record_type_in
    BY <1>1, <2>1, FailEffect
  <2>3. Incoming'
    BY <1>1, <2>2, IncomingStays
  <2> QED
    BY <1>1, <1>2, <2>2, <2>3, GoesOnKeeps DEF Goon, Shut
<1> QED
  BY <1>4, <1>5

\* What has been copied: the call goes on or returns.
LEMMA CopiedKeeps ==
  ASSUME SInv, call.op \in {"read", "write"}, call.at = "ran",
         NEW n \in Nat, Copied(n), EngineOk', Incoming', ~e'.running,
         hist' \in [written : Nat, gone : Nat, came : Nat, read : Nat]
  PROVE  SInv'
<1>1. call.op \in Ops /\ call.left \in Nat /\ Typed
  BY DEF Ops, SInv, Typed
<1>2. CASE call.all /\ n < call.left
  <2>1. /\ call' = [call EXCEPT !.at = "run", !.left = call.left - n]
        /\ last' = last
    BY <1>2 DEF Copied
  <2>2. call.left - n \in Nat /\ call.left - n >= 1
    BY <1>1, <1>2
  <2>3. /\ call'.op = call.op /\ call'.at = "run"
        /\ call'.left = call.left - n
    BY <1>1, <2>1 DEF Typed
  <2>4. Typed'
    BY <1>1, <2>1, <2>2 DEF Typed
  <2> QED
    BY <1>1, <2>1, <2>2, <2>3, <2>4, GoesOnKeeps
<1>3. CASE ~(call.all /\ n < call.left)
  <2>1. Return(IF call.all THEN 0 ELSE n)
    BY <1>3 DEF Copied
  <2> QED
    BY <1>1, <2>1, ReturnKeeps
<1> QED
  BY <1>2, <1>3

LEMMA ReadKeeps ==
  ASSUME SInv, br_sslio_read
  PROVE  SInv'
<1>1. /\ call.at = "ran" /\ call.op = "read" /\ ~e.running /\ call.op \in Ops
      /\ Typed /\ EngineOk /\ Incoming /\ call.left \in Nat /\ call.rc \in {-1, 0}
      /\ hist \in [written : Nat, gone : Nat, came : Nat, read : Nat]
  BY DEF br_sslio_read, At, SInv, Typed, Ops
<1>2. CASE call.rc < 0
  <2>1. Return(-1) /\ e' = e /\ hist' = hist
    BY <1>2 DEF br_sslio_read
  <2>2. EngineOk' /\ Incoming'
    BY <1>1, <2>1, EngineQuiet, IncomingStays
  <2> QED
    BY <1>1, <2>1, <2>2, ReturnKeeps
<1>3. CASE ~(call.rc < 0)
  <2> DEFINE n == Least(Len(e.inbuf), call.left)
             rest == SubSeq(e.inbuf, n + 1, Len(e.inbuf))
             s == [e EXCEPT !.inbuf = rest]
  <2>1. /\ recvapp_open(e) /\ e.record_type_in = "app" /\ ~e.failed
        /\ Shape(e) /\ e.inbuf \in Seq(InUnits)
    BY <1>1, <1>3, EngineFacts, Opens DEF SInv, Calls, Incoming
  <2>2. n \in Nat /\ n <= Len(e.inbuf)
    BY <1>1, <2>1 DEF Least
  <2>3. e' = s /\ hist' = [hist EXCEPT !.read = @ + n] /\ Copied(n)
    BY <1>3 DEF br_sslio_read
  <2> HIDE DEF n
  <2>4. rest \in Seq(InUnits) /\ Len(rest) = Len(e.inbuf) - n
    BY <2>1, <2>2, SubSeqProperties
  <2> HIDE DEF rest
  <2>5. /\ Shape(s) /\ Agree(e, s) /\ s.hout = e.hout /\ s.running = e.running
        /\ s.hin = e.hin /\ s.took = e.took /\ s.inbuf = rest
        /\ s.record_type_in = e.record_type_in
    BY <2>1 DEF Shape, Fields, Agree
  <2> HIDE DEF s
  <2>6. /\ hist'.written = hist.written /\ hist'.gone = hist.gone
        /\ hist'.came = hist.came /\ hist'.read = hist.read + n
        /\ hist' \in [written : Nat, gone : Nat, came : Nat, read : Nat]
    BY <1>1, <2>2, <2>3
  <2>7. EngineOk'
    BY <1>1, <2>3, <2>5, <2>6, InputEffect
  <2>8. Incoming'
    <3>1. hist.came = hist.read + Len(e.inbuf)
      BY <1>1, <2>1 DEF Incoming
    <3>2. Len(e.inbuf) \in Nat /\ hist.read \in Nat
      BY <1>1, <2>1
    <3>3. hist'.came = hist'.read + Len(rest)
      BY <2>2, <2>4, <2>6, <3>1, <3>2
    <3> QED
      BY <2>1, <2>3, <2>4, <2>5, <3>3 DEF Incoming
  <2> QED
    BY <1>1, <2>2, <2>3, <2>5, <2>6, <2>7, <2>8, CopiedKeeps
<1> QED
  BY <1>2, <1>3

LEMMA WriteKeeps ==
  ASSUME SInv, br_sslio_write
  PROVE  SInv'
<1>1. /\ call.at = "ran" /\ call.op = "write" /\ ~e.running /\ call.op \in Ops
      /\ Typed /\ EngineOk /\ Incoming /\ call.left \in Nat /\ call.left >= 1
      /\ call.rc \in {-1, 0}
      /\ hist \in [written : Nat, gone : Nat, came : Nat, read : Nat]
  BY DEF br_sslio_write, At, SInv, Typed, Calls, Ops
<1>2. CASE call.rc < 0
  <2>1. Return(-1) /\ e' = e /\ hist' = hist
    BY <1>2 DEF br_sslio_write
  <2>2. EngineOk' /\ Incoming'
    BY <1>1, <2>1, EngineQuiet, IncomingStays
  <2> QED
    BY <1>1, <2>1, <2>2, ReturnKeeps
<1>3. CASE ~(call.rc < 0)
  <2> DEFINE n == Least(OutRoom - Len(e.outbuf), call.left)
  <2>1. sendapp_open(e) /\ e.outrec = NoRec
    BY <1>1, <1>3, Opens DEF SInv, Calls
  <2>2. Len(e.outbuf) \in Nat
    <3>1. PICK h : Fine(e, h)
      BY <1>1 DEF EngineOk
    <3>2. h.written \in Nat /\ h.gone \in Nat /\ h.gone <= h.written
          /\ e.outbuf = DataFrom(h.written, h.gone)
      BY <2>1, <3>1 DEF Fine, Core, Stream, Owed, Holds
    <3> QED
      BY <3>2, DataIsData
  <2>3. n \in Nat /\ n # 0 /\ n <= OutRoom - Len(e.outbuf)
    BY <1>1, <2>2, EngineAssumption DEF Least, EngineOk
  <2>4. /\ e' = sendpld_ack(e, [k \in 1..n |-> AppData(hist.written + k)])
        /\ hist' = [hist EXCEPT !.written = @ + n] /\ Copied(n)
    BY <1>3 DEF br_sslio_write
  <2> HIDE DEF n
  <2>5. /\ hist'.written = hist.written + n /\ hist'.gone = hist.gone
        /\ hist'.came = hist.came /\ hist'.read = hist.read
        /\ hist' \in [written : Nat, gone : Nat, came : Nat, read : Nat]
    BY <1>1, <2>3, <2>4
  <2>6. EngineOk' /\ Same(e, e') /\ ~e'.running
    BY <1>1, <2>1, <2>3, <2>4, <2>5, WriteEffect
  <2>7. Incoming'
    BY <1>1, <2>5, <2>6, IncomingStays DEF Same
  <2> QED
    BY <1>1, <2>3, <2>4, <2>5, <2>6, <2>7, CopiedKeeps
<1> QED
  BY <1>2, <1>3

\* A flush returns, a closure goes round its loop.
LEMMA FlushKeeps ==
  ASSUME SInv, br_sslio_flush
  PROVE  SInv'
<1>1. /\ call.at = "ran" /\ call.op = "flush" /\ ~e.running /\ call.op \in Ops
      /\ Return(call.rc) /\ e' = e /\ hist' = hist /\ call.rc \in {-1, 0}
      /\ hist \in [written : Nat, gone : Nat, came : Nat, read : Nat]
      /\ EngineOk /\ Incoming
  BY DEF br_sslio_flush, At, SInv, Typed, Ops
<1>2. EngineOk' /\ Incoming'
  BY <1>1, EngineQuiet, IncomingStays
<1>3. call.rc = 0 => hist.gone = hist.written
  BY <1>1 DEF SInv, Calls
<1>4. call.rc \in Int
  BY <1>1
<1> QED
  BY <1>1, <1>2, <1>3, <1>4, ReturnKeeps

LEMMA CloseKeeps ==
  ASSUME SInv, br_sslio_close
  PROVE  SInv'
<1>1. /\ call.at = "closing" /\ call.op = "close" /\ ~e.running
      /\ call.op \in Ops /\ e' = e /\ hist' = hist /\ call.rc \in {-1, 0}
      /\ hist \in [written : Nat, gone : Nat, came : Nat, read : Nat]
      /\ Typed /\ EngineOk /\ Incoming
  BY DEF br_sslio_close, At, SInv, Typed, Calls, Ops
<1>2. EngineOk' /\ Incoming'
  BY <1>1, EngineQuiet, IncomingStays
<1>3. CASE e.failed
  <2>1. PICK rc \in {0, 1} : Return(rc)
    BY <1>3, States DEF br_sslio_close
  <2>2. rc \in Int
    BY <2>1
  <2> QED
    BY <1>1, <1>2, <2>1, <2>2, ReturnKeeps
<1>4. CASE ~e.failed
  <2>1. Goon("run")
    BY <1>4, States DEF br_sslio_close
  <2>2. Typed' /\ call'.op = call.op /\ call'.at = "run"
        /\ call'.left = call.left
    BY <1>1, <2>1, CallGoes DEF Goon
  <2> QED
    BY <1>1, <1>2, <2>1, <2>2, GoesOnKeeps DEF Goon, SInv, Calls
<1> QED
  BY <1>3, <1>4

\* While it closes, the application does not have the floor: nothing that the
\* application could still read is there to be discarded.
LEMMA DiscardKeeps ==
  ASSUME SInv, Discard
  PROVE  SInv'
<1>1. /\ call.at = "ran" /\ call.op = "close" /\ ~e.running
      /\ call.op \in Ops /\ Goon("closing") /\ hist' = hist
      /\ call.rc \in {-1, 0}
      /\ hist \in [written : Nat, gone : Nat, came : Nat, read : Nat]
      /\ Typed /\ EngineOk /\ Incoming
  BY DEF Discard, At, SInv, Typed, Ops
<1>2. e.failed \/ e.application_data # 1
  <2>1. e.failed \/ e.pc \in {"close_room", "close_wait"}
    BY <1>1 DEF SInv, Calls, Shut, EngineOk, Closing
  <2> QED
    BY <1>1, <2>1, EngineFacts
<1>3. e' = e
  BY <1>2, Opens DEF Discard
<1>4. EngineOk' /\ Incoming'
  BY <1>1, <1>3, EngineQuiet, IncomingStays
<1>5. Typed' /\ call'.op = call.op /\ call'.at = "closing"
      /\ call'.left = call.left
  BY <1>1, CallGoes DEF Goon
<1> QED
  BY <1>1, <1>3, <1>4, <1>5, GoesOnKeeps DEF Goon, SInv, Calls

LEMMA HsRunKeeps ==
  ASSUME SInv, HsRun
  PROVE  SInv'
<1>1. /\ e.running /\ e' = HsStep(e) /\ UNCHANGED <<call, up, last, hist>>
      /\ EngineOk /\ Incoming /\ Typed
  BY DEF HsRun, SInv
<1>2. /\ EngineOk' /\ Kept(e, e') /\ Moves(e, e')
      /\ e'.outbuf \in {<<>>, e.outbuf}
      /\ Shut(e) => Shut(e')
  BY <1>1, RunEffect
<1>3. ~e.failed
  BY <1>1, EngineFacts
<1>4. Incoming'
  BY <1>1, <1>2, <1>3 DEF Incoming, Kept
<1>5. Typed'
  BY <1>1 DEF Typed
<1>6. Calls'
  BY <1>1, <1>2 DEF SInv, Calls
<1>7. Flushed'
  <2> SUFFICES ASSUME call.op = "flush", e'.application_data = 1, ~e'.failed
               PROVE  e'.outbuf = <<>>
    BY <1>1 DEF SInv, Flushed, FlushSends
  <2>1. e.application_data = 1 \/ e.pc = "open"
    BY <1>2 DEF Moves
  <2>2. e.outbuf = <<>>
    BY <1>1, <1>3, <2>1, EngineFacts DEF SInv, Flushed
  <2> QED
    BY <1>2, <2>2
<1> QED
  BY <1>2, <1>4, <1>5, <1>6, <1>7 DEF SInv

\* The application makes its next call.
LEMMA BeginKeeps ==
  ASSUME SInv, Begin \/ BeginFlush \/ BeginClose
  PROVE  SInv'
<1>1. /\ ~e.running /\ last' = NoReturn /\ hist' = hist
      /\ EngineOk /\ Incoming /\ Typed
      /\ {"read", "write", "flush", "close"} \subseteq Ops
      /\ FALSE \in BOOLEAN /\ 0 \in Nat
  BY DEF Begin, BeginFlush, BeginClose, SInv, Ops
<1>2. CASE Begin
  <2>1. PICK len \in Lengths, all \in BOOLEAN :
          call' = Call("read", all, len) \/ call' = Call("write", all, len)
    BY <1>2 DEF Begin
  <2>2. len \in Nat /\ len >= 1
    BY SslIoAssumption
  <2>3. PICK op \in {"read", "write"} :
          call' = [op |-> op, all |-> all, at |-> "run", left |-> len, rc |-> 0]
    BY <2>1 DEF Call
  <2>4. e' = e
    BY <1>2 DEF Begin
  <2>5. EngineOk' /\ Incoming'
    BY <1>1, <2>4, EngineQuiet, IncomingStays
  <2> QED
    BY <1>1, <2>2, <2>3, <2>5, CallKeeps
<1>3. CASE BeginFlush
  <2>1. /\ e' = br_ssl_engine_flush(e, FALSE)
        /\ call' = [op |-> "flush", all |-> FALSE, at |-> "run", left |-> 0,
                    rc |-> 0]
    BY <1>3 DEF BeginFlush, Call
  <2>2. /\ EngineOk' /\ Same(e, e') /\ ~e'.running
        /\ ~e.failed /\ e.application_data = 1 => e'.outbuf = <<>>
    BY <1>1, <2>1, FlushEffect
  <2>3. Incoming'
    BY <1>1, <2>2, IncomingStays DEF Same
  <2>4. e'.application_data = 1 /\ ~e'.failed => e'.outbuf = <<>>
    BY <2>2 DEF Same
  <2> QED
    BY <1>1, <2>1, <2>2, <2>3, <2>4, CallKeeps
<1>4. CASE BeginClose
  <2>1. call' = [op |-> "close", all |-> FALSE, at |-> "closing", left |-> 0,
                 rc |-> 0]
    BY <1>4 DEF BeginClose, Call
  <2>2. EngineOk' /\ Incoming' /\ Shut(e')
    <3>1. CASE e.failed
      <4>1. e' = e
        BY <1>4, <3>1 DEF BeginClose
      <4> QED
        BY <1>1, <3>1, <4>1, EngineQuiet, IncomingStays DEF Shut
    <3>2. CASE ~e.failed
      <4>1. e' = jump_handshake(e, 1)
        BY <1>4, <3>2 DEF BeginClose
      <4>2. EngineOk' /\ Same(e, e') /\ Shut(e')
        BY <1>1, <3>2, <4>1, JumpEffect
      <4> QED
        BY <1>1, <4>2, IncomingStays DEF Same
    <3> QED
      BY <3>1, <3>2
  <2> QED
    BY <1>1, <2>1, <2>2, CallKeeps
<1> QED
  BY <1>2, <1>3, <1>4

LEMMA InitHolds ==
  ASSUME Init
  PROVE  SInv
<1>1. /\ e = InitEngine /\ call = NoCall /\ last = NoReturn
      /\ hist = [written |-> 0, gone |-> 0, came |-> 0, read |-> 0]
      /\ hist.written = 0 /\ hist.gone = 0 /\ hist.came = 0 /\ hist.read = 0
  BY DEF Init
<1>2. /\ e.running /\ e.record_type_in = "handshake" /\ e.outbuf = <<>>
      /\ ~e.failed /\ e.inbuf = <<>> /\ e.application_data = 0
  BY <1>1 DEF InitEngine, jump_handshake
<1>3. EngineOk
  <2> DEFINE h == History(FALSE, FALSE)
  <2>1. h.written = 0 /\ h.gone = 0 /\ ~h.hello /\ ~h.notified
    BY <1>1 DEF History
  <2>2. Fine(e, h)
    <3> HIDE DEF h
    <3> QED
      BY <1>1, <2>1, InitFine
  <2>3. Len(<<>>) < OutRoom
    BY EngineAssumption
  <2> QED
    BY <1>2, <2>2, <2>3 DEF EngineOk, Unseen
<1>4. Typed
  BY <1>1 DEF Typed, NoCall, NoReturn
<1>5. Incoming
  BY <1>1, <1>2 DEF Incoming
<1>6. Calls /\ Flushed
  BY <1>1 DEF Calls, Flushed, FlushSends, NoCall, NoReturn
<1> QED
  BY <1>3, <1>4, <1>5, <1>6 DEF SInv

LEMMA NextKeeps ==
  ASSUME SInv, [Next]_vars
  PROVE  SInv'
<1>1. ASSUME NEW r \in Records, LowRead(r) \/ LowReadPart(r.type)
      PROVE  SInv'
  BY <1>1, LowReadKeeps, LowReadOtherKeeps
<1>2. CASE UNCHANGED vars
  <2>1. UNCHANGED <<e, call, up, last, hist>>
    BY <1>2 DEF vars
  <2>2. EngineOk' /\ Incoming'
    BY <2>1, EngineQuiet, IncomingStays DEF SInv
  <2>3. Typed' /\ Calls' /\ Flushed'
    BY <2>1 DEF SInv, Typed, Calls, Flushed, FlushSends
  <2> QED
    BY <2>2, <2>3 DEF SInv
<1> QED
  BY <1>1, <1>2, BeginKeeps, RunUntilKeeps, LowWriteKeeps, ErrorKeeps,
     LowReadOtherKeeps, ReadKeeps, WriteKeeps, FlushKeeps, CloseKeeps,
     DiscardKeeps, HsRunKeeps DEF Next, Step

-----------------------------------------------------------------------------

\* The invariant of the wrapper: the engine is one that the handshake processor
\* can have left, with the history of the calls, and each call is where the
\* state of the engine lets it be (ssl_io.c run_until).
THEOREM WrapperInvariant == Spec => []SInv
<1>1. Init => SInv
  BY InitHolds
<1>2. SInv /\ [Next]_vars => SInv'
  BY NextKeeps
<1> QED
  BY <1>1, <1>2, PTL DEF Spec

\* What was written leaves in order, once and whole, and what came is read in
\* the same way, for any lengths and any handshakes between
\* (br_sslio_write, br_sslio_read).
THEOREM StreamsAlwaysKept == Spec => []StreamsKept
<1>1. SInv => StreamsKept
  <2> SUFFICES ASSUME SInv PROVE DataKept(Pending(e), hist.written, hist.gone)
    BY DEF StreamsKept, SInv, Incoming
  <2>1. PICK hello \in BOOLEAN, notified \in BOOLEAN :
          Fine(e, History(hello, notified))
    BY DEF SInv, EngineOk
  <2>2. History(hello, notified).written = hist.written
        /\ History(hello, notified).gone = hist.gone
    BY HistoryOf
  <2> QED
    BY <2>1, <2>2, PendingKept
<1> QED
  BY <1>1, WrapperInvariant, PTL

\* br_sslio_flush returns 0 only when all that was written has left, whatever
\* handshake or closure it meets (br_sslio_flush, run_until).
THEOREM FlushAlwaysSends == Spec => []FlushSends
<1>1. SInv => FlushSends
  BY DEF SInv, Flushed
<1> QED
  BY <1>1, WrapperInvariant, PTL

==============================================================================
