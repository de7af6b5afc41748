--------------------------- MODULE ConnectionProofs ---------------------------
(***************************************************************************)
(* The streaming API and the exchanges, for every peer and every sequence  *)
(* of calls. The engine keeps Fine and Ready of HsClientProofs; the        *)
(* history of the connection is its history. On top of them stand: where a *)
(* call may be (Calls), which Finished messages the engine may still wait  *)
(* for (Finishes), how a closed connection, the socket and the engine go   *)
(* together (Nets), what has left when the connection closes (Dues), where *)
(* application data may wait (Delivered), and what an exchange has sent,   *)
(* read and still to read (XCalls, XCounts).                               *)
(***************************************************************************)
EXTENDS TextExchange, HsClientProofs

History(hello, notified) ==
  [written |-> hist.accepted, gone |-> hist.gone, hello |-> hello,
   notified |-> notified, early |-> TRUE]

Typed ==
  /\ conn \in [live : BOOLEAN, closed : BOOLEAN]
  /\ net \in {"up", "eof", "down"}
  /\ call \in [op : Ops \cup {"none"},
               at : {"none", "loop", "send", "recv", "driven", "closing",
                     "free"},
               len : Nat, sent : Nat, ok : BOOLEAN]
  /\ last \in [op : Ops \cup {"none"}, ok : BOOLEAN, n : Nat]
  /\ hist \in [accepted : Nat, due : Nat, gone : Nat, finOut : BOOLEAN,
               finIn : BOOLEAN]

\* The engine.
EngineOk ==
  /\ \E hello, notified \in BOOLEAN : Fine(e, History(hello, notified))
  /\ hist.accepted <= hist.gone + 1
  /\ Unseen(e)
  /\ e.running => e.action = 0 \/ (e.action = 1 /\ call.op = "close")
  /\ ~e.running /\ ~e.failed => e.pc \notin {"handshake", "open", "close"}
  /\ e.record_type_in = "app" => e.inbuf \in Seq(InUnits)

\* Where a call is.
Calls ==
  /\ call.op = "none" <=> call = NoCall
  /\ call.at = "none" <=> call = NoCall
  /\ call = NoCall => ~e.running
  /\ call # NoCall => conn.live /\ last = NoReturn
  /\ ~conn.live => last.op = "close" \/ (last.op = "open" /\ ~last.ok)
  /\ last.op = "close" => ~conn.live
  /\ call.at \in {"closing", "free"} => call.op = "close"
  /\ call.at = "loop" /\ call.op # "open" => ~e.running
  /\ call.at = "free" => ~e.running
  /\ call.at = "recv" =>
       /\ ~e.running /\ recvrec_open(e) /\ OutIdle(e)
       /\ call.op # "close"

\* Which Finished messages are still to come.
Finishes ==
  /\ ~hist.finIn =>
       /\ e.application_data # 1 /\ e.pc \notin {"open", "main", "reject"}
       /\ e.pc \in {"server_done", "client_key", "ccs_out", "finished_out"} =>
            ~e.resume
  /\ ~hist.finOut /\ ~Holds(e, "finished") =>
       /\ e.application_data # 1 /\ e.pc \notin {"open", "main", "reject"}
       /\ e.pc \in {"ccs_in", "finished_in"} => e.resume
  /\ ~hist.finOut /\ ~e.failed =>
       e.inbuf = <<>> \/ e.record_type_in # "app"

\* The connection, the socket and the engine.
Nets ==
  /\ conn.closed => e.failed \/ net # "up"
  /\ conn.closed /\ (\/ call.at \in {"send", "recv"}
                     \/ call.at = "driven" /\ call.ok) => net # "up"
  /\ net = "down" /\ conn.live /\ call.op # "close" =>
       /\ ~e.running
       /\ e.failed \/ sendrec_open(e) \/ recvrec_open(e)
  /\ net = "down" /\ call.at = "send" => ~e.running /\ sendrec_open(e)
  /\ call.at = "driven" /\ call.ok => net # "down"
  /\ call.op = "close" /\ call.at \in {"closing", "send", "driven"} =>
       ~conn.closed
  /\ call.op = "close" /\ call.at = "driven" /\ ~call.ok => net = "down"
  /\ call.op = "read" => call.len >= 1
  /\ call.op = "write" => call.sent <= call.len

\* TLS has failed.
Broken == e.failed /\ e.err # "ok"

\* What has left at the end.
Dues ==
  /\ hist.due <= hist.accepted
  /\ ~conn.closed => hist.due = hist.accepted
  /\ conn.closed \/ call.at = "free" \/ (~conn.live /\ last.op = "close") =>
       Broken \/ net = "down" \/ hist.gone >= hist.due

\* Application data waits for the application alone.
Delivered ==
  call.op # "close" /\ conn.live /\ e.record_type_in = "app" /\ ~Broken =>
    \/ e.inbuf = <<>>
    \/ e.application_data = 1 /\ e.pc = "main" /\ ~e.failed

CInv == Typed /\ EngineOk /\ Calls /\ Finishes /\ Nets /\ Dues /\ Delivered

-----------------------------------------------------------------------------
XTyped ==
  /\ x \in [at : {"none", "opening", "writing", "reading", "closing", "done"},
            request : Nat, size : Nat, len : Nat, ok : BOOLEAN, came : Nat]
  /\ x.at # "none" => x.size >= 2
  /\ x.at \in {"opening", "writing"} => x.len = 0 /\ ~x.ok

\* Where an exchange is.
XCalls ==
  /\ x.at = "none" => x = NoExchange
  /\ x.at = "opening" => "open" \in {call.op, last.op}
  /\ x.at = "writing" => "write" \in {call.op, last.op}
  /\ x.at = "reading" => "read" \in {call.op, last.op}
  /\ x.at = "closing" => "close" \in {call.op, last.op}
  /\ x.at = "done" => /\ call = NoCall
                      /\ x.ok => ~conn.live /\ last.op = "close"
  /\ x.at # "none" =>
       /\ hist.due = hist.accepted
       /\ call.op # "close" /\ call.at \in {"loop", "send", "recv"} =>
            ~conn.closed
       /\ call.op # "close" /\ call.at = "driven" /\ call.ok /\ conn.closed =>
            e.inbuf = <<>> /\ net = "eof" /\ ~e.failed /\ ~e.running
       /\ call = NoCall /\ last.ok /\ (\/ last.op \in {"open", "write"}
                                       \/ last.op = "read" /\ last.n > 0) =>
            ~conn.closed

\* Units that were read and not yet counted; units that wait to be read.
Unread == IF x.at = "reading" /\ call = NoCall THEN last.n ELSE 0
Buffered == IF e.record_type_in = "app" THEN Len(e.inbuf) ELSE 0

\* The response is full, or all of it was read up to the end.
Whole ==
  \/ x.len = x.size - 1 /\ x.came >= x.len
  \/ x.len = x.came /\ (e.shutdown_recv \/ net = "eof") /\ conn.closed

XCounts ==
  /\ x.at = "opening" => hist.accepted = 0
  /\ x.at = "writing" /\ call.op = "write" =>
       hist.accepted = call.sent /\ call.len = x.request
  /\ x.at = "writing" /\ call = NoCall /\ last.ok => hist.accepted = x.request
  /\ x.at = "reading" \/ (x.at \in {"closing", "done"} /\ x.ok) =>
       hist.accepted = x.request
  /\ x.at = "reading" =>
       /\ x.len + Unread <= x.size - 1 /\ x.len < x.size - 1
       /\ call.op = "read" => call.len = x.size - x.len - 1
  /\ x.at \in {"opening", "writing", "reading"} /\ ~Broken =>
       x.came = x.len + Unread + Buffered
  /\ x.at = "reading" /\ call = NoCall /\ last.ok =>
       /\ ~Broken
       /\ IF last.n = 0 THEN Buffered = 0 /\ conn.closed
          ELSE e.record_type_in = "app"
  /\ x.at \in {"closing", "done"} /\ x.ok =>
       /\ Whole /\ ~Broken
       /\ x.at = "closing" => conn.closed \/ e.record_type_in = "app"

XInv == XCalls /\ XCounts

-----------------------------------------------------------------------------
(* What the engine is like.                                                *)

LEMMA NotShared ==
  Shared = FALSE /\ OutRoom = 1
BY ConnectionAssumption

LEMMA States ==
  /\ "CLOSED" \in State <=> e.failed
  /\ "SENDREC" \in State <=> sendrec_open(e)
  /\ "RECVREC" \in State <=> recvrec_open(e)
  /\ "SENDAPP" \in State <=> sendapp_open(e)
  /\ "RECVAPP" \in State <=> recvapp_open(e)
BY DEF State, br_ssl_engine_current_state, sendrec_open, recvrec_open,
   sendapp_open, recvapp_open, sendpld_open, recvpld_open, CanIn, CanOut

LEMMA OpensOf ==
  ASSUME NEW r
  PROVE  /\ sendrec_open(r) <=> ~r.failed /\ r.outrec # NoRec
         /\ recvrec_open(r) <=> ~r.failed /\ ~r.shutdown_recv /\ r.inbuf = <<>>
         /\ sendapp_open(r) <=>
              ~r.failed /\ r.application_data = 1 /\ r.outrec = NoRec
         /\ recvapp_open(r) <=>
              /\ ~r.failed /\ r.application_data = 1
              /\ r.record_type_in = "app" /\ r.inbuf # <<>>
BY NotShared DEF sendrec_open, recvrec_open, sendapp_open, recvapp_open,
   sendpld_open, recvpld_open, CanIn, CanOut

LEMMA Opens ==
  /\ sendrec_open(e) <=> ~e.failed /\ e.outrec # NoRec
  /\ recvrec_open(e) <=> ~e.failed /\ ~e.shutdown_recv /\ e.inbuf = <<>>
  /\ sendapp_open(e) <=>
       ~e.failed /\ e.application_data = 1 /\ e.outrec = NoRec
  /\ recvapp_open(e) <=>
       /\ ~e.failed /\ e.application_data = 1
       /\ e.record_type_in = "app" /\ e.inbuf # <<>>
BY OpensOf

LEMMA EngineFacts ==
  ASSUME EngineOk
  PROVE  /\ Shape(e) /\ e.outbuf = <<>>
         /\ hist.accepted \in Nat /\ hist.gone \in Nat
         /\ hist.gone <= hist.accepted
         /\ e.outrec = NoRec => hist.gone = hist.accepted
         /\ e.failed /\ e.err = "ok" =>
              e.shutdown_recv /\ hist.gone = hist.accepted
         /\ e.failed => ~e.running
         /\ ~e.running => e.hin = <<>> /\ ~e.took
         /\ e.application_data = 1 /\ ~e.running /\ ~e.failed => e.pc = "main"
         /\ e.cnr <=> e.shutdown_recv
         /\ e.cnr => e.pc \in Closing
         /\ e.application_data = 1 => e.pc \notin Silent
<1>1. PICK hello \in BOOLEAN, notified \in BOOLEAN :
        Fine(e, History(hello, notified))
  BY DEF EngineOk
<1> DEFINE h == History(hello, notified)
<1>2. /\ h.written = hist.accepted /\ h.gone = hist.gone /\ h.early = TRUE
  BY DEF History
<1> HIDE DEF h
<1>3. Fine(e, h)
  BY <1>1 DEF h
<1>4. /\ h.written \in Nat /\ h.gone \in Nat /\ h.gone <= h.written
      /\ e.outbuf = <<>>
  BY <1>2, <1>3 DEF Fine, Core, Stream, Pure
<1>5. e.outrec = NoRec => h.gone = h.written
  BY <1>3, <1>4, OwedIsData DEF Fine, Core, Stream, Holds
<1>6. /\ Shape(e) /\ (e.failed => ~e.running)
      /\ (~e.running => e.hin = <<>> /\ ~e.took)
  BY <1>3 DEF Fine, Given
<1>7. /\ e.failed /\ e.err = "ok" => e.shutdown_recv /\ h.gone = h.written
      /\ e.cnr <=> e.shutdown_recv
      /\ e.cnr => e.pc \in Closing
  BY <1>3 DEF Fine, Core, Ended
<1>8. /\ e.application_data = 1 => e.pc \notin Silent
      /\ e.application_data = 1 => e.pc \notin {"close_room", "close_wait"}
      /\ e.pc \in Points
  BY <1>3 DEF Fine, Core, Floor
<1>9. e.application_data = 1 /\ ~e.running /\ ~e.failed => e.pc = "main"
  BY <1>8 DEF EngineOk, Points, Silent, Shakes
<1> QED
  BY <1>2, <1>4, <1>5, <1>6, <1>7, <1>8, <1>9

\* The fields that neither the transport nor a write touches.
Same(r, s) ==
  /\ s.pc = r.pc /\ s.resume = r.resume /\ s.inbuf = r.inbuf
  /\ s.application_data = r.application_data /\ s.part = r.part
  /\ s.record_type_in = r.record_type_in
  /\ s.shutdown_recv = r.shutdown_recv /\ s.cnr = r.cnr
  /\ s.failed = r.failed /\ s.err = r.err

\* A step that does not touch the engine.
LEMMA EngineQuiet ==
  ASSUME EngineOk, UNCHANGED <<e, hist>>, e.running => call'.op = call.op
  PROVE  EngineOk'
BY DEF EngineOk, History

LEMMA JumpSame ==
  ASSUME NEW r, NEW a, Shape(r), ~r.failed
  PROVE  LET s == jump_handshake(r, a)
         IN  /\ Same(r, s) /\ s.running /\ s.action = a /\ s.resumed /\ ~s.took
             /\ s.outrec = r.outrec /\ s.outbuf = r.outbuf /\ Shape(s)
             /\ s.hin \in {<<>>, r.inbuf}
             /\ r.record_type_in = "app" => s.hin = <<>>
             /\ r.record_type_in # "app" /\ ~Shared => s.hin = r.inbuf
BY DEF jump_handshake, Shape, Fields, Same, recvpld_open, CanIn

\* One record leaves, with the unit of data that is owed, if there is one.
LEMMA SendEffect ==
  ASSUME EngineOk, Typed, ~e.running, sendrec_open(e),
         e' = br_ssl_engine_sendrec_ack(e), call'.op = call.op,
         hist' = [hist EXCEPT
           !.gone = @ + IF Carries(e.outrec.units, "data") THEN 1 ELSE 0,
           !.finOut = @ \/ Carries(e.outrec.units, "finished")]
  PROVE  /\ EngineOk' /\ Same(e, e') /\ e'.outrec = NoRec
         /\ hist'.gone = hist.accepted
         /\ Holds(e, "finished") => Carries(e.outrec.units, "finished")
<1>1. PICK hello \in BOOLEAN, notified \in BOOLEAN :
        Fine(e, History(hello, notified))
  BY DEF EngineOk
<1> DEFINE h == History(hello, notified)
           u == e.outrec.units
           hello2 == (hello \/ Holds(e, "client_hello")) /\ ~Holds(e, "finished")
           notified2 == notified \/ Holds(e, "close_notify")
           k == [written |-> hist.accepted, gone |-> hist.accepted,
                 hello |-> hello2, notified |-> notified2, early |-> TRUE]
<1>2. /\ h.written = hist.accepted /\ h.gone = hist.gone /\ h.early = TRUE
      /\ h.hello = hello /\ h.notified = notified
      /\ k.written = hist.accepted /\ k.gone = hist.accepted
      /\ k.hello = hello2 /\ k.notified = notified2 /\ k.early = TRUE
  BY DEF History
<1> HIDE DEF h, k
<1>3. Fine(e, h)
  BY <1>1 DEF h
<1>4. /\ hist.accepted \in Nat /\ hist.gone \in Nat
      /\ hist.gone <= hist.accepted /\ hist.accepted <= hist.gone + 1
      /\ ~e.failed /\ e.outrec # NoRec /\ Shape(e)
  BY EngineFacts, Opens DEF EngineOk
<1>5. \/ u = DataFrom(hist.accepted, hist.gone)
      \/ /\ hist.gone = hist.accepted
         /\ \E m \in Messages : u = <<Message(m)>>
  BY <1>2, <1>3, <1>4 DEF Fine, Core, Stream, Owed, Holds
<1>6. /\ Cardinality(DataPlaces(u)) = hist.accepted - hist.gone
      /\ Carries(u, "data") <=> hist.gone # hist.accepted
  <2>1. CASE u = DataFrom(hist.accepted, hist.gone)
    <3> DEFINE D == DataFrom(hist.accepted, hist.gone)
    <3>1. /\ DataPlaces(D) = 1..(hist.accepted - hist.gone)
          /\ Cardinality(DataPlaces(D)) = hist.accepted - hist.gone
          /\ Len(D) = hist.accepted - hist.gone
      BY <1>4, DataLeaves, DataIsData
    <3>2. \A i \in DataPlaces(D) : D[i].msg = "data"
      BY DEF DataPlaces
    <3> HIDE DEF D
    <3>3. Carries(D, "data") <=> hist.accepted - hist.gone # 0
      BY <1>4, <3>1, <3>2 DEF Carries
    <3> QED
      BY <1>4, <2>1, <3>1, <3>3 DEF D
  <2>2. CASE /\ hist.gone = hist.accepted
             /\ \E m \in Messages : u = <<Message(m)>>
    <3>1. PICK m \in Messages : u = <<Message(m)>>
      BY <2>2
    <3>2. DataPlaces(u) = {} /\ Cardinality({}) = 0
      BY <3>1, MessageLeaves, FS_EmptySet
    <3>3. ~Carries(u, "data")
      <4>1. Len(u) = 1 /\ u[1] = Message(m)
        BY <3>1
      <4>2. Message(m).msg = m /\ m # "data"
        BY DEF Message, Messages
      <4> HIDE DEF u
      <4> QED
        BY <4>1, <4>2 DEF Carries
    <3> QED
      BY <1>4, <2>2, <3>2, <3>3
  <2> QED
    <3> HIDE DEF u
    <3> QED
      BY <1>5, <2>1, <2>2
<1>7. Holds(e, "finished") => Carries(u, "finished")
  <2> SUFFICES ASSUME Holds(e, "finished") PROVE Carries(u, "finished")
    OBVIOUS
  <2>1. u = <<Message("finished")>>
    BY DEF Holds
  <2>2. Len(u) = 1 /\ u[1] = Message("finished")
    BY <2>1
  <2>3. Message("finished").msg = "finished"
    BY DEF Message
  <2> HIDE DEF u
  <2> QED
    BY <2>2, <2>3 DEF Carries
<1>8. Sent(e, h, k)
  <2>1. hist.accepted = hist.gone + Cardinality(DataPlaces(u))
    <3> HIDE DEF u
    <3> QED
      BY <1>4, <1>6
  <2> QED
    BY <1>2, <2>1 DEF Sent
<1> DEFINE sent == [e EXCEPT !.outrec = NoRec]
<1>9. /\ Fine(e', k) /\ e' \in {sent, jump_handshake(sent, 0)}
  BY <1>3, <1>4, <1>8, SentFine
<1>10. /\ Shape(sent) /\ ~sent.failed /\ Same(e, sent) /\ sent.outrec = NoRec
       /\ ~sent.running /\ sent.hin = e.hin /\ sent.took = e.took
  BY <1>4 DEF Shape, Fields, Same
<1> HIDE DEF sent
<1>11. /\ Same(e, e') /\ e'.outrec = NoRec
       /\ e'.running => e'.action = 0
       /\ Unseen(e')
  <2>1. CASE e' = sent
    BY <1>10, <2>1 DEF EngineOk, Unseen, Same
  <2>2. CASE e' = jump_handshake(sent, 0)
    <3> DEFINE j == jump_handshake(sent, 0)
    <3>1. /\ Same(sent, j) /\ j.outrec = sent.outrec /\ j.action = 0 /\ ~j.took
          /\ sent.record_type_in = "app" => j.hin = <<>>
      BY <1>10, JumpSame
    <3>2. e' = j
      BY <2>2
    <3> HIDE DEF j
    <3>3. Same(e, j)
      BY <1>10, <3>1 DEF Same
    <3>4. Unseen(j)
      BY <3>1 DEF Unseen, Same
    <3> QED
      BY <1>10, <3>1, <3>2, <3>3, <3>4
  <2> QED
    BY <1>9, <2>1, <2>2
<1>12. hist'.gone = hist.accepted /\ hist'.accepted = hist.accepted
  <2>1. /\ hist'.gone = hist.gone + (IF Carries(u, "data") THEN 1 ELSE 0)
        /\ hist'.accepted = hist.accepted
    BY DEF Typed
  <2> HIDE DEF u
  <2> QED
    BY <1>4, <1>6, <2>1
<1>13. \E l, n \in BOOLEAN : Fine(e', History(l, n)')
  <2>1. /\ hello2 \in BOOLEAN /\ notified2 \in BOOLEAN
        /\ [written |-> hist'.accepted, gone |-> hist'.gone,
            hello |-> hello2, notified |-> notified2, early |-> TRUE] = k
    BY <1>12 DEF k, Holds
  <2> HIDE DEF hello2, notified2
  <2> QED
    BY <1>9, <2>1 DEF History
<1> QED
  BY <1>4, <1>7, <1>11, <1>12, <1>13 DEF EngineOk, Same

\* The history of an engine, when its own does not change.
LEMMA EngineFine ==
  ASSUME EngineOk
  PROVE  \E hello, notified \in BOOLEAN :
           LET h == History(hello, notified)
           IN  /\ Fine(e, h) /\ h.early
               /\ UNCHANGED hist /\ Fine(e', h) =>
                    \E l, n \in BOOLEAN : Fine(e', History(l, n)')
BY DEF EngineOk, History

\* A record comes in: the processor runs, or the application has the floor
\* and finds it, or it is dropped, or it is an error.
LEMMA RecvEffect ==
  ASSUME EngineOk, ~e.running, recvrec_open(e), NEW r \in Records,
         e' = br_ssl_engine_recvrec_ack(e, r.type, r.units), UNCHANGED hist
  PROVE  /\ EngineOk'
         /\ e'.pc = e.pc /\ e'.resume = e.resume /\ e'.outrec = e.outrec
         /\ e'.application_data = e.application_data /\ ~e'.part
         /\ e'.shutdown_recv = e.shutdown_recv /\ e'.cnr = e.cnr
         /\ e'.record_type_in = r.type
         /\ ~e'.took /\ e'.outbuf = e.outbuf
         /\ IF e'.running THEN e'.resumed ELSE e'.hin = <<>>
         /\ \/ e'.inbuf = <<>> /\ ~e'.running /\ ~e'.failed
            \/ /\ r.type # "app" /\ r.units # <<>> /\ e'.inbuf = r.units
               /\ e'.running /\ ~e'.failed /\ e'.action = 0
               /\ e'.hin = r.units
            \/ /\ r.type = "app" /\ e.application_data = 1
               /\ e'.inbuf = r.units /\ ~e'.running /\ ~e'.failed
            \/ e'.failed /\ e'.err # "ok" /\ ~e'.running
<1>1. PICK hello \in BOOLEAN, notified \in BOOLEAN :
        LET h == History(hello, notified)
        IN  /\ Fine(e, h) /\ h.early
            /\ UNCHANGED hist /\ Fine(e', h) =>
                 \E l, n \in BOOLEAN : Fine(e', History(l, n)')
  BY EngineFine
<1> DEFINE h == History(hello, notified)
           got == [e EXCEPT !.part = FALSE, !.record_type_in = r.type,
                            !.inbuf = r.units]
<1>2. Fine(e, h) /\ Shape(e) /\ e.hin = <<>> /\ ~e.took /\ ~e.failed
  BY <1>1, EngineFacts, Opens
<1>3. Fine(e', h) /\ \E l, n \in BOOLEAN : Fine(e', History(l, n)')
  BY <1>1, <1>2, RecvFine
<1> HIDE DEF h
<1>4. /\ Shape(got) /\ Agree(e, got) /\ ~got.part /\ ~got.running
      /\ got.record_type_in = r.type /\ got.inbuf = r.units
      /\ got.hin = <<>> /\ ~got.took /\ ~got.failed
  BY <1>2 DEF Shape, Fields, Agree
<1>5. r.units \in Seq(InUnits) /\ <<>> \in Seq(InUnits)
  BY ConnectionAssumption
<1>6. e' = CASE r.units = <<>> \/ (r.type = "app" /\ e.application_data = 1) ->
                  got
             [] r.units # <<>> /\ r.type \in {"ccs", "alert", "handshake"} ->
                  jump_handshake(got, 0)
             [] r.units # <<>> /\ r.type = "app" /\ e.application_data = 2 ->
                  [got EXCEPT !.inbuf = <<>>]
             [] OTHER -> br_ssl_engine_fail(got, "unexpected")
  BY DEF br_ssl_engine_recvrec_ack
<1> HIDE DEF got
<1>7. /\ Agree(e, e') \/ e'.failed
      /\ e'.pc = e.pc /\ e'.resume = e.resume /\ e'.outrec = e.outrec
      /\ e'.application_data = e.application_data /\ ~e'.part
      /\ e'.shutdown_recv = e.shutdown_recv /\ e'.cnr = e.cnr
      /\ e'.record_type_in = r.type /\ ~e'.took
      /\ e'.inbuf \in {r.units, <<>>} /\ e'.outbuf = e.outbuf
      /\ e'.running => e'.resumed
      /\ \/ e'.inbuf = <<>> /\ ~e'.running /\ ~e'.failed /\ e'.hin = <<>>
         \/ /\ r.type # "app" /\ r.units # <<>> /\ e'.inbuf = r.units
            /\ e'.running /\ ~e'.failed /\ e'.action = 0
            /\ e'.hin = r.units
         \/ /\ r.type = "app" /\ e.application_data = 1
            /\ e'.inbuf = r.units /\ ~e'.running /\ ~e'.failed
            /\ e'.hin = <<>>
         \/ /\ e'.failed /\ e'.err # "ok" /\ ~e'.running
            /\ e'.hin = <<>>
  <2>1. CASE r.units = <<>> \/ (r.type = "app" /\ e.application_data = 1)
    <3>1. e' = got
      BY <1>6, <2>1
    <3> QED
      BY <1>4, <2>1, <3>1 DEF Agree
  <2>2. CASE r.units # <<>> /\ r.type \in {"ccs", "alert", "handshake"}
    <3> DEFINE j == jump_handshake(got, 0)
    <3>1. e' = j
      BY <1>6, <2>2
    <3>2. /\ Same(got, j) /\ j.running /\ j.action = 0 /\ ~j.took
          /\ j.outrec = got.outrec /\ j.hin = got.inbuf /\ j.resumed
      BY <1>4, <2>2, JumpSame, NotShared
    <3>3. Agree(got, j)
      BY <1>4, JumpGives
    <3> HIDE DEF j
    <3> QED
      BY <1>4, <2>2, <3>1, <3>2, <3>3 DEF Agree, Same
  <2>3. CASE /\ r.units # <<>> /\ r.type = "app"
             /\ e.application_data = 2
    <3>1. e' = [got EXCEPT !.inbuf = <<>>]
      BY <1>6, <2>3
    <3> QED
      BY <1>4, <3>1 DEF Agree, Shape, Fields
  <2>4. CASE /\ r.units # <<>> /\ r.type \notin {"ccs", "alert", "handshake"}
             /\ ~(r.type = "app" /\ e.application_data \in {1, 2})
    <3>1. e' = br_ssl_engine_fail(got, "unexpected")
      BY <1>6, <2>4
    <3>2. e' = [got EXCEPT !.failed = TRUE, !.err = "unexpected"]
      BY <1>4, <3>1 DEF br_ssl_engine_fail
    <3> QED
      BY <1>4, <3>2 DEF Agree, Shape, Fields
  <2> QED
    BY <2>1, <2>2, <2>3, <2>4
<1>8. EngineOk'
  <2>1. Unseen(e')
    BY <1>7 DEF Unseen
  <2> QED
    BY <1>3, <1>5, <1>7, <2>1 DEF EngineOk, Agree
<1> QED
  BY <1>7, <1>8

\* A record begins.
LEMMA PartEffect ==
  ASSUME EngineOk, ~e.running, recvrec_open(e), NEW type,
         e' = [e EXCEPT !.part = TRUE, !.record_type_in = type],
         UNCHANGED hist
  PROVE  /\ EngineOk' /\ Agree(e, e') /\ e'.part
         /\ e'.record_type_in = type /\ e'.inbuf = <<>>
         /\ ~e'.running /\ e'.took = e.took
<1>1. PICK hello \in BOOLEAN, notified \in BOOLEAN :
        LET h == History(hello, notified)
        IN  /\ Fine(e, h) /\ h.early
            /\ UNCHANGED hist /\ Fine(e', h) =>
                 \E l, n \in BOOLEAN : Fine(e', History(l, n)')
  BY EngineFine
<1> DEFINE h == History(hello, notified)
<1> HIDE DEF h
<1>2. Fine(e, h) /\ (Fine(e', h) => \E l, n \in BOOLEAN : Fine(e', History(l, n)'))
  BY <1>1 DEF h
<1>3. /\ Shape(e) /\ ~e.failed /\ e.inbuf = <<>> /\ e.hin = <<>> /\ ~e.took
  BY EngineFacts, Opens
<1>4. /\ Shape(e') /\ Agree(e, e') /\ e'.part /\ e'.record_type_in = type
      /\ e'.inbuf = e.inbuf /\ e'.hout = e.hout /\ e'.running = e.running
      /\ e'.hin = e.hin /\ e'.took = e.took
  BY <1>3 DEF Shape, Fields, Agree
<1>5. Fine(e', h)
  BY <1>2, <1>4, AgreeFine
<1>6. Unseen(e') /\ e'.inbuf \in Seq(InUnits)
  BY <1>3, <1>4, NothingAlone DEF Unseen
<1> QED
  BY <1>2, <1>3, <1>4, <1>5, <1>6 DEF EngineOk, Agree

\* Something else than a record comes in.
LEMMA BadEffect ==
  ASSUME EngineOk, ~e.running, ~e.failed,
         e' = br_ssl_engine_fail(e, "record"), UNCHANGED hist
  PROVE  /\ EngineOk' /\ e'.failed /\ e'.err # "ok" /\ ~e'.running
         /\ e'.pc = e.pc /\ e'.resume = e.resume /\ e'.outrec = e.outrec
         /\ e'.application_data = e.application_data
         /\ e'.inbuf = e.inbuf /\ e'.record_type_in = e.record_type_in
         /\ e'.shutdown_recv = e.shutdown_recv
<1>1. PICK hello \in BOOLEAN, notified \in BOOLEAN :
        LET h == History(hello, notified)
        IN  /\ Fine(e, h) /\ h.early
            /\ UNCHANGED hist /\ Fine(e', h) =>
                 \E l, n \in BOOLEAN : Fine(e', History(l, n)')
  BY EngineFine
<1> DEFINE h == History(hello, notified)
<1> HIDE DEF h
<1>2. Fine(e, h) /\ (Fine(e', h) => \E l, n \in BOOLEAN : Fine(e', History(l, n)'))
  BY <1>1 DEF h
<1>3. e' = [e EXCEPT !.failed = TRUE, !.err = "record"] /\ Shape(e)
  BY EngineFacts DEF br_ssl_engine_fail
<1>4. Fine(e', h)
  BY <1>2, FailFine
<1>5. /\ e'.failed /\ e'.err # "ok" /\ e'.running = e.running
      /\ e'.pc = e.pc /\ e'.resume = e.resume /\ e'.outrec = e.outrec
      /\ e'.application_data = e.application_data
      /\ e'.inbuf = e.inbuf /\ e'.record_type_in = e.record_type_in
      /\ e'.shutdown_recv = e.shutdown_recv
      /\ e'.hin = e.hin /\ e'.took = e.took
  BY <1>3 DEF Shape, Fields
<1>6. Unseen(e')
  BY <1>5 DEF EngineOk, Unseen
<1> QED
  BY <1>2, <1>4, <1>5, <1>6 DEF EngineOk

\* The application reads some of what came for it.
LEMMA ReadEffect ==
  ASSUME EngineOk, ~e.running, recvapp_open(e), NEW n \in Nat,
         n <= Len(e.inbuf),
         e' = [e EXCEPT !.inbuf = SubSeq(@, n + 1, Len(@))], UNCHANGED hist
  PROVE  /\ EngineOk' /\ Agree(e, e') /\ ~e'.running
         /\ e'.record_type_in = "app" /\ Len(e'.inbuf) = Len(e.inbuf) - n
         /\ e'.inbuf \in Seq(InUnits)
<1>1. PICK hello \in BOOLEAN, notified \in BOOLEAN :
        LET h == History(hello, notified)
        IN  /\ Fine(e, h) /\ h.early
            /\ UNCHANGED hist /\ Fine(e', h) =>
                 \E l, k \in BOOLEAN : Fine(e', History(l, k)')
  BY EngineFine
<1> DEFINE h == History(hello, notified)
           rest == SubSeq(e.inbuf, n + 1, Len(e.inbuf))
<1> HIDE DEF h
<1>2. Fine(e, h) /\ (Fine(e', h) => \E l, k \in BOOLEAN : Fine(e', History(l, k)'))
  BY <1>1 DEF h
<1>3. /\ Shape(e) /\ ~e.failed /\ e.hin = <<>> /\ ~e.took
      /\ e.record_type_in = "app"
      /\ e.inbuf \in Seq(InUnits)
  BY EngineFacts, Opens DEF EngineOk
<1>4. rest \in Seq(InUnits) /\ Len(rest) = Len(e.inbuf) - n
  BY <1>3, SubSeqProperties
<1> HIDE DEF rest
<1>5. e' = [e EXCEPT !.inbuf = rest]
  BY DEF rest
<1>6. /\ Shape(e') /\ Agree(e, e')
      /\ e'.record_type_in = e.record_type_in /\ e'.inbuf = rest
      /\ e'.hout = e.hout /\ e'.running = e.running
      /\ e'.hin = e.hin /\ e'.took = e.took
  BY <1>3, <1>5 DEF Shape, Fields, Agree
<1>7. Fine(e', h)
  BY <1>2, <1>6, AgreeFine
<1>8. Unseen(e')
  BY <1>3, <1>6 DEF Unseen
<1> QED
  BY <1>2, <1>3, <1>4, <1>6, <1>7, <1>8 DEF EngineOk, Agree

\* The application closes.
LEMMA JumpEffect ==
  ASSUME EngineOk, ~e.running, ~e.failed, call'.op = "close",
         e' = jump_handshake(e, 1), UNCHANGED hist
  PROVE  EngineOk' /\ Same(e, e') /\ e'.running /\ e'.outrec = e.outrec
<1>1. PICK hello \in BOOLEAN, notified \in BOOLEAN :
        LET h == History(hello, notified)
        IN  /\ Fine(e, h) /\ h.early
            /\ UNCHANGED hist /\ Fine(e', h) =>
                 \E l, n \in BOOLEAN : Fine(e', History(l, n)')
  BY EngineFine
<1> DEFINE h == History(hello, notified)
<1> HIDE DEF h
<1>2. Fine(e, h) /\ (Fine(e', h) => \E l, n \in BOOLEAN : Fine(e', History(l, n)'))
  BY <1>1 DEF h
<1>3. Shape(e)
  BY EngineFacts
<1>4. /\ Same(e, e') /\ e'.running /\ e'.action = 1 /\ ~e'.took
      /\ e'.outrec = e.outrec
      /\ e.record_type_in = "app" => e'.hin = <<>>
  BY <1>3, JumpSame
<1>5. Fine(e', h)
  BY <1>2, JumpFine DEF Fine
<1>6. Unseen(e')
  BY <1>4 DEF Unseen, Same
<1> QED
  BY <1>2, <1>4, <1>5, <1>6 DEF EngineOk, Same

\* The application writes one unit: it is in a record.
LEMMA WriteEffect ==
  ASSUME EngineOk, ~e.running, sendapp_open(e),
         e' = br_ssl_engine_flush(
                sendpld_ack(e, <<AppData(hist.accepted + 1)>>), FALSE),
         hist'.accepted = hist.accepted + 1, hist'.gone = hist.gone
  PROVE  /\ EngineOk' /\ Same(e, e') /\ ~e'.running /\ e'.outrec # NoRec
         /\ hist.gone = hist.accepted /\ e'.hin = <<>>
<1>1. PICK hello \in BOOLEAN, notified \in BOOLEAN :
        Fine(e, History(hello, notified))
  BY DEF EngineOk
<1> DEFINE h == History(hello, notified)
           k == [written |-> hist'.accepted, gone |-> hist'.gone,
                 hello |-> hello, notified |-> notified, early |-> TRUE]
<1>2. /\ h.written = hist.accepted /\ More(h, k, 1) /\ k = History(hello, notified)'
  BY DEF History, More
<1> HIDE DEF h, k
<1>3. Fine(e, h)
  BY <1>1 DEF h
<1>4. /\ Shape(e) /\ ~e.failed /\ e.application_data = 1 /\ e.outrec = NoRec
      /\ e.hin = <<>> /\ ~e.took /\ e.outbuf = <<>>
      /\ hist.gone = hist.accepted /\ hist.accepted \in Nat
  BY EngineFacts, Opens
<1> DEFINE u == NextData(h.written, 1)
           m == [e EXCEPT !.outbuf = @ \o u]
<1>5. u = <<AppData(hist.accepted + 1)>>
  BY <1>2, <1>4, OneMore
<1>6. e' = Sealed(m) /\ Fine(e', k)
  <2>1. 1 \in Nat /\ 1 # 0
    OBVIOUS
  <2>2. e' = br_ssl_engine_flush(sendpld_ack(e, u), FALSE)
    BY <1>5
  <2> QED
    BY ZenonT(60), <1>2, <1>3, <1>4, <2>1, <2>2, WriteFine
<1>7. u # <<>> /\ e.outbuf \o u = u
  <2> HIDE DEF u
  <2> DEFINE a == AppData(hist.accepted + 1)
  <2>1. u = <<a>>
    BY <1>5
  <2> HIDE DEF a
  <2>2. Len(u) = 1 /\ u \in Seq({a})
    BY <2>1
  <2>3. <<>> \o u = u
    BY <2>2, ConcatEmptySeq
  <2>4. u # <<>>
    BY <2>2
  <2>5. e.outbuf = <<>>
    BY <1>4
  <2> QED
    BY <2>3, <2>4, <2>5
<1> HIDE DEF u
<1>8. Shape(m) /\ Same(e, m) /\ m.outbuf = u /\ ~m.running
      /\ m.hin = e.hin /\ m.took = e.took
  BY <1>4, <1>7 DEF Shape, Fields, Same
<1> HIDE DEF m
<1>9. /\ Same(m, Sealed(m)) /\ ~Sealed(m).running
      /\ Sealed(m).hin = m.hin /\ Sealed(m).took = m.took
      /\ Sealed(m).outrec.units = u
  BY <1>8 DEF Sealed, Shape, Fields, Same
<1>10. /\ Same(e, e') /\ ~e'.running /\ e'.outrec # NoRec /\ Unseen(e')
       /\ e'.hin = <<>>
  <2>1. Same(e, Sealed(m)) /\ Unseen(Sealed(m))
    BY <1>4, <1>8, <1>9 DEF Same, Unseen
  <2>2. NoRec.units = <<>>
    BY DEF NoRec
  <2> QED
    BY <1>4, <1>6, <1>7, <1>8, <1>9, <2>1, <2>2
<1>11. Fine(e', History(hello, notified)')
  BY <1>2, <1>6
<1>12. hist'.accepted <= hist'.gone + 1
  BY <1>4
<1> QED
  BY <1>4, <1>10, <1>11, <1>12 DEF EngineOk, Same

\* The processor runs.
LEMMA RunEffect ==
  ASSUME EngineOk, e.running, e' = HsStep(e), call' = call,
         hist'.accepted = hist.accepted, hist'.gone = hist.gone
  PROVE  EngineOk' /\ Kept(e, e') /\ Moves(e, e')
<1>1. PICK hello \in BOOLEAN, notified \in BOOLEAN :
        Fine(e, History(hello, notified))
  BY DEF EngineOk
<1>2. History(hello, notified)' = History(hello, notified)
  BY DEF History
<1>3. Fine(e', History(hello, notified)')
  BY <1>1, <1>2, HsStepFine
<1>4. Kept(e, e') /\ Moves(e, e')
  BY <1>1, HsStepMoves DEF EngineOk
<1>5. /\ e'.running => e'.action = 0 \/ (e'.action = 1 /\ call'.op = "close")
      /\ ~e'.running /\ ~e'.failed => e'.pc \notin {"handshake", "open", "close"}
      /\ e'.record_type_in = "app" => e'.inbuf \in Seq(InUnits)
      /\ hist'.accepted <= hist'.gone + 1
  <2>1. e'.running => e'.action = 0 \/ (e'.action = 1 /\ call'.op = "close")
    BY <1>4 DEF EngineOk, Kept
  <2>2. ~e'.running /\ ~e'.failed => e'.pc \notin {"handshake", "open", "close"}
    BY <1>4 DEF Moves
  <2>3. e'.record_type_in = "app" => e'.inbuf \in Seq(InUnits)
    BY <1>4 DEF EngineOk, Kept
  <2> QED
    BY <2>1, <2>2, <2>3 DEF EngineOk
<1> QED
  BY <1>3, <1>4, <1>5 DEF EngineOk, Kept

-----------------------------------------------------------------------------
(* Every step of a call keeps CInv.                                        *)

LEMMA CallGoes ==
  ASSUME Typed, call.op \in Ops, NEW at, NEW ok,
         call' = [call EXCEPT !.at = at, !.ok = ok]
  PROVE  /\ call'.op = call.op /\ call'.at = at /\ call'.len = call.len
         /\ call'.sent = call.sent /\ call'.ok = ok
         /\ call' # NoCall /\ call # NoCall
<1>1. /\ call'.op = call.op /\ call'.at = at /\ call'.len = call.len
      /\ call'.sent = call.sent /\ call'.ok = ok
  BY DEF Typed
<1>2. NoCall.op = "none" /\ "none" \notin Ops
  BY DEF NoCall, Ops
<1> QED
  BY <1>1, <1>2

LEMMA SendOkKeeps ==
  ASSUME CInv, SendOk
  PROVE  CInv'
<1>1. /\ EngineOk' /\ Same(e, e') /\ e'.outrec = NoRec
      /\ hist'.gone = hist.accepted
      /\ Holds(e, "finished") => Carries(e.outrec.units, "finished")
  BY SendEffect DEF CInv, SendOk, At
<1>2. /\ hist' = [hist EXCEPT !.gone = hist'.gone, !.finOut = hist'.finOut]
      /\ hist'.finOut = (hist.finOut \/ Carries(e.outrec.units, "finished"))
      /\ hist'.finOut \in BOOLEAN
  BY DEF CInv, Typed, SendOk, Carries
<1>3. /\ call.at = "send" /\ net # "down" /\ call.op \in Ops
      /\ UNCHANGED <<conn, call, net, last>>
  BY DEF SendOk, At
<1>4. hist.accepted \in Nat /\ hist.due \in Nat
  BY DEF CInv, Typed
<1>5. Typed'
  BY <1>1, <1>2, <1>3, <1>4 DEF CInv, Typed
<1>6. Calls'
  BY <1>3 DEF CInv, Calls
<1>7. Finishes'
  BY <1>1, <1>2, <1>3 DEF CInv, Typed, Finishes, Same, Holds
<1>8. Nets'
  BY <1>1, <1>3 DEF CInv, Nets, Same
<1>9. Dues'
  BY <1>1, <1>2, <1>3, <1>4 DEF CInv, Typed, Dues, Broken, Same
<1>10. Delivered'
  BY <1>1, <1>3 DEF CInv, Delivered, Broken, Same
<1> QED
  BY <1>1, <1>5, <1>6, <1>7, <1>8, <1>9, <1>10 DEF CInv

\* The socket fails, or there is nothing to send.
LEMMA SendEndsKeeps ==
  ASSUME CInv, SendError \/ SendDone
  PROVE  CInv'
<1>1. /\ call.at = "send" /\ call.op \in Ops /\ ~e.running
      /\ UNCHANGED <<e, conn, hist, last>>
      /\ \/ sendrec_open(e) /\ net' = "down" /\ call' = [call EXCEPT !.at = "driven", !.ok = FALSE]
         \/ ~sendrec_open(e) /\ net' = net /\ call' = [call EXCEPT !.at = "driven", !.ok = TRUE]
  BY DEF SendError, SendDone, At, Driven
<1>2. /\ call'.op = call.op /\ call'.at = "driven" /\ call'.len = call.len
      /\ call' # NoCall /\ call # NoCall
  BY <1>1, CallGoes DEF CInv
<1>3. EngineOk'
  BY <1>1, EngineQuiet DEF CInv
<1>4. Typed'
  BY <1>1 DEF CInv, Typed
<1>5. Calls'
  BY <1>1, <1>2 DEF CInv, Calls
<1>6. Finishes'
  BY <1>1 DEF CInv, Finishes
<1>7. Nets'
  BY <1>1, <1>2 DEF CInv, Typed, Nets
<1>8. Dues'
  BY <1>1, <1>2 DEF CInv, Dues, Broken
<1>9. Delivered'
  BY <1>1, <1>2 DEF CInv, Delivered, Broken
<1> QED
  BY <1>3, <1>4, <1>5, <1>6, <1>7, <1>8, <1>9 DEF CInv

\* A record comes in.
LEMMA RecvRecordKeeps ==
  ASSUME CInv, NEW r \in Records, RecvRecord(r)
  PROVE  CInv'
<1>1. /\ call.at = "recv" /\ call.op \in Ops /\ ~e.running /\ net = "up"
      /\ UNCHANGED <<conn, net, hist, last>>
      /\ call' = [call EXCEPT !.at = "driven", !.ok = TRUE]
      /\ e' = br_ssl_engine_recvrec_ack(e, r.type, r.units)
  BY DEF RecvRecord, At, Driven
<1>2. /\ call'.op = call.op /\ call'.at = "driven" /\ call'.len = call.len
      /\ call' # NoCall /\ call # NoCall
  BY <1>1, CallGoes DEF CInv
<1>3. /\ recvrec_open(e) /\ e.outrec = NoRec /\ ~conn.closed
      /\ e.application_data = 1 => e.pc = "main"
  BY <1>1, EngineFacts, Opens DEF CInv, Calls, OutIdle, Nets
<1>4. /\ EngineOk'
      /\ e'.pc = e.pc /\ e'.resume = e.resume /\ e'.outrec = e.outrec
      /\ e'.application_data = e.application_data
      /\ e'.record_type_in = r.type
      /\ \/ e'.inbuf = <<>> /\ ~e'.running /\ ~e'.failed
         \/ /\ r.type # "app" /\ r.units # <<>> /\ e'.inbuf = r.units
            /\ e'.running /\ ~e'.failed /\ e'.action = 0
            /\ e'.hin = r.units
         \/ /\ r.type = "app" /\ e.application_data = 1
            /\ e'.inbuf = r.units /\ ~e'.running /\ ~e'.failed
         \/ e'.failed /\ e'.err # "ok" /\ ~e'.running
  BY <1>1, <1>3, RecvEffect DEF CInv
<1>5. Typed'
  BY <1>1 DEF CInv, Typed
<1>6. Calls'
  BY <1>1, <1>2 DEF CInv, Calls
<1>7. Finishes'
  BY <1>1, <1>3, <1>4 DEF CInv, Finishes, Holds
<1>8. Nets'
  BY <1>1, <1>2, <1>3 DEF CInv, Typed, Nets
<1>9. Dues'
  BY <1>1, <1>2, <1>3 DEF CInv, Calls, Dues
<1>10. Delivered'
  BY <1>3, <1>4 DEF Delivered, Broken
<1> QED
  BY <1>4, <1>5, <1>6, <1>7, <1>8, <1>9, <1>10 DEF CInv

\* A record begins, or something else comes in.
LEMMA RecvOtherKeeps ==
  ASSUME CInv, RecvBad \/ \E type : RecvPart(type)
  PROVE  CInv'
<1>1. /\ call.at = "recv" /\ call.op \in Ops /\ ~e.running /\ net = "up"
      /\ UNCHANGED <<conn, net, hist, last>>
      /\ call' = [call EXCEPT !.at = "driven", !.ok = TRUE]
      /\ \/ e' = br_ssl_engine_fail(e, "record")
         \/ \E type : e' = [e EXCEPT !.part = TRUE, !.record_type_in = type]
  BY DEF RecvBad, RecvPart, At, Driven
<1>2. /\ call'.op = call.op /\ call'.at = "driven" /\ call'.len = call.len
      /\ call' # NoCall /\ call # NoCall
  BY <1>1, CallGoes DEF CInv
<1>3. /\ recvrec_open(e) /\ e.outrec = NoRec /\ ~conn.closed /\ ~e.failed
  BY <1>1, Opens DEF CInv, Calls, OutIdle, Nets
<1>4. /\ EngineOk'
      /\ e'.pc = e.pc /\ e'.resume = e.resume /\ e'.outrec = e.outrec
      /\ e'.application_data = e.application_data
      /\ \/ e'.inbuf = <<>> /\ ~e'.failed
         \/ e'.failed /\ e'.err # "ok"
  <2>1. CASE e' = br_ssl_engine_fail(e, "record")
    BY <1>1, <1>3, <2>1, BadEffect DEF CInv
  <2>2. CASE \E type : e' = [e EXCEPT !.part = TRUE, !.record_type_in = type]
    BY <1>1, <1>3, <2>2, PartEffect DEF CInv, Agree
  <2> QED
    BY <1>1, <2>1, <2>2
<1>5. Typed'
  BY <1>1 DEF CInv, Typed
<1>6. Calls'
  BY <1>1, <1>2 DEF CInv, Calls
<1>7. Finishes'
  BY <1>1, <1>3, <1>4 DEF CInv, Finishes, Holds
<1>8. Nets'
  BY <1>1, <1>2, <1>3 DEF CInv, Typed, Nets
<1>9. Dues'
  BY <1>1, <1>2, <1>3 DEF CInv, Calls, Dues
<1>10. Delivered'
  BY <1>4 DEF Delivered, Broken
<1> QED
  BY <1>4, <1>5, <1>6, <1>7, <1>8, <1>9, <1>10 DEF CInv

\* The peer closes, or the socket fails.
LEMMA RecvEndsKeeps ==
  ASSUME CInv, RecvEof \/ RecvError
  PROVE  CInv'
<1>1. /\ call.at = "recv" /\ call.op \in Ops /\ ~e.running
      /\ UNCHANGED <<e, hist, last>>
      /\ \/ /\ net' = "eof" /\ conn' = [conn EXCEPT !.closed = TRUE]
            /\ call' = [call EXCEPT !.at = "driven", !.ok = TRUE]
         \/ /\ net' = "down" /\ conn' = conn
            /\ call' = [call EXCEPT !.at = "driven", !.ok = FALSE]
  BY DEF RecvEof, RecvError, At, Driven
<1>2. /\ call'.op = call.op /\ call'.at = "driven" /\ call'.len = call.len
      /\ call' # NoCall /\ call # NoCall
  BY <1>1, CallGoes DEF CInv
<1>3. /\ conn'.live = conn.live /\ conn.live
      /\ recvrec_open(e) /\ e.outrec = NoRec /\ call.op # "close"
  BY <1>1, <1>2 DEF CInv, Typed, Calls, OutIdle
<1>4. EngineOk'
  BY <1>1, EngineQuiet DEF CInv
<1>5. Typed'
  BY <1>1 DEF CInv, Typed
<1>6. Calls'
  BY <1>1, <1>2, <1>3 DEF CInv, Calls
<1>7. Finishes'
  BY <1>1 DEF CInv, Finishes
<1>8. Nets'
  BY <1>1, <1>2, <1>3 DEF CInv, Typed, Nets
<1>9. Dues'
  <2>1. hist.gone >= hist.due
    BY <1>3, EngineFacts DEF CInv, Typed, Dues
  <2> QED
    BY <1>1, <1>2, <1>3, <2>1 DEF CInv, Typed, Dues
<1>10. Delivered'
  BY <1>1, <1>2, <1>3 DEF CInv, Delivered, Broken
<1> QED
  BY <1>4, <1>5, <1>6, <1>7, <1>8, <1>9, <1>10 DEF CInv

\* A call returns; wm_tls_open may free the connection.
LEMMA ReturnKeeps ==
  ASSUME CInv, call.op \in Ops \ {"close"}, ~e.running,
         UNCHANGED <<e, net, hist>>, NEW ok \in BOOLEAN, NEW n \in Nat, Return(ok, n),
         \/ conn' = conn
         \/ conn' = [conn EXCEPT !.closed = TRUE] /\ e.failed
         \/ /\ conn' = [conn EXCEPT !.live = FALSE]
            /\ call.op = "open" /\ ~ok
  PROVE  CInv'
<1>1. /\ call' = NoCall /\ last' = [op |-> call.op, ok |-> ok, n |-> n]
      /\ NoCall.op = "none" /\ NoCall.at = "none" /\ "none" \notin Ops
      /\ call # NoCall /\ conn.live
  BY DEF Return, NoCall, Ops, CInv, Calls
<1>2. /\ conn' \in [live : BOOLEAN, closed : BOOLEAN]
      /\ conn'.live \/ (call.op = "open" /\ ~ok)
      /\ conn'.closed => conn.closed \/ e.failed
      /\ conn.closed => conn'.closed
  BY <1>1 DEF CInv, Typed
<1>3. EngineOk'
  BY EngineQuiet DEF CInv
<1>4. Typed'
  BY <1>1, <1>2 DEF CInv, Typed, NoCall
<1>5. Calls'
  BY <1>1, <1>2 DEF CInv, Calls
<1>6. Finishes'
  BY DEF CInv, Finishes
<1>7. Nets'
  BY <1>1, <1>2 DEF CInv, Nets
<1>8. Dues'
  <2>1. e.failed /\ e.err = "ok" => hist.gone >= hist.due
    BY EngineFacts DEF CInv, Typed, Dues
  <2> QED
    BY <1>1, <1>2, <2>1 DEF CInv, Typed, Dues, Broken
<1>9. Delivered'
  BY <1>1, <1>2 DEF CInv, Calls, Delivered, Broken
<1> QED
  BY <1>3, <1>4, <1>5, <1>6, <1>7, <1>8, <1>9 DEF CInv

\* wm_tls_drive_records begins.
LEMMA DriveKeeps ==
  ASSUME CInv, call.op \in Ops \ {"close"}, call.at = "loop", ~e.running,
         Drive, UNCHANGED <<e, net, hist>>
  PROVE  CInv'
<1>1. CASE "CLOSED" \in State
  <2>1. /\ e.failed /\ last' = last /\ conn' = [conn EXCEPT !.closed = TRUE]
        /\ call' = [call EXCEPT !.at = "driven", !.ok = FALSE]
    BY <1>1, States DEF Drive, Driven
  <2>2. /\ call'.op = call.op /\ call'.at = "driven" /\ call'.len = call.len
        /\ call'.ok = FALSE /\ call' # NoCall /\ call # NoCall
    BY <2>1, CallGoes DEF CInv
  <2>3. conn'.live = conn.live /\ conn.live
    BY <2>1, <2>2 DEF CInv, Typed, Calls
  <2>4. EngineOk'
    BY EngineQuiet, <2>2 DEF CInv
  <2>5. Typed'
    BY <2>1 DEF CInv, Typed
  <2>6. Calls'
    BY <2>1, <2>2, <2>3 DEF CInv, Calls
  <2>7. Finishes'
    BY DEF CInv, Finishes
  <2>8. Nets'
    BY <2>1, <2>2, <2>3 DEF CInv, Nets
  <2>9. Dues'
    <3>1. e.failed /\ e.err = "ok" => hist.gone >= hist.due
      BY EngineFacts DEF CInv, Typed, Dues
    <3> QED
      BY <2>1, <2>2, <2>3, <3>1 DEF CInv, Typed, Dues, Broken
  <2>10. Delivered'
    BY <2>1, <2>2, <2>3 DEF CInv, Delivered, Broken
  <2> QED
    BY <2>4, <2>5, <2>6, <2>7, <2>8, <2>9, <2>10 DEF CInv
<1>2. CASE "CLOSED" \notin State
  <2> DEFINE at == IF sendrec_open(e) THEN "send"
                   ELSE IF recvrec_open(e) THEN "recv" ELSE "driven"
  <2>1. /\ ~e.failed /\ last' = last /\ conn' = conn
        /\ call' = [call EXCEPT !.at = at, !.ok = TRUE]
    BY <1>2, States DEF Drive
  <2>2. /\ call'.op = call.op /\ call'.at = at /\ call'.len = call.len
        /\ call'.sent = call.sent
        /\ call'.ok = TRUE /\ call' # NoCall /\ call # NoCall
    BY <2>1, CallGoes DEF CInv
  <2>3. conn.live
    BY <2>2 DEF CInv, Calls
  <2>4. EngineOk'
    BY EngineQuiet, <2>2 DEF CInv
  <2>5. Typed'
    BY <2>1 DEF CInv, Typed
  <2>6. Calls'
    <3>1. at = "recv" => recvrec_open(e) /\ OutIdle(e)
      BY <2>1, EngineFacts, Opens DEF CInv, OutIdle
    <3>2. at \in {"send", "recv", "driven"}
      OBVIOUS
    <3> HIDE DEF at
    <3> QED
      BY <2>1, <2>2, <2>3, <3>1, <3>2 DEF CInv, Calls
  <2>7. Finishes'
    BY DEF CInv, Finishes
  <2>8. Nets'
    BY <2>1, <2>2, <2>3 DEF CInv, Nets
  <2>9. Dues'
    BY <2>1, <2>2, <2>3 DEF CInv, Dues, Broken
  <2>10. Delivered'
    BY <2>1, <2>2, <2>3 DEF CInv, Delivered, Broken
  <2> QED
    BY <2>4, <2>5, <2>6, <2>7, <2>8, <2>9, <2>10 DEF CInv
<1> QED
  BY <1>1, <1>2

LEMMA AfterDriveKeeps ==
  ASSUME CInv, AfterDrive
  PROVE  CInv'
<1>1. /\ call.at = "driven" /\ call.op \in Ops /\ ~e.running
      /\ UNCHANGED <<e, net, hist>>
  BY DEF AfterDrive, At
<1>2. CASE \/ call.op = "close"
           \/ call.ok /\ ~conn.closed
  <2> DEFINE at == IF call.op # "close" THEN "loop"
                   ELSE IF call.ok THEN "closing" ELSE "free"
  <2>1. /\ call' = [call EXCEPT !.at = at] /\ UNCHANGED <<conn, last>>
    BY <1>1, <1>2 DEF AfterDrive, Ops
  <2>2. call' = [call EXCEPT !.at = at, !.ok = call.ok]
    BY <2>1 DEF CInv, Typed
  <2>3. /\ call'.op = call.op /\ call'.at = at /\ call'.len = call.len
        /\ call'.ok = call.ok /\ call' # NoCall /\ call # NoCall
    BY <1>1, <2>2, CallGoes DEF CInv
  <2>4. EngineOk'
    BY <1>1, EngineQuiet, <2>3 DEF CInv
  <2>5. Typed'
    BY <1>1, <2>1 DEF CInv, Typed
  <2>6. Calls'
    BY <1>1, <2>1, <2>3 DEF CInv, Calls
  <2>7. Finishes'
    BY <1>1 DEF CInv, Finishes
  <2>8. Nets'
    BY <1>1, <1>2, <2>1, <2>3 DEF CInv, Nets
  <2>9. Dues'
    BY <1>1, <2>1, <2>3 DEF CInv, Dues, Broken, Calls, Nets
  <2>10. Delivered'
    BY <1>1, <2>1, <2>3 DEF CInv, Delivered, Broken
  <2> QED
    BY <2>4, <2>5, <2>6, <2>7, <2>8, <2>9, <2>10 DEF CInv
<1>3. CASE call.op # "close" /\ (~call.ok \/ conn.closed)
  <2>1. call.ok \in BOOLEAN /\ call.sent \in Nat /\ 0 \in Nat
    BY DEF CInv, Typed
  <2>2. CASE call.op = "open"
    <3>1. Return(FALSE, 0) /\ conn' = [conn EXCEPT !.live = FALSE]
      BY <1>3, <2>2 DEF AfterDrive, Free
    <3> QED
      BY <1>1, <2>1, <2>2, <3>1, ReturnKeeps
  <2>3. CASE call.op = "write"
    <3>1. Return(FALSE, call.sent) /\ conn' = conn
      BY <1>3, <2>3 DEF AfterDrive
    <3> QED
      BY <1>1, <2>1, <2>3, <3>1, ReturnKeeps
  <2>4. CASE call.op = "read"
    <3>1. Return(call.ok, 0) /\ conn' = conn
      BY <1>3, <2>4 DEF AfterDrive
    <3> QED
      BY <1>1, <2>1, <2>4, <3>1, ReturnKeeps
  <2> QED
    BY <1>1, <1>3, <2>2, <2>3, <2>4 DEF Ops
<1> QED
  BY <1>2, <1>3

LEMMA OpenKeeps ==
  ASSUME CInv, wm_tls_open
  PROVE  CInv'
<1>1. /\ call.at = "loop" /\ call.op = "open" /\ ~e.running
      /\ UNCHANGED <<e, net, hist>>
      /\ call.op \in Ops \ {"close"} /\ 0 \in Nat
  BY DEF wm_tls_open, At, Ops
<1>2. CASE State \cap {"SENDAPP", "RECVAPP"} # {}
  BY <1>1, <1>2, ReturnKeeps DEF wm_tls_open
<1>3. CASE State \cap {"SENDAPP", "RECVAPP"} = {}
  BY <1>1, <1>3, DriveKeeps DEF wm_tls_open
<1> QED
  BY <1>2, <1>3

\* The cases of wm_tls_write exclude each other.
LEMMA WriteCases ==
  ASSUME CInv, wm_tls_write
  PROVE  /\ call.at = "loop" /\ call.op = "write" /\ ~e.running
         /\ UNCHANGED net /\ call.op \in Ops \ {"close"}
         /\ call.sent \in Nat /\ call.len \in Nat
         /\ \/ /\ call.sent = call.len
               /\ Return(TRUE, call.sent) /\ UNCHANGED <<e, conn, hist>>
            \/ /\ e.failed /\ conn' = [conn EXCEPT !.closed = TRUE]
               /\ Return(FALSE, call.sent) /\ UNCHANGED <<e, hist>>
            \/ /\ call.sent < call.len /\ sendapp_open(e)
               /\ WriteUnit /\ UNCHANGED <<conn, last>>
            \/ Drive /\ UNCHANGED <<e, hist>>
<1> DEFINE full == call.sent = call.len
           less == call.sent < call.len
           closed == "CLOSED" \in State
           room == "SENDAPP" \in State
           none == State \cap {"CLOSED", "SENDAPP"} = {}
           returns == Return(TRUE, call.sent) /\ UNCHANGED <<e, conn, hist>>
           fails == /\ conn' = [conn EXCEPT !.closed = TRUE]
                    /\ Return(FALSE, call.sent) /\ UNCHANGED <<e, hist>>
           writes == WriteUnit /\ UNCHANGED <<conn, last>>
           drives == Drive /\ UNCHANGED <<e, hist>>
<1>1. /\ call.at = "loop" /\ call.op = "write" /\ ~e.running
      /\ UNCHANGED net /\ call.op \in Ops \ {"close"}
      /\ call.sent \in Nat /\ call.len \in Nat
  BY DEF wm_tls_write, At, Ops, CInv, Typed
<1>2. /\ full => ~less
      /\ room => ~closed /\ ~none
      /\ closed => ~room /\ ~none
      /\ ~room /\ ~closed <=> none
  BY <1>1, States, Opens
<1>3. (CASE full -> returns [] less /\ closed -> fails
         [] less /\ room -> writes [] less /\ none -> drives)
  BY DEF wm_tls_write
<1>4. full \/ less => \/ full /\ returns
                      \/ less /\ closed /\ fails
                      \/ less /\ room /\ writes
                      \/ less /\ none /\ drives
  <2> HIDE DEF full, less, closed, room, none, returns, fails, writes, drives
  <2> QED
    BY <1>2, <1>3
<1>5. full \/ less
  BY <1>1 DEF CInv, Nets
<1>6. closed => e.failed
  BY States
<1>7. room => sendapp_open(e)
  BY States
<1> QED
  BY <1>1, <1>4, <1>5, <1>6, <1>7

LEMMA WriteKeeps ==
  ASSUME CInv, wm_tls_write
  PROVE  CInv'
<1>1. /\ call.at = "loop" /\ call.op = "write" /\ ~e.running
      /\ UNCHANGED net /\ call.op \in Ops \ {"close"}
      /\ call.sent \in Nat /\ call.len \in Nat
  BY WriteCases
<1>2. CASE Return(TRUE, call.sent) /\ UNCHANGED <<e, conn, hist>>
  BY <1>1, <1>2, ReturnKeeps
<1>3. CASE /\ e.failed /\ conn' = [conn EXCEPT !.closed = TRUE]
           /\ Return(FALSE, call.sent) /\ UNCHANGED <<e, hist>>
  <2>1. /\ conn' = [conn EXCEPT !.closed = TRUE] /\ Return(FALSE, call.sent)
        /\ UNCHANGED <<e, net, hist>> /\ e.failed
    BY <1>1, <1>3
  <2> QED
    BY <1>1, <2>1, ReturnKeeps
<1>4. CASE Drive /\ UNCHANGED <<e, hist>>
  <2>1. Drive /\ UNCHANGED <<e, net, hist>>
    BY <1>1, <1>4
  <2> QED
    BY <1>1, <2>1, DriveKeeps
<1>5. CASE /\ call.sent < call.len /\ sendapp_open(e)
           /\ WriteUnit /\ UNCHANGED <<conn, last>>
  <2>1. sendapp_open(e)
    BY <1>5
  <2>2. WriteUnit /\ UNCHANGED <<conn, last, net>>
    BY <1>1, <1>5
  <2>3. /\ hist.accepted \in Nat /\ hist.due \in Nat
        /\ hist'.accepted = hist.accepted + 1 /\ hist'.gone = hist.gone
        /\ hist'.due = IF conn.closed THEN hist.due ELSE hist.due + 1
        /\ hist'.finOut = hist.finOut /\ hist'.finIn = hist.finIn
        /\ hist' \in [accepted : Nat, due : Nat, gone : Nat,
                      finOut : BOOLEAN, finIn : BOOLEAN]
    <3>1. hist \in [accepted : Nat, due : Nat, gone : Nat,
                    finOut : BOOLEAN, finIn : BOOLEAN]
      BY DEF CInv, Typed
    <3> DEFINE due == IF conn.closed THEN hist.due ELSE hist.due + 1
    <3>2. hist' = [hist EXCEPT !.accepted = @ + 1, !.due = due]
      BY <2>2, <3>1 DEF WriteUnit
    <3>3. due \in Nat /\ hist.accepted + 1 \in Nat
      BY <3>1
    <3> HIDE DEF due
    <3>4. /\ hist'.accepted = hist.accepted + 1 /\ hist'.gone = hist.gone
          /\ hist'.due = due /\ hist'.finOut = hist.finOut
          /\ hist'.finIn = hist.finIn
      BY <3>1, <3>2
    <3>5. hist' \in [accepted : Nat, due : Nat, gone : Nat,
                     finOut : BOOLEAN, finIn : BOOLEAN]
      BY <3>1, <3>2, <3>3
    <3> QED
      BY <3>1, <3>4, <3>5 DEF due
  <2>4. /\ call'.op = "write" /\ call'.at = "loop" /\ call'.len = call.len
        /\ call'.sent = call.sent + 1 /\ call'.ok = call.ok
        /\ call' \in [op : Ops \cup {"none"},
                      at : {"none", "loop", "send", "recv", "driven",
                            "closing", "free"},
                      len : Nat, sent : Nat, ok : BOOLEAN]
    BY <1>1, <2>2 DEF WriteUnit, CInv, Typed
  <2>5. /\ EngineOk' /\ Same(e, e') /\ ~e'.running /\ e'.outrec # NoRec
        /\ hist.gone = hist.accepted
    BY <1>1, <2>1, <2>2, <2>3, WriteEffect DEF WriteUnit, CInv
  <2>6. /\ ~e.failed /\ e.application_data = 1 /\ e.outrec = NoRec
        /\ ~Holds(e, "finished")
    BY <2>1, Opens DEF Holds
  <2>7. call' # NoCall /\ call # NoCall /\ conn.live
    BY <1>1, <2>4 DEF NoCall, CInv, Calls
  <2>8. sendrec_open(e')
    BY <2>5, <2>6, OpensOf DEF Same
  <2>9. Typed'
    BY <2>2, <2>3, <2>4 DEF CInv, Typed
  <2>10. Calls'
    BY <2>2, <2>4, <2>5, <2>7 DEF CInv, Calls
  <2>11. Finishes'
    BY <2>3, <2>5, <2>6 DEF CInv, Finishes, Same
  <2>12. Nets'
    <3>1. call'.sent <= call'.len
      BY <1>1, <1>5, <2>4
    <3> QED
      BY <2>2, <2>4, <2>5, <2>6, <2>8, <3>1 DEF CInv, Nets, Same
  <2>13. Dues'
    BY <2>2, <2>3, <2>4, <2>5, <2>7 DEF CInv, Dues, Same, Broken
  <2>14. Delivered'
    BY <1>1, <2>2, <2>4, <2>5, <2>6, <2>7 DEF CInv, Delivered, Same, Broken
  <2> QED
    BY <2>5, <2>9, <2>10, <2>11, <2>12, <2>13, <2>14 DEF CInv
<1> QED
  BY <1>2, <1>3, <1>4, <1>5, WriteCases

LEMMA ReadKeeps ==
  ASSUME CInv, wm_tls_read
  PROVE  CInv'
<1>1. /\ call.at = "loop" /\ call.op = "read" /\ ~e.running
      /\ UNCHANGED <<net, hist>> /\ call.op \in Ops \ {"close"}
      /\ call.len \in Nat /\ 0 \in Nat
  BY DEF wm_tls_read, At, Ops, CInv, Typed
<1>2. CASE "CLOSED" \in State
  <2>1. /\ conn' = [conn EXCEPT !.closed = TRUE] /\ Return(ReadOfClosed, 0)
        /\ UNCHANGED <<e, net, hist>> /\ e.failed
    BY <1>1, <1>2, States, Opens DEF wm_tls_read
  <2>2. ReadOfClosed \in BOOLEAN
    BY ConnectionAssumption DEF ReadOfClosed
  <2> QED
    BY <1>1, <2>1, <2>2, ReturnKeeps
<1>3. CASE "RECVAPP" \in State
  <2> DEFINE n == IF Len(e.inbuf) < call.len THEN Len(e.inbuf) ELSE call.len
  <2>1. "CLOSED" \notin State /\ recvapp_open(e)
    BY <1>3, States, Opens
  <2>2. /\ e' = [e EXCEPT !.inbuf = SubSeq(@, n + 1, Len(@))]
        /\ Return(TRUE, n) /\ UNCHANGED conn
    BY <1>3, <2>1 DEF wm_tls_read
  <2>3. /\ ~e.failed /\ e.application_data = 1 /\ e.inbuf # <<>>
        /\ e.record_type_in = "app" /\ e.pc = "main"
        /\ e.inbuf \in Seq(InUnits)
    BY <1>1, <2>1, Opens, EngineFacts DEF CInv, EngineOk
  <2>4. n \in Nat /\ n <= Len(e.inbuf)
    BY <1>1, <2>3
  <2> HIDE DEF n
  <2>5. EngineOk' /\ Agree(e, e') /\ ~e'.running /\ e'.record_type_in = "app"
    BY <1>1, <2>1, <2>2, <2>4, ReadEffect DEF CInv
  <2>6. /\ call' = NoCall /\ last' = [op |-> "read", ok |-> TRUE, n |-> n]
        /\ NoCall.op = "none" /\ NoCall.at = "none" /\ "none" \notin Ops
        /\ call # NoCall /\ conn.live
    BY <1>1, <2>2 DEF Return, NoCall, Ops, CInv, Calls
  <2>7. net = "down" => sendrec_open(e')
    <3>1. ~recvrec_open(e)
      BY <2>3, Opens
    <3>2. net = "down" => sendrec_open(e)
      BY <1>1, <2>3, <2>6, <3>1 DEF CInv, Nets
    <3> QED
      BY <2>3, <2>5, <3>2, OpensOf DEF Agree
  <2>8. Typed'
    BY <1>1, <2>2, <2>4, <2>6 DEF CInv, Typed, NoCall
  <2>9. Calls'
    BY <2>2, <2>5, <2>6 DEF CInv, Calls
  <2>10. Finishes'
    BY <1>1, <2>3, <2>5 DEF CInv, Finishes, Agree, Holds
  <2>11. Nets'
    BY <1>1, <2>2, <2>3, <2>5, <2>6, <2>7 DEF CInv, Nets
  <2>12. Dues'
    BY <1>1, <2>2, <2>5, <2>6 DEF CInv, Dues, Agree, Broken
  <2>13. Delivered'
    BY <1>1, <2>2, <2>3, <2>5, <2>6 DEF CInv, Delivered, Agree, Broken
  <2> QED
    BY <2>5, <2>8, <2>9, <2>10, <2>11, <2>12, <2>13 DEF CInv
<1>4. CASE "CLOSED" \notin State /\ "RECVAPP" \notin State
  <2>1. Drive /\ UNCHANGED <<e, net, hist>>
    BY <1>1, <1>4 DEF wm_tls_read
  <2> QED
    BY <1>1, <2>1, DriveKeeps
<1> QED
  BY <1>2, <1>3, <1>4

\* A closing that goes on, with the engine as it was.
LEMMA CloseKeeps ==
  ASSUME CInv, wm_tls_close
  PROVE  CInv'
<1> DEFINE at == IF conn.closed THEN "free" ELSE "closing"
<1>1. /\ call.at = "loop" /\ call.op = "close" /\ ~e.running
      /\ UNCHANGED <<conn, net, last, hist>>
      /\ e' = IF conn.closed \/ e.failed THEN e ELSE jump_handshake(e, 1)
      /\ call' = [call EXCEPT !.at = at, !.ok = call.ok]
  BY DEF wm_tls_close, At, CInv, Typed
<1>2. /\ call'.op = call.op /\ call'.at = at /\ call'.len = call.len
      /\ call' # NoCall /\ call # NoCall
  BY <1>1, CallGoes DEF CInv, Ops
<1>3. at \in {"free", "closing"} /\ (conn.closed <=> at = "free")
  OBVIOUS
<1>4. Typed'
  BY <1>1, <1>3 DEF CInv, Typed
<1> HIDE DEF at
<1>5. /\ EngineOk' /\ Same(e, e') /\ e'.outrec = e.outrec
      /\ conn.closed => ~e'.running
  <2>1. CASE conn.closed \/ e.failed
    <3>1. EngineOk'
      BY <1>1, <1>2, <2>1, EngineQuiet DEF CInv
    <3> QED
      BY <1>1, <2>1, <3>1 DEF Same
  <2>2. CASE ~conn.closed /\ ~e.failed
    BY <1>1, <1>2, <2>2, JumpEffect DEF CInv
  <2> QED
    BY <2>1, <2>2
<1>6. Calls'
  BY <1>1, <1>2, <1>3, <1>5 DEF CInv, Calls
<1>7. Finishes'
  BY <1>1, <1>5 DEF CInv, Finishes, Same, Holds
<1>8. Nets'
  BY <1>1, <1>2, <1>3, <1>5 DEF CInv, Nets, Same
<1>9. Dues'
  BY <1>1, <1>2, <1>3, <1>5 DEF CInv, Calls, Dues, Same, Broken
<1>10. Delivered'
  BY <1>1, <1>2 DEF Delivered
<1> QED
  BY <1>4, <1>5, <1>6, <1>7, <1>8, <1>9, <1>10 DEF CInv

LEMMA CloseLoopKeeps ==
  ASSUME CInv, CloseLoop
  PROVE  CInv'
<1> DEFINE at == IF sendrec_open(e) THEN "send" ELSE "free"
<1>1. /\ call.at = "closing" /\ call.op = "close" /\ ~e.running
      /\ UNCHANGED <<e, conn, net, last, hist>>
      /\ call' = [call EXCEPT !.at = at, !.ok = call.ok]
  BY States DEF CloseLoop, At, CInv, Typed
<1>2. /\ call'.op = call.op /\ call'.at = at /\ call'.len = call.len
      /\ call' # NoCall /\ call # NoCall
  BY <1>1, CallGoes DEF CInv, Ops
<1>3. at \in {"free", "send"} /\ (sendrec_open(e) <=> at = "send")
  OBVIOUS
<1>4. Typed'
  BY <1>1, <1>3 DEF CInv, Typed
<1> HIDE DEF at
<1>5. EngineOk'
  BY <1>1, <1>2, EngineQuiet DEF CInv
<1>6. Calls'
  BY <1>1, <1>2, <1>3 DEF CInv, Calls
<1>7. Finishes'
  BY <1>1 DEF CInv, Finishes
<1>8. Nets'
  BY <1>1, <1>2, <1>3 DEF CInv, Nets
<1>9. Dues'
  <2>1. at = "free" => Broken \/ hist.gone >= hist.due
    BY <1>3, Opens, EngineFacts DEF CInv, Typed, Dues, Broken
  <2> QED
    BY <1>1, <1>2, <1>3, <2>1 DEF CInv, Calls, Dues, Broken
<1>10. Delivered'
  BY <1>1, <1>2 DEF Delivered
<1> QED
  BY <1>4, <1>5, <1>6, <1>7, <1>8, <1>9, <1>10 DEF CInv

LEMMA CloseFreeKeeps ==
  ASSUME CInv, CloseFree
  PROVE  CInv'
<1>1. /\ call.at = "free" /\ call.op = "close" /\ ~e.running
      /\ UNCHANGED <<e, net, hist>>
      /\ conn' = [conn EXCEPT !.live = FALSE] /\ call' = NoCall
      /\ last' = [op |-> "close", ok |-> TRUE, n |-> 0]
      /\ NoCall.op = "none" /\ NoCall.at = "none" /\ "none" \notin Ops
  BY DEF CloseFree, At, Free, Return, NoCall, Ops
<1>2. conn'.live = FALSE /\ conn'.closed = conn.closed
  BY <1>1 DEF CInv, Typed
<1>3. Typed'
  BY <1>1 DEF CInv, Typed, NoCall, Ops
<1>4. EngineOk'
  BY <1>1, EngineQuiet DEF CInv
<1>5. Calls'
  BY <1>1, <1>2 DEF CInv, Calls
<1>6. Finishes'
  BY <1>1 DEF CInv, Finishes
<1>7. Nets'
  BY <1>1, <1>2 DEF CInv, Nets
<1>8. Dues'
  BY <1>1, <1>2 DEF CInv, Dues, Broken
<1>9. Delivered'
  BY <1>1, <1>2 DEF Delivered
<1> QED
  BY <1>3, <1>4, <1>5, <1>6, <1>7, <1>8, <1>9 DEF CInv

LEMMA HsRunKeeps ==
  ASSUME CInv, HsRun
  PROVE  CInv'
<1>1. /\ e.running /\ e' = HsStep(e) /\ UNCHANGED <<conn, call, net, last>>
  BY DEF HsRun
<1>2. /\ hist' = [hist EXCEPT !.finIn = hist'.finIn]
      /\ hist'.finIn = (hist.finIn \/ (e.pc = "finished_in" /\
                                       e'.pc \in {"open", "ccs_out"}))
      /\ hist'.finIn \in BOOLEAN
  BY DEF HsRun, CInv, Typed
<1>3. /\ hist'.accepted = hist.accepted /\ hist'.gone = hist.gone
      /\ hist'.due = hist.due /\ hist'.finOut = hist.finOut
  BY <1>2 DEF CInv, Typed
<1>4. EngineOk' /\ Kept(e, e') /\ Moves(e, e')
  BY <1>1, <1>3, RunEffect DEF CInv
<1>5. ~e.failed
  BY <1>1, EngineFacts DEF CInv
<1>6. Typed'
  BY <1>1, <1>2 DEF CInv, Typed
<1>7. Calls'
  BY <1>1 DEF CInv, Calls
<1>8. Finishes'
  <2>1. Holds(e, "finished") => Holds(e', "finished")
    BY <1>4 DEF Kept, Holds
  <2>2. ~hist'.finIn =>
          /\ e'.application_data # 1 /\ e'.pc \notin {"open", "main", "reject"}
          /\ e'.pc \in {"server_done", "client_key", "ccs_out", "finished_out"}
               => ~e'.resume
    BY <1>2, <1>4 DEF CInv, Finishes, Moves, Closing
  <2>3. ~hist'.finOut /\ ~Holds(e', "finished") =>
          /\ e'.application_data # 1 /\ e'.pc \notin {"open", "main", "reject"}
          /\ e'.pc \in {"ccs_in", "finished_in"} => e'.resume
    BY <1>3, <1>4, <2>1 DEF CInv, Finishes, Moves, Closing
  <2>4. ~hist'.finOut /\ ~e'.failed =>
          e'.inbuf = <<>> \/ e'.record_type_in # "app"
    BY <1>3, <1>4, <1>5 DEF CInv, Finishes, Kept
  <2> QED
    BY <2>2, <2>3, <2>4 DEF Finishes
<1>9. Nets'
  BY <1>1, <1>5 DEF CInv, Calls, Nets
<1>10. Dues'
  BY <1>1, <1>3, <1>5 DEF CInv, Dues, Broken
<1>11. Delivered'
  <2> SUFFICES ASSUME call.op # "close", conn.live, e'.record_type_in = "app"
               PROVE  \/ e'.inbuf = <<>>
                      \/ /\ e'.application_data = 1 /\ e'.pc = "main"
                         /\ ~e'.failed
    BY <1>1 DEF Delivered
  <2>1. /\ e.record_type_in = "app" /\ e'.inbuf = e.inbuf
        /\ e.hin = <<>> /\ ~e.took /\ e.action = 0
    BY <1>1, <1>4 DEF CInv, EngineOk, Kept, Unseen
  <2>2. \/ e.inbuf = <<>>
        \/ e.application_data = 1 /\ e.pc = "main"
    BY <1>5, <2>1 DEF CInv, Delivered, Broken
  <2>3. CASE e.inbuf = <<>>
    BY <2>1, <2>3
  <2>4. CASE e.application_data = 1 /\ e.pc = "main"
    <3>1. PICK h : Fine(e, h)
      BY DEF CInv, EngineOk
    <3>2. e'.pc = "main" /\ e'.application_data = e.application_data /\ ~e'.failed
      BY <1>1, <2>1, <2>4, <3>1, MainWaits
    <3> QED
      BY <2>4, <3>2
  <2> QED
    BY <2>2, <2>3, <2>4
<1> QED
  BY <1>4, <1>6, <1>7, <1>8, <1>9, <1>10, <1>11 DEF CInv

\* The next call is made.
LEMMA CallKeeps ==
  ASSUME CInv, call = NoCall, conn.live, ~e.running,
         NEW op \in Ops \ {"open"}, NEW len \in Nat, op = "read" => len >= 1,
         call' = Call(op, len), last' = NoReturn,
         UNCHANGED <<e, conn, net, hist>>
  PROVE  CInv'
<1>1. /\ call'.op = op /\ call'.at = "loop" /\ call'.len = len
      /\ call'.sent = 0 /\ call'.ok = TRUE
      /\ op \in Ops /\ "none" \notin Ops
      /\ call.op = "none" /\ call.at = "none"
      /\ call' # NoCall /\ NoReturn.op = "none"
  BY DEF Call, NoCall, NoReturn, Ops
<1>2. Typed'
  BY <1>1 DEF CInv, Typed, Call, NoReturn
<1>3. EngineOk'
  BY EngineQuiet DEF CInv
<1>4. Calls'
  BY <1>1 DEF CInv, Calls
<1>5. Finishes'
  BY DEF CInv, Finishes
<1>6. Nets'
  BY <1>1 DEF CInv, Nets
<1>7. Dues'
  BY <1>1 DEF CInv, Dues, Broken
<1>8. Delivered'
  BY <1>1 DEF CInv, Delivered, Broken
<1> QED
  BY <1>2, <1>3, <1>4, <1>5, <1>6, <1>7, <1>8 DEF CInv

LEMMA StepKeeps ==
  ASSUME CInv, Step
  PROVE  CInv'
<1>1. ASSUME NEW r \in Records, RecvRecord(r) \/ RecvPart(r.type)
      PROVE  CInv'
  BY <1>1, RecvRecordKeeps, RecvOtherKeeps
<1> QED
  BY <1>1, SendOkKeeps, SendEndsKeeps, RecvOtherKeeps, RecvEndsKeeps,
     AfterDriveKeeps, OpenKeeps, WriteKeeps, ReadKeeps, CloseKeeps,
     CloseLoopKeeps, CloseFreeKeeps, HsRunKeeps DEF Step

LEMMA QuietKeeps ==
  ASSUME CInv, UNCHANGED vars
  PROVE  CInv'
<1>1. UNCHANGED <<e, conn, call, net, last, hist>>
  BY DEF vars
<1>2. EngineOk'
  BY <1>1, EngineQuiet DEF CInv
<1>3. Typed' /\ Calls'
  BY <1>1 DEF CInv, Typed, Calls
<1>4. Finishes' /\ Nets' /\ Dues' /\ Delivered'
  BY <1>1 DEF CInv, Finishes, Nets, Dues, Broken, Delivered
<1> QED
  BY <1>2, <1>3, <1>4 DEF CInv

LEMMA InitHolds ==
  ASSUME XInit
  PROVE  CInv /\ XTyped
<1>1. /\ e = InitEngine /\ net = "up" /\ last = NoReturn
      /\ conn = [live |-> TRUE, closed |-> FALSE]
      /\ call = Call("open", 0)
      /\ hist = [accepted |-> 0, due |-> 0, gone |-> 0, finOut |-> FALSE,
                 finIn |-> FALSE]
  BY DEF XInit, Init
<1>2. /\ e.running /\ e.action = 0 /\ e.pc = "handshake" /\ ~e.failed
      /\ e.application_data = 0 /\ e.record_type_in = "handshake"
      /\ e.inbuf = <<>> /\ ~e.took /\ e.hin = <<>>
  BY <1>1 DEF InitEngine, jump_handshake, recvpld_open
<1>3. \E hello, notified \in BOOLEAN : Fine(e, History(hello, notified))
  <2> DEFINE h == History(FALSE, FALSE)
  <2>1. h.written = 0 /\ h.gone = 0 /\ ~h.hello /\ ~h.notified
    BY <1>1 DEF History
  <2> HIDE DEF h
  <2>2. Fine(e, h)
    BY <1>1, <2>1, InitFine
  <2> QED
    BY <2>2 DEF h
<1>4. EngineOk
  BY <1>1, <1>2, <1>3 DEF EngineOk, Unseen
<1>5. Typed
  BY <1>1 DEF Typed, Call, NoReturn, Ops
<1>6. /\ call.op = "open" /\ call.at = "loop" /\ call # NoCall
      /\ conn.live /\ ~conn.closed /\ last = NoReturn /\ last.op = "none"
  BY <1>1 DEF Call, NoCall, NoReturn
<1>7. Calls
  BY <1>1, <1>2, <1>6 DEF Calls
<1>8. Finishes /\ Nets /\ Dues /\ Delivered
  BY <1>1, <1>2, <1>6 DEF Finishes, Nets, Dues, Delivered
<1>9. XTyped
  <2>1. CASE x = NoExchange
    BY <2>1 DEF XTyped, NoExchange
  <2>2. ASSUME NEW n \in Requests, NEW s \in Sizes,
               x = [NoExchange EXCEPT !.at = "opening", !.request = n,
                                      !.size = s]
        PROVE  XTyped
    <3>1. n \in Nat /\ s \in Nat /\ s >= 2
      BY ExchangeAssumption, EngineAssumption
    <3> QED
      BY <2>2, <3>1 DEF XTyped, NoExchange
  <2> QED
    BY <2>1, <2>2 DEF XInit
<1> QED
  BY <1>4, <1>5, <1>7, <1>8, <1>9 DEF CInv

LEMMA InCallKeeps ==
  ASSUME CInv, XTyped, InCall
  PROVE  CInv' /\ XTyped'
<1>1. CInv'
  BY StepKeeps DEF InCall
<1>2. Arrived \in Nat
  <2>1. e'.record_type_in = "app" => Len(e'.inbuf) \in Nat
    BY <1>1 DEF CInv, EngineOk
  <2> QED
    BY <2>1 DEF Arrived
<1>3. XTyped'
  BY <1>2 DEF InCall, XTyped
<1> QED
  BY <1>1, <1>3

\* Where the exchange makes a call, a connection is there.
LEMMA MakeKeeps ==
  ASSUME CInv, XTyped, Opened \/ Written \/ Read \/ Closed
  PROVE  CInv' /\ XTyped'
<1>1. /\ call = NoCall /\ ~e.running
      /\ last.n \in Nat
      /\ x \in [at : {"none", "opening", "writing", "reading", "closing",
                      "done"},
                request : Nat, size : Nat, len : Nat, ok : BOOLEAN, came : Nat]
  BY DEF Opened, Written, Read, Closed, Returned, CInv, Typed, XTyped
<1>2. ASSUME NEW op \in Ops \ {"open"}, NEW len \in Nat, NEW y,
             Make(op, len, y), op = "read" => len >= 1, conn.live
      PROVE  CInv'
  BY <1>1, <1>2, CallKeeps DEF Make
<1>3. ASSUME NEW y, x' = y,
             y \in [at : {"opening", "writing", "reading", "closing", "done"},
                    request : Nat, size : Nat, len : Nat, ok : BOOLEAN,
                    came : Nat],
             y.size >= 2, y.at \in {"opening", "writing"} => y.len = 0 /\ ~y.ok
      PROVE  XTyped'
  BY <1>3 DEF XTyped
<1>4. ASSUME NEW ok \in BOOLEAN, Done(ok), x.size >= 2
      PROVE  CInv' /\ XTyped'
  <2>1. UNCHANGED vars /\ XTyped'
    BY <1>1, <1>4 DEF Done, XTyped
  <2> QED
    BY <2>1, QuietKeeps
<1>5. ASSUME NEW y, ReadMore(y), conn.live, y.size >= 2,
             y \in [at : {"opening", "writing", "reading"},
                    request : Nat, size : Nat, len : Nat, ok : BOOLEAN,
                    came : Nat],
             y.len < y.size - 1
      PROVE  CInv' /\ XTyped'
  <2>1. /\ y.size - y.len - 1 \in Nat /\ y.size - y.len - 1 >= 1
        /\ "read" \in Ops \ {"open"}
    BY <1>5 DEF Ops
  <2>2. XTyped'
    BY <1>5 DEF ReadMore, Make, XTyped
  <2> QED
    BY <1>2, <1>5, <2>1, <2>2 DEF ReadMore
<1>6. ASSUME NEW y, Make("close", 0, [y EXCEPT !.at = "closing"]), conn.live,
             y.size >= 2,
             y \in [at : {"opening", "writing", "reading"},
                    request : Nat, size : Nat, len : Nat, ok : BOOLEAN,
                    came : Nat]
      PROVE  CInv' /\ XTyped'
  <2>1. "close" \in Ops \ {"open"} /\ 0 \in Nat /\ "close" # "read"
    BY DEF Ops
  <2>2. XTyped'
    BY <1>6 DEF Make, XTyped
  <2> DEFINE w == [y EXCEPT !.at = "closing"]
  <2>3. Make("close", 0, w) /\ conn.live
    BY <1>6
  <2> HIDE DEF w
  <2>4. CInv'
    BY <1>2, <2>1, <2>3
  <2> QED
    BY <2>2, <2>4
<1>7. last.op # "close" /\ last.ok => conn.live
  BY DEF CInv, Calls
<1>8. CASE Opened
  <2>1. /\ x.at = "opening" /\ last.op = "open" /\ x.size >= 2
        /\ x.len = 0 /\ ~x.ok
    BY <1>8 DEF Opened, Returned, XTyped
  <2>2. CASE last.ok
    <3> DEFINE y == [x EXCEPT !.at = "writing"]
    <3>1. Make("write", x.request, y)
      BY <1>8, <2>2 DEF Opened
    <3>2. "write" \in Ops \ {"open"} /\ x.request \in Nat /\ conn.live
      BY <1>1, <1>7, <2>1, <2>2 DEF Ops
    <3>3. XTyped'
      BY <1>1, <2>1, <3>1 DEF Make, XTyped
    <3>4. CInv'
      <4> HIDE DEF y
      <4> QED
        BY <1>2, <3>1, <3>2
    <3> QED
      BY <3>3, <3>4
  <2>3. CASE ~last.ok
    BY <1>4, <1>8, <2>1, <2>3 DEF Opened
  <2> QED
    BY <2>2, <2>3
<1>9. conn.live \/ last.op = "open" \/ last.op = "close"
  BY DEF CInv, Calls
<1>10. CASE Written
  <2>1. /\ x.at = "writing" /\ last.op = "write" /\ x.size >= 2 /\ x.len = 0
        /\ conn.live
    BY <1>9, <1>10 DEF Written, Returned, XTyped
  <2>2. CASE last.ok
    <3>1. ReadMore(x) /\ x.len < x.size - 1
      BY <1>1, <1>10, <2>1, <2>2 DEF Written
    <3> QED
      BY <1>1, <1>5, <2>1, <3>1
  <2>3. CASE ~last.ok
    <3> DEFINE y == [x EXCEPT !.ok = FALSE]
    <3>1. Make("close", 0, [y EXCEPT !.at = "closing"])
      BY <1>1, <1>10, <2>3 DEF Written, GiveUp, Make
    <3>2. /\ y.size >= 2
          /\ y \in [at : {"opening", "writing", "reading"},
                    request : Nat, size : Nat, len : Nat, ok : BOOLEAN,
                    came : Nat]
      BY <1>1, <2>1
    <3> HIDE DEF y
    <3> QED
      BY <1>6, <2>1, <3>1, <3>2
  <2> QED
    BY <2>2, <2>3
<1>11. CASE Read
  <2> DEFINE y == [x EXCEPT !.len = @ + last.n, !.ok = @ \/ last.n > 0]
             z == [x EXCEPT !.ok = FALSE]
  <2>1. x.at = "reading" /\ last.op = "read" /\ x.size >= 2 /\ conn.live
    BY <1>9, <1>11 DEF Read, Returned, XTyped
  <2>2. \/ Make("close", 0, [z EXCEPT !.at = "closing"])
        \/ Make("close", 0, [y EXCEPT !.at = "closing"])
        \/ ReadMore(y) /\ ~(y.len >= x.size - 1)
    BY <1>1, <1>11 DEF Read, GiveUp, Make
  <2>3. /\ y.size >= 2 /\ z.size >= 2 /\ y.size = x.size
        /\ {y, z} \subseteq
             [at : {"opening", "writing", "reading"}, request : Nat,
              size : Nat, len : Nat, ok : BOOLEAN, came : Nat]
    <3>1. x.len + last.n \in Nat /\ (x.ok \/ last.n > 0) \in BOOLEAN
      BY <1>1
    <3>2. y \in [at : {"opening", "writing", "reading"}, request : Nat,
                 size : Nat, len : Nat, ok : BOOLEAN, came : Nat]
      BY <1>1, <2>1, <3>1
    <3>3. z \in [at : {"opening", "writing", "reading"}, request : Nat,
                 size : Nat, len : Nat, ok : BOOLEAN, came : Nat]
      BY <1>1, <2>1
    <3>4. y.size = x.size /\ z.size = x.size
      BY <1>1
    <3> QED
      BY <2>1, <3>2, <3>3, <3>4
  <2> HIDE DEF y, z
  <2>4. ~(y.len >= x.size - 1) => y.len < y.size - 1
    BY <2>3
  <2> QED
    BY <1>5, <1>6, <2>1, <2>2, <2>3, <2>4
<1>12. CASE Closed
  <2>1. Done(x.ok) /\ x.ok \in BOOLEAN /\ x.size >= 2
    BY <1>1, <1>12 DEF Closed, XTyped
  <2> QED
    BY <1>4, <2>1
<1> QED
  BY <1>8, <1>10, <1>11, <1>12

LEMMA NextKeeps ==
  ASSUME CInv, XTyped, [XNext]_xvars
  PROVE  CInv' /\ XTyped'
<1>1. CASE x.at = "none" /\ Begin /\ UNCHANGED x
  <2>1. /\ call = NoCall /\ conn.live /\ ~e.running /\ last' = NoReturn
        /\ UNCHANGED <<e, conn, net, hist>>
    BY <1>1 DEF Begin
  <2>2. PICK op \in Ops \ {"open"}, len \in Nat :
          call' = Call(op, len) /\ (op = "read" => len >= 1)
    <3>1. Lengths \subseteq Nat /\ 0 \in Nat
      BY ConnectionAssumption
    <3>2. {"write", "read", "close"} \subseteq Ops \ {"open"}
      BY DEF Ops
    <3>3. CASE \E len \in Lengths : call' = Call("write", len)
      BY <3>1, <3>2, <3>3
    <3>4. CASE \E len \in Lengths \ {0} : call' = Call("read", len)
      BY <3>1, <3>2, <3>4
    <3>5. CASE call' = Call("close", 0)
      BY <3>1, <3>2, <3>5
    <3> QED
      BY <1>1, <3>3, <3>4, <3>5 DEF Begin
  <2>3. CInv'
    BY <2>1, <2>2, CallKeeps
  <2> QED
    BY <1>1, <2>3 DEF XTyped
<1>2. CASE UNCHANGED xvars
  <2>1. UNCHANGED vars /\ XTyped'
    BY <1>2 DEF xvars, XTyped
  <2> QED
    BY <2>1, QuietKeeps
<1> QED
  BY <1>1, <1>2, InCallKeeps, MakeKeeps DEF XNext

\* The invariant of the streaming API and of the exchanges: the engine is one
\* that the handshake processor can have left, every call is where it may be,
\* and the connection, the socket and the engine go together.
THEOREM ConnectionInvariant == XSpec => [](CInv /\ XTyped)
<1>1. XInit => CInv /\ XTyped
  BY InitHolds
<1>2. (CInv /\ XTyped) /\ [XNext]_xvars => (CInv /\ XTyped)'
  BY NextKeeps
<1> QED
  BY <1>1, <1>2, PTL DEF XSpec

\* The caller blocks in recv() only when nothing waits to be sent, whatever
\* the peer does and whatever the caller writes (wm_tls_drive_records).
THEOREM NothingWithheld == XSpec => []NeverWaitsWithOutput
<1>1. CInv => NeverWaitsWithOutput
  BY DEF CInv, Calls, NeverWaitsWithOutput
<1> QED
  BY <1>1, ConnectionInvariant, PTL

\* A connection that is closed while the socket works has sent what was
\* accepted before the end of the stream, unless TLS failed (wm_tls_close).
THEOREM CloseDelivers == XSpec => []CloseSendsAll
<1>1. CInv => CloseSendsAll
  BY DEF CInv, Dues, Broken, CloseSendsAll
<1> QED
  BY <1>1, ConnectionInvariant, PTL

-----------------------------------------------------------------------------
\* wm_tls_open returns a connection when the engine has the application's floor
\* and what it sent is gone.
LEMMA OpenReturns ==
  ASSUME CInv, wm_tls_open
  PROVE  last'.op = "open" /\ last'.ok => hist'.finOut /\ hist'.finIn
<1>1. CASE State \cap {"SENDAPP", "RECVAPP"} # {}
  <2>1. sendapp_open(e) \/ recvapp_open(e)
    BY <1>1, States
  <2>2. /\ e.application_data = 1 /\ ~e.failed
        /\ e.outrec = NoRec \/ (e.record_type_in = "app" /\ e.inbuf # <<>>)
    BY <2>1, Opens
  <2>3. e.outrec = NoRec => ~Holds(e, "finished")
    BY DEF Holds
  <2>4. hist.finIn /\ hist.finOut
    BY <2>2, <2>3 DEF CInv, Typed, Finishes
  <2> QED
    BY <2>4 DEF wm_tls_open
<1>2. CASE State \cap {"SENDAPP", "RECVAPP"} = {}
  <2>1. last' = last
    BY <1>2 DEF wm_tls_open, Drive, Driven
  <2>2. last = NoReturn
    BY DEF wm_tls_open, At, CInv, Calls, NoCall
  <2> QED
    BY <2>1, <2>2 DEF NoReturn
<1> QED
  BY <1>1, <1>2

\* The Finished messages stay exchanged.
LEMMA FinishedStays ==
  ASSUME CInv, Step
  PROVE  (hist.finIn => hist'.finIn) /\ (hist.finOut => hist'.finOut)
<1>1. hist \in [accepted : Nat, due : Nat, gone : Nat, finOut : BOOLEAN,
                finIn : BOOLEAN]
  BY DEF CInv, Typed
<1>2. CASE SendOk
  BY <1>1, <1>2 DEF SendOk
<1>3. CASE HsRun
  BY <1>1, <1>3 DEF HsRun
<1>4. CASE wm_tls_write
  <2>1. hist' = hist \/ WriteUnit
    BY <1>4, WriteCases
  <2> QED
    BY <1>1, <2>1 DEF WriteUnit
<1>5. CASE hist' = hist
  BY <1>5
<1> QED
  BY <1>2, <1>3, <1>4, <1>5
     DEF Step, SendError, SendDone, RecvRecord, RecvPart, RecvBad, RecvEof,
         RecvError, AfterDrive, wm_tls_open, wm_tls_read, wm_tls_close,
         CloseLoop, CloseFree

\* A call returns what its own operation says.
LEMMA ReturnsOwn ==
  ASSUME CInv, Step
  PROVE  \/ last' = last
         \/ last'.op = call.op /\ call.op \in Ops \ {"open"}
         \/ last'.op = "open" /\ (wm_tls_open \/ ~last'.ok)
<1>1. ASSUME NEW ok, NEW n, Return(ok, n)
      PROVE  last'.op = call.op /\ last'.ok = ok
  BY <1>1 DEF Return
<1>2. CASE wm_tls_open
  <2>1. call.op = "open"
    BY <1>2 DEF wm_tls_open, At
  <2>2. last' = last \/ Return(TRUE, 0)
    BY <1>2 DEF wm_tls_open, Drive, Driven
  <2> QED
    BY <1>1, <1>2, <2>1, <2>2
<1>3. CASE wm_tls_write
  <2>1. call.op = "write" /\ call.op \in Ops \ {"open"}
    BY <1>3 DEF wm_tls_write, At, Ops
  <2>2. last' = last \/ \E ok, n : Return(ok, n)
    BY <1>3, WriteCases DEF Drive, Driven
  <2> QED
    BY <1>1, <2>1, <2>2
<1>4. CASE wm_tls_read
  <2>1. call.op = "read" /\ call.op \in Ops \ {"open"}
    BY <1>4 DEF wm_tls_read, At, Ops
  <2>2. last' = last \/ \E ok, n : Return(ok, n)
    BY <1>4 DEF wm_tls_read, Drive, Driven
  <2> QED
    BY <1>1, <2>1, <2>2
<1>5. CASE AfterDrive
  <2>1. call.op \in Ops
    BY <1>5 DEF AfterDrive, At
  <2>2. CASE call.op = "open"
    <3>1. last' = last \/ Free(FALSE)
      BY <1>5, <2>2 DEF AfterDrive
    <3>2. last' = last \/ Return(FALSE, 0)
      BY <3>1 DEF Free
    <3> QED
      BY <1>1, <2>2, <3>2
  <2>3. CASE call.op = "close"
    BY <1>5, <2>3 DEF AfterDrive
  <2>4. CASE call.op = "write"
    <3>1. last' = last \/ Return(FALSE, call.sent)
      BY <1>5, <2>4 DEF AfterDrive
    <3> QED
      BY <1>1, <2>1, <2>4, <3>1
  <2>5. CASE call.op = "read"
    <3>1. last' = last \/ Return(call.ok, 0)
      BY <1>5, <2>5 DEF AfterDrive
    <3> QED
      BY <1>1, <2>1, <2>5, <3>1
  <2> QED
    BY <2>1, <2>2, <2>3, <2>4, <2>5 DEF Ops
<1>6. CASE CloseFree
  <2>1. call.op = "close" /\ call.op \in Ops \ {"open"} /\ Return(TRUE, 0)
    BY <1>6 DEF CloseFree, At, Free, Ops
  <2> QED
    BY <1>1, <2>1
<1>7. CASE last' = last
  BY <1>7
<1> QED
  BY <1>2, <1>3, <1>4, <1>5, <1>6, <1>7
     DEF Step, SendOk, SendError, SendDone, Driven, RecvRecord, RecvPart,
         RecvBad, RecvEof, RecvError, wm_tls_close, CloseLoop, HsRun

\* No connection is returned before both Finished messages were exchanged,
\* whatever the server sends (wm_tls_open).
THEOREM OpenAfterFinished == XSpec => []OpenMeansFinished
<1>1. XInit => OpenMeansFinished
  <2> SUFFICES ASSUME XInit PROVE OpenMeansFinished
    OBVIOUS
  <2>1. last = NoReturn /\ NoReturn.op = "none"
    BY DEF XInit, Init, NoReturn
  <2> QED
    BY <2>1 DEF OpenMeansFinished
<1>2. ASSUME CInv, OpenMeansFinished, [XNext]_xvars
      PROVE  OpenMeansFinished'
  <2>1. CASE Step
    BY <1>2, <2>1, FinishedStays, ReturnsOwn, OpenReturns
       DEF OpenMeansFinished, Ops
  <2>2. CASE hist' = hist /\ (last' = last \/ last' = NoReturn)
    BY <1>2, <2>2 DEF OpenMeansFinished, NoReturn
  <2>3. Step \/ (hist' = hist /\ (last' = last \/ last' = NoReturn))
    BY <1>2 DEF XNext, Begin, InCall, Opened, Written, Read, Closed, Make,
                GiveUp, ReadMore, Done, xvars, vars
  <2> QED
    BY <2>1, <2>2, <2>3
<1> QED
  BY <1>1, <1>2, ConnectionInvariant, PTL DEF XSpec

-----------------------------------------------------------------------------
\* A step is taken in a call, and nothing has been returned yet.
LEMMA StepFresh ==
  ASSUME CInv, Step
  PROVE  call # NoCall /\ conn.live /\ last = NoReturn
<1>1. e.running \/ call.op \in Ops
  BY DEF Step, SendOk, SendError, SendDone, RecvRecord, RecvPart, RecvBad,
         RecvEof, RecvError, AfterDrive, wm_tls_open, wm_tls_write,
         wm_tls_read, wm_tls_close, CloseLoop, CloseFree, HsRun, At, Ops
<1>2. call # NoCall
  BY <1>1 DEF CInv, Calls, Ops, NoCall
<1> QED
  BY <1>2 DEF CInv, Calls

\* The ends of wm_tls_read: with data, at the end of the stream, or with an
\* error; or it goes on.
LEMMA ReadCases ==
  ASSUME CInv, wm_tls_read
  PROVE  /\ call.at = "loop" /\ call.op = "read" /\ ~e.running
         /\ UNCHANGED <<net, hist>>
         /\ \/ /\ e.failed /\ conn' = [conn EXCEPT !.closed = TRUE]
               /\ Return(ReadOfClosed, 0) /\ UNCHANGED e
            \/ /\ recvapp_open(e) /\ UNCHANGED conn
               /\ \E n \in Nat \ {0} :
                    /\ n <= Len(e.inbuf) /\ n <= call.len
                    /\ n = call.len \/ n = Len(e.inbuf)
                    /\ e' = [e EXCEPT !.inbuf = SubSeq(@, n + 1, Len(@))]
                    /\ Return(TRUE, n)
            \/ Drive /\ UNCHANGED e
<1>1. /\ call.at = "loop" /\ call.op = "read" /\ ~e.running
      /\ UNCHANGED <<net, hist>>
      /\ call.len \in Nat /\ call.len >= 1
  BY DEF wm_tls_read, At, CInv, Typed, Nets
<1>2. CASE "CLOSED" \in State
  BY <1>1, <1>2, States, Opens DEF wm_tls_read
<1>3. CASE "RECVAPP" \in State
  <2> DEFINE n == IF Len(e.inbuf) < call.len THEN Len(e.inbuf) ELSE call.len
  <2>1. "CLOSED" \notin State /\ recvapp_open(e)
    BY <1>3, States, Opens
  <2>2. /\ e' = [e EXCEPT !.inbuf = SubSeq(@, n + 1, Len(@))]
        /\ Return(TRUE, n) /\ UNCHANGED conn
    BY <1>3, <2>1 DEF wm_tls_read
  <2>3. e.inbuf \in Seq(InUnits) /\ e.inbuf # <<>>
    BY <2>1, Opens DEF CInv, EngineOk
  <2>4. Len(e.inbuf) \in Nat /\ Len(e.inbuf) # 0
    BY <2>3
  <2>5. /\ n \in Nat \ {0} /\ n <= Len(e.inbuf) /\ n <= call.len
        /\ n = call.len \/ n = Len(e.inbuf)
    BY <1>1, <2>4
  <2> HIDE DEF n
  <2> QED
    BY <1>1, <2>1, <2>2, <2>5
<1>4. CASE "CLOSED" \notin State /\ "RECVAPP" \notin State
  BY <1>1, <1>4 DEF wm_tls_read
<1> QED
  BY <1>2, <1>3, <1>4

\* What wm_tls_read takes for the end.
LEMMA ReadEnds ==
  ASSUME CInv, Step, last'.op = "read", last'.ok
  PROVE  \/ /\ wm_tls_read /\ e.failed /\ Return(ReadOfClosed, 0)
            /\ conn' = [conn EXCEPT !.closed = TRUE]
            /\ UNCHANGED <<e, net, hist>> /\ ReadOfClosed
         \/ wm_tls_read /\ recvapp_open(e) /\ last'.n # 0
         \/ /\ AfterDrive /\ Return(TRUE, 0) /\ call.op = "read" /\ call.ok
            /\ call.at = "driven" /\ conn.closed /\ net = "eof"
            /\ UNCHANGED <<e, conn, net, hist>>
<1>1. last = NoReturn /\ NoReturn.op = "none" /\ call.op = "read"
  BY StepFresh, ReturnsOwn DEF NoReturn
<1>2. last' # last
  BY <1>1
<1>3. AfterDrive \/ wm_tls_read
  BY <1>1, <1>2
     DEF Step, SendOk, SendError, SendDone, Driven, RecvRecord, RecvPart,
         RecvBad, RecvEof, RecvError, wm_tls_open, wm_tls_write, wm_tls_close,
         CloseLoop, CloseFree, HsRun, At
<1>4. CASE AfterDrive
  <2>1. /\ call.at = "driven" /\ UNCHANGED <<e, net, hist>>
        /\ \/ last' = last
           \/ Return(call.ok, 0) /\ UNCHANGED conn /\ (~call.ok \/ conn.closed)
    BY <1>1, <1>4 DEF AfterDrive, At
  <2>2. /\ Return(call.ok, 0) /\ UNCHANGED conn /\ (~call.ok \/ conn.closed)
    BY <1>2, <2>1
  <2>3. call.ok = TRUE
    BY <2>2 DEF Return, CInv, Typed
  <2>4. conn.closed /\ net = "eof"
    BY <2>1, <2>2, <2>3 DEF CInv, Typed, Nets
  <2> QED
    BY <1>1, <1>4, <2>1, <2>2, <2>3, <2>4
<1>5. CASE wm_tls_read
  <2>1. ASSUME Drive PROVE FALSE
    BY <1>2, <2>1 DEF Drive, Driven
  <2> QED
    BY <1>5, <2>1, ReadCases DEF Return
<1> QED
  BY <1>3, <1>4, <1>5

\* A caller that looks at the result takes for the end only what the peer has
\* ended: its close_notify was read, or it closed the socket (wm_tls_read).
THEOREM EndIsAnEnd ==
  ASSUME WithResult
  PROVE  XSpec => []EndMeansClosed
<1>1. XInit => EndMeansClosed
  <2> SUFFICES ASSUME XInit PROVE EndMeansClosed
    OBVIOUS
  <2>1. last = NoReturn /\ NoReturn.op = "none"
    BY DEF XInit, Init, NoReturn
  <2> QED
    BY <2>1 DEF EndMeansClosed
<1>2. ASSUME CInv, EndMeansClosed, [XNext]_xvars
      PROVE  EndMeansClosed'
  <2>1. CASE Step
    <3> SUFFICES ASSUME last'.op = "read", last'.ok, last'.n = 0
                 PROVE  e'.shutdown_recv \/ net' = "eof"
      BY DEF EndMeansClosed
    <3>1. CASE e.failed /\ ReadOfClosed /\ UNCHANGED <<e, net>>
      <4>1. e.err = "ok"
        BY <3>1 DEF ReadOfClosed
      <4> QED
        BY <1>2, <3>1, <4>1, EngineFacts DEF CInv
    <3> QED
      BY <1>2, <2>1, <3>1, ReadEnds
  <2>2. CASE UNCHANGED <<e, net>> /\ (last' = last \/ last' = NoReturn)
    <3>1. NoReturn.op = "none"
      BY DEF NoReturn
    <3> QED
      BY <1>2, <2>2, <3>1 DEF EndMeansClosed
  <2>3. Step \/ (UNCHANGED <<e, net>> /\ (last' = last \/ last' = NoReturn))
    BY <1>2 DEF XNext, Begin, InCall, Opened, Written, Read, Closed, Make,
                GiveUp, ReadMore, Done, xvars, vars
  <2> QED
    BY <2>1, <2>2, <2>3
<1> QED
  BY <1>1, <1>2, ConnectionInvariant, PTL DEF XSpec

-----------------------------------------------------------------------------
(* The exchange.                                                           *)

XGood == CInv /\ XTyped /\ EndMeansClosed /\ XInv

\* Which call an exchange makes.
Making(op) ==
  \/ x.at = "opening" /\ op = "open"
  \/ x.at = "writing" /\ op = "write"
  \/ x.at = "reading" /\ op = "read"
  \/ x.at = "closing" /\ op = "close"

LEMMA Amounts ==
  ASSUME CInv, XTyped
  PROVE  /\ Buffered \in Nat /\ Unread \in Nat
         /\ x.len \in Nat /\ x.came \in Nat /\ x.size \in Nat
         /\ x.request \in Nat /\ x.ok \in BOOLEAN
         /\ hist.accepted \in Nat /\ hist.due \in Nat /\ hist.gone \in Nat
         /\ call.len \in Nat /\ call.sent \in Nat
         /\ call # NoCall => Unread = 0
         /\ e.inbuf = <<>> => Buffered = 0
         /\ e.record_type_in # "app" => Buffered = 0
<1>1. e.record_type_in = "app" => Len(e.inbuf) \in Nat
  BY DEF CInv, EngineOk
<1>2. Buffered \in Nat /\ (e.inbuf = <<>> => Buffered = 0)
  BY <1>1 DEF Buffered
<1> QED
  BY <1>2 DEF Buffered, Unread, CInv, Typed, XTyped

LEMMA XWhere ==
  ASSUME XGood, Step, x.at # "none"
  PROVE  /\ Making(call.op) /\ x.at \in {"opening", "writing", "reading", "closing"}
         /\ call # NoCall /\ conn.live /\ last = NoReturn
         /\ hist.due = hist.accepted /\ Unread = 0
<1>1. call # NoCall /\ conn.live /\ last = NoReturn /\ last.op = "none"
  BY StepFresh DEF XGood, NoReturn
<1>2. x.at # "done"
  BY <1>1 DEF XGood, XInv, XCalls
<1>3. x.at \in {"opening", "writing", "reading", "closing"}
  BY <1>2 DEF XGood, XTyped
<1>4. Making(call.op)
  <2>1. \A op \in Ops : op \in {call.op, last.op} => op = call.op
    BY <1>1 DEF Ops
  <2>2. XCalls
    BY DEF XGood, XInv
  <2> QED
    BY <1>3, <2>1, <2>2 DEF XCalls, Making, Ops
<1>5. hist.due = hist.accepted /\ Unread = 0
  BY <1>1 DEF XGood, XInv, XCalls, Unread
<1> QED
  BY <1>1, <1>3, <1>4, <1>5

\* The call of an exchange goes on.
LEMMA XStays ==
  ASSUME XGood, Step, x.at # "none", CInv', XTyped',
         x' = [x EXCEPT !.came = @ + Arrived], Arrived \in Nat,
         call' # NoCall, call'.op = call.op, call'.len = call.len,
         call'.sent = call.sent, last' = last,
         hist'.accepted = hist.accepted, hist'.due = hist.due,
         call.op # "close" /\ call'.at \in {"loop", "send", "recv"} =>
           ~conn'.closed,
         call.op # "close" /\ call'.at = "driven" /\ call'.ok /\ conn'.closed =>
           e'.inbuf = <<>> /\ net' = "eof" /\ ~e'.failed /\ ~e'.running,
         call.op # "close" /\ ~Broken' =>
           ~Broken /\ Buffered' = Buffered + Arrived,
         call.op = "close" /\ x.ok =>
           /\ ~Broken' /\ (Whole => Whole')
           /\ conn.closed \/ e.record_type_in = "app" =>
                conn'.closed \/ e'.record_type_in = "app"
  PROVE  XInv'
<1>1. /\ Making(call.op) /\ x.at \in {"opening", "writing", "reading", "closing"}
      /\ hist.due = hist.accepted /\ Unread = 0 /\ last = NoReturn
      /\ call # NoCall
  BY XWhere
<1>2. /\ x'.at = x.at /\ x'.request = x.request /\ x'.size = x.size
      /\ x'.len = x.len /\ x'.ok = x.ok /\ x'.came = x.came + Arrived
  BY DEF XGood, XTyped
<1>3. /\ Unread' = 0
      /\ x.len \in Nat /\ x.came \in Nat /\ Buffered \in Nat
  BY Amounts DEF Unread, XGood
<1>4. XCalls'
  BY <1>1, <1>2 DEF XGood, XInv, XCalls, Making
<1>5. XCounts'
  <2>1. /\ x'.at = "opening" => hist'.accepted = 0
        /\ x'.at = "writing" /\ call'.op = "write" =>
             hist'.accepted = call'.sent /\ call'.len = x'.request
        /\ x'.at = "reading" \/ (x'.at \in {"closing", "done"} /\ x'.ok) =>
             hist'.accepted = x'.request
    BY <1>1, <1>2 DEF XGood, XInv, XCounts
  <2>2. x'.at = "reading" =>
          /\ x'.len + Unread' <= x'.size - 1 /\ x'.len < x'.size - 1
          /\ call'.op = "read" => call'.len = x'.size - x'.len - 1
    BY <1>1, <1>2, <1>3 DEF XGood, XInv, XCounts
  <2>3. x'.at \in {"opening", "writing", "reading"} /\ ~Broken' =>
          x'.came = x'.len + Unread' + Buffered'
    <3> SUFFICES ASSUME x'.at \in {"opening", "writing", "reading"}, ~Broken'
                 PROVE  x'.came = x'.len + Unread' + Buffered'
      OBVIOUS
    <3>1. call.op # "close"
      BY <1>1, <1>2 DEF Making
    <3>2. ~Broken /\ Buffered' = Buffered + Arrived
      BY <3>1
    <3>3. x.came = x.len + Unread + Buffered
      BY <1>2, <3>2 DEF XGood, XInv, XCounts
    <3> QED
      BY <1>1, <1>2, <1>3, <3>2, <3>3
  <2>4. x'.at \in {"closing", "done"} /\ x'.ok =>
          /\ Whole' /\ ~Broken'
          /\ x'.at = "closing" => conn'.closed \/ e'.record_type_in = "app"
    BY <1>1, <1>2 DEF XGood, XInv, XCounts, Making
  <2> QED
    BY <2>1, <2>2, <2>3, <2>4 DEF XCounts
<1> QED
  BY <1>4, <1>5 DEF XInv

LEMMA WholeStays ==
  ASSUME XTyped, x' = [x EXCEPT !.came = @ + Arrived], Arrived = 0, Whole,
         conn.closed => /\ conn'.closed
                        /\ e.shutdown_recv => e'.shutdown_recv
                        /\ net = "eof" => net' = "eof"
  PROVE  Whole'
<1>1. /\ x'.len = x.len /\ x'.size = x.size /\ x'.came = x.came
  BY DEF XTyped
<1> QED
  BY <1>1 DEF Whole

\* Without a receive nothing arrives; the engine is as it was.
LEMMA XWaits ==
  ASSUME XGood, Step, x.at # "none", CInv', XTyped',
         x' = [x EXCEPT !.came = @ + Arrived], call.at # "recv",
         call' # NoCall, call'.op = call.op, call'.len = call.len,
         call'.sent = call.sent, last' = last,
         hist'.accepted = hist.accepted, hist'.due = hist.due,
         Same(e, e'), call.op # "close" => ~conn'.closed \/ ~call'.ok,
         call.op # "close" /\ call'.at \in {"loop", "send", "recv"} =>
           ~conn'.closed,
         conn.closed /\ call.op = "close" => conn'.closed /\ net' = net
  PROVE  XInv'
<1>1. Arrived = 0 /\ Arrived \in Nat
  BY DEF Arrived
<1>2. /\ Buffered' = Buffered /\ Broken' = Broken
      /\ e'.record_type_in = e.record_type_in
      /\ e'.shutdown_recv = e.shutdown_recv
  BY DEF Same, Buffered, Broken
<1>3. Buffered' = Buffered + Arrived
  BY <1>1, <1>2, Amounts DEF XGood
<1>4. ASSUME call.op = "close", x.ok
      PROVE  /\ ~Broken' /\ (Whole => Whole')
             /\ conn.closed \/ e.record_type_in = "app" =>
                  conn'.closed \/ e'.record_type_in = "app"
  <2>1. x.at = "closing"
    BY <1>4, XWhere DEF Making
  <2>2. ~Broken
    BY <1>4, <2>1 DEF XGood, XInv, XCounts
  <2>3. Whole => Whole'
    BY <1>1, <1>2, <1>4, WholeStays DEF XGood
  <2> QED
    BY <1>2, <1>4, <2>2, <2>3
<1> QED
  BY <1>1, <1>2, <1>3, <1>4, XStays

\* A step that sends.
LEMMA XSends ==
  ASSUME XGood, x.at # "none", CInv', XTyped', InCall,
         SendOk \/ SendError \/ SendDone
  PROVE  XInv'
<1>1. /\ call.at = "send" /\ call.op \in Ops /\ conn' = conn /\ last' = last
      /\ ~conn.closed \/ call.op # "close"
      /\ x' = [x EXCEPT !.came = @ + Arrived] /\ Step
  BY DEF SendOk, SendError, SendDone, Driven, At, InCall, XGood, CInv, Nets
<1>2. ~conn.closed
  BY <1>1, XWhere DEF XGood, XInv, XCalls
<1>3. CASE SendOk
  <2>1. Same(e, e') /\ call' = call
    BY <1>3, SendEffect DEF SendOk, At, XGood, CInv
  <2>2. hist'.accepted = hist.accepted /\ hist'.due = hist.due
    BY <1>3 DEF SendOk, XGood, CInv, Typed
  <2> QED
    BY <1>1, <1>2, <2>1, <2>2, XWhere, XWaits
<1>4. CASE SendError \/ SendDone
  <2>1. /\ e' = e /\ hist' = hist
        /\ \E ok \in BOOLEAN : call' = [call EXCEPT !.at = "driven", !.ok = ok]
    BY <1>4 DEF SendError, SendDone, Driven
  <2>2. /\ call'.op = call.op /\ call'.at = "driven" /\ call'.len = call.len
        /\ call'.sent = call.sent /\ call' # NoCall
    BY <1>1, <2>1, CallGoes DEF XGood, CInv
  <2>3. Same(e, e')
    BY <2>1 DEF Same
  <2> QED
    BY <1>1, <1>2, <2>1, <2>2, <2>3, XWaits
<1> QED
  BY <1>3, <1>4

\* A step that receives.
LEMMA XReceives ==
  ASSUME XGood, x.at # "none", CInv', XTyped', InCall,
         \/ \E r \in Records : RecvRecord(r) \/ RecvPart(r.type)
         \/ RecvBad \/ RecvEof \/ RecvError
  PROVE  XInv'
<1>1. /\ call.at = "recv" /\ call.op \in Ops /\ ~e.running
      /\ last' = last /\ hist' = hist /\ Step
      /\ x' = [x EXCEPT !.came = @ + Arrived]
      /\ \E ok \in BOOLEAN : call' = [call EXCEPT !.at = "driven", !.ok = ok]
  BY DEF RecvRecord, RecvPart, RecvBad, RecvEof, RecvError, Driven, At, InCall
<1>2. /\ call'.op = call.op /\ call'.at = "driven" /\ call'.len = call.len
      /\ call'.sent = call.sent /\ call' # NoCall
  BY <1>1, CallGoes DEF XGood, CInv
<1>3. /\ recvrec_open(e) /\ ~e.failed /\ e.inbuf = <<>> /\ call.op # "close"
      /\ ~conn.closed
  BY <1>1, XWhere, Opens DEF XGood, CInv, Calls, XInv, XCalls
<1>4. Arrived = IF e'.application_data = 1 /\ e'.record_type_in = "app"
                THEN Len(e'.inbuf) ELSE 0
  BY <1>1 DEF Arrived
<1>5. Buffered = 0 /\ ~Broken
  BY <1>3, Amounts DEF XGood, Broken
<1>6. Arrived \in Nat
  <2>1. e'.record_type_in = "app" => Len(e'.inbuf) \in Nat
    BY DEF CInv, EngineOk
  <2> QED
    BY <1>4, <2>1
<1>7. ~Broken' => Buffered' = Arrived
  <2>1. e'.inbuf = <<>> => Buffered' = 0 /\ Arrived = 0
    BY <1>4 DEF Buffered
  <2>2. ASSUME NEW r \in Records, RecvRecord(r)
        PROVE  ~Broken' => Buffered' = Arrived
    <3>1. /\ e'.record_type_in = r.type
          /\ e'.application_data = e.application_data
          /\ \/ e'.inbuf = <<>>
             \/ r.type # "app"
             \/ r.type = "app" /\ e.application_data = 1
             \/ e'.failed /\ e'.err # "ok"
      BY <1>1, <1>3, <2>2, RecvEffect DEF RecvRecord, XGood, CInv
    <3> QED
      BY <1>4, <2>1, <3>1 DEF Buffered, Broken
  <2>3. ASSUME NEW type, RecvPart(type)
        PROVE  e'.inbuf = <<>>
    BY <1>1, <1>3, <2>3, PartEffect DEF RecvPart, XGood, CInv
  <2>4. CASE RecvBad
    BY <1>1, <1>3, <2>4, BadEffect DEF RecvBad, XGood, CInv, Broken
  <2>5. CASE RecvEof \/ RecvError
    <3>1. e'.inbuf = <<>>
      BY <1>3, <2>5 DEF RecvEof, RecvError
    <3> QED
      BY <2>1, <3>1
  <2> QED
    BY <2>1, <2>2, <2>3, <2>4, <2>5
<1>8. ~Broken' => Buffered' = Buffered + Arrived
  BY <1>5, <1>6, <1>7
<1>9. conn'.closed => /\ e'.inbuf = <<>> /\ net' = "eof" /\ ~e'.failed
                      /\ ~e'.running
  <2>1. conn' = conn \/ RecvEof
    BY DEF RecvRecord, RecvPart, RecvBad, RecvError
  <2>2. RecvEof => e' = e /\ net' = "eof"
    BY DEF RecvEof
  <2> QED
    BY <1>1, <1>3, <2>1, <2>2
<1> QED
  BY <1>1, <1>2, <1>3, <1>5, <1>6, <1>8, <1>9, XStays

\* A call of an exchange returns.
LEMMA XReturns ==
  ASSUME XGood, Step, x.at # "none", CInv', XTyped',
         x' = [x EXCEPT !.came = @ + Arrived], call.at # "recv",
         call.op # "close", NEW ok \in BOOLEAN, NEW n \in Nat, Return(ok, n),
         hist' = hist,
         call.op # "read" => e' = e /\ (ok => ~conn'.closed),
         call.op = "write" /\ ok => call.sent = call.len,
         call.op = "read" =>
           /\ n <= call.len
           /\ ~Broken' => ~Broken /\ Buffered = n + Buffered'
           /\ ok => /\ ~Broken'
                    /\ n = 0 => Buffered' = 0 /\ conn'.closed
                    /\ n # 0 => e'.record_type_in = "app" /\ ~conn'.closed
  PROVE  XInv'
<1>1. /\ Making(call.op) /\ x.at \in {"opening", "writing", "reading", "closing"}
      /\ hist.due = hist.accepted /\ Unread = 0
  BY XWhere
<1>2. /\ x'.at = x.at /\ x'.request = x.request /\ x'.size = x.size
      /\ x'.len = x.len /\ x'.ok = x.ok /\ x'.came = x.came
  BY DEF XGood, XTyped, Arrived
<1>3. /\ call' = NoCall /\ NoCall.op = "none" /\ NoCall.at = "none"
      /\ last'.op = call.op /\ last'.ok = ok /\ last'.n = n
  BY DEF Return, NoCall
<1>4. /\ x.len \in Nat /\ x.came \in Nat /\ x.size \in Nat /\ Buffered \in Nat
      /\ call.len \in Nat /\ hist.accepted \in Nat
  BY Amounts DEF XGood
<1>5. Unread' = IF x.at = "reading" THEN n ELSE 0
  BY <1>2, <1>3 DEF Unread
<1>6. Buffered' \in Nat
  <2>1. e'.record_type_in = "app" => Len(e'.inbuf) \in Nat
    BY DEF CInv, EngineOk
  <2> QED
    BY <2>1 DEF Buffered
<1>7. XCalls'
  BY <1>1, <1>2, <1>3 DEF XGood, XInv, XCalls, Making
<1>8. XCounts'
  <2>1. x.at # "closing" /\ x.at # "done" /\ XCounts
    BY <1>1 DEF Making, XGood, XInv
  <2>2. x.at = "opening" => hist'.accepted = 0
    BY <2>1 DEF XCounts
  <2>3. x.at = "writing" /\ ok => hist'.accepted = x.request
    BY <1>1, <2>1 DEF XCounts, Making
  <2>4. x.at = "reading" =>
          /\ hist'.accepted = x.request
          /\ x.len + Unread' <= x.size - 1 /\ x.len < x.size - 1
    <3> SUFFICES ASSUME x.at = "reading"
                 PROVE  /\ hist'.accepted = x.request
                        /\ x.len + Unread' <= x.size - 1 /\ x.len < x.size - 1
      OBVIOUS
    <3>1. call.op = "read" /\ n <= call.len
      BY <1>1 DEF Making
    <3>2. call.len = x.size - x.len - 1 /\ x.len < x.size - 1
      BY <2>1, <3>1 DEF XCounts
    <3>3. x.len + n <= x.size - 1
      BY <1>4, <3>1, <3>2
    <3> QED
      BY <1>5, <2>1, <3>2, <3>3 DEF XCounts
  <2>5. ~Broken' => x.came = x.len + Unread' + Buffered'
    <3> SUFFICES ASSUME ~Broken' PROVE x.came = x.len + Unread' + Buffered'
      OBVIOUS
    <3>1. ~Broken /\ Buffered = Unread' + Buffered'
      <4>1. CASE call.op = "read"
        BY <1>1, <1>5, <4>1 DEF Making
      <4>2. CASE call.op # "read"
        <5>1. Buffered' = Buffered /\ Broken' = Broken /\ Unread' = 0
          BY <1>1, <1>5, <4>2 DEF Making, Buffered, Broken
        <5> QED
          BY <1>4, <5>1
      <4> QED
        BY <4>1, <4>2
    <3>2. x.came = x.len + Unread + Buffered
      BY <1>1, <2>1, <3>1 DEF XCounts
    <3>3. Unread' \in Nat
      BY <1>5
    <3> QED
      BY <1>1, <1>4, <1>6, <3>1, <3>2, <3>3
  <2>6. x.at = "reading" /\ ok =>
          /\ ~Broken'
          /\ IF n = 0 THEN Buffered' = 0 /\ conn'.closed
             ELSE e'.record_type_in = "app"
    BY <1>1 DEF Making
  <2> QED
    BY <1>2, <1>3, <2>1, <2>2, <2>3, <2>4, <2>5, <2>6 DEF XCounts
<1> QED
  BY <1>7, <1>8 DEF XInv

\* wm_tls_drive_records begins.
LEMMA XDrives ==
  ASSUME XGood, Step, x.at # "none", CInv', XTyped',
         x' = [x EXCEPT !.came = @ + Arrived], call.at = "loop",
         call.op # "close", Drive, UNCHANGED <<e, net, hist>>
  PROVE  XInv'
<1>1. /\ last' = last
      /\ \/ /\ conn' = [conn EXCEPT !.closed = TRUE]
            /\ call' = [call EXCEPT !.at = "driven", !.ok = FALSE]
         \/ /\ conn' = conn
            /\ \E at : call' = [call EXCEPT !.at = at, !.ok = TRUE]
  BY DEF Drive, Driven
<1>2. ~conn.closed /\ call.op \in Ops /\ Same(e, e')
  BY XWhere DEF XGood, XInv, XCalls, Making, Ops, Same
<1>3. PICK at, ok : /\ call' = [call EXCEPT !.at = at, !.ok = ok]
                    /\ conn' # conn => at = "driven" /\ ok = FALSE
  BY <1>1
<1>4. /\ call'.op = call.op /\ call'.at = at /\ call'.len = call.len
      /\ call'.sent = call.sent /\ call'.ok = ok /\ call' # NoCall
  BY <1>2, <1>3, CallGoes DEF XGood, CInv
<1>5. conn' = conn => ~conn'.closed
  BY <1>2
<1> QED
  BY <1>1, <1>2, <1>3, <1>4, <1>5, XWaits

LEMMA XOpens ==
  ASSUME XGood, x.at # "none", CInv', XTyped', InCall, wm_tls_open
  PROVE  XInv'
<1>1. /\ call.at = "loop" /\ call.op = "open" /\ Step
      /\ x' = [x EXCEPT !.came = @ + Arrived] /\ UNCHANGED <<e, net, hist>>
  BY DEF wm_tls_open, At, InCall
<1>2. ~conn.closed /\ 0 \in Nat
  BY <1>1, XWhere DEF XGood, XInv, XCalls
<1>3. \/ Return(TRUE, 0) /\ conn' = conn
      \/ Drive
  BY DEF wm_tls_open
<1> QED
  BY <1>1, <1>2, <1>3, XReturns, XDrives

LEMMA XWrites ==
  ASSUME XGood, x.at # "none", CInv', XTyped', InCall, wm_tls_write
  PROVE  XInv'
<1>1. /\ call.at = "loop" /\ call.op = "write" /\ ~e.running /\ Step
      /\ net' = net /\ call.sent \in Nat /\ call.len \in Nat
      /\ x' = [x EXCEPT !.came = @ + Arrived]
  BY WriteCases DEF InCall, XGood
<1>2. ~conn.closed
  BY <1>1, XWhere DEF XGood, XInv, XCalls
<1>3. CASE call.sent = call.len /\ Return(TRUE, call.sent)
           /\ UNCHANGED <<e, conn, hist>>
  BY <1>1, <1>2, <1>3, XReturns
<1>4. CASE Return(FALSE, call.sent) /\ UNCHANGED <<e, hist>>
  BY <1>1, <1>4, XReturns
<1>5. CASE Drive /\ UNCHANGED <<e, hist>>
  BY <1>1, <1>5, XDrives
<1>6. CASE sendapp_open(e) /\ WriteUnit /\ UNCHANGED <<conn, last>>
  <2>1. /\ hist'.accepted = hist.accepted + 1 /\ hist'.gone = hist.gone
        /\ hist'.due = hist.due + 1
        /\ hist.accepted \in Nat /\ hist.due \in Nat
    BY <1>2, <1>6 DEF WriteUnit, XGood, CInv, Typed
  <2>2. /\ call'.op = "write" /\ call'.at = "loop" /\ call'.len = call.len
        /\ call'.sent = call.sent + 1
    BY <1>1, <1>6 DEF WriteUnit, XGood, CInv, Typed
  <2>3. Same(e, e')
    BY <1>1, <1>6, <2>1, WriteEffect DEF WriteUnit, XGood, CInv
  <2>4. /\ x.at = "writing" /\ Unread = 0 /\ hist.due = hist.accepted
    BY <1>1, XWhere DEF Making
  <2>5. /\ x'.at = x.at /\ x'.request = x.request /\ x'.size = x.size
        /\ x'.len = x.len /\ x'.ok = x.ok /\ x'.came = x.came
    BY <1>1 DEF XGood, XTyped, Arrived
  <2>6. /\ Buffered' = Buffered /\ Broken' = Broken /\ Unread' = 0
        /\ call' # NoCall
    BY <2>2, <2>3, <2>4, <2>5 DEF Same, Buffered, Broken, Unread, NoCall
  <2>7. XCalls'
    BY <1>2, <1>6, <2>1, <2>2, <2>4, <2>5, <2>6 DEF XGood, XInv, XCalls
  <2>8. hist'.accepted = call'.sent /\ call'.len = x'.request
    BY <1>1, <2>1, <2>2, <2>4, <2>5 DEF XGood, XInv, XCounts
  <2>9. XCounts'
    BY <2>2, <2>4, <2>5, <2>6, <2>8 DEF XGood, XInv, XCounts
  <2> QED
    BY <2>7, <2>9 DEF XInv
<1> QED
  BY <1>3, <1>4, <1>5, <1>6, WriteCases DEF XGood

LEMMA XReads ==
  ASSUME WithResult, XGood, x.at # "none", CInv', XTyped', InCall, wm_tls_read
  PROVE  XInv'
<1>1. /\ call.at = "loop" /\ call.op = "read" /\ ~e.running /\ Step
      /\ UNCHANGED <<net, hist>> /\ 0 \in Nat
      /\ x' = [x EXCEPT !.came = @ + Arrived]
  BY ReadCases DEF InCall, XGood
<1>2. /\ ~conn.closed /\ conn.live
      /\ Buffered \in Nat /\ call.len \in Nat
  BY <1>1, XWhere, Amounts DEF XGood, XInv, XCalls
<1>3. CASE /\ e.failed /\ conn' = [conn EXCEPT !.closed = TRUE]
           /\ Return(ReadOfClosed, 0) /\ UNCHANGED e
  <2>1. ReadOfClosed \in BOOLEAN /\ (ReadOfClosed => ~Broken)
    BY ConnectionAssumption DEF ReadOfClosed, Broken
  <2>2. ~Broken => Buffered = 0
    BY <1>1, <1>2, <1>3 DEF XGood, CInv, Delivered, Buffered
  <2>3. Buffered' = Buffered /\ Broken' = Broken
    BY <1>3 DEF Buffered, Broken
  <2>4. conn'.closed
    BY <1>3 DEF XGood, CInv, Typed
  <2> QED
    BY <1>1, <1>2, <1>3, <2>1, <2>2, <2>3, <2>4, XReturns
<1>4. CASE /\ recvapp_open(e) /\ UNCHANGED conn
           /\ \E n \in Nat \ {0} :
                /\ n <= Len(e.inbuf) /\ n <= call.len
                /\ n = call.len \/ n = Len(e.inbuf)
                /\ e' = [e EXCEPT !.inbuf = SubSeq(@, n + 1, Len(@))]
                /\ Return(TRUE, n)
  <2>1. PICK n \in Nat \ {0} :
          /\ n <= Len(e.inbuf) /\ n <= call.len
          /\ e' = [e EXCEPT !.inbuf = SubSeq(@, n + 1, Len(@))]
          /\ Return(TRUE, n)
    BY <1>4
  <2>2. /\ Agree(e, e') /\ e'.record_type_in = "app"
        /\ Len(e'.inbuf) = Len(e.inbuf) - n
    BY <1>1, <1>4, <2>1, ReadEffect DEF XGood, CInv
  <2>3. ~e.failed /\ e.record_type_in = "app"
    BY <1>4, Opens
  <2>4. Buffered = n + Buffered' /\ ~Broken /\ ~Broken'
    BY <1>2, <2>1, <2>2, <2>3 DEF Buffered, Broken, Agree
  <2> QED
    BY <1>1, <1>2, <1>4, <2>1, <2>2, <2>4, XReturns
<1>5. CASE Drive /\ UNCHANGED e
  BY <1>1, <1>5, XDrives
<1> QED
  BY <1>3, <1>4, <1>5, ReadCases DEF XGood

LEMMA XAfter ==
  ASSUME XGood, x.at # "none", CInv', XTyped', InCall, AfterDrive
  PROVE  XInv'
<1>1. /\ call.at = "driven" /\ call.op \in Ops /\ ~e.running /\ Step
      /\ UNCHANGED <<e, net, hist>> /\ Same(e, e')
      /\ x' = [x EXCEPT !.came = @ + Arrived]
  BY DEF AfterDrive, At, InCall, Same
<1>2. CASE \/ call.op = "close"
           \/ call.ok /\ ~conn.closed
  <2> DEFINE at == IF call.op # "close" THEN "loop"
                   ELSE IF call.ok THEN "closing" ELSE "free"
  <2>1. /\ call' = [call EXCEPT !.at = at] /\ UNCHANGED <<conn, last>>
    BY <1>1, <1>2 DEF AfterDrive, Ops
  <2>2. call' = [call EXCEPT !.at = at, !.ok = call.ok]
    BY <2>1 DEF XGood, CInv, Typed
  <2>3. /\ call'.op = call.op /\ call'.at = at /\ call'.len = call.len
        /\ call'.sent = call.sent /\ call'.ok = call.ok /\ call' # NoCall
    BY <1>1, <2>2, CallGoes DEF XGood, CInv
  <2> QED
    BY <1>1, <1>2, <2>1, <2>3, XWaits
<1>3. CASE call.op # "close" /\ (~call.ok \/ conn.closed)
  <2>1. call.ok \in BOOLEAN /\ call.sent \in Nat /\ 0 \in Nat
        /\ call.len \in Nat /\ Buffered \in Nat
        /\ Buffered' = Buffered /\ Broken' = Broken
    BY <1>1, Amounts DEF XGood, CInv, Typed, Buffered, Broken
  <2>2. CASE call.op = "open"
    <3>1. Return(FALSE, 0)
      BY <1>3, <2>2 DEF AfterDrive, Free
    <3> QED
      BY <1>1, <2>1, <2>2, <3>1, XReturns
  <2>3. CASE call.op = "write"
    <3>1. Return(FALSE, call.sent)
      BY <1>3, <2>3 DEF AfterDrive
    <3> QED
      BY <1>1, <2>1, <2>3, <3>1, XReturns
  <2>4. CASE call.op = "read"
    <3>1. Return(call.ok, 0) /\ conn' = conn
      BY <1>3, <2>4 DEF AfterDrive
    <3>2. call.ok => /\ conn.closed /\ e.inbuf = <<>> /\ ~e.failed
      BY <1>1, <1>3, <2>4 DEF XGood, XInv, XCalls
    <3>3. call.ok => ~Broken /\ Buffered = 0
      BY <3>2, Amounts DEF XGood, Broken
    <3> QED
      BY <1>1, <2>1, <2>4, <3>1, <3>2, <3>3, XReturns
  <2> QED
    BY <1>1, <1>3, <2>2, <2>3, <2>4 DEF Ops
<1> QED
  BY <1>2, <1>3

LEMMA OkStays ==
  ASSUME Typed, NEW at
  PROVE  [call EXCEPT !.at = at] = [call EXCEPT !.at = at, !.ok = call.ok]
BY DEF Typed

\* The steps of wm_tls_close itself.
LEMMA XCloses ==
  ASSUME XGood, x.at # "none", CInv', XTyped', InCall,
         wm_tls_close \/ CloseLoop \/ CloseFree
  PROVE  XInv'
<1>1. /\ call.op = "close" /\ call.op \in Ops /\ ~e.running /\ Step
      /\ call.at \in {"loop", "closing", "free"}
      /\ UNCHANGED <<net, hist>>
      /\ x' = [x EXCEPT !.came = @ + Arrived]
  BY DEF wm_tls_close, CloseLoop, CloseFree, At, InCall, Ops
<1>2. CASE wm_tls_close
  <2>1. /\ conn' = conn /\ last' = last
        /\ e' = IF conn.closed \/ e.failed THEN e ELSE jump_handshake(e, 1)
        /\ \E at : call' = [call EXCEPT !.at = at, !.ok = call.ok]
    BY <1>2, OkStays DEF wm_tls_close, XGood, CInv
  <2>2. /\ call'.op = call.op /\ call'.len = call.len
        /\ call'.sent = call.sent /\ call' # NoCall
    BY <1>1, <2>1, CallGoes DEF XGood, CInv
  <2>3. Same(e, e')
    <3>1. CASE conn.closed \/ e.failed
      BY <2>1, <3>1 DEF Same
    <3>2. CASE ~conn.closed /\ ~e.failed
      BY <1>1, <2>1, <2>2, <3>2, JumpEffect DEF XGood, CInv
    <3> QED
      BY <3>1, <3>2
  <2> QED
    BY <1>1, <2>1, <2>2, <2>3, XWaits
<1>3. CASE CloseLoop
  <2>1. /\ conn' = conn /\ last' = last /\ e' = e
        /\ \E at : call' = [call EXCEPT !.at = at, !.ok = call.ok]
    BY <1>3, OkStays DEF CloseLoop, XGood, CInv
  <2>2. /\ call'.op = call.op /\ call'.len = call.len
        /\ call'.sent = call.sent /\ call' # NoCall
    BY <1>1, <2>1, CallGoes DEF XGood, CInv
  <2>3. Same(e, e')
    BY <2>1 DEF Same
  <2> QED
    BY <1>1, <2>1, <2>2, <2>3, XWaits
<1>4. CASE CloseFree
  <2>1. /\ e' = e /\ call' = NoCall /\ conn' = [conn EXCEPT !.live = FALSE]
        /\ last'.op = "close" /\ last'.n = 0
        /\ NoCall.op = "none" /\ NoCall.at = "none"
    BY <1>1, <1>4 DEF CloseFree, Free, Return, NoCall
  <2>2. conn'.live = FALSE /\ conn'.closed = conn.closed
    BY <2>1 DEF XGood, CInv, Typed
  <2>3. /\ x.at = "closing" /\ hist.due = hist.accepted
    BY <1>1, XWhere DEF Making
  <2>4. Arrived = 0
    BY <1>1 DEF Arrived
  <2>5. /\ x'.at = x.at /\ x'.request = x.request /\ x'.size = x.size
        /\ x'.len = x.len /\ x'.ok = x.ok /\ x'.came = x.came
    BY <1>1, <2>4 DEF XGood, XTyped
  <2>6. XCalls'
    BY <1>1, <2>1, <2>2, <2>3, <2>5 DEF XGood, XInv, XCalls
  <2>7. Broken' = Broken /\ (Whole => Whole')
    BY <1>1, <2>1, <2>2, <2>5 DEF Broken, Whole
  <2>8. XCounts'
    BY <1>1, <2>1, <2>2, <2>3, <2>5, <2>7 DEF XGood, XInv, XCounts
  <2> QED
    BY <2>6, <2>8 DEF XInv
<1> QED
  BY <1>2, <1>3, <1>4

\* A step of the handshake processor.
LEMMA XRuns ==
  ASSUME XGood, x.at # "none", CInv', XTyped', InCall, HsRun
  PROVE  XInv'
<1>1. /\ e.running /\ e' = HsStep(e) /\ UNCHANGED <<conn, call, net, last>>
      /\ Step /\ x' = [x EXCEPT !.came = @ + Arrived]
  BY DEF HsRun, InCall
<1>2. hist'.accepted = hist.accepted /\ hist'.gone = hist.gone
      /\ hist'.due = hist.due
  BY DEF HsRun, XGood, CInv, Typed
<1>3. Kept(e, e') /\ Moves(e, e')
  BY <1>1, <1>2, RunEffect DEF XGood, CInv
<1>4. /\ ~e.failed /\ call.at # "recv" /\ call.op \in Ops
      /\ call # NoCall
  BY <1>1, XWhere, EngineFacts DEF XGood, CInv, Calls, Making, Ops
<1>5. Arrived = 0
  BY <1>4 DEF Arrived
<1>6. /\ Buffered' = Buffered /\ ~Broken /\ Buffered \in Nat
      /\ e'.record_type_in = e.record_type_in
  BY <1>3, <1>4, Amounts DEF Kept, Buffered, Broken, XGood
<1>7. ASSUME call.op # "close", call.at = "driven", call.ok, conn.closed
      PROVE  FALSE
  BY <1>1, <1>7 DEF XGood, XInv, XCalls
<1>8. ASSUME call.op = "close", x.ok
      PROVE  /\ ~Broken' /\ (Whole => Whole')
             /\ conn.closed \/ e.record_type_in = "app" =>
                  conn'.closed \/ e'.record_type_in = "app"
  <2>1. x.at = "closing"
    BY <1>8, XWhere, <1>1 DEF Making
  <2>2. ~conn.closed
    BY <1>1, <1>8 DEF XGood, CInv, Calls, Nets, Typed
  <2>3. e.record_type_in = "app"
    BY <1>8, <2>1, <2>2 DEF XGood, XInv, XCounts
  <2>4. e.hin = <<>>
    BY <2>3 DEF XGood, CInv, EngineOk, Unseen
  <2>5. ~Broken'
    BY <1>3, <2>4 DEF Moves, Broken
  <2>6. Whole => Whole'
    BY <1>1, <1>5, <2>2, WholeStays DEF XGood
  <2> QED
    BY <1>6, <2>3, <2>5, <2>6
<1>9. call.op # "close" /\ call.at \in {"loop", "send", "recv"} => ~conn.closed
  BY DEF XGood, XInv, XCalls
<1>10. Buffered' = Buffered + Arrived /\ Arrived \in Nat
  BY <1>5, <1>6
<1> QED
  BY <1>1, <1>2, <1>4, <1>6, <1>7, <1>8, <1>9, <1>10, XStays

LEMMA XStepKeeps ==
  ASSUME WithResult, XGood, InCall, CInv', XTyped'
  PROVE  XInv'
<1>1. CASE x.at = "none"
  <2>1. x' = x /\ x = NoExchange
    BY <1>1 DEF InCall, XGood, XInv, XCalls
  <2> QED
    BY <1>1, <2>1 DEF XInv, XCalls, XCounts
<1>2. CASE x.at # "none"
  BY <1>2, XSends, XReceives, XAfter, XOpens, XWrites, XReads, XCloses, XRuns
     DEF InCall, Step
<1> QED
  BY <1>1, <1>2

\* The exchange makes its next call, or is over.
LEMMA XMakes ==
  ASSUME XGood, Opened \/ Written \/ Read \/ Closed
  PROVE  XInv'
<1>1. /\ call = NoCall /\ call.op = "none" /\ ~e.running
      /\ XCalls /\ XCounts /\ x.size >= 2
      /\ x.at \in {"opening", "writing", "reading", "closing"}
      /\ hist.due = hist.accepted
  <2>1. /\ call = NoCall /\ ~e.running
        /\ x.at \in {"opening", "writing", "reading", "closing"}
    BY DEF Opened, Written, Read, Closed, Returned
  <2>2. XCalls /\ XCounts /\ x.size >= 2
    BY <2>1 DEF XGood, XInv, XTyped
  <2>3. x.at # "none" => hist.due = hist.accepted
    BY <2>2 DEF XCalls
  <2> QED
    BY <2>1, <2>2, <2>3 DEF NoCall
<1>2. /\ x \in [at : {"none", "opening", "writing", "reading", "closing",
                      "done"},
                request : Nat, size : Nat, len : Nat, ok : BOOLEAN, came : Nat]
      /\ last.n \in Nat /\ last.ok \in BOOLEAN
      /\ Buffered \in Nat /\ Unread \in Nat
  BY Amounts DEF XGood, XTyped, CInv, Typed
<1>3. ASSUME e' = e, conn' = conn, net' = net
      PROVE  Buffered' = Buffered /\ Broken' = Broken
  BY <1>3 DEF Buffered, Broken
<1>4. ASSUME NEW op \in Ops, NEW len, NEW y, Make(op, len, y)
      PROVE  /\ call'.op = op /\ call'.at = "loop" /\ call'.len = len
             /\ call'.sent = 0 /\ call' # NoCall /\ last' = NoReturn
             /\ x' = y /\ UNCHANGED <<e, conn, net, hist>>
             /\ Unread' = 0 /\ Buffered' = Buffered /\ Broken' = Broken
  BY <1>4 DEF Make, Call, NoCall, Ops, Unread, Buffered, Broken
<1>5. CASE Opened
  <2>1. x.at = "opening" /\ last.op = "open" /\ hist.accepted = 0
    BY <1>1, <1>5 DEF Opened, Returned, XCounts
  <2>2. CASE last.ok
    <3> DEFINE y == [x EXCEPT !.at = "writing"]
    <3>1. Make("write", x.request, y) /\ "write" \in Ops
      BY <1>5, <2>2 DEF Opened, Ops
    <3>2. /\ y.at = "writing" /\ y.request = x.request /\ y.size = x.size
          /\ y.len = x.len /\ y.ok = x.ok /\ y.came = x.came
      BY <1>2
    <3> HIDE DEF y
    <3>3. /\ call'.op = "write" /\ call'.at = "loop" /\ call'.len = x.request
          /\ call'.sent = 0 /\ call' # NoCall /\ last' = NoReturn
          /\ x' = y /\ UNCHANGED <<e, conn, net, hist>>
          /\ Unread' = 0 /\ Buffered' = Buffered /\ Broken' = Broken
      BY <1>4, <3>1
    <3>4. ~conn.closed
      BY <1>1, <2>1, <2>2 DEF XCalls
    <3>5. ~Broken => x.came = x.len + Buffered
      BY <1>1, <1>2, <2>1 DEF XCounts, Unread
    <3>6. XCalls'
      BY <1>1, <3>2, <3>3, <3>4 DEF XCalls
    <3>7. XCounts'
      BY <1>2, <2>1, <3>2, <3>3, <3>5 DEF XCounts
    <3> QED
      BY <3>6, <3>7 DEF XInv
  <2>3. CASE ~last.ok
    <3>1. x' = [x EXCEPT !.at = "done", !.ok = FALSE] /\ UNCHANGED vars
      BY <1>5, <2>3 DEF Opened, Done
    <3>2. /\ x'.at = "done" /\ x'.ok = FALSE
          /\ UNCHANGED <<e, conn, call, net, last, hist>>
      BY <1>2, <3>1 DEF vars
    <3> QED
      BY <1>1, <3>2 DEF XInv, XCalls, XCounts
  <2> QED
    BY <2>2, <2>3
<1>6. ASSUME NEW y,
             y \in [at : {"opening", "writing", "reading"}, request : Nat,
                    size : Nat, len : Nat, ok : BOOLEAN, came : Nat],
             ReadMore(y), hist.accepted = y.request, ~conn.closed,
             y.len < y.size - 1, ~Broken => y.came = y.len + Buffered
      PROVE  XInv'
  <2> DEFINE z == [y EXCEPT !.at = "reading"]
             len == y.size - y.len - 1
  <2>1. Make("read", len, z) /\ "read" \in Ops
    BY <1>6 DEF ReadMore, Ops
  <2>2. /\ z.at = "reading" /\ z.request = y.request /\ z.size = y.size
        /\ z.len = y.len /\ z.ok = y.ok /\ z.came = y.came
    BY <1>6
  <2> HIDE DEF z
  <2>3. /\ call'.op = "read" /\ call'.at = "loop" /\ call'.len = len
        /\ call' # NoCall /\ last' = NoReturn
        /\ x' = z /\ UNCHANGED <<e, conn, net, hist>>
        /\ Unread' = 0 /\ Buffered' = Buffered /\ Broken' = Broken
    BY <1>4, <2>1
  <2>4. XCalls'
    BY <1>1, <1>6, <2>2, <2>3 DEF XCalls
  <2>5. y.len + 0 <= y.size - 1 /\ y.len + 0 + Buffered = y.len + Buffered
    BY <1>2, <1>6
  <2>6. XCounts'
    BY <1>6, <2>2, <2>3, <2>5 DEF XCounts
  <2> QED
    BY <2>4, <2>6 DEF XInv
<1>7. ASSUME NEW y,
             y \in [at : {"opening", "writing", "reading"}, request : Nat,
                    size : Nat, len : Nat, ok : BOOLEAN, came : Nat],
             Make("close", 0, [y EXCEPT !.at = "closing"]),
             y.ok => /\ hist.accepted = y.request /\ ~Broken
                     /\ conn.closed \/ e.record_type_in = "app"
                     /\ \/ y.len = y.size - 1 /\ y.came >= y.len
                        \/ /\ y.len = y.came /\ conn.closed
                           /\ e.shutdown_recv \/ net = "eof"
      PROVE  XInv'
  <2> DEFINE z == [y EXCEPT !.at = "closing"]
  <2>1. Make("close", 0, z) /\ "close" \in Ops
    BY <1>7 DEF Ops
  <2>2. /\ z.at = "closing" /\ z.request = y.request /\ z.size = y.size
        /\ z.len = y.len /\ z.ok = y.ok /\ z.came = y.came
    BY <1>7
  <2> HIDE DEF z
  <2>3. /\ call'.op = "close" /\ call'.at = "loop"
        /\ call' # NoCall /\ last' = NoReturn
        /\ x' = z /\ UNCHANGED <<e, conn, net, hist>>
        /\ Unread' = 0 /\ Buffered' = Buffered /\ Broken' = Broken
    BY <1>4, <2>1
  <2>4. XCalls'
    BY <1>1, <2>2, <2>3 DEF XCalls
  <2>5. y.ok => Whole'
    BY <1>7, <2>2, <2>3 DEF Whole
  <2>6. XCounts'
    BY <1>7, <2>2, <2>3, <2>5 DEF XCounts
  <2> QED
    BY <2>4, <2>6 DEF XInv

<1>8. CASE Written
  <2>1. /\ x.at = "writing" /\ last.op = "write" /\ x.len = 0 /\ ~x.ok
        /\ Unread = 0
    BY <1>1, <1>8 DEF Written, Returned, XGood, XTyped, Unread
  <2>2. x \in [at : {"opening", "writing", "reading"}, request : Nat,
               size : Nat, len : Nat, ok : BOOLEAN, came : Nat]
    BY <1>2, <2>1
  <2>3. CASE last.ok
    <3>1. ReadMore(x)
      BY <1>8, <2>3 DEF Written
    <3>2. hist.accepted = x.request /\ ~conn.closed
      BY <1>1, <2>1, <2>3 DEF XCalls, XCounts
    <3>3. x.len < x.size - 1
      BY <1>1, <1>2, <2>1
    <3>4. ~Broken => x.came = x.len + Buffered
      BY <1>1, <1>2, <2>1 DEF XCounts
    <3> QED
      BY <1>6, <2>2, <3>1, <3>2, <3>3, <3>4
  <2>4. CASE ~last.ok
    <3> DEFINE y == [x EXCEPT !.ok = FALSE]
    <3>1. Make("close", 0, [y EXCEPT !.at = "closing"])
      BY <1>2, <1>8, <2>4 DEF Written, GiveUp, Make
    <3>2. /\ y \in [at : {"opening", "writing", "reading"}, request : Nat,
                    size : Nat, len : Nat, ok : BOOLEAN, came : Nat]
          /\ ~y.ok
      BY <2>2
    <3> HIDE DEF y
    <3> QED
      BY <1>7, <3>1, <3>2
  <2> QED
    BY <2>3, <2>4
<1>9. CASE Read
  <2> DEFINE y == [x EXCEPT !.len = @ + last.n, !.ok = @ \/ last.n > 0]
             z == [x EXCEPT !.ok = FALSE]
  <2>1. /\ x.at = "reading" /\ last.op = "read" /\ Unread = last.n
        /\ hist.accepted = x.request
        /\ x.len + last.n <= x.size - 1 /\ x.len < x.size - 1
    BY <1>1, <1>9 DEF Read, Returned, Unread, XCounts
  <2>2. /\ z \in [at : {"opening", "writing", "reading"}, request : Nat,
                  size : Nat, len : Nat, ok : BOOLEAN, came : Nat]
        /\ ~z.ok
    BY <1>2, <2>1
  <2>3. /\ y \in [at : {"opening", "writing", "reading"}, request : Nat,
                  size : Nat, len : Nat, ok : BOOLEAN, came : Nat]
        /\ y.request = x.request /\ y.size = x.size
        /\ y.len = x.len + last.n /\ y.came = x.came
    <3>1. x.len + last.n \in Nat /\ (x.ok \/ last.n > 0) \in BOOLEAN
      BY <1>2
    <3> QED
      BY <1>2, <2>1, <3>1
  <2>4. /\ ~last.ok => Make("close", 0, [z EXCEPT !.at = "closing"])
        /\ last.ok /\ (last.n = 0 \/ y.len >= x.size - 1) =>
             Make("close", 0, [y EXCEPT !.at = "closing"])
        /\ last.ok /\ last.n # 0 /\ ~(y.len >= x.size - 1) => ReadMore(y)
    BY <1>2, <1>9 DEF Read, GiveUp, Make
  <2> HIDE DEF y, z
  <2>5. CASE ~last.ok
    BY <1>7, <2>2, <2>4, <2>5
  <2>6. ~Broken => x.came = x.len + last.n + Buffered
    BY <1>1, <2>1 DEF XCounts
  <2>7. last.ok =>
          /\ ~Broken
          /\ IF last.n = 0 THEN Buffered = 0 /\ conn.closed
             ELSE e.record_type_in = "app" /\ ~conn.closed
    <3>1. last.n # 0 => last.n > 0
      BY <1>2
    <3> QED
      BY <1>1, <2>1, <3>1 DEF XCounts, XCalls
  <2>8. CASE last.ok /\ last.n = 0
    <3>1. y.len = y.came
      BY <1>2, <2>3, <2>6, <2>7, <2>8
    <3>2. e.shutdown_recv \/ net = "eof"
      BY <2>1, <2>8 DEF XGood, EndMeansClosed
    <3> QED
      BY <1>7, <2>1, <2>3, <2>4, <2>7, <2>8, <3>1, <3>2
  <2>9. CASE last.ok /\ last.n # 0 /\ y.len >= x.size - 1
    <3>1. y.len = y.size - 1 /\ y.came >= y.len
      BY <1>2, <2>1, <2>3, <2>6, <2>7, <2>9
    <3> QED
      BY <1>7, <2>1, <2>3, <2>4, <2>7, <2>9, <3>1
  <2>10. CASE last.ok /\ last.n # 0 /\ ~(y.len >= x.size - 1)
    <3>1. y.len < y.size - 1
      BY <1>2, <2>3, <2>10
    <3>2. y.came = y.len + Buffered
      BY <2>3, <2>6, <2>7, <2>10
    <3> QED
      BY <1>6, <2>1, <2>3, <2>4, <2>7, <2>10, <3>1, <3>2
  <2> QED
    BY <1>2, <2>5, <2>8, <2>9, <2>10
<1>10. CASE Closed
  <2>1. /\ x.at = "closing" /\ last.op = "close"
        /\ x' = [x EXCEPT !.at = "done", !.ok = x.ok] /\ UNCHANGED vars
    BY <1>10 DEF Closed, Returned, Done
  <2>2. /\ x'.at = "done" /\ x'.request = x.request /\ x'.size = x.size
        /\ x'.len = x.len /\ x'.ok = x.ok /\ x'.came = x.came
        /\ UNCHANGED <<e, conn, call, net, last, hist>>
    BY <1>2, <2>1 DEF vars
  <2>3. ~conn.live
    BY <2>1 DEF XGood, CInv, Calls
  <2>4. XCalls'
    BY <1>1, <2>1, <2>2, <2>3 DEF XCalls
  <2>5. Broken' = Broken /\ (Whole => Whole')
    BY <2>2 DEF Broken, Whole
  <2>6. XCounts'
    BY <1>1, <2>1, <2>2, <2>5 DEF XCounts
  <2> QED
    BY <2>4, <2>6 DEF XInv
<1> QED
  BY <1>5, <1>8, <1>9, <1>10

\* An exchange that reports success has sent its request, unless the socket
\* broke at the end, and has all that came, or as much as there is room for
\* (wm_tls_exchange).
THEOREM ExchangeIsWhole ==
  ASSUME WithResult
  PROVE  XSpec => []ExchangeWhole
<1>1. XInit => XInv
  <2> SUFFICES ASSUME XInit PROVE XInv
    OBVIOUS
  <2>1. CASE x = NoExchange
    BY <2>1 DEF XInv, XCalls, XCounts, NoExchange
  <2>2. ASSUME NEW n \in Requests, NEW s \in Sizes,
               x = [NoExchange EXCEPT !.at = "opening", !.request = n,
                                      !.size = s]
        PROVE  XInv
    <3>1. /\ x.at = "opening" /\ x.len = 0 /\ x.came = 0 /\ ~x.ok
      BY <2>2 DEF NoExchange
    <3>2. /\ call.op = "open" /\ call.at = "loop" /\ call # NoCall
          /\ ~conn.closed /\ hist.due = hist.accepted /\ hist.accepted = 0
          /\ e.inbuf = <<>>
      BY DEF XInit, Init, Call, NoCall, InitEngine, jump_handshake
    <3>3. Buffered = 0 /\ Unread = 0
      BY <3>1, <3>2 DEF Buffered, Unread
    <3>4. XCalls
      BY <3>1, <3>2 DEF XCalls
    <3>5. XCounts
      BY <3>1, <3>2, <3>3 DEF XCounts
    <3> QED
      BY <3>4, <3>5 DEF XInv
  <2> QED
    BY <2>1, <2>2 DEF XInit
<1>2. ASSUME XGood, CInv', XTyped', [XNext]_xvars
      PROVE  XInv'
  <2>1. CASE x.at = "none" /\ Begin /\ UNCHANGED x
    BY <1>2, <2>1 DEF XGood, XInv, XCalls, XCounts
  <2>2. CASE UNCHANGED xvars
    <3>1. UNCHANGED <<e, conn, call, net, last, hist, x>>
      BY <2>2 DEF xvars, vars
    <3> QED
      BY <1>2, <3>1
         DEF XGood, XInv, XCalls, XCounts, Buffered, Unread, Broken, Whole
  <2> QED
    BY <1>2, <2>1, <2>2, XStepKeeps, XMakes DEF XNext
<1>3. CInv /\ XInv => ExchangeWhole
  <2> SUFFICES ASSUME CInv, XInv, x.at = "done", x.ok
               PROVE  /\ hist.gone = x.request \/ net = "down"
                      /\ Whole
    BY DEF ExchangeWhole, Whole
  <2>1. /\ ~conn.live /\ last.op = "close" /\ hist.due = hist.accepted
        /\ hist.accepted = x.request /\ Whole /\ ~Broken
    BY DEF XInv, XCalls, XCounts
  <2>2. hist.gone >= hist.due \/ net = "down"
    BY <2>1 DEF CInv, Dues
  <2>3. hist.gone <= hist.accepted /\ hist.gone \in Nat
        /\ hist.accepted \in Nat
    BY EngineFacts DEF CInv
  <2> QED
    BY <2>1, <2>2, <2>3
<1> QED
  BY <1>1, <1>2, <1>3, ConnectionInvariant, EndIsAnEnd, PTL DEF XSpec, XGood

-----------------------------------------------------------------------------
(* No call spins.                                                          *)

\* At rest, the engine goes on as it did.
LEMMA RestReady ==
  ASSUME Ready(e), ~e.running, ~e.failed, ~e'.running, e'.hin = <<>>,
         e'.record_type_in = "app" \/ e'.inbuf = <<>>,
         e'.outrec = NoRec => e.outrec = NoRec,
         e'.pc = e.pc, e'.cnr = e.cnr
  PROVE  Ready(e')
BY NothingAlone DEF Ready, Awaits

\* Control is given to the processor, with nothing to read.
LEMMA GivenReady ==
  ASSUME NEW r, NEW a, Shape(r), ~r.failed,
         r.record_type_in = "app" \/ r.inbuf = <<>>
  PROVE  Ready(jump_handshake(r, a))
<1> DEFINE j == jump_handshake(r, a)
<1>1. /\ Same(r, j) /\ j.running /\ j.hin \in {<<>>, r.inbuf}
      /\ r.record_type_in = "app" => j.hin = <<>>
  BY JumpSame
<1> HIDE DEF j
<1>2. j.hin = <<>> /\ (j.record_type_in = "app" \/ j.inbuf = <<>>)
  BY <1>1 DEF Same
<1> QED
  BY <1>1, <1>2, NothingAlone DEF Ready, j

LEMMA SendReady ==
  ASSUME CInv, Ready(e), SendOk
  PROVE  Ready(e')
<1> DEFINE sent == [e EXCEPT !.outrec = NoRec]
<1>1. /\ Shape(e) /\ ~e.failed /\ ~e.running /\ e.hin = <<>>
      /\ e.record_type_in = "app" \/ e.inbuf = <<>>
      /\ e.application_data = 1 => e.pc = "main"
  BY EngineFacts, Opens DEF SendOk, At, CInv, Ready
<1>2. /\ Shape(sent) /\ ~sent.failed /\ ~sent.running /\ sent.hin = <<>>
      /\ sent.record_type_in = "app" \/ sent.inbuf = <<>>
      /\ sent.application_data = e.application_data /\ sent.pc = e.pc
  BY <1>1 DEF Shape, Fields
<1>3. e' = IF sent.record_type_out # "app" \/ sent.application_data # 1
           THEN jump_handshake(sent, 0) ELSE sent
  BY DEF SendOk, br_ssl_engine_sendrec_ack
<1> HIDE DEF sent
<1>4. CASE sent.record_type_out # "app" \/ sent.application_data # 1
  BY <1>2, <1>3, <1>4, GivenReady
<1>5. CASE ~(sent.record_type_out # "app" \/ sent.application_data # 1)
  <2>1. e' = sent /\ sent.pc = "main"
    BY <1>1, <1>2, <1>3, <1>5
  <2> QED
    BY <1>2, <2>1, NothingAlone DEF Ready, Awaits
<1> QED
  BY <1>4, <1>5

LEMMA RecvReady ==
  ASSUME CInv, Ready(e), ApartFromNext, NEW r \in Records,
         RecvRecord(r) \/ RecvPart(r.type)
  PROVE  Ready(e')
<1>1. /\ ~e.running /\ recvrec_open(e) /\ OutIdle(e) /\ UNCHANGED hist
      /\ EngineOk
  BY DEF RecvRecord, RecvPart, At, CInv, Calls
<1>2. /\ Shape(e) /\ ~e.failed /\ ~e.cnr /\ e.hin = <<>>
  BY <1>1, EngineFacts, Opens
<1>3. Awaits(e)
  BY <1>1, <1>2 DEF Ready, OutIdle
<1>4. CASE RecvRecord(r)
  <2>1. e' = br_ssl_engine_recvrec_ack(e, r.type, r.units)
    BY <1>4 DEF RecvRecord
  <2>2. /\ e'.pc = e.pc /\ e'.outrec = e.outrec /\ e'.outbuf = e.outbuf
        /\ e'.cnr = e.cnr /\ e'.record_type_in = r.type /\ ~e'.took
        /\ IF e'.running THEN e'.resumed ELSE e'.hin = <<>>
        /\ \/ e'.inbuf = <<>> /\ ~e'.running /\ ~e'.failed
           \/ /\ r.type # "app" /\ r.units # <<>> /\ e'.inbuf = r.units
              /\ e'.running /\ ~e'.failed /\ e'.action = 0
              /\ e'.hin = r.units
           \/ /\ r.type = "app" /\ e.application_data = 1
              /\ e'.inbuf = r.units /\ ~e'.running /\ ~e'.failed
           \/ e'.failed /\ e'.err # "ok" /\ ~e'.running
    BY <1>1, <2>1, RecvEffect
  <2>3. r.units \in Seq(InUnits) /\ (r.type = "handshake" => Alone(r.units))
    BY ConnectionAssumption DEF ApartFromNext, Alone
  <2>4. OutIdle(e') /\ Awaits(e')
    BY <1>1, <1>3, <2>2 DEF OutIdle, Awaits
  <2>5. CASE e'.running
    BY <2>2, <2>3, <2>4, <2>5 DEF Ready
  <2>6. CASE ~e'.running
    BY <2>2, <2>4, <2>6, NothingAlone DEF Ready
  <2> QED
    BY <2>5, <2>6
<1>5. CASE RecvPart(r.type)
  <2>1. e' = [e EXCEPT !.part = TRUE, !.record_type_in = r.type]
    BY <1>5 DEF RecvPart
  <2>2. /\ ~e'.running /\ e'.hin = <<>> /\ e'.inbuf = <<>>
        /\ e'.outrec = e.outrec /\ e'.pc = e.pc /\ e'.cnr = e.cnr
    BY <1>1, <1>2, <2>1, Opens DEF Shape, Fields
  <2> QED
    BY <1>1, <1>2, <2>2, RestReady
<1> QED
  BY <1>4, <1>5

\* The steps of the application.
LEMMA AppReady ==
  ASSUME CInv, Ready(e), RecvBad \/ wm_tls_write \/ wm_tls_read \/ wm_tls_close
  PROVE  Ready(e')
<1>1. /\ EngineOk /\ ~e.running /\ Shape(e) /\ e.hin = <<>>
      /\ ~e.failed => e.record_type_in = "app" \/ e.inbuf = <<>>
  BY EngineFacts
     DEF RecvBad, wm_tls_write, wm_tls_read, wm_tls_close, At, CInv, Ready
<1>2. CASE e' = e
  BY <1>2
<1>3. CASE e' = br_ssl_engine_fail(e, "record") /\ ~e.failed
  <2>1. e' = [e EXCEPT !.failed = TRUE, !.err = "record"]
    BY <1>3 DEF br_ssl_engine_fail
  <2>2. e'.failed /\ ~e'.running /\ e'.hin = <<>>
    BY <1>1, <2>1 DEF Shape, Fields
  <2> QED
    BY <2>2, NothingAlone DEF Ready
<1>4. CASE wm_tls_write /\ e' # e
  <2>1. /\ sendapp_open(e) /\ WriteUnit /\ ~e.running
    BY <1>4, WriteCases
  <2>2. hist'.accepted = hist.accepted + 1 /\ hist'.gone = hist.gone
    BY <2>1 DEF WriteUnit, CInv, Typed
  <2>3. Same(e, e') /\ ~e'.running /\ e'.outrec # NoRec /\ e'.hin = <<>>
    BY <1>1, <2>1, <2>2, WriteEffect DEF WriteUnit
  <2>4. ~e.failed
    BY <2>1, Opens
  <2> QED
    BY <1>1, <2>3, <2>4, RestReady DEF Same
<1>5. CASE wm_tls_read /\ e' # e
  <2>1. PICK n : e' = [e EXCEPT !.inbuf = SubSeq(@, n + 1, Len(@))]
    BY <1>5 DEF wm_tls_read, Drive
  <2>2. recvapp_open(e)
    BY <1>5, States DEF wm_tls_read
  <2>3. /\ ~e'.running /\ e'.hin = <<>> /\ e'.record_type_in = "app"
        /\ e'.outrec = e.outrec /\ e'.pc = e.pc /\ e'.cnr = e.cnr
    BY <1>1, <2>1, <2>2, Opens DEF Shape, Fields
  <2> QED
    BY <1>1, <2>2, <2>3, Opens, RestReady
<1>6. CASE e' = jump_handshake(e, 1) /\ ~e.failed
  BY <1>1, <1>6, GivenReady
<1>7. CASE RecvBad
  <2>1. ~e.failed
    BY <1>7, Opens DEF RecvBad, At, CInv, Calls
  <2> QED
    BY <1>3, <1>7, <2>1 DEF RecvBad
<1>8. CASE wm_tls_close
  BY <1>2, <1>6, <1>8 DEF wm_tls_close
<1> QED
  BY <1>2, <1>4, <1>5, <1>7, <1>8

LEMMA RunReady ==
  ASSUME CInv, Ready(e), HsRun
  PROVE  Ready(e')
<1>1. PICK hello \in BOOLEAN, notified \in BOOLEAN :
        LET h == History(hello, notified)
        IN  /\ Fine(e, h) /\ h.early
            /\ UNCHANGED hist /\ Fine(e', h) =>
                 \E l, n \in BOOLEAN : Fine(e', History(l, n)')
  BY EngineFine DEF CInv
<1>2. Unseen(e) /\ e.running /\ e' = HsStep(e)
  BY DEF HsRun, CInv, EngineOk
<1> QED
  BY <1>1, <1>2, NotShared, HsStepReady

LEMMA StepReady ==
  ASSUME CInv, Ready(e), ApartFromNext, [XNext]_xvars
  PROVE  Ready(e')
<1>1. CASE UNCHANGED e
  BY <1>1
<1>2. CASE Step
  <2>1. CASE SendError \/ SendDone \/ RecvEof \/ RecvError \/ AfterDrive
             \/ wm_tls_open \/ CloseLoop \/ CloseFree
    <3>1. UNCHANGED e
      BY <2>1 DEF SendError, SendDone, RecvEof, RecvError, AfterDrive,
                  wm_tls_open, CloseLoop, CloseFree
    <3> QED
      BY <1>1, <3>1
  <2> QED
    BY <1>2, <2>1, SendReady, RecvReady, AppReady, RunReady DEF Step
<1>3. CASE Begin \/ Opened \/ Written \/ Read \/ Closed
  <2>1. UNCHANGED e
    BY <1>3 DEF Begin, Opened, Written, Read, Closed, Make, Done, GiveUp,
                ReadMore, vars
  <2> QED
    BY <1>1, <2>1
<1>4. CASE UNCHANGED xvars
  BY <1>1, <1>4 DEF xvars, vars
<1> QED
  BY <1>2, <1>3, <1>4 DEF XNext, InCall

\* Where wm_tls_drive_records can do nothing, the call that drives the engine
\* has what it waits for, if the peer begins a new record after a HelloRequest
\* or a Finished message: the processor always stops where it reads, and it
\* leaves nothing unread (wm_tls_open, wm_tls_write, wm_tls_read).
THEOREM NoCallSpins == XSpec => []NeverSpins
<1>0. CASE ~ApartFromNext
  <2>1. NeverSpins
    BY <1>0 DEF NeverSpins
  <2> QED
    BY <2>1, PTL
<1> SUFFICES ASSUME ApartFromNext PROVE XSpec => []NeverSpins
  BY <1>0
<1>1. XInit => Ready(e)
  <2> SUFFICES ASSUME XInit PROVE Ready(e)
    OBVIOUS
  <2>1. e = InitEngine
    BY DEF XInit, Init
  <2>2. /\ e.running /\ e.hin = <<>> /\ e.inbuf = <<>>
    BY <2>1 DEF InitEngine, jump_handshake
  <2> QED
    BY <2>2, NothingAlone DEF Ready
<1>2. CInv /\ Ready(e) /\ [XNext]_xvars => Ready(e)'
  BY StepReady
<1>3. CInv /\ Ready(e) => NeverSpins
  <2> SUFFICES ASSUME CInv, Ready(e), NEW op \in {"open", "write", "read"},
                      At({op}, "loop"), ~e.failed, ~sendrec_open(e),
                      ~recvrec_open(e)
               PROVE  State \cap Awaited[op] # {}
    BY States DEF NeverSpins
  <2>1. /\ ~e.running /\ call.op = op /\ conn.live /\ e.outrec = NoRec
        /\ e.shutdown_recv \/ e.inbuf # <<>>
    BY Opens DEF At, CInv, Calls, NoCall
  <2>2. ~e.shutdown_recv
    BY <2>1, EngineFacts DEF Ready, Awaits, CInv, Closing
  <2>3. /\ e.inbuf # <<>> /\ e.record_type_in = "app"
        /\ e.application_data = 1
    BY <2>1, <2>2 DEF Ready, CInv, Delivered, Broken
  <2>4. sendapp_open(e) /\ recvapp_open(e)
    BY <2>1, <2>3, Opens
  <2> QED
    BY <2>4, States DEF Awaited
<1> QED
  BY <1>1, <1>2, <1>3, ConnectionInvariant, PTL DEF XSpec

================================================================================
