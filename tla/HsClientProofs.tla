---------------------------- MODULE HsClientProofs ----------------------------
(***************************************************************************)
(* What the handshake processor of the client keeps, whatever it is given  *)
(* and whoever calls the engine: the invariant Fine(r, h) of an engine r   *)
(* with a history h.  The fields of h:                                     *)
(*   written, gone   units of application data given to the engine, and    *)
(*                   those that left in a record                           *)
(*   hello           a ClientHello left and its Finished did not           *)
(*   notified        a close_notify left                                   *)
(*   early           the caller flushes whatever it writes at once         *)
(* EngineProofs, ConnectionProofs and SslIoProofs put their own engine and *)
(* history in.  The invariant looks at the output side of the engine only: *)
(* what came in decides which step the processor takes, and every step     *)
(* must keep it.                                                           *)
(***************************************************************************)
EXTENDS HsClient, SequenceTheorems, FiniteSetTheorems, TLAPS

Fields == {"failed", "err", "part", "record_type_in", "inbuf", "outbuf",
           "outrec", "record_type_out", "application_data", "shutdown_recv",
           "alert", "reneg", "session", "running", "action", "resumed", "pc",
           "cnr", "resume", "hin", "hout", "took"}

Shape(r) == r = [f \in Fields |-> r[f]]

\* Room is shown to the processor only while it runs, and is there; with
\* buffers of its own for each direction it is not withheld. An engine that
\* has failed does not run it again. Between its runs it has no input.
Given(r) ==
  /\ r.hout => r.running /\ OutIdle(r)
  /\ ~Shared /\ r.running /\ OutIdle(r) => r.hout
  /\ r.failed => ~r.running
  /\ ~r.running => r.hin = <<>> /\ ~r.took

\* Where the processor has the floor, and where it is in a handshake.
Shakes == {"server_hello", "server_done", "client_key", "ccs_out",
           "finished_out", "ccs_in", "finished_in"}
Silent == Shakes \cup {"client_hello", "open", "reject"}

\* Who has the floor, and the type of the records that leave.
Floor(r) ==
  /\ r.application_data \in Nat
  /\ r.pc \in Points /\ r.record_type_out \in RecordTypes
  /\ r.pc \in Silent => r.application_data = 0
  /\ r.pc \in {"close_room", "close_wait"} => r.application_data # 1
  /\ r.application_data = 1 => r.record_type_out = "app"
  /\ r.pc \in {"client_hello", "server_hello", "server_done", "client_key"} =>
       r.record_type_out = "handshake"

\* What was written and has not left.
DataFrom(w, g) == [i \in 1..(w - g) |-> AppData(g + i)]
Owed(h) == DataFrom(h.written, h.gone)
Holds(r, m) == r.outrec # NoRec /\ r.outrec.units = <<Message(m)>>

\* It is gathered, or in the assembled record; a message of the processor is
\* in the buffer only when nothing else is.
Stream(r, h) ==
  /\ h.written \in Nat /\ h.gone \in Nat /\ h.gone <= h.written
  /\ \/ r.outrec = NoRec /\ r.outbuf = Owed(h)
     \/ r.outrec # NoRec /\ r.outbuf = <<>> /\ r.outrec.units = Owed(h)
     \/ /\ r.outbuf = <<>> /\ h.gone = h.written
        /\ \E m \in Messages : Holds(r, m)

\* A caller that flushes at once leaves nothing under a type that the
\* processor may still change.
Pure(r, h) ==
  h.early =>
    /\ r.outbuf = <<>>
    /\ r.outrec.units = Owed(h) /\ h.gone # h.written => r.outrec.type = "app"
    /\ \A m \in Messages : Holds(r, m) => r.outrec.type # "app"

\* The close_notify is assembled once, when do-close has found room.
Notice(r, h) ==
  /\ r.pc = "close_wait" =>
       /\ r.outbuf = <<>>
       /\ IF h.notified THEN r.outrec = NoRec ELSE Holds(r, "close_notify")
  /\ h.notified \/ Holds(r, "close_notify") => r.pc = "close_wait"

\* Between ClientHello and Finished.
Shaking(r, h) ==
  /\ h.hello \/ Holds(r, "client_hello") =>
       \/ Holds(r, "finished")
       \/ /\ r.pc \in Shakes \cup Closing
          /\ r.pc \in {"ccs_in", "finished_in"} => r.resume
          /\ r.application_data = 0 /\ h.gone = h.written
  /\ r.pc \in Shakes \cup {"open"} => h.gone = h.written

\* The end.
Ended(r, h) ==
  /\ r.cnr <=> r.shutdown_recv
  /\ r.cnr => r.pc \in Closing
  /\ r.failed /\ r.err = "ok" =>
       h.notified /\ r.shutdown_recv /\ h.gone = h.written

Core(r, h) ==
  /\ Floor(r) /\ Stream(r, h) /\ Pure(r, h)
  /\ Notice(r, h) /\ Shaking(r, h) /\ Ended(r, h)

Fine(r, h) == Shape(r) /\ Given(r) /\ Core(r, h)

-----------------------------------------------------------------------------
(* The buffers.                                                            *)

Agree(r, s) ==
  /\ s.failed = r.failed /\ s.err = r.err /\ s.outbuf = r.outbuf
  /\ s.outrec = r.outrec /\ s.record_type_out = r.record_type_out
  /\ s.application_data = r.application_data
  /\ s.shutdown_recv = r.shutdown_recv
  /\ s.pc = r.pc /\ s.cnr = r.cnr /\ s.resume = r.resume

LEMMA AgreeCore ==
  ASSUME NEW h, NEW r, NEW s, Core(r, h), Agree(r, s)
  PROVE  Core(s, h)
BY DEF Core, Agree, Floor, Stream, Pure, Notice, Shaking, Ended, Holds

LEMMA JumpGives ==
  ASSUME NEW r, NEW a, Shape(r), ~r.failed
  PROVE  LET s == jump_handshake(r, a)
         IN  Shape(s) /\ Given(s) /\ Agree(r, s)
BY DEF jump_handshake, Shape, Fields, Given, Agree, OutIdle, sendpld_open,
       has_pld_to_send, CanOut

LEMMA LeaveGives ==
  ASSUME NEW r, Shape(r)
  PROVE  LET s == leave_handshake(r)
         IN  Shape(s) /\ Given(s) /\ Agree(r, s)
<1> DEFINE back == [r EXCEPT !.running = FALSE, !.hin = <<>>, !.hout = FALSE,
                             !.took = FALSE, !.resumed = FALSE, !.action = 0]
           read == [back EXCEPT !.inbuf = r.hin]
<1>1. /\ Shape(back) /\ Agree(r, back) /\ back.hout = FALSE
      /\ back.running = FALSE /\ back.hin = <<>> /\ back.took = FALSE
  BY DEF Shape, Fields, Agree
<1>2. leave_handshake(r) = IF ~r.took \/ r.failed THEN back
                           ELSE IF r.hin = <<>> THEN jump_handshake(read, 0)
                           ELSE read
  BY DEF leave_handshake
<1> HIDE DEF back
<1>3. /\ Shape(read) /\ Agree(r, read) /\ read.hout = FALSE
      /\ read.running = FALSE /\ read.hin = <<>> /\ read.took = FALSE
  BY <1>1 DEF Shape, Fields, Agree
<1> HIDE DEF read
<1>4. CASE ~r.took \/ r.failed
  BY <1>1, <1>2, <1>4 DEF Given
<1>5. CASE ~(~r.took \/ r.failed) /\ r.hin = <<>>
  <2>1. ~read.failed
    BY <1>3, <1>5 DEF Agree
  <2>2. LET s == jump_handshake(read, 0)
        IN  Shape(s) /\ Given(s) /\ Agree(read, s)
    BY <1>3, <2>1, JumpGives
  <2> QED
    BY <1>2, <1>3, <1>5, <2>2 DEF Agree
<1>6. CASE ~(~r.took \/ r.failed) /\ r.hin # <<>>
  BY <1>2, <1>3, <1>6 DEF Given
<1> QED
  BY <1>4, <1>5, <1>6

\* The processor gives control back, with or without an error.
LEMMA YieldGives ==
  ASSUME NEW h, NEW r, Shape(r), Core(r, h)
  PROVE  Fine(Yield(r), h)
BY LeaveGives, AgreeCore DEF Yield, Fine

LEMMA FailGives ==
  ASSUME NEW h, NEW r, NEW err, Shape(r), Core(r, h), ~r.failed,
         err = "ok" => h.notified /\ r.shutdown_recv /\ h.gone = h.written
  PROVE  Fine(Fail(r, err), h)
<1> DEFINE s == br_ssl_engine_fail(r, err)
<1>1. /\ Shape(s) /\ Core(s, h)
  BY DEF br_ssl_engine_fail, Shape, Fields, Core, Floor, Stream, Pure,
     Notice, Shaking, Ended, Holds
<1> HIDE DEF s
<1>2. Fail(r, err) = leave_handshake(s)
  BY DEF Fail, s
<1> QED
  BY <1>1, <1>2, LeaveGives, AgreeCore DEF Fine

\* What is owed is application data: no message of the processor.
LEMMA DataIsData ==
  ASSUME NEW w \in Nat, NEW g \in Nat, g <= w
  PROVE  /\ DataFrom(w, g) \in Seq([msg : {"data"}, n : Nat])
         /\ Len(DataFrom(w, g)) = w - g
         /\ DataFrom(w, g) = <<>> <=> g = w
         /\ \A m \in Messages : DataFrom(w, g) # <<Message(m)>>
<1> DEFINE owed == DataFrom(w, g)
<1>1. w - g \in Nat
  OBVIOUS
<1>2. /\ owed \in Seq([msg : {"data"}, n : Nat])
      /\ Len(owed) = w - g
  BY <1>1 DEF DataFrom, AppData
<1>3. owed = <<>> <=> g = w
  BY <1>1, <1>2 DEF DataFrom
<1>4. ASSUME NEW m \in Messages, owed = <<Message(m)>> PROVE FALSE
  <2>1. owed[1] = Message(m) /\ Len(owed) = 1
    BY <1>4
  <2>2. owed[1] = AppData(g + 1)
    BY <2>1, <1>2 DEF DataFrom
  <2> QED
    BY <2>1, <2>2 DEF Message, AppData, Messages
<1> QED
  BY <1>2, <1>3, <1>4

LEMMA OwedIsData ==
  ASSUME NEW h, h.written \in Nat, h.gone \in Nat, h.gone <= h.written
  PROVE  /\ Owed(h) \in Seq([msg : {"data"}, n : Nat])
         /\ Len(Owed(h)) = h.written - h.gone
         /\ Owed(h) = <<>> <=> h.gone = h.written
         /\ \A m \in Messages : Owed(h) # <<Message(m)>>
BY DataIsData DEF Owed

\* flush_record seals what is owed, or finds nothing to seal.
LEMMA FlushGives ==
  ASSUME NEW h, NEW r, Shape(r), Core(r, h), r.running, ~r.failed
  PROVE  LET s == flush_record(r)
         IN  /\ Fine(s, h) /\ s.running /\ ~s.failed
             /\ s.application_data = r.application_data /\ s.pc = r.pc
             /\ s.record_type_out = r.record_type_out
             /\ s.shutdown_recv = r.shutdown_recv /\ s.cnr = r.cnr
             /\ s.resume = r.resume
             /\ \A m \in Messages : Holds(s, m) <=> Holds(r, m)
<1> DEFINE sealed == sendpld_flush(r, FALSE)
           s == flush_record(r)
<1>1. s = [sealed EXCEPT !.hout = sendpld_open(sealed)]
  BY DEF flush_record
<1>2. CASE r.outrec # NoRec \/ r.outbuf = <<>>
  <2>1. sealed = r
    BY <1>2 DEF sendpld_flush
  <2>2. Shape(s) /\ Agree(r, s) /\ s.running /\ s.hout = sendpld_open(r)
    BY <1>1, <2>1 DEF Shape, Fields, Agree
  <2>3. Given(s)
    BY <1>2, <2>2 DEF Given, sendpld_open, CanOut, OutIdle, Agree
  <2> QED
    BY <2>2, <2>3, AgreeCore DEF Fine, Agree, Holds
<1>3. CASE r.outrec = NoRec /\ r.outbuf # <<>>
  <2> DEFINE rec == [type |-> r.record_type_out, units |-> r.outbuf]
  <2>1. sealed = [r EXCEPT !.outrec = rec, !.outbuf = <<>>]
    BY <1>3 DEF sendpld_flush
  <2>2. rec # NoRec
    BY DEF NoRec, Core, Floor, RecordTypes
  <2>3. rec.units = r.outbuf /\ r.outbuf = Owed(h) /\ Owed(h) # <<>>
    BY <1>3 DEF Core, Stream, Holds
  <2> HIDE DEF rec
  <2>4. ~sendpld_open(sealed)
    BY <2>1, <2>2 DEF sendpld_open, Shape, Fields
  <2>10. /\ Shape(sealed) /\ sealed.outrec = rec /\ sealed.outbuf = <<>>
         /\ sealed.failed = r.failed /\ sealed.err = r.err
         /\ sealed.application_data = r.application_data
         /\ sealed.pc = r.pc /\ sealed.record_type_out = r.record_type_out
         /\ sealed.shutdown_recv = r.shutdown_recv
         /\ sealed.cnr = r.cnr /\ sealed.resume = r.resume
         /\ sealed.running = r.running
    BY <2>1 DEF Shape, Fields
  <2> HIDE DEF sealed
  <2>5. /\ Shape(s) /\ s.outrec = rec /\ s.outbuf = <<>> /\ s.hout = FALSE
        /\ s.running /\ ~s.failed /\ s.err = r.err
        /\ s.application_data = r.application_data /\ s.pc = r.pc
        /\ s.record_type_out = r.record_type_out
        /\ s.shutdown_recv = r.shutdown_recv /\ s.cnr = r.cnr
        /\ s.resume = r.resume
    BY <1>1, <2>10, <2>4 DEF Shape, Fields
  <2>6. \A m \in Messages : ~Holds(r, m) /\ ~Holds(s, m)
    BY <1>3, <2>3, <2>5, OwedIsData DEF Holds, Core, Stream
  <2>7. {"client_hello", "finished", "close_notify"} \subseteq Messages
    BY DEF Messages
  <2>8. Floor(s) /\ Ended(s, h) /\ Stream(s, h) /\ Pure(s, h)
    BY <1>3, <2>2, <2>3, <2>5 DEF Core, Floor, Ended, Stream, Pure
  <2>9. r.pc # "close_wait" /\ Notice(s, h)
    BY <1>3, <2>5, <2>6, <2>7 DEF Core, Notice
  <2>11. Shaking(s, h)
    BY <2>5, <2>6, <2>7 DEF Core, Shaking
  <2> QED
    BY <2>2, <2>5, <2>6, <2>8, <2>9, <2>11 DEF Fine, Given, Core, OutIdle
<1> QED
  BY <1>2, <1>3

LEMMA AddToNone ==
  ASSUME NEW x
  PROVE  <<>> \o <<x>> = <<x>>
OBVIOUS

\* A message finds room only when nothing else is in the buffer, and leaves
\* as a record of its own.
LEMMA WriteGives ==
  ASSUME NEW h, NEW r, Shape(r), Core(r, h), r.running, r.hout, Given(r),
         NEW type \in RecordTypes, NEW m \in Messages
  PROVE  LET s == write_message(r, type, m)
         IN  /\ Shape(s) /\ Given(s) /\ s.running /\ s.failed = r.failed
             /\ s.outbuf = <<>> /\ s.outrec # NoRec
             /\ s.outrec = [type |-> type, units |-> <<Message(m)>>]
             /\ s.record_type_out = type /\ s.err = r.err
             /\ s.application_data = r.application_data /\ s.pc = r.pc
             /\ s.shutdown_recv = r.shutdown_recv /\ s.cnr = r.cnr
             /\ s.resume = r.resume
<1> DEFINE typed == [r EXCEPT !.record_type_out = type]
           more == [typed EXCEPT !.outbuf = <<Message(m)>>]
           rec == [type |-> type, units |-> <<Message(m)>>]
           done == [more EXCEPT !.outrec = rec, !.outbuf = <<>>]
           acked == sendpld_ack(typed, <<Message(m)>>)
           s == write_message(r, type, m)
<1>1. r.outbuf = <<>> /\ r.outrec = NoRec
  BY DEF Given, OutIdle
<1>2. rec # NoRec
  BY DEF NoRec, RecordTypes
<1>3. Shape(typed) /\ typed.outbuf = <<>> /\ typed.outrec = NoRec
  BY <1>1 DEF Shape, Fields
<1>4. [typed EXCEPT !.outbuf = @ \o <<Message(m)>>] = more
  <2>1. typed.outbuf \o <<Message(m)>> = <<Message(m)>>
    BY <1>3, AddToNone
  <2> QED
    BY <1>3, <2>1 DEF Shape, Fields
<1>5. /\ Shape(more) /\ more.outbuf = <<Message(m)>> /\ more.outrec = NoRec
      /\ more.record_type_out = type
  BY <1>1 DEF Shape, Fields
<1>6. sendpld_flush(more, FALSE) = done
  <2>1. /\ more.outbuf # <<>>
        /\ [type |-> more.record_type_out, units |-> more.outbuf] = rec
    BY <1>5
  <2> HIDE DEF rec, more
  <2> QED
    BY <1>5, <2>1 DEF sendpld_flush
<1>7. sendpld_flush(done, FALSE) = done
  BY <1>2, <1>5 DEF sendpld_flush, Shape, Fields
<1>8. acked \in {more, done}
  BY <1>4, <1>6 DEF sendpld_ack
<1>9. s = [done EXCEPT !.hout = sendpld_open(done)]
  BY <1>6, <1>7, <1>8 DEF write_message, flush_record
<1>10. sendpld_open(done) = FALSE
  BY <1>2, <1>5 DEF sendpld_open, Shape, Fields
<1>11. /\ Shape(s) /\ s.hout = FALSE /\ s.running /\ s.failed = r.failed
       /\ s.outbuf = <<>> /\ s.outrec = rec
       /\ s.record_type_out = type /\ s.err = r.err
       /\ s.application_data = r.application_data /\ s.pc = r.pc
       /\ s.shutdown_recv = r.shutdown_recv /\ s.cnr = r.cnr
       /\ s.resume = r.resume
  <2>1. /\ Shape(done) /\ done.outbuf = <<>> /\ done.outrec = rec
        /\ done.failed = r.failed /\ done.running = r.running
        /\ done.record_type_out = type /\ done.err = r.err
        /\ done.application_data = r.application_data /\ done.pc = r.pc
        /\ done.shutdown_recv = r.shutdown_recv /\ done.cnr = r.cnr
        /\ done.resume = r.resume
    BY DEF Shape, Fields
  <2>2. s = [done EXCEPT !.hout = FALSE]
    <3> HIDE DEF s, done
    <3> QED
      BY <1>9, <1>10
  <2> HIDE DEF s, done, rec
  <2> QED
    BY <2>1, <2>2 DEF Shape, Fields
<1> HIDE DEF s, rec
<1>12. Given(s)
  BY <1>2, <1>11 DEF Given, OutIdle
<1> QED
  BY <1>2, <1>11, <1>12 DEF s, rec

-----------------------------------------------------------------------------
(* The words of the handshake processor.                                   *)

\* s has the buffers of r; the processor may have moved on.
Still(r, s) ==
  /\ Shape(s) /\ s.hout = r.hout /\ s.running = r.running
  /\ s.failed = r.failed /\ s.err = r.err /\ s.outbuf = r.outbuf
  /\ s.outrec = r.outrec /\ s.shutdown_recv = r.shutdown_recv
  /\ s.cnr = r.cnr

LEMMA StillFine ==
  ASSUME NEW h, NEW r, NEW s, Fine(r, h), r.running, Still(r, s), Floor(s),
         Shaking(s, h), r.pc # "close_wait", s.pc # "close_wait",
         r.pc \in Closing => s.pc \in Closing
  PROVE  Fine(s, h)
BY DEF Fine, Still, Given, OutIdle, Core, Stream, Pure, Notice, Ended, Holds

LEMMA TakeGives ==
  ASSUME NEW h, NEW r, Fine(r, h), r.running
  PROVE  /\ Fine(Take(r), h) /\ Agree(r, Take(r)) /\ Still(r, Take(r))
BY AgreeCore DEF Fine, Take, Agree, Still, Given, OutIdle, Shape, Fields

LEMMA HandshakeWord ==
  ASSUME NEW h, NEW r, Fine(r, h), r.running, r.pc = "handshake"
  PROVE  Fine(do_handshake(r), h)
<1> DEFINE s == do_handshake(r)
<1>1. /\ Still(r, s) /\ s.pc = "client_hello" /\ s.application_data = 0
      /\ s.record_type_out = "handshake"
  BY DEF do_handshake, Goto, Still, Fine, Shape, Fields
<1> HIDE DEF s
<1>2. Floor(s) /\ Shaking(s, h)
  BY <1>1 DEF Points, Floor, RecordTypes, Fine, Core, Shaking, Still, Holds, Shakes,
     Closing
<1> QED
  BY <1>1, <1>2, StillFine DEF Closing, s

\* A message other than those that open and end a handshake, or a connection.
LEMMA PlainWriteWord ==
  ASSUME NEW h, NEW r, Fine(r, h), r.running, r.hout, NEW type \in RecordTypes,
         NEW m \in Messages, NEW pc, NEW s, s = Goto(write_message(r, type, m), pc),
         r.pc \notin Closing, pc \notin Closing,
         m # "close_notify", type # "app", r.application_data # 1, pc \in Points,
         pc \in Silent => r.application_data = 0,
         pc \in {"client_hello", "server_hello", "server_done", "client_key"}
           => type = "handshake",
         \/ m = "finished"
         \/ /\ h.hello \/ m = "client_hello" =>
                 pc \in Shakes /\ pc \notin {"ccs_in", "finished_in"}
            /\ r.application_data = 0
  PROVE  Fine(s, h)
<1> DEFINE w == write_message(r, type, m)
<1>1. /\ Shape(w) /\ Given(w) /\ w.running /\ w.failed = r.failed
      /\ w.outbuf = <<>> /\ w.outrec # NoRec
      /\ w.outrec = [type |-> type, units |-> <<Message(m)>>]
      /\ w.record_type_out = type /\ w.err = r.err
      /\ w.application_data = r.application_data
      /\ w.shutdown_recv = r.shutdown_recv /\ w.cnr = r.cnr
  BY WriteGives DEF Fine
<1>2. s = [w EXCEPT !.pc = pc]
  BY DEF Goto
<1> HIDE DEF w
<1>3. /\ Shape(s) /\ Given(s) /\ s.failed = r.failed /\ s.outbuf = <<>>
      /\ s.outrec = [type |-> type, units |-> <<Message(m)>>]
      /\ s.outrec # NoRec /\ s.record_type_out = type /\ s.err = r.err
      /\ s.application_data = r.application_data
      /\ s.shutdown_recv = r.shutdown_recv /\ s.cnr = r.cnr /\ s.pc = pc
  BY <1>1, <1>2 DEF Shape, Fields, Given, OutIdle
<1>4. \A n \in Messages : Holds(s, n) <=> n = m
  BY <1>3 DEF Holds, Message
<1>5. /\ h.written \in Nat /\ h.gone \in Nat /\ h.gone = h.written
      /\ Core(r, h)
  BY OwedIsData DEF Fine, Core, Stream, Given, OutIdle, Holds
<1>6. {"client_hello", "finished", "close_notify"} \subseteq Messages
  BY DEF Messages
<1>7. Floor(s)
  BY <1>3, <1>5 DEF Core, Floor, Silent, Shakes
<1>8. Stream(s, h) /\ Pure(s, h) /\ Ended(s, h)
  BY <1>3, <1>4, <1>5 DEF Stream, Pure, Ended, Core
<1>9. Notice(s, h)
  BY <1>3, <1>4, <1>5, <1>6 DEF Notice, Core, Closing
<1>10. Shaking(s, h)
  BY <1>3, <1>4, <1>5, <1>6 DEF Shaking
<1> QED
  BY <1>3, <1>7, <1>8, <1>9, <1>10 DEF Fine, Core

LEMMA FineYields ==
  ASSUME NEW h, NEW r, Fine(r, h)
  PROVE  Fine(Yield(r), h)
BY YieldGives DEF Fine

LEMMA FineFails ==
  ASSUME NEW h, NEW r, Fine(r, h), r.running, NEW err, err # "ok"
  PROVE  Fine(Fail(r, err), h)
BY FailGives DEF Fine, Given

LEMMA ClientHelloWord ==
  ASSUME NEW h, NEW r, Fine(r, h), r.running, r.pc = "client_hello"
  PROVE  Fine(write_ClientHello(r), h)
<1>1. CASE r.hout
  <2>1. /\ r.application_data = 0 /\ r.record_type_out = "handshake"
        /\ "client_hello" \in Messages /\ "handshake" \in RecordTypes
    BY DEF Fine, Core, Floor, Silent, Messages, RecordTypes
  <2>2. "server_hello" \in Shakes
    BY DEF Shakes
  <2> QED
    BY <1>1, <2>1, <2>2, PlainWriteWord
       DEF Closing, write_ClientHello, Points
<1>2. CASE ~r.hout
  BY <1>2, FineYields DEF write_ClientHello
<1> QED
  BY <1>1, <1>2

LEMMA ServerHelloWord ==
  ASSUME NEW h, NEW r, Fine(r, h), r.running, r.pc = "server_hello"
  PROVE  Fine(read_ServerHello(r), h)
<1>1. Fine(Yield(r), h) /\ Fine(Take(r), h) /\ Fine(Fail(r, "unexpected"), h)
      /\ Fine(Fail(r, "bad_secreneg"), h)
  BY FineYields, FineFails, TakeGives
<1> DEFINE resume == Head(r.hin) = "sh_resume" /\ r.session
           secure == Head(r.hin) # "sh_old"
           s == [Take(r) EXCEPT !.reneg = IF secure THEN 2 ELSE 1,
                                !.session = secure, !.resume = resume,
                                !.pc = IF resume THEN "ccs_in" ELSE "server_done"]
<1>2. Fine(s, h)
  <2>1. Fine(Take(r), h) /\ Agree(r, Take(r)) /\ Still(r, Take(r))
    BY TakeGives
  <2>2. /\ Still(r, s) /\ s.pc = IF resume THEN "ccs_in" ELSE "server_done"
        /\ s.resume = resume /\ s.application_data = r.application_data
        /\ s.record_type_out = r.record_type_out
    BY <2>1 DEF Still, Agree, Shape, Fields
  <2> HIDE DEF s
  <2>3. s.pc \in {"ccs_in", "server_done"} /\ (s.pc = "ccs_in" => s.resume)
    BY <2>2
  <2> HIDE DEF resume, secure
  <2>4. Floor(s) /\ Shaking(s, h)
    BY <2>2, <2>3 DEF Points, Fine, Core, Floor, Shaking, Still, Holds, Shakes, Silent
  <2> QED
    BY <2>2, <2>3, <2>4, StillFine DEF Closing
<1> QED
  BY <1>1, <1>2 DEF read_ServerHello

LEMMA ServerDoneWord ==
  ASSUME NEW h, NEW r, Fine(r, h), r.running, r.pc = "server_done"
  PROVE  Fine(read_ServerDone(r), h)
<1>1. Fine(Yield(r), h) /\ Fine(Take(r), h) /\ Fine(Fail(r, "unexpected"), h)
  BY FineYields, FineFails, TakeGives
<1> DEFINE s == Goto(Take(r), "client_key")
<1>2. Fine(s, h)
  <2>1. Fine(Take(r), h) /\ Agree(r, Take(r)) /\ Still(r, Take(r))
    BY TakeGives
  <2>2. /\ Still(r, s) /\ s.pc = "client_key"
        /\ s.application_data = r.application_data
        /\ s.record_type_out = r.record_type_out
    BY <2>1 DEF Goto, Still, Agree, Shape, Fields
  <2> HIDE DEF s
  <2>3. Floor(s) /\ Shaking(s, h)
    BY <2>2 DEF Points, Fine, Core, Floor, Shaking, Still, Holds, Shakes, Silent
  <2> QED
    BY <2>2, <2>3, StillFine DEF Closing
<1> QED
  BY <1>1, <1>2 DEF read_ServerDone

LEMMA ClientKeyWord ==
  ASSUME NEW h, NEW r, Fine(r, h), r.running, r.pc = "client_key"
  PROVE  Fine(write_ClientKeyExchange(r), h)
<1>1. CASE r.hout
  <2>1. /\ r.application_data = 0 /\ r.record_type_out = "handshake"
        /\ "client_key" \in Messages /\ "handshake" \in RecordTypes
    BY DEF Fine, Core, Floor, Silent, Shakes, Messages, RecordTypes
  <2>2. [r EXCEPT !.record_type_out = "handshake"] = r
    BY <2>1 DEF Fine, Shape, Fields
  <2>3. "ccs_out" \in Shakes
    BY DEF Shakes
  <2>4. write_ClientKeyExchange(r)
          = Goto(write_message(r, "handshake", "client_key"), "ccs_out")
    BY <1>1, <2>2 DEF write_ClientKeyExchange, write_message
  <2> QED
    BY <1>1, <2>1, <2>3, <2>4, PlainWriteWord DEF Closing, Points
<1>2. CASE ~r.hout
  BY <1>2, FineYields DEF write_ClientKeyExchange
<1> QED
  BY <1>1, <1>2

LEMMA CCSWord ==
  ASSUME NEW h, NEW r, Fine(r, h), r.running, r.pc = "ccs_out"
  PROVE  Fine(write_CCS(r), h)
<1>1. CASE r.hout
  <2>1. r.application_data = 0 /\ "ccs" \in Messages /\ "ccs" \in RecordTypes
    BY DEF Fine, Core, Floor, Silent, Shakes, Messages, RecordTypes
  <2>2. "finished_out" \in Shakes
    BY DEF Shakes
  <2> QED
    BY <1>1, <2>1, <2>2, PlainWriteWord
       DEF Closing, write_CCS, Points
<1>2. CASE ~r.hout
  BY <1>2, FineYields DEF write_CCS
<1> QED
  BY <1>1, <1>2

LEMMA FinishedWord ==
  ASSUME NEW h, NEW r, Fine(r, h), r.running, r.pc = "finished_out"
  PROVE  Fine(write_Finished(r), h)
<1>1. CASE r.hout
  <2>1. /\ r.application_data = 0 /\ "finished" \in Messages
        /\ "handshake" \in RecordTypes
    BY DEF Fine, Core, Floor, Silent, Shakes, Messages, RecordTypes
  <2>2. ASSUME NEW pc \in {"open", "ccs_in"}
        PROVE  Fine(Goto(write_message(r, "handshake", "finished"), pc), h)
    BY <1>1, <2>1, PlainWriteWord DEF Closing, Points
  <2> DEFINE out == write_message(r, "handshake", "finished")
  <2>3. write_Finished(r) = Goto(out, "open") \/ write_Finished(r) = Goto(out, "ccs_in")
    BY <1>1 DEF write_Finished
  <2> QED
    BY <2>2, <2>3
<1>2. CASE ~r.hout
  BY <1>2, FineYields DEF write_Finished
<1> QED
  BY <1>1, <1>2

LEMMA ReadCCSWord ==
  ASSUME NEW h, NEW r, Fine(r, h), r.running, r.pc = "ccs_in"
  PROVE  Fine(read_CCS(r), h)
<1>1. /\ Fine(Yield(r), h) /\ Fine(Fail(r, "unexpected"), h)
      /\ Fine(Fail(r, "bad_ccs"), h)
  BY FineYields, FineFails
<1> DEFINE s == Goto(Take(r), "finished_in")
<1>2. Fine(s, h)
  <2>1. Fine(Take(r), h) /\ Agree(r, Take(r)) /\ Still(r, Take(r))
    BY TakeGives
  <2>2. /\ Still(r, s) /\ s.pc = "finished_in" /\ s.resume = r.resume
        /\ s.application_data = r.application_data
        /\ s.record_type_out = r.record_type_out
    BY <2>1 DEF Goto, Still, Agree, Shape, Fields
  <2> HIDE DEF s
  <2>3. Floor(s) /\ Shaking(s, h)
    BY <2>2 DEF Points, Fine, Core, Floor, Shaking, Still, Holds, Shakes, Silent
  <2> QED
    BY <2>2, <2>3, StillFine DEF Closing
<1> QED
  BY <1>1, <1>2 DEF read_CCS

LEMMA ReadFinishedWord ==
  ASSUME NEW h, NEW r, Fine(r, h), r.running, r.pc = "finished_in"
  PROVE  Fine(read_Finished(r), h)
<1>1. Fine(Yield(r), h) /\ Fine(Take(r), h) /\ Fine(Fail(r, "unexpected"), h)
  BY FineYields, FineFails, TakeGives
<1>2. /\ Agree(r, Take(r)) /\ Still(r, Take(r)) /\ Take(r).running
      /\ ~Take(r).failed /\ Take(r).pc = "finished_in"
  BY TakeGives DEF Still, Agree, Fine, Given
<1>3. Fine(Goto(Take(r), "open"), h) \/ r.resume
  <2> SUFFICES ASSUME ~r.resume PROVE Fine(Goto(Take(r), "open"), h)
    OBVIOUS
  <2> DEFINE s == Goto(Take(r), "open")
  <2>1. /\ Still(r, s) /\ s.pc = "open"
        /\ s.application_data = r.application_data
        /\ s.record_type_out = r.record_type_out
    BY <1>2 DEF Goto, Still, Agree, Shape, Fields
  <2> HIDE DEF s
  <2>2. Floor(s) /\ Shaking(s, h)
    BY <2>1 DEF Points, Fine, Core, Floor, Shaking, Still, Holds, Shakes, Silent
  <2>3. Fine(s, h)
    BY <2>1, <2>2, StillFine DEF Closing
  <2> QED
    BY <2>3 DEF s
<1>4. Fine(Goto(flush_record(Take(r)), "ccs_out"), h)
  <2> DEFINE f == flush_record(Take(r))
             s == Goto(f, "ccs_out")
  <2>1. /\ Fine(f, h) /\ f.running
        /\ f.application_data = Take(r).application_data
        /\ f.pc = "finished_in" /\ f.record_type_out = Take(r).record_type_out
    BY <1>1, <1>2, FlushGives DEF Fine
  <2> HIDE DEF f
  <2>2. /\ Still(f, s) /\ s.pc = "ccs_out" /\ s.resume = f.resume
        /\ s.application_data = f.application_data
        /\ s.record_type_out = f.record_type_out
    BY <2>1 DEF Fine, Goto, Still, Shape, Fields
  <2> HIDE DEF s
  <2>3. Floor(s) /\ Shaking(s, h)
    BY <2>1, <2>2 DEF Points, Fine, Core, Floor, Shaking, Still, Holds, Shakes, Silent
  <2>4. Fine(s, h)
    BY <2>1, <2>2, <2>3, StillFine DEF Closing
  <2> QED
    BY <2>4 DEF f, s
<1> QED
  BY <1>1, <1>3, <1>4 DEF read_Finished

LEMMA OpenWord ==
  ASSUME NEW h, NEW r, Fine(r, h), r.running, r.pc = "open"
  PROVE  Fine(open(r), h)
<1> DEFINE s == [r EXCEPT !.application_data = 1, !.record_type_out = "app",
                          !.pc = "main"]
<1>1. /\ Still(r, s) /\ s.pc = "main" /\ s.application_data = 1
      /\ s.record_type_out = "app"
  BY DEF Fine, Still, Shape, Fields
<1>2. open(r) = Yield(s)
  BY DEF open
<1> HIDE DEF s
<1>3. Floor(s) /\ Shaking(s, h)
  BY <1>1 DEF Points, Fine, Core, Floor, Shaking, Still, Holds, Shakes, Silent,
     Closing, RecordTypes
<1>4. Fine(s, h)
  BY <1>1, <1>3, StillFine DEF Closing
<1> QED
  BY <1>2, <1>4, FineYields

\* The loop of main hands the floor over, or keeps it.
LEMMA MainWord ==
  ASSUME NEW h, NEW r, Fine(r, h), r.running, r.pc = "main"
  PROVE  Fine(main(r), h)
<1>1. Fine(Yield(r), h)
  BY FineYields
<1>2. Fine(Goto([r EXCEPT !.action = 0], "handshake"), h)
  <2> DEFINE s == Goto([r EXCEPT !.action = 0], "handshake")
  <2>1. /\ Still(r, s) /\ s.pc = "handshake"
        /\ s.application_data = r.application_data
        /\ s.record_type_out = r.record_type_out
    BY DEF Goto, Fine, Still, Shape, Fields
  <2> HIDE DEF s
  <2>2. Floor(s) /\ Shaking(s, h)
    BY <2>1 DEF Points, Fine, Core, Floor, Shaking, Still, Holds, Shakes, Silent,
       Closing
  <2>3. Fine(s, h)
    BY <2>1, <2>2, StillFine DEF Closing
  <2> QED
    BY <2>3 DEF s
<1>3. ASSUME NEW n \in {0, r.application_data}
      PROVE  Fine(Fail([r EXCEPT !.application_data = n], "unexpected"), h)
  <2> DEFINE s == [r EXCEPT !.application_data = n]
  <2>1. /\ Still(r, s) /\ s.pc = "main" /\ s.application_data = n
        /\ s.record_type_out = r.record_type_out /\ s.running
    BY DEF Fine, Still, Shape, Fields
  <2> HIDE DEF s
  <2>2. Floor(s) /\ Shaking(s, h)
    BY <1>3, <2>1 DEF Points, Fine, Core, Floor, Shaking, Still, Holds, Shakes,
       Silent, Closing
  <2>3. Fine(s, h)
    BY <2>1, <2>2, StillFine DEF Closing
  <2>4. Fine(Fail(s, "unexpected"), h)
    BY <2>1, <2>3, FineFails
  <2> QED
    BY <2>4 DEF s
<1> DEFINE asked == [Take(r) EXCEPT !.application_data = 0]
<1>4. /\ Still(r, asked) /\ asked.pc = "main" /\ asked.application_data = 0
      /\ asked.record_type_out = r.record_type_out /\ asked.running
      /\ ~asked.failed
  <2>1. Agree(r, Take(r)) /\ Still(r, Take(r))
    BY TakeGives
  <2> QED
    BY <2>1 DEF Still, Agree, Shape, Fields, Fine, Given
<1>5. main(r) =
        IF r.hin = <<>>
        THEN IF r.action = 2 /\ r.application_data = 1
             THEN Goto([r EXCEPT !.action = 0], "handshake") ELSE Yield(r)
        ELSE IF r.record_type_in # "handshake" \/ Head(r.hin) # "hello_request"
        THEN Fail([r EXCEPT !.application_data =
                     IF r.record_type_in = "handshake" THEN 0 ELSE @],
                  "unexpected")
        ELSE IF r.reneg = 1 \/ NoRenegotiation
             THEN Goto(flush_record(asked), "reject")
             ELSE Goto(asked, "handshake")
  BY DEF main
<1> HIDE DEF asked
<1>6. Fine(asked, h)
  <2>1. Floor(asked) /\ Shaking(asked, h)
    BY <1>4 DEF Points, Fine, Core, Floor, Shaking, Still, Holds, Shakes, Silent,
       Closing
  <2> QED
    BY <1>4, <2>1, StillFine DEF Closing
<1>7. Fine(Goto(asked, "handshake"), h)
  <2> DEFINE s == Goto(asked, "handshake")
  <2>1. /\ Still(asked, s) /\ s.pc = "handshake"
        /\ s.application_data = 0
        /\ s.record_type_out = asked.record_type_out
    BY <1>4, <1>6 DEF Goto, Fine, Still, Shape, Fields
  <2> HIDE DEF s
  <2>2. Floor(s) /\ Shaking(s, h)
    BY <1>4, <1>6, <2>1 DEF Points, Fine, Core, Floor, Shaking, Still, Holds, Shakes,
       Silent, Closing
  <2>3. Fine(s, h)
    BY <1>4, <1>6, <2>1, <2>2, StillFine DEF Closing
  <2> QED
    BY <2>3 DEF s
<1>8. Fine(Goto(flush_record(asked), "reject"), h)
  <2> DEFINE f == flush_record(asked)
             s == Goto(f, "reject")
  <2>1. Fine(f, h) /\ f.running /\ f.application_data = 0 /\ f.pc = "main"
    BY <1>4, <1>6, FlushGives DEF Fine
  <2> HIDE DEF f
  <2>2. /\ Still(f, s) /\ s.pc = "reject" /\ s.application_data = 0
        /\ s.record_type_out = f.record_type_out
    BY <2>1 DEF Fine, Goto, Still, Shape, Fields
  <2> HIDE DEF s
  <2>3. Floor(s) /\ Shaking(s, h)
    BY <2>1, <2>2 DEF Points, Fine, Core, Floor, Shaking, Still, Holds, Shakes,
       Silent, Closing
  <2>4. Fine(s, h)
    BY <2>1, <2>2, <2>3, StillFine DEF Closing
  <2> QED
    BY <2>4 DEF f, s
<1>9. Fine(Fail([r EXCEPT !.application_data =
                   IF r.record_type_in = "handshake" THEN 0 ELSE @],
                "unexpected"), h)
  <2>1. [r EXCEPT !.application_data =
           IF r.record_type_in = "handshake" THEN 0 ELSE @]
          = [r EXCEPT !.application_data =
               IF r.record_type_in = "handshake" THEN 0
               ELSE r.application_data]
    OBVIOUS
  <2> QED
    BY <1>3, <2>1
<1> QED
  BY <1>1, <1>2, <1>5, <1>7, <1>8, <1>9

LEMMA RejectWord ==
  ASSUME NEW h, NEW r, Fine(r, h), r.running, r.pc = "reject"
  PROVE  Fine(reject(r), h)
<1>1. CASE r.hout
  <2>1. /\ r.application_data = 0 /\ "no_renegotiation" \in Messages
        /\ "alert" \in RecordTypes
    BY DEF Fine, Core, Floor, Silent, Messages, RecordTypes
  <2>2. ~h.hello
    BY <1>1 DEF Fine, Core, Shaking, Given, OutIdle, Holds, Shakes, Closing
  <2>3. "open" \notin Shakes
    BY DEF Shakes
  <2> QED
    BY <1>1, <2>1, <2>2, <2>3, PlainWriteWord
       DEF Closing, reject, Points
<1>2. CASE ~r.hout
  BY <1>2, FineYields DEF reject
<1> QED
  BY <1>1, <1>2

LEMMA CloseWord ==
  ASSUME NEW h, NEW r, Fine(r, h), r.running, r.pc = "close"
  PROVE  Fine(do_close(r), h)
<1> DEFINE n == IF r.cnr THEN 0 ELSE 2 * r.application_data
           q == [r EXCEPT !.application_data = n]
           f == flush_record(q)
           s == Goto(f, "close_room")
<1>1. n \in Nat /\ n # 1 /\ (r.application_data = 0 => n = 0)
  BY DEF Fine, Core, Floor
<1>2. do_close(r) = s
  BY DEF do_close
<1> HIDE DEF n
<1>3. /\ Still(r, q) /\ q.pc = "close" /\ q.application_data = n
      /\ q.record_type_out = r.record_type_out /\ q.running /\ ~q.failed
  BY DEF Fine, Given, Still, Shape, Fields
<1> HIDE DEF q
<1>4. Floor(q) /\ Shaking(q, h)
  BY <1>1, <1>3 DEF Points, Fine, Core, Floor, Shaking, Still, Holds, Shakes, Silent,
     Closing
<1>5. Fine(q, h)
  BY <1>3, <1>4, StillFine DEF Closing
<1>6. Fine(f, h) /\ f.running /\ f.application_data = n /\ f.pc = "close"
  BY <1>3, <1>5, FlushGives DEF Fine
<1> HIDE DEF f
<1>7. /\ Still(f, s) /\ s.pc = "close_room" /\ s.application_data = n
      /\ s.record_type_out = f.record_type_out
  BY <1>6 DEF Fine, Goto, Still, Shape, Fields
<1> HIDE DEF s
<1>8. Floor(s) /\ Shaking(s, h)
  BY <1>1, <1>6, <1>7 DEF Points, Fine, Core, Floor, Shaking, Still, Holds, Shakes,
     Silent, Closing
<1>9. Fine(s, h)
  BY <1>6, <1>7, <1>8, StillFine DEF Closing
<1> QED
  BY <1>2, <1>9

LEMMA CloseRoomWord ==
  ASSUME NEW h, NEW r, Fine(r, h), r.running, r.pc = "close_room"
  PROVE  Fine(close_room(r), h)
<1>1. CASE r.hout
  <2> DEFINE w == write_message(r, "alert", "close_notify")
             s == Goto(w, "close_wait")
  <2>1. "close_notify" \in Messages /\ "alert" \in RecordTypes
    BY DEF Messages, RecordTypes
  <2>2. /\ Shape(w) /\ Given(w) /\ w.running /\ w.failed = r.failed
        /\ w.outbuf = <<>> /\ w.outrec # NoRec
        /\ w.outrec = [type |-> "alert", units |-> <<Message("close_notify")>>]
        /\ w.record_type_out = "alert" /\ w.err = r.err
        /\ w.application_data = r.application_data
        /\ w.shutdown_recv = r.shutdown_recv /\ w.cnr = r.cnr
    BY <1>1, <2>1, WriteGives DEF Fine
  <2> HIDE DEF w
  <2>3. /\ Shape(s) /\ Given(s) /\ s.failed = r.failed /\ s.outbuf = <<>>
        /\ s.outrec = [type |-> "alert", units |-> <<Message("close_notify")>>]
        /\ s.outrec # NoRec /\ s.record_type_out = "alert" /\ s.err = r.err
        /\ s.application_data = r.application_data
        /\ s.shutdown_recv = r.shutdown_recv /\ s.cnr = r.cnr
        /\ s.pc = "close_wait"
    BY <2>2 DEF Goto, Shape, Fields, Given, OutIdle
  <2> HIDE DEF s
  <2>4. \A m \in Messages : Holds(s, m) <=> m = "close_notify"
    BY <2>3 DEF Holds, Message
  <2>5. h.gone = h.written /\ Core(r, h) /\ ~h.notified
    <3>1. Core(r, h) /\ ~h.notified
      BY DEF Fine, Core, Notice
    <3> QED
      BY <1>1, <3>1, OwedIsData DEF Fine, Core, Stream, Given, OutIdle, Holds
  <2>6. {"client_hello", "finished", "close_notify"} \subseteq Messages
    BY DEF Messages
  <2>7. Floor(s) /\ Stream(s, h) /\ Pure(s, h) /\ Ended(s, h)
    BY <2>1, <2>3, <2>4, <2>5
       DEF Core, Floor, Points, Silent, Shakes, Closing, Stream, Pure, Ended
  <2>8. Notice(s, h)
    BY <2>3, <2>4, <2>5, <2>6 DEF Notice
  <2>9. Shaking(s, h)
    BY <1>1, <2>3, <2>4, <2>5, <2>6
       DEF Shaking, Core, Closing, Fine, Given, OutIdle, Holds
  <2>10. Fine(s, h)
    BY <2>3, <2>7, <2>8, <2>9 DEF Fine, Core
  <2> QED
    BY <1>1, <2>10 DEF close_room, w, s
<1>2. CASE ~r.hout
  BY <1>2, FineYields DEF close_room
<1> QED
  BY <1>1, <1>2

\* The end: both close_notify alerts are exchanged, and nothing is owed.
LEMMA CloseWaitWord ==
  ASSUME NEW h, NEW r, Fine(r, h), r.running, r.pc = "close_wait"
  PROVE  Fine(close_wait(r), h)
<1>1. CASE r.cnr /\ r.hout
  <2>1. h.notified /\ r.shutdown_recv /\ ~r.failed
    BY <1>1 DEF Fine, Core, Notice, Ended, Given, OutIdle, Holds
  <2>2. h.gone = h.written
    BY <1>1, OwedIsData DEF Fine, Core, Stream, Given, OutIdle, Holds
  <2>3. Fine(Fail(r, "ok"), h)
    BY <2>1, <2>2, FailGives DEF Fine
  <2> QED
    BY <1>1, <2>3 DEF close_wait
<1>2. CASE ~(r.cnr /\ r.hout)
  BY <1>2, FineYields DEF close_wait
<1> QED
  BY <1>1, <1>2

-----------------------------------------------------------------------------
(* What happens first when control comes back.                             *)

\* An alert, or input that is dropped; the buffers for output stay.
LEMMA AwakeFine ==
  ASSUME NEW h, NEW r, NEW s, Fine(r, h), Shape(s), s.hout = r.hout,
         r.running, s.running = r.running, s.failed = r.failed, s.err = r.err,
         s.outbuf = r.outbuf, s.outrec = r.outrec, s.resume = r.resume,
         s.record_type_out = r.record_type_out,
         s.application_data \in {0, r.application_data},
         s.cnr <=> s.shutdown_recv, r.cnr => s.cnr,
         s.cnr => s.pc \in Closing,
         s.pc = r.pc \/ (s.pc = "close" /\ r.pc \notin Closing)
  PROVE  Fine(s, h)
<1>1. Given(s)
  BY DEF Fine, Given, OutIdle
<1>2. Floor(s) /\ Stream(s, h) /\ Pure(s, h) /\ Ended(s, h)
  BY DEF Fine, Core, Floor, Points, Silent, Shakes, Closing, Stream, Pure,
     Holds, Ended
<1>3. Notice(s, h)
  BY DEF Fine, Core, Notice, Closing, Holds
<1>4. Shaking(s, h)
  BY DEF Fine, Core, Shaking, Shakes, Closing, Holds
<1> QED
  BY <1>1, <1>2, <1>3, <1>4 DEF Fine, Core

LEMMA AlertsGive ==
  ASSUME NEW r, Shape(r)
  PROVE  LET s == process_alerts(r)
         IN  /\ Shape(s) /\ s.hout = r.hout /\ s.running = r.running
             /\ s.failed = r.failed /\ s.err = r.err /\ s.outbuf = r.outbuf
             /\ s.outrec = r.outrec /\ s.resume = r.resume /\ s.pc = r.pc
             /\ s.record_type_out = r.record_type_out
             /\ s.application_data = r.application_data /\ s.cnr = r.cnr
             /\ s.shutdown_recv = (r.shutdown_recv \/ AlertState(r).close)
<1> DEFINE st == AlertState(r)
<1>1. process_alerts(r) = [r EXCEPT !.alert = st.alert, !.hin = <<>>,
                             !.took = TRUE, !.shutdown_recv = @ \/ st.close]
  BY DEF process_alerts
<1> HIDE DEF st
<1> QED
  BY <1>1 DEF Shape, Fields, st

LEMMA WaitCoFine ==
  ASSUME NEW h, NEW r, Fine(r, h), r.running, r.pc \notin Closing
  PROVE  Fine(wait_co(r), h)
<1> DEFINE awake == [r EXCEPT !.resumed = FALSE]
           told == [process_alerts(awake) EXCEPT !.pc = "close", !.cnr = TRUE]
<1>1. /\ Shape(awake) /\ awake.hout = r.hout /\ awake.running = r.running
      /\ awake.failed = r.failed /\ awake.err = r.err
      /\ awake.outbuf = r.outbuf /\ awake.outrec = r.outrec
      /\ awake.resume = r.resume /\ awake.pc = r.pc
      /\ awake.record_type_out = r.record_type_out
      /\ awake.application_data = r.application_data /\ awake.cnr = r.cnr
      /\ awake.shutdown_recv = r.shutdown_recv
  BY DEF Fine, Shape, Fields
<1>2. wait_co(r) =
        IF r.action = 1 THEN Goto(awake, "close")
        ELSE IF ~HasInput(r, "alert") THEN awake
        ELSE IF AlertState(awake).fatal THEN Fail(awake, "fatal_alert")
        ELSE IF AlertState(awake).close THEN told
        ELSE process_alerts(awake)
  BY DEF wait_co
<1> HIDE DEF awake
<1>3. (r.cnr <=> r.shutdown_recv) /\ (r.cnr => r.pc \in Closing)
  BY DEF Fine, Core, Ended
<1>4. Fine(awake, h)
  BY <1>1, <1>3, AwakeFine
<1>5. Fine(Fail(awake, "fatal_alert"), h)
  BY <1>1, <1>4, FineFails
<1>6. Fine(Goto(awake, "close"), h)
  <2> DEFINE s == Goto(awake, "close")
  <2>1. /\ Shape(s) /\ s.hout = r.hout /\ s.running = r.running
        /\ s.failed = r.failed /\ s.err = r.err /\ s.outbuf = r.outbuf
        /\ s.outrec = r.outrec /\ s.resume = r.resume /\ s.pc = "close"
        /\ s.record_type_out = r.record_type_out
        /\ s.application_data = r.application_data /\ s.cnr = r.cnr
        /\ s.shutdown_recv = r.shutdown_recv
    BY <1>1 DEF Goto, Shape, Fields
  <2>2. s.pc \in Closing
    BY <2>1 DEF Closing
  <2> HIDE DEF s
  <2>3. Fine(s, h)
    BY <1>3, <2>1, <2>2, AwakeFine
  <2> QED
    BY <2>3 DEF s
<1> DEFINE s == process_alerts(awake)
<1>7. /\ Shape(s) /\ s.hout = r.hout /\ s.running = r.running
      /\ s.failed = r.failed /\ s.err = r.err /\ s.outbuf = r.outbuf
      /\ s.outrec = r.outrec /\ s.resume = r.resume /\ s.pc = r.pc
      /\ s.record_type_out = r.record_type_out
      /\ s.application_data = r.application_data /\ s.cnr = r.cnr
      /\ s.shutdown_recv = (r.shutdown_recv \/ AlertState(awake).close)
  BY <1>1, AlertsGive
<1> HIDE DEF s
<1>8. ~AlertState(awake).close => Fine(s, h)
  BY <1>3, <1>7, AwakeFine
<1>9. AlertState(awake).close => Fine(told, h)
  <2> SUFFICES ASSUME AlertState(awake).close PROVE Fine(told, h)
    OBVIOUS
  <2>1. told = [s EXCEPT !.pc = "close", !.cnr = TRUE]
    BY DEF s
  <2>2. /\ Shape(told) /\ told.hout = r.hout /\ told.running = r.running
        /\ told.failed = r.failed /\ told.err = r.err
        /\ told.outbuf = r.outbuf /\ told.outrec = r.outrec
        /\ told.resume = r.resume /\ told.pc = "close"
        /\ told.record_type_out = r.record_type_out
        /\ told.application_data = r.application_data
        /\ told.shutdown_recv = s.shutdown_recv /\ told.cnr = TRUE
    BY <1>7, <2>1 DEF Shape, Fields
  <2>3. told.shutdown_recv /\ told.pc \in Closing
    BY <1>7, <2>2 DEF Closing
  <2> HIDE DEF told
  <2> QED
    BY <2>2, <2>3, AwakeFine
<1> QED
  BY <1>2, <1>4, <1>5, <1>6, <1>8, <1>9 DEF s

LEMMA WaitForCloseFine ==
  ASSUME NEW h, NEW r, Fine(r, h), r.running, r.pc \in Closing
  PROVE  Fine(wait_for_close(r), h)
<1> DEFINE awake == [r EXCEPT !.resumed = FALSE]
           dropped == [awake EXCEPT !.hin = <<>>, !.took = TRUE]
           c == AlertState(awake).close
           told == [process_alerts(awake) EXCEPT !.application_data = 0,
                                                 !.cnr = c]
<1>1. /\ Shape(awake) /\ awake.hout = r.hout /\ awake.running = r.running
      /\ awake.failed = r.failed /\ awake.err = r.err
      /\ awake.outbuf = r.outbuf /\ awake.outrec = r.outrec
      /\ awake.resume = r.resume /\ awake.pc = r.pc
      /\ awake.record_type_out = r.record_type_out
      /\ awake.application_data = r.application_data /\ awake.cnr = r.cnr
      /\ awake.shutdown_recv = r.shutdown_recv
  BY DEF Fine, Shape, Fields
<1>2. wait_for_close(r) =
        IF r.cnr \/ r.hin = <<>> THEN awake
        ELSE IF ~HasInput(r, "alert") THEN dropped
        ELSE IF AlertState(awake).fatal THEN Fail(awake, "fatal_alert")
        ELSE told
  BY DEF wait_for_close
<1> HIDE DEF awake
<1>3. (r.cnr <=> r.shutdown_recv) /\ (r.cnr => r.pc \in Closing)
  BY DEF Fine, Core, Ended
<1>4. Fine(awake, h)
  BY <1>1, <1>3, AwakeFine
<1>5. Fine(Fail(awake, "fatal_alert"), h)
  BY <1>1, <1>4, FineFails
<1>6. Fine(dropped, h)
  <2>1. /\ Shape(dropped) /\ dropped.hout = r.hout
        /\ dropped.running = r.running
        /\ dropped.failed = r.failed /\ dropped.err = r.err
        /\ dropped.outbuf = r.outbuf /\ dropped.outrec = r.outrec
        /\ dropped.resume = r.resume /\ dropped.pc = r.pc
        /\ dropped.record_type_out = r.record_type_out
        /\ dropped.application_data = r.application_data
        /\ dropped.cnr = r.cnr /\ dropped.shutdown_recv = r.shutdown_recv
    BY <1>1 DEF Shape, Fields
  <2> HIDE DEF dropped
  <2> QED
    BY <1>3, <2>1, AwakeFine
<1> DEFINE s == process_alerts(awake)
<1>7. /\ Shape(s) /\ s.hout = r.hout /\ s.running = r.running
      /\ s.failed = r.failed /\ s.err = r.err /\ s.outbuf = r.outbuf
      /\ s.outrec = r.outrec /\ s.resume = r.resume /\ s.pc = r.pc
      /\ s.record_type_out = r.record_type_out
      /\ s.shutdown_recv = (r.shutdown_recv \/ c)
  BY <1>1, AlertsGive
<1>8. told = [s EXCEPT !.application_data = 0, !.cnr = c]
  OBVIOUS
<1> HIDE DEF s, c
<1>9. ~r.cnr => Fine(told, h)
  <2>1. /\ Shape(told) /\ told.hout = r.hout /\ told.running = r.running
        /\ told.failed = r.failed /\ told.err = r.err
        /\ told.outbuf = r.outbuf /\ told.outrec = r.outrec
        /\ told.resume = r.resume /\ told.pc = r.pc
        /\ told.record_type_out = r.record_type_out
        /\ told.application_data = 0 /\ told.cnr = c
        /\ told.shutdown_recv = s.shutdown_recv
    BY <1>7, <1>8 DEF Shape, Fields
  <2> HIDE DEF told
  <2>2. ~r.cnr => (told.cnr <=> told.shutdown_recv)
    BY <1>3, <1>7, <2>1
  <2> QED
    BY <2>1, <2>2, AwakeFine
<1> QED
  BY <1>2, <1>4, <1>5, <1>6, <1>9

\* Whatever it is resumed with, the processor keeps the invariant.
LEMMA HsStepFine ==
  ASSUME NEW h, NEW r, Fine(r, h), r.running
  PROVE  Fine(HsStep(r), h)
<1>1. CASE r.resumed
  BY <1>1, WaitCoFine, WaitForCloseFine DEF HsStep, Resume
<1>2. r.pc \in Points
  BY DEF Fine, Core, Floor
<1>3. CASE ~r.resumed
  BY <1>2, <1>3, HandshakeWord, ClientHelloWord, ServerHelloWord, ServerDoneWord,
     ClientKeyWord, CCSWord, FinishedWord, ReadCCSWord, ReadFinishedWord,
     OpenWord, MainWord, RejectWord, CloseWord, CloseRoomWord, CloseWaitWord
     DEF HsStep, Word, Points
<1> QED
  BY <1>1, <1>3

-----------------------------------------------------------------------------
(* The calls of the transport and of the application.                      *)

\* The engine as it is handed to the processor for the first time.
LEMMA InitFine ==
  ASSUME NEW h, h.written = 0, h.gone = 0, ~h.hello, ~h.notified
  PROVE  Fine(InitEngine, h) /\ InitEngine.running
<1> DEFINE r ==
    [failed |-> FALSE, err |-> "ok", part |-> FALSE,
     record_type_in |-> "handshake", inbuf |-> <<>>, outbuf |-> <<>>,
     outrec |-> NoRec, record_type_out |-> "handshake",
     application_data |-> 0, shutdown_recv |-> FALSE, alert |-> 0,
     reneg |-> 0, session |-> FALSE, running |-> FALSE, action |-> 0,
     resumed |-> FALSE, pc |-> "handshake", cnr |-> FALSE, resume |-> FALSE,
     hin |-> <<>>, hout |-> FALSE, took |-> FALSE]
<1>1. InitEngine = jump_handshake(r, 0)
  BY DEF InitEngine
<1>2. Shape(r)
  BY DEF Shape, Fields
<1>3. /\ r.failed = FALSE /\ r.outbuf = <<>> /\ r.outrec = NoRec
      /\ r.record_type_out = "handshake" /\ r.application_data = 0
      /\ r.pc = "handshake" /\ r.cnr = FALSE /\ r.shutdown_recv = FALSE
  OBVIOUS
<1> HIDE DEF r
<1>4. Owed(h) = <<>>
  BY DataIsData DEF Owed
<1>5. Core(r, h)
  BY <1>3, <1>4 DEF Core, Floor, Points, RecordTypes, Silent, Shakes,
     Stream, Pure, Notice, Shaking, Ended, Holds
<1>6. Shape(InitEngine) /\ Given(InitEngine) /\ Agree(r, InitEngine)
  BY <1>1, <1>2, <1>3, JumpGives
<1>7. InitEngine.running
  BY <1>1, <1>2 DEF jump_handshake, Shape, Fields
<1> QED
  BY <1>5, <1>6, <1>7, AgreeCore DEF Fine

\* Control is handed to the processor.
LEMMA JumpFine ==
  ASSUME NEW h, NEW r, NEW a, Shape(r), Core(r, h), ~r.failed
  PROVE  Fine(jump_handshake(r, a), h)
BY JumpGives, AgreeCore DEF Fine

\* A step that leaves the output side and the processor alone.
LEMMA AgreeFine ==
  ASSUME NEW h, NEW r, NEW s, Fine(r, h), Shape(s), Agree(r, s),
         s.hout = r.hout, s.running = r.running, s.hin = r.hin, s.took = r.took
  PROVE  Fine(s, h)
<1>1. Core(s, h)
  BY AgreeCore DEF Fine
<1>2. Given(s)
  BY DEF Fine, Agree, Given, OutIdle
<1> QED
  BY <1>1, <1>2 DEF Fine

\* The engine fails between two runs of the processor.
LEMMA FailFine ==
  ASSUME NEW h, NEW r, Fine(r, h), ~r.running, NEW err, err # "ok"
  PROVE  Fine(br_ssl_engine_fail(r, err), h)
<1> DEFINE s == br_ssl_engine_fail(r, err)
<1>1. CASE r.failed
  BY <1>1 DEF br_ssl_engine_fail
<1>2. CASE ~r.failed
  <2>1. /\ Shape(s) /\ s.failed /\ s.err = err /\ ~s.running
        /\ s.hout = r.hout /\ s.outbuf = r.outbuf
        /\ s.outrec = r.outrec /\ s.record_type_out = r.record_type_out
        /\ s.application_data = r.application_data
        /\ s.shutdown_recv = r.shutdown_recv /\ s.hin = r.hin
        /\ s.pc = r.pc /\ s.cnr = r.cnr /\ s.resume = r.resume
        /\ s.took = r.took
    BY <1>2 DEF br_ssl_engine_fail, Fine, Shape, Fields
  <2> HIDE DEF s
  <2>2. Fine(s, h)
    BY <2>1 DEF Fine, Given, OutIdle, Core, Floor, Stream, Pure, Notice,
       Shaking, Ended, Holds
  <2> QED
    BY <2>2 DEF s
<1> QED
  BY <1>1, <1>2

\* A record comes in.
LEMMA RecvFine ==
  ASSUME NEW h, NEW r, Fine(r, h), ~r.running, ~r.failed, NEW type, NEW body
  PROVE  Fine(br_ssl_engine_recvrec_ack(r, type, body), h)
<1> DEFINE got == [r EXCEPT !.part = FALSE, !.record_type_in = type,
                            !.inbuf = body]
           dropped == [got EXCEPT !.inbuf = <<>>]
<1>1. br_ssl_engine_recvrec_ack(r, type, body) \in
        {got, jump_handshake(got, 0), dropped,
         br_ssl_engine_fail(got, "unexpected")}
  BY DEF br_ssl_engine_recvrec_ack
<1>2. /\ Shape(got) /\ Agree(r, got) /\ got.hout = r.hout
      /\ got.running = r.running /\ got.hin = r.hin /\ got.took = r.took
      /\ ~got.failed
  BY DEF Fine, Shape, Fields, Agree
<1> HIDE DEF got
<1>3. Fine(got, h)
  BY <1>2, AgreeFine
<1>4. Fine(jump_handshake(got, 0), h)
  BY <1>2, <1>3, JumpFine DEF Fine
<1>5. Fine(dropped, h)
  <2>1. /\ Shape(dropped) /\ Agree(got, dropped) /\ dropped.hout = got.hout
        /\ dropped.running = got.running /\ dropped.hin = got.hin
        /\ dropped.took = got.took
    BY <1>2 DEF Shape, Fields, Agree
  <2> HIDE DEF dropped
  <2> QED
    BY <1>3, <2>1, AgreeFine
<1>6. Fine(br_ssl_engine_fail(got, "unexpected"), h)
  BY <1>2, <1>3, FailFine
<1> QED
  BY <1>1, <1>3, <1>4, <1>5, <1>6

-----------------------------------------------------------------------------
(* What the application writes.                                            *)

\* The next n units.
NextData(w, n) == [k \in 1..n |-> AppData(w + k)]

LEMMA DataGrows ==
  ASSUME NEW w \in Nat, NEW g \in Nat, g <= w, NEW n \in Nat
  PROVE  DataFrom(w, g) \o NextData(w, n) = DataFrom(w + n, g)
<1> DEFINE D == DataFrom(w, g)
           N == NextData(w, n)
           T == [msg : {"data"}, n : Nat]
           more == DataFrom(w + n, g)
           longer == D \o N
<1>1. /\ w - g \in Nat /\ (w + n) - g = (w - g) + n
      /\ w + n \in Nat /\ g <= w + n
  OBVIOUS
<1>2. D \in Seq(T) /\ Len(D) = w - g
  BY DataIsData
<1>3. more \in Seq(T) /\ Len(more) = (w - g) + n
  BY <1>1, DataIsData
<1>4. \A i \in 1..(w - g) : D[i] = AppData(g + i)
  BY DEF DataFrom
<1>5. \A i \in 1..((w - g) + n) : more[i] = AppData(g + i)
  BY <1>1 DEF DataFrom
<1>6. N \in Seq(T) /\ Len(N) = n /\ \A i \in 1..n : N[i] = AppData(w + i)
  BY DEF NextData, AppData
<1> HIDE DEF D, N, T, more
<1>7. /\ longer \in Seq(T) /\ Len(longer) = (w - g) + n
      /\ \A i \in 1..((w - g) + n) :
           longer[i] = IF i <= w - g THEN D[i] ELSE N[i - (w - g)]
  <2>1. /\ longer \in Seq(T) /\ Len(longer) = Len(D) + Len(N)
        /\ \A i \in 1..(Len(D) + Len(N)) :
             longer[i] = IF i <= Len(D) THEN D[i] ELSE N[i - Len(D)]
    BY <1>2, <1>6, ConcatProperties
  <2> HIDE DEF longer
  <2> QED
    BY <1>2, <1>6, <2>1
<1> HIDE DEF longer
<1>8. ASSUME NEW i \in 1..((w - g) + n) PROVE longer[i] = more[i]
  <2>1. CASE i <= w - g
    BY <2>1, <1>1, <1>4, <1>5, <1>7
  <2>2. CASE ~(i <= w - g)
    <3>1. i - (w - g) \in 1..n /\ w + (i - (w - g)) = g + i
      BY <2>2, <1>1
    <3>2. N[i - (w - g)] = AppData(g + i)
      BY <3>1, <1>6
    <3> QED
      BY <2>2, <3>2, <1>5, <1>7
  <2> QED
    BY <2>1, <2>2
<1>9. longer = more
  BY <1>3, <1>7, <1>8, <1>1
<1> QED
  BY <1>9 DEF longer, D, N, more

\* A flush by the application: nothing to seal, or a record of what is owed.
Sealed(r) ==
  [r EXCEPT !.outrec = [type |-> r.record_type_out, units |-> r.outbuf],
            !.outbuf = <<>>]

LEMMA FlushForms ==
  ASSUME NEW r, NEW force
  PROVE  /\ sendpld_flush(r, force) \in {r, Sealed(r)}
         /\ r.outrec # NoRec => sendpld_flush(r, force) = r
         /\ r.outrec = NoRec /\ r.outbuf # <<>> =>
              sendpld_flush(r, force) = Sealed(r)
BY DEF sendpld_flush, Sealed

\* k is the history h after n more units were written.
More(h, k, n) ==
  /\ k.written = h.written + n /\ k.gone = h.gone
  /\ k.hello = h.hello /\ k.notified = h.notified /\ k.early = h.early

\* The application has the floor, and there is room: what it wrote is
\* gathered, or in the assembled record.
LEMMA AppFine ==
  ASSUME NEW h, NEW k, NEW n \in Nat, More(h, k, n), NEW r, Fine(r, h),
         ~r.failed, ~r.running, r.application_data = 1, r.outrec = NoRec,
         NEW s, k.early => s.outbuf = <<>>,
         LET m == [r EXCEPT !.outbuf = @ \o NextData(h.written, n)]
         IN  s = m \/ s = Sealed(m)
  PROVE  Fine(s, k)
<1> DEFINE m == [r EXCEPT !.outbuf = @ \o NextData(h.written, n)]
<1>1. /\ r.record_type_out = "app" /\ r.pc \notin Silent
      /\ r.pc # "close_wait" /\ r.pc # "close_room"
      /\ h.gone \in Nat /\ h.written \in Nat /\ h.gone <= h.written
      /\ ~r.hout /\ r.outbuf = Owed(h)
  BY DEF Fine, Core, Floor, Stream, Shape, Fields, Given, Holds
<1>2. /\ Owed(k) = DataFrom(h.written + n, h.gone)
      /\ k.gone = h.gone /\ k.written = h.written + n /\ k.written \in Nat
      /\ k.gone <= k.written
      /\ k.hello = h.hello /\ k.notified = h.notified
  BY <1>1 DEF Owed, More
<1>3. r.outbuf \o NextData(h.written, n) = Owed(k)
  <2>1. DataFrom(h.written, h.gone) \o NextData(h.written, n)
          = DataFrom(h.written + n, h.gone)
    BY <1>1, DataGrows
  <2>2. r.outbuf = DataFrom(h.written, h.gone)
    BY <1>1 DEF Owed
  <2> QED
    BY <1>2, <2>1, <2>2
<1>4. /\ \A x \in Messages : Owed(k) # <<Message(x)>>
      /\ Owed(k) = <<>> <=> k.gone = k.written
  BY <1>1, <1>2, OwedIsData
<1>5. NoRec # [type |-> "app", units |-> Owed(k)]
  BY DEF NoRec
<1>6. /\ Shape(s) /\ s.failed = r.failed /\ s.err = r.err
      /\ s.record_type_out = "app" /\ s.application_data = 1
      /\ s.shutdown_recv = r.shutdown_recv /\ s.pc = r.pc
      /\ s.cnr = r.cnr /\ s.resume = r.resume
      /\ s.hout = r.hout /\ s.running = r.running /\ s.hin = r.hin
      /\ s.took = r.took
      /\ \/ s.outrec = NoRec /\ s.outbuf = Owed(k)
         \/ /\ s.outrec = [type |-> "app", units |-> Owed(k)]
            /\ s.outrec # NoRec /\ s.outbuf = <<>>
  <2>1. /\ m = [r EXCEPT !.outbuf = Owed(k)]
    BY <1>3
  <2>2. CASE s = m
    BY <1>1, <2>1, <2>2 DEF Fine, Shape, Fields
  <2>3. CASE s = Sealed(m)
    BY <1>1, <1>5, <2>1, <2>3 DEF Fine, Shape, Fields, Sealed
  <2> QED
    BY <2>2, <2>3
<1>7. Given(s)
  BY <1>1, <1>6 DEF Given, Fine
<1>8. Floor(s) /\ Stream(s, k) /\ Ended(s, k)
  BY <1>1, <1>2, <1>6 DEF Fine, Core, Floor, Stream, Ended
<1>9. \A x \in Messages : ~Holds(s, x)
  <2>1. s.outrec = NoRec \/ s.outrec.units = Owed(k)
    BY <1>6
  <2> QED
    BY <1>4, <2>1 DEF Holds
<1>10. {"client_hello", "finished", "close_notify"} \subseteq Messages
  BY DEF Messages
<1>11. Pure(s, k)
  <2>1. s.outrec.type = "app" \/ s.outrec.units = <<>>
    BY <1>6 DEF NoRec
  <2> QED
    BY <1>4, <1>9, <2>1 DEF Pure
<1>12. Notice(s, k)
  BY <1>1, <1>2, <1>6, <1>10, <1>9 DEF Fine, Core, Notice, Holds
<1>13. Shaking(s, k)
  BY <1>1, <1>2, <1>6, <1>9, <1>10
     DEF Fine, Core, Shaking, Shakes, Silent, Holds
<1> QED
  BY <1>6, <1>7, <1>8, <1>11, <1>12, <1>13 DEF Fine, Core

\* br_ssl_engine_flush, whenever it is called.
LEMMA FlushFine ==
  ASSUME NEW h, NEW r, NEW force, Fine(r, h), ~r.running
  PROVE  LET s == br_ssl_engine_flush(r, force)
         IN  /\ Fine(s, h) /\ s \in {r, Sealed(r)}
             /\ ~r.failed /\ r.application_data = 1 => s.outbuf = <<>>
<1> DEFINE s == br_ssl_engine_flush(r, force)
<1>1. CASE s = r /\ (r.failed \/ r.application_data # 1 \/ r.outbuf = <<>>)
  BY <1>1
<1>2. CASE /\ s = Sealed(r) /\ ~r.failed /\ r.application_data = 1
           /\ r.outrec = NoRec
  <2>1. More(h, h, 0)
    BY DEF More, Fine, Core, Stream
  <2>2. [r EXCEPT !.outbuf = @ \o NextData(h.written, 0)] = r
    <3>1. r.outbuf = DataFrom(h.written, h.gone)
      BY <1>2 DEF Fine, Core, Stream, Owed, Holds
    <3>2. /\ h.written \in Nat /\ h.gone \in Nat /\ h.gone <= h.written
          /\ h.written + 0 = h.written
      BY DEF Fine, Core, Stream
    <3>3. r.outbuf \o NextData(h.written, 0) = r.outbuf
      BY <3>1, <3>2, DataGrows
    <3> QED
      BY <3>3 DEF Fine, Shape, Fields
  <2>3. Sealed(r).outbuf = <<>>
    BY DEF Sealed, Fine, Shape, Fields
  <2>4. Fine(Sealed(r), h)
    BY <1>2, <2>1, <2>2, <2>3, AppFine
  <2> QED
    BY <1>2, <2>3, <2>4
<1>3. CASE r.failed \/ r.application_data # 1
  BY <1>1, <1>3 DEF br_ssl_engine_flush
<1>4. CASE ~(r.failed \/ r.application_data # 1)
  <2>1. s = sendpld_flush(r, force)
    BY <1>4 DEF br_ssl_engine_flush
  <2>2. r.outrec # NoRec => r.outbuf = <<>>
    BY DEF Fine, Core, Stream
  <2> QED
    BY <1>1, <1>2, <1>4, <2>1, <2>2 DEF sendpld_flush, Sealed
<1> QED
  BY <1>3, <1>4

LEMMA OneMore ==
  ASSUME NEW w \in Nat
  PROVE  <<AppData(w + 1)>> = NextData(w, 1)
BY DEF NextData

\* The application writes n units: they are gathered, or in a record that is
\* full; with a flush behind, in a record.
LEMMA WriteFine ==
  ASSUME NEW h, NEW k, NEW n \in Nat, n # 0, More(h, k, n), NEW r, Fine(r, h),
         ~r.failed, ~r.running, r.application_data = 1, r.outrec = NoRec
  PROVE  LET m == [r EXCEPT !.outbuf = @ \o NextData(h.written, n)]
             acked == sendpld_ack(r, NextData(h.written, n))
             flushed == br_ssl_engine_flush(acked, FALSE)
         IN  /\ acked \in {m, Sealed(m)}
             /\ ~k.early => Fine(acked, k)
             /\ flushed = Sealed(m) /\ Fine(flushed, k)
<1> DEFINE m == [r EXCEPT !.outbuf = @ \o NextData(h.written, n)]
           acked == sendpld_ack(r, NextData(h.written, n))
           full == Sealed(m)
<1>1. m.outbuf # <<>> /\ m.outrec = NoRec /\ ~m.failed
      /\ m.application_data = 1 /\ Shape(m)
  <2>1. /\ h.written \in Nat /\ h.gone \in Nat /\ h.gone <= h.written
        /\ r.outbuf = DataFrom(h.written, h.gone)
    BY DEF Fine, Core, Stream, Owed, Holds
  <2>2. r.outbuf \o NextData(h.written, n) = DataFrom(h.written + n, h.gone)
    <3>1. DataFrom(h.written, h.gone) \o NextData(h.written, n)
            = DataFrom(h.written + n, h.gone)
      BY <2>1, DataGrows
    <3> QED
      BY <2>1, <3>1
  <2>3. /\ h.written + n \in Nat /\ h.gone <= h.written + n
        /\ h.gone # h.written + n
    BY <2>1
  <2>4. r.outbuf \o NextData(h.written, n) # <<>>
    BY <2>1, <2>2, <2>3, DataIsData
  <2> QED
    BY <2>4 DEF Fine, Shape, Fields
<1>2. acked \in {m, sendpld_flush(m, FALSE)}
  BY DEF sendpld_ack
<1>3. r.record_type_out = "app" /\ m.record_type_out = "app"
  BY DEF Fine, Core, Floor, Shape, Fields
<1>4. ASSUME NEW s \in {m, full}, k.early => s.outbuf = <<>>
      PROVE  Fine(s, k)
  BY <1>4, AppFine
<1> HIDE DEF m, acked
<1>5. sendpld_flush(m, FALSE) = full
  BY <1>1, FlushForms
<1>6. /\ full.outbuf = <<>> /\ full.outrec # NoRec /\ ~full.failed
      /\ full.application_data = 1
  BY <1>1, <1>3 DEF Sealed, Shape, Fields, NoRec
<1> HIDE DEF full
<1>7. br_ssl_engine_flush(full, FALSE) = full
  BY <1>6 DEF br_ssl_engine_flush, sendpld_flush
<1>8. br_ssl_engine_flush(m, FALSE) = full
  BY <1>1, <1>5 DEF br_ssl_engine_flush
<1>9. acked \in {m, full} /\ br_ssl_engine_flush(acked, FALSE) = full
  BY <1>2, <1>5, <1>7, <1>8
<1>10. Fine(full, k) /\ (~k.early => Fine(acked, k))
  BY <1>4, <1>6, <1>9
<1> QED
  BY <1>9, <1>10 DEF m, acked, full


-----------------------------------------------------------------------------
(* A record leaves.                                                        *)

\* A record of data carries no message, and as many units as are owed.
LEMMA DataLeaves ==
  ASSUME NEW w \in Nat, NEW g \in Nat, g <= w
  PROVE  /\ DataPlaces(DataFrom(w, g)) = 1..(w - g)
         /\ Cardinality(DataPlaces(DataFrom(w, g))) = w - g
<1> DEFINE D == DataFrom(w, g)
<1>1. DOMAIN D = 1..(w - g) /\ \A i \in 1..(w - g) : D[i].msg = "data"
  <2> DEFINE k == w - g
  <2>1. D = [i \in 1..k |-> AppData(g + i)]
    BY DEF DataFrom
  <2> HIDE DEF D, k
  <2>2. DOMAIN D = 1..k /\ \A i \in 1..k : D[i] = AppData(g + i)
    BY <2>1
  <2>3. \A i \in 1..k : D[i].msg = "data"
    BY <2>2 DEF AppData
  <2> QED
    BY <2>2, <2>3 DEF D, k
<1> HIDE DEF D
<1>2. DataPlaces(D) = 1..(w - g)
  BY <1>1 DEF DataPlaces
<1>3. Cardinality(1..(w - g)) = w - g
  BY FS_Interval
<1> QED
  BY <1>2, <1>3 DEF D

LEMMA MessageLeaves ==
  ASSUME NEW m \in Messages
  PROVE  DataPlaces(<<Message(m)>>) = {}
<1> DEFINE s == <<Message(m)>>
<1>1. DOMAIN s = {1} /\ s[1] = Message(m)
  OBVIOUS
<1> HIDE DEF s
<1> QED
  BY <1>1 DEF DataPlaces, Message, Messages, s

\* What waits is what was written and has not left, in order.
LEMMA PendingKept ==
  ASSUME NEW h, NEW r, Fine(r, h)
  PROVE  DataKept(Pending(r), h.written, h.gone)
<1> DEFINE P == Pending(r)
           w == h.written
           g == h.gone
           upTo(i) == {j \in DataPlaces(P) : j <= i}
<1>1. w \in Nat /\ g \in Nat /\ g <= w
  BY DEF Fine, Core, Stream
<1>2. P = DataFrom(w, g) \/ (g = w /\ \E m \in Messages : P = <<Message(m)>>)
  <2>1. NoRec.units = <<>>
    BY DEF NoRec
  <2>2. \A m : <<Message(m)>> \o <<>> = <<Message(m)>>
    OBVIOUS
  <2>3. <<>> \o Owed(h) = Owed(h) /\ Owed(h) \o <<>> = Owed(h)
    BY <1>1, OwedIsData
  <2> QED
    BY <2>1, <2>2, <2>3 DEF Fine, Core, Stream, Holds, Pending, Owed
<1> HIDE DEF P, w, g
<1>3. CASE P = DataFrom(w, g)
  <2>1. DataPlaces(P) = 1..(w - g) /\ Cardinality(DataPlaces(P)) = w - g
    BY <1>1, <1>3, DataLeaves
  <2>2. ASSUME NEW i \in DataPlaces(P)
        PROVE  P[i] = AppData(g + Cardinality(upTo(i)))
    <3>1. i \in Nat /\ i \in 1..(w - g) /\ upTo(i) = 1..i
      BY <1>1, <2>1, <2>2
    <3>2. Cardinality(1..i) = i
      BY <3>1, FS_Interval
    <3>3. P[i] = AppData(g + i)
      BY <1>3, <3>1 DEF DataFrom
    <3> QED
      BY <3>1, <3>2, <3>3
  <2>3. w = g + Cardinality(DataPlaces(P))
    BY <1>1, <2>1
  <2> QED
    BY <2>2, <2>3 DEF DataKept, P, w, g
<1>4. ASSUME NEW m \in Messages, P = <<Message(m)>>, g = w
      PROVE  DataKept(Pending(r), h.written, h.gone)
  <2>1. DataPlaces(P) = {} /\ Cardinality({}) = 0
    BY <1>4, MessageLeaves, FS_EmptySet
  <2>2. w = g + Cardinality(DataPlaces(P))
    BY <1>1, <1>4, <2>1
  <2>3. \A i \in DataPlaces(P) : P[i] = AppData(g + Cardinality(upTo(i)))
    BY <2>1
  <2> QED
    BY <2>2, <2>3 DEF DataKept, P, w, g
<1> QED
  BY <1>2, <1>3, <1>4

\* k is the history h after the record of r was sent.
Sent(r, h, k) ==
  /\ k.written = h.written /\ k.early = h.early
  /\ k.gone = h.gone + Cardinality(DataPlaces(r.outrec.units))
  /\ k.hello => (h.hello \/ Holds(r, "client_hello")) /\ ~Holds(r, "finished")
  /\ k.notified <=> (h.notified \/ Holds(r, "close_notify"))

LEMMA SentFine ==
  ASSUME NEW h, NEW k, NEW r, Fine(r, h), ~r.failed, ~r.running,
         r.outrec # NoRec, Sent(r, h, k)
  PROVE  /\ Fine(br_ssl_engine_sendrec_ack(r), k)
         /\ k.gone = h.written
         /\ br_ssl_engine_sendrec_ack(r) \in
              {[r EXCEPT !.outrec = NoRec],
               jump_handshake([r EXCEPT !.outrec = NoRec], 0)}
<1> DEFINE sent == [r EXCEPT !.outrec = NoRec]
           s == br_ssl_engine_sendrec_ack(r)
<1>1. /\ h.written \in Nat /\ h.gone \in Nat /\ h.gone <= h.written
      /\ r.outbuf = <<>> /\ ~r.hout
      /\ \/ r.outrec.units = Owed(h)
         \/ h.gone = h.written /\ \E m \in Messages : Holds(r, m)
  BY DEF Fine, Core, Stream, Given
<1>2. /\ Shape(sent) /\ sent.outrec = NoRec /\ sent.outbuf = <<>>
      /\ sent.failed = FALSE /\ sent.err = r.err /\ ~sent.hout
      /\ ~sent.running /\ sent.hin = <<>> /\ ~sent.took
      /\ sent.record_type_out = r.record_type_out
      /\ sent.application_data = r.application_data
      /\ sent.shutdown_recv = r.shutdown_recv /\ sent.pc = r.pc
      /\ sent.cnr = r.cnr /\ sent.resume = r.resume
  BY <1>1 DEF Fine, Shape, Fields, Given
<1>3. s \in {sent, jump_handshake(sent, 0)}
  BY DEF br_ssl_engine_sendrec_ack
<1> HIDE DEF s
<1>4. Shape(s) /\ Given(s) /\ Agree(sent, s)
  <2>1. Given(sent) /\ Agree(sent, sent)
    BY <1>2 DEF Given, Agree
  <2> HIDE DEF sent
  <2> QED
    BY <1>2, <1>3, <2>1, JumpGives
<1>5. {"client_hello", "finished", "close_notify"} \subseteq Messages
  BY DEF Messages
<1>6. k.gone = h.written /\ k.written = h.written
  <2>1. CASE r.outrec.units = Owed(h)
    <3>1. Cardinality(DataPlaces(Owed(h))) = h.written - h.gone
      BY <1>1, DataLeaves DEF Owed
    <3> QED
      BY <1>1, <2>1, <3>1 DEF Sent
  <2>2. ASSUME NEW m \in Messages, Holds(r, m), h.gone = h.written
        PROVE  k.gone = h.written
    <3>1. r.outrec.units = <<Message(m)>> /\ DataPlaces(<<Message(m)>>) = {}
      BY <2>2, MessageLeaves DEF Holds
    <3>2. Cardinality({}) = 0
      BY FS_EmptySet
    <3>3. k.gone = h.gone + 0
      BY <3>1, <3>2 DEF Sent
    <3> QED
      BY <1>1, <2>2, <3>3
  <2> QED
    BY <1>1, <2>1, <2>2 DEF Sent
<1>7. \A m \in Messages : ~Holds(s, m)
  BY <1>2, <1>4 DEF Holds, Agree
<1>8. Owed(k) = <<>>
  BY <1>1, <1>6, DataIsData DEF Owed
<1> HIDE DEF sent
<1>9. Floor(s) /\ Stream(s, k) /\ Pure(s, k) /\ Ended(s, k)
  BY <1>1, <1>2, <1>4, <1>6, <1>7, <1>8
     DEF Fine, Core, Floor, Stream, Pure, Ended, Agree, Holds
<1>10. Notice(s, k)
  BY <1>1, <1>2, <1>4, <1>5, <1>6, <1>7
     DEF Fine, Core, Notice, Agree, Holds, Sent
<1>11. Shaking(s, k)
  BY <1>1, <1>2, <1>4, <1>5, <1>6, <1>7
     DEF Fine, Core, Shaking, Agree, Holds, Sent
<1> QED
  BY <1>3, <1>4, <1>6, <1>9, <1>10, <1>11 DEF Fine, Core, s, sent

-----------------------------------------------------------------------------
(* Where the processor may go, and what it leaves alone.                   *)

\* Application data is not shown to the processor.
Unseen(r) == r.record_type_in = "app" => r.hin = <<>> /\ ~r.took

\* What came in is touched only by reading it; a record that is assembled
\* stays.
Kept(r, s) ==
  /\ Shape(s) /\ Unseen(s)
  /\ s.record_type_in = r.record_type_in /\ s.part = r.part
  /\ r.record_type_in = "app" => s.inbuf = r.inbuf
  /\ r.outrec # NoRec => s.outrec = r.outrec
  /\ s.action \in {0, r.action}

\* From a point to the next. It stops only where it waits; without input it
\* finds nothing wrong.
Moves(r, s) ==
  /\ s.application_data = 1 => r.application_data = 1 \/ r.pc = "open"
  /\ s.running \/ s.failed \/ s.pc \notin {"handshake", "open", "close"}
  /\ s.failed /\ r.hin = <<>> => s.err = "ok"
  /\ \/ s.pc = r.pc /\ s.resume = r.resume
     \/ s.pc = "close" /\ r.pc \notin Closing /\ s.resume = r.resume
     \/ r.pc = "handshake" /\ s.pc = "client_hello"
     \/ r.pc = "client_hello" /\ s.pc = "server_hello"
     \/ /\ r.pc = "server_hello"
        /\ s.pc = IF s.resume THEN "ccs_in" ELSE "server_done"
     \/ r.pc = "server_done" /\ s.pc = "client_key" /\ s.resume = r.resume
     \/ r.pc = "client_key" /\ s.pc = "ccs_out" /\ s.resume = r.resume
     \/ r.pc = "ccs_out" /\ s.pc = "finished_out" /\ s.resume = r.resume
     \/ /\ r.pc = "finished_out" /\ s.resume = r.resume
        /\ s.pc = IF r.resume THEN "open" ELSE "ccs_in"
        /\ Holds(s, "finished")
     \/ r.pc = "ccs_in" /\ s.pc = "finished_in" /\ s.resume = r.resume
     \/ /\ r.pc = "finished_in" /\ s.resume = r.resume
        /\ s.pc = IF r.resume THEN "ccs_out" ELSE "open"
     \/ r.pc = "open" /\ s.pc = "main"
     \/ r.pc = "main" /\ s.pc \in {"handshake", "reject"}
     \/ r.pc = "reject" /\ s.pc = "open"
     \/ r.pc = "close" /\ s.pc = "close_room"
     \/ r.pc = "close_room" /\ s.pc = "close_wait"

\* s has the input of r.
Inputs(r, s) ==
  /\ s.record_type_in = r.record_type_in /\ s.part = r.part
  /\ s.inbuf = r.inbuf /\ s.hin = r.hin /\ s.took = r.took
  /\ s.action = r.action

LEMMA JumpInputs ==
  ASSUME NEW r, NEW a, Shape(r), ~r.failed
  PROVE  LET s == jump_handshake(r, a)
         IN  /\ Shape(s) /\ Agree(r, s) /\ s.running /\ s.resumed
             /\ s.record_type_in = r.record_type_in /\ s.part = r.part
             /\ s.inbuf = r.inbuf /\ s.action = a /\ ~s.took
             /\ s.hin \in {<<>>, r.inbuf}
             /\ r.record_type_in = "app" => s.hin = <<>>
BY DEF jump_handshake, Shape, Fields, Agree

LEMMA LeaveKeeps ==
  ASSUME NEW r, Shape(r), Unseen(r)
  PROVE  Kept(r, leave_handshake(r)) /\ Agree(r, leave_handshake(r))
<1> DEFINE back == [r EXCEPT !.running = FALSE, !.hin = <<>>, !.hout = FALSE,
                             !.took = FALSE, !.resumed = FALSE, !.action = 0]
           read == [back EXCEPT !.inbuf = r.hin]
<1>1. /\ Shape(back) /\ Agree(r, back) /\ back.hin = <<>> /\ ~back.took
      /\ back.record_type_in = r.record_type_in /\ back.part = r.part
      /\ back.inbuf = r.inbuf /\ back.action = 0
  BY DEF Shape, Fields, Agree
<1>2. leave_handshake(r) = IF ~r.took \/ r.failed THEN back
                           ELSE IF r.hin = <<>> THEN jump_handshake(read, 0)
                           ELSE read
  BY DEF leave_handshake
<1> HIDE DEF back
<1>3. /\ Shape(read) /\ Agree(r, read) /\ read.hin = <<>> /\ ~read.took
      /\ read.record_type_in = r.record_type_in /\ read.part = r.part
      /\ read.inbuf = r.hin /\ read.action = 0
  BY <1>1 DEF Shape, Fields, Agree
<1> HIDE DEF read
<1>4. CASE ~r.took \/ r.failed
  <2>1. Agree(r, leave_handshake(r))
    BY <1>1, <1>2, <1>4
  <2> QED
    BY <1>1, <1>2, <1>4, <2>1 DEF Kept, Unseen, Agree
<1>5. CASE r.took /\ ~r.failed
  <2>1. ~read.failed /\ r.record_type_in # "app"
    BY <1>3, <1>5 DEF Agree, Unseen
  <2> DEFINE s == jump_handshake(read, 0)
  <2>2. /\ Shape(s) /\ Agree(read, s) /\ s.action = 0
        /\ s.record_type_in = read.record_type_in /\ s.part = read.part
    BY <1>3, <2>1, JumpInputs
  <2> HIDE DEF s
  <2>3. leave_handshake(r) \in {read, s}
    BY <1>2, <1>5 DEF s
  <2> QED
    BY <1>3, <2>1, <2>2, <2>3 DEF Kept, Unseen, Agree
<1> QED
  BY <1>4, <1>5

LEMMA FlushInputs ==
  ASSUME NEW r, Shape(r)
  PROVE  LET s == flush_record(r)
         IN  /\ Shape(s) /\ Inputs(r, s)
             /\ s.pc = r.pc /\ s.resume = r.resume
             /\ s.application_data = r.application_data
             /\ r.outrec # NoRec => s.outrec = r.outrec
<1> DEFINE sealed == sendpld_flush(r, FALSE)
<1>1. sealed \in {r, Sealed(r)} /\ (r.outrec # NoRec => sealed = r)
  BY FlushForms
<1>2. /\ Shape(sealed) /\ Inputs(r, sealed) /\ sealed.pc = r.pc
      /\ sealed.resume = r.resume
      /\ sealed.application_data = r.application_data
      /\ r.outrec # NoRec => sealed.outrec = r.outrec
  BY <1>1 DEF Sealed, Shape, Fields, Inputs
<1>3. flush_record(r) = [sealed EXCEPT !.hout = sendpld_open(sealed)]
  BY DEF flush_record
<1> HIDE DEF sealed
<1> QED
  BY <1>2, <1>3 DEF Shape, Fields, Inputs

LEMMA WriteInputs ==
  ASSUME NEW h, NEW r, Fine(r, h), r.running, r.hout, NEW type \in RecordTypes,
         NEW m \in Messages
  PROVE  LET s == write_message(r, type, m)
         IN  /\ Shape(s) /\ Inputs(r, s) /\ Holds(s, m)
             /\ s.pc = r.pc /\ s.resume = r.resume
             /\ s.application_data = r.application_data
             /\ r.outrec = NoRec
<1> DEFINE acked == sendpld_ack([r EXCEPT !.record_type_out = type],
                                <<Message(m)>>)
           more == [r EXCEPT !.record_type_out = type,
                             !.outbuf = @ \o <<Message(m)>>]
<1>1. write_message(r, type, m) = flush_record(acked)
  BY DEF write_message
<1>2. acked \in {more, sendpld_flush(more, FALSE)}
  BY DEF sendpld_ack, Fine, Shape, Fields
<1>3. acked \in {more, Sealed(more)}
  BY <1>2, FlushForms
<1>4. /\ Shape(acked) /\ Inputs(r, acked) /\ acked.pc = r.pc
      /\ acked.resume = r.resume
      /\ acked.application_data = r.application_data
  BY <1>3 DEF Fine, Sealed, Shape, Fields, Inputs
<1> HIDE DEF acked
<1>5. LET s == flush_record(acked)
      IN  /\ Shape(s) /\ Inputs(acked, s) /\ s.pc = acked.pc
          /\ s.resume = acked.resume
          /\ s.application_data = acked.application_data
  BY <1>4, FlushInputs
<1> DEFINE s == write_message(r, type, m)
<1>6. s.outrec # NoRec /\ s.outrec = [type |-> type, units |-> <<Message(m)>>]
  BY WriteGives DEF Fine
<1>7. r.outrec = NoRec
  BY DEF Fine, Given, OutIdle
<1>8. Shape(s) /\ Inputs(acked, s) /\ s.pc = acked.pc
      /\ s.resume = acked.resume
      /\ s.application_data = acked.application_data
  BY <1>1, <1>5
<1> HIDE DEF s
<1>9. Holds(s, m)
  BY <1>6 DEF Holds
<1>10. Inputs(r, s)
  BY <1>4, <1>8 DEF Inputs
<1> QED
  BY <1>4, <1>7, <1>8, <1>9, <1>10 DEF s

\* The output may be more, the input is as before.
LEMMA InputsKept ==
  ASSUME NEW r, NEW s, Shape(s), Unseen(r), Inputs(r, s),
         r.outrec # NoRec => s.outrec = r.outrec
  PROVE  Kept(r, s)
BY DEF Kept, Inputs, Unseen

LEMMA YieldMoves ==
  ASSUME NEW h, NEW r, Fine(r, h), r.running, Unseen(r),
         r.pc \notin {"handshake", "open", "close"}
  PROVE  Kept(r, Yield(r)) /\ Moves(r, Yield(r))
<1> DEFINE s == Yield(r)
<1>1. Kept(r, s) /\ Agree(r, s)
  BY LeaveKeeps DEF Yield, Fine
<1> HIDE DEF s
<1>2. ~s.failed
  BY <1>1 DEF Agree, Fine, Given
<1> QED
  BY <1>1, <1>2 DEF Moves, Agree, s

LEMMA FailMoves ==
  ASSUME NEW r, Shape(r), ~r.failed, Unseen(r), NEW err
  PROVE  LET s == Fail(r, err)
         IN  /\ Kept(r, s) /\ s.failed /\ s.err = err /\ s.pc = r.pc
             /\ s.resume = r.resume /\ s.inbuf = r.inbuf
             /\ s.application_data = r.application_data
<1> DEFINE q == [r EXCEPT !.failed = TRUE, !.err = err]
           s == Fail(r, err)
<1>1. s = leave_handshake(q)
  BY DEF Fail, br_ssl_engine_fail
<1>2. /\ Shape(q) /\ Unseen(q) /\ q.failed /\ q.err = err /\ Inputs(r, q)
      /\ q.pc = r.pc /\ q.resume = r.resume
      /\ q.application_data = r.application_data /\ q.outrec = r.outrec
      /\ q.inbuf = r.inbuf
  BY DEF Shape, Fields, Unseen, Inputs
<1> HIDE DEF q
<1>3. Kept(q, s) /\ Agree(q, s)
  BY <1>1, <1>2, LeaveKeeps
<1>4. s.inbuf = q.inbuf
  BY <1>1, <1>2 DEF leave_handshake, Shape, Fields
<1> HIDE DEF s
<1>5. s.failed
  BY <1>2, <1>3 DEF Agree
<1> QED
  BY <1>2, <1>3, <1>4, <1>5 DEF Kept, Agree, Inputs, s

\* Input was refused.
LEMMA RefuseMoves ==
  ASSUME NEW h, NEW r, Fine(r, h), r.running, Unseen(r), NEW err,
         r.hin # <<>> \/ err = "ok"
  PROVE  Kept(r, Fail(r, err)) /\ Moves(r, Fail(r, err))
<1> DEFINE s == Fail(r, err)
<1>1. /\ Kept(r, s) /\ s.failed /\ s.err = err /\ s.pc = r.pc
      /\ s.resume = r.resume /\ s.application_data = r.application_data
  BY FailMoves DEF Fine, Given
<1> HIDE DEF s
<1> QED
  BY <1>1 DEF Moves, s

\* Input was read.
LEMMA TakeKeeps ==
  ASSUME NEW h, NEW r, Fine(r, h), r.running, Unseen(r), r.hin # <<>>
  PROVE  LET s == Take(r)
         IN  /\ Shape(s) /\ Kept(r, s) /\ s.running /\ ~s.failed
             /\ s.pc = r.pc /\ s.resume = r.resume /\ s.outrec = r.outrec
             /\ s.outbuf = r.outbuf /\ s.hin = Tail(r.hin) /\ s.took
             /\ s.inbuf = r.inbuf
             /\ s.record_type_in # "app" /\ s.hout = r.hout
             /\ s.application_data = r.application_data
<1> DEFINE s == Take(r)
<1>1. r.record_type_in # "app"
  BY DEF Unseen
<1>2. /\ Shape(s) /\ s.running = r.running /\ s.failed = r.failed
      /\ s.pc = r.pc /\ s.resume = r.resume /\ s.outrec = r.outrec
      /\ s.outbuf = r.outbuf /\ s.hout = r.hout /\ s.inbuf = r.inbuf
      /\ s.application_data = r.application_data
      /\ s.record_type_in = r.record_type_in /\ s.part = r.part
      /\ s.action = r.action /\ s.hin = Tail(r.hin) /\ s.took = TRUE
  BY DEF Take, Fine, Shape, Fields
<1> HIDE DEF s
<1>3. ~r.failed
  BY DEF Fine, Given
<1> QED
  BY <1>1, <1>2, <1>3 DEF Kept, Unseen, s

LEMMA TakeMoves ==
  ASSUME NEW h, NEW r, Fine(r, h), r.running, Unseen(r), r.hin # <<>>
  PROVE  Kept(r, Take(r)) /\ Moves(r, Take(r))
<1> HIDE DEF Take
<1> QED
  BY TakeKeeps DEF Moves

\* A word that has written goes on.
LEMMA WroteMoves ==
  ASSUME NEW h, NEW r, Fine(r, h), r.running, Unseen(r), r.hout,
         NEW type \in RecordTypes, NEW m \in Messages, NEW pc
  PROVE  LET s == Goto(write_message(r, type, m), pc)
         IN  /\ Kept(r, s) /\ s.pc = pc /\ s.resume = r.resume /\ s.running
             /\ s.application_data = r.application_data /\ ~s.failed
             /\ Holds(s, m) /\ s.hin = r.hin
<1> DEFINE w == write_message(r, type, m)
           s == Goto(w, pc)
<1>1. /\ Shape(w) /\ Inputs(r, w) /\ Holds(w, m) /\ w.resume = r.resume
      /\ w.application_data = r.application_data /\ r.outrec = NoRec
  BY WriteInputs
<1>2. w.running /\ ~w.failed
  BY WriteGives DEF Fine, Given
<1> HIDE DEF w
<1>3. /\ Shape(s) /\ Inputs(r, s) /\ Holds(s, m) /\ s.pc = pc
      /\ s.resume = r.resume /\ s.running /\ ~s.failed
      /\ s.application_data = r.application_data
  BY <1>1, <1>2 DEF Goto, Shape, Fields, Inputs, Holds
<1> HIDE DEF s
<1>4. Kept(r, s)
  BY <1>1, <1>3, InputsKept
<1> QED
  BY <1>3, <1>4 DEF s, w, Inputs

\* A word that goes on without a change to the buffers.
LEMMA GoesOn ==
  ASSUME NEW r, Shape(r), Unseen(r), NEW pc
  PROVE  LET s == Goto(r, pc)
         IN  /\ Shape(s) /\ Kept(r, s) /\ s.pc = pc /\ s.resume = r.resume
             /\ s.application_data = r.application_data
             /\ s.running = r.running /\ s.failed = r.failed
             /\ Inputs(r, s) /\ s.outrec = r.outrec /\ s.outbuf = r.outbuf
             /\ s.hout = r.hout
<1> DEFINE s == Goto(r, pc)
<1>1. /\ Shape(s) /\ Inputs(r, s) /\ s.pc = pc /\ s.resume = r.resume
      /\ s.application_data = r.application_data
      /\ s.running = r.running /\ s.failed = r.failed
      /\ s.outrec = r.outrec /\ s.outbuf = r.outbuf /\ s.hout = r.hout
  BY DEF Goto, Shape, Fields, Inputs
<1> HIDE DEF s
<1>2. Kept(r, s)
  BY <1>1, InputsKept
<1> QED
  BY <1>1, <1>2 DEF s

LEMMA KeptAgain ==
  ASSUME NEW r, NEW s, NEW t, Kept(r, s), Kept(s, t)
  PROVE  Kept(r, t)
BY DEF Kept

LEMMA HandshakeMoves ==
  ASSUME NEW h, NEW r, Fine(r, h), r.running, Unseen(r), r.pc = "handshake"
  PROVE  Kept(r, do_handshake(r)) /\ Moves(r, do_handshake(r))
<1> DEFINE s == do_handshake(r)
<1>1. /\ Shape(s) /\ Inputs(r, s) /\ s.pc = "client_hello"
      /\ s.application_data = 0 /\ s.outrec = r.outrec /\ s.running
      /\ ~s.failed
  BY DEF do_handshake, Goto, Fine, Given, Shape, Fields, Inputs
<1> HIDE DEF s
<1>2. Kept(r, s)
  BY <1>1, InputsKept
<1> QED
  BY <1>1, <1>2 DEF Moves, s

LEMMA ClientHelloMoves ==
  ASSUME NEW h, NEW r, Fine(r, h), r.running, Unseen(r),
         r.pc = "client_hello"
  PROVE  Kept(r, write_ClientHello(r)) /\ Moves(r, write_ClientHello(r))
<1>1. CASE r.hout
  <2> DEFINE s == Goto(write_message(r, "handshake", "client_hello"),
                       "server_hello")
  <2>1. "client_hello" \in Messages /\ "handshake" \in RecordTypes
    BY DEF Messages, RecordTypes
  <2>2. /\ Kept(r, s) /\ s.pc = "server_hello" /\ s.running
        /\ s.application_data = r.application_data /\ ~s.failed
    BY <1>1, <2>1, WroteMoves
  <2>3. write_ClientHello(r) = s
    BY <1>1 DEF write_ClientHello, Fine, Core, Floor
  <2> HIDE DEF s
  <2> QED
    BY <2>2, <2>3 DEF Moves
<1>2. CASE ~r.hout
  BY <1>2, YieldMoves DEF write_ClientHello
<1> QED
  BY <1>1, <1>2

LEMMA ServerHelloMoves ==
  ASSUME NEW h, NEW r, Fine(r, h), r.running, Unseen(r),
         r.pc = "server_hello"
  PROVE  Kept(r, read_ServerHello(r)) /\ Moves(r, read_ServerHello(r))
<1>1. CASE r.hin = <<>>
  BY <1>1, YieldMoves DEF read_ServerHello
<1>2. CASE r.hin # <<>>
  <2> DEFINE resume == Head(r.hin) = "sh_resume" /\ r.session
             secure == Head(r.hin) # "sh_old"
             t == Take(r)
             s == [t EXCEPT !.reneg = IF secure THEN 2 ELSE 1,
                            !.session = secure, !.resume = resume,
                            !.pc = IF resume THEN "ccs_in" ELSE "server_done"]
  <2>1. /\ Kept(r, t) /\ Shape(t) /\ t.running /\ ~t.failed
        /\ t.record_type_in # "app"
        /\ t.application_data = r.application_data
    BY <1>2, TakeKeeps
  <2>2. Kept(r, t) /\ Moves(r, t)
    BY <1>2, TakeMoves
  <2>3. \A err : Kept(r, Fail(r, err)) /\ Moves(r, Fail(r, err))
    BY <1>2, RefuseMoves
  <2>4. read_ServerHello(r) \in
          {Fail(r, "unexpected"), Fail(r, "bad_secreneg"), t, s}
    BY <1>2 DEF read_ServerHello
  <2> HIDE DEF t
  <2>5. /\ Shape(s) /\ s.running /\ ~s.failed /\ s.resume = resume
        /\ s.pc = (IF resume THEN "ccs_in" ELSE "server_done")
        /\ s.application_data = r.application_data
        /\ s.record_type_in = t.record_type_in /\ s.part = t.part
        /\ s.inbuf = t.inbuf /\ s.hin = t.hin /\ s.took = t.took
        /\ s.action = t.action /\ s.outrec = t.outrec
    BY <2>1 DEF Shape, Fields
  <2> HIDE DEF s, resume
  <2>6. Kept(r, s)
    BY <2>1, <2>5 DEF Kept, Unseen
  <2>7. Moves(r, s)
    BY <2>5 DEF Moves
  <2> QED
    BY <2>2, <2>3, <2>4, <2>6, <2>7
<1> QED
  BY <1>1, <1>2

LEMMA ServerDoneMoves ==
  ASSUME NEW h, NEW r, Fine(r, h), r.running, Unseen(r),
         r.pc = "server_done"
  PROVE  Kept(r, read_ServerDone(r)) /\ Moves(r, read_ServerDone(r))
<1>1. CASE r.hin = <<>>
  BY <1>1, YieldMoves DEF read_ServerDone
<1>2. CASE r.hin # <<>>
  <2> DEFINE t == Take(r)
             s == Goto(t, "client_key")
  <2>1. /\ Kept(r, t) /\ Shape(t) /\ t.running /\ ~t.failed
        /\ t.resume = r.resume /\ t.application_data = r.application_data
        /\ Unseen(t)
    BY <1>2, TakeKeeps DEF Kept
  <2>2. Kept(r, t) /\ Moves(r, t)
    BY <1>2, TakeMoves
  <2>3. Kept(r, Fail(r, "unexpected")) /\ Moves(r, Fail(r, "unexpected"))
    BY <1>2, RefuseMoves
  <2>4. read_ServerDone(r) \in {Fail(r, "unexpected"), t, s}
    BY <1>2 DEF read_ServerDone
  <2> HIDE DEF t
  <2>5. /\ Kept(t, s) /\ s.running /\ ~s.failed /\ s.resume = r.resume
        /\ s.pc = "client_key" /\ s.application_data = r.application_data
    BY <2>1, GoesOn
  <2> HIDE DEF s
  <2>6. Kept(r, s)
    BY <2>1, <2>5, KeptAgain
  <2>7. Moves(r, s)
    BY <2>5 DEF Moves
  <2> QED
    BY <2>2, <2>3, <2>4, <2>6, <2>7
<1> QED
  BY <1>1, <1>2

LEMMA ClientKeyMoves ==
  ASSUME NEW h, NEW r, Fine(r, h), r.running, Unseen(r),
         r.pc = "client_key"
  PROVE  /\ Kept(r, write_ClientKeyExchange(r))
         /\ Moves(r, write_ClientKeyExchange(r))
<1>1. CASE r.hout
  <2> DEFINE s == Goto(write_message(r, "handshake", "client_key"), "ccs_out")
  <2>1. /\ "client_key" \in Messages /\ "handshake" \in RecordTypes
        /\ r.record_type_out = "handshake"
    BY DEF Messages, RecordTypes, Fine, Core, Floor
  <2>2. /\ Kept(r, s) /\ s.pc = "ccs_out" /\ s.running /\ s.resume = r.resume
        /\ s.application_data = r.application_data /\ ~s.failed
    BY <1>1, <2>1, WroteMoves
  <2>3. [r EXCEPT !.record_type_out = "handshake"] = r
    BY <2>1 DEF Fine, Shape, Fields
  <2>4. write_ClientKeyExchange(r) = s
    BY <1>1, <2>3 DEF write_ClientKeyExchange, write_message
  <2> HIDE DEF s
  <2> QED
    BY <2>2, <2>4 DEF Moves
<1>2. CASE ~r.hout
  BY <1>2, YieldMoves DEF write_ClientKeyExchange
<1> QED
  BY <1>1, <1>2

LEMMA CCSMoves ==
  ASSUME NEW h, NEW r, Fine(r, h), r.running, Unseen(r), r.pc = "ccs_out"
  PROVE  Kept(r, write_CCS(r)) /\ Moves(r, write_CCS(r))
<1>1. CASE r.hout
  <2> DEFINE s == Goto(write_message(r, "ccs", "ccs"), "finished_out")
  <2>1. "ccs" \in Messages /\ "ccs" \in RecordTypes
    BY DEF Messages, RecordTypes
  <2>2. /\ Kept(r, s) /\ s.pc = "finished_out" /\ s.running
        /\ s.resume = r.resume
        /\ s.application_data = r.application_data /\ ~s.failed
    BY <1>1, <2>1, WroteMoves
  <2>3. write_CCS(r) = s
    BY <1>1 DEF write_CCS
  <2> HIDE DEF s
  <2> QED
    BY <2>2, <2>3 DEF Moves
<1>2. CASE ~r.hout
  BY <1>2, YieldMoves DEF write_CCS
<1> QED
  BY <1>1, <1>2

LEMMA FinishedMoves ==
  ASSUME NEW h, NEW r, Fine(r, h), r.running, Unseen(r),
         r.pc = "finished_out"
  PROVE  Kept(r, write_Finished(r)) /\ Moves(r, write_Finished(r))
<1>1. CASE r.hout
  <2> DEFINE w == write_message(r, "handshake", "finished")
             pc == IF r.resume THEN "open" ELSE "ccs_in"
             s == Goto(w, pc)
  <2>1. "finished" \in Messages /\ "handshake" \in RecordTypes
    BY DEF Messages, RecordTypes
  <2>2. /\ Kept(r, s) /\ s.pc = pc /\ s.running
        /\ s.resume = r.resume /\ Holds(s, "finished")
        /\ s.application_data = r.application_data /\ ~s.failed
    BY <1>1, <2>1, WroteMoves
  <2>3. w.resume = r.resume
    BY <2>1, <1>1, WriteInputs
  <2>4. write_Finished(r) = s
    BY <1>1 DEF write_Finished
  <2> HIDE DEF s, w
  <2> QED
    BY <2>2, <2>4 DEF Moves
<1>2. CASE ~r.hout
  BY <1>2, YieldMoves DEF write_Finished
<1> QED
  BY <1>1, <1>2

LEMMA ReadCCSMoves ==
  ASSUME NEW h, NEW r, Fine(r, h), r.running, Unseen(r), r.pc = "ccs_in"
  PROVE  Kept(r, read_CCS(r)) /\ Moves(r, read_CCS(r))
<1>1. CASE r.hin = <<>>
  BY <1>1, YieldMoves DEF read_CCS
<1>2. CASE r.hin # <<>>
  <2> DEFINE t == Take(r)
             s == Goto(t, "finished_in")
  <2>1. /\ Kept(r, t) /\ Shape(t) /\ t.running /\ ~t.failed
        /\ t.resume = r.resume /\ t.application_data = r.application_data
        /\ Unseen(t)
    BY <1>2, TakeKeeps DEF Kept
  <2>2. \A err : Kept(r, Fail(r, err)) /\ Moves(r, Fail(r, err))
    BY <1>2, RefuseMoves
  <2>3. read_CCS(r) \in {Fail(r, "unexpected"), Fail(r, "bad_ccs"), s}
    BY <1>2 DEF read_CCS
  <2> HIDE DEF t
  <2>4. /\ Kept(t, s) /\ s.running /\ ~s.failed /\ s.resume = r.resume
        /\ s.pc = "finished_in" /\ s.application_data = r.application_data
    BY <2>1, GoesOn
  <2> HIDE DEF s
  <2>5. Kept(r, s)
    BY <2>1, <2>4, KeptAgain
  <2>6. Moves(r, s)
    BY <2>4 DEF Moves
  <2> QED
    BY <2>2, <2>3, <2>5, <2>6
<1> QED
  BY <1>1, <1>2

LEMMA ReadFinishedMoves ==
  ASSUME NEW h, NEW r, Fine(r, h), r.running, Unseen(r),
         r.pc = "finished_in"
  PROVE  Kept(r, read_Finished(r)) /\ Moves(r, read_Finished(r))
<1>1. CASE r.hin = <<>>
  BY <1>1, YieldMoves DEF read_Finished
<1>2. CASE r.hin # <<>>
  <2> DEFINE t == Take(r)
             f == flush_record(t)
             s == Goto(f, "ccs_out")
             o == Goto(t, "open")
  <2>1. /\ Kept(r, t) /\ Shape(t) /\ t.running /\ ~t.failed
        /\ t.resume = r.resume /\ t.application_data = r.application_data
        /\ Unseen(t)
    BY <1>2, TakeKeeps DEF Kept
  <2>2. Kept(r, t) /\ Moves(r, t)
    BY <1>2, TakeMoves
  <2>3. Kept(r, Fail(r, "unexpected")) /\ Moves(r, Fail(r, "unexpected"))
    BY <1>2, RefuseMoves
  <2>4. \/ read_Finished(r) \in {Fail(r, "unexpected"), t}
        \/ read_Finished(r) = IF r.resume THEN s ELSE o
    BY <1>2 DEF read_Finished
  <2>5. /\ Kept(t, o) /\ o.running /\ ~o.failed /\ o.resume = r.resume
        /\ o.pc = "open" /\ o.application_data = r.application_data
    BY <2>1, GoesOn
  <2>6. Fine(t, h)
    BY TakeGives
  <2> HIDE DEF t, o
  <2>7. Kept(r, o) /\ (~r.resume => Moves(r, o))
    BY <2>1, <2>5, KeptAgain DEF Moves
  <2>8. /\ Shape(f) /\ Kept(t, f) /\ f.resume = r.resume /\ f.running
        /\ ~f.failed /\ f.application_data = r.application_data
    <3>1. /\ Shape(f) /\ Inputs(t, f) /\ f.resume = t.resume
          /\ f.application_data = t.application_data
          /\ t.outrec # NoRec => f.outrec = t.outrec
      BY <2>1, FlushInputs
    <3>2. f.running /\ ~f.failed
      BY <2>1, <2>6, FlushGives DEF Fine
    <3> HIDE DEF f
    <3> QED
      BY <2>1, <3>1, <3>2, InputsKept
  <2> HIDE DEF f
  <2>9. /\ Kept(f, s) /\ s.running /\ ~s.failed /\ s.resume = r.resume
        /\ s.pc = "ccs_out" /\ s.application_data = r.application_data
    BY <2>8, GoesOn DEF Kept
  <2> HIDE DEF s
  <2>10. Kept(r, s) /\ (r.resume => Moves(r, s))
    BY <2>1, <2>8, <2>9, KeptAgain DEF Moves
  <2> QED
    BY <2>2, <2>3, <2>4, <2>7, <2>10
<1> QED
  BY <1>1, <1>2

LEMMA OpenMoves ==
  ASSUME NEW h, NEW r, Fine(r, h), r.running, Unseen(r), r.pc = "open"
  PROVE  Kept(r, open(r)) /\ Moves(r, open(r))
<1> DEFINE q == [r EXCEPT !.application_data = 1, !.record_type_out = "app",
                          !.pc = "main"]
           s == open(r)
<1>1. /\ Shape(q) /\ Inputs(r, q) /\ q.pc = "main" /\ ~q.failed
      /\ q.outrec = r.outrec
  BY DEF Fine, Given, Shape, Fields, Inputs
<1>2. s = Yield(q)
  BY DEF open
<1> HIDE DEF q
<1>3. Kept(r, q) /\ Unseen(q)
  BY <1>1, InputsKept DEF Kept
<1>4. Kept(q, s) /\ Agree(q, s)
  BY <1>1, <1>2, <1>3, LeaveKeeps DEF Yield
<1> HIDE DEF s
<1>5. Kept(r, s)
  BY <1>3, <1>4, KeptAgain
<1>6. Moves(r, s)
  BY <1>1, <1>4 DEF Moves, Agree
<1> QED
  BY <1>5, <1>6 DEF s

LEMMA MainMoves ==
  ASSUME NEW h, NEW r, Fine(r, h), r.running, Unseen(r), r.pc = "main"
  PROVE  Kept(r, main(r)) /\ Moves(r, main(r))
<1>1. CASE r.hin = <<>>
  <2> DEFINE q == [r EXCEPT !.action = 0]
             s == Goto(q, "handshake")
  <2>1. main(r) \in {s, Yield(r)}
    BY <1>1 DEF main
  <2>2. /\ Shape(s) /\ s.pc = "handshake" /\ s.running /\ ~s.failed
        /\ s.application_data = r.application_data /\ s.outrec = r.outrec
        /\ s.record_type_in = r.record_type_in /\ s.part = r.part
        /\ s.inbuf = r.inbuf /\ s.hin = r.hin /\ s.took = r.took
        /\ s.action = 0
    BY DEF Goto, Fine, Given, Shape, Fields
  <2> HIDE DEF s
  <2>3. Kept(r, s) /\ Moves(r, s)
    BY <2>2 DEF Kept, Unseen, Moves
  <2>4. Kept(r, Yield(r)) /\ Moves(r, Yield(r))
    BY YieldMoves
  <2> QED
    BY <2>1, <2>3, <2>4
<1>2. CASE r.hin # <<>>
  <2> DEFINE n == IF r.record_type_in = "handshake" THEN 0
                  ELSE r.application_data
             q == [r EXCEPT !.application_data = n]
             b == Fail(q, "unexpected")
             asked == [Take(r) EXCEPT !.application_data = 0]
             f == flush_record(asked)
  <2>1. main(r) \in {b, Goto(f, "reject"), Goto(asked, "handshake")}
    <3>1. [r EXCEPT !.application_data =
             IF r.record_type_in = "handshake" THEN 0 ELSE @] = q
      OBVIOUS
    <3> QED
      BY <1>2, <3>1 DEF main
  <2>2. Kept(r, b) /\ Moves(r, b)
    <3>1. /\ Shape(q) /\ Inputs(r, q) /\ ~q.failed /\ q.pc = "main"
          /\ q.resume = r.resume /\ q.outrec = r.outrec
          /\ q.application_data = n
      BY DEF Fine, Given, Shape, Fields, Inputs
    <3> HIDE DEF q
    <3>2. Kept(r, q) /\ Unseen(q)
      BY <3>1, InputsKept DEF Kept
    <3>3. /\ Kept(q, b) /\ b.failed /\ b.pc = q.pc /\ b.resume = q.resume
          /\ b.application_data = q.application_data
      BY <3>1, <3>2, FailMoves
    <3> HIDE DEF b
    <3>4. Kept(r, b)
      BY <3>2, <3>3, KeptAgain
    <3> QED
      BY <1>2, <3>1, <3>3, <3>4 DEF Moves
  <2>3. /\ Shape(asked) /\ Kept(r, asked) /\ asked.running /\ ~asked.failed
        /\ asked.application_data = 0 /\ Unseen(asked)
    <3> DEFINE t == Take(r)
    <3>1. Shape(t) /\ Kept(r, t) /\ t.running /\ ~t.failed /\ Unseen(t)
      BY <1>2, TakeKeeps DEF Kept
    <3> HIDE DEF t
    <3>2. asked = [t EXCEPT !.application_data = 0]
      BY DEF t
    <3> HIDE DEF asked
    <3>3. /\ Shape(asked) /\ Inputs(t, asked) /\ asked.running
          /\ ~asked.failed /\ asked.application_data = 0
          /\ asked.outrec = t.outrec
      BY <3>1, <3>2 DEF Shape, Fields, Inputs
    <3>4. Kept(t, asked)
      BY <3>1, <3>3, InputsKept
    <3> QED
      BY <3>1, <3>3, <3>4, KeptAgain DEF Kept
  <2>4. Kept(r, Goto(asked, "handshake")) /\ Moves(r, Goto(asked, "handshake"))
    <3> DEFINE s == Goto(asked, "handshake")
    <3>1. /\ Kept(asked, s) /\ s.pc = "handshake" /\ s.running /\ ~s.failed
          /\ s.application_data = 0
      BY ZenonT(60), <2>3, GoesOn
    <3> HIDE DEF s, asked
    <3> QED
      BY <2>3, <3>1, KeptAgain DEF Moves, s
  <2>5. Kept(r, Goto(f, "reject")) /\ Moves(r, Goto(f, "reject"))
    <3> DEFINE s == Goto(f, "reject")
    <3>1. /\ Shape(f) /\ Inputs(asked, f)
          /\ f.application_data = asked.application_data
          /\ asked.outrec # NoRec => f.outrec = asked.outrec
      BY <2>3, FlushInputs
    <3>2. f.running = asked.running /\ f.failed = asked.failed
      BY <2>3 DEF flush_record, sendpld_flush, Shape, Fields
    <3> HIDE DEF f, asked
    <3>3. Kept(asked, f) /\ Unseen(f)
      BY <2>3, <3>1, InputsKept DEF Kept
    <3>4. /\ Kept(f, s) /\ s.pc = "reject" /\ s.running /\ ~s.failed
          /\ s.application_data = 0
      BY <2>3, <3>1, <3>2, <3>3, GoesOn
    <3> HIDE DEF s
    <3>5. Kept(r, s)
      BY <2>3, <3>3, <3>4, KeptAgain
    <3> QED
      BY <3>4, <3>5 DEF Moves, s
  <2> QED
    BY <2>1, <2>2, <2>4, <2>5
<1> QED
  BY <1>1, <1>2

LEMMA RejectMoves ==
  ASSUME NEW h, NEW r, Fine(r, h), r.running, Unseen(r), r.pc = "reject"
  PROVE  Kept(r, reject(r)) /\ Moves(r, reject(r))
<1>1. CASE r.hout
  <2> DEFINE s == Goto(write_message(r, "alert", "no_renegotiation"), "open")
  <2>1. "no_renegotiation" \in Messages /\ "alert" \in RecordTypes
    BY DEF Messages, RecordTypes
  <2>2. /\ Kept(r, s) /\ s.pc = "open" /\ s.running
        /\ s.application_data = r.application_data /\ ~s.failed
    BY <1>1, <2>1, WroteMoves
  <2>3. reject(r) = s
    BY <1>1 DEF reject
  <2> HIDE DEF s
  <2> QED
    BY <2>2, <2>3 DEF Moves
<1>2. CASE ~r.hout
  BY <1>2, YieldMoves DEF reject
<1> QED
  BY <1>1, <1>2

LEMMA CloseMoves ==
  ASSUME NEW h, NEW r, Fine(r, h), r.running, Unseen(r), r.pc = "close"
  PROVE  Kept(r, do_close(r)) /\ Moves(r, do_close(r))
<1> DEFINE n == IF r.cnr THEN 0 ELSE 2 * r.application_data
           q == [r EXCEPT !.application_data = n]
           f == flush_record(q)
           s == Goto(f, "close_room")
<1>1. n # 1
  BY DEF Fine, Core, Floor
<1>2. do_close(r) = s
  BY DEF do_close
<1> HIDE DEF n
<1>3. /\ Shape(q) /\ Inputs(r, q) /\ q.running /\ ~q.failed
      /\ q.outrec = r.outrec /\ q.application_data = n
  BY DEF Fine, Given, Shape, Fields, Inputs
<1>4. /\ Shape(f) /\ Inputs(q, f) /\ f.application_data = q.application_data
      /\ q.outrec # NoRec => f.outrec = q.outrec
  BY <1>3, FlushInputs
<1>5. f.running = q.running /\ f.failed = q.failed
  <2> HIDE DEF q
  <2> QED
    BY <1>3 DEF flush_record, sendpld_flush, Shape, Fields
<1> HIDE DEF q, f
<1>6. Kept(r, q) /\ Unseen(q)
  BY <1>3, InputsKept DEF Kept
<1>7. Kept(q, f) /\ Unseen(f)
  BY <1>4, <1>6, InputsKept DEF Kept
<1>8. /\ Kept(f, s) /\ s.pc = "close_room" /\ s.running /\ ~s.failed
      /\ s.application_data = n
  BY <1>3, <1>4, <1>5, <1>7, GoesOn
<1> HIDE DEF s
<1>9. Kept(r, s)
  BY <1>6, <1>7, <1>8, KeptAgain
<1> QED
  BY <1>1, <1>2, <1>8, <1>9 DEF Moves

LEMMA CloseRoomMoves ==
  ASSUME NEW h, NEW r, Fine(r, h), r.running, Unseen(r),
         r.pc = "close_room"
  PROVE  Kept(r, close_room(r)) /\ Moves(r, close_room(r))
<1>1. CASE r.hout
  <2> DEFINE s == Goto(write_message(r, "alert", "close_notify"), "close_wait")
  <2>1. "close_notify" \in Messages /\ "alert" \in RecordTypes
    BY DEF Messages, RecordTypes
  <2>2. /\ Kept(r, s) /\ s.pc = "close_wait" /\ s.running
        /\ s.application_data = r.application_data /\ ~s.failed
    BY <1>1, <2>1, WroteMoves
  <2>3. close_room(r) = s
    BY <1>1 DEF close_room
  <2> HIDE DEF s
  <2> QED
    BY <2>2, <2>3 DEF Moves
<1>2. CASE ~r.hout
  BY <1>2, YieldMoves DEF close_room
<1> QED
  BY <1>1, <1>2

LEMMA CloseWaitMoves ==
  ASSUME NEW h, NEW r, Fine(r, h), r.running, Unseen(r),
         r.pc = "close_wait"
  PROVE  Kept(r, close_wait(r)) /\ Moves(r, close_wait(r))
BY YieldMoves, RefuseMoves DEF close_wait

\* A change of the alert state, or of what was read, on the way.
LEMMA AlertsKept ==
  ASSUME NEW r, Shape(r), Unseen(r), r.hin # <<>>, NEW s, Shape(s),
         s.record_type_in = r.record_type_in, s.part = r.part,
         s.outrec = r.outrec, s.action = r.action
  PROVE  Kept(r, s)
BY DEF Kept, Unseen

LEMMA WaitCoMoves ==
  ASSUME NEW h, NEW r, Fine(r, h), r.running, Unseen(r), r.pc \notin Closing
  PROVE  Kept(r, wait_co(r)) /\ Moves(r, wait_co(r))
<1> DEFINE awake == [r EXCEPT !.resumed = FALSE]
           alerts == process_alerts(awake)
           told == [alerts EXCEPT !.pc = "close", !.cnr = TRUE]
<1>1. /\ Shape(awake) /\ Inputs(r, awake) /\ awake.outrec = r.outrec
      /\ awake.running /\ ~awake.failed /\ awake.pc = r.pc
      /\ awake.resume = r.resume
      /\ awake.application_data = r.application_data
  BY DEF Fine, Given, Shape, Fields, Inputs
<1>2. wait_co(r) =
        IF r.action = 1 THEN Goto(awake, "close")
        ELSE IF ~HasInput(r, "alert") THEN awake
        ELSE IF AlertState(awake).fatal THEN Fail(awake, "fatal_alert")
        ELSE IF AlertState(awake).close THEN told
        ELSE alerts
  BY DEF wait_co
<1> HIDE DEF awake
<1>3. Kept(r, awake) /\ Unseen(awake) /\ Moves(r, awake)
  BY <1>1, InputsKept DEF Kept, Moves
<1>4. Kept(r, Goto(awake, "close")) /\ Moves(r, Goto(awake, "close"))
  <2> DEFINE s == Goto(awake, "close")
  <2>1. /\ Kept(awake, s) /\ s.pc = "close" /\ s.running /\ ~s.failed
        /\ s.resume = r.resume /\ s.application_data = r.application_data
    BY <1>1, <1>3, GoesOn
  <2> HIDE DEF s
  <2> QED
    BY <1>3, <2>1, KeptAgain DEF Moves, s
<1>5. ASSUME r.hin # <<>>
      PROVE  LET s == Fail(awake, "fatal_alert")
             IN  Kept(r, s) /\ Moves(r, s)
  <2> DEFINE s == Fail(awake, "fatal_alert")
  <2>1. /\ Kept(awake, s) /\ s.failed /\ s.pc = r.pc /\ s.resume = r.resume
        /\ s.application_data = r.application_data
    BY <1>1, <1>3, FailMoves
  <2> HIDE DEF s
  <2> QED
    BY <1>3, <1>5, <2>1, KeptAgain DEF Moves, s
<1>6. /\ Shape(alerts) /\ alerts.running /\ ~alerts.failed
      /\ alerts.outrec = r.outrec /\ alerts.resume = r.resume
      /\ alerts.pc = r.pc /\ alerts.application_data = r.application_data
      /\ alerts.record_type_in = r.record_type_in /\ alerts.part = r.part
      /\ alerts.action = r.action
  <2>1. /\ Shape(alerts) /\ alerts.running = awake.running
        /\ alerts.failed = awake.failed
        /\ alerts.outrec = awake.outrec /\ alerts.resume = awake.resume
        /\ alerts.pc = awake.pc
        /\ alerts.application_data = awake.application_data
    BY <1>1, AlertsGive
  <2>2. /\ alerts.record_type_in = awake.record_type_in
        /\ alerts.part = awake.part /\ alerts.action = awake.action
    BY <1>1 DEF process_alerts, Shape, Fields
  <2> QED
    BY <1>1, <2>1, <2>2 DEF Inputs
<1> HIDE DEF alerts
<1>7. /\ Shape(told) /\ told.running /\ ~told.failed
      /\ told.outrec = r.outrec /\ told.resume = r.resume
      /\ told.pc = "close" /\ told.application_data = r.application_data
      /\ told.record_type_in = r.record_type_in /\ told.part = r.part
      /\ told.action = r.action
  BY <1>6 DEF Shape, Fields
<1> HIDE DEF told
<1>8. ASSUME r.hin # <<>>, NEW s \in {alerts, told}
      PROVE  Kept(r, s) /\ Moves(r, s)
  <2>1. Kept(r, s)
    BY <1>6, <1>7, <1>8, AlertsKept DEF Fine
  <2> QED
    BY <1>6, <1>7, <1>8, <2>1 DEF Moves
<1> QED
  BY <1>2, <1>3, <1>4, <1>5, <1>8 DEF HasInput

LEMMA WaitForCloseMoves ==
  ASSUME NEW h, NEW r, Fine(r, h), r.running, Unseen(r), r.pc \in Closing
  PROVE  Kept(r, wait_for_close(r)) /\ Moves(r, wait_for_close(r))
<1> DEFINE awake == [r EXCEPT !.resumed = FALSE]
           dropped == [awake EXCEPT !.hin = <<>>, !.took = TRUE]
           c == AlertState(awake).close
           alerts == process_alerts(awake)
           told == [alerts EXCEPT !.application_data = 0, !.cnr = c]
<1>1. /\ Shape(awake) /\ Inputs(r, awake) /\ awake.outrec = r.outrec
      /\ awake.running /\ ~awake.failed /\ awake.pc = r.pc
      /\ awake.resume = r.resume
      /\ awake.application_data = r.application_data
  BY DEF Fine, Given, Shape, Fields, Inputs
<1>2. wait_for_close(r) =
        IF r.cnr \/ r.hin = <<>> THEN awake
        ELSE IF ~HasInput(r, "alert") THEN dropped
        ELSE IF AlertState(awake).fatal THEN Fail(awake, "fatal_alert")
        ELSE told
  BY DEF wait_for_close
<1> HIDE DEF awake, c
<1>3. Kept(r, awake) /\ Unseen(awake) /\ Moves(r, awake)
  BY <1>1, InputsKept DEF Kept, Moves
<1>4. ASSUME r.hin # <<>>
      PROVE  LET s == Fail(awake, "fatal_alert")
             IN  Kept(r, s) /\ Moves(r, s)
  <2> DEFINE s == Fail(awake, "fatal_alert")
  <2>1. /\ Kept(awake, s) /\ s.failed /\ s.pc = r.pc /\ s.resume = r.resume
        /\ s.application_data = r.application_data
    BY <1>1, <1>3, FailMoves
  <2> HIDE DEF s
  <2> QED
    BY <1>3, <1>4, <2>1, KeptAgain DEF Moves, s
<1>5. /\ Shape(dropped) /\ dropped.running /\ ~dropped.failed
      /\ dropped.outrec = r.outrec /\ dropped.resume = r.resume
      /\ dropped.pc = r.pc /\ dropped.application_data = r.application_data
      /\ dropped.record_type_in = r.record_type_in /\ dropped.part = r.part
      /\ dropped.action = r.action
  BY <1>1 DEF Inputs, Shape, Fields
<1>6. /\ Shape(alerts) /\ alerts.running /\ ~alerts.failed
      /\ alerts.outrec = r.outrec /\ alerts.resume = r.resume
      /\ alerts.pc = r.pc
      /\ alerts.record_type_in = r.record_type_in /\ alerts.part = r.part
      /\ alerts.action = r.action
  <2>1. /\ Shape(alerts) /\ alerts.running = awake.running
        /\ alerts.failed = awake.failed
        /\ alerts.outrec = awake.outrec /\ alerts.resume = awake.resume
        /\ alerts.pc = awake.pc
    BY <1>1, AlertsGive
  <2>2. /\ alerts.record_type_in = awake.record_type_in
        /\ alerts.part = awake.part /\ alerts.action = awake.action
    BY <1>1 DEF process_alerts, Shape, Fields
  <2> QED
    BY <1>1, <2>1, <2>2 DEF Inputs
<1> HIDE DEF alerts, dropped
<1>7. /\ Shape(told) /\ told.running /\ ~told.failed
      /\ told.outrec = r.outrec /\ told.resume = r.resume
      /\ told.pc = r.pc /\ told.application_data = 0
      /\ told.record_type_in = r.record_type_in /\ told.part = r.part
      /\ told.action = r.action
  BY <1>6 DEF Shape, Fields
<1> HIDE DEF told
<1>8. ASSUME r.hin # <<>>, NEW s \in {dropped, told}
      PROVE  Kept(r, s) /\ Moves(r, s)
  <2>1. Kept(r, s)
    BY <1>5, <1>7, <1>8, AlertsKept DEF Fine
  <2> QED
    BY <1>5, <1>7, <1>8, <2>1 DEF Moves
<1> QED
  BY <1>2, <1>3, <1>4, <1>8

\* A step of the processor.
LEMMA HsStepMoves ==
  ASSUME NEW h, NEW r, Fine(r, h), r.running, Unseen(r)
  PROVE  Kept(r, HsStep(r)) /\ Moves(r, HsStep(r))
<1>1. CASE r.resumed
  BY <1>1, WaitCoMoves, WaitForCloseMoves DEF HsStep, Resume
<1>2. r.pc \in Points
  BY DEF Fine, Core, Floor
<1>3. CASE ~r.resumed
  BY <1>2, <1>3, HandshakeMoves, ClientHelloMoves, ServerHelloMoves,
     ServerDoneMoves, ClientKeyMoves, CCSMoves, FinishedMoves, ReadCCSMoves,
     ReadFinishedMoves, OpenMoves, MainMoves, RejectMoves, CloseMoves,
     CloseRoomMoves, CloseWaitMoves DEF HsStep, Word, Points
<1> QED
  BY <1>1, <1>3

-----------------------------------------------------------------------------
(* What comes in is read.                                                  *)

\* Where a message, or the answer to a close_notify, is read.
Awaits(r) ==
  \/ r.pc \in {"server_hello", "server_done", "ccs_in", "finished_in", "main"}
  \/ r.pc = "close_wait" /\ ~r.cnr

\* After these messages nothing more is read from the same record.
Alone(units) ==
  \A i \in DOMAIN units :
    units[i] \in {"hello_request", "finished"} => i = Len(units)

\* The processor is shown input only where it reads, and gives control back
\* with nothing unread.
Ready(r) ==
  /\ r.running /\ r.hin # <<>> =>
       /\ OutIdle(r) /\ Awaits(r) /\ r.action # 1
       /\ r.pc = "close_wait" => r.resumed
  /\ r.running /\ ~r.took /\ r.record_type_in # "app" => r.inbuf = r.hin
  /\ ~r.running /\ ~r.failed =>
       /\ r.record_type_in # "app" => r.inbuf = <<>>
       /\ r.outrec = NoRec => Awaits(r)
  /\ r.hin \in Seq(InUnits)
  /\ r.record_type_in = "handshake" => Alone(r.hin)

LEMMA NothingAlone ==
  <<>> \in Seq(InUnits) /\ Alone(<<>>)
BY DEF Alone

LEMMA TailOfOne ==
  ASSUME NEW units \in Seq(InUnits), Len(units) = 1
  PROVE  Tail(units) = <<>>
<1>1. units # <<>>
  OBVIOUS
<1>2. Tail(units) \in Seq(InUnits) /\ Len(Tail(units)) = Len(units) - 1
  BY <1>1, HeadTailProperties
<1>3. Len(Tail(units)) = 0
  BY <1>2
<1> QED
  BY <1>2, <1>3, EmptySeq

LEMMA RestAlone ==
  ASSUME NEW units \in Seq(InUnits), units # <<>>, Alone(units)
  PROVE  /\ Tail(units) \in Seq(InUnits) /\ Alone(Tail(units))
         /\ Head(units) \in {"hello_request", "finished"} => Tail(units) = <<>>
<1>1. /\ Tail(units) \in Seq(InUnits) /\ Len(units) \in Nat \ {0}
      /\ Len(Tail(units)) = Len(units) - 1
      /\ \A i \in 1..Len(Tail(units)) : Tail(units)[i] = units[i + 1]
  BY HeadTailProperties
<1>2. Head(units) = units[1] /\ DOMAIN units = 1..Len(units)
      /\ DOMAIN Tail(units) = 1..Len(Tail(units))
  BY <1>1, HeadTailProperties
<1>3. ASSUME NEW i \in DOMAIN Tail(units),
             Tail(units)[i] \in {"hello_request", "finished"}
      PROVE  i = Len(Tail(units))
  <2>1. i \in 1..(Len(units) - 1) /\ i + 1 \in DOMAIN units
        /\ Tail(units)[i] = units[i + 1]
    BY <1>1, <1>2
  <2>2. i + 1 = Len(units)
    BY <1>3, <2>1 DEF Alone
  <2> QED
    BY <1>1, <2>1, <2>2
<1>4. ASSUME Head(units) \in {"hello_request", "finished"}
      PROVE  Tail(units) = <<>>
  <2>1. Len(units) = 1
    BY <1>1, <1>2, <1>4 DEF Alone
  <2> QED
    BY <2>1, TailOfOne
<1> QED
  BY <1>1, <1>3, <1>4 DEF Alone

\* The processor goes on, and has nothing left to read.
LEMMA ReadAll ==
  ASSUME NEW r, NEW s, Ready(r), s.running, s.hin = <<>>,
         s.took \/ s.record_type_in = "app" \/ s.inbuf = <<>>
  PROVE  Ready(s)
BY NothingAlone DEF Ready

\* The same, when it had nothing to read.
LEMMA SameInput ==
  ASSUME NEW r, NEW s, Ready(r), r.running, r.hin = <<>>, s.running,
         Inputs(r, s)
  PROVE  Ready(s)
BY NothingAlone DEF Ready, Inputs

LEMMA FailReady ==
  ASSUME NEW r, Shape(r), ~r.failed, NEW err
  PROVE  Ready(Fail(r, err))
<1> DEFINE q == [r EXCEPT !.failed = TRUE, !.err = err]
           s == Fail(r, err)
<1>1. s = leave_handshake(q)
  BY DEF Fail, br_ssl_engine_fail
<1>2. /\ Shape(q) /\ q.failed
  BY DEF Shape, Fields
<1> HIDE DEF q
<1>3. s.failed /\ s.hin = <<>> /\ ~s.running
  BY <1>1, <1>2 DEF leave_handshake, Shape, Fields
<1> HIDE DEF s
<1> QED
  BY <1>3, NothingAlone DEF Ready, s

LEMMA YieldReady ==
  ASSUME NEW h, NEW r, Fine(r, h), r.running, Unseen(r), Ready(r),
         r.hin = <<>>, r.outrec = NoRec => Awaits(r)
  PROVE  Ready(Yield(r))
<1> DEFINE back == [r EXCEPT !.running = FALSE, !.hin = <<>>, !.hout = FALSE,
                             !.took = FALSE, !.resumed = FALSE, !.action = 0]
           read == [back EXCEPT !.inbuf = r.hin]
           s == Yield(r)
<1>1. ~r.failed
  BY DEF Fine, Given
<1>2. s = IF ~r.took THEN back ELSE jump_handshake(read, 0)
  BY <1>1 DEF Yield, leave_handshake
<1>3. CASE ~r.took
  <2>1. /\ back.running = FALSE /\ back.hin = <<>> /\ back.inbuf = r.inbuf
        /\ back.record_type_in = r.record_type_in /\ back.pc = r.pc
        /\ back.cnr = r.cnr /\ back.outrec = r.outrec
    BY DEF Fine, Shape, Fields
  <2>2. s = back
    BY <1>2, <1>3
  <2> HIDE DEF back, s
  <2>3. s.record_type_in # "app" => s.inbuf = <<>>
    BY <1>3, <2>1, <2>2 DEF Ready
  <2>4. s.outrec = NoRec => Awaits(s)
    BY <2>1, <2>2 DEF Awaits
  <2> QED
    BY <2>1, <2>2, <2>3, <2>4, NothingAlone DEF Ready, s
<1>4. CASE r.took
  <2>1. /\ Shape(read) /\ ~read.failed /\ read.inbuf = <<>>
    BY <1>1 DEF Fine, Shape, Fields
  <2>2. s = jump_handshake(read, 0)
    BY <1>2, <1>4
  <2> HIDE DEF read
  <2>3. /\ s.running /\ s.hin = <<>> /\ s.inbuf = <<>>
    BY <2>1, <2>2, JumpInputs
  <2> HIDE DEF s
  <2> QED
    BY <2>3, ReadAll DEF s
<1> QED
  BY <1>3, <1>4

\* It waits for room where something is still to leave.
LEMMA YieldsForRoom ==
  ASSUME NEW h, h.early, NEW r, ~Shared, Fine(r, h), r.running, Unseen(r),
         Ready(r), r.hin = <<>>, ~r.hout
  PROVE  Ready(Yield(r))
<1>1. r.outrec # NoRec
  BY DEF Fine, Given, OutIdle, Core, Pure
<1> QED
  BY <1>1, YieldReady

LEMMA WroteReady ==
  ASSUME NEW h, NEW r, Fine(r, h), r.running, Unseen(r), r.hout, Ready(r),
         r.hin = <<>>, NEW type \in RecordTypes, NEW m \in Messages, NEW pc
  PROVE  Ready(Goto(write_message(r, type, m), pc))
<1> DEFINE w == write_message(r, type, m)
           s == Goto(w, pc)
<1>1. Shape(w) /\ Inputs(r, w)
  BY WriteInputs
<1>2. w.running
  BY WriteGives DEF Fine, Given
<1> HIDE DEF w
<1>3. s.running /\ Inputs(r, s)
  BY <1>1, <1>2 DEF Goto, Shape, Fields, Inputs
<1> HIDE DEF s
<1> QED
  BY <1>3, SameInput DEF s, w

\* A message was read: the rest of the record is read where the processor
\* goes on reading.
LEMMA TookReady ==
  ASSUME NEW r, NEW s, Ready(r), r.running, r.hin # <<>>,
         r.record_type_in = "handshake", s.running, s.took,
         s.hin = Tail(r.hin), s.record_type_in = r.record_type_in,
         s.action \in {0, r.action}, s.outbuf = r.outbuf,
         s.outrec = r.outrec, Awaits(s), s.pc # "close_wait"
  PROVE  Ready(s)
<1>1. Tail(r.hin) \in Seq(InUnits) /\ Alone(Tail(r.hin))
  BY RestAlone DEF Ready
<1> QED
  BY <1>1 DEF Ready, OutIdle

\* The words that write.
LEMMA WritersReady ==
  ASSUME NEW h, h.early, NEW r, ~Shared, Fine(r, h), r.running, Unseen(r),
         Ready(r), ~r.resumed,
         r.pc \notin {"server_hello", "server_done", "ccs_in", "finished_in",
                      "main"}
  PROVE  Ready(Word(r))
<1>1. r.hin = <<>>
  BY DEF Ready, Awaits
<1>2. ~r.hout => Ready(Yield(r))
  BY <1>1, YieldsForRoom
<1>3. ASSUME r.hout, NEW type \in RecordTypes, NEW m \in Messages, NEW pc
      PROVE  Ready(Goto(write_message(r, type, m), pc))
  BY <1>1, <1>3, WroteReady
<1>4. {"alert", "ccs", "handshake"} \subseteq RecordTypes
      /\ {"client_hello", "client_key", "ccs", "finished", "close_notify",
          "no_renegotiation"} \subseteq Messages
  BY DEF RecordTypes, Messages
<1>5. CASE r.pc = "handshake"
  <2> DEFINE s == do_handshake(r)
  <2>1. s.running /\ Inputs(r, s)
    BY DEF do_handshake, Goto, Fine, Shape, Fields, Inputs
  <2> HIDE DEF s
  <2> QED
    BY <1>1, <1>5, <2>1, SameInput DEF Word, s
<1>6. CASE r.pc = "client_hello"
  <2>1. r.record_type_out = "handshake"
    BY <1>6 DEF Fine, Core, Floor
  <2> QED
    BY <1>2, <1>3, <1>4, <1>6, <2>1 DEF Word, write_ClientHello
<1>7. CASE r.pc = "client_key"
  <2>1. r.record_type_out = "handshake"
    BY <1>7 DEF Fine, Core, Floor
  <2>2. [r EXCEPT !.record_type_out = "handshake"] = r
    BY <2>1 DEF Fine, Shape, Fields
  <2>3. r.hout => write_ClientKeyExchange(r)
          = Goto(write_message(r, "handshake", "client_key"), "ccs_out")
    BY <2>2 DEF write_ClientKeyExchange, write_message
  <2> QED
    BY <1>2, <1>3, <1>4, <1>7, <2>3 DEF Word, write_ClientKeyExchange
<1>8. CASE r.pc = "ccs_out"
  BY <1>2, <1>3, <1>4, <1>8 DEF Word, write_CCS
<1>9. CASE r.pc = "finished_out"
  <2> DEFINE out == write_message(r, "handshake", "finished")
  <2>1. r.hout => write_Finished(r) \in {Goto(out, "open"), Goto(out, "ccs_in")}
    BY DEF write_Finished
  <2>2. ~r.hout => write_Finished(r) = Yield(r)
    BY DEF write_Finished
  <2> QED
    BY <1>2, <1>3, <1>4, <1>9, <2>1, <2>2 DEF Word
<1>10. CASE r.pc = "open"
  <2> DEFINE q == [r EXCEPT !.application_data = 1, !.record_type_out = "app",
                            !.pc = "main"]
  <2>1. /\ Still(r, q) /\ q.pc = "main" /\ q.application_data = 1
        /\ q.record_type_out = "app" /\ q.running /\ q.hin = <<>>
        /\ Inputs(r, q)
    BY <1>1 DEF Fine, Still, Shape, Fields, Inputs
  <2>2. open(r) = Yield(q)
    BY DEF open
  <2> HIDE DEF q
  <2>3. Floor(q) /\ Shaking(q, h)
    BY <1>10, <2>1 DEF Points, Fine, Core, Floor, Shaking, Still, Holds,
       Shakes, Silent, Closing, RecordTypes
  <2>4. Fine(q, h)
    BY <1>10, <2>1, <2>3, StillFine DEF Closing
  <2>5. Ready(q) /\ Unseen(q)
    BY <1>1, <2>1, SameInput DEF Unseen, Inputs
  <2>6. Awaits(q)
    BY <2>1 DEF Awaits
  <2>7. Ready(Yield(q))
    BY <2>1, <2>4, <2>5, <2>6, YieldReady
  <2> QED
    BY <1>10, <2>2, <2>7 DEF Word
<1>11. CASE r.pc = "reject"
  BY <1>2, <1>3, <1>4, <1>11 DEF Word, reject
<1>12. CASE r.pc = "close"
  <2> DEFINE s == do_close(r)
             n == IF r.cnr THEN 0 ELSE 2 * r.application_data
             q == [r EXCEPT !.application_data = n]
             f == flush_record(q)
  <2>1. s = Goto(f, "close_room")
    BY DEF do_close
  <2> HIDE DEF n
  <2>2. /\ Shape(q) /\ Inputs(r, q) /\ q.running
    BY DEF Fine, Shape, Fields, Inputs
  <2>3. /\ Shape(f) /\ Inputs(q, f)
    BY <2>2, FlushInputs
  <2> HIDE DEF q
  <2>4. f.running
    BY <2>2 DEF flush_record, sendpld_flush, Shape, Fields
  <2> HIDE DEF f
  <2>5. s.running /\ Inputs(r, s)
    BY <2>1, <2>2, <2>3, <2>4 DEF Goto, Shape, Fields, Inputs
  <2> HIDE DEF s
  <2> QED
    BY <1>1, <1>12, <2>5, SameInput DEF Word, s
<1>13. CASE r.pc = "close_room"
  BY <1>2, <1>3, <1>4, <1>13 DEF Word, close_room
<1>14. CASE r.pc = "close_wait"
  <2>1. Ready(Fail(r, "ok"))
    BY FailReady DEF Fine, Given
  <2>2. ~(r.cnr /\ r.hout) => Ready(Yield(r))
    <3>1. ~(r.cnr /\ r.hout) /\ r.outrec = NoRec => Awaits(r)
      BY <1>14 DEF Awaits, Fine, Given, OutIdle, Core, Pure
    <3> QED
      BY <1>1, <3>1, YieldReady
  <2> QED
    BY <1>14, <2>1, <2>2 DEF Word, close_wait
<1>15. r.pc \in Points
  BY DEF Fine, Core, Floor
<1> QED
  BY <1>5, <1>6, <1>7, <1>8, <1>9, <1>10, <1>11, <1>12, <1>13, <1>14, <1>15
     DEF Points

\* The words that read.
LEMMA ReadersReady ==
  ASSUME NEW h, h.early, NEW r, ~Shared, Fine(r, h), r.running, Unseen(r),
         Ready(r), ~r.resumed,
         r.pc \in {"server_hello", "server_done", "ccs_in", "finished_in",
                   "main"}
  PROVE  Ready(Word(r))
<1>1. Awaits(r)
  BY DEF Awaits
<1>2. r.hin = <<>> => Ready(Yield(r))
  BY <1>1, YieldReady
<1>3. \A err : Ready(Fail(r, err))
  BY FailReady DEF Fine, Given
<1> DEFINE t == Take(r)
<1>4. ASSUME r.hin # <<>>
      PROVE  /\ Shape(t) /\ t.running /\ ~t.failed /\ t.pc = r.pc
             /\ t.outrec = r.outrec /\ t.outbuf = r.outbuf
             /\ t.hin = Tail(r.hin) /\ t.took
             /\ t.record_type_in = r.record_type_in
             /\ t.action \in {0, r.action}
  BY <1>4, TakeKeeps DEF Kept
<1>5. ASSUME r.hin # <<>>, r.record_type_in = "handshake"
      PROVE  Ready(t)
  <2>1. Awaits(t) /\ t.pc # "close_wait"
    BY <1>4, <1>5 DEF Awaits
  <2> HIDE DEF t
  <2> QED
    BY <1>4, <1>5, <2>1, TookReady
<1>6. CASE r.pc = "server_hello"
  <2> DEFINE resume == Head(r.hin) = "sh_resume" /\ r.session
             secure == Head(r.hin) # "sh_old"
             s == [t EXCEPT !.reneg = IF secure THEN 2 ELSE 1,
                            !.session = secure, !.resume = resume,
                            !.pc = IF resume THEN "ccs_in" ELSE "server_done"]
  <2>1. \/ r.hin = <<>> /\ Word(r) = Yield(r)
        \/ Word(r) \in {Fail(r, "unexpected"), Fail(r, "bad_secreneg")}
        \/ /\ r.hin # <<>> /\ r.record_type_in = "handshake"
           /\ Word(r) \in {t, s}
    BY <1>6 DEF Word, read_ServerHello, AlienInput
  <2> HIDE DEF t
  <2>2. ASSUME r.hin # <<>>, r.record_type_in = "handshake" PROVE Ready(s)
    <3>1. /\ s.running /\ s.took /\ s.hin = Tail(r.hin)
          /\ s.record_type_in = r.record_type_in
          /\ s.action \in {0, r.action} /\ s.outbuf = r.outbuf
          /\ s.outrec = r.outrec /\ s.pc \in {"ccs_in", "server_done"}
      BY <1>4, <2>2 DEF Shape, Fields
    <3> HIDE DEF s
    <3>2. Awaits(s) /\ s.pc # "close_wait"
      BY <3>1 DEF Awaits
    <3> QED
      BY <2>2, <3>1, <3>2, TookReady
  <2> QED
    BY <1>2, <1>3, <1>5, <2>1, <2>2
<1>7. CASE r.pc = "server_done"
  <2> DEFINE s == Goto(t, "client_key")
  <2>1. \/ r.hin = <<>> /\ Word(r) = Yield(r)
        \/ Word(r) = Fail(r, "unexpected")
        \/ /\ r.hin # <<>> /\ r.record_type_in = "handshake"
           /\ Word(r) = t
        \/ r.hin = <<"hello_done">> /\ Word(r) = s
    BY <1>7 DEF Word, read_ServerDone, AlienInput
  <2> HIDE DEF t
  <2>2. ASSUME r.hin = <<"hello_done">> PROVE Ready(s)
    <3>1. r.hin # <<>> /\ Tail(r.hin) = <<>>
      BY <2>2
    <3>2. s.running /\ s.took /\ s.hin = <<>>
      BY <1>4, <3>1 DEF Goto, Shape, Fields
    <3> HIDE DEF s
    <3> QED
      BY <3>2, ReadAll
  <2> QED
    BY <1>2, <1>3, <1>5, <2>1, <2>2
<1>8. CASE r.pc = "ccs_in"
  <2> DEFINE s == Goto(t, "finished_in")
  <2>1. \/ r.hin = <<>> /\ Word(r) = Yield(r)
        \/ Word(r) \in {Fail(r, "unexpected"), Fail(r, "bad_ccs")}
        \/ r.hin # <<>> /\ Len(r.hin) = 1 /\ Word(r) = s
    BY <1>8 DEF Word, read_CCS
  <2> HIDE DEF t
  <2>2. ASSUME r.hin # <<>>, Len(r.hin) = 1 PROVE Ready(s)
    <3>1. Tail(r.hin) = <<>>
      BY <2>2, TailOfOne DEF Ready
    <3>2. s.running /\ s.took /\ s.hin = <<>>
      BY <1>4, <2>2, <3>1 DEF Goto, Shape, Fields
    <3> HIDE DEF s
    <3> QED
      BY <3>2, ReadAll
  <2> QED
    BY <1>2, <1>3, <2>1, <2>2
<1>9. ASSUME r.hin # <<>>, r.record_type_in = "handshake",
             Head(r.hin) \in {"hello_request", "finished"}
      PROVE  t.hin = <<>>
  BY <1>4, <1>9, RestAlone DEF Ready
<1>10. CASE r.pc = "finished_in"
  <2> DEFINE f == flush_record(t)
             s == Goto(f, "ccs_out")
             o == Goto(t, "open")
  <2>1. \/ r.hin = <<>> /\ Word(r) = Yield(r)
        \/ Word(r) = Fail(r, "unexpected")
        \/ /\ r.hin # <<>> /\ r.record_type_in = "handshake"
           /\ Word(r) = t
        \/ /\ r.hin # <<>> /\ r.record_type_in = "handshake"
           /\ Head(r.hin) = "finished" /\ Word(r) \in {s, o}
    BY <1>10 DEF Word, read_Finished, AlienInput
  <2> HIDE DEF t
  <2>2. ASSUME r.hin # <<>>, r.record_type_in = "handshake",
               Head(r.hin) = "finished"
        PROVE  Ready(s) /\ Ready(o)
    <3>1. t.hin = <<>> /\ t.took /\ t.running /\ Shape(t)
      BY <1>4, <1>9, <2>2
    <3>2. o.running /\ o.took /\ o.hin = <<>>
      BY <3>1 DEF Goto, Shape, Fields
    <3>3. Shape(f) /\ Inputs(t, f)
      BY <3>1, FlushInputs
    <3>4. f.running
      BY <3>1 DEF flush_record, sendpld_flush, Shape, Fields
    <3> HIDE DEF f
    <3>5. s.running /\ s.took /\ s.hin = <<>>
      BY <3>1, <3>3, <3>4 DEF Goto, Shape, Fields, Inputs
    <3> HIDE DEF s, o
    <3> QED
      BY <3>2, <3>5, ReadAll
  <2> QED
    BY <1>2, <1>3, <1>5, <2>1, <2>2
<1>11. CASE r.pc = "main"
  <2> DEFINE n == IF r.record_type_in = "handshake" THEN 0
                  ELSE r.application_data
             q == [r EXCEPT !.application_data = n]
             p == Goto([r EXCEPT !.action = 0], "handshake")
             asked == [t EXCEPT !.application_data = 0]
             f == flush_record(asked)
  <2>1. \/ r.hin = <<>> /\ Word(r) \in {Yield(r), p}
        \/ Word(r) = Fail(q, "unexpected")
        \/ /\ r.hin # <<>> /\ r.record_type_in = "handshake"
           /\ Head(r.hin) = "hello_request"
           /\ Word(r) \in {Goto(f, "reject"), Goto(asked, "handshake")}
    <3>1. [r EXCEPT !.application_data =
             IF r.record_type_in = "handshake" THEN 0 ELSE @] = q
      OBVIOUS
    <3> QED
      BY <1>11, <3>1 DEF Word, main
  <2>2. Ready(Fail(q, "unexpected"))
    <3>1. Shape(q) /\ ~q.failed
      BY DEF Fine, Given, Shape, Fields
    <3> QED
      BY <3>1, FailReady
  <2>3. r.hin = <<>> => Ready(p)
    <3>1. /\ p.running /\ p.hin = r.hin /\ p.took = r.took
          /\ p.inbuf = r.inbuf /\ p.record_type_in = r.record_type_in
      BY DEF Goto, Fine, Shape, Fields
    <3> HIDE DEF p
    <3> QED
      BY <3>1, NothingAlone DEF Ready
  <2> HIDE DEF t, p, q
  <2>4. ASSUME r.hin # <<>>, r.record_type_in = "handshake",
               Head(r.hin) = "hello_request"
        PROVE  Ready(Goto(f, "reject")) /\ Ready(Goto(asked, "handshake"))
    <3> DEFINE s == Goto(f, "reject")
               o == Goto(asked, "handshake")
    <3>1. t.hin = <<>> /\ t.took /\ t.running /\ Shape(t)
      BY <1>4, <1>9, <2>4
    <3>2. Shape(asked) /\ asked.running /\ asked.took /\ asked.hin = <<>>
      BY <3>1 DEF Shape, Fields
    <3> HIDE DEF asked
    <3>3. o.running /\ o.took /\ o.hin = <<>>
      BY <3>2 DEF Goto, Shape, Fields
    <3>4. Shape(f) /\ Inputs(asked, f)
      BY <3>2, FlushInputs
    <3>5. f.running
      BY <3>2 DEF flush_record, sendpld_flush, Shape, Fields
    <3> HIDE DEF f
    <3>6. s.running /\ s.took /\ s.hin = <<>>
      BY <3>2, <3>4, <3>5 DEF Goto, Shape, Fields, Inputs
    <3> HIDE DEF s, o
    <3>7. Ready(s) /\ Ready(o)
      BY <3>3, <3>6, ReadAll
    <3> QED
      BY <3>7 DEF s, o
  <2> QED
    BY <1>2, <2>1, <2>2, <2>3, <2>4
<1> QED
  BY <1>6, <1>7, <1>8, <1>10, <1>11

\* What happens first when control comes back.
LEMMA ResumeReady ==
  ASSUME NEW h, NEW r, Fine(r, h), r.running, Unseen(r), Ready(r), r.resumed
  PROVE  Ready(Resume(r))
<1> DEFINE awake == [r EXCEPT !.resumed = FALSE]
           alerts == process_alerts(awake)
<1>1. /\ Shape(awake) /\ awake.running /\ ~awake.failed /\ Inputs(r, awake)
      /\ awake.outrec = r.outrec /\ awake.outbuf = r.outbuf
      /\ awake.pc = r.pc /\ awake.cnr = r.cnr
  BY DEF Fine, Given, Shape, Fields, Inputs
<1> HIDE DEF awake
<1>2. r.pc # "close_wait" \/ r.hin = <<>> => Ready(awake)
  BY <1>1 DEF Ready, Inputs, Awaits, OutIdle
<1>3. Ready(Fail(awake, "fatal_alert"))
  BY <1>1, FailReady
<1>4. /\ Shape(alerts) /\ alerts.running /\ alerts.hin = <<>> /\ alerts.took
  <2>1. Shape(alerts) /\ alerts.running = awake.running
    BY <1>1, AlertsGive
  <2>2. alerts.hin = <<>> /\ alerts.took = TRUE
    BY <1>1 DEF process_alerts, Shape, Fields
  <2> QED
    BY <1>1, <2>1, <2>2
<1>5. CASE r.pc \notin Closing
  <2> DEFINE told == [alerts EXCEPT !.pc = "close", !.cnr = TRUE]
             p == Goto(awake, "close")
  <2>1. \/ r.action = 1 /\ Resume(r) = p
        \/ Resume(r) \in {awake, Fail(awake, "fatal_alert"), told, alerts}
    BY <1>5 DEF Resume, wait_co, awake
  <2>2. r.action = 1 => Ready(p)
    <3>1. p.running /\ Inputs(r, p)
      BY <1>1 DEF Goto, Shape, Fields, Inputs
    <3> HIDE DEF p
    <3> QED
      BY <3>1, SameInput DEF Ready
  <2> HIDE DEF p, alerts
  <2>3. told.running /\ told.hin = <<>> /\ told.took
    BY <1>4 DEF Shape, Fields
  <2> HIDE DEF told
  <2>4. Ready(told) /\ Ready(alerts)
    BY <1>4, <2>3, ReadAll
  <2>5. r.pc # "close_wait"
    BY <1>5 DEF Closing
  <2> QED
    BY <1>2, <1>3, <2>1, <2>2, <2>4, <2>5
<1>6. CASE r.pc \in Closing
  <2> DEFINE dropped == [awake EXCEPT !.hin = <<>>, !.took = TRUE]
             c == AlertState(awake).close
             told == [alerts EXCEPT !.application_data = 0, !.cnr = c]
  <2>1. \/ (r.cnr \/ r.hin = <<>>) /\ Resume(r) = awake
        \/ Resume(r) \in {Fail(awake, "fatal_alert"), told, dropped}
    BY <1>6 DEF Resume, wait_for_close, awake
  <2>2. r.cnr => r.hin = <<>>
    BY <1>6 DEF Ready, Awaits, Closing
  <2>3. dropped.running /\ dropped.hin = <<>> /\ dropped.took
    BY <1>1 DEF Shape, Fields
  <2> HIDE DEF dropped, alerts, c
  <2>4. told.running /\ told.hin = <<>> /\ told.took
    BY <1>4 DEF Shape, Fields
  <2> HIDE DEF told
  <2>5. Ready(told) /\ Ready(dropped)
    BY <2>3, <2>4, ReadAll
  <2> QED
    BY <1>2, <1>3, <2>1, <2>2, <2>5
<1> QED
  BY <1>5, <1>6

LEMMA HsStepReady ==
  ASSUME NEW h, h.early, NEW r, ~Shared, Fine(r, h), r.running, Unseen(r),
         Ready(r)
  PROVE  Ready(HsStep(r))
BY ResumeReady, WritersReady, ReadersReady DEF HsStep

\* Without input, or a request of the application, main waits.
LEMMA MainWaits ==
  ASSUME NEW h, NEW r, Fine(r, h), r.running, r.hin = <<>>, ~r.took,
         r.pc = "main", r.action = 0
  PROVE  LET s == HsStep(r)
         IN  /\ s.pc = "main" /\ s.application_data = r.application_data
             /\ ~s.failed
<1> DEFINE awake == [r EXCEPT !.resumed = FALSE]
<1>1. /\ awake.pc = "main" /\ awake.application_data = r.application_data
      /\ ~awake.failed
  BY DEF Fine, Given, Shape, Fields
<1>2. HsStep(r) \in {awake, Yield(r)}
  BY DEF HsStep, Resume, wait_co, HasInput, Closing, Word, main
<1>3. Agree(r, Yield(r))
  BY LeaveGives DEF Fine, Yield
<1> QED
  BY <1>1, <1>2, <1>3 DEF Agree, Fine, Given

=============================================================================
