----------------------------- MODULE EngineProofs -----------------------------
(***************************************************************************)
(* Proofs about the client engine, for any records the peer may send, any  *)
(* room for payload and any number of writes, with one buffer or two: the  *)
(* invariant of HsClientProofs, with the history of TlsEngine.             *)
(***************************************************************************)
EXTENDS TlsEngine, HsClientProofs

H == [written |-> written, gone |-> gone, hello |-> hello,
      notified |-> notified, early |-> FlushEarly]

IInv == Fine(e, H)

LEMMA HistoryFields ==
  /\ H.written = written /\ H.gone = gone /\ H.hello = hello
  /\ H.notified = notified /\ H.early = FlushEarly
BY DEF H

LEMMA HistoryStays ==
  ASSUME UNCHANGED history, NEW r, e' = r, Fine(r, H)
  PROVE  IInv'
BY DEF history, IInv, H, Fine, Core, Floor, Stream, Pure, Notice, Shaking,
       Ended, Given, Shape, Holds, Owed, OutIdle

-----------------------------------------------------------------------------
(* The calls of the transport and of the application.                      *)

LEMMA RecvPartStep ==
  ASSUME IInv, NEW type, RecvPart(type)
  PROVE  IInv'
<1> DEFINE s == [e EXCEPT !.part = TRUE, !.record_type_in = type]
<1>1. /\ Shape(s) /\ Agree(e, s) /\ s.hout = e.hout /\ s.running = e.running
      /\ s.hin = e.hin /\ s.took = e.took
  BY DEF IInv, Fine, Shape, Fields, Agree
<1>2. e' = s /\ UNCHANGED history
  BY DEF RecvPart
<1> HIDE DEF s
<1> QED
  BY <1>1, <1>2, AgreeFine, HistoryStays DEF IInv

LEMMA RecvRecStep ==
  ASSUME IInv, NEW rec \in Records, RecvRec(rec)
  PROVE  IInv'
<1>1. Fine(br_ssl_engine_recvrec_ack(e, rec.type, rec.units), H)
  BY RecvFine DEF IInv, RecvRec, Idle, recvrec_open, CanIn
<1> QED
  BY <1>1, HistoryStays DEF RecvRec

LEMMA RecvBadStep ==
  ASSUME IInv, RecvBad
  PROVE  IInv'
<1>1. Fine(br_ssl_engine_fail(e, "record"), H)
  BY FailFine DEF IInv, RecvBad, Idle
<1> QED
  BY <1>1, HistoryStays DEF RecvBad

LEMMA RecvAppStep ==
  ASSUME IInv, RecvApp
  PROVE  IInv'
<1> DEFINE s == [e EXCEPT !.inbuf = Tail(@)]
<1>1. /\ Shape(s) /\ Agree(e, s) /\ s.hout = e.hout /\ s.running = e.running
      /\ s.hin = e.hin /\ s.took = e.took
  BY DEF IInv, Fine, Shape, Fields, Agree
<1>2. e' = s /\ UNCHANGED history
  BY DEF RecvApp
<1> HIDE DEF s
<1> QED
  BY <1>1, <1>2, AgreeFine, HistoryStays DEF IInv

LEMMA HandOverStep ==
  ASSUME IInv, Close \/ Renegotiate
  PROVE  IInv'
<1>1. ~e.failed /\ Shape(e) /\ Core(e, H)
  BY DEF Close, Renegotiate, IInv, Fine
<1>2. Fine(jump_handshake(e, 1), H) /\ Fine(jump_handshake(e, 2), H)
  BY <1>1, JumpFine
<1> QED
  BY <1>2, HistoryStays DEF Close, Renegotiate

LEMMA HsRunStep ==
  ASSUME IInv, HsRun
  PROVE  IInv'
<1>1. Fine(HsStep(e), H)
  BY HsStepFine DEF HsRun, IInv
<1> QED
  BY <1>1, HistoryStays DEF HsRun

LEMMA FlushAppStep ==
  ASSUME IInv, NEW force, FlushApp(force)
  PROVE  IInv'
<1>1. Fine(br_ssl_engine_flush(e, force), H)
  BY FlushFine DEF FlushApp, Idle, IInv
<1> QED
  BY <1>1, HistoryStays DEF FlushApp

LEMMA SendAppStep ==
  ASSUME IInv, SendApp
  PROVE  IInv'
<1> DEFINE K == [written |-> written + 1, gone |-> gone, hello |-> hello,
                 notified |-> notified, early |-> FlushEarly]
           acked == sendpld_ack(e, NextData(written, 1))
<1>1. /\ ~e.failed /\ ~e.running /\ e.application_data = 1
      /\ e.outrec = NoRec /\ Fine(e, H) /\ written \in Nat
  BY HistoryFields
     DEF SendApp, Idle, sendapp_open, sendpld_open, CanOut, IInv, Fine, Core,
         Stream
<1>2. e' = IF FlushEarly THEN br_ssl_engine_flush(acked, FALSE) ELSE acked
  BY <1>1, OneMore DEF SendApp
<1>3. More(H, K, 1) /\ K.early = FlushEarly
  BY DEF More, H
<1>4. H' = K
  BY DEF SendApp, H
<1> HIDE DEF K
<1>5. /\ ~K.early => Fine(acked, K)
      /\ Fine(br_ssl_engine_flush(acked, FALSE), K)
  <2>1. H.written = written
    BY HistoryFields
  <2>2. 1 \in Nat /\ 1 # 0
    OBVIOUS
  <2> DEFINE a == sendpld_ack(e, NextData(H.written, 1))
  <2>3. /\ ~K.early => Fine(a, K)
        /\ Fine(br_ssl_engine_flush(a, FALSE), K)
    BY <1>1, <1>3, <2>2, WriteFine
  <2> QED
    BY <2>1, <2>3
<1>6. Fine(e', H')
  BY <1>2, <1>3, <1>4, <1>5
<1> QED
  BY <1>6 DEF IInv, Fine, Core, Floor, Stream, Pure, Notice, Shaking, Ended,
     Given, Shape, Holds, Owed, OutIdle

-----------------------------------------------------------------------------
(* A record leaves.                                                        *)

\* The messages of a record are those that the engine holds.
LEMMA CarriesHeld ==
  ASSUME NEW h, NEW r, Fine(r, h), r.outrec # NoRec, NEW m \in Messages
  PROVE  Carries(r.outrec.units, m) <=> Holds(r, m)
<1>1. CASE r.outrec.units = Owed(h)
  <2> DEFINE D == Owed(h)
  <2>1. D \in Seq([msg : {"data"}, n : Nat]) /\ D # <<Message(m)>>
    BY OwedIsData DEF Fine, Core, Stream
  <2> HIDE DEF D
  <2>2. \A i \in 1..Len(D) : D[i] \in [msg : {"data"}, n : Nat]
    BY <2>1, ElementOfSeq
  <2>3. ~Carries(D, m)
    BY <2>2 DEF Carries, Message, Messages
  <2>4. r.outrec.units = D
    BY <1>1 DEF D
  <2> QED
    BY <2>1, <2>3, <2>4 DEF Holds
<1>2. ASSUME NEW n \in Messages, Holds(r, n)
      PROVE  Carries(r.outrec.units, m) <=> Holds(r, m)
  <2> DEFINE s == <<Message(n)>>
  <2>1. 1..Len(s) = {1} /\ s[1] = Message(n)
    OBVIOUS
  <2>2. r.outrec.units = s /\ r.outrec # NoRec
    BY <1>2 DEF Holds
  <2>3. Holds(r, m) <=> n = m
    BY <2>2 DEF Holds, Message
  <2> HIDE DEF s
  <2>4. Carries(s, m) <=> n = m
    BY <2>1 DEF Carries, Message
  <2> QED
    BY <2>2, <2>3, <2>4
<1> QED
  BY <1>1, <1>2 DEF Fine, Core, Stream

LEMMA SendRecStep ==
  ASSUME IInv, SendRec
  PROVE  IInv'
<1> DEFINE K == [written |-> written,
                 gone |-> gone + Cardinality(DataPlaces(e.outrec.units)),
                 hello |-> ((hello \/ Carries(e.outrec.units, "client_hello"))
                            /\ ~Carries(e.outrec.units, "finished")),
                 notified |-> (notified \/
                               Carries(e.outrec.units, "close_notify")),
                 early |-> FlushEarly]
<1>1. /\ Fine(e, H) /\ ~e.failed /\ ~e.running /\ e.outrec # NoRec
      /\ e' = br_ssl_engine_sendrec_ack(e) /\ H' = K
  BY DEF SendRec, Idle, sendrec_open, CanOut, IInv, H
<1>2. {"client_hello", "finished", "close_notify"} \subseteq Messages
  BY DEF Messages
<1>3. Sent(e, H, K)
  BY <1>1, <1>2, CarriesHeld DEF Sent, H
<1> HIDE DEF K
<1>4. Fine(e', H')
  BY <1>1, <1>3, SentFine
<1> QED
  BY <1>4 DEF IInv, Fine, Core, Floor, Stream, Pure, Notice, Shaking, Ended,
     Given, Shape, Holds, Owed, OutIdle

-----------------------------------------------------------------------------
(* The invariant of the engine.                                            *)

LEMMA InitIInv == Init => IInv
BY InitFine, HistoryFields DEF Init, IInv

LEMMA StepKeepsIInv == IInv /\ [Next]_vars => IInv'
<1> SUFFICES ASSUME IInv, [Next]_vars PROVE IInv'
  OBVIOUS
<1>1. CASE UNCHANGED vars
  BY <1>1, HistoryStays DEF vars, IInv
<1>2. CASE Next
  BY <1>2, RecvPartStep, RecvRecStep, RecvBadStep, SendRecStep, SendAppStep,
     FlushAppStep, RecvAppStep, HandOverStep, HsRunStep DEF Next
<1> QED
  BY <1>1, <1>2

\* The invariant of the output side: who has the floor, what is owed and
\* where it is, where the close_notify and the Finished are
\* (ssl_engine.c, ssl_hs_client.t0 main, do-handshake, do-close).
THEOREM EngineInvariant == Spec => []IInv
BY InitIInv, StepKeepsIInv, PTL DEF Spec

\* What the application wrote leaves in order, whole and once
\* (ssl_engine.c sendpld_ack, sendpld_flush, flush_record).
THEOREM AppStreamAlwaysKept == Spec => []AppStreamKept
<1>1. IInv => AppStreamKept
  BY PendingKept, HistoryFields DEF IInv, AppStreamKept
<1> QED
  BY <1>1, EngineInvariant, PTL

\* No application data leaves between ClientHello and Finished
\* (ssl_hs_client.t0 do-handshake, application_data).
THEOREM NeverInterrupted == Spec => []HandshakeUninterrupted
<1>1. IInv => HandshakeUninterrupted
  <2> SUFFICES ASSUME IInv, hello PROVE DataPlaces(e.outrec.units) = {}
    BY DEF HandshakeUninterrupted
  <2>1. "finished" \in Messages
    BY DEF Messages
  <2>2. CASE Holds(e, "finished")
    BY <2>1, <2>2, MessageLeaves DEF Holds
  <2>3. CASE gone = written
    <3>1. /\ written \in Nat /\ gone \in Nat
          /\ \/ e.outrec.units = <<>>
             \/ \E m \in Messages : e.outrec.units = <<Message(m)>>
      BY <2>3, HistoryFields, OwedIsData
         DEF IInv, Fine, Core, Stream, Holds, NoRec
    <3>2. DataPlaces(<<>>) = {}
      BY DEF DataPlaces
    <3> QED
      BY <3>1, <3>2, MessageLeaves
  <2> QED
    BY <2>2, <2>3, HistoryFields DEF IInv, Fine, Core, Shaking
<1> QED
  BY <1>1, EngineInvariant, PTL

\* Nothing is in the output buffer once the close_notify has left (do-close).
THEOREM CloseNotifyAlwaysLast == Spec => []CloseNotifyLast
<1>1. IInv => CloseNotifyLast
  BY HistoryFields DEF IInv, Fine, Core, Notice, CloseNotifyLast, OutIdle
<1> QED
  BY <1>1, EngineInvariant, PTL

\* An end without error comes after both close_notify alerts, with all data
\* sent (do-close, process-alerts).
THEOREM EndsAreClean == Spec => []CleanEnd
<1>1. IInv => CleanEnd
  BY HistoryFields DEF IInv, Fine, Core, Ended, CleanEnd
<1> QED
  BY <1>1, EngineInvariant, PTL

\* A caller that flushes what it writes sends data and messages in records of
\* their own types (ssl_engine.c:979-997).
THEOREM RecordsAlwaysPure ==
  ASSUME FlushEarly
  PROVE  Spec => []RecordsPure
<1>1. IInv => RecordsPure
  <2> SUFFICES ASSUME IInv, NEW i \in 1..Len(e.outrec.units)
               PROVE  (e.outrec.units[i].msg = "data") <=> (e.outrec.type = "app")
    BY DEF RecordsPure
  <2>1. written \in Nat /\ gone \in Nat /\ gone <= written
    BY HistoryFields DEF IInv, Fine, Core, Stream
  <2>2. e.outrec # NoRec
    BY DEF NoRec
  <2>3. CASE e.outrec.units = Owed(H)
    <3>1. /\ Owed(H) \in Seq([msg : {"data"}, n : Nat])
          /\ Len(Owed(H)) = written - gone
      BY <2>1, HistoryFields, OwedIsData
    <3>2. i \in 1..(written - gone)
      BY <2>3, <3>1
    <3>3. gone # written
      BY <2>1, <3>2
    <3>4. Owed(H)[i] = AppData(gone + i)
      BY <3>2, HistoryFields DEF Owed, DataFrom
    <3>5. e.outrec.units[i].msg = "data"
      BY <2>3, <3>4 DEF AppData
    <3> QED
      BY <2>3, <3>3, <3>5, HistoryFields DEF IInv, Fine, Core, Pure
  <2>4. ASSUME NEW m \in Messages, Holds(e, m)
        PROVE  (e.outrec.units[i].msg = "data") <=> (e.outrec.type = "app")
    <3>1. e.outrec.type # "app"
      BY <2>4, HistoryFields DEF IInv, Fine, Core, Pure
    <3>2. e.outrec.units = <<Message(m)>> /\ i = 1
      BY <2>4 DEF Holds
    <3>3. e.outrec.units[i].msg = m /\ m # "data"
      BY <3>2 DEF Message, Messages
    <3> QED
      BY <3>1, <3>3
  <2> QED
    BY <2>2, <2>3, <2>4, HistoryFields DEF IInv, Fine, Core, Stream
<1> QED
  BY <1>1, EngineInvariant, PTL

=============================================================================
