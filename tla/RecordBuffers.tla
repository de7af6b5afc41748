---------------------------- MODULE RecordBuffers ----------------------------
(***************************************************************************)
(* The record layer as a state machine: the transport, the application and *)
(* the handshake processor call the functions of RecordLayer in any order  *)
(* the buffers allow, with chunks of any length, and the handshake         *)
(* processor changes the encryption mode of either direction.              *)
(***************************************************************************)
EXTENDS RecordLayer

CONSTANTS
  RecordLens,   \* lengths that headers from the peer announce
  Forces        \* values of "force" with which the application flushes

ASSUME InputAssumption == RecordLens \subseteq Nat /\ Forces \subseteq BOOLEAN

VARIABLES
  rc,      \* the registers
  held,    \* history: payload bytes accepted and not yet put into a record
  unread   \* history: payload bytes received and not yet read

vars == <<rc, held, unread>>

Headers ==
  [type : RecordTypes, version : Versions \cup {0}, rlen : RecordLens]
NoHeader == [type |-> "app", version |-> 0, rlen |-> 0]

Init ==
  /\ \E len \in FragLens : rc = InitRegisters(len)
  /\ held = 0
  /\ unread = 0

-----------------------------------------------------------------------------
\* The headers and plaintext lengths that len more bytes may complete.
HeadersFor(r, len) ==
  IF r.ixa + len = HeaderLen THEN Headers ELSE {NoHeader}

Completes(r, len) == incrypt(r) /\ r.ixa + len > HeaderLen /\ r.ixc = len
PlainsFor(r, len) ==
  IF Completes(r, len)
  THEN {-1} \cup DecryptLens(r.in, r.ixa + len - HeaderLen)
  ELSE {0}

\* Payload bytes that len more bytes make available.
Received(r, len, plain) ==
  IF Completes(r, len) THEN (IF plain = -1 THEN 0 ELSE plain)
  ELSE IF ~incrypt(r) /\ r.ixa + len > HeaderLen THEN len ELSE 0

\* The transport delivers len bytes.
RecvRec(len) ==
  /\ recvrec_open(rc)
  /\ \E hdr \in HeadersFor(rc, len), plain \in PlainsFor(rc, len) :
       /\ rc' = recvrec_ack(rc, len, hdr, plain)
       /\ unread' = unread + Received(rc, len, plain)
  /\ UNCHANGED held

\* len payload bytes are read.
RecvPld(len) ==
  /\ recvpld_open(rc)
  /\ rc' = recvpld_ack(rc, len)
  /\ unread' = unread - len
  /\ UNCHANGED held

\* The handshake processor reads the end of a close_notify alert.
RecvCloseNotify(len) ==
  /\ recvpld_open(rc)
  /\ rc.record_type_in = "alert"
  /\ rc' = recvpld_ack([rc EXCEPT !.shutdown_recv = TRUE], len)
  /\ unread' = unread - len
  /\ UNCHANGED held

\* The handshake processor reads ChangeCipherSpec: the one byte must be the
\* whole record.
SwitchIn(c) ==
  /\ recvpld_open(rc)
  /\ rc.record_type_in = "ccs"
  /\ rc' = IF recvpld_len(rc) # 1 \/ ~br_ssl_engine_recvrec_finished(rc)
           THEN br_ssl_engine_fail(rc, "bad_ccs")
           ELSE recvpld_ack([rc EXCEPT !.in = c], 1)
  /\ unread' = unread - 1
  /\ UNCHANGED held

-----------------------------------------------------------------------------
\* len payload bytes are written.
SendPld(len, app) ==
  /\ sendpld_open(rc)
  /\ rc' = sendpld_ack(rc, len, app)
  /\ held' = IF rc.oxa + len >= rc.oxb
             THEN held + len - (rc.oxa + len - rc.oxc) ELSE held + len
  /\ UNCHANGED unread

\* br_ssl_engine_flush, or the flush of the handshake processor.
Flush(force, app) ==
  /\ ~failed(rc)
  /\ rc' = sendpld_flush(rc, force, app)
  /\ held' = IF Seals(rc, force) THEN held - (rc.oxa - rc.oxc) ELSE held
  /\ UNCHANGED unread

\* The transport takes len bytes.
SendRec(len) ==
  /\ sendrec_open(rc)
  /\ rc' = sendrec_ack(rc, len)
  /\ UNCHANGED <<held, unread>>

\* The handshake processor waits until nothing is buffered, writes the
\* one-byte ChangeCipherSpec record, flushes it, and switches.
SwitchOut(c) ==
  /\ sendpld_open(rc)
  /\ ~has_pld_to_send(rc)
  /\ LET ccs == sendpld_ack(rc, 1, FALSE)
         sealed == IF has_pld_to_send(ccs)
                   THEN sendpld_flush(ccs, FALSE, FALSE) ELSE ccs
     IN  rc' = [sealed EXCEPT !.out = c]
  /\ UNCHANGED <<held, unread>>

\* A fragment length is negotiated.
NewMaxFragLen(len) ==
  /\ ~failed(rc)
  /\ rc' = br_ssl_engine_new_max_frag_len(rc, len)
  /\ UNCHANGED <<held, unread>>

\* A fatal error, or the end of the closure, is declared from above.
Fail(e) ==
  /\ ~failed(rc)
  /\ rc' = br_ssl_engine_fail(rc, e)
  /\ UNCHANGED <<held, unread>>

-----------------------------------------------------------------------------
SendStep == \E len \in 1..sendrec_len(rc) : SendRec(len)
FlushStep == \E app \in BOOLEAN : Flush(FALSE, app)

Next ==
  \/ \E len \in 1..recvrec_len(rc) : RecvRec(len)
  \/ \E len \in 1..recvpld_len(rc) : RecvPld(len) \/ RecvCloseNotify(len)
  \/ \E c \in Ciphers : SwitchIn(c) \/ SwitchOut(c)
  \/ \E len \in 1..sendpld_len(rc), app \in BOOLEAN : SendPld(len, app)
  \/ \E force \in Forces, app \in BOOLEAN : Flush(force, app)
  \/ SendStep
  \/ \E len \in FragLens : NewMaxFragLen(len)
  \/ \E e \in {"ok", "unexpected"} : Fail(e)

Spec == Init /\ [][Next]_vars

\* A caller that has written flushes (wm_tls_write does after every copy),
\* and the transport takes the bytes of a record.
FairSpec == Spec /\ WF_vars(SendStep) /\ WF_vars(FlushStep)

-----------------------------------------------------------------------------
(* Properties.                                                             *)

TypeOK ==
  /\ rc \in Registers
  /\ held \in Nat
  /\ unread \in Nat

\* Where the registers stand, direction by direction.
InHeader(r) == r.ixa = r.ixb /\ r.ixa < HeaderLen /\ r.ixc = HeaderLen - r.ixa
InBody(r) ==
  /\ r.ixa = r.ixb /\ r.ixa >= HeaderLen /\ r.ixc > 0
  /\ IF incrypt(r)
     THEN /\ r.ixa + r.ixc <= IBufLen
          /\ check_length(r.in, r.ixa + r.ixc - HeaderLen)
     ELSE r.ixa = HeaderLen
InPayload(r) ==
  /\ HeaderLen <= r.ixa /\ r.ixa < r.ixb /\ r.ixb <= IBufLen
  /\ incrypt(r) => r.ixc = 0

OutGather(r) ==
  /\ r.oxc = HeaderLen + Lead(r.out) /\ r.oxc <= r.oxa /\ r.oxa < r.oxb
  /\ r.oxb - r.oxc <= PlainRoom(r.out)
OutRecord(r) == r.oxa = r.oxb /\ r.oxa < r.oxc /\ r.oxc <= OBufLen

\* The registers never leave these positions: what recvrec_ack and
\* recvpld_ack store or hand out lies within ibuf, a record that is accepted
\* fits, and payload is gathered where the current encryption mode needs it,
\* across chunks, mode switches and negotiated lengths
\* (ssl_engine.c recvrec_ack, recvpld_ack, sendpld_ack, make_ready_out).
RegistersConsistent ==
  ~failed(rc) =>
    /\ InHeader(rc) \/ InBody(rc) \/ InPayload(rc)
    /\ OutGather(rc) \/ OutRecord(rc)

\* Sealing the gathered payload now, or after any further bytes that
\* sendpld_buf still offers, yields a record that starts and ends within
\* obuf: encrypt() writes header, IV, tag and padding around the payload
\* without a bound of its own (sendpld_flush and the encrypt methods).
SealStaysInside ==
  (~failed(rc) /\ rc.oxa # rc.oxb) =>
    \A xlen \in 0..(rc.oxb - rc.oxc), app \in BOOLEAN :
      /\ EncryptStart(rc.out, app, rc.oxc, xlen) >= 0
      /\ EncryptEnd(rc.out, app, rc.oxc, xlen) <= OBufLen

\* "We cannot get stuck here (buffer is full, but still more data is
\* expected)": a direction that the mode allows always offers a non-empty
\* buffer to somebody (recvrec_buf, recvpld_buf, sendpld_buf, sendrec_buf).
NeverStuck ==
  /\ (CanIn(rc) /\ ~rc.shutdown_recv) =>
       recvpld_open(rc) \/ (recvrec_open(rc) /\ recvrec_len(rc) > 0)
  /\ CanOut(rc) => sendpld_open(rc) \/ sendrec_open(rc)

\* Every payload byte that was accepted is either in a sealed record or still
\* gathered, and every payload byte that was received is either read or still
\* available: chunked reads of clear records, empty records, mode switches
\* and full buffers neither lose nor repeat one.
PayloadConserved ==
  ~failed(rc) =>
    /\ held = IF has_pld_to_send(rc) THEN rc.oxa - rc.oxc ELSE 0
    /\ unread = rc.ixb - rc.ixa

InBusy(r) == ~(r.ixa = 0 /\ r.ixb = 0)
OutBusy(r) == r.oxa # r.oxc

\* bearssl_ssl.h:1786-1789: in half-duplex mode the engine is not able to
\* send data while there is unprocessed incoming data in the buffer, nor to
\* receive data while there is unsent data in the buffer. Once neither is the
\* case, both directions are open again.
HalfDuplex ==
  (Shared /\ ~failed(rc)) =>
    /\ InBusy(rc) => ~sendpld_open(rc) /\ ~sendrec_open(rc)
    /\ OutBusy(rc) => ~recvrec_open(rc) /\ ~recvpld_open(rc)
    /\ ~InBusy(rc) /\ ~OutBusy(rc) => rc.iomode = "inout"

\* bearssl_ssl.h:1998-2001: an output buffer either accumulates plaintext or
\* contains an assembled record that is being sent, an input buffer either
\* receives a record or holds payload.
StatesExclusive ==
  /\ ~(sendrec_open(rc) /\ sendpld_open(rc))
  /\ ~(recvrec_open(rc) /\ recvpld_open(rc))

\* Payload that was accepted is on its way out eventually, and the record
\* that carries it is eventually gone, unless the engine fails first.
OutputDrains == OutBusy(rc) ~> (~OutBusy(rc) \/ failed(rc))

InSlot(r) ==
  IF r.ixa # r.ixb THEN "payload" ELSE IF r.ixa = 0 THEN "idle" ELSE "partial"
OutSlot(r) ==
  IF r.oxa = r.oxc THEN "idle" ELSE IF r.oxa # r.oxb THEN "payload" ELSE "record"

Slots == INSTANCE RecordSlots WITH
  HalfDuplex <- Shared,
  inSlot <- InSlot(rc), outSlot <- OutSlot(rc), dead <- failed(rc)

\* Each direction is a slot for one record, as RecordSlots promises: the code
\* above the record layer may ignore lengths, ciphers and chunks.

SlotsRefined == Slots!SlotsSpec

=============================================================================
