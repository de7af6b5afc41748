----------------------------- MODULE RecordLayer -----------------------------
(***************************************************************************)
(* The I/O registers of br_ssl_engine_context and the low-level functions  *)
(* of bearssl/src/ssl/ssl_engine.c that move them. Every operator takes    *)
(* the register record rc and returns its new value, as the C functions    *)
(* update *rc; the specifications of the engine compose them in the order  *)
(* in which the code calls them.                                           *)
(*                                                                         *)
(* Input registers: a new record starts with ixa = ixb = 0. While          *)
(* ixa = ixb, bytes are expected from the transport (ixc of them); when    *)
(* ixa # ixb, the bytes from ixa to ixb - 1 are payload to be read.        *)
(*                                                                         *)
(* Output registers: while payload is gathered it is written at oxa,       *)
(* between oxc (its start) and oxb (its limit). Once a record is           *)
(* assembled, oxa = oxb and the bytes from oxa to oxc - 1 are to be sent.  *)
(***************************************************************************)
EXTENDS RecordCipher

CONSTANTS
  IBufLen, OBufLen,  \* buffer lengths, in bytes
  Shared,            \* TRUE when ibuf = obuf: half-duplex
  Ciphers,           \* encryption modes a handshake may switch to
  Versions,          \* protocol versions 3.x that headers may carry
  FragLens           \* fragment lengths the peers may negotiate

\* Room for a header and an empty record in, and for one byte of plaintext
\* out, whatever the cipher. br_ssl_engine_set_buffers_bidi enforces 512
\* bytes of plaintext plus MAX_IN_OVERHEAD and MAX_OUT_OVERHEAD.
ASSUME BufferAssumption ==
  /\ Shared \in BOOLEAN
  /\ IBufLen \in Nat /\ OBufLen \in Nat /\ IBufLen > HeaderLen
  /\ Shared => IBufLen = OBufLen
  /\ Ciphers \subseteq Cipher /\ Clear \notin Ciphers
  /\ \A c \in Ciphers \cup {Clear} :
       max_plaintext(c, OBufLen - HeaderLen - HeaderLen) > 0

ASSUME ParameterAssumption ==
  /\ Versions \subseteq Nat \ {0}
  /\ FragLens \subseteq Nat \ {0} /\ FragLens # {}

RecordTypes == {"ccs", "alert", "handshake", "app"}

\* Direction in which the buffers may be used: br_ssl_engine_context.iomode.
IoModes == {"inout", "in", "out", "failed"}

Errors == {"ok", "unsupported_version", "bad_version", "bad_length",
           "too_large", "bad_mac", "unexpected", "bad_ccs"}

Registers ==
  [iomode : IoModes, err : Errors,
   in : Ciphers \cup {Clear},        \* incrypt and in.vtable
   out : Ciphers \cup {Clear},       \* out.vtable
   record_type_in : RecordTypes,
   version_in : Versions \cup {0},
   shutdown_recv : BOOLEAN,
   max_frag_len : FragLens,
   ixa : Nat, ixb : Nat, ixc : Nat, oxa : Nat, oxb : Nat, oxc : Nat]

incrypt(rc) == rc.in # Clear
failed(rc) == rc.iomode = "failed"
CanIn(rc) == rc.iomode \in {"in", "inout"}

CanOut(rc) == rc.iomode \in {"out", "inout"}

\* The first error is the one that is kept.
br_ssl_engine_fail(rc, e) ==
  IF failed(rc) THEN rc ELSE [rc EXCEPT !.iomode = "failed", !.err = e]

-----------------------------------------------------------------------------
make_ready_in(rc) ==
  [rc EXCEPT !.ixa = 0, !.ixb = 0, !.ixc = HeaderLen,
             !.iomode = IF @ = "in" THEN "inout" ELSE @]

\* The most plaintext one record may gather. make_ready_out calls
\* max_plaintext with *start = 5 and *end = obuf_len - 5.
PlainRoom(c) == max_plaintext(c, OBufLen - HeaderLen - HeaderLen)

make_ready_out(rc) ==
  LET a   == HeaderLen + Lead(rc.out)
      len == PlainRoom(rc.out)
  IN  [rc EXCEPT !.oxa = a, !.oxb = a + Smaller(len, rc.max_frag_len),
                 !.oxc = a, !.iomode = IF @ = "out" THEN "inout" ELSE @]

\* A new fragment length applies to the record being gathered only when what
\* it holds already is strictly below the new limit.
br_ssl_engine_new_max_frag_len(rc, len) ==
  LET nxb == rc.oxc + len
      cut == rc.oxa < rc.oxb /\ rc.oxb > nxb /\ rc.oxa < nxb
  IN  [rc EXCEPT !.max_frag_len = len, !.oxb = IF cut THEN nxb ELSE @]

-----------------------------------------------------------------------------
(* Bytes from the transport.                                               *)

recvrec_open(rc) == ~rc.shutdown_recv /\ CanIn(rc) /\ rc.ixa = rc.ixb

\* Mutant: the whole buffer is offered.
recvrec_len_greedy(rc) == IBufLen - rc.ixa

\* Number of bytes that may be injected: never beyond the buffer.
recvrec_len(rc) == Smaller(rc.ixc, IBufLen - rc.ixa)

LengthAllowed(rc, rlen) ==
  IF incrypt(rc) THEN check_length(rc.in, rlen) ELSE rlen <= MaxPlain

\* Mutant: the size of the buffer is not looked at.
FitsBuffer_unchecked(rc, rlen) == TRUE

\* Only an encrypted record must fit: a clear one is read by chunks.
FitsBuffer(rc, rlen) == incrypt(rc) => rlen <= IBufLen - HeaderLen

\* What is wrong with a header, checked in this order. Version 0 stands for
\* a version that is not 3.x.
HeaderError(rc, hdr) ==
  IF hdr.version = 0 THEN "unsupported_version"
  ELSE IF rc.version_in \notin {0, hdr.version} THEN "bad_version"
  ELSE IF ~LengthAllowed(rc, hdr.rlen) THEN "bad_length"
  ELSE IF ~FitsBuffer(rc, hdr.rlen) THEN "too_large"
  ELSE "ok"

\* A complete header: hdr is its decoded contents.
ReadHeader(rc, hdr) ==
  LET e == HeaderError(rc, hdr)
      known == [rc EXCEPT
        !.record_type_in = hdr.type,
        !.version_in = IF e \in {"unsupported_version", "bad_version"} THEN @
                       ELSE hdr.version]
  IN  IF e # "ok" THEN br_ssl_engine_fail(known, e)
      ELSE IF hdr.rlen = 0 THEN make_ready_in(known)
      ELSE [known EXCEPT !.ixa = HeaderLen, !.ixb = HeaderLen,
                         !.ixc = hdr.rlen]

\* A complete encrypted record: plain is the length of its plaintext, or -1
\* when the MAC or the padding is wrong.
DecryptRecord(rc, plain) ==
  LET a == DecryptStart(rc.in)
  IN  IF plain = -1 THEN br_ssl_engine_fail(rc, "bad_mac")
      ELSE IF plain = 0 THEN make_ready_in(rc)
      ELSE [rc EXCEPT !.ixa = a, !.ixb = a + plain]

recvrec_ack(rc, len, hdr, plain) ==
  LET fed == [rc EXCEPT !.ixa = @ + len, !.ixb = rc.ixa + len, !.ixc = @ - len,
                        !.iomode = IF @ = "inout" /\ Shared THEN "in" ELSE @]
  IN  IF fed.ixa < HeaderLen THEN fed
      ELSE IF fed.ixa = HeaderLen THEN ReadHeader(fed, hdr)
      ELSE IF ~incrypt(rc) THEN [fed EXCEPT !.ixa = HeaderLen]
      ELSE IF fed.ixc # 0 THEN fed
      ELSE DecryptRecord(fed, plain)

\* Mutant: what is still to come is ignored.
br_ssl_engine_recvrec_finished_always(rc) == TRUE

\* Whether the current record has been entirely received.
br_ssl_engine_recvrec_finished(rc) ==
  CanIn(rc) => (rc.ixc = 0 \/ rc.ixa < HeaderLen)

-----------------------------------------------------------------------------
(* Payload to the application or to the handshake processor.               *)

recvpld_open(rc) == CanIn(rc) /\ rc.ixa # rc.ixb
recvpld_len(rc) == rc.ixb - rc.ixa

\* Mutant: any acknowledgement ends the chunk.
recvpld_ack_whole(rc, len) ==
  IF rc.ixc = 0 THEN make_ready_in(rc)
  ELSE [rc EXCEPT !.ixa = HeaderLen, !.ixb = HeaderLen]

recvpld_ack(rc, len) ==
  LET read == [rc EXCEPT !.ixa = @ + len]
  IN  IF read.ixa # read.ixb THEN read
      ELSE IF rc.ixc = 0 THEN make_ready_in(read)
      ELSE [read EXCEPT !.ixa = HeaderLen, !.ixb = HeaderLen]

-----------------------------------------------------------------------------
(* Payload from the application or from the handshake processor.           *)

sendpld_open(rc) == CanOut(rc) /\ rc.oxa # rc.oxb
sendpld_len(rc) == rc.oxb - rc.oxa

\* Payload gathered and not yet wrapped: br_ssl_engine_has_pld_to_send.
has_pld_to_send(rc) == rc.oxa # rc.oxb /\ rc.oxa # rc.oxc

\* Mutant: gathered payload alone does not make a record.
Seals_forced_only(rc, force) == rc.oxa # rc.oxb /\ force

\* Whether sendpld_flush assembles a record. It does not look at iomode.
Seals(rc, force) == rc.oxa # rc.oxb /\ (rc.oxa # rc.oxc \/ force)

sendpld_flush(rc, force, app) ==
  LET xlen == rc.oxa - rc.oxc
      buf  == EncryptStart(rc.out, app, rc.oxc, xlen)
  IN  IF ~Seals(rc, force) THEN rc
      ELSE [rc EXCEPT !.oxa = buf, !.oxb = buf,
                      !.oxc = EncryptEnd(rc.out, app, rc.oxc, xlen)]

\* Mutant: a shared buffer stays open in both directions.
GatherPayload_duplex(rc, len) ==
  [rc EXCEPT !.oxa = @ + len,
             !.oxb = IF rc.oxa + len >= @ THEN rc.oxa + len + 1 ELSE @]

\* A full buffer is flushed at once; oxb is moved past oxa so that it does
\* not look like an assembled record.
GatherPayload(rc, len) ==
  [rc EXCEPT !.oxa = @ + len,
             !.oxb = IF rc.oxa + len >= @ THEN rc.oxa + len + 1 ELSE @,
             !.iomode = IF @ = "inout" /\ Shared THEN "out" ELSE @]

sendpld_ack(rc, len, app) ==
  LET full == rc.oxa + len >= rc.oxb
  IN  IF full THEN sendpld_flush(GatherPayload(rc, len), FALSE, app)
      ELSE GatherPayload(rc, len)

-----------------------------------------------------------------------------
(* Bytes to the transport.                                                 *)

sendrec_open(rc) == CanOut(rc) /\ rc.oxc > rc.oxa
sendrec_len(rc) == rc.oxc - rc.oxa

sendrec_ack(rc, len) ==
  LET sent == [rc EXCEPT !.oxa = @ + len, !.oxb = rc.oxa + len]
  IN  IF sent.oxa = sent.oxc THEN make_ready_out(sent) ELSE sent

-----------------------------------------------------------------------------
\* The registers after br_ssl_engine_set_buffers_bidi and hs_reset: no
\* encryption, both directions ready.
InitRegisters(len) ==
  make_ready_out(make_ready_in(
    [iomode |-> "inout", err |-> "ok", in |-> Clear, out |-> Clear,
     record_type_in |-> "handshake", version_in |-> 0,
     shutdown_recv |-> FALSE, max_frag_len |-> len,
     ixa |-> 0, ixb |-> 0, ixc |-> 0, oxa |-> 0, oxb |-> 0, oxc |-> 0]))

=============================================================================
