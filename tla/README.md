# BearTLS in TLA+

TLA+ specifications, model-checking configurations and machine-checked proofs
for BearTLS: `wm_https.dll`, a TLS 1.2 client library for Windows CE, which is a
thin layer (`BearTLS/wm_https.c`, `BearTLS/wm_cert_store.c`) over a vendored
BearSSL (`BearTLS/bearssl/`). Paths below are relative to the repository.

## 1. The system

| Part | State | Operations | Uses |
|---|---|---|---|
| Record layer (`bearssl/src/ssl/ssl_engine.c` 286-956, `ssl_rec_*.c`) | registers `ixa ixb ixc oxa oxb oxc`, `iomode`, ciphers, `max_frag_len` | `recvrec_* recvpld_* sendpld_* sendrec_*`, `make_ready_*`, cipher switches | buffers, record ciphers |
| Engine (`ssl_engine.c` 1035-1310) | `application_data`, `record_type_in/out`, `shutdown_recv`, `reneg`, `alert`, handshake buffers | `br_ssl_engine_{sendapp,recvapp,sendrec,recvrec}_{buf,ack}`, `flush`, `close`, `renegotiate`, `current_state` | record layer; jumps into the handshake processor |
| Client handshake processor (`ssl_hs_client.t0`, `ssl_hs_common.t0`) | a T0 coroutine: its program point, `cnr`, resumption flag | `do-handshake`, `main`, `wait-co`, `process-alerts`, `do-close` | reads and writes payload through the engine |
| Streaming API (`wm_https.c` 283-607) | `wm_tls_connection`: engine, socket, `closed` | `wm_tls_open/write/read/close`, `wm_tls_drive_records` | engine, blocking sockets, certificate store |
| HTTP and text exchange (`wm_https.c` 609-900) | request and response buffers | `wm_https_request`, `wm_https_get`, `wm_tls_exchange` | streaming API |
| Certificate store (`wm_cert_store.c` 839-1361) | process-wide array of trust anchors, `g_cert_store_initialized` | `init`, `anchors`, `anchor_count` | files, registry |
| Session cache (`ssl_lru.c`) | entries, tree and list of sessions in one byte array | `save`, `load`, `forget` | only servers use it |
| X.509 validation (`x509_minimal.*`) | a context and a T0 coroutine, one chain after another | `start_chain` .. `end_chain`, `get_pkey` | called by the handshake processor |
| `br_sslio` (`ssl_io.c`) | pointers to callbacks | `read write flush close` | engine; the DLL does not use it |
| Hash functions and what is made of them (`hash/`, `mac/`, `kdf/`, `ssl/prf*.c`) | contexts with a block begun | `init update out state`, HMAC, HKDF, PRF, MGF1 | each other |
| AEAD modes (`aead/`) | contexts with a block begun and, in EAX, saved states | `reset aad_inject flip run get_tag` | block ciphers |
| Big integers (`int/i31_*.c`) | arrays of words under a header | arithmetic modulo m, powers, division | |
| RSA (`rsa/`) | none; keys are the caller's | key generation, public and private operation, paddings | big integers, hash functions |
| Elliptic curves, ECDSA (`ec/`) | none | points, multiples, signatures | big integers |
| Hashcash and PBKDF2 (`wm_https.c`) | none | `wm_hashcash_solve`, `wm_pbkdf2_sha512_b64salt` | hash functions |
| CAB installer (`BearTLS_CAB/`) | registry values | `Install_Exit`, `Uninstall_Exit` | |

How they interact. `wm_tls_*` calls run in the caller's thread: they ask the
engine for its state, copy bytes between the engine's buffers and the socket or
the application, and acknowledge. An acknowledgement may *jump* into the
handshake processor, a coroutine that runs until it needs input or room and then
yields. The processor is shown the payload of the record being read and the
space for payload of the record being gathered; both are snapshots, and what it
used is acknowledged when it yields. There is no other concurrency inside one
connection: the hard behaviour is the *order* of calls and of records, which the
peer, the network and the application choose, against registers that encode
several phases in a few offsets. Between connections the only shared state is the
certificate store.

What is hard, and what makes each part correct:

* Record layer: bytes come and go in any pieces, encryption changes between
  records, one buffer may serve both directions. Correct: no byte lost, none
  outside the buffer, directions never overlap, no dead end.
* Engine and processor: closures, renegotiations, alerts and data cross each
  other. Correct: the application's stream is kept, record types are never
  confused, no data inside a handshake, nothing after close_notify, a clean end
  only when both sides closed, no wait that nobody ends.
* Streaming API: the socket fails or ends anywhere. Correct: nothing is held back
  while waiting, nothing accepted is lost by a close, return values tell the
  truth, loops end, a response that counts is whole.
* Certificate store: a file is read twice, in between anything may happen to it.
  Correct: no anchor is blank, none is lost.
* Session cache: two linked structures share one array. Correct: it answers as a
  cache that evicts the least recently used session.
* X.509: a chain is read once, in pieces, without looking ahead, by a context that
  keeps what earlier chains left. Correct: what is accepted is valid as a whole,
  what is refused has the defect it is refused for.
* Contexts of hash functions and AEAD modes: data comes in any pieces. Correct: the
  pieces do not show in the result.
* Numbers, keys, curves: estimates that are corrected, carries out of the top word,
  exceptional points, values at the edge. Correct: the textbook definition.

`PROJECT.json` lists every hazard with its line in the code.

## 2. Modules

```
RecordCipher <- RecordLayer <- RecordBuffers <- MCRecordBuffers
                                    |      \---- RecordProofs (TLAPS)
                                    | implements
                               RecordSlots
EngineState <- HsClient <- TlsEngine <- MCTlsEngine
                    |          \---- EngineProofs (TLAPS) -----------\
                    |----- TlsConnection <- TextExchange <- MCTlsConnection
                    |                           \---- ConnectionProofs (TLAPS)
                    |----- SslIo <- MCSslIo                            |
                    |        \---- SslIoProofs (TLAPS) ----------------|
                    \---- HsClientProofs (TLAPS), used by these three -/
CertStore <- MCCertStore
     |-------------------- TrustProofs (TLAPS)
SessionLru --implements--> AbstractLru
     |
X509Minimal <- MCX509
HashStream <- KeyDerivation <- HashServices --\
                         \---- RsaPadding -----|
AeadStream <- AeadServices --------------------|
BigInt <- Modular <- ModDiv <- ArithServices --|-- CryptoServices <- MCCryptoServices
      \------------- RsaKeys ------------------|         \---- ServiceProofs <- SealProofs (TLAPS)
NumberTheory <--/                              |
           \-------- EcPrime <- Ecdsa ---------/
```

**RecordCipher** is the length arithmetic of the record formats. A format is a
record `[iv, tag, blk, split]`: explicit IV or nonce, tag or MAC, CBC block size,
and the 1/n-1 split of TLS 1.0. `max_plaintext`, `EncryptStart`, `EncryptEnd`,
`check_length`, `DecryptLens` translate the methods of the five classes; each was
compared with the code class by class.

**RecordLayer** has one operator for each low-level function of `ssl_engine.c`,
from registers to registers, with the code's names.

**RecordBuffers** is the state machine over them: variable `rc` (the registers)
and two history counters, `held` (payload gathered and not sealed) and `unread`.
`RecvRec`, `RecvPld`, `SendPld`, `Flush`, `SendRec` are the calls; `SwitchIn`,
`SwitchOut`, `RecvCloseNotify`, `NewMaxFragLen`, `Fail` are what the handshake
processor does to the registers.

**RecordSlots** is the abstract promise: each direction is one slot that is
idle, partial, holds payload or holds a record, and in half-duplex mode only one
slot is in use. RecordBuffers implements it (`SlotsRefined`). This is what allows
the engine to be modelled without offsets: `inbuf`, `outbuf` and `outrec` of
EngineState are these slots.

**EngineState** holds the engine above the record layer as a record `e` and the
payload functions on it; **HsClient** the handshake processor. `e.pc` names the T0
word that continues; `HsStep` is one step between two points where it may yield.
A message is one unit of payload: the server's flight from Certificate to
ServerHelloDone is one unit, resumption, servers without secure renegotiation
and HelloRequest are told apart. Alerts keep their bytes, for they may be split.

**TlsEngine** closes the system with a peer that sends any record at any time and
an application that makes any call the state allows.

**TlsConnection** puts the same engine under `wm_tls_*`: variable `call` is the
call in progress and its place in its loop, `conn.closed` the field of that
name, `net` the socket. A `send()` or `recv()` is one step with every outcome it
may have: a record or a part of it, the end of the stream, an error. The
initial state is after `connect()` and `br_ssl_client_reset`.

**TextExchange** is `wm_tls_exchange` over these calls: variable `x` says where it is.
It opens, writes, reads until its buffer is full or the stream ends, and closes; each
failure takes it to `GiveUp`. The field `came` is a history, the units of data the
records brought in, against which the length of the response is compared. Behaviours
where the application makes the calls by itself are in the same specification.

**SslIo** is `ssl_io.c` over the same engine: the head of `run_until` with its five
branches is one action, each callback another one with its outcomes (bytes, an error
that stays, part of a record), and `br_sslio_*` what its caller does with the result.

**CertStore** stands beside these: `wm_cert_store_init`, called by `wm_tls_open`. A
file is a sequence of blocks, one for each BEGIN marker; a block without END runs on
into the next, and what it then decodes to is open. `store` holds the globals,
`call` the locals: `CountRoots` is the first reading, `Alloc` sizes the array, `Reopen`
is the second reading, `LoadBlock` and `AddBuiltin` are one turn of their loops, and
`ReplaceFile` is another program that installs a new `roots.pem`. A certificate is
only where it comes from; the set `Decodable` says which of the compiled-in ones
`wm_build_anchor_from_der` takes.

**SessionLru** is `ssl_lru.c` on its array: `link` holds every place where the address of
a tree node can be (the root, left and right of each entry), `prev` and `next` the list.
`find_node`, `remove_node` and the three calls follow the code; `PushHead` and `Unlink` are
the writes to the list that it makes in place.
Identifiers are compared after an injection that disturbs their order, which stands for
the masking with HMAC. **AbstractLru** is the promise: a sequence of sessions in order of
use. The call itself, with its identifier and value, is kept beside its answer, so that the
refinement ties each answer to the identifier that was asked for. A forgotten session keeps
its place until it is the oldest, as in the code, and its identifier is not saved again before.

**X509Minimal** has one action for each method of the class, and one for each field of a
certificate that `append` brings (`Issuer` to `Signature`): the T0 program
`decode-certificate` goes from one field it needs to the next, `ctx.at` says where. A name is the value it hashes to; a signature is the key
that made it, since this decides under which keys it verifies; an extension is what it
says, in any order. `chain` is a history of what was delivered, from which the
properties say what a valid chain is.

**HashStream** gives a hash context its buffer, count and state, where the round function
is free of collisions: a state *is* the sequence of blocks that went in, and a byte is a
tuple that says what it is. Two digests are equal exactly when the same blocks went in.
HMAC, HMAC in constant time and multihash are on it, **KeyDerivation** has HKDF, the PRF of
TLS and MGF1, and **HashServices** uses all of them as *jobs* (below), with PBKDF2 and the
search of hashcash turn by turn.

**AeadStream** has GCM, CCM and EAX: a byte is the set of values it is the exclusive or
of, so that decryption undoes encryption, and a MAC is the sequence of blocks it took.
**AeadServices** feeds them in any pieces.

**BigInt**, **Modular** and **ModDiv** are `int/i31_*.c` word by word, headers, masks and
carries included, with the length of a word as a parameter. **ArithServices** takes a
number through operations in any order, next to the integer it should stand for, and
runs powers and divisions turn by turn.

**NumberTheory** has what numbers modulo m are by definition. **RsaKeys** uses it to say what
`rsa_i31_*.c` does with keys, bytes and lengths: candidates for a prime, the tests, the
retries, the operations, and `compute_privexp` again word by word. **RsaPadding** has
the paddings of PKCS#1, OAEP and the TLS key exchange, as written, changed on the way
and taken off.

**EcPrime** has the formulas of `ec_prime_i31.c` as the instructions they are, the
interpreter `run_code`, and the ladder one window to a step. **Ecdsa** has keys,
signatures, verification and the two encodings.

These run in **CryptoServices**, where a behaviour is one *job* (`ServiceJob`): one use of a
function or a context, from its inputs to its result. The functions share no state, so
that nothing is gained by running two jobs at once.

A definition named `X_something` before `X` is a mutant: the same operation with
a plausible mistake, kept to show that the property it belongs to would catch it.

## 3. Runs

The configurations say `CHECK_DEADLOCK FALSE` except for `lru` and `x509`: a failed engine,
a freed connection, a filled store and a job that is done really stop.

| Run | Question | Answer |
|---|---|---|
| `record_bidi` | Are the registers right with two buffers, for every format, byte by byte? Does what is flushed leave? | holds |
| `record_shared` | Is one buffer really half-duplex when flushes are not forced? Are there dead ends? | holds |
| `engine_bidi` | Do all engine properties hold for callers that flush what they write, as `wm_tls_write` does? | holds |
| `connection` | Do the calls of the streaming API, and an exchange made of them, tell the truth, send what they accepted, and end? | holds, while nothing follows a HelloRequest or a Finished in its record |
| `read_without_result` | ... for callers that pass no `wm_https_result`? | no: a TLS failure reads as the end of the stream |
| `sslio` | Are the streams kept over one shared buffer, and does a flush flush, with callbacks that fail? Does a close end when the peer answers it or the transport fails? | holds, except in the two states that `sslio_close` is about |
| `sslio_close` | Does `br_sslio_close` always return, as the header says? | no: not when the peer is gone, nor when data was left unread |
| `cert_store` | Is every trust anchor filled, and none lost, whatever the file? | holds, while the file keeps to its count |
| `lru` | Is the array with tree and list a cache that evicts the least recently used? | holds |
| `x509` | Is what is accepted valid, what is refused defective, and does a verdict stand, for chains one after the other? | holds |
| `crypto` | Do contexts, numbers, keys and curves give what their definitions say, for any pieces and at every edge? | holds |
| `eax_pieces` | ... for any pieces of additional data in EAX? | no: a block begun by one call and ended by a longer piece is lost |

`read_without_result` is in the DLL's own code, the other two are in BearSSL; the DLL uses
neither `br_sslio` nor EAX.

### Bounds

* `record_*`: buffers of a few dozen bytes and a record limit (`MaxPlain`) of a few
  bytes; CBC blocks of 4 bytes stand for 8 and 16. Every phase, every exact
  fit and every overflow by one occurs; the proofs below remove the bounds.
* `engine_bidi`: at most three units of application data (`MaxWrites`), two units in a
  record (`OutRoom`); input is unbounded in number, one record at a time out of all
  single messages and some joined ones. Three units let one be sent, one be sealed
  and one be gathered at the same time.
* `connection`: three units, one per record, calls to write of one or two units, any
  number of reads; an exchange has a request of up to three units and a buffer of two or
  four, so that a response may be shorter, as long and longer. The
  server's flight comes one message in each record or all in one; nothing comes behind a
  HelloRequest or a Finished in the same record, which is `ApartFromNext`, the condition of
  `NeverSpins`.
* `sslio*`: `MaxWrites` and `MaxReads` units written and read, calls of one or three,
  which begin and go beyond a record of two (`OutRoom`); one handshake message to a record.
* `cert_store`: files of up to three blocks (`MaxBlocks`), of which two are counted
  (`MaxExternal`), two certificates compiled in, one of which does not decode. So a file
  may be shorter, as long as, and longer than the count, and the theorems remove these
  bounds.
* `lru`: four identifiers for three places: a tree of three nodes has every shape, a
  removal meets a node with none, one and two children, and an eviction any of them. The
  run is exhaustive. States that differ only in what the last call was are one
  (`VIEW LruView`): no call and no property reads what the call before was.
* `x509`: three certificates in all chains together (`MaxCerts`), up to two extensions in
  each (`MaxExts`), two names, three keys of two types, one of them too short, one anchor
  that is an authority and one that is a server. Three certificates give a chain with an
  intermediate authority, or a chain after another one; the theorems remove these bounds.
* `crypto`, hash functions: blocks of 4 and 8 bytes with counts of 2 and 4, digests of 2;
  keys shorter than, as long as and longer than a block; messages of up to `MaxMessage`
  bytes for HMAC in constant time, where the padding takes one block or two. HKDF has
  three chunks (`MaxChunks`) instead of 255, and calls that ask for up to `MaxAsked` bytes in
  all, which goes beyond the last chunk; the nonce of hashcash ends at `MaxNonce`, the clock
  wraps at `TickMod`, and a chunk, or the tail with the comparison, takes up to `MaxTicks`.
* `crypto`, AEAD: blocks of 4 bytes, up to 10 bytes (`MaxText`) of each kind in pieces of up to
  `MaxPiece`, so that a block is begun, continued, completed and passed in one call.
* `crypto`, numbers: words of 5 bits (`W`) with 6 in the machine instead of 31 in 32, bytes
  of 3 bits, numbers of up to three words. The moduli are full and nearly empty in their top
  word, with ends of 0 and of 1 everywhere, as estimates need them; windows of up to 3
  bits are those of a byte. `MaxOps` operations follow one another.
* `crypto`, RSA: exponents of 5 bits, factors of 7 and 8 bits, keys of 14 and 15 bits
  (`ExpBits`, `MaxFactor`, `MaxSize`): odd and even sizes, all candidates that the code can
  draw, primes or not, as two bases allow to pass some that are not. Padding has
  digests of two bytes and up to two bytes changed on the way (`MaxEdits`).
* `crypto`, curves: one of order 17 modulo 23, one of order 23 modulo 31, with a point
  whose x is 0 on the second; all points of both, all multipliers below the order and
  some beyond, pairs whose multiples are equal, opposite and neither; bytes of four bits
  (`OctetBits`), so that numbers take two bytes and lengths of ASN.1 reach 0x80. Each
  number of a signature is replaced by every other value.

Scaling these down leaves the algorithms as they are: no line of the code depends on the
value of a word length, a block length or a prime other than through the relations that
the named assumptions keep.

### Fairness

* `record_bidi`, `OutputDrains`: weak fairness of sending and of flushing: the
  transport takes bytes, and callers flush (`wm_tls_write` after every copy).
* `engine_bidi`, `CloseGoesOut`: weak fairness of `HsRun`, which is a running
  function; strong fairness of `SendRec`, since other calls may come in between, but
  both callers in the repository (`wm_tls_drive_records`, `run_until` in `ssl_io.c`)
  send whenever there is something to send before they do anything else.
* `connection`, `CloseReturns`: weak fairness of `InCall`, a step of a call in progress: the
  sequential code goes on, and `send()` and `recv()` return, with an error if nothing
  else. A peer that neither reads nor resets can block `send()` for as long as the
  system's socket lets it; that is outside. Which calls are made is left open.
* `sslio`, `CloseEnds`: weak fairness of `Step`, as above, and strong fairness of
  `PeerEnds`: a transport that is read again and again brings the close_notify of the peer,
  or fails, some time, for `br_sslio_close` reads on as long as the peer sends anything
  else. Which of the two is open, so there are behaviours in which no read ever fails and
  the close has to end by the answer, and behaviours in which no answer comes and it has to
  end by the failure. Two states are excepted. `Hidden`: data was left unread before the
  close, and keeps the answer out. `Unanswerable`: the peer closed and then writing failed,
  which does not fail the engine any more. In both the loop turns for ever, as `sslio_close`
  shows of `CloseReturns`; without either exception `CloseEnds` fails.

### What the runs taught that no run states

About the DLL:

* With a HelloRequest in the same record as a Finished, or two in one record, the
  processor yields with input left. No flag but SENDAPP is then set, and `wm_tls_read`
  turns in its loop for ever. `NeverSpins` therefore has the condition that the peer
  does not do this (`ApartFromNext`); without it, and with such records among those of the
  `connection` run, it fails, while the other properties of the run hold. A second message
  that waits while a renegotiation is being refused (`ssl_hs_client.t0` 1257) ends in the
  same place.
* `wm_tls_write` after a read has seen the end of the stream returns 1, and
  `wm_tls_close` then frees the connection without sending: `CloseSendsAll` counts
  what was accepted before (`hist.due`).
* A close_notify that is answered by `do-close` over a dead socket makes
  `wm_tls_read` return 0 although the peer closed in order.
* A `roots.pem` longer than the count, because it has more than 256 certificates or grew
  between the two readings, takes the places of the compiled-in certificates
  (`wm_cert_store.c` 1240), which `README.md` 196 says are always appended.
* A response buffer of one byte is left as it was (`wm_https.c` 736), and the headers of a
  request that do not fit into its buffer are cut without an error (625).

About BearSSL:

* `br_ssl_engine_flush(cc, 1)` does not look at `iomode`: over a shared buffer a forced flush
  overwrites what is being received (`HalfDuplex` fails with `Forces = {TRUE, FALSE}`).
* A caller that lets data gather (`FlushEarly = FALSE`) while a renegotiation begins can
  have it sent as a handshake record: `RecordsPure` fails.
* After a close with unread data the engine is in a state without any flag, which the
  header denies; while closing, data is discarded until any alert comes, not only
  a close_notify.
* `br_sslio_close` returns 1 on success and 0 on failure, `bearssl_ssl.h` says 0 and -1.
* After `br_hkdf_produce` has returned less than was asked for, the next call starts again
  with the first chunk, for the number of a chunk is one byte: the context gives more bytes
  than the limit that `bearssl_kdf.h` 167-169 states. The model makes such calls
  (`HkdfProduce`, with `MaxAsked` beyond the limit) and in it the total does exceed the limit;
  `DerivedKey` says what the bytes up to the limit are and that the call that reaches it
  stops there, and nothing of those behind it.
* The comment at `rsa_i31_keygen_inner.c` 329 says that candidates which are 1 modulo the
  public exponent are rejected; lines 343 to 345 compare the remainder modulo 5 with 5, 7
  and 11. Nothing follows but a retry: the exponent cannot be inverted.
* `rsa_oaep_pad.c` 60 removes zeros from the end of the modulus, not from its beginning: with
  zeros at the beginning, which `bearssl_rsa.h` allows, encryption returns 0.
* `bearssl_ec.h` 390-392 says that `muladd` reports an error when a multiplier is 0;
  `ec_prime_i31.c` then reports success with another point. Verification comes there with a
  hash that is 0 modulo the order, or r = 0; `CurvesAgree` leaves both out.
* The comment of `aesctr_drbg.c` names other bytes than its code, without effect.

## 4. Proofs

`RecordProofs` proves about `RecordBuffers`, for every value of the constants
that meets the named assumptions (`MaxPlainAssumption`, `BlockSizesAssumption`,
`BufferAssumption`, `ParameterAssumption`, `ForcesAssumption` where present: a buffer
holds a header and a byte of payload in every cipher, which `set_buffers_bidi`
enforces with far larger numbers):

| Theorem | Statement |
|---|---|
| `InvariantHolds` | `Spec => []IInv`, with `IInv == TypeOK /\ RegistersConsistent /\ PayloadConserved` |
| `TypeCorrect`, `RegistersStayConsistent`, `PayloadIsConserved` | its parts |
| `SealAlwaysInside` | every record sealed in a reachable state lies inside the buffer |
| `AlwaysUnstuck`, `StatesAlwaysExclusive` | no dead end; documented exclusions |
| `HalfDuplexKept` | `HalfDuplex`, when a shared buffer is not flushed by force |
| `SlotsAreImplemented` | `SlotsRefined`, under the same condition: the registers implement `RecordSlots` |

The argument. `TypeOK` alone is not inductive: lengths are differences of
offsets. `RegistersConsistent` says which phase the offsets encode for each
direction (header, body, payload; gathering, record) and how they lie in the
buffer, and with `PayloadConserved` (the counters equal the distances) it is.
There is one lemma per operation of `RecordLayer`, about registers only, and one
step per action of `Next` that cites it. Lemmas on `RecordCipher` say that padding
and whole blocks bound each other, so that what `max_plaintext` allows is what
`EncryptStart` and `EncryptEnd` need. `HalfDuplexKept` adds `ModeInv`: `iomode` says
which direction is in use. `SlotsAreImplemented` reads the phase of each direction off
the same offsets, as the refinement mapping does, and shows for every operation that
it moves the slots as an action of `RecordSlots` does, or leaves them alone.

`HsClientProofs` has no theorem of its own: it proves, call by call and T0 word by T0 word,
that the engine of `HsClient` stays `Fine(e, history)` whoever calls it, and that a
processor that stops is `Ready` to go on. The three modules that follow it state what this
means for the caller they are about.

`EngineProofs` proves about `TlsEngine`, for any records of the peer, any `OutRoom` and
`MaxWrites`, one buffer or two (`EngineAssumption` gives the constants their types):

| Theorem | Statement |
|---|---|
| `EngineInvariant` | `Spec => []IInv`: `Fine == Shape /\ Given /\ Floor /\ Stream /\ Pure /\ Notice /\ Shaking /\ Ended` of `e` and `hist` |
| `AppStreamAlwaysKept` | the application's stream is kept, whatever comes in between |
| `NeverInterrupted` | no data between ClientHello and Finished |
| `CloseNotifyAlwaysLast`, `EndsAreClean` | closures |
| `RecordsAlwaysPure` | types of records, if `FlushEarly` |

The argument. None of the properties is inductive, for what a step of the processor may
send depends on where it has come to and on what is still gathered. `Floor` relates the
program point to `application_data` and the type of records: the application has no
floor while a handshake or a closure runs. `Stream` says that the units which have not
left are those written last, and that they are all gathered, or all in one record, or none
is there and the processor has one message in a record of its own; this is why a step of
the processor that finds room finds no data in its way. `Shaking` and `Notice` say where
the processor is from ClientHello to Finished and after close_notify. `Given` says
that it is shown room only while it runs. The input side is left open: it decides which
step is taken, and each step alone keeps the invariant. One lemma per T0 word
and per call, most of which rest on a few about states that agree on the output side.

`ConnectionProofs` proves about `TextExchange`, and so about `TlsConnection`, for any records
and lengths, requests and buffers of any size, and a socket that may fail at any point:

| Theorem | Statement |
|---|---|
| `ConnectionInvariant` | `XSpec => [](CInv /\ XTyped)`, with `CInv == Typed /\ EngineOk /\ Calls /\ Finishes /\ Nets /\ Dues /\ Delivered` |
| `NothingWithheld`, `CloseDelivers` | nothing waits while the caller blocks; close sends what was accepted |
| `OpenAfterFinished` | success only after both Finished |
| `EndIsAnEnd`, `ExchangeIsWhole` | the end of a stream, and a whole exchange, if `WithResult` |
| `NoCallSpins` | `XSpec => []NeverSpins`: no loop turns without a byte to move, while `ApartFromNext` |

The argument. `EngineOk` is `Fine` with the history of the connection, and that at most one
unit is accepted and not gone. `Calls` ties the place of each call in its loop to the state
of the engine: a call waits in `recv()` only after a turn that found nothing to send.
`Finishes` says which Finished messages have not been exchanged at each point of the first
handshake, `Dues` what may still be unsent when the connection closes, `Delivered` where
application data may wait. `XCalls` and `XCounts` (in `XInv`) count what an exchange has
sent and read against what came. The theorem on the end of a stream has a hypothesis and
`NeverSpins` a condition, and both are necessary: without a result `EndMeansClosed` is
violated (`read_without_result`), and when something follows a HelloRequest or a Finished
message in one record `wm_tls_read` does spin (section 3). For `NoCallSpins` the invariant
is `Ready` as well: the processor always stops where it reads, with nothing unread.

`SslIoProofs` proves about `SslIo`, for one buffer or two, any records and lengths, and
callbacks that fail at any time:

| Theorem | Statement |
|---|---|
| `WrapperInvariant` | `Spec => []SInv`, with `SInv == Typed /\ EngineOk /\ Incoming /\ Calls /\ Flushed` |
| `StreamsAlwaysKept` | both streams are kept in order, once and whole |
| `FlushAlwaysSends` | `br_sslio_flush` succeeds only when all has left |

The argument. `EngineOk` is `Fine` again. `Incoming` adds what `Fine` leaves open, that the
units of data in `inbuf` and those read are those that came, in order. `Calls` and `Flushed`
say what the result of `run_until` tells its caller: each of its five branches is left
only when the engine is in a state that branch excludes.

`ServiceProofs` proves about `CryptoServices`, for functions with blocks of any length, messages
of any length in any pieces, and any clock that does not go round between two looks at
it (`HashAssumption`, `ServicesAssumption`, `ClockAssumption`):

| Theorem | Statement |
|---|---|
| `UpdateStands` | whatever a context stands for, after `br_hash_update` it stands for that and the data |
| `OutStands` | `br_hash_out` of a context that stands for a message is its digest |
| `MacUpdates` | whatever an HMAC context stands for, after `br_hmac_update` it stands for that and the data |
| `MacOut`, `MacOutAlike` | `br_hmac_out`, and `br_hmac_outCT` for any `min_len` and `max_len` that hold the length, return the HMAC of the key and the message |
| `MultiOut` | `br_multihash_out` returns each function's digest of all that was fed in |
| `DigestsAlwaysAgree` | `Spec => []DigestsAgree` |
| `WorkAlwaysProved` | `Spec => []ProofOfWork` |
| `PhashAll`, `MaskAll` | `br_tls_phash` and `br_mgf1_xor` lay each byte of P_hash and of the mask once, in its place |
| `KeyAlwaysDerived` | `Spec => []DerivedKey` |

The argument. `Stands(h, cc, msg)` says what a context is worth: its chaining value is that of
the whole blocks of `msg`, the buffer holds the rest in its first places and anything
behind, the count is the length. `UpdateStands` is an induction over the blocks that
the loop of `br_hash_update` passes; `OutStands` shows that the padding written into the
buffer, over one block or two, is that of the definition, whatever was left in
the buffer. The library's induction theorems take an operator as parameter, which the
provers cannot instantiate; `Induction` does without, by the least member of a set of
numbers (`WFMin`), and its induction hypothesis is membership in a set. For HMAC, `MacStands`
says that the inner context stands for the key with the pad and the message, and that
the saved outer state is that of the key with the other pad, for keys shorter and longer
than a block; a digest is no longer than a block (`HashAssumption`). `br_hmac_outCT` hashes
up to `max_len` bytes and keeps the state where the padded message ends: `Ending`, `Rounded` and
`OneMultiple` show that `kz` is the last byte of the padding, `ByteIs` that each byte hashed up
to there is that of the padding, and `RunEnds` that the state picked is the one after `kz`.
For the multihash, `RegionsApart` and `LoadStored` show that the saved states do not overlap,
`LongestIs` that its one buffer is a multiple of every block, and `MultiStands` that every
state has taken whole buffers and the rest is in the buffer. `DigestsAlwaysAgree` needs no
more than that all of a message is fed in (`MessageInv`). For the proof of work
the invariant adds that the context stands for the nonce and as many tokens as
chunks have passed, and bounds the time that went by at every chunk since the clock was
last looked at; `ClockRight` shows that the difference modulo 2^32 is the time that
passed, so the wrap is harmless. The bound counts chunks of two nonces
(`ChunksUnseen`): those at the end of one nonce and at the beginning of the next are not
looked at, and the tail of a nonce, with its comparison and the report of progress, takes time like a chunk.

For the keys the invariant (`PbGood`, `HkGood`, `PrfGood`) says at every place where a
derivation can be interrupted which blocks of the output are done and that the one in
hand is the exclusive or of the iterates so far, or that the contexts of HKDF hold the
key and the part of the last block not given out, until the last chunk has ended; after that
it says that the bytes up to the limit stay as they are. Two facts do the rest. `Over` of
disjoint places commutes with reading them (`LaidBy`), so a loop over blocks of which the
last is cut gives each byte of the standard once. And the exclusive or of PBKDF2 is the
union of iterates only if no two of them share a byte: `UApart` has it from HMAC free
of collisions and from the first iterate, which is of the salt with its counter and not
of a digest.

`SealProofs` proves about `AeadServices`, as `CryptoServices` runs it, for blocks of any length
over two bytes (`BlockAssumption`) and texts, nonces and additional data of any length:

| Theorem | Statement |
|---|---|
| `SealsAlwaysAgree` | `Spec => []SealsAgree`, when `~AnyPieces` |

The argument. The invariant `SealInv` is one statement per mode (`GcmGood`, `CcmGood`,
`EaxGood`) about a job of any length: what the MAC has taken of the additional data or of
the cipher text, what waits in the buffer, how much of the key stream is left over, and
that what came out so far is the beginning of the whole. A piece is a `Span` of a stream,
from one place for so many bytes; spans that join are one span (`SpanJoined`), what a MAC takes
block by block is what it takes at once, and the key stream is a function of the place, so a
piece that begins inside a block uses the bytes of it that the last piece left (`Spare`,
`LeftShows`). Each function of the three files is then shown to move the place by the length of
its piece, for pieces that end inside the block begun and pieces that pass it. The tags follow:
of GCM by `GcmAgrees`, of CCM by `CcmAgrees`, where the message must be as long as was told, and
of EAX by `EaxAgrees`. EAX needs more than the others, for its block waits in the buffer even
when it is whole, until it is known whether it is the last (`OmacAt`), and a state captured
before leaves the buffer where no data has passed it: hence the clause of `SealsAgree` that asks
for some data. `~AnyPieces` is used in one place, `EaxAadWorks`: there the copy of a longer piece
loses what waits, which is the finding of the run `eax_pieces`.

`TrustProofs` proves about `CertStore`, for files of any length and content, any
`MaxExternal` and `PublicCount` above zero and any set `Decodable` of the compiled-in
certificates (`FilesAssumption`, `CountsAssumption`):

| Theorem | Statement |
|---|---|
| `StoreInvariant` | `Spec => []IInv`, with `IInv == TypeOK /\ Counted /\ Room /\ Added` |
| `StoreTypeCorrect`, `NeverBlank` | types; no blank anchor within the count |
| `FallbackIsKept`, `EveryCaIsAdded` | nothing is lost while the file keeps to its count |

The argument. `Counted` ties the two counters and the array together. `Room` is what
makes the loops end for the right reason: each turn over the file passes a block
and takes at most one place (`next < p`), each turn over the compiled-in certificates
takes at most one (`next < external_count + i`), so a file no longer than the count
never fills the array early. `Added` says that what was passed is there; an unended
block loses itself and those it runs over, and no other.

It proves about `SessionLru`, for any capacity (zero included) and any set of identifiers
(`LruAssumption`: these are naturals, as the code compares them as numbers):

| Theorem | Statement |
|---|---|
| `CacheStaysSound` | `LruSpec => []CacheSound`, from `CacheInv` |
| `ImplementsLru` | `LruSpec => IsLru`: the refinement of `AbstractLru` |

The argument. `CacheSound` speaks of what can be reached along the links, and that is not
inductive by itself. `CacheInv` says that there are a function `u` that gives for every link
the entries under it and a sequence `s` of the entries with `Sound(cache, u, s)`: under a
link are its node and what is under the node's children, on each side the identifiers of
that side (`Tree`), entries outside the tree have no children (`Tidy`), and the list goes
through `s` (`List`). Nothing is said of loops, since sets that shrink from a link to its
children leave none: that is `Ranked`, which numbers the links by how much is under them,
and gives the induction (`TreeInduction`) along which `FindNode` shows that a search ends at
the one place that can hold the identifier and `OutermostIs` that the replacement of a
removed node is the last of its side. `Grafted`, `LeafRemoved` and `Replaced` then give the
new `u` for a node added, a leaf and an inner node removed, and `LongerList`, `ShorterList`,
`ListWithout` the new `s` for the writes to the list; `ReplacementIs` and `LinksReplaced` say
that `remove_node`, which writes four links one after another through pointers that may be
fields of the nodes it moves, makes these changes. `SaveStep`, `LoadStep` and `ForgetStep`
put them together and say what each call does to the sequence; `SaveSimulates`,
`LoadSimulates` and `ForgetSimulates` say that it is what `AbstractLru` does. `SoundIs` leads
back from `u` and `s` to the property (`UnderIs`, `ListOrderIs`).

It proves about `X509Minimal`, for chains of any length with any certificates and
extensions, one after another in one context, and any trust anchors (`X509Assumption`
gives the constants their types):

| Theorem | Statement |
|---|---|
| `X509Invariant` | `X509Spec => []X509Inv`, with `X509Inv == X509Type /\ CertsCounted /\ Kept /\ InHand /\ Chosen /\ VerdictGiven` |
| `AlwaysAcceptedIsValid`, `AlwaysRefusedForCause` | soundness and completeness of the verdict |
| `AlwaysKeyOfEndEntity` | the key given to the handshake is the first certificate's |
| `VerdictAlwaysStands` | an action property: no method changes a verdict, until the next chain |

The argument. The properties speak of the chain, the code of a context that keeps a few
fields. `Kept` says what these fields hold of the last certificate read whole while there
is no verdict, and that all certificates behind it are good and without an anchor; `InHand`
says for each place where the T0 program can wait which fields of the certificate in hand
have been checked, and against what. `VerdictGiven` has the properties themselves and stands
once there is a verdict (`VerdictKept`). One lemma per action; those of the fields of a
certificate rest on `Proceeds` (go on with the same certificate) or `Refuses` (end with a
defect), and `Signature` makes the certificate in hand the last one behind.

Only model-checked: the other properties of CryptoServices. `NumberAgrees`, `KeysAgree` and
`CurvesAgree` need number theory or the algebra of polynomials, for which there is no
library here. All liveness (`OutputDrains`, `CloseGoesOut`, `CloseReturns`, `CloseEnds`) is
out of the prover's reach.

## 5. Not modelled

* Of the handshake: contents of messages, extensions, the key schedule, randomness,
  messages that span records or are larger than a buffer, client authentication, ALPN, the
  server side (`ssl_hs_server.t0`): to the client it is a peer that may send anything.
  X.509 is checked by itself: a chain it refuses would end HsClient as an unexpected message
  does, with `fail`.
* Payload bytes of records: decryption fails or gives any length the format allows.
* `set_buffer` with buffers too small (it fails the engine), DNS, connect, heap
  exhaustion except for the array of the certificate store.
* Of X.509: the decoding of ASN.1, names copied out for the caller.
* Refusals that depend on lengths alone: the 6- and 10-byte length headers of CCM (the model
  has additional data that the two-byte header can tell) and what `br_ccm_reset` refuses;
  factors of another length than the key says in `br_rsa_i31_compute_modulus`. The return
  value of `wm_cert_store_init`, which says whether there is any anchor.
* Two threads that open their first connections at once: `wm_cert_store_init` has no
  lock, and nothing says whether callers need one. `CertStore` has one caller.
* Primitives: block ciphers, round functions, GHASH, Poly1305, random generators,
  Curve25519 and the curves that have an implementation of their own, and the variants
  `i15`, `i32`, `i62`, `m15`, `ctmul` of what is modelled. These are functions from data to
  data without control; a model would have to be their transcription.
* Codecs (PEM, Base64, key files), the text of a request, the installer, tools,
  examples and tests, the T0 compiler.

## 6. Plan

Done: everything in the diagram of section 2. What would come next, in this order:

1. `HsServer` and a client-server composition over a lossless stream: agreement on
   resumption, no deadlock in any handshake.
2. X509Minimal under HsClient, in pieces as the records bring them.
3. Curve25519 and `ec_p256_m15.c`, for their carries.
