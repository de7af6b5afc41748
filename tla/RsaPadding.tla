------------------------------ MODULE RsaPadding ------------------------------
(***************************************************************************)
(* What is put around a value before it becomes a number of RSA, and taken  *)
(* off again: PKCS#1 signatures (rsa_pkcs1_sig_*.c), OAEP (rsa_oaep_*.c) and *)
(* the key exchange of TLS (rsa_ssl_decrypt.c). A byte is the set of what   *)
(* it is the exclusive or of, zero the empty set.                          *)
(***************************************************************************)
EXTENDS KeyDerivation, ServiceJob

CONSTANTS
  PadHash,     \* the hash function of a signature or of OAEP
  OidLens,     \* lengths of the identifier of a hash function; 0: none is written
  Slack,       \* bytes a modulus has beyond the shortest one
  MessageLens, \* lengths of what OAEP encrypts
  PmsLen,      \* bytes of a premaster secret: 48
  MaxEdits     \* bound: bytes that are changed on the way

B(name) == {<<name>>}
Null == {}
Count(n) == {<<"n", n>>}
Some(name, n) == [i \in 1..n |-> {<<name, i>>}]
Fill(byte, n) == [i \in 1..n |-> byte]
Last(s, n) == SubSeq(s, Len(s) - n + 1, Len(s))

-----------------------------------------------------------------------------
(* PKCS#1 signatures. oid is its length and its bytes, or empty.             *)
Oid(n) == IF n = 0 THEN <<>> ELSE <<Count(n)>> \o Some("oid", n)

\* 30 x1 30 x2 06 x3 OID [ 05 00 ] 04 x4
Header(oid, hash_len, nothing) ==
  LET x2 == Len(oid) - 1 + 2 + Len(nothing) IN
  <<B("30"), Count(x2 + hash_len + 4), B("30"), Count(x2), B("06")>> \o oid
    \o nothing \o <<B("04"), Count(hash_len)>>

Nothing == <<B("05"), Null>>

br_rsa_pkcs1_sig_pad(oid, hash, xlen) ==
  LET tail == (IF oid = <<>> THEN <<>> ELSE Header(oid, Len(hash), Nothing)) \o hash IN
  IF xlen < Len(tail) + 11 THEN <<>>
  ELSE <<Null, B("01")>> \o Fill(B("FF"), xlen - Len(tail) - 3) \o <<Null>> \o tail

\* Mutant: the header is looked at, not what comes between it and the padding.
HeaderAt_any(sig, u, oid, hash_len) ==
  \E nothing \in {<<>>, Nothing} :
    LET h == Header(oid, hash_len, nothing) IN
    /\ Len(sig) - u - hash_len >= 1 + Len(h)
    /\ SubSeq(sig, Len(sig) - hash_len - Len(h) + 1, Len(sig) - hash_len) = h

\* What follows the first u bytes is a zero, the header and the hash.
HeaderAt(sig, u, oid, hash_len) ==
  \E nothing \in {<<>>, Nothing} :
    LET pad2 == <<Null>> \o Header(oid, hash_len, nothing) IN
    /\ Len(sig) - u - hash_len = Len(pad2)
    /\ SubSeq(sig, u + 1, u + Len(pad2)) = pad2

br_rsa_pkcs1_sig_unpad(sig, oid, hash_len) ==
  LET pad1 == <<Null, B("01")>> \o Fill(B("FF"), 8)
      u == CHOOSE n \in 10..Len(sig) :
             /\ \A i \in 11..n : sig[i] = B("FF")
             /\ n = Len(sig) \/ sig[n + 1] # B("FF")
      proper == /\ Len(sig) >= 11 /\ SubSeq(sig, 1, 10) = pad1
                /\ IF oid = <<>> THEN Len(sig) - u = hash_len + 1 /\ sig[u + 1] = Null
                   ELSE HeaderAt(sig, u, oid, hash_len)
  IN  [r |-> proper, hash |-> IF proper THEN Last(sig, hash_len) ELSE <<>>]

-----------------------------------------------------------------------------
(* OAEP.  The label is hashed; seed and data mask each other.                *)
Hashed(bytes) == [i \in 1..Len(bytes) |-> <<"of", bytes[i]>>]

hash_data(h, dst, data) ==
  Over(dst, 0, br_hash_out(h, br_hash_update(h, br_hash_init(h), Hashed(data))))
Mgf(data, seed) == br_mgf1_xor(PadHash, data, Hashed(seed))

\* The zeros at the end of the modulus are not counted.
Counted(n) == CHOOSE k \in 0..Len(n) :
                (k = 0 \/ n[k] # 0) /\ \A i \in (k + 1)..Len(n) : n[i] = 0

br_rsa_oaep_pad(label, pk_n, src, dst_max_len, seed) ==
  LET k == Counted(pk_n)
      room == k - 2 * HashLen - 2
      db == hash_data(PadHash, Fill(Null, HashLen), label) \o Fill(Null, room - Len(src)) \o <<B("01")>> \o src
      masked == Mgf(db, seed)
  IN  IF room < 0 \/ Len(src) > room \/ dst_max_len < k THEN <<>>
      ELSE <<Null>> \o Mgf(seed, masked) \o masked

br_rsa_oaep_unpad(label, data) ==
  LET k == Len(data)
      masked == SubSeq(data, HashLen + 2, k)
      seed == Mgf(SubSeq(data, 2, HashLen + 1), masked)
      db == hash_data(PadHash, Mgf(masked, seed), label)
      zlen == CHOOSE n \in 0..Len(db) :
                (n = Len(db) \/ db[n + 1] # Null) /\ \A i \in 1..n : db[i] = Null
      proper == data[1] = Null /\ zlen < Len(db) /\ db[zlen + 1] = B("01") /\ zlen >= HashLen
  IN  IF k < 2 * HashLen + 2 THEN [r |-> FALSE, m |-> <<>>]
      ELSE [r |-> proper, m |-> IF proper THEN SubSeq(db, zlen + 2, Len(db)) ELSE <<>>]

-----------------------------------------------------------------------------
(* The premaster secret; core says whether the number was below the modulus. *)
br_rsa_ssl_decrypt(core, data, modulus_len) ==
  LET len == Len(data)
      x == /\ core /\ data[1] = Null /\ data[2] = B("02")
           /\ \A u \in 3..(len - PmsLen - 1) : data[u] # Null
           /\ data[len - PmsLen] = Null
  IN  IF len < PmsLen + 11 \/ len # modulus_len THEN [r |-> FALSE, pms |-> <<>>]
      ELSE [r |-> x, pms |-> Last(data, PmsLen)]

-----------------------------------------------------------------------------
(* A padded value x on its way: RSA gives back the number it was given.  with *)
(* is what both sides know, x0 what was sent.                                *)
PadJob(scheme, with, x) ==
  [kind |-> "pad", scheme |-> scheme, with |-> with, x |-> x, x0 |-> x, edits |-> 0]

Shortest(oid) == 11 + (IF oid = <<>> THEN 0 ELSE Len(Header(oid, HashLen, Nothing))) + HashLen
Hash == Some("hash", HashLen)

\* The form without 05 00 comes from others.
Bare(oid, xlen) ==
  LET tail == Header(oid, HashLen, <<>>) \o Hash IN
  <<Null, B("01")>> \o Fill(B("FF"), xlen - Len(tail) - 3) \o <<Null>> \o tail

SigPadInit ==
  \E n \in OidLens, more \in Slack :
    LET oid == Oid(n)
        with == [oid |-> oid, xlen |-> Shortest(oid) + more]
    IN  \/ job = PadJob("sig", with, br_rsa_pkcs1_sig_pad(oid, Hash, with.xlen))
        \/ oid # <<>> /\ job = PadJob("sig", with, Bare(oid, with.xlen))

Label(n) == Some("label", n)
Plaintext(n) == Some("msg", n)
Seeds == Some("seed", HashLen)

OaepInit ==
  \E more \in Slack, len \in MessageLens, label \in 0..1, room \in {-1, 0} :
    LET n == [i \in 1..(2 * HashLen + 2 + more) |-> 1] IN
    job = PadJob("oaep", [k |-> Len(n), len |-> len, label |-> label, room |-> room],
            br_rsa_oaep_pad(Label(label), n, Plaintext(len), Len(n) + room, Seeds))

KxInit ==
  \E more \in Slack, core \in BOOLEAN :
    LET ps == IF more < -8 THEN 0 ELSE 8 + more IN
    job = PadJob("kx", [core |-> core, len |-> PmsLen + 3 + ps],
            <<Null, B("02")>> \o Some("ps", ps) \o <<Null>> \o Some("pms", PmsLen))

\* A byte is changed, or one is lost and another begins the padding.
PadEdit ==
  /\ job.kind = "pad" /\ job.edits < MaxEdits
  /\ \E i \in DOMAIN job.x :
       \/ \E b \in {Null, B("01"), B("02"), B("FF"), B("05")} :
            job' = [job EXCEPT !.x[i] = b, !.edits = @ + 1]
       \/ /\ i > 2
          /\ job' = [job EXCEPT !.edits = @ + 1,
               !.x = SubSeq(@, 1, 2) \o <<B("FF")>> \o SubSeq(@, 3, i - 1)
                       \o SubSeq(@, i + 1, Len(@))]

PadInit == SigPadInit \/ OaepInit \/ KxInit
PadNext == PadEdit

-----------------------------------------------------------------------------
(* Properties.                                                               *)
\* All signatures with a given header, of a given length (RFC 8017).
IsSignature(x, oid, xlen, hash) ==
  \E headers \in IF oid = <<>> THEN {<<>>}
                 ELSE {Header(oid, HashLen, <<>>), Header(oid, HashLen, Nothing)} :
    LET ff == xlen - Len(headers) - HashLen - 3 IN
    /\ ff >= 8
    /\ x = <<Null, B("01")>> \o Fill(B("FF"), ff) \o <<Null>> \o headers \o hash

SigPadAgrees ==
  LET with == job.with
      s == br_rsa_pkcs1_sig_unpad(job.x, with.oid, HashLen)
  IN  /\ (br_rsa_pkcs1_sig_pad(with.oid, Hash, with.xlen) = <<>>)
           = (with.xlen < Shortest(with.oid))
      /\ job.x # <<>> =>
           /\ s.r = IsSignature(job.x, with.oid, with.xlen, Last(job.x, HashLen))
           /\ (s.r /\ job.x = job.x0) => s.hash = Hash

OaepAgrees ==
  LET with == job.with
      given == br_rsa_oaep_unpad(Label(with.label), job.x)
      other == br_rsa_oaep_unpad(Label(1 - with.label), job.x)
  IN  /\ (job.x0 # <<>>) = (with.room >= 0 /\ with.len + 2 * HashLen + 2 <= with.k)
      /\ job.x # <<>> =>
           /\ given.r = (job.x = job.x0) /\ ~other.r
           /\ given.r => given.m = Plaintext(with.len)

KxAgrees ==
  LET s == br_rsa_ssl_decrypt(job.with.core, job.x, job.with.len) IN
  s.r <=> /\ job.with.core
          /\ \E ps \in 8..Len(job.x) :
               /\ Len(job.x) = PmsLen + 3 + ps
               /\ job.x[1] = Null /\ job.x[2] = B("02") /\ job.x[3 + ps] = Null
               /\ \A i \in 3..(2 + ps) : job.x[i] # Null
=============================================================================
