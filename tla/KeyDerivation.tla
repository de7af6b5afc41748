---------------------------- MODULE KeyDerivation ----------------------------
(***************************************************************************)
(* Bytes made from secrets with the hash functions: HKDF (hkdf.c), which   *)
(* takes and gives in pieces, the PRF of TLS (prf.c, prf_md5sha1.c) and    *)
(* the mask of RSA padding (mgf1.c), each with the definition it stands    *)
(* for.                                                                    *)
(***************************************************************************)
EXTENDS HashStream

CONSTANT MaxChunks   \* chunks HKDF may produce, 255

-----------------------------------------------------------------------------
(* HKDF.  A salt that is absent is as many zeros as a digest has    *)
(* bytes.  MaxChunks is 255; the number of a chunk is written as one byte.   *)
hmac(h, kc, data) == br_hmac_out(h, br_hmac_update(h, br_hmac_init(h, kc), data))

br_hkdf_init(h, salt) ==
  [hmac |-> br_hmac_init(h, br_hmac_key_init(h, salt)), prk |-> <<>>, ptr |-> 0,
   chunk_num |-> 0, buf |-> <<>>]

br_hkdf_inject(h, hc, ikm) == [hc EXCEPT !.hmac = br_hmac_update(h, @, ikm)]

br_hkdf_flip(h, hc) ==
  [hc EXCEPT !.prk = br_hmac_key_init(h, br_hmac_out(h, hc.hmac)), !.ptr = HashLen]

ChunkNumber(n) == <<"chunk", n % (MaxChunks + 1)>>

\* A new chunk, of the one before it.
NextChunk(h, hc, info) ==
  LET before == IF (hc.chunk_num + 1) % (MaxChunks + 1) = 1 THEN <<>> ELSE hc.buf IN
  [hc EXCEPT !.chunk_num = @ + 1, !.ptr = 0,
             !.buf = hmac(h, hc.prk, before \o info \o <<ChunkNumber(hc.chunk_num + 1)>>)]

\* Byte by byte; at the chunk that may not be it returns what there is.
br_hkdf_produce(h, hc, info, out_len) ==
  LET step(s) ==
        IF s.ended THEN s
        ELSE IF s.hc.ptr = HashLen /\ s.hc.chunk_num = MaxChunks
          THEN [s EXCEPT !.hc.chunk_num = @ + 1, !.ended = TRUE]
        ELSE LET c == IF s.hc.ptr = HashLen THEN NextChunk(h, s.hc, info) ELSE s.hc IN
             [s EXCEPT !.hc = [c EXCEPT !.ptr = @ + 1], !.out = Append(@, c.buf[c.ptr + 1])]
      after[n \in 0..out_len] ==
        IF n = 0 THEN [hc |-> hc, out |-> <<>>, ended |-> FALSE] ELSE step(after[n - 1])
  IN  after[out_len]

-----------------------------------------------------------------------------
(* The PRF of TLS (prf.c) and MGF1 (mgf1.c): both xor what they produce over *)
(* what is there; here a byte is the set of what it is the exclusive or of.  *)
Over(dst, at, bytes) ==
  [i \in 1..Len(dst) |->
     IF i \in (at + 1)..(at + Len(bytes))
       THEN (dst[i] \ {bytes[i - at]}) \cup ({bytes[i - at]} \ dst[i]) ELSE dst[i]]

Rounds(len) == (len + HashLen - 1) \div HashLen

br_tls_phash(h, dst, secret, seed) ==
  LET kc == br_hmac_key_init(h, secret)
      after[n \in 0..Rounds(Len(dst))] ==
        IF n = 0 THEN [dst |-> dst, a |-> hmac(h, kc, seed)]
        ELSE [dst |-> Over(after[n - 1].dst, (n - 1) * HashLen,
                           hmac(h, kc, after[n - 1].a \o seed)),
              a |-> hmac(h, kc, after[n - 1].a)]
  IN  after[Rounds(Len(dst))].dst

\* Before TLS 1.2 each half of the secret has its function; an odd byte is in both.
br_tls10_prf(md5, sha1, len, secret, seed) ==
  LET slen == (Len(secret) + 1) \div 2
      clear == [i \in 1..len |-> {}]
  IN  br_tls_phash(sha1, br_tls_phash(md5, clear, SubSeq(secret, 1, slen), seed),
                   SubSeq(secret, Len(secret) - slen + 1, Len(secret)), seed)

br_tls12_prf(h, len, secret, seed) == br_tls_phash(h, [i \in 1..len |-> {}], secret, seed)

CountBlock(c) == [i \in 1..4 |-> <<"c", c, i>>]

br_mgf1_xor(h, data, seed) ==
  LET after[n \in 0..Rounds(Len(data))] ==
        IF n = 0 THEN data
        ELSE Over(after[n - 1], (n - 1) * HashLen,
               br_hash_out(h, br_hash_update(h,
                 br_hash_update(h, br_hash_init(h), seed), CountBlock(n - 1))))
  IN  after[Rounds(Len(data))]

-----------------------------------------------------------------------------
(* What they stand for (RFC 5869, 2246, 5246 and 8017).                      *)
Hkdf(h, salt, ikm, info) ==
  LET prk == Hmac(h, salt, ikm)
      t[n \in 1..MaxChunks] ==
        Hmac(h, prk, (IF n = 1 THEN <<>> ELSE t[n - 1]) \o info \o <<ChunkNumber(n)>>)
  IN  t

PHash(h, secret, seed, k) ==
  LET a[n \in 0..((k + HashLen - 1) \div HashLen)] ==
        IF n = 0 THEN seed ELSE Hmac(h, secret, a[n - 1])
  IN  Hmac(h, secret, a[(k + HashLen - 1) \div HashLen] \o seed)[((k - 1) % HashLen) + 1]

Mask(h, seed, k) ==
  Digest(h, seed \o CountBlock((k - 1) \div HashLen))[((k - 1) % HashLen) + 1]
=============================================================================
