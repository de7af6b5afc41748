----------------------------- MODULE HashServices -----------------------------
(***************************************************************************)
(* What uses the hash functions step by step: the transcript of a          *)
(* handshake (br_multihash), the MAC of a record (br_hmac), and the two    *)
(* exported functions of wm_https.c that derive a key and search for a     *)
(* proof of work.  Each job runs by itself.                                *)
(***************************************************************************)
EXTENDS KeyDerivation, ServiceJob

CONSTANTS
  Impl,          \* the functions of a transcript, by id
  Macs,          \* functions for HMAC
  KeyLens,       \* lengths of keys and salts
  MaxMessage,    \* bound: bytes of a message
  MaxPiece,      \* bound: bytes given in one call
  MaxIterations, \* bound: iterations of PBKDF2
  MaxOut,        \* bound: bytes of a derived key
  ChunkRepeats,  \* WM_HASHCASH_CHUNK_REPEATS
  FullChunks,    \* WM_HASHCASH_FULL_CHUNKS
  CheckEvery,    \* chunks between two looks at the clock, 32
  Timeout,       \* WM_HASHCASH_TIMEOUT_MS, in ticks
  TickMod,       \* where GetTickCount wraps, 2^32
  MaxTicks,      \* bound: ticks of a chunk, and from the last one of a nonce to the next nonce
  Starts,        \* start_tick
  MaxNonce,      \* the last nonce, 2^32 - 1
  MaxAsked       \* bound: bytes asked of HKDF

ASSUME HashAssumption ==
  /\ HashLen \in Nat \ {0} /\ CountLen \in 1..15 /\ MaxChunks \in Nat \ {0}
  /\ \A h \in Macs \cup {Impl[id] : id \in DOMAIN Impl} :
       h.block \in Nat /\ h.count \in CountLen..(h.block - 1) /\ HashLen <= h.block
  /\ {1, 2, 4} \subseteq DOMAIN Impl /\ DOMAIN Impl \subseteq Ids
  /\ \A id \in DOMAIN Impl : Impl[id].id = id
  /\ \A i, j \in DOMAIN Impl :
       Impl[i].block >= Impl[j].block => Impl[i].block % Impl[j].block = 0

ASSUME ServicesAssumption ==
  /\ KeyLens \subseteq Nat /\ MaxMessage \in Nat /\ MaxPiece \in Nat
  /\ MaxIterations \in Nat /\ MaxOut \in Nat /\ MaxNonce \in Nat /\ MaxAsked \in Nat
  /\ ChunkRepeats \in Nat /\ ChunkRepeats > 2 /\ FullChunks \in Nat \ {0}
  /\ CheckEvery \in 1..FullChunks

\* Chunks between two looks at the clock: the last ones of a nonce, as one more
\* what follows them, and the first ones of the next nonce.
ChunksUnseen == CheckEvery + (FullChunks % CheckEvery) + 1

\* The clock does not go round between two looks at it: 2^32 ticks are seven weeks.
ASSUME ClockAssumption ==
  /\ Timeout \in Nat \ {0} /\ TickMod \in Nat /\ MaxTicks \in Nat
  /\ Timeout + MaxTicks * ChunksUnseen <= TickMod
  /\ Starts \subseteq 0..(TickMod - 1)

Bytes(name, a, b) == [i \in 1..(b - a + 1) |-> <<name, a + i - 1>>]
Message(n) == Bytes("msg", 1, n)
Key(n) == Bytes("key", 1, n)
Salt(n) == Bytes("salt", 1, n)

LongestBlock == CHOOSE n \in {Impl[id].block : id \in DOMAIN Impl} :
                  \A id \in DOMAIN Impl : Impl[id].block <= n

-----------------------------------------------------------------------------
(* The transcript and the MAC of a message that comes in pieces.             *)
Transcript ==
  [kind |-> "transcript", n |-> 0, mc |-> br_multihash_init(Impl, LongestBlock)]

Mac(h, len) ==
  [kind |-> "mac", n |-> 0, h |-> h, key |-> len,
   hc |-> br_hmac_init(h, br_hmac_key_init(h, Key(len)))]

TranscriptUpdate ==
  /\ job.kind = "transcript"
  /\ \E k \in 1..MaxPiece :
       /\ job.n + k <= MaxMessage
       /\ job' = [job EXCEPT !.n = @ + k,
                    !.mc = br_multihash_update(Impl, @, Bytes("msg", job.n + 1, job.n + k))]

MacUpdate ==
  /\ job.kind = "mac"
  /\ \E k \in 1..MaxPiece :
       /\ job.n + k <= MaxMessage
       /\ job' = [job EXCEPT !.n = @ + k,
                    !.hc = br_hmac_update(job.h, @, Bytes("msg", job.n + 1, job.n + k))]

-----------------------------------------------------------------------------
(* wm_pbkdf2_sha512_b64salt. A byte of t is the set of the bytes it is the   *)
(* exclusive or of.                                                          *)
Xor(t, u) == [j \in 1..Len(t) |-> (t[j] \ {u[j]}) \cup ({u[j]} \ t[j])]

Pbkdf2(h, salt, iterations, out_len) ==
  [kind |-> "pbkdf2", at |-> "block", h |-> h, salt |-> salt,
   iterations |-> iterations, out_len |-> out_len,
   out |-> <<>>, block_index |-> 1, i |-> 0, u |-> <<>>, t |-> <<>>]

hmac_sha512_once(h, data) ==
  br_hmac_out(h, br_hmac_update(h, br_hmac_init(h, br_hmac_key_init(h, Key(3))), data))

BlockIndex(n) == [j \in 1..4 |-> <<"index", n, j>>]

\* The block begins with the salt and its number.
Pbkdf2Block ==
  /\ job.kind = "pbkdf2" /\ job.at = "block"
  /\ LET u == hmac_sha512_once(job.h, Salt(job.salt) \o BlockIndex(job.block_index)) IN
     job' = [job EXCEPT !.at = "iterate", !.i = 1, !.u = u,
                        !.t = [j \in 1..HashLen |-> {u[j]}]]

Pbkdf2Iterate ==
  /\ job.kind = "pbkdf2" /\ job.at = "iterate" /\ job.i < job.iterations
  /\ LET u == hmac_sha512_once(job.h, job.u) IN
     job' = [job EXCEPT !.i = @ + 1, !.u = u, !.t = Xor(@, u)]

\* Mutant: the number of the block stays.
Pbkdf2Copy_same ==
  /\ job.kind = "pbkdf2" /\ job.at = "iterate" /\ job.i = job.iterations
  /\ LET left == job.out_len - Len(job.out)
         copy == IF left > HashLen THEN HashLen ELSE left IN
     job' = [job EXCEPT !.out = @ \o SubSeq(job.t, 1, copy),
                        !.at = IF left > HashLen THEN "block" ELSE "done"]

Pbkdf2Copy ==
  /\ job.kind = "pbkdf2" /\ job.at = "iterate" /\ job.i = job.iterations
  /\ LET left == job.out_len - Len(job.out)
         copy == IF left > HashLen THEN HashLen ELSE left IN
     job' = [job EXCEPT !.out = @ \o SubSeq(job.t, 1, copy),
                        !.block_index = @ + 1,
                        !.at = IF left > HashLen THEN "block" ELSE "done"]

-----------------------------------------------------------------------------
(* wm_hashcash_solve, in units of four bytes: the prefix is one, a token     *)
(* twelve, a block of the hash function sixteen.                             *)
Sha256 == [id |-> 4, block |-> 16, count |-> CountLen]
Token == Bytes("token", 1, 12)
Prefix(nonce) == <<<<"nonce", nonce>>>>
Repeated(n) == [i \in 1..(12 * n) |-> Token[((i - 1) % 12) + 1]]

Hashcash(start) ==
  [kind |-> "hashcash", at |-> "nonce", nonce |-> 0, i |-> 0, start |-> start,
   elapsed |-> 0, cc |-> br_hash_init(Sha256), rc |-> 0]

\* The first block and the rest of its second token.
HashcashNonce ==
  /\ job.kind = "hashcash" /\ job.at = "nonce"
  /\ job' = [job EXCEPT !.at = "chunks", !.i = 0,
       !.cc = br_hash_update(Sha256,
                br_hash_update(Sha256, br_hash_init(Sha256),
                  Prefix(job.nonce) \o Token \o SubSeq(Token, 1, 3)),
                SubSeq(Token, 4, 12))]

\* Mutant: the two readings of the clock are compared.
TimedOut_compared(start, now) == now >= start + Timeout

TimedOut(start, now) == (now - start) % TickMod >= Timeout

\* A chunk takes some time; the clock is looked at now and then.
HashcashChunk ==
  /\ job.kind = "hashcash" /\ job.at = "chunks" /\ job.i < FullChunks
  /\ \E ticks \in 0..MaxTicks :
       LET now == (job.start + job.elapsed + ticks) % TickMod IN
       job' = [job EXCEPT
         !.i = @ + 1, !.elapsed = @ + ticks,
         !.cc = br_hash_update(Sha256, @, Repeated(ChunkRepeats)),
         !.at = IF job.i % CheckEvery = CheckEvery - 1 /\ TimedOut(job.start, now)
                  THEN "done" ELSE @]

\* The time of all that is between the chunks of two nonces goes by here.
HashcashTail ==
  /\ job.kind = "hashcash" /\ job.at = "chunks" /\ job.i = FullChunks
  /\ \E ticks \in 0..MaxTicks :
       job' = [job EXCEPT !.at = "compare", !.elapsed = @ + ticks,
                          !.cc = br_hash_update(Sha256, @, Repeated(ChunkRepeats - 2))]

\* The digest is below the threshold, and the result fits the buffer of the
\* caller or not; or it is above.
HashcashCompare ==
  /\ job.kind = "hashcash" /\ job.at = "compare"
  /\ \/ job' = [job EXCEPT !.at = "done", !.rc = 1]
     \/ job.nonce < MaxNonce /\ job' = [job EXCEPT !.at = "nonce", !.nonce = @ + 1]
     \/ job' = [job EXCEPT !.at = "done"]   \* or after the last nonce

-----------------------------------------------------------------------------
(* HKDF, fed and asked in pieces.  A call that meets the limit gives less     *)
(* than it is asked for; the calls after it give the first chunk again.       *)
HkdfJob(h, salt) ==
  [kind |-> "hkdf", at |-> "extract", h |-> h, salt |-> salt, n |-> 0,
   hc |-> br_hkdf_init(h, salt), out |-> <<>>, asked |-> 0]

Info == Bytes("info", 1, 2)

HkdfInject ==
  /\ job.kind = "hkdf" /\ job.at = "extract"
  /\ \E k \in 1..MaxPiece :
       /\ job.n + k <= MaxPiece
       /\ job' = [job EXCEPT !.n = @ + k,
                    !.hc = br_hkdf_inject(job.h, @, Bytes("msg", job.n + 1, job.n + k))]

HkdfFlip ==
  /\ job.kind = "hkdf" /\ job.at = "extract"
  /\ job' = [job EXCEPT !.at = "expand", !.hc = br_hkdf_flip(job.h, @)]

HkdfProduce ==
  /\ job.kind = "hkdf" /\ job.at \in {"expand", "ended", "again"}
  /\ \E k \in 1..(HashLen + 1) :
       LET r == br_hkdf_produce(job.h, job.hc, Info, k) IN
       /\ job.asked + k <= MaxAsked
       /\ job' = [job EXCEPT !.hc = r.hc, !.out = @ \o r.out, !.asked = @ + k,
                    !.at = IF @ # "expand" THEN "again"
                           ELSE IF Len(r.out) < k THEN "ended" ELSE @]

-----------------------------------------------------------------------------
(* The PRF and the mask give all bytes in one call.                          *)
PrfJob(version, secret, len) ==
  [kind |-> "prf", at |-> "start", version |-> version, secret |-> secret, len |-> len,
   out |-> <<>>]
Secret(n) == Bytes("secret", 1, n)
Seed == Bytes("seed", 1, 3)

Prf ==
  /\ job.kind = "prf" /\ job.at = "start"
  /\ job' = [job EXCEPT !.at = "done",
       !.out = CASE job.version = "tls10" ->
                      br_tls10_prf(Impl[1], Impl[2], job.len, Secret(job.secret), Seed)
                 [] job.version = "tls12" ->
                      br_tls12_prf(Impl[4], job.len, Secret(job.secret), Seed)
                 [] OTHER -> br_mgf1_xor(Impl[4], [i \in 1..job.len |-> {<<"data", i>>}],
                                         Secret(job.secret))]

-----------------------------------------------------------------------------
HashInit ==
  \/ job = Transcript
  \/ \E h \in Macs, len \in KeyLens : job = Mac(h, len)
  \/ \E h \in Macs, salt \in KeyLens \ {0}, n \in 1..MaxIterations, len \in 1..MaxOut :
       job = Pbkdf2(h, salt, n, len)
  \/ \E start \in Starts : job = Hashcash(start)
  \/ \E h \in Macs, len \in KeyLens : job = HkdfJob(h, Salt(len))
  \/ \E h \in Macs : job = HkdfJob(h, Zeros(HashLen))   \* BR_HKDF_NO_SALT
  \/ \E version \in {"tls10", "tls12", "mgf1"}, secret \in KeyLens, len \in 0..MaxOut :
       job = PrfJob(version, secret, len)

HashNext ==
  \/ TranscriptUpdate \/ MacUpdate
  \/ Pbkdf2Block \/ Pbkdf2Iterate \/ Pbkdf2Copy
  \/ HashcashNonce \/ HashcashChunk \/ HashcashTail \/ HashcashCompare
  \/ HkdfInject \/ HkdfFlip \/ HkdfProduce \/ Prf

-----------------------------------------------------------------------------
(* Properties.                                                               *)

\* Each digest of a transcript is that of everything that was said, whatever
\* pieces it came in, though the functions have blocks of different lengths and
\* share one buffer and one memory (br_multihash_out).
TranscriptAgrees ==
  job.kind = "transcript" =>
    \A id \in DOMAIN Impl :
      br_multihash_out(Impl, job.mc, id) = Digest(Impl[id], Message(job.n))

\* HMAC is HMAC, in whatever pieces the message comes and whether the key is
\* short or long; and the variant that treats all lengths alike, as CBC
\* records need it, gives the same, whatever of the last piece counts
\* (br_hmac_out, br_hmac_outCT).
MacAgrees ==
  job.kind = "mac" =>
    /\ br_hmac_out(job.h, job.hc) = Hmac(job.h, Key(job.key), Message(job.n))
    /\ \A max \in 0..MaxPiece : \A len \in 0..max : \A min \in 0..len :
         LET data == Bytes("last", 1, max) IN
         br_hmac_outCT(job.h, job.hc, data, len, min, max) =
           br_hmac_out(job.h, br_hmac_update(job.h, job.hc, SubSeq(data, 1, len)))

\* Messages have their digests, and their authentication codes, at any time and
\* in any pieces (multihash.c, hmac.c, hmac_ct.c).
DigestsAgree == TranscriptAgrees /\ MacAgrees

\* PBKDF2: the exclusive or of all iterations, of as many blocks as are needed,
\* each with its own number, the last one cut.
U(h, salt, b) ==
  LET u[i \in 1..MaxIterations] ==
        Hmac(h, Key(3), IF i = 1 THEN Salt(salt) \o BlockIndex(b) ELSE u[i - 1])
  IN  u
Pbkdf2Agrees ==
  /\ Len(job.out) = job.out_len
  /\ \A k \in 1..job.out_len :
       LET b == ((k - 1) \div HashLen) + 1
           j == ((k - 1) % HashLen) + 1
       IN  job.out[k] = {U(job.h, job.salt, b)[i][j] : i \in 1..job.iterations}

HkdfAgrees ==
  LET t == Hkdf(job.h, job.salt, Message(job.n), Info)
      limit == MaxChunks * HashLen
      due == IF job.asked > limit THEN limit ELSE job.asked
  IN
  /\ Len(job.out) >= due
  /\ job.at # "again" => Len(job.out) = due
  /\ \A k \in 1..due :
       job.out[k] = t[((k - 1) \div HashLen) + 1][((k - 1) % HashLen) + 1]

PrfByte(k) ==
  LET secret == Secret(job.secret)
      half == (job.secret + 1) \div 2
  IN  CASE job.version = "tls10" ->
             {PHash(Impl[1], SubSeq(secret, 1, half), Seed, k),
              PHash(Impl[2], SubSeq(secret, job.secret - half + 1, job.secret), Seed, k)}
        [] job.version = "tls12" -> {PHash(Impl[4], secret, Seed, k)}
        [] OTHER -> {<<"data", k>>, Mask(Impl[4], secret, k)}

\* What is derived is what the standards define, in whatever pieces it is asked
\* for: the key of PBKDF2 (RFC 2898), the bytes of HKDF up to their limit (RFC
\* 5869), where the call that meets it gives less than it is asked for, the PRF
\* of TLS for secrets of odd length too (RFC 2246, 5246), and a mask over every
\* byte once (RFC 8017). Of the calls to HKDF after that one it only says that
\* they leave what was given: the code gives more (hkdf.c:82-88), where the
\* comment of bearssl_kdf.h:167-169 has a limit of the total length.
DerivedKey ==
  /\ (job.kind = "pbkdf2" /\ job.at = "done") => Pbkdf2Agrees
  /\ job.kind = "hkdf" => HkdfAgrees
  /\ (job.kind = "prf" /\ job.at = "done") =>
       job.out = [k \in 1..job.len |-> PrfByte(k)]

\* What is compared with the threshold is the digest of the nonce that would
\* be returned and of the token as often as the server repeats it, and the
\* search ends soon after its time is up, though the clock may wrap: no later
\* than what is between two looks at the clock takes.
ProofOfWork ==
  job.kind = "hashcash" =>
    /\ job.at = "compare" =>
         br_hash_out(Sha256, job.cc) =
           Digest(Sha256, Prefix(job.nonce) \o Repeated(ChunkRepeats * (FullChunks + 1)))
    /\ job.elapsed < Timeout + MaxTicks * ChunksUnseen
=============================================================================
