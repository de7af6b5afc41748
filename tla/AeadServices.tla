----------------------------- MODULE AeadServices -----------------------------
(***************************************************************************)
(* The use of an AEAD context (br_aead_class, and CCM beside it): additional*)
(* data in any pieces, flip, then data in any pieces, either way.          *)
(***************************************************************************)
EXTENDS AeadStream, ServiceJob

CONSTANTS
  NonceLens, TextLens,  \* lengths of nonces; lengths told to br_ccm_reset
  MaxText,              \* bound: bytes of additional data, and of data
  AnyPieces             \* FALSE: pieces of additional data for EAX do not go
                        \* beyond a block that was begun before

ASSUME AeadAssumption ==
  /\ NonceLens \subseteq Nat /\ TextLens \subseteq Nat /\ MaxText \in Nat
  /\ AnyPieces \in BOOLEAN

Nonce(n) == Piece("nonce", 0, n)
Aad(n) == Piece("aad", 0, n)
Text(n) == Piece("text", 0, n)

Aead(mode, encrypt, nonce, at, n, ctx) ==
  [kind |-> "aead", mode |-> mode, encrypt |-> encrypt, nonce |-> nonce, at |-> at,
   n |-> n, told |-> <<>>, m |-> 0, ctx |-> ctx, out |-> <<>>]

\* The MAC of additional data that an earlier use left behind.
AadState(aad) ==
  [br_eax_capture EXCEPT ![1] =
     br_eax_flip(br_eax_aad_inject(br_eax_reset(<<>>), aad)).head]

AeadInit ==
  \E encrypt \in BOOLEAN :
    \/ job = Aead("gcm", encrypt, 0, "aad", 0, br_gcm_reset)
    \/ \E aad \in TextLens, data \in TextLens :
         job = [Aead("ccm", encrypt, 0, "aad", 0, br_ccm_reset(aad, data))
                  EXCEPT !.told = <<aad, data>>]
    \/ \E len \in NonceLens :
         \/ job = Aead("eax", encrypt, len, "aad", 0, br_eax_reset(Nonce(len)))
         \/ job = Aead("eax_pre", encrypt, len, "aad", 0,
                       br_eax_reset_pre_aad(br_eax_capture, Nonce(len)))
         \/ \E aad \in TextLens :
              job = Aead("eax_post", encrypt, len, "data", aad,
                         br_eax_reset_post_aad(AadState(Aad(aad)), Nonce(len)))

\* aad_inject of the class.
AadInject(data) ==
  CASE job.mode = "gcm" -> br_gcm_aad_inject(job.ctx, data)
    [] job.mode = "ccm" -> br_ccm_aad_inject(job.ctx, data)
    [] OTHER -> br_eax_aad_inject(job.ctx, data)

\* A caller that knows what br_eax_aad_inject does: nothing goes beyond a block
\* that is begun.
MayGive(k) ==
  (~AnyPieces /\ job.mode \notin {"gcm", "ccm"} /\ job.ctx.ptr < Block) =>
    k <= Block - job.ctx.ptr

AeadAad ==
  /\ job.kind = "aead" /\ job.at = "aad"
  /\ \E k \in 0..MaxText :
       /\ job.n + k <= IF job.mode = "ccm" THEN job.told[1] ELSE MaxText
       /\ MayGive(k)
       /\ job' = [job EXCEPT !.n = @ + k, !.ctx = AadInject(Piece("aad", job.n, k))]

\* A state captured before the additional data needs some (bearssl_aead.h:668).
AeadFlip ==
  /\ job.kind = "aead" /\ job.at = "aad"
  /\ job.mode = "ccm" => job.n = job.told[1]
  /\ job.mode = "eax_pre" => job.n > 0
  /\ job' = [job EXCEPT !.at = "data",
       !.ctx = CASE job.mode = "gcm" -> br_gcm_flip(@)
                 [] job.mode = "ccm" -> br_ccm_flip(@)
                 [] OTHER -> br_eax_flip(@)]

\* The cipher text, by the definition of the modes: where their counters begin.
Cipher(n) ==
  CASE job.mode = "gcm" -> ctr("iv", 2, Text(n))
    [] job.mode = "ccm" -> ctr("nonce", 1, Text(n))
    [] OTHER -> ctr(Omac(0, Nonce(job.nonce)), 0, Text(n))

AeadRun ==
  /\ job.kind = "aead" /\ job.at = "data"
  /\ \E k \in 0..MaxText :
       /\ job.m + k <= IF job.mode = "ccm" THEN job.told[2] ELSE MaxText
       /\ LET data == After(IF job.encrypt THEN Text(job.m + k) ELSE Cipher(job.m + k), job.m)
              r == CASE job.mode = "gcm" -> br_gcm_run(job.ctx, job.encrypt, data)
                     [] job.mode = "ccm" -> br_ccm_run(job.ctx, job.encrypt, data)
                     [] OTHER -> br_eax_run(job.ctx, job.encrypt, data)
          IN  job' = [job EXCEPT !.m = @ + k, !.ctx = r.ctx, !.out = @ \o r.out]

AeadNext == AeadAad \/ AeadFlip \/ AeadRun

-----------------------------------------------------------------------------
(* Properties.                                                               *)

\* Whatever the pieces, what comes out of an AEAD context is the cipher text of
\* the whole message, or the message again, and the tag is that of all of it
\* ("several chunks of arbitrary length", bearssl_aead.h:93 and :105): the block
\* begun, the key stream left over and the block held back for its padding are
\* neither lost nor used twice.  An EAX context from a captured state must have
\* been given some data.
SealsAgree ==
  (job.kind = "aead" /\ job.at = "data") =>
    /\ job.out = IF job.encrypt THEN Cipher(job.m) ELSE Text(job.m)
    /\ job.mode = "gcm" =>
         br_gcm_get_tag(job.ctx) = GcmTag(Aad(job.n), Cipher(job.m))
    /\ (job.mode = "ccm" /\ job.m = job.told[2]) =>
         br_ccm_get_tag(job.ctx) = CcmTag(Aad(job.n), Text(job.m))
    /\ (job.mode = "eax" \/ (job.mode \in {"eax_pre", "eax_post"} /\ job.m > 0)) =>
         br_eax_get_tag(job.ctx) = EaxTag(Nonce(job.nonce), Aad(job.n), Cipher(job.m))
=============================================================================
