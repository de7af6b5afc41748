---------------------------- MODULE X509Minimal ----------------------------
(***************************************************************************)
(* Validation of a certificate chain (x509_minimal.c, x509_minimal.t0).    *)
(* The chain arrives end-entity first, in pieces, and is never stored:     *)
(* what one certificate leaves for the next is a few fields of the         *)
(* context.  A name stands for its hash; a signature for the key that made *)
(* it over this certificate, as this suffices to tell which keys verify it.*)
(***************************************************************************)
EXTENDS Integers, Sequences, SequencesExt, FiniteSets

CONSTANTS
  Names,       \* distinguished names
  Keys,        \* public keys
  KeyType,     \* [Keys -> types of key]
  WeakKeys,    \* RSA keys below min_rsa_size
  Anchors,     \* trust anchors: set of [dn, key, ca]
  EndEntityExts,  \* extensions the first certificate may have
  AuthorityExts,  \* extensions the others may have
  MaxCerts,    \* bound: certificates given to one context, in all chains
  MaxExts      \* bound: different extensions in a certificate

Uses == {"keyx", "sign", "certSign"}
Extensions ==
  [oid : {"basicConstraints"}, ca : BOOLEAN, limit : SUBSET Nat]
  \cup [oid : {"keyUsage"}, uses : SUBSET Uses]
  \cup [oid : {"subjectAltName"}, match : BOOLEAN]
  \cup [oid : {"unknown"}, critical : BOOLEAN]

ASSUME X509Assumption ==
  /\ EndEntityExts \cup AuthorityExts \subseteq Extensions
  /\ WeakKeys \subseteq Keys /\ DOMAIN KeyType = Keys
  /\ Anchors \subseteq [dn : Names, key : Keys, ca : BOOLEAN]
  /\ {MaxCerts, MaxExts} \subseteq Nat

None == "none"

VARIABLES
  ctx,      \* br_x509_minimal_context, and where its T0 program waits
  caller,   \* where the handshake stands: between calls it is here
  chain,    \* history: the certificates of this chain, as far as delivered
  certs     \* history: how many certificates were started, in all chains

x509_vars == <<ctx, caller, chain, certs>>

\* br_x509_minimal_init
X509Init ==
  /\ ctx = [err |-> None, num_certs |-> 0, cert_length |-> FALSE, at |-> "issuer",
            ee |-> TRUE, server_name |-> None, eename |-> FALSE, seenBC |-> FALSE,
            next_dn |-> None, current_dn |-> None, saved_dn |-> None,
            pkey |-> None, key_usages |-> {}, signer_type |-> None, cert_sig |-> None]
  /\ caller = "idle" /\ chain = <<>> /\ certs = 0

-----------------------------------------------------------------------------
(* The steps of decode-certificate.  Each returns the context; one that fails
   leaves an error in it, and the program does not run again. *)
fail(c, err) == [c EXCEPT !.err = err]

read_issuer(c, dn) ==
  [c EXCEPT !.current_dn = dn, !.next_dn = dn, !.at = "validity"]

read_validity(c, now) ==
  IF now THEN [c EXCEPT !.at = "subject"] ELSE fail(c, "EXPIRED")

\* Mutant: the issuer is saved before it was compared with the subject.
read_subject_late(c, dn, cn) ==
  LET read == [c EXCEPT !.current_dn = dn, !.eename = cn /\ c.server_name # None,
                        !.saved_dn = c.next_dn]
  IN IF ~c.ee /\ dn # read.saved_dn THEN fail(read, "DN_MISMATCH")
     ELSE [read EXCEPT !.at = "key"]

\* cn: a Common Name in the subject matches the server's name.
read_subject(c, dn, cn) ==
  LET read == [c EXCEPT !.current_dn = dn,
                        !.eename = c.ee /\ cn /\ c.server_name # None]
  IN IF ~c.ee /\ dn # c.saved_dn THEN fail(read, "DN_MISMATCH")
     ELSE [read EXCEPT !.saved_dn = c.next_dn, !.at = "key"]

\* The result of checking the last signature read with a key; none on success.
verify_signature(c, key) ==
  IF KeyType[key] # c.signer_type THEN "WRONG_KEY_TYPE"
  ELSE IF c.cert_sig # key THEN "BAD_SIGNATURE"
  ELSE None

\* Mutant: every key that was decoded is kept.
read_key_kept(c, key) ==
  LET verdict == verify_signature(c, key)
      read == [c EXCEPT !.seenBC = FALSE, !.at = "extensions", !.pkey = key]
  IN IF key \in WeakKeys THEN fail(c, "WEAK_PUBLIC_KEY")
     ELSE IF ~c.ee /\ verdict # None THEN fail(c, verdict)
     ELSE read

read_key(c, key) ==
  LET verdict == verify_signature(c, key)
      read == [c EXCEPT !.seenBC = FALSE, !.at = "extensions"]
  IN IF key \in WeakKeys THEN fail(c, "WEAK_PUBLIC_KEY")
     ELSE IF c.ee THEN [read EXCEPT !.pkey = key]
     ELSE IF verdict # None THEN fail(c, verdict)
     ELSE read

process_basicConstraints(c, ext) ==
  IF ~ext.ca \/ \E n \in ext.limit : n < c.num_certs - 1
    THEN fail(c, "NOT_CA") ELSE c

process_keyUsage(c, ext) ==
  IF ext.uses = {} THEN fail(c, "FORBIDDEN_KEY_USAGE")
  ELSE IF c.ee THEN [c EXCEPT !.key_usages = ext.uses \cap {"keyx", "sign"}]
  ELSE IF "certSign" \notin ext.uses THEN fail(c, "FORBIDDEN_KEY_USAGE")
  ELSE c

read_extension(c, ext) ==
  CASE ext.oid = "basicConstraints" ->
         IF c.ee THEN c
         ELSE [process_basicConstraints(c, ext) EXCEPT !.seenBC = TRUE]
    [] ext.oid = "keyUsage" -> process_keyUsage(c, ext)
    [] ext.oid = "subjectAltName" ->
         IF c.ee THEN [c EXCEPT !.eename = ext.match /\ c.server_name # None] ELSE c
    [] ext.oid = "unknown" ->
         IF ext.critical THEN fail(c, "CRITICAL_EXTENSION") ELSE c

check_direct_trust(c) ==
  \E a \in Anchors : ~a.ca /\ a.dn = c.current_dn /\ a.key = c.pkey

\* The end of what is signed.
end_tbs(c) ==
  IF c.ee /\ ~c.eename /\ c.server_name # None THEN fail(c, "BAD_SERVER_NAME")
  ELSE IF c.ee /\ check_direct_trust(c) THEN [c EXCEPT !.err = "OK"]
  ELSE IF ~c.ee /\ ~c.seenBC THEN fail(c, "NOT_CA")
  ELSE [c EXCEPT !.at = "signature algorithm"]

read_signature_algorithm(c, type) ==
  IF type = None THEN fail(c, "UNSUPPORTED")
  ELSE [c EXCEPT !.signer_type = type, !.at = "signature"]

\* Anchors are told by the name of the certificate's issuer.
check_trust_anchor_CA(c) ==
  IF \E a \in Anchors : a.ca /\ a.dn = c.saved_dn /\ verify_signature(c, a.key) = None
    THEN [c EXCEPT !.err = "OK"] ELSE c

\* The signature, the end of the certificate and what follows it; the program
\* waits for the next certificate.
read_signature(c, key) ==
  check_trust_anchor_CA([c EXCEPT !.cert_sig = key, !.cert_length = FALSE,
                                  !.ee = FALSE, !.at = "issuer"])
-----------------------------------------------------------------------------
\* Mutant: the certificates of earlier chains count.
xm_start_chain_stale(c, name) ==
  [c EXCEPT !.err = None, !.pkey = None, !.key_usages = {"keyx", "sign"},
            !.at = "issuer", !.ee = TRUE, !.server_name = name]

(* A new run of the T0 program; main sets the usages. *)
xm_start_chain(c, name) ==
  [c EXCEPT !.err = None, !.num_certs = 0, !.pkey = None,
            !.key_usages = {"keyx", "sign"}, !.at = "issuer", !.ee = TRUE,
            !.server_name = name]

StartChain ==
  /\ caller = "idle"
  /\ \E name \in {None, "server"} : ctx' = xm_start_chain(ctx, name)
  /\ caller' = "chain" /\ chain' = <<>> /\ UNCHANGED certs

NoCert == [issuer |-> None, now |-> FALSE, subject |-> None, cn |-> FALSE,
           key |-> None, exts |-> {}, san |-> {}, uses |-> {},
           tbs |-> FALSE, type |-> None, signer |-> None, whole |-> FALSE]

xm_start_cert ==
  /\ caller = "chain" /\ certs < MaxCerts
  /\ \E length \in BOOLEAN :   \* whether it is not 0
       ctx' = IF ctx.err # None THEN ctx
              ELSE IF ~length THEN fail(ctx, "TRUNCATED")
              ELSE [ctx EXCEPT !.cert_length = TRUE]
  /\ caller' = "certificate"
  /\ chain' = Append(chain, NoCert) /\ certs' = certs + 1

\* The next part of a certificate; what comes after a verdict is ignored.
xm_append(at, c, seen) ==
  /\ caller = "certificate" /\ ctx.err = None /\ ctx.cert_length /\ ctx.at = at
  /\ ctx' = c
  /\ chain' = [chain EXCEPT ![Len(chain)] = seen]
  /\ UNCHANGED <<caller, certs>>

Now == Last(chain)

Issuer == \E dn \in Names :
  xm_append("issuer", read_issuer(ctx, dn), [Now EXCEPT !.issuer = dn])

Validity == \E now \in BOOLEAN :
  xm_append("validity", read_validity(ctx, now), [Now EXCEPT !.now = now])

Subject == \E dn \in Names, cn \in BOOLEAN :
  xm_append("subject", read_subject(ctx, dn, cn),
            [Now EXCEPT !.subject = dn, !.cn = cn])

Key == \E key \in Keys :
  xm_append("key", read_key(ctx, key), [Now EXCEPT !.key = key])

Extension == \E ext \in IF ctx.ee THEN EndEntityExts ELSE AuthorityExts :
  /\ xm_append("extensions", read_extension(ctx, ext),
       [Now EXCEPT !.exts = @ \cup {ext},
                   !.san = IF ext.oid = "subjectAltName" THEN {ext.match} ELSE @,
                   !.uses = IF ext.oid = "keyUsage" THEN {ext.uses} ELSE @])
  /\ Cardinality(Now.exts \cup {ext}) <= MaxExts

EndTbs == xm_append("extensions", end_tbs(ctx), [Now EXCEPT !.tbs = TRUE])

\* None is an algorithm that is not known, or its hash function is not.
Algorithm == \E type \in Range(KeyType) \cup {None} :
  xm_append("signature algorithm", read_signature_algorithm(ctx, type),
            [Now EXCEPT !.type = type])

Signature == \E key \in Keys \ WeakKeys :
  xm_append("signature", read_signature(ctx, key),
            [Now EXCEPT !.signer = key, !.whole = TRUE])

\* Mutant: a verdict that came before the end of the certificate is not looked at.
xm_end_cert_always ==
  /\ caller = "certificate"
  /\ ctx' = [ctx EXCEPT !.err = IF ctx.cert_length THEN "TRUNCATED" ELSE @,
                        !.num_certs = @ + 1]
  /\ caller' = "chain"
  /\ UNCHANGED <<chain, certs>>

xm_end_cert ==
  /\ caller = "certificate"
  /\ ctx' = [ctx EXCEPT !.err = IF ctx.err = None /\ ctx.cert_length THEN "TRUNCATED" ELSE @,
                        !.num_certs = @ + 1]
  /\ caller' = "chain"
  /\ UNCHANGED <<chain, certs>>

xm_end_chain ==
  /\ caller = "chain"
  /\ ctx' = IF ctx.err # None THEN ctx
            ELSE IF ctx.num_certs = 0 THEN fail(ctx, "EMPTY_CHAIN")
            ELSE fail(ctx, "NOT_TRUSTED")
  /\ caller' = "idle"
  /\ UNCHANGED <<chain, certs>>

\* The key and its usages, if there is an answer.
xm_get_pkey(c) ==
  IF c.err \in {"OK", "NOT_TRUSTED"} THEN {[key |-> c.pkey, usages |-> c.key_usages]}
  ELSE {}

X509Next ==
  \/ StartChain \/ xm_start_cert \/ xm_end_cert \/ xm_end_chain
  \/ Issuer \/ Validity \/ Subject \/ Key \/ Extension \/ EndTbs
  \/ Algorithm \/ Signature

X509Spec == X509Init /\ [][X509Next]_x509_vars

-----------------------------------------------------------------------------
(* What makes a chain valid, said of the chain as a whole. *)
Of(c, oid) == {e \in c.exts : e.oid = oid}

\* The last name extension (in san) counts, or without one the Common Name.
NameMatches(c) ==
  ctx.server_name = None \/ TRUE \in IF c.san = {} THEN {c.cn} ELSE c.san

\* Every certificate: not expired, a key of good size, nothing critical that is
\* not understood, no empty key usage.
Plain(c) ==
  /\ c.tbs /\ c.now /\ c.key \notin WeakKeys
  /\ \A e \in Of(c, "unknown") : ~e.critical
  /\ \A e \in Of(c, "keyUsage") : e.uses # {}

\* chain[i] may have issued chain[i - 1], with i - 2 certificates of authorities
\* between it and the end entity.
MayIssue(i) ==
  /\ Of(chain[i], "basicConstraints") # {}
  /\ \A e \in Of(chain[i], "basicConstraints") :
       e.ca /\ \A n \in e.limit : n >= i - 2
  /\ \A e \in Of(chain[i], "keyUsage") : "certSign" \in e.uses

SignedBy(c, key) == c.type = KeyType[key] /\ c.signer = key

ValidUpTo(k) ==
  /\ NameMatches(chain[1])
  /\ \A i \in 1..k : Plain(chain[i]) /\ chain[i].whole /\ chain[i].type # None
  /\ \A i \in 2..k :
       /\ MayIssue(i)
       /\ chain[i].subject = chain[i - 1].issuer
       /\ SignedBy(chain[i - 1], chain[i].key)

Anchored(c) == \E a \in Anchors : a.ca /\ a.dn = c.issuer /\ SignedBy(c, a.key)

DirectlyTrusted ==
  /\ chain # <<>> /\ Plain(chain[1]) /\ NameMatches(chain[1])
  /\ \E a \in Anchors : ~a.ca /\ a.dn = chain[1].subject /\ a.key = chain[1].key

(* Soundness of a decision taken piece by piece: whatever was forgotten on the
   way, a chain that is accepted is one that a reader of the whole chain accepts,
   up to a trust anchor or by direct trust.  No chain given before matters. *)
AcceptedIsValid ==
  ctx.err = "OK" =>
    DirectlyTrusted \/ \E k \in DOMAIN chain : ValidUpTo(k) /\ Anchored(chain[k])

\* What an error says of the last certificate that was read, chain[i].
Cause(err, i) ==
  LET c == chain[i] IN
  CASE err = "EXPIRED"             -> ~c.now
    [] err = "DN_MISMATCH"         -> i > 1 /\ c.subject # chain[i - 1].issuer
    [] err = "WEAK_PUBLIC_KEY"     -> c.key \in WeakKeys
    [] err = "WRONG_KEY_TYPE"      -> i > 1 /\ chain[i - 1].type # KeyType[c.key]
    [] err = "BAD_SIGNATURE"       -> i > 1 /\ ~SignedBy(chain[i - 1], c.key)
    [] err = "NOT_CA"              -> i > 1 /\ ~MayIssue(i)
    [] err = "FORBIDDEN_KEY_USAGE" -> \E e \in Of(c, "keyUsage") :
                                        e.uses = {} \/ (i > 1 /\ "certSign" \notin e.uses)
    [] err = "CRITICAL_EXTENSION"  -> \E e \in Of(c, "unknown") : e.critical
    [] err = "BAD_SERVER_NAME"     -> i = 1 /\ ~NameMatches(c)
    [] err = "UNSUPPORTED"         -> c.type = None
    [] err = "TRUNCATED"           -> ~c.whole
    [] OTHER                       -> FALSE

(* Completeness: a chain is refused only for a defect of a certificate that was
   read, or when all of it is good and no anchor is known for any of it. *)
RefusedForCause ==
  CASE ctx.err \in {None, "OK"} -> TRUE
    [] ctx.err = "EMPTY_CHAIN" -> chain = <<>>
    [] ctx.err = "NOT_TRUSTED" ->
         /\ chain # <<>> /\ ValidUpTo(Len(chain)) /\ ~DirectlyTrusted
         /\ \A k \in DOMAIN chain : ~Anchored(chain[k])
    [] OTHER -> \E i \in DOMAIN chain : Cause(ctx.err, i)

\* The key usages the end entity is certified for.
UsesOf(c) ==
  {"keyx", "sign"} \cap UNION IF c.uses = {} THEN {{"keyx", "sign"}} ELSE c.uses

(* The key the handshake goes on with is that of the first certificate, with its
   usages, though every later certificate was decoded into the same buffer. *)
KeyOfEndEntity ==
  caller = "idle" =>
    \A pk \in xm_get_pkey(ctx) :
      pk.key = chain[1].key /\ pk.usages = UsesOf(chain[1])

(* A verdict stands: neither later certificates nor the end of the chain change
   it. *)
VerdictStands == [][ctx.err # None /\ caller # "idle" => ctx'.err = ctx.err]_x509_vars
=============================================================================
