---------------------------- MODULE CryptoServices ----------------------------
(* Every job of the services that work on data only.                          *)
EXTENDS HashServices, AeadServices, ArithServices, RsaKeys, RsaPadding, Ecdsa

Init == HashInit \/ AeadInit \/ ArithInit \/ ModDivInit \/ PowInit \/ RsaInit \/ PadInit
  \/ EcInit \/ EcdsaInit
Next == HashNext \/ AeadNext \/ ArithNext \/ RsaNext \/ PadNext \/ EcNext \/ EcdsaNext
Spec == Init /\ [][Next]_job

\* What RSA makes of a number can be undone, with keys that were made here or
\* elsewhere; keys that are made or completed fit together; and only what was
\* padded as the standards say is taken for a padded value (rsa/*.c).
KeysAgree ==
  CASE job.kind = "keygen" -> KeygenAgrees
    [] job.kind = "rsa" -> RsaAgrees
    [] job.kind = "privexp" -> PrivexpAgrees
    [] job.kind = "pad" ->
         (CASE job.scheme = "sig" -> SigPadAgrees
            [] job.scheme = "oaep" -> OaepAgrees
            [] OTHER -> KxAgrees)
    [] OTHER -> TRUE

\* Points that are read, multiplied and added are those of the group of the curve,
\* and signatures over them, in both forms, those of the standard (ec/*.c).
CurvesAgree ==
  CASE job.kind = "ec" -> EcAgrees
    [] job.kind = "ecdsa" -> EcdsaAgrees
    [] job.kind = "asn1" -> Asn1Agrees
    [] OTHER -> TRUE
===============================================================================
