------------------------------- MODULE MCX509 -------------------------------
(* A root, an authority below it and a server; a server known by itself. *)
EXTENDS X509Minimal

MCNames == {"Root", "Site"}
MCKeys == {"rsa", "ec", "short"}
MCKeyType == [k \in MCKeys |-> IF k = "ec" THEN "EC" ELSE "RSA"]
MCAnchors == {[dn |-> "Root", key |-> "rsa", ca |-> TRUE],
              [dn |-> "Site", key |-> "ec", ca |-> FALSE]}

BC(ca, limit) == [oid |-> "basicConstraints", ca |-> ca, limit |-> limit]
KU(uses) == [oid |-> "keyUsage", uses |-> uses]
SAN(match) == [oid |-> "subjectAltName", match |-> match]
Unknown(critical) == [oid |-> "unknown", critical |-> critical]

MCEndEntityExts ==
  {BC(FALSE, {}), KU({}), KU({"sign"}), SAN(TRUE), SAN(FALSE), Unknown(TRUE)}
MCAuthorityExts ==
  {BC(TRUE, {}), BC(TRUE, {0}), BC(FALSE, {}), KU({"sign"}), KU({"certSign"}),
   Unknown(TRUE), Unknown(FALSE)}
=============================================================================
