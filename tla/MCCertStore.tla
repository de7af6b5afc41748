---------------------------- MODULE MCCertStore ----------------------------
(* Files of a few blocks.  What an unended block decodes to is open, so that
   one kind of them is enough. *)
EXTENDS CertStore

CONSTANT MaxBlocks  \* length of the longest file

Kinds == {b \in Block : b.ended \/ b.body = "ca"}
MCFiles == UNION {[1..n -> Kinds] : n \in 0..MaxBlocks}

\* All certificates compiled in decode, or all but the first.
MCAll == 1..PublicCount
MCDecodable == 2..PublicCount
=============================================================================
