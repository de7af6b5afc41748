---------------------------- MODULE MCCryptoServices ----------------------------
(* Small functions for TLC: the six of the library, blocks of two lengths.      *)
EXTENDS CryptoServices

Small(id) == [id |-> id, block |-> 4, count |-> 2]
Big(id) == [id |-> id, block |-> 8, count |-> 4]

MCImpl == [id \in 1..6 |-> IF id < 5 THEN Small(id) ELSE Big(id)]
MCMacs == {Small(2), Big(6), [id |-> 4, block |-> 8, count |-> 2]}

\* Numbers of up to three words, as bytes: also longer than the modulus, and empty.
MCSources ==
  {<<>>}
  \cup {BigEndian(n, 3) : n \in {0, 1, 31, 32, 511}}
  \cup {BigEndian(n, 5) : n \in {1, 500, 16383, 16415, 32767}}
  \cup {BigEndian(n, 6) : n \in {99999, 262143}}
  \cup {BigEndian(n, 8) : n \in {9999999, 16777215}}
MCExponents == {<<>>, <<0>>, <<1>>, <<5>>, <<0, 5>>, <<2, 7>>}

\* Keys from elsewhere: p may be the lesser factor, values may begin with zeros,
\* 1/q may be larger than p, and p or q may be 1 modulo 4.
MCForeign ==
  {[p |-> k[1], q |-> k[2], e |-> k[3], zeros |-> k[4], over |-> k[5]] :
     k \in {<<103, 127, 5, 1, 1>>, <<67, 71, 17, 0, 3>>, <<73, 103, 5, 2, 0>>,
            <<107, 83, 3, 0, 0>>, <<83, 107, 31, 1, 2>>}}
MCSlack == {-1, 0, 3}
MCPadHash == Small(4)

\* Two curves of prime order: numbers of two bytes of four bits, and of three the
\* top bits of which are cut. On one of them a point has x = 0.
MCCurves == {[p |-> 23, b |-> 15, n |-> 17, g |-> <<1, 6>>, R |-> 64],
             [p |-> 31, b |-> 25, n |-> 23, g |-> <<0, 5>>, R |-> 64]}
MCMultipliers == {Octets(v, 2) : v \in 0..22} \cup {Octets(v, 3) : v \in {1, 6, 15, 16}}
                 \cup {<<>>, <<7>>}
MCPairs == {<<Octets(x, 2), Octets(y, 2)>> : x \in 1..22, y \in {1, 2, 8, 11, 15, 16}}
MCEncodings == {<<>>, <<4, 0, 1, 0, 6, 0>>, <<4, 0, 1, 0, 7>>, <<6, 0, 1, 0, 6>>,
                <<4, 1, 8, 0, 6>>, <<4, 1, 7, 0, 5>>, <<4, 1, 0, 1, 7>>, <<4, 0, 0, 0, 0>>,
                <<4, 1, 15, 0, 5>>, <<4, 2, 0, 0, 6>>}
MCDrawn == {<<0, 0>>, <<0, 7>>, <<3, 5>>, <<7, 8>>, <<9, 4>>, <<13, 1>>, <<15, 15>>}
MCHashes == {<<9>>, <<3, 7>>, <<15, 8>>, <<10, 5, 3>>}
MCRawInts == {Octets(v, len) : v \in {0, 1, 7, 8, 15, 16, 255}, len \in 0..3}
             \cup {Octets(5, 5), Octets(5, 6), Octets(7 * 16^4, 5), Octets(8 * 16^4, 5),
                   Octets(7 * 16^5, 6)}
===============================================================================
