-------------------------------- MODULE Ecdsa ---------------------------------
(***************************************************************************)
(* ECDSA over the curves of EcPrime: keys (ec_keygen.c, ec_pubkey.c),       *)
(* signatures made and verified (ecdsa_i31_*.c), and their two forms        *)
(* (ecdsa_rta.c, ecdsa_atr.c).                                              *)
(***************************************************************************)
EXTENDS EcPrime

CONSTANTS
  Drawn,    \* byte strings the generators give
  Hashes,   \* hash values, shorter and longer than the order
  RawInts,  \* byte strings of an integer in a raw signature
  ChangedTo     \* what a byte of an encoded signature is changed to

OrderLen(c) == (Size(c.n) + OctetBits - 1) \div OctetBits
Half == 2^(OctetBits - 1)   \* 0x80

-----------------------------------------------------------------------------
(* Numbers modulo n. The radix of Montgomery is that of the field.           *)
Montgomery(a, b, c) == (a * b * InverseMod(c.R % c.n, c.n)) % c.n
from_monty(a, c) == Montgomery(a, 1, c)
Reduced(v, c) == IF v < c.n THEN v ELSE v - c.n

\* The bits of the order, from the left.
Truncated(octets, c) ==
  Number(SubSeq(octets, 1, OrderLen(c))) \div 2^((Len(octets) * OctetBits - Size(c.n)) % OctetBits)

br_ecdsa_i31_bits2int(octets, c) ==
  IF Len(octets) * OctetBits > Size(c.n) THEN Truncated(octets, c) ELSE Number(octets)

XOf(point, c) == Reduced(Number(SubSeq(point, 2, 1 + FieldLen(c))), c)

-----------------------------------------------------------------------------
(* A key, and the public key from it.                                        *)
Generator(c) == point_decode(Encode(c.g, c), c).P

EcdsaJob(c) ==
  [kind |-> "ecdsa", at |-> "keygen", c |-> c, x |-> 0, q |-> <<>>, hash |-> <<>>, k |-> 0,
   l |-> <<>>, sig |-> <<>>, r |-> FALSE]

\* The bits above the highest of the order are cleared.
MaskedKey(octets, c) ==
  LET n == Octets(c.n, OrderLen(c)) IN
  [octets EXCEPT ![1] = @ % 2^Size(n[1])]

EcKeygen ==
  /\ job.kind = "ecdsa" /\ job.at = "keygen"
  /\ \E d \in Drawn :
       LET x == Number(MaskedKey(d, job.c)) IN
       job' = IF x \in 1..(job.c.n - 1)
                THEN [job EXCEPT !.at = "pub", !.x = x,
                        !.l = <<Ladder(Generator(job.c), Octets(x, OrderLen(job.c)), job.c)>>]
                ELSE job

ComputePub ==
  /\ job.kind = "ecdsa" /\ job.at = "pub" /\ AllEnded
  /\ job' = [job EXCEPT !.at = "key", !.q = point_encode(job.l[1].Q, job.c), !.l = <<>>]

-----------------------------------------------------------------------------
(* A signature.                                                              *)
HashInt(hash, c) == Reduced(br_ecdsa_i31_bits2int(hash, c), c)

\* k comes from a generator until it is one.
SignBegin ==
  /\ job.kind = "ecdsa" /\ job.at = "key"
  /\ \E hash \in Hashes, d \in Drawn :
       LET k == br_ecdsa_i31_bits2int(d, job.c) IN
       job' = IF k \in 1..(job.c.n - 1)
                THEN [job EXCEPT !.at = "sign", !.hash = hash, !.k = k,
                        !.l = <<Ladder(Generator(job.c), Octets(k, OrderLen(job.c)), job.c)>>]
                ELSE job

\* 1/k has a factor R^2, that two products take off again.
SignEnd ==
  /\ job.kind = "ecdsa" /\ job.at = "sign" /\ AllEnded
  /\ LET c == job.c
         r == XOf(point_encode(job.l[1].Q, c), c)
         k == PowerMod(from_monty(from_monty(job.k, c), c), c.n - 2, c.n)
         m == from_monty(HashInt(job.hash, c), c)
         s == Montgomery(Reduced(Montgomery(job.x, r, c) + m, c), k, c)
     IN  job' = [job EXCEPT !.at = "signed", !.l = <<>>,
                            !.sig = Octets(r, OrderLen(c)) \o Octets(s, OrderLen(c))]

-----------------------------------------------------------------------------
(* The two forms: r and s in as many bytes each, or two integers of ASN.1.    *)
Leading(x) == CHOOSE z \in 0..Len(x) :
                (\A i \in 1..z : x[i] = 0) /\ (z = Len(x) \/ x[z + 1] # 0)
WithoutZeros(x) == SubSeq(x, Leading(x) + 1, Len(x))
MaxIntLen == (2^OctetBits - 6) \div 2   \* 125: what two of them take is written in a byte

asn1_int_length(x) ==
  LET v == WithoutZeros(x) IN IF v = <<>> \/ v[1] >= Half THEN Len(v) + 1 ELSE Len(v)

Asn1Int(x) ==
  LET len == asn1_int_length(x) IN
  <<2, len>> \o IF len > Len(x) THEN <<0>> \o x ELSE SubSeq(x, Len(x) - len + 1, Len(x))

br_ecdsa_raw_to_asn1(sig) ==
  LET r == SubSeq(sig, 1, Len(sig) \div 2)
      s == SubSeq(sig, Len(sig) \div 2 + 1, Len(sig))
      ints == Asn1Int(r) \o Asn1Int(s)
  IN  IF Len(sig) % 2 = 1 \/ asn1_int_length(r) > MaxIntLen \/ asn1_int_length(s) > MaxIntLen
        THEN <<>>
      ELSE (IF Len(ints) >= Half THEN <<48, Half + 1, Len(ints)>> ELSE <<48, Len(ints)>>) \o ints

\* Both in the fewest bytes that hold them.
Narrow(r, s) ==
  LET a == WithoutZeros(r)
      b == WithoutZeros(s)
      len == IF Len(a) > Len(b) THEN Len(a) ELSE Len(b)
      wide(v) == [i \in 1..(len - Len(v)) |-> 0] \o v
  IN  wide(a) \o wide(b)

\* off is after the header, then where the second integer begins.
br_ecdsa_asn1_to_raw(sig) ==
  LET len == Len(sig)
      long == sig[2] > Half
      off == IF long THEN 3 ELSE 2
      rlen == sig[off + 2]
      mid == off + 2 + rlen
      header == /\ sig[1] = 48 /\ (long => sig[2] = Half + 1)
                /\ sig[off] = len - off /\ sig[off + 1] = 2
      slen == sig[mid + 2]
      second == sig[mid + 1] = 2 /\ slen < Half /\ slen = len - mid - 2
  IN  IF len >= 8 /\ header /\ rlen < Half /\ mid + 2 <= len /\ second
        THEN Narrow(SubSeq(sig, off + 3, mid), SubSeq(sig, mid + 3, len))
        ELSE <<>>

-----------------------------------------------------------------------------
(* A signature is verified: as it is, through the other form, or with another *)
(* value for one of its numbers.                                             *)
Presented(sig, c) ==
  LET len == OrderLen(c)
      values == {Octets(v, len) : v \in 0..(c.n + 1)}
  IN  {sig, br_ecdsa_asn1_to_raw(br_ecdsa_raw_to_asn1(sig))}
      \cup {v \o SubSeq(sig, len + 1, 2 * len) : v \in values}
      \cup {SubSeq(sig, 1, len) \o v : v \in values}

RPart(sig) == Number(SubSeq(sig, 1, Len(sig) \div 2))
SPart(sig) == Number(SubSeq(sig, Len(sig) \div 2 + 1, Len(sig)))

VerifyBegin ==
  /\ job.kind = "ecdsa" /\ job.at = "signed"
  /\ \E sig \in Presented(job.sig, job.c) :
       LET c == job.c
           si == PowerMod(from_monty(SPart(sig), c), c.n - 2, c.n)
           y == Octets(Montgomery(HashInt(job.hash, c), si, c), OrderLen(c))
           x == Octets(Montgomery(RPart(sig), si, c), OrderLen(c))
           Q == point_decode(job.q, c)
       IN  job' = IF Len(sig) % 2 = 1 \/ RPart(sig) >= c.n \/ SPart(sig) >= c.n \/ SPart(sig) = 0
                    THEN [job EXCEPT !.at = "done", !.sig = sig]
                  ELSE [job EXCEPT !.at = "verify", !.sig = sig, !.r = Q.r,
                          !.l = <<Ladder(Q.P, x, c), Ladder(Generator(c), y, c)>>]

VerifyEnd ==
  /\ job.kind = "ecdsa" /\ job.at = "verify" /\ AllEnded
  /\ LET c == job.c
         sum == SumOf(job.l[1].Q, job.l[2].Q, c)
     IN  job' = [job EXCEPT !.at = "done", !.l = <<>>,
                   !.r = @ /\ sum.r /\ XOf(point_encode(sum.P, c), c) = RPart(job.sig)]

-----------------------------------------------------------------------------
(* Encodings alone, of any two integers, with one byte changed.              *)
Asn1Job(raw, x) == [kind |-> "asn1", raw |-> raw, x |-> x]
Asn1Init ==
  \E r \in RawInts, s \in RawInts :
    Len(r) = Len(s) /\ job = Asn1Job(r \o s, br_ecdsa_raw_to_asn1(r \o s))
Asn1Edit ==
  /\ job.kind = "asn1" /\ job.x = br_ecdsa_raw_to_asn1(job.raw)
  /\ \E i \in DOMAIN job.x, b \in ChangedTo : job' = [job EXCEPT !.x[i] = b]

EcdsaInit == Asn1Init \/ \E c \in Curves : job = EcdsaJob(c)
EcdsaNext ==
  \/ EcKeygen \/ ComputePub \/ SignBegin \/ SignEnd \/ VerifyBegin \/ VerifyEnd
  \/ Asn1Edit

-----------------------------------------------------------------------------
(* Properties.                                                               *)
\* The number a hash value stands for (FIPS 186-4).
HashNumber(hash, c) ==
  LET bits == Len(hash) * OctetBits IN
  (IF bits > Size(c.n) THEN Number(hash) \div 2^(bits - Size(c.n)) ELSE Number(hash)) % c.n

Genuine(c) ==
  LET r == RPart(job.sig)
      s == SPart(job.sig)
      u(v) == (v * InverseMod(s, c.n)) % c.n
      sum == Plus(Times(u(HashNumber(job.hash, c)), c.g, c), Times((u(r) * job.x) % c.n, c.g, c), c)
  IN  r \in 1..(c.n - 1) /\ s \in 1..(c.n - 1) /\ sum # Infinity /\ sum[1] % c.n = r

\* A public key is the multiple of the generator. A signature fits its key, and is
\* verified in either form; what was changed is refused unless it fits too. (Hashes
\* that are 0 modulo the order, and signatures with r = 0, are left out: the code
\* does not tell a multiple that is infinity.)
EcdsaAgrees ==
  LET c == job.c IN
  /\ \A i \in DOMAIN job.l : LadderAgrees(job.l[i], c)
  /\ job.at \notin {"keygen", "pub"} => job.q = Encode(Times(job.x, c.g, c), c)
  /\ job.at = "signed" =>
       /\ RPart(job.sig) = Times(job.k, c.g, c)[1] % c.n
       /\ (SPart(job.sig) * job.k - HashNumber(job.hash, c) - job.x * RPart(job.sig)) % c.n = 0
  /\ (job.at = "done" /\ RPart(job.sig) # 0 /\ HashNumber(job.hash, c) # 0) => job.r = Genuine(c)

\* What is written is read, and only two integers are, that take all there is.
Asn1Agrees ==
  LET x == job.x
      r == SubSeq(job.raw, 1, Len(job.raw) \div 2)
      s == SubSeq(job.raw, Len(job.raw) \div 2 + 1, Len(job.raw))
      Reads(len, a) ==   \* of a header of len bytes, and a bytes of the first integer
        /\ Len(x) >= 8 /\ len + a + 4 <= Len(x)
        /\ SubSeq(x, 1, len) \in {<<48, Len(x) - 2>>, <<48, Half + 1, Len(x) - 3>>}
        /\ Len(x) - len <= IF len = 2 THEN Half ELSE 2^OctetBits - 1
        /\ x[len + 1] = 2 /\ x[len + 2] = a /\ a < Half
        /\ x[len + a + 3] = 2 /\ x[len + a + 4] = Len(x) - len - a - 4 /\ x[len + a + 4] < Half
      Result(len, a) == Narrow(SubSeq(x, len + 3, len + a + 2), SubSeq(x, len + a + 5, Len(x)))
      out == br_ecdsa_asn1_to_raw(x)
  IN  /\ x = br_ecdsa_raw_to_asn1(job.raw) =>
           out = IF asn1_int_length(r) > MaxIntLen \/ asn1_int_length(s) > MaxIntLen THEN <<>>
                 ELSE Narrow(r, s)
      /\ IF \E len \in {2, 3}, a \in 0..Len(x) : Reads(len, a)
           THEN \E len \in {2, 3}, a \in 0..Len(x) : Reads(len, a) /\ out = Result(len, a)
           ELSE out = <<>>
=============================================================================
