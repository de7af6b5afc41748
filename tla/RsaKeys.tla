------------------------------- MODULE RsaKeys --------------------------------
(***************************************************************************)
(* RSA keys (rsa/rsa_i31_*.c): made, completed and used. Big integers are   *)
(* the numbers they stand for, what is in a key are bytes, highest first.   *)
(***************************************************************************)
EXTENDS BigInt, NumberTheory, ServiceJob

CONSTANTS
  ExpBits,      \* bits of a public exponent: 32
  SmallPrimes,  \* those of SMALL_PRIMES: 13 to 1481
  Tests,        \* bases tried by miller_rabin: 2 to 12
  MaxFactor,    \* BR_MAX_RSA_FACTOR
  MaxSize,      \* BR_MAX_RSA_SIZE
  KeySizes,     \* sizes asked for
  PubExps,      \* public exponents asked for
  Foreign,      \* keys that come from elsewhere: [p, q, e, zeros, over]
  OddFactors,   \* factors for the private exponent alone
  Plain         \* numbers that are encrypted or signed

ASSUME RsaAssumption ==
  /\ ExpBits > 2 /\ Tests > 0
  /\ \A s \in KeySizes :
       s <= MaxSize /\ s \div 2 > ExpBits + 1   \* BR_MIN_RSA_SIZE is 512

-----------------------------------------------------------------------------
(* Bytes of a number, and without the zeros at their beginning.               *)
ByteLen(bits) == (bits + ByteBits - 1) \div ByteBits
Stripped(bytes) ==
  LET first == CHOOSE i \in 1..(Len(bytes) + 1) :
                 /\ \A j \in 1..(i - 1) : bytes[j] = 0
                 /\ i = Len(bytes) + 1 \/ bytes[i] # 0
  IN  SubSeq(bytes, first, Len(bytes))

-----------------------------------------------------------------------------
(* rsa_i31_keygen_inner.c. A candidate has its two top and its two low bits  *)
(* set.                                                                      *)
Candidates(bits) ==
  {x \in (3 * 2^(bits - 2))..(2^bits - 1) : x % 4 = 3}

\* The last comparisons look at the remainder modulo 5 for 7 and 11 too.
Sieved(x, e) ==
  /\ \A d \in {3, 5, 7, 11} : ~Divides(d, x)
  /\ ~(e = 3 /\ x % 3 = 1) /\ ~(e \in {5, 7, 11} /\ x % 5 = e)
trial_divisions(x) == \A d \in SmallPrimes : ~Divides(d, x)

\* x = 3 mod 4, and a base has a bit less than x.
Bases(bits) == 0..(2^(bits - 1) - 1)
SaysPrime(x, a) == PowerMod(a, (x - 1) \div 2, x) \in {1, x - 1}

\* m = (x - 1) / 2 is odd: the inverse modulo 2m is odd, d or d + m.
invert_pubexp(m, e) ==
  LET d == InverseMod(e, m) IN IF d % 2 = 1 THEN d ELSE d + m

Keygen(size, pubexp) ==
  [kind |-> "keygen", at |-> "p", size |-> size, e |-> IF pubexp = 0 THEN 3 ELSE pubexp,
   x |-> 0, tests |-> 0, p |-> 0, q |-> 0, dp |-> 0, dq |-> 0]

KeygenInit ==
  \E size \in KeySizes, pubexp \in PubExps :
    /\ pubexp = 0 \/ (pubexp % 2 = 1 /\ pubexp # 1)
    /\ job = Keygen(size, pubexp)

FactorBits == IF job.at = "p" THEN (job.size + 1) \div 2 ELSE job.size \div 2

MkPrime ==
  /\ job.kind = "keygen" /\ job.at \in {"p", "q"} /\ job.x = 0
  /\ \E x \in Candidates(FactorBits) :
       /\ Sieved(x, job.e) /\ trial_divisions(x)
       /\ job' = [job EXCEPT !.x = x, !.tests = 0]

\* One base; what does not pass sends back for another candidate.
MillerRabin ==
  /\ job.kind = "keygen" /\ job.x # 0 /\ job.tests < Tests
  /\ \E a \in Bases(FactorBits) :
       job' = IF SaysPrime(job.x, a) THEN [job EXCEPT !.tests = @ + 1]
              ELSE [job EXCEPT !.x = 0]

\* A factor is kept if the exponent has an inverse.
InvertPubexp ==
  /\ job.kind = "keygen" /\ job.x # 0 /\ job.tests = Tests
  /\ LET m == (job.x - 1) \div 2
         d == invert_pubexp(m, job.e)
     IN  job' = IF ~Coprime(job.e, m) THEN [job EXCEPT !.x = 0]
                ELSE IF job.at = "p" THEN [job EXCEPT !.at = "q", !.x = 0, !.p = job.x, !.dp = d]
                ELSE [job EXCEPT !.at = "end", !.x = 0, !.q = job.x, !.dq = d]

\* What is done with a key: x goes through two operations, v0 is what it was, r
\* what each returned.
Uses(sk, e, ok, n) ==
  [kind |-> "rsa", at |-> "ready", sk |-> sk, e |-> e, ok |-> ok, n |-> n,
   v0 |-> 0, x |-> <<>>, r |-> <<>>]

\* p is to be the greater one.
KeygenEnd ==
  /\ job.kind = "keygen" /\ job.at = "end"
  /\ LET swap == job.size % 2 = 0 /\ job.p < job.q
         p == IF swap THEN job.q ELSE job.p
         q == IF swap THEN job.p ELSE job.q
         plen == ByteLen((job.size + 1) \div 2)
         qlen == ByteLen(job.size \div 2)
         r == Coprime(q, p)
         sk == [bits |-> job.size,
                p |-> BigEndian(p, plen), q |-> BigEndian(q, qlen),
                dp |-> BigEndian(IF swap THEN job.dq ELSE job.dp, plen),
                dq |-> BigEndian(IF swap THEN job.dp ELSE job.dq, qlen),
                iq |-> BigEndian(IF r THEN InverseMod(q, p) ELSE 0, plen)]
     IN  job' = Uses(sk, job.e, r, BigEndian(p * q, ByteLen(job.size)))

-----------------------------------------------------------------------------
(* A key from elsewhere: p may be the lesser one, values may begin with zeros, *)
(* and iq may be larger than p.                                              *)
ForeignKey(k) ==
  LET n == k.p * k.q
      bytes(v) == BigEndian(v, ByteLen(Size(v)) + k.zeros)
  IN  [bits |-> Size(n), p |-> bytes(k.p), q |-> bytes(k.q),
       dp |-> bytes(InverseMod(k.e, k.p - 1)), dq |-> bytes(InverseMod(k.e, k.q - 1)),
       iq |-> bytes(InverseMod(k.q, k.p) + k.over * k.p)]

ForeignInit ==
  \E k \in Foreign :
    LET sk == ForeignKey(k)
        n == k.p * k.q
    IN  job = Uses(sk, k.e, TRUE, BigEndian(n, ByteLen(Size(n)) + k.zeros))

-----------------------------------------------------------------------------
(* Public and private operation, on x of the length of the modulus. (For an  *)
(* even modulus or factor, r is FALSE and x nothing in particular.)          *)
br_rsa_i31_public(x, pk_n, e) ==
  LET m == Stripped(pk_n)
      n == BytesVal(m)
      v == BytesVal(x)
  IN  IF m = <<>> \/ Len(m) > MaxSize \div ByteBits \/ Len(x) # Len(m) THEN [x |-> x, r |-> FALSE]
      ELSE [x |-> BigEndian(PowerMod(IF v < n THEN v ELSE 0, e, n), Len(x)),
            r |-> n % 2 = 1 /\ v < n]

\* Six numbers of the longer factor, in words and an even number of them, are to
\* fit into the temporaries.
FactorWords(plen, qlen) ==
  LET z == ByteBits * (IF plen > qlen THEN plen ELSE qlen)
      words == 1 + (z + W - 1) \div W
  IN  words + (words % 2)
TooLong(plen, qlen) ==
  6 * FactorWords(plen, qlen) > 8 * (2 + (MaxFactor + W - 1) \div W)

br_rsa_i31_private(x, sk) ==
  LET p == BytesVal(sk.p)
      q == BytesVal(sk.q)
      v == BytesVal(x)
      s1 == PowerMod(v, BytesVal(sk.dp), p)
      s2 == PowerMod(v, BytesVal(sk.dq), q)
      h == (((s1 - s2) % p) * (BytesVal(sk.iq) % p)) % p
  IN  IF TooLong(Len(Stripped(sk.p)), Len(Stripped(sk.q))) THEN [x |-> x, r |-> FALSE]
      ELSE [x |-> BigEndian(s2 + q * h, Len(x)),
            r |-> p % 2 = 1 /\ q % 2 = 1 /\ v < p * q]

\* For factors that fit its buffer; it returns 0 for longer ones.
br_rsa_i31_compute_modulus(sk) ==
  BigEndian(BytesVal(sk.p) * BytesVal(sk.q), ByteLen(sk.bits))

\* Factors of 32 bits or less are refused.
Lengthy(bytes) ==
  /\ Len(Stripped(bytes)) > ByteLen(ExpBits)
  /\ Len(Stripped(bytes)) <= MaxFactor \div ByteBits

get_pubexp(p, dp) ==
  LET m == (BytesVal(p) - 1) \div 2
      d == BytesVal(dp)
      low == IF d >= m THEN d - m ELSE d
      e == InverseMod(low, m)
      proper == /\ Lengthy(p) /\ d # 0 /\ d % 2 = 1 /\ BytesVal(p) % 4 = 3
                /\ Len(Stripped(dp)) <= Len(Stripped(p))
                /\ Len(Stripped(dp)) = Len(Stripped(p))
                     => Stripped(dp)[1] <= Stripped(p)[1]
  IN  IF proper /\ low < m /\ Coprime(low, m) /\ e < 2^ExpBits /\ e % 2 = 1 THEN e ELSE 0

br_rsa_i31_compute_pubexp(sk) ==
  LET ep == get_pubexp(sk.p, sk.dp) IN
  IF ep = get_pubexp(sk.q, sk.dq) THEN ep ELSE 0

\* One of the two operations and then the other: a message or a signature.
RsaOperation(public) ==
  IF public THEN br_rsa_i31_public(job.x, job.n, job.e)
  ELSE br_rsa_i31_private(job.x, job.sk)

RsaBegin ==
  /\ job.kind = "rsa" /\ job.at = "ready"
  /\ \E v \in Plain, at \in {"encrypt", "sign"} :
       /\ v < 2^(ByteBits * ByteLen(job.sk.bits))
       /\ job' = [job EXCEPT !.at = at, !.v0 = v,
                             !.x = BigEndian(v, ByteLen(job.sk.bits))]

RsaFirst ==
  /\ job.kind = "rsa" /\ job.at \in {"encrypt", "sign"} /\ job.r = <<>>
  /\ LET s == RsaOperation(job.at = "encrypt") IN
     job' = [job EXCEPT !.x = s.x, !.r = <<s.r>>]

RsaSecond ==
  /\ job.kind = "rsa" /\ Len(job.r) = 1
  /\ LET s == RsaOperation(job.at = "sign") IN
     job' = [job EXCEPT !.x = s.x, !.r = Append(@, s.r)]

-----------------------------------------------------------------------------
(* br_rsa_i31_compute_privexp: u0 * e - v0 * r = gcd(e, r) on machine words.  *)
OnWord(n) == n % 2^ExpBits

PrivexpInit ==
  \E p \in OddFactors, q \in OddFactors, e \in {k \in 3..(2^ExpBits - 1) : k % 2 = 1} :
    LET phi == (p - 1) * (q - 1)
        r == phi % e
    IN  /\ Lengthy(BigEndian(p, ByteLen(Size(p)))) /\ Lengthy(BigEndian(q, ByteLen(Size(q))))
        /\ r # 0
        /\ job = [kind |-> "privexp", at |-> "loop", p |-> p, q |-> q, e |-> e, r |-> r,
                  k |-> phi \div e, i |-> 0, a |-> e, u0 |-> 1, v0 |-> 0,
                  b |-> r, u1 |-> r, v1 |-> e - 1, d |-> 0]

\* Half of u and of v, after (r, e) was added if v is odd.
HalfOf(n, v, half) == OnWord((n \div 2) + (IF v % 2 = 1 THEN half ELSE 0))

PrivexpTurn ==
  /\ job.kind = "privexp" /\ job.at = "loop" /\ job.i < 2 * (ExpBits - 1)
  /\ LET j == job
         odd == j.a % 2 = 1 /\ j.b % 2 = 1
         sab == odd /\ j.a > j.b
         sba == odd /\ j.b > j.a
         da == j.a % 2 = 0 \/ sab
         db == (j.a % 2 = 1 /\ j.b % 2 = 0) \/ sba
         less(n, k, over, m) == OnWord(n - (k - IF over THEN m ELSE 0))
         a == IF sab THEN j.a - j.b ELSE j.a
         b == IF sba THEN j.b - j.a ELSE j.b
         u0 == IF sab THEN less(j.u0, j.u1, j.v1 > j.v0, j.r) ELSE j.u0
         v0 == IF sab THEN less(j.v0, j.v1, j.v1 > j.v0, j.e) ELSE j.v0
         u1 == IF sba THEN less(j.u1, j.u0, j.v0 > j.v1, j.r) ELSE j.u1
         v1 == IF sba THEN less(j.v1, j.v0, j.v0 > j.v1, j.e) ELSE j.v1
         hr == (j.r + 1) \div 2
         he == (j.e \div 2) + 1
     IN  job' = [j EXCEPT !.i = @ + 1,
           !.a = IF da THEN a \div 2 ELSE a, !.b = IF db THEN b \div 2 ELSE b,
           !.u0 = IF da THEN HalfOf(u0, v0, hr) ELSE u0,
           !.v0 = IF da THEN HalfOf(v0, v0, he) ELSE v0,
           !.u1 = IF db THEN HalfOf(u1, v1, hr) ELSE u1,
           !.v1 = IF db THEN HalfOf(v1, v1, he) ELSE v1]

\* d = u + v * k, or 0 if there is no inverse.
PrivexpEnd ==
  /\ job.kind = "privexp" /\ job.at = "loop" /\ job.i = 2 * (ExpBits - 1)
  /\ job' = [job EXCEPT !.at = "done", !.d = IF job.a = 1 THEN job.u0 + job.v0 * job.k ELSE 0]

RsaInit == KeygenInit \/ ForeignInit \/ PrivexpInit
RsaNext ==
  \/ MkPrime \/ MillerRabin \/ InvertPubexp \/ KeygenEnd
  \/ RsaBegin \/ RsaFirst \/ RsaSecond
  \/ PrivexpTurn \/ PrivexpEnd

-----------------------------------------------------------------------------
(* Properties.                                                               *)
\* A factor that is kept has its exponent, whether it is prime or not.
ExponentOf(f, d) == f # 0 => (job.e * d) % (f - 1) = 1

\* A prime that was sieved is given up for the sake of a base only if it is 0.
KeygenAgrees ==
  /\ ExponentOf(job.p, job.dp) /\ ExponentOf(job.q, job.dq)
  /\ (job.x # 0 /\ IsPrime(job.x)) =>
       \A a \in Bases(Size(job.x)) \ {0} : SaysPrime(job.x, a)

\* With prime factors a key undoes what it did, in both orders, on every number
\* below the modulus and on no other; the modulus has the size it says; and the
\* public exponent can be told from the private key where that is promised.
RsaAgrees ==
  LET p == BytesVal(job.sk.p)
      q == BytesVal(job.sk.q)
      sound == job.ok /\ p # q /\ IsPrime(p) /\ IsPrime(q)
      told == \A f \in {p, q} : f % 4 = 3 /\ f > 2 * 2^ExpBits
  IN  sound =>
        /\ Size(p * q) = job.sk.bits
        /\ br_rsa_i31_compute_modulus(job.sk) = Stripped(job.n)
        /\ told => br_rsa_i31_compute_pubexp(job.sk) = job.e
        /\ job.r # <<>> => job.r[1] = (job.v0 < p * q)
        /\ (Len(job.r) = 2 /\ job.r[1]) => job.r[2] /\ BytesVal(job.x) = job.v0

\* The loop keeps what it says it keeps, on words that do not overflow, and ends
\* with the inverse whenever there is one.
PrivexpAgrees ==
  LET j == job
      phi == (j.p - 1) * (j.q - 1)
  IN  /\ j.a = j.u0 * j.e - j.v0 * j.r /\ j.b = j.u1 * j.e - j.v1 * j.r
      /\ j.a \in 1..j.e /\ j.b \in 1..j.r
      /\ j.u0 \in 0..j.r /\ j.v0 \in 0..j.e /\ j.u1 \in 0..j.r /\ j.v1 \in 0..j.e
      /\ j.at = "done" =>
           IF Coprime(j.e, j.r) THEN j.d \in 1..(phi - 1) /\ (j.d * j.e) % phi = 1
           ELSE j.d = 0
=============================================================================
