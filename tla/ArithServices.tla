----------------------------- MODULE ArithServices -----------------------------
(***************************************************************************)
(* A number modulo m that goes through operations of the big integers one   *)
(* after the other, beside the integer it stands for: x is v / R^k, R being *)
(* the factor of Montgomery.  y is the number it began as.  And a division,  *)
(* turn by turn.                                                           *)
(***************************************************************************)
EXTENDS ModDiv, ServiceJob

CONSTANTS
  Moduli,     \* moduli
  Sources,    \* byte strings that are decoded
  SmallWords, \* words for br_i31_muladd_small
  Exponents,  \* byte strings of exponents
  Rooms,      \* words for the temporaries of br_i31_modpow_opt
  MaxOps,     \* bound: operations on a number
  Dividends, Divisors  \* of br_i31_moddiv

ToBytes(n, len) == BigEndian(n, len)
Modulus(n) == br_i31_decode(ToBytes(n, WordBytes * 3))
Odd(m) == m.w[1] % 2 = 1

Arith(m, x, v) ==
  [kind |-> "arith", m |-> m, x |-> x, y |-> x, v |-> v, v0 |-> v, k |-> 0, n |-> 0]

ArithInit ==
  \E n \in Moduli, src \in Sources :
    LET m == Modulus(n)
        v == BytesVal(src)
        d == br_i31_decode_mod(src, m)
    IN  \/ job = Arith(m, br_i31_decode_reduce(src, m), v % n)
        \/ job = Arith(m, br_i31_reduce(br_i31_decode(src), m), v % n)
        \/ job = Arith(m, d.x, IF d.r THEN v ELSE 0)

\* The number becomes x, that is v / R^k.
Becomes(x, v, k) ==
  job' = [job EXCEPT !.x = x, !.v = v % Val(job.m.w), !.k = k, !.n = @ + 1]

Power(v, e) ==
  LET f[i \in 0..e] == IF i = 0 THEN 1 ELSE (f[i - 1] * v) % Val(job.m.w) IN f[e]

Factor == Power(2, W * Words(job.m.h))

ArithStep ==
  /\ job.kind = "arith" /\ job.n < MaxOps
  /\ LET m == job.m
         m0i == br_i31_ninv31(m.w[1])
         t == br_i31_sub(job.x, job.y, TRUE)
     IN
     \/ \E z \in SmallWords :
          Becomes(br_i31_muladd_small(job.x, z, m), job.v * Base + z * Power(Factor, job.k), job.k)
     \/ Becomes(br_i31_to_monty(job.x, m), job.v * Factor, job.k)
     \/ job.k = 0 /\ Becomes(br_i31_add(t.x, m, t.cc).x, job.v - job.v0, 0)
     \/ Becomes(br_i31_reduce(br_i31_mulacc(br_i31_zero(m.h), job.x, job.y), m),
                job.v * job.v0, job.k)
     \/ /\ Odd(m)
        /\ \/ Becomes(br_i31_from_monty(job.x, m, m0i), job.v, job.k + 1)
           \/ Becomes(br_i31_montymul(job.x, job.x, m, m0i), job.v * job.v, 2 * job.k + 1)
           \/ Becomes(br_i31_montymul(job.x, job.y, m, m0i), job.v * job.v0, job.k + 1)

-----------------------------------------------------------------------------
(* br_i31_moddiv, for an odd modulus and numbers below it.                   *)
Residue(n, m) == br_i31_decode_mod(ToBytes(n, WordBytes * 3), m).x

ModDivInit ==
  \E n \in {k \in Moduli : k % 2 = 1}, x \in Dividends, y \in Divisors :
    /\ x < n /\ y < n
    /\ LET m == Modulus(n) IN
       job = [kind |-> "moddiv", at |-> "loop", m |-> m, x |-> x, y |-> y,
              s |-> moddiv_init(Residue(x, m), Residue(y, m), m)]

ModDivTurn ==
  /\ job.kind = "moddiv" /\ job.at = "loop" /\ job.s.num >= W - 1
  /\ job' = [job EXCEPT !.s = moddiv_turn(@, job.m, br_i31_ninv31(job.m.w[1]))]

ModDivEnd ==
  /\ job.kind = "moddiv" /\ job.at = "loop" /\ job.s.num < W - 1
  /\ job' = [job EXCEPT !.at = "done", !.s = moddiv_result(@)]

\* The powers. v is the number they are powers of.
PowInit ==
  \E n \in {k \in Moduli : k % 2 = 1}, v \in Dividends, e \in Exponents :
    LET m == Modulus(n)
        x == Residue(v, m)
        pow(kind, at, s) == [kind |-> kind, at |-> at, m |-> m, v |-> v, e |-> e, s |-> s]
    IN  /\ v < n
        /\ \/ job = pow("modpow", "loop", modpow_init(x, m))
           \/ \E twlen \in Rooms :
                /\ WindowLength(m, twlen) > 0
                /\ job = pow("window", "table", window_init(x, e, m, twlen))

ModPowTurn ==
  /\ job.kind = "modpow" /\ job.s.k < Len(job.e) * ByteBits
  /\ job' = [job EXCEPT !.s = modpow_turn(@, job.e, job.m, br_i31_ninv31(job.m.w[1]))]

WindowTable ==
  /\ job.kind = "window" /\ job.at = "table"
  /\ IF Len(job.s.table) < 2^job.s.win_len - 1
       THEN job' = [job EXCEPT !.s = window_power(@, job.m, br_i31_ninv31(job.m.w[1]))]
       ELSE job' = [job EXCEPT !.at = "loop"]

WindowTurn ==
  /\ job.kind = "window" /\ job.at = "loop" /\ (job.s.acc_len > 0 \/ job.s.e # <<>>)
  /\ job' = [job EXCEPT !.s = window_turn(@, job.m, br_i31_ninv31(job.m.w[1]))]

WindowEnd ==
  /\ job.kind = "window" /\ job.at = "loop" /\ job.s.acc_len = 0 /\ job.s.e = <<>>
  /\ job' = [job EXCEPT !.at = "done",
                        !.s.x = br_i31_from_monty(@, job.m, br_i31_ninv31(job.m.w[1]))]

ArithNext ==
  \/ ArithStep
  \/ ModDivTurn \/ ModDivEnd
  \/ ModPowTurn \/ WindowTable \/ WindowTurn \/ WindowEnd

-----------------------------------------------------------------------------
(* Properties.                                                               *)
CommonDivisor(d, n) == d > 1 /\ n % d = 0 /\ job.y % d = 0

\* Every turn of the division keeps a * x = y * u and b * x = y * v modulo m,
\* whatever the two top words made it decide; and at the end it says whether y
\* has an inverse, and has divided by it if so.
DivisionAgrees ==
  LET n == Val(job.m.w)
      same(a, u) == (Val(a) * job.x - job.y * Val(u)) % n = 0
  IN  IF job.at = "loop"
        THEN /\ same(job.s.a, job.s.u) /\ same(job.s.b, job.s.v)
             /\ Val(job.s.u) < n /\ Val(job.s.v) < n
        ELSE /\ job.s.r <=> ~\E d \in 2..n : CommonDivisor(d, n)
             /\ job.s.r => (Val(job.s.w) * job.y - job.x) % n = 0

\* At any turn x is the power for the bits of the exponent that were used.
Is(x, v) == Val(x.w) = v % Val(job.m.w)
PowerAgrees ==
  IF job.kind = "modpow"
    THEN LET low == BytesVal(job.e) % 2^job.s.k IN
         /\ Is(job.s.x, Power(job.v, low))
         /\ Is(job.s.t1, Power(job.v, 2^job.s.k) * Factor)
    ELSE LET used == BytesVal(SubSeq(job.e, 1, Len(job.e) - Len(job.s.e)))
                       \div 2^job.s.acc_len
         IN  IF job.at = "done" THEN Is(job.s.x, Power(job.v, BytesVal(job.e)))
             ELSE Is(job.s.x, Power(job.v, used) * Factor)

\* Words that are added, multiplied, reduced, raised to a power and divided stand
\* for the integers they should, below the modulus and in as many bytes as are
\* asked for: no carry, no quotient that is off by one and no window that is cut
\* short is left uncorrected.
NumberAgrees ==
  /\ job.kind = "arith" =>
       /\ Val(job.x.w) < Val(job.m.w)
       /\ (Val(job.x.w) * Power(Factor, job.k)) % Val(job.m.w) = job.v
       /\ \A len \in 0..(WordBytes * 3) :
            BytesVal(br_i31_encode(len, job.x)) = Val(job.x.w) % 2^(ByteBits * len)
  /\ job.kind = "moddiv" => DivisionAgrees
  /\ job.kind \in {"modpow", "window"} => PowerAgrees
=============================================================================
