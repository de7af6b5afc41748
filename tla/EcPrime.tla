------------------------------- MODULE EcPrime --------------------------------
(***************************************************************************)
(* Elliptic curves of prime order (ec/ec_prime_i31.c): points in Jacobian   *)
(* coordinates, the formulas that are run on registers, the ladder window    *)
(* by window, and what is offered above them.  A field element stands for a   *)
(* number below p; Montgomery form is a factor R, the products divide by it. *)
(***************************************************************************)
EXTENDS NumberTheory, Sequences, ServiceJob

CONSTANTS
  OctetBits,   \* bits of a byte: 8
  Curves,      \* y^2 = x^3 - 3x + b modulo p, of order n: [p, b, n, g, R], g a point
  Multipliers, \* byte strings, for one point
  Pairs,       \* pairs of byte strings, for the sum of two multiples
  Encodings    \* byte strings that are not the encoding of a point

ASSUME EcAssumption == OctetBits % 2 = 0

Octets(v, len) == [i \in 1..len |-> (v \div 2^(OctetBits * (len - i))) % 2^OctetBits]
Number(octets) ==
  LET f[i \in 0..Len(octets)] == IF i = 0 THEN 0 ELSE f[i - 1] * 2^OctetBits + octets[i]
  IN  f[Len(octets)]
FieldLen(c) == (Size(c.p) + OctetBits - 1) \div OctetBits

-----------------------------------------------------------------------------
(* Registers and code.  A point and another go into x1 to z2.                *)
montymul(a, b, c) == (a * b * InverseMod(c.R % c.p, c.p)) % c.p

Set(d, a) == [op |-> "set", d |-> d, a |-> a, b |-> a]
Add(d, a) == [op |-> "add", d |-> d, a |-> a, b |-> a]
Sub(d, a) == [op |-> "sub", d |-> d, a |-> a, b |-> a]
Mul(d, a, b) == [op |-> "mul", d |-> d, a |-> a, b |-> b]
Inv(d) == [op |-> "inv", d |-> d, a |-> d, b |-> d]
TestZero(d) == [op |-> "tz", d |-> d, a |-> d, b |-> d]

\* s = 4xy^2, m = 3(x + z^2)(x - z^2), x' = m^2 - 2s, y' = m(s - x') - 8y^4, z' = 2yz
code_double ==
  << Mul("t1", "z1", "z1"), Set("t2", "x1"), Sub("t2", "t1"), Add("t1", "x1"),
     Mul("t3", "t1", "t2"), Set("t1", "t3"), Add("t1", "t3"), Add("t1", "t3"),
     Mul("t3", "y1", "y1"), Add("t3", "t3"), Mul("t2", "x1", "t3"), Add("t2", "t2"),
     Mul("x1", "t1", "t1"), Sub("x1", "t2"), Sub("x1", "t2"),
     Mul("t4", "y1", "z1"), Set("z1", "t4"), Add("z1", "t4"),
     Sub("t2", "x1"), Mul("y1", "t1", "t2"), Mul("t4", "t3", "t3"),
     Sub("y1", "t4"), Sub("y1", "t4") >>

\* h = u2 - u1, r = s2 - s1, x3 = r^2 - h^3 - 2u1h^2, y3 = r(u1h^2 - x3) - s1h^3, z3 = hz1z2
code_add ==
  << Mul("t3", "z2", "z2"), Mul("t1", "x1", "t3"), Mul("t4", "z2", "t3"), Mul("t3", "y1", "t4"),
     Mul("t4", "z1", "z1"), Mul("t2", "x2", "t4"), Mul("t5", "z1", "t4"), Mul("t4", "y2", "t5"),
     Sub("t2", "t1"), Sub("t4", "t3"), TestZero("t4"),
     Mul("t7", "t2", "t2"), Mul("t6", "t1", "t7"), Mul("t5", "t7", "t2"),
     Mul("x1", "t4", "t4"), Sub("x1", "t5"), Sub("x1", "t6"), Sub("x1", "t6"),
     Sub("t6", "x1"), Mul("y1", "t4", "t6"), Mul("t1", "t5", "t3"), Sub("y1", "t1"),
     Mul("t1", "z1", "z2"), Mul("z1", "t1", "t2") >>

\* x and y as they were read; x2, y2 and z2 are R^2, bR and 1.
code_check ==
  << Mul("t1", "x1", "x2"), Mul("t2", "y1", "x2"), Set("x1", "t1"), Set("y1", "t2"),
     Mul("t2", "x1", "x1"), Mul("t1", "x1", "t2"),
     Sub("t1", "x1"), Sub("t1", "x1"), Sub("t1", "x1"), Add("t1", "y2"),
     Mul("t2", "y1", "y1"), Sub("t1", "t2"), TestZero("t1"), Mul("z1", "x2", "z2") >>

\* z2 is 1.
code_affine ==
  << Set("t1", "z1"), Mul("t2", "z1", "z1"), Mul("t3", "z1", "t2"), Mul("t2", "t3", "z2"),
     Inv("t2"), Set("t3", "y1"), Mul("y1", "t2", "t3"), Mul("t3", "t2", "t1"),
     Set("t2", "x1"), Mul("x1", "t2", "t3") >>

\* What an instruction leaves in its register; a test leaves it as it is.
Outcome(i, t, c) ==
  CASE i.op = "set" -> t[i.a]
    [] i.op = "add" -> (t[i.d] + t[i.a]) % c.p
    [] i.op = "sub" -> (t[i.d] - t[i.a]) % c.p
    [] i.op = "mul" -> montymul(t[i.a], t[i.b], c)
    [] i.op = "inv" -> PowerMod(t[i.d], c.p - 2, c.p)
    [] OTHER -> t[i.d]

\* r tells whether every test found a number that is not zero.
run_code(P1, P2, c, code) ==
  LET regs == [x1 |-> P1[1], y1 |-> P1[2], z1 |-> P1[3], x2 |-> P2[1], y2 |-> P2[2],
               z2 |-> P2[3], t1 |-> 0, t2 |-> 0, t3 |-> 0, t4 |-> 0, t5 |-> 0, t6 |-> 0,
               t7 |-> 0]
      next(s, i) == [t |-> [s.t EXCEPT ![i.d] = Outcome(i, s.t, c)],
                     r |-> s.r /\ (i.op = "tz" => s.t[i.d] # 0)]
      after[u \in 0..Len(code)] ==
        IF u = 0 THEN [t |-> regs, r |-> TRUE] ELSE next(after[u - 1], code[u])
      end(s) == [P |-> <<s.t.x1, s.t.y1, s.t.z1>>, r |-> s.r]
  IN  end(after[Len(code)])

point_zero == <<0, 0, 0>>
point_double(P, c) == run_code(P, P, c, code_double).P
point_add(P1, P2, c) == run_code(P1, P2, c, code_add)

-----------------------------------------------------------------------------
(* Points in and out.                                                        *)
\* A coordinate that is not below p is read as 0.
decode_mod(octets, p) == IF Number(octets) < p THEN Number(octets) ELSE 0

point_decode(src, c) ==
  LET len == FieldLen(c)
      x == SubSeq(src, 2, 1 + len)
      y == SubSeq(src, 2 + len, 1 + 2 * len)
      s == run_code(<<decode_mod(x, c.p), decode_mod(y, c.p), 0>>,
                    <<(c.R * c.R) % c.p, (c.b * c.R) % c.p, 1>>, c, code_check)
  IN  IF Len(src) # 1 + 2 * len THEN [P |-> point_zero, r |-> FALSE]
      ELSE [P |-> s.P, r |-> Number(x) < c.p /\ Number(y) < c.p /\ src[1] = 4 /\ ~s.r]

point_encode(P, c) ==
  LET Q == run_code(P, <<0, 0, 1>>, c, code_affine).P IN
  <<4>> \o Octets(Q[1], FieldLen(c)) \o Octets(Q[2], FieldLen(c))

-----------------------------------------------------------------------------
(* The ladder: from the highest bits of x on, two at a time.                 *)
Ladder(P, x, c) ==
  LET P2 == point_double(P, c) IN
  [P |-> P, P2 |-> P2, P3 |-> point_add(P, P2, c).P, Q |-> point_zero, qz |-> TRUE,
   x |-> x, w |-> 0]

Windows(x) == Len(x) * (OctetBits \div 2)
Window(x, w) ==
  LET u == w \div (OctetBits \div 2)
      k == OctetBits - 2 - 2 * (w % (OctetBits \div 2))
  IN  (x[u + 1] \div 2^k) % 4

\* Mutant: nothing tells the first window that is not zero from the others.
BeforeAny_never(qz) == FALSE

BeforeAny(qz) == qz

\* Q is infinity, that cannot be added to, until there was a window.
LadderTurn(l, c) ==
  LET Q == point_double(point_double(l.Q, c), c)
      bits == Window(l.x, l.w)
      T == CASE bits = 2 -> l.P2 [] bits = 3 -> l.P3 [] OTHER -> l.P
  IN  [l EXCEPT !.w = @ + 1, !.qz = @ /\ bits = 0,
                !.Q = IF bits = 0 THEN Q ELSE IF BeforeAny(l.qz) THEN T
                      ELSE point_add(Q, T, c).P]
Ended(l) == l.w = Windows(l.x)

\* The sum of two points that are not infinity; r is FALSE if it is infinity.
SumOf(P, Q, c) ==
  LET s == point_add(P, Q, c)
      z == s.P[3] = 0
  IN  [P |-> IF z /\ ~s.r THEN point_double(Q, c) ELSE s.P, r |-> ~(z /\ s.r)]

-----------------------------------------------------------------------------
(* api_mul and api_muladd on their own; ladders are run one after the other.  *)
EcJob(use, A, c, r, ladders) ==
  [kind |-> "ec", use |-> use, A |-> A, c |-> c, r |-> r, l |-> ladders, out |-> <<>>]

Multiply(A, x, c) ==
  LET s == point_decode(A, c) IN EcJob("mul", A, c, s.r, <<Ladder(s.P, x, c)>>)
MultiplyAdd(A, B, x, y, c) ==
  LET P == point_decode(A, c)
      Q == point_decode(B, c)
  IN  EcJob("muladd", A, c, P.r /\ Q.r, <<Ladder(P.P, x, c), Ladder(Q.P, y, c)>>)

LadderStep ==
  /\ job.kind \in {"ec", "ecdsa"}
  /\ \E i \in DOMAIN job.l :
       /\ ~Ended(job.l[i]) /\ \A j \in 1..(i - 1) : Ended(job.l[j])
       /\ job' = [job EXCEPT !.l[i] = LadderTurn(@, job.c)]

AllEnded == \A i \in DOMAIN job.l : Ended(job.l[i])

EcEnd ==
  /\ job.kind = "ec" /\ job.out = <<>> /\ AllEnded
  /\ IF job.use = "mul"
       THEN job' = [job EXCEPT !.out = point_encode(job.l[1].Q, job.c)]
       ELSE LET s == SumOf(job.l[1].Q, job.l[2].Q, job.c) IN
            job' = [job EXCEPT !.out = point_encode(s.P, job.c), !.r = @ /\ s.r]

\* All points of a curve but infinity.
Points(c) == {P \in (0..(c.p - 1)) \X (0..(c.p - 1)) :
                (P[2] * P[2] - P[1] * P[1] * P[1] + 3 * P[1] - c.b) % c.p = 0}
Encode(P, c) == <<4>> \o Octets(P[1], FieldLen(c)) \o Octets(P[2], FieldLen(c))

EcInit ==
  \E c \in Curves :
    \/ \E P \in Points(c), x \in Multipliers : job = Multiply(Encode(P, c), x, c)
    \/ \E A \in Encodings : job = Multiply(A, <<1>>, c)
    \/ \E P \in {<<c.g[1], c.p - c.g[2]>>, c.g}, xy \in Pairs :
         job = MultiplyAdd(Encode(P, c), Encode(c.g, c), xy[1], xy[2], c)
EcNext == LadderStep \/ EcEnd

-----------------------------------------------------------------------------
(* Properties.                                                               *)
\* The group of the curve.
Infinity == <<>>
Plus(A, B, c) ==
  LET slope == IF A = B THEN (3 * A[1] * A[1] - 3) * InverseMod((2 * A[2]) % c.p, c.p)
               ELSE (B[2] - A[2]) * InverseMod((B[1] - A[1]) % c.p, c.p)
      third(m) == LET x == (m * m - A[1] - B[1]) % c.p IN <<x, (m * (A[1] - x) - A[2]) % c.p>>
  IN  IF A = Infinity THEN B ELSE IF B = Infinity THEN A
      ELSE IF A[1] = B[1] /\ A # B THEN Infinity
      ELSE third(slope % c.p)
Times(k, A, c) ==
  LET f[i \in 0..k] == IF i = 0 THEN Infinity ELSE Plus(f[i - 1], A, c) IN f[k]

\* The point Jacobian coordinates stand for.
Affine(P, c) ==
  LET zi == InverseMod((P[3] * InverseMod(c.R % c.p, c.p)) % c.p, c.p)
      plain(v) == (v * InverseMod(c.R % c.p, c.p)) % c.p
  IN  IF P[3] = 0 THEN Infinity
      ELSE <<(plain(P[1]) * ((zi * zi) % c.p)) % c.p,
             (plain(P[2]) * ((((zi * zi) % c.p) * zi) % c.p)) % c.p>>

\* At every window Q is the multiple by the bits that were read.
LadderAgrees(l, c) ==
  LET k == Number(l.x) \div 4^(Windows(l.x) - l.w)
  IN  Number(l.x) < c.n => Affine(l.Q, c) = Times(k % c.n, Affine(l.P, c), c) /\ l.qz = (k = 0)

InOrder(l, c) == Number(l.x) \in 1..(c.n - 1)
Multiple(l, c) == Times(Number(l.x), Affine(l.P, c), c)

\* What is read as a point is one. Multipliers below the order give that multiple,
\* window by window, and two of them the sum, whether it takes an addition or a
\* doubling, or is infinity and refused.
EcAgrees ==
  LET c == job.c
      point == \E P \in Points(c) : job.A = Encode(P, c)
      inOrder == \A i \in DOMAIN job.l : InOrder(job.l[i], c)
  IN  /\ job.out = <<>> => job.r = point
      /\ (point /\ job.out = <<>>) => \A i \in DOMAIN job.l : LadderAgrees(job.l[i], c)
      /\ (point /\ inOrder /\ job.out # <<>>) =>
           IF job.use = "mul" THEN job.r /\ job.out = Encode(Multiple(job.l[1], c), c)
           ELSE LET sum == Plus(Multiple(job.l[1], c), Multiple(job.l[2], c), c) IN
                IF job.r THEN sum # Infinity /\ job.out = Encode(sum, c) ELSE sum = Infinity
=============================================================================
