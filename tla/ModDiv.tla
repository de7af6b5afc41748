-------------------------------- MODULE ModDiv --------------------------------
(***************************************************************************)
(* Modular division (int/i31_moddiv.c): a binary GCD that takes W decisions *)
(* at a time from the two top words and the lowest one, and makes up for   *)
(* the wrong ones by a change of sign.  a, b, u and v have no header here.   *)
(***************************************************************************)
EXTENDS Modular

cond_negate(a, ctl) ==
  Pass(Len(a), Bit(ctl), LAMBDA k, cc :
    (IF ctl THEN (a[k] \div Base) * Base + (Base - 1 - (a[k] % Base)) + cc
     ELSE a[k] + cc) % Machine).w

\* -m <= a < 0 if neg, else 0 <= a < 2 * m, where the top word may have one bit
\* more.
finish_mod(a, m, neg) ==
  LET borrow == Pass(Len(a), 0, LAMBDA k, cc : (a[k] - m[k] - cc) % Machine).cc
      mw(k) == IF neg THEN Base - 1 - m[k] ELSE IF borrow = 0 THEN m[k] ELSE 0
  IN  Pass(Len(a), Bit(neg), LAMBDA k, cc : (a[k] - mw(k) - cc) % Machine).w

\* (a * p + b * q + m * f) / Base, the lowest word being zero, with its sign.
Combined(a, b, p, q, m, f) ==
  LET s == Pass(Len(a), 0, LAMBDA k, cc : a[k] * p + b[k] * q + m[k] * f + cc)
  IN  [w |-> Append(Tail(s.w), s.cc % Machine), neg |-> s.cc < 0]

\* One of the two numbers of co_reduce, and of co_reduce_mod.
co_reduce(a, b, p, q) ==
  LET s == Combined(a, b, p, q, a, 0) IN [w |-> cond_negate(s.w, s.neg), neg |-> s.neg]

co_reduce_mod(u, v, p, q, m, m0i) ==
  LET s == Combined(u, v, p, q, m, ((u[1] * p + v[1] * q) * m0i) % Base)
  IN  finish_mod(s.w, m, s.neg)

\* The two top words, where either number has any.
Tops(a, b) ==
  LET j == CHOOSE k \in 1..Len(a) :
             /\ k = 1 \/ a[k] # 0 \/ b[k] # 0
             /\ \A i \in (k + 1)..Len(a) : a[i] = 0 /\ b[i] = 0
      top(w) == IF j = 1 THEN w[1] ELSE w[j] * Base + w[j - 1]
  IN  [a_hi |-> top(a), b_hi |-> top(b)]

\* One decision: which of a and b is halved, and if it is made smaller before.
Decide(s, i) ==
  LET odd(w) == (w \div 2^i) % 2 = 1
      both == odd(s.a_lo) /\ odd(s.b_lo)
      cAB == both /\ s.a_hi > s.b_hi
      cBA == both /\ s.a_hi <= s.b_hi
      cA == cAB \/ ~odd(s.a_lo)
      a_lo == s.a_lo - Bit(cAB) * s.b_lo
      a_hi == s.a_hi - Bit(cAB) * s.b_hi
      pa == s.pa - Bit(cAB) * s.qa
      pb == s.pb - Bit(cAB) * s.qb
      b_lo == s.b_lo - Bit(cBA) * a_lo
      b_hi == s.b_hi - Bit(cBA) * a_hi
      qa == s.qa - Bit(cBA) * pa
      qb == s.qb - Bit(cBA) * pb
      ka == IF cA THEN 1 ELSE 2
      kb == IF cA THEN 2 ELSE 1
  IN  [a_lo |-> (a_lo * ka) % Machine, b_lo |-> (b_lo * kb) % Machine,
       a_hi |-> IF cA THEN a_hi \div 2 ELSE a_hi, b_hi |-> IF cA THEN b_hi ELSE b_hi \div 2,
       pa |-> pa * ka, pb |-> pb * ka, qa |-> qa * kb, qb |-> qb * kb]

Factors(a, b) ==
  LET t == Tops(a, b)
      f[i \in 0..W] ==
        IF i = 0 THEN [a_lo |-> a[1], b_lo |-> b[1], a_hi |-> t.a_hi, b_hi |-> t.b_hi,
                       pa |-> 1, pb |-> 0, qa |-> 0, qb |-> 1]
        ELSE Decide(f[i - 1], i - 1)
  IN  f[W]

Signed(neg, p) == IF neg THEN -p ELSE p

moddiv_init(x, y, m) ==
  LET bits == m.h - (m.h \div (W + 1)) IN
  [num |-> bits * 2 + (W - 1), a |-> y.w, b |-> m.w, u |-> x.w,
   v |-> br_i31_zero(m.h).w]

\* One turn of the loop of br_i31_moddiv.
moddiv_turn(s, m, m0i) ==
  LET f == Factors(s.a, s.b)
      a == co_reduce(s.a, s.b, f.pa, f.pb)
      b == co_reduce(s.a, s.b, f.qa, f.qb)
      reduced(neg, p, q) ==
        co_reduce_mod(s.u, s.v, Signed(neg, p), Signed(neg, q), m.w, m0i)
  IN  [num |-> s.num - (W - 1), a |-> a.w, b |-> b.w,
       u |-> reduced(a.neg, f.pa, f.pb), v |-> reduced(b.neg, f.qa, f.qb)]

\* Words, bit by bit.
Or(x, y) ==
  LET f[i \in 0..W] ==
        IF i = 0 THEN 0
        ELSE f[i - 1] + 2^(i - 1) *
             Bit((x \div 2^(i - 1)) % 2 = 1 \/ (y \div 2^(i - 1)) % 2 = 1)
  IN  f[W]

\* One of a and b is zero, with u or v, and the other the greatest common divisor.
moddiv_result(s) ==
  [w |-> [k \in 1..Len(s.u) |-> Or(s.u[k], s.v[k])],
   r |-> \A k \in 1..Len(s.a) : Or(s.a[k], s.b[k]) = IF k = 1 THEN 1 ELSE 0]
=============================================================================
