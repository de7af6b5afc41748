-------------------------------- MODULE BigInt --------------------------------
(***************************************************************************)
(* The big integers of int/i31_*.c: words of W bits, the lowest first,      *)
(* under a header that gives the length in bits: k words and r bits more   *)
(* are written k * (W + 1) + r, and a full word may be r = W or one word    *)
(* more.  A word of the machine has one bit more than a word of a number.   *)
(* Conditions are Booleans where the code has masks.                       *)
(***************************************************************************)
EXTENDS Integers, Sequences

CONSTANTS
  W,          \* bits of a word: 31
  ByteBits,   \* bits of a byte: 8
  MaxWindow   \* most bits of a window of br_i31_modpow_opt: 5

ASSUME BigIntAssumption ==
  /\ ByteBits \in 1..W /\ (W + 1) % ByteBits = 0 /\ MaxWindow \in 1..ByteBits

Base == 2^W
Machine == 2 * Base
Words(h) == (h + W) \div (W + 1)
Bit(b) == IF b THEN 1 ELSE 0

\* What it stands for.
Val(w) ==
  LET f[i \in 0..Len(w)] == IF i = 0 THEN 0 ELSE f[i - 1] + w[i] * Base^(i - 1)
  IN  f[Len(w)]
BytesVal(src) ==
  LET f[i \in 0..Len(src)] == IF i = 0 THEN 0 ELSE f[i - 1] * 2^ByteBits + src[i]
  IN  f[Len(src)]

br_i31_zero(h) == [h |-> h, w |-> [i \in 1..Words(h) |-> 0]]

\* The lowest words are replaced.
Onto(w, words) == words \o SubSeq(w, Len(words) + 1, Len(w))

-----------------------------------------------------------------------------
(* From the lowest word on, z(i, cc) is word i and the carry into the next.    *)
Pass(len, start, z(_, _)) ==
  LET f[i \in 0..len] ==
        IF i = 0 THEN [w |-> <<>>, cc |-> start]
        ELSE LET s == f[i - 1]
                 t == z(i, s.cc)
             IN  [w |-> Append(s.w, t % Base), cc |-> t \div Base]
  IN  f[len]

\* Done if ctl, or only compared.
br_i31_add(a, b, ctl) ==
  LET s == Pass(Len(a.w), 0, LAMBDA i, cc : a.w[i] + b.w[i] + cc) IN
  [x |-> IF ctl THEN [a EXCEPT !.w = s.w] ELSE a, cc |-> s.cc # 0]

br_i31_sub(a, b, ctl) ==
  LET s == Pass(Len(a.w), 0, LAMBDA i, cc : a.w[i] - b.w[i] + cc) IN
  [x |-> IF ctl THEN [a EXCEPT !.w = s.w] ELSE a, cc |-> s.cc # 0]

-----------------------------------------------------------------------------
(* Bytes to words and back.                                                  *)
BIT_LENGTH(w) == CHOOSE n \in 0..W : w < 2^n /\ (n = 0 \/ w >= 2^(n - 1))

br_i31_bit_length(w) ==
  LET top == CHOOSE k \in 0..Len(w) :
               (k = 0 \/ w[k] # 0) /\ \A i \in (k + 1)..Len(w) : w[i] = 0
  IN  IF top = 0 THEN 0 ELSE (top - 1) * (W + 1) + BIT_LENGTH(w[top])

\* Bytes from the last on: whole words, and what is left over in acc.
Gathered(src) ==
  LET f[n \in 0..Len(src)] ==
        IF n = 0 THEN [w |-> <<>>, acc |-> 0, acc_len |-> 0]
        ELSE LET s == f[n - 1]
                 b == src[Len(src) + 1 - n]
                 acc == s.acc + b * 2^s.acc_len
                 len == s.acc_len + ByteBits
             IN  IF len < W THEN [s EXCEPT !.acc = acc, !.acc_len = len]
                 ELSE [w |-> Append(s.w, acc % Base), acc_len |-> len - W,
                       acc |-> b \div 2^(ByteBits - (len - W))]
  IN  f[Len(src)]

br_i31_decode(src) ==
  LET s == Gathered(src)
      w == IF s.acc_len = 0 THEN s.w ELSE Append(s.w, s.acc)
  IN  [h |-> br_i31_bit_length(w), w |-> w]

WordBytes == (W + 1) \div ByteBits

\* The comparison goes from the low words up, beyond those of the modulus too.
br_i31_decode_mod(src, m) ==
  LET mlen == Words(m.h)
      tlen == WordBytes + (IF mlen * WordBytes < Len(src) THEN Len(src) ELSE mlen * WordBytes)
      w == Gathered([i \in 1..(tlen - Len(src)) |-> 0] \o src).w
      lower[v \in 0..Len(w)] ==
        IF v = 0 THEN FALSE
        ELSE IF v > mlen THEN IF w[v] = 0 THEN lower[v - 1] ELSE FALSE
        ELSE IF w[v] = m.w[v] THEN lower[v - 1] ELSE w[v] < m.w[v]
      r == lower[Len(w)]
  IN  [x |-> [h |-> m.h, w |-> [v \in 1..mlen |-> IF r THEN w[v] ELSE 0]], r |-> r]

BigEndian(z, n) == [i \in 1..n |-> (z \div 2^(ByteBits * (n - i))) % 2^ByteBits]

\* A machine word at a time, the last one cut.
br_i31_encode(len, x) ==
  LET word(k) == IF k <= Words(x.h) THEN x.w[k] ELSE 0
      turn(s) ==
        LET w == word(s.k)
            left == len - Len(s.out)
            n == IF left < WordBytes THEN left ELSE WordBytes
        IN  IF s.acc_len = 0
              THEN [s EXCEPT !.k = @ + 1, !.acc = w, !.acc_len = W]
              ELSE [k |-> s.k + 1, acc_len |-> s.acc_len - 1,
                    acc |-> w \div 2^(W + 1 - s.acc_len),
                    out |-> BigEndian((s.acc + w * 2^s.acc_len) % Machine, n) \o s.out]
      f[n \in 0..(2 * len + 2)] ==
        IF n = 0 THEN [k |-> 1, acc |-> 0, acc_len |-> 0, out |-> <<>>]
        ELSE LET s == f[n - 1] IN IF Len(s.out) = len THEN s ELSE turn(s)
  IN  IF Words(x.h) = 0 THEN [i \in 1..len |-> 0] ELSE f[2 * len + 2].out

-----------------------------------------------------------------------------
(* br_divrem: a bit of the quotient at a time, for hi < d on machine words.  *)
br_divrem(hi, lo, d) ==
  LET f[k \in 1..(W + 1)] ==
        IF k = W + 1 THEN [hi |-> IF hi = d THEN 0 ELSE hi, lo |-> lo, q |-> 0]
        ELSE LET s == f[k + 1]
                 j == W + 1 - k
                 w == ((s.hi * 2^j) % Machine) + (s.lo \div 2^k)
             IN  IF w >= d \/ (s.hi \div 2^k) % 2 = 1
                   THEN [hi |-> ((w - d) % Machine) \div 2^j,
                         lo |-> (s.lo - d * 2^k) % Machine, q |-> s.q + 2^k]
                   ELSE s
      end(s) == LET cf == s.lo >= d \/ s.hi # 0 IN
                [q |-> s.q + Bit(cf), r |-> IF cf THEN (s.lo - d) % Machine ELSE s.lo]
  IN  end(f[1])

\* The negative part shows in what is left to borrow.
Overshot(cc, hi) == cc > hi

\* The quotient by the top words is too high by one, or right, or too low by one.
Estimate(a0, b0, g) == IF a0 = b0 THEN Base - 1 ELSE IF g = 0 THEN 0 ELSE g - 1

\* What is left of x if q times the modulus is taken away; tb says whether it is
\* above the modulus as far as its words go.
TakenAway(x, m, q) ==
  LET next(s, u) ==
        LET zl == m.w[u] * q + s.cc
            nxw == x[u] - (zl % Base)
        IN  [cc |-> (zl \div Base) + Bit(nxw < 0),
             tb |-> IF nxw % Base = m.w[u] THEN s.tb ELSE nxw % Base > m.w[u],
             w |-> Append(s.w, nxw % Base)]
      f[u \in 0..Words(m.h)] ==
        IF u = 0 THEN [cc |-> 0, tb |-> TRUE, w |-> <<>>] ELSE next(f[u - 1], u)
  IN  f[Words(m.h)]

Corrected(x, m, s, hi) ==
  LET over == Overshot(s.cc, hi)
      less(y) == br_i31_sub(y, m, ~over /\ (s.tb \/ s.cc < hi)).x
  IN  less(br_i31_add([x EXCEPT !.w = s.w], m, over).x)

\* x * Base + z modulo m.
br_i31_muladd_small(x, z, m) ==
  LET mlen == Words(m.h)
      mblr == m.h % (W + 1)
      top(w, i) == IF mblr = 0 THEN w[i]
                   ELSE (w[i] * 2^(W - mblr) + w[i - 1] \div 2^mblr) % Base
      moved == <<z>> \o SubSeq(x.w, 1, mlen - 1)
      divided(a0, a1, b0) == Estimate(a0, b0, br_divrem(a0 \div 2, a1 + (a0 % 2) * Base, b0).q)
  IN  IF m.h = 0 THEN x
      ELSE IF m.h <= W
        THEN [x EXCEPT !.w = <<br_divrem(x.w[1] \div 2, (x.w[1] % 2) * Base + z, m.w[1]).r>>]
      ELSE Corrected(x, m,
             TakenAway(moved, m, divided(top(x.w, mlen), top(moved, mlen), top(m.w, mlen))),
             x.w[mlen])
=============================================================================
