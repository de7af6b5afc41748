------------------------------- MODULE Modular --------------------------------
(***************************************************************************)
(* Arithmetic modulo m over the numbers of BigInt: reduction, Montgomery    *)
(* multiplication, powers and division (int/i31_*.c).  m is odd where       *)
(* m0i = -1/m modulo a word is needed.                                      *)
(***************************************************************************)
EXTENDS BigInt

br_i31_rshift(x, count) ==
  LET len == Words(x.h) IN
  [x EXCEPT !.w = Onto(@, Pass(len, 0, LAMBDA u, cc :
     (IF u = len THEN 0 ELSE (@[u + 1] * 2^(W - count)) % Base) + (@[u] \div 2^count)).w)]

\* The bytes that cannot reach the modulus are taken as they are, the others by
\* words; what is left over makes a last one with the low bits of x.
br_i31_decode_reduce(src, m) ==
  LET rbitlen == m.h - (m.h \div (W + 1))
      mblen == (rbitlen + ByteBits - 1) \div ByteBits
      k == IF mblen - 1 >= Len(src) THEN Len(src) ELSE mblen - 1
      start == [h |-> m.h,
                w |-> Onto(br_i31_zero(m.h).w, br_i31_decode(SubSeq(src, 1, k)).w)]
      next(s, v, len) ==
        IF len < 0 THEN [s EXCEPT !.acc = @ * 2^ByteBits + v, !.acc_len = @ + ByteBits]
        ELSE [x |-> br_i31_muladd_small(s.x, s.acc * 2^(ByteBits - len) + (v \div 2^len), m),
              acc |-> v % 2^len, acc_len |-> len]
      f[n \in k..Len(src)] ==
        IF n = k THEN [x |-> start, acc |-> 0, acc_len |-> 0]
        ELSE LET s == f[n - 1] IN next(s, src[n], s.acc_len - (W - ByteBits))
      end(s) ==
        IF s.acc_len = 0 THEN s.x
        ELSE br_i31_muladd_small(br_i31_rshift(s.x, W - s.acc_len),
                                 (s.acc + s.x.w[1] * 2^s.acc_len) % Base, m)
  IN  IF m.h = 0 THEN [h |-> 0, w |-> <<>>] ELSE end(f[Len(src)])

br_i31_reduce(a, m) ==
  LET mlen == Words(m.h)
      alen == Words(a.h)
      f[u \in 1..(2 + alen - mlen)] ==
        IF u = 2 + alen - mlen
          THEN [h |-> m.h, w |-> Append(SubSeq(a.w, 2 + alen - mlen, alen), 0)]
          ELSE br_i31_muladd_small(f[u + 1], a.w[u], m)
  IN  IF m.h = 0 THEN [h |-> 0, w |-> <<>>]
      ELSE IF a.h < m.h
        THEN [h |-> m.h, w |-> Onto(br_i31_zero(m.h).w, SubSeq(a.w, 1, alen))]
      ELSE f[1]

br_i31_iszero(x) == \A u \in 1..Words(x.h) : x.w[u] = 0

br_i31_ninv31(x) ==
  LET f[n \in 0..4] ==
        IF n = 0 THEN (2 - x) % Machine
        ELSE (f[n - 1] * ((2 - f[n - 1] * x) % Machine)) % Machine
  IN  IF x % 2 = 1 THEN (0 - f[4]) % Base ELSE 0

\* d + a * b, and the header of the product.
br_i31_mulacc(d, a, b) ==
  LET alen == Words(a.h)
      blen == Words(b.h)
      dl == (a.h % (W + 1)) + (b.h % (W + 1))
      dh == (a.h \div (W + 1)) + (b.h \div (W + 1))
      row(w, u) ==
        LET s == Pass(alen, 0, LAMBDA v, cc : w[u + v - 1] + b.w[u] * a.w[v] + cc)
        IN  SubSeq(w, 1, u - 1) \o Append(s.w, s.cc)
      f[u \in 0..blen] == IF u = 0 THEN d.w ELSE row(f[u - 1], u)
  IN  [h |-> dh * (W + 1) + dl + Bit(dl >= W), w |-> f[blen]]

-----------------------------------------------------------------------------
(* Montgomery multiplication.                                                *)
br_i31_to_monty(x, m) ==
  LET f[k \in 0..Words(m.h)] ==
        IF k = 0 THEN x ELSE br_i31_muladd_small(f[k - 1], 0, m)
  IN  f[Words(m.h)]

br_i31_from_monty(x, m, m0i) ==
  LET len == Words(m.h)
      round(w) ==
        LET f == (w[1] * m0i) % Base
            s == Pass(len, 0, LAMBDA v, cc : w[v] + f * m.w[v] + cc)
        IN  Append(Tail(s.w), s.cc)
      f[u \in 0..len] == IF u = 0 THEN x.w ELSE round(f[u - 1])
      below(y) == br_i31_sub(y, m, ~br_i31_sub(y, m, FALSE).cc).x
  IN  below([x EXCEPT !.w = f[len]])

\* Mutant: what goes beyond the top word is dropped.
AboveTop_dropped(dh) == FALSE

AboveTop(dh) == dh # 0

br_i31_montymul(x, y, m, m0i) ==
  LET len == Words(m.h)
      round(d, xu) ==
        LET f == ((d.w[1] + xu * y.w[1]) * m0i) % Base
            s == Pass(len, 0, LAMBDA v, r : d.w[v] + xu * y.w[v] + f * m.w[v] + r)
            zh == d.dh + s.cc
        IN  [w |-> Append(Tail(s.w), zh % Base), dh |-> zh \div Base]
      f[u \in 0..len] ==
        IF u = 0 THEN [w |-> br_i31_zero(m.h).w, dh |-> 0] ELSE round(f[u - 1], x.w[u])
      below(d, dh) == br_i31_sub(d, m, AboveTop(dh) \/ ~br_i31_sub(d, m, FALSE).cc).x
      end(s) == below([h |-> m.h, w |-> s.w], s.dh)
  IN  end(f[len])

-----------------------------------------------------------------------------
(* Powers, bit by bit from the lowest: t1 is x^(2^k) in Montgomery form.       *)
One(m) == [br_i31_zero(m.h) EXCEPT !.w[1] = 1]

modpow_init(x, m) == [k |-> 0, t1 |-> br_i31_to_monty(x, m), x |-> One(m)]

\* One turn of the loop of br_i31_modpow.
modpow_turn(s, e, m, m0i) ==
  LET bit == (e[Len(e) - (s.k \div ByteBits)] \div 2^(s.k % ByteBits)) % 2 IN
  [k |-> s.k + 1, t1 |-> br_i31_montymul(s.t1, s.t1, m, m0i),
   x |-> IF bit = 1 THEN br_i31_montymul(s.x, s.t1, m, m0i) ELSE s.x]

-----------------------------------------------------------------------------
(* Powers by a window, from the highest bit: acc holds acc_len bits that were *)
(* read from e and not used.                                                 *)

\* The widest window whose powers fit into twlen words, 0 if not even one does.
WindowLength(m, twlen) ==
  LET mwlen == Words(m.h) + 1 + ((Words(m.h) + 1) % 2)
      fits(n) == n = 1 \/ (2^n + 1) * mwlen <= twlen
  IN  IF twlen < 2 * mwlen THEN 0
      ELSE CHOOSE n \in 1..MaxWindow : fits(n) /\ \A k \in (n + 1)..MaxWindow : ~fits(k)

window_init(x, e, m, twlen) ==
  [win_len |-> WindowLength(m, twlen), table |-> <<br_i31_to_monty(x, m)>>,
   acc |-> 0, acc_len |-> 0, e |-> e,
   x |-> br_i31_muladd_small([br_i31_zero(m.h) EXCEPT !.w[Words(m.h)] = 1], 0, m)]

window_power(s, m, m0i) ==
  [s EXCEPT !.table = Append(@, br_i31_montymul(@[Len(@)], @[1], m, m0i))]

\* One turn of the loop of br_i31_modpow_opt.
window_turn(s, m, m0i) ==
  LET more == s.acc_len < s.win_len /\ s.e # <<>>
      acc == IF more THEN s.acc * 2^ByteBits + Head(s.e) ELSE s.acc
      len == IF more THEN s.acc_len + ByteBits ELSE s.acc_len
      k == IF len < s.win_len THEN len ELSE s.win_len
      bits == (acc \div 2^(len - k)) % 2^k
      y[i \in 0..k] == IF i = 0 THEN s.x ELSE br_i31_montymul(y[i - 1], y[i - 1], m, m0i)
  IN  [s EXCEPT !.acc = acc % 2^(len - k), !.acc_len = len - k,
                !.e = IF more THEN Tail(@) ELSE @,
                !.x = IF bits = 0 THEN y[k]
                      ELSE br_i31_montymul(y[k], s.table[bits], m, m0i)]
=============================================================================
