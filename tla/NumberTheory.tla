----------------------------- MODULE NumberTheory -----------------------------
(* What numbers are, to compare with what is computed.                        *)
EXTENDS Integers

Divides(d, n) == n % d = 0
IsPrime(n) == n > 1 /\ \A d \in 2..(n - 1) : d * d <= n => ~Divides(d, n)
Coprime(a, b) == ~\E d \in 2..b : Divides(d, a) /\ Divides(d, b)
InverseMod(a, m) == CHOOSE d \in 0..(m - 1) : (a * d) % m = 1
PowerMod(x, e, m) ==
  LET f[k \in 0..e] == IF k = 0 THEN 1
                       ELSE LET h == (f[k \div 2] * f[k \div 2]) % m
                            IN  IF k % 2 = 0 THEN h ELSE (h * (x % m)) % m
  IN  f[e]
Size(n) == CHOOSE k \in 1..30 : 2^(k - 1) <= n /\ n < 2^k
===============================================================================
