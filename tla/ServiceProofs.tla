---------------------------- MODULE ServiceProofs ----------------------------
(***************************************************************************)
(* Theorems about the services that CryptoServices puts together, for hash *)
(* functions with blocks of any length and for messages of any length in   *)
(* any pieces: what a hash context, an HMAC context and a multihash stand  *)
(* for, that the proof of work is found and reported in time, and that the *)
(* keys of PBKDF2, the bytes of HKDF, the PRF of TLS and the mask of MGF1  *)
(* are those of the standards.  The first part has the induction on        *)
(* numbers and the arithmetic of blocks that all of it rests on.           *)
(***************************************************************************)
EXTENDS CryptoServices, SequenceTheorems, WellFoundedInduction, TLAPS

-----------------------------------------------------------------------------
(* Numbers.  The library's induction theorems have an operator as a          *)
(* parameter; that the order of the naturals is well founded has none.       *)

LEMMA Least ==
  ASSUME NEW T, T \subseteq Nat, T # {}
  PROVE  \E x \in T : \A y \in T : x <= y
<1> DEFINE R == {ss \in Nat \X Nat : ss[1] < ss[2]}
<1>1. IsWellFoundedOn(R, Nat)
  BY NatLessThanWellFounded DEF OpToRel
<1> HIDE DEF R
<1>2. PICK x \in T : \A y \in T : ~(<<y, x>> \in R)
  BY <1>1, WFMin
<1>3. ASSUME NEW y \in T
      PROVE  x <= y
  <2>1. x \in Nat /\ y \in Nat
    OBVIOUS
  <2>2. ~(<<y, x>> \in R)
    BY <1>2
  <2> QED
    BY <2>1, <2>2 DEF R
<1> QED
  BY <1>3

LEMMA Induction ==
  ASSUME NEW S, 0 \in S, \A n \in Nat : n \in S => n + 1 \in S
  PROVE  \A n \in Nat : n \in S
<1> SUFFICES ASSUME Nat \ S # {}
             PROVE  FALSE
  OBVIOUS
<1>1. PICK x \in Nat \ S : \A y \in Nat \ S : x <= y
  BY Least
<1>2. x # 0 /\ x - 1 \in Nat
  BY <1>1
<1>3. x - 1 \in S
  BY <1>1, <1>2
<1> QED
  BY <1>1, <1>2, <1>3

LEMMA Division ==
  ASSUME NEW a \in Int, NEW b \in Nat \ {0}
  PROVE  /\ a \div b \in Int /\ a % b \in 0..(b - 1)
         /\ a = b * (a \div b) + (a % b)
         /\ a \in Nat => a \div b \in Nat
OBVIOUS

LEMMA Quotient ==
  ASSUME NEW a \in Int, NEW b \in Nat \ {0}, NEW q \in Int, NEW r \in 0..(b - 1),
         a = b * q + r
  PROVE  q = a \div b /\ r = a % b
OBVIOUS

LEMMA Parts ==
  ASSUME NEW a \in Nat, NEW b \in Nat \ {0}
  PROVE  \E q \in Nat, r \in 0..(b - 1) : a = b * q + r /\ q = a \div b /\ r = a % b
<1>1. /\ a \div b \in Nat /\ a % b \in 0..(b - 1)
      /\ a = b * (a \div b) + (a % b)
  OBVIOUS
<1> QED
  BY <1>1

LEMMA Product ==
  ASSUME NEW b \in Nat, NEW x \in Int, NEW y \in Int, x <= y
  PROVE  b * x \in Int /\ b * y \in Int /\ b * x <= b * y
OBVIOUS

-----------------------------------------------------------------------------
(* Strings of bytes, whatever a byte is.                                     *)
IsString(s) == s \in Seq({s[i] : i \in DOMAIN s})

LEMMA StringIn ==
  ASSUME NEW S, NEW s \in Seq(S)
  PROVE  IsString(s)
<1>1. PICK n \in Nat : s \in [1..n -> S]
  BY SeqDef
<1>2. s \in [1..n -> {s[i] : i \in DOMAIN s}]
  BY <1>1
<1> QED
  BY <1>2, SeqDef DEF IsString

LEMMA StringOf ==
  ASSUME NEW n \in Nat, NEW f, f = [i \in 1..n |-> f[i]]
  PROVE  IsString(f) /\ Len(f) = n /\ DOMAIN f = 1..n
<1>1. f \in [1..n -> {f[i] : i \in DOMAIN f}]
  OBVIOUS
<1>2. f \in Seq({f[i] : i \in DOMAIN f})
  BY <1>1, SeqDef
<1> QED
  BY <1>2, LenProperties DEF IsString

LEMMA StringFacts ==
  ASSUME NEW s, IsString(s)
  PROVE  Len(s) \in Nat /\ s = [i \in 1..Len(s) |-> s[i]] /\ DOMAIN s = 1..Len(s)
<1>1. /\ Len(s) \in Nat
      /\ s \in [1..Len(s) -> {s[i] : i \in DOMAIN s}]
  BY LenProperties DEF IsString
<1> QED
  BY <1>1

LEMMA SameString ==
  ASSUME NEW s, NEW t, IsString(s), IsString(t), Len(s) = Len(t),
         \A i \in 1..Len(s) : s[i] = t[i]
  PROVE  s = t
<1>1. s = [i \in 1..Len(s) |-> s[i]] /\ t = [i \in 1..Len(t) |-> t[i]]
  BY StringFacts
<1> QED
  BY <1>1

LEMMA Joined ==
  ASSUME NEW s, NEW t, IsString(s), IsString(t)
  PROVE  /\ IsString(s \o t) /\ Len(s \o t) = Len(s) + Len(t)
         /\ \A i \in 1..Len(s) : (s \o t)[i] = s[i]
         /\ \A i \in 1..Len(t) : (s \o t)[Len(s) + i] = t[i]
         /\ \A i \in (Len(s) + 1)..(Len(s) + Len(t)) : (s \o t)[i] = t[i - Len(s)]
<1> DEFINE S == {s[i] : i \in DOMAIN s} \cup {t[i] : i \in DOMAIN t}
<1>1. /\ {s[i] : i \in DOMAIN s} \subseteq S
      /\ {t[i] : i \in DOMAIN t} \subseteq S
  OBVIOUS
<1> HIDE DEF S
<1>2. s \in Seq(S) /\ t \in Seq(S)
  BY <1>1, SeqMonotonic DEF IsString
<1>3. /\ s \o t \in Seq(S) /\ Len(s \o t) = Len(s) + Len(t)
      /\ \A i \in 1..(Len(s) + Len(t)) :
           (s \o t)[i] = IF i <= Len(s) THEN s[i] ELSE t[i - Len(s)]
  BY <1>2, ConcatProperties
<1>4. Len(s) \in Nat /\ Len(t) \in Nat
  BY StringFacts
<1>5. ASSUME NEW i \in 1..Len(t)
      PROVE  (s \o t)[Len(s) + i] = t[i]
  <2>1. Len(s) + i \in 1..(Len(s) + Len(t)) /\ ~(Len(s) + i <= Len(s))
    BY <1>4
  <2>2. (Len(s) + i) - Len(s) = i
    BY <1>4
  <2> QED
    BY <1>3, <2>1, <2>2
<1>6. \A i \in 1..Len(s) : (s \o t)[i] = s[i]
  BY <1>3, <1>4
<1>7. \A i \in (Len(s) + 1)..(Len(s) + Len(t)) : (s \o t)[i] = t[i - Len(s)]
  BY <1>3, <1>4
<1>8. IsString(s \o t)
  BY <1>3, StringIn
<1> QED
  BY <1>3, <1>5, <1>6, <1>7, <1>8

\* A string of n bytes.
IsText(s, n) == IsString(s) /\ n \in Nat /\ Len(s) = n

LEMMA TextOf ==
  ASSUME NEW s, IsString(s)
  PROVE  IsText(s, Len(s))
BY StringFacts DEF IsText

LEMMA SameText ==
  ASSUME NEW s, NEW t, NEW n, IsText(s, n), IsText(t, n), \A i \in 1..n : s[i] = t[i]
  PROVE  s = t
BY SameString DEF IsText

Joint(u, s, m, t, n) ==
  /\ IsText(u, m + n)
  /\ \A i \in 1..m : u[i] = s[i]
  /\ \A i \in 1..n : u[m + i] = t[i]

LEMMA JointText ==
  ASSUME NEW s, NEW t, NEW m, NEW n, IsText(s, m), IsText(t, n)
  PROVE  Joint(s \o t, s, m, t, n)
<1>1. m \in Nat /\ n \in Nat /\ IsString(s) /\ IsString(t) /\ Len(s) = m /\ Len(t) = n
  BY DEF IsText
<1>2. /\ IsString(s \o t) /\ Len(s \o t) = Len(s) + Len(t)
      /\ \A i \in 1..Len(s) : (s \o t)[i] = s[i]
      /\ \A i \in 1..Len(t) : (s \o t)[Len(s) + i] = t[i]
  BY <1>1, Joined
<1> QED
  BY <1>1, <1>2 DEF Joint, IsText

LEMMA JoinedAs ==
  ASSUME NEW s, NEW t, IsString(s), IsString(t), NEW m \in Nat, NEW n \in Nat,
         Len(s) = m, Len(t) = n
  PROVE  /\ IsString(s \o t) /\ Len(s \o t) = m + n
         /\ \A i \in 1..m : (s \o t)[i] = s[i]
         /\ \A i \in (m + 1)..(m + n) : (s \o t)[i] = t[i - m]
BY Joined

LEMMA JoinedTwice ==
  ASSUME NEW s, NEW t, NEW u, IsString(s), IsString(t), IsString(u)
  PROVE  (s \o t) \o u = s \o (t \o u)
<1> DEFINE S == {s[i] : i \in DOMAIN s} \cup {t[i] : i \in DOMAIN t}
                \cup {u[i] : i \in DOMAIN u}
<1>1. /\ {s[i] : i \in DOMAIN s} \subseteq S
      /\ {t[i] : i \in DOMAIN t} \subseteq S
      /\ {u[i] : i \in DOMAIN u} \subseteq S
  OBVIOUS
<1> HIDE DEF S
<1>2. s \in Seq(S) /\ t \in Seq(S) /\ u \in Seq(S)
  BY <1>1, SeqMonotonic DEF IsString
<1> QED
  BY <1>2, ConcatAssociative

LEMMA Empty ==
  /\ IsString(<<>>) /\ Len(<<>>) = 0
  /\ \A s : IsString(s) => (s \o <<>> = s /\ <<>> \o s = s /\ (Len(s) = 0 => s = <<>>))
<1>1. IsString(<<>>) /\ Len(<<>>) = 0
  BY EmptySeq, StringIn
<1>2. ASSUME NEW s, IsString(s)
      PROVE  s \o <<>> = s /\ <<>> \o s = s /\ (Len(s) = 0 => s = <<>>)
  BY <1>2, ConcatEmptySeq, EmptySeq DEF IsString
<1> QED
  BY <1>1, <1>2

LEMMA Single ==
  ASSUME NEW x
  PROVE  IsString(<<x>>) /\ Len(<<x>>) = 1 /\ <<x>>[1] = x
<1>1. <<x>> \in Seq({x})
  OBVIOUS
<1> QED
  BY <1>1, StringIn

LEMMA CutString ==
  ASSUME NEW s, IsString(s), NEW m \in 1..(Len(s) + 1), NEW n \in (m - 1)..Len(s)
  PROVE  /\ IsString(SubSeq(s, m, n)) /\ Len(SubSeq(s, m, n)) = n - m + 1
         /\ \A i \in 1..(n - m + 1) : SubSeq(s, m, n)[i] = s[m + i - 1]
<1>1. Len(s) \in Nat /\ s \in Seq({s[i] : i \in DOMAIN s})
  BY StringFacts DEF IsString
<1> DEFINE t == SubSeq(s, m, n)
<1>2. t = [i \in 1..(n - m + 1) |-> s[m + i - 1]]
  BY <1>1
<1>3. n - m + 1 \in Nat
  BY <1>1
<1> HIDE DEF t
<1>4. t = [i \in 1..(n - m + 1) |-> t[i]]
  BY <1>2
<1>5. IsString(t) /\ Len(t) = n - m + 1
  BY <1>3, <1>4, StringOf
<1>6. \A i \in 1..(n - m + 1) : t[i] = s[m + i - 1]
  BY <1>2
<1> QED
  BY <1>5, <1>6 DEF t

LEMMA Appended ==
  ASSUME NEW s, NEW x, IsString(s)
  PROVE  Append(s, x) = s \o <<x>>
<1> DEFINE S == {s[i] : i \in DOMAIN s} \cup {x}
<1>1. {s[i] : i \in DOMAIN s} \subseteq S /\ x \in S
  OBVIOUS
<1> HIDE DEF S
<1>2. s \in Seq(S)
  BY <1>1, SeqMonotonic DEF IsString
<1> QED
  BY <1>1, <1>2, AppendIsConcat

-----------------------------------------------------------------------------
(* A context stands for the message that went in: the whole blocks of it are *)
(* in the state, the rest is in the buffer.                                  *)
Sound(h) ==
  /\ h.block \in Nat /\ h.count \in CountLen..(h.block - 1)
  /\ HashLen \in Nat \ {0} /\ CountLen \in Nat \ {0}

IsContext(h, cc) ==
  /\ cc = [val |-> cc.val, count |-> cc.count, buf |-> cc.buf]
  /\ cc.count \in Nat
  /\ IsString(cc.val)
  /\ cc.buf = [i \in 0..(h.block - 1) |-> cc.buf[i]]

Stands(h, cc, msg) ==
  /\ IsContext(h, cc) /\ IsString(msg)
  /\ cc.count = Len(msg) /\ cc.val = Blocks(h, msg)
  /\ \A i \in 0..(h.block - 1) :
       i < Len(msg) % h.block =>
         cc.buf[i] = msg[h.block * (Len(msg) \div h.block) + i + 1]

LEMMA SoundFacts ==
  ASSUME NEW h, Sound(h)
  PROVE  /\ h.block \in Nat \ {0} /\ h.count \in Nat \ {0}
         /\ CountLen \in Nat \ {0} /\ HashLen \in Nat \ {0}
         /\ h.count < h.block /\ CountLen <= h.count
BY DEF Sound

\* The same number written with the factors the other way round.
LEMMA BlockOf ==
  ASSUME NEW h, Sound(h), NEW msg
  PROVE  Blocks(h, msg) =
           [b \in 1..(Len(msg) \div h.block) |->
              [i \in 0..(h.block - 1) |-> msg[h.block * (b - 1) + i + 1]]]
<1>1. h.block \in Nat
  BY SoundFacts
<1>2. \A b \in 1..(Len(msg) \div h.block) :
        [i \in 0..(h.block - 1) |-> msg[(b - 1) * h.block + i + 1]] =
        [i \in 0..(h.block - 1) |-> msg[h.block * (b - 1) + i + 1]]
  <2> SUFFICES ASSUME NEW b \in 1..(Len(msg) \div h.block), NEW i \in 0..(h.block - 1)
               PROVE  (b - 1) * h.block + i + 1 = h.block * (b - 1) + i + 1
    BY Zenon
  <2> QED
    BY <1>1
<1> QED
  BY <1>2 DEF Blocks

LEMMA BlocksFacts ==
  ASSUME NEW h, Sound(h), NEW msg, IsString(msg)
  PROVE  /\ IsString(Blocks(h, msg)) /\ Len(Blocks(h, msg)) = Len(msg) \div h.block
         /\ Len(msg) \div h.block \in Nat
         /\ \A b \in 1..(Len(msg) \div h.block) :
              Blocks(h, msg)[b] =
                [i \in 0..(h.block - 1) |-> msg[h.block * (b - 1) + i + 1]]
<1>1. Len(msg) \in Nat /\ h.block \in Nat \ {0}
  BY StringFacts, SoundFacts
<1>2. Len(msg) \div h.block \in Nat
  BY <1>1
<1> DEFINE n == Len(msg) \div h.block
           f == Blocks(h, msg)
<1>3. f = [b \in 1..n |->
             [i \in 0..(h.block - 1) |-> msg[h.block * (b - 1) + i + 1]]]
  BY BlockOf
<1> HIDE DEF f, n
<1>4. f = [b \in 1..n |-> f[b]]
  BY <1>3
<1>5. n \in Nat
  BY <1>2 DEF n
<1>6. IsString(f) /\ Len(f) = n
  BY <1>4, <1>5, StringOf
<1>7. \A b \in 1..n : f[b] =
        [i \in 0..(h.block - 1) |-> msg[h.block * (b - 1) + i + 1]]
  BY <1>3
<1> QED
  BY <1>5, <1>6, <1>7 DEF f, n

\* The string v has n blocks of b bytes, those of the message.
Chopped(v, b, n, msg) ==
  /\ IsString(v) /\ n \in Nat /\ Len(v) = n
  /\ \A k \in 1..n : v[k] = [i \in 0..(b - 1) |-> msg[b * (k - 1) + i + 1]]

LEMMA BlocksChopped ==
  ASSUME NEW h, NEW msg, Sound(h), IsString(msg)
  PROVE  Chopped(Blocks(h, msg), h.block, Len(msg) \div h.block, msg)
BY BlocksFacts DEF Chopped

\* A byte of a whole block is a byte of the message.
LEMMA InBlock ==
  ASSUME NEW b \in Nat \ {0}, NEW n \in Nat, NEW k \in 1..(n \div b),
         NEW i \in 0..(b - 1)
  PROVE  /\ b * (k - 1) + i + 1 \in 1..n
         /\ b * (k - 1) + i + 1 <= b * (n \div b)
<1>1. n \div b \in Nat /\ n = b * (n \div b) + (n % b) /\ n % b \in Nat
  BY Division
<1> DEFINE q == n \div b
<1>2. b * (k - 1) \in Nat /\ b * k <= b * q /\ b * k = b * (k - 1) + b
  BY <1>1, Product
<1> HIDE DEF q
<1>3. b * q <= n /\ b * q \in Int
  BY <1>1 DEF q
<1>4. b * (k - 1) + i + 1 <= b * q
  BY <1>2, <1>3
<1> QED
  BY <1>2, <1>3, <1>4 DEF q

LEMMA EmptyStands ==
  ASSUME NEW h, Sound(h)
  PROVE  Stands(h, br_hash_init(h), <<>>)
<1> DEFINE cc == br_hash_init(h)
           buf == [i \in 0..(h.block - 1) |-> <<"junk">>]
<1>1. cc = [val |-> <<>>, count |-> 0, buf |-> buf]
  BY DEF br_hash_init
<1>2. h.block \in Nat \ {0}
  BY SoundFacts
<1>3. buf = [i \in 0..(h.block - 1) |-> buf[i]]
  OBVIOUS
<1> HIDE DEF buf, cc
<1>4. IsContext(h, cc)
  BY <1>1, <1>3, Empty DEF IsContext
<1>5. Len(<<>>) \div h.block = 0 /\ Len(<<>>) % h.block = 0
  BY <1>2, Empty
<1>6. Blocks(h, <<>>) = <<>>
  BY <1>5, BlocksFacts, Empty
<1> QED
  BY <1>1, <1>2, <1>4, <1>5, <1>6, Empty DEF Stands, cc

\* Whatever waits in the buffer, a call that is given data goes on where the
\* last one ended (br_hash_update of md5.c, sha1.c, sha2small.c, sha2big.c).
THEOREM UpdateStands ==
  ASSUME NEW h, Sound(h), NEW cc, NEW msg, Stands(h, cc, msg),
         NEW data, IsString(data)
  PROVE  Stands(h, br_hash_update(h, cc, data), msg \o data)
<1> DEFINE all == msg \o data
           up == br_hash_update(h, cc, data)
<1>1. /\ Len(msg) \in Nat /\ Len(data) \in Nat
      /\ IsString(msg) /\ IsString(all) /\ Len(all) = Len(msg) + Len(data)
  BY StringFacts, Joined DEF Stands
<1>2. PICK b \in Nat \ {0} : b = h.block
  BY SoundFacts
<1>3. PICK m \in Nat, d \in Nat : m = Len(msg) /\ d = Len(data)
  BY <1>1
<1>14. PICK q \in Nat, ptr \in 0..(b - 1) :
         m = b * q + ptr /\ q = m \div b /\ ptr = m % b
  BY Parts
<1>15. PICK total \in Nat : total = ptr + d
  OBVIOUS
<1>13. PICK rounds \in Nat, rest \in 0..(b - 1) :
         total = b * rounds + rest /\ rounds = total \div b /\ rest = total % b
  BY Parts
<1>16. b * q \in Nat /\ b * rounds \in Nat /\ b * (q + rounds) = b * q + b * rounds
  OBVIOUS
<1> DEFINE at(p) == IF p < ptr THEN cc.buf[p] ELSE data[p - ptr + 1]
           last(i) == IF i < rest THEN at(rounds * b + i)
                      ELSE IF rounds > 0 THEN at((rounds - 1) * b + i)
                      ELSE cc.buf[i]
           new == [n \in 1..rounds |->
                     [i \in 0..(b - 1) |-> at((n - 1) * b + i)]]
           buf == [i \in 0..(b - 1) |-> last(i)]
<1>4. up = [val |-> cc.val \o new, count |-> cc.count + Len(data), buf |-> buf]
  <2>1. cc.count = m
    BY <1>3 DEF Stands
  <2> QED
    BY <1>2, <1>3, <1>14, <1>15, <1>13, <2>1 DEF br_hash_update
\* Byte p of the block begun and of what follows.
<1>5. ASSUME NEW p \in 0..(total - 1)
      PROVE  at(p) = all[b * q + p + 1]
  <2>1. b * q \in Nat
    BY <1>16
  <2>2. CASE p < ptr
    <3>1. cc.buf[p] = msg[b * q + p + 1]
      <4>1. p \in 0..(h.block - 1) /\ p < Len(msg) % h.block
        BY <1>2, <1>3, <1>14, <2>2
      <4>2. cc.buf[p] = msg[h.block * (Len(msg) \div h.block) + p + 1]
        BY <4>1 DEF Stands
      <4> QED
        BY <1>2, <1>3, <1>14, <4>2
    <3>2. b * q + p + 1 \in 1..Len(msg)
      BY SMTT(30), <1>3, <1>14, <2>1, <2>2
    <3>3. all[b * q + p + 1] = msg[b * q + p + 1]
      BY <1>1, <3>2, Joined
    <3> QED
      BY <2>2, <3>1, <3>3
  <2>3. CASE ~(p < ptr)
    <3> DEFINE k == b * q + p + 1
    <3>1. k \in (m + 1)..(m + d) /\ k - m = p - ptr + 1
      BY <1>14, <1>15, <2>1, <2>3
    <3> HIDE DEF k
    <3>2. all[k] = data[k - m]
      BY <1>1, <1>3, <3>1, Joined
    <3> QED
      BY <2>3, <3>1, <3>2 DEF k
  <2> QED
    BY <2>2, <2>3
<1> HIDE DEF at, up, all
<1>6. Len(all) \div b = q + rounds /\ Len(all) % b = rest
  <2>1. q + rounds \in Int /\ Len(all) \in Int
    BY <1>1
  <2>2. Len(all) = m + d
    BY <1>1, <1>3
  <2>4. m + d = b * (q + rounds) + rest
    BY <1>13, <1>14, <1>15, <1>16
  <2>3. Len(all) = b * (q + rounds) + rest
    BY <2>2, <2>4
  <2> QED
    BY <2>1, <2>3, Quotient
<1>7. ASSUME NEW n \in 1..rounds, NEW i \in 0..(b - 1)
      PROVE  /\ at((n - 1) * b + i) = all[b * (q + n - 1) + i + 1]
             /\ (n - 1) * b + i \in 0..(total - 1)
  <2>1. /\ (n - 1) * b = b * (n - 1) /\ b * (n - 1) + i + 1 \in 1..total
        /\ b * (n - 1) \in Nat
    <3>1. n \in 1..(total \div b)
      BY <1>13
    <3>2. b * (n - 1) + i + 1 \in 1..total
      BY <3>1, InBlock
    <3> QED
      BY <3>2
  <2>2. b * (q + n - 1) = b * q + b * (n - 1) /\ b * q \in Nat
    BY <1>16
  <2> DEFINE p == (n - 1) * b + i
  <2>3. p \in 0..(total - 1)
    BY <2>1
  <2>4. b * q + p + 1 = b * (q + n - 1) + i + 1
    BY <2>1, <2>2
  <2> HIDE DEF p
  <2>5. at(p) = all[b * q + p + 1]
    BY <1>5, <2>3
  <2> QED
    BY <2>3, <2>4, <2>5 DEF p
<1>8. cc.val \o new = Blocks(h, all)
  <2>0. /\ cc.val = Blocks(h, msg)
        /\ IsString(Blocks(h, msg)) /\ Len(Blocks(h, msg)) = Len(msg) \div h.block
        /\ \A k \in 1..(Len(msg) \div h.block) :
             Blocks(h, msg)[k] =
               [i \in 0..(h.block - 1) |-> msg[h.block * (k - 1) + i + 1]]
    BY SMTT(30), <1>1, BlocksFacts DEF Stands
  <2>1. new = [n \in 1..rounds |-> new[n]] /\ IsString(cc.val) /\ Len(cc.val) = q
    BY <1>2, <1>3, <1>14, <2>0
  <2>2. \A n \in 1..rounds : new[n] =
          [i \in 0..(b - 1) |-> all[b * (q + n - 1) + i + 1]]
    BY <1>7
  <2>3. \A n \in 1..q : cc.val[n] =
          [i \in 0..(b - 1) |-> msg[b * (n - 1) + i + 1]]
    BY <1>2, <1>3, <1>14, <2>0
  <2> HIDE DEF new
  <2>4. IsString(new) /\ Len(new) = rounds
    BY <1>13, <2>1, StringOf
  <2>5. /\ IsString(cc.val \o new) /\ Len(cc.val \o new) = q + rounds
        /\ \A i \in 1..q : (cc.val \o new)[i] = cc.val[i]
        /\ \A i \in (q + 1)..(q + rounds) : (cc.val \o new)[i] = new[i - q]
    BY <2>1, <2>4, Joined
  <2>6. /\ IsString(Blocks(h, all)) /\ Len(Blocks(h, all)) = q + rounds
        /\ \A n \in 1..(q + rounds) : Blocks(h, all)[n] =
             [i \in 0..(b - 1) |-> all[b * (n - 1) + i + 1]]
    <3>1. Chopped(Blocks(h, all), h.block, Len(all) \div h.block, all)
      BY <1>1, BlocksChopped
    <3>2. Len(all) \div h.block = q + rounds
      BY <1>2, <1>6
    <3>3. Chopped(Blocks(h, all), b, q + rounds, all)
      BY <1>2, <3>1, <3>2
    <3> QED
      BY <3>3 DEF Chopped
  <2>7. ASSUME NEW n \in 1..(q + rounds)
        PROVE  (cc.val \o new)[n] = Blocks(h, all)[n]
    <3>1. CASE n <= q
      <4>1. n \in 1..q
        BY <1>2, <3>1
      <4>2. ASSUME NEW i \in 0..(b - 1)
            PROVE  msg[b * (n - 1) + i + 1] = all[b * (n - 1) + i + 1]
        <5>1. b * (n - 1) + i + 1 \in 1..Len(msg)
          BY <1>3, <1>14, <4>1, InBlock
        <5> QED
          BY <1>1, <5>1, Joined DEF all
      <4>3. (cc.val \o new)[n] = [i \in 0..(b - 1) |-> msg[b * (n - 1) + i + 1]]
        BY <2>3, <2>5, <4>1
      <4>4. Blocks(h, all)[n] = [i \in 0..(b - 1) |-> all[b * (n - 1) + i + 1]]
        BY <2>6
      <4>5. [i \in 0..(b - 1) |-> msg[b * (n - 1) + i + 1]] =
            [i \in 0..(b - 1) |-> all[b * (n - 1) + i + 1]]
        BY <4>2, Zenon
      <4> QED
        BY <4>3, <4>4, <4>5
    <3>2. CASE ~(n <= q)
      <4>1. n - q \in 1..rounds /\ n \in (q + 1)..(q + rounds) /\ q + (n - q) - 1 = n - 1
        BY <3>2
      <4>2. new[n - q] = [i \in 0..(b - 1) |-> all[b * (n - 1) + i + 1]]
        BY <2>2, <4>1
      <4>3. (cc.val \o new)[n] = new[n - q]
        BY <2>5, <4>1
      <4>4. Blocks(h, all)[n] = [i \in 0..(b - 1) |-> all[b * (n - 1) + i + 1]]
        BY <2>6
      <4> QED
        BY <4>2, <4>3, <4>4
    <3> QED
      BY <3>1, <3>2
  <2> QED
    BY <2>5, <2>6, <2>7, SameString
<1>9. ASSUME NEW i \in 0..(b - 1), i < rest
      PROVE  buf[i] = all[b * (q + rounds) + i + 1]
  <2>1. rounds * b = b * rounds
    OBVIOUS
  <2> DEFINE p == rounds * b + i
  <2>2. p \in 0..(total - 1) /\ b * q + p + 1 = b * (q + rounds) + i + 1
    BY <1>9, <1>13, <1>15, <1>16, <2>1
  <2>3. buf[i] = at(p)
    BY <1>9
  <2> HIDE DEF p, buf
  <2>4. at(p) = all[b * q + p + 1]
    BY <1>5, <2>2
  <2> QED
    BY <2>2, <2>3, <2>4
<1>10. IsContext(h, up)
  <2>1. buf = [i \in 0..(b - 1) |-> buf[i]]
    OBVIOUS
  <2>2. IsString(cc.val \o new) /\ cc.count + Len(data) \in Nat
    <3>1. cc.count \in Nat
      BY DEF Stands, IsContext
    <3> HIDE DEF new
    <3> QED
      BY SMTT(30), <1>1, <1>8, <3>1, BlocksFacts
  <2> HIDE DEF buf, new
  <2> QED
    BY <1>2, <1>4, <2>1, <2>2 DEF IsContext
<1> HIDE DEF buf, new
<1>11. up.count = Len(all) /\ up.val = Blocks(h, all) /\ up.buf = buf
  BY <1>1, <1>4, <1>8 DEF Stands
<1>12. \A i \in 0..(h.block - 1) :
         i < Len(all) % h.block =>
           up.buf[i] = all[h.block * (Len(all) \div h.block) + i + 1]
  BY <1>2, <1>6, <1>9, <1>11
<1> QED
  BY <1>1, <1>10, <1>11, <1>12 DEF Stands, up, all

Parted(m, b, q, ptr) ==
  /\ b \in Nat \ {0} /\ q \in Nat /\ ptr \in 0..(b - 1) /\ m \in Nat
  /\ m = b * q + ptr /\ q = m \div b /\ ptr = m % b

LEMMA IsParted ==
  ASSUME NEW m, NEW b, m \in Nat, b \in Nat \ {0}
  PROVE  Parted(m, b, m \div b, m % b)
<1>1. /\ m \div b \in Nat /\ m % b \in 0..(b - 1)
      /\ m = b * (m \div b) + (m % b)
  OBVIOUS
<1> QED
  BY <1>1 DEF Parted

IsGap(b, c, m, gap, n) ==
  /\ gap = (0 - (m + 1 + c)) % b /\ n = m + 1 + gap + c

Gapped(b, c, q, ptr, gap, n) ==
  /\ gap \in Nat /\ n \in Nat
  /\ n = IF ptr + 1 <= b - c THEN b * (q + 1) ELSE b * (q + 2)

\* The padding ends with the block begun, or with the next.
LEMMA Gap ==
  ASSUME NEW b, NEW c, NEW q, NEW ptr, NEW m, NEW gap, NEW n,
         Parted(m, b, q, ptr), c \in 0..(b - 1), IsGap(b, c, m, gap, n)
  PROVE  Gapped(b, c, q, ptr, gap, n)
<1>0. /\ b \in Nat \ {0} /\ q \in Nat /\ ptr \in 0..(b - 1) /\ m \in Nat
      /\ c \in 0..(b - 1)
  BY DEF Parted
<1>5. m = b * q + ptr
  BY DEF Parted
<1>4. PICK a \in Int : a = 0 - (m + 1 + c)
  BY <1>0
<1>6. gap = a % b /\ n = m + 1 + gap + c
  BY <1>4 DEF IsGap
<1>7. gap \in Nat
  BY <1>0, <1>6
<1>1. /\ b * q \in Nat /\ b * (q + 1) = b * q + b /\ b * (q + 2) = b * q + b + b
      /\ b * (0 - (q + 1)) = 0 - (b * q) - b /\ b * (0 - (q + 2)) = 0 - (b * q) - b - b
  BY <1>0
<1>2. CASE ptr + 1 <= b - c
  <2>1. PICK r \in 0..(b - 1) : r = b - c - 1 - ptr
    BY <1>0, <1>2
  <2>2. PICK k \in Int : k = 0 - (q + 1)
    BY <1>0
  <2>3. a = b * k + r
    BY <1>0, <1>1, <1>4, <1>5, <2>1, <2>2
  <2>4. r = a % b
    BY <1>0, <2>3, Quotient
  <2> QED
    BY <1>0, <1>1, <1>2, <1>5, <1>6, <1>7, <2>1, <2>4 DEF Gapped
<1>3. CASE ~(ptr + 1 <= b - c)
  <2>1. PICK r \in 0..(b - 1) : r = b + b - c - 1 - ptr
    BY <1>0, <1>3
  <2>2. PICK k \in Int : k = 0 - (q + 2)
    BY <1>0
  <2>3. a = b * k + r
    BY <1>0, <1>1, <1>4, <1>5, <2>1, <2>2
  <2>4. r = a % b
    BY <1>0, <2>3, Quotient
  <2> QED
    BY <1>0, <1>1, <1>3, <1>5, <1>6, <1>7, <2>1, <2>4 DEF Gapped
<1> QED
  BY <1>2, <1>3

\* Byte i of a padded message of m bytes, when len bytes are padded.
PadByte(msg, m, len, i) ==
  IF i <= m THEN msg[i]
  ELSE IF i = m + 1 THEN OneBit
  ELSE IF i <= len - CountLen THEN Zero
  ELSE CountByte(m, i - 1 - (len - CountLen))

Four(s, x, zeros, t) == ((s \o <<x>>) \o zeros) \o t

Laid(u, s, m, x, zeros, gap, t, c) ==
  /\ IsString(u) /\ Len(u) = m + 1 + gap + c
  /\ \A i \in 1..m : u[i] = s[i]
  /\ u[m + 1] = x
  /\ \A i \in 1..gap : u[m + 1 + i] = zeros[i]
  /\ \A i \in 1..c : u[m + 1 + gap + i] = t[i]

LEMMA FourParts ==
  ASSUME NEW s, NEW x, NEW zeros, NEW t, IsString(s), IsString(zeros), IsString(t)
  PROVE  Laid(Four(s, x, zeros, t), s, Len(s), x, zeros, Len(zeros), t, Len(t))
<1>8. PICK m \in Nat, gap \in Nat, c \in Nat :
        m = Len(s) /\ gap = Len(zeros) /\ c = Len(t)
  BY StringFacts
<1> DEFINE s1 == s \o <<x>>
           s2 == s1 \o zeros
           s3 == s2 \o t
<1>1. /\ IsString(s1) /\ Len(s1) = m + 1
      /\ \A i \in 1..m : s1[i] = s[i]
      /\ s1[m + 1] = x
  <2>1. IsString(<<x>>) /\ Len(<<x>>) = 1 /\ <<x>>[1] = x /\ 1 \in 1..1
    BY Single
  <2> QED
    BY <1>8, <2>1, Joined
<1> HIDE DEF s1
<1>2. /\ IsString(s2) /\ Len(s2) = m + 1 + gap
      /\ \A i \in 1..(m + 1) : s2[i] = s1[i]
      /\ \A i \in 1..gap : s2[m + 1 + i] = zeros[i]
  <2>1. PICK k \in Nat : k = m + 1
    OBVIOUS
  <2>2. Len(s1) = k /\ IsString(s1)
    BY <1>1, <2>1
  <2>3. /\ IsString(s1 \o zeros) /\ Len(s1 \o zeros) = Len(s1) + Len(zeros)
        /\ \A i \in 1..Len(s1) : (s1 \o zeros)[i] = s1[i]
        /\ \A i \in 1..Len(zeros) : (s1 \o zeros)[Len(s1) + i] = zeros[i]
    BY <2>2, Joined
  <2> QED
    BY <1>8, <2>1, <2>2, <2>3
<1> HIDE DEF s2
<1>3. /\ IsString(s3) /\ Len(s3) = m + 1 + gap + c
      /\ \A i \in 1..(m + 1 + gap) : s3[i] = s2[i]
      /\ \A i \in 1..c : s3[m + 1 + gap + i] = t[i]
  <2>1. PICK k \in Nat : k = m + 1 + gap
    OBVIOUS
  <2>2. Len(s2) = k
    BY <1>2, <2>1
  <2>3. /\ IsString(s3) /\ Len(s3) = k + c
        /\ \A i \in 1..k : s3[i] = s2[i]
        /\ \A i \in 1..c : s3[k + i] = t[i]
    <3>1. IsString(s2)
      BY <1>2
    <3> HIDE DEF s3
    <3>2. /\ IsString(s2 \o t) /\ Len(s2 \o t) = Len(s2) + Len(t)
          /\ \A i \in 1..Len(s2) : (s2 \o t)[i] = s2[i]
          /\ \A i \in 1..Len(t) : (s2 \o t)[Len(s2) + i] = t[i]
      BY <3>1, Joined
    <3> QED
      BY <1>8, <2>2, <3>2 DEF s3
  <2> QED
    BY <2>1, <2>3
<1> HIDE DEF s3
<1>4. \A i \in 1..m : s3[i] = s[i]
  BY <1>1, <1>2, <1>3
<1>5. s3[m + 1] = x
  <2>1. m + 1 \in 1..(m + 1) /\ m + 1 \in 1..(m + 1 + gap)
    OBVIOUS
  <2> QED
    BY <1>1, <1>2, <1>3, <2>1
<1>6. ASSUME NEW i \in 1..gap
      PROVE  s3[m + 1 + i] = zeros[i]
  <2>1. m + 1 + i \in 1..(m + 1 + gap)
    OBVIOUS
  <2> QED
    BY <1>2, <1>3, <2>1
<1>7. s3 = Four(s, x, zeros, t)
  BY DEF Four, s1, s2, s3
<1> QED
  <2>1. Laid(s3, s, m, x, zeros, gap, t, c)
    BY <1>3, <1>4, <1>5, <1>6 DEF Laid
  <2> QED
    BY <1>7, <1>8, <2>1

PaddedAs(p, msg, m, n) ==
  /\ IsString(p) /\ Len(p) = n
  /\ \A i \in 1..n : p[i] = PadByte(msg, m, n, i)

LEMMA PaddedFacts ==
  ASSUME NEW h, NEW msg, NEW m, NEW c, NEW gap, NEW n,
         IsString(msg), m \in Nat, m = Len(msg), c \in Nat, c = h.count,
         CountLen \in 0..c, gap \in Nat, n \in Nat, IsGap(h.block, c, m, gap, n)
  PROVE  PaddedAs(Padded(h, msg), msg, m, n)
<1> DEFINE zeros == [i \in 1..gap |-> Zero]
           count == [i \in 1..c |->
                       IF i <= c - CountLen THEN Zero
                       ELSE CountByte(m, i - 1 - (c - CountLen))]
           u == Four(msg, OneBit, zeros, count)
<1>9. n = m + 1 + gap + c
  BY DEF IsGap
<1>4. Padded(h, msg) = u
  BY DEF Padded, Zeros, IsGap, Four
<1>5. /\ zeros = [i \in 1..gap |-> zeros[i]] /\ count = [i \in 1..c |-> count[i]]
      /\ \A i \in 1..gap : zeros[i] = Zero
      /\ \A i \in 1..c : count[i] =
           IF i <= c - CountLen THEN Zero ELSE CountByte(m, i - 1 - (c - CountLen))
  OBVIOUS
<1> HIDE DEF zeros, count
<1>6. IsString(zeros) /\ Len(zeros) = gap /\ IsString(count) /\ Len(count) = c
  BY <1>5, StringOf
<1>7. /\ IsString(u) /\ Len(u) = m + 1 + gap + c
      /\ \A i \in 1..m : u[i] = msg[i]
      /\ u[m + 1] = OneBit
      /\ \A i \in 1..gap : u[m + 1 + i] = zeros[i]
      /\ \A i \in 1..c : u[m + 1 + gap + i] = count[i]
  <2>1. Laid(u, msg, m, OneBit, zeros, gap, count, c)
    BY <1>6, FourParts
  <2> HIDE DEF u
  <2> QED
    BY <2>1 DEF Laid
<1> HIDE DEF u
<1>8. ASSUME NEW i \in 1..(m + 1 + gap + c)
      PROVE  u[i] = PadByte(msg, m, m + 1 + gap + c, i)
  <2>1. CASE i \in 1..m
    BY <1>7, <2>1 DEF PadByte
  <2>2. CASE i = m + 1
    BY <1>7, <2>2 DEF PadByte
  <2>3. CASE i \in (m + 2)..(m + 1 + gap)
    <3>1. PICK j \in 1..gap : i = m + 1 + j
      <4>1. i - (m + 1) \in 1..gap /\ i = m + 1 + (i - (m + 1))
        BY <2>3
      <4> QED
        BY <4>1
    <3>2. u[i] = Zero
      BY <1>5, <1>7, <3>1
    <3>3. ~(i <= m) /\ i # m + 1 /\ i <= (m + 1 + gap + c) - CountLen
      BY <2>3
    <3> QED
      BY <3>2, <3>3 DEF PadByte
  <2>4. CASE i \in (m + 2 + gap)..(m + 1 + gap + c)
    <3>1. PICK j \in 1..c : i = m + 1 + gap + j
      <4>1. i - (m + 1 + gap) \in 1..c /\ i = m + 1 + gap + (i - (m + 1 + gap))
        BY <2>4
      <4> QED
        BY <4>1
    <3>2. u[i] = count[j]
      BY <1>7, <3>1
    <3>3. /\ ~(i <= m) /\ i # m + 1
          /\ i <= (m + 1 + gap + c) - CountLen <=> j <= c - CountLen
          /\ i - 1 - ((m + 1 + gap + c) - CountLen) = j - 1 - (c - CountLen)
      BY SMTT(30), <3>1
    <3> QED
      BY <1>5, <3>2, <3>3 DEF PadByte
  <2> QED
    BY <2>1, <2>2, <2>3, <2>4
<1> QED
  BY <1>4, <1>7, <1>8, <1>9 DEF PaddedAs

HasLengths(h, msg, b, c, m, q, ptr, n) ==
  /\ b = h.block /\ c = h.count /\ m = Len(msg)
  /\ c \in 0..(b - 1) /\ CountLen \in 1..c
  /\ Parted(m, b, q, ptr)
  /\ n = IF ptr + 1 <= b - c THEN b * (q + 1) ELSE b * (q + 2)
  /\ PaddedAs(Padded(h, msg), msg, m, n)

\* Everything there is to know of the lengths of a padded message.
LEMMA Lengths ==
  ASSUME NEW h, NEW msg, Sound(h), IsString(msg)
  PROVE  \E b, c, m, q, ptr, n : HasLengths(h, msg, b, c, m, q, ptr, n)
<1> DEFINE b == h.block
           c == h.count
           m == Len(msg)
           q == m \div b
           ptr == m % b
           gap == (0 - (m + 1 + c)) % b
           n == m + 1 + gap + c
<1>1. b \in Nat \ {0} /\ c \in 0..(b - 1) /\ CountLen \in 1..c /\ c \in Nat
  BY SoundFacts
<1>2. m \in Nat
  BY StringFacts
<1>3. IsGap(b, c, m, gap, n)
  BY DEF IsGap
<1>4. Parted(m, b, q, ptr)
  <2> HIDE DEF b, m
  <2> QED
    BY <1>1, <1>2, IsParted
<1> HIDE DEF gap, n, q, ptr
<1>5. Gapped(b, c, q, ptr, gap, n)
  <2> HIDE DEF b, c, m
  <2> QED
    BY <1>1, <1>3, <1>4, Gap
<1>6. /\ gap \in Nat /\ n \in Nat
      /\ n = IF ptr + 1 <= b - c THEN b * (q + 1) ELSE b * (q + 2)
  BY <1>5 DEF Gapped
<1>7. PaddedAs(Padded(h, msg), msg, m, n)
  <2>1. CountLen \in 0..c
    BY <1>1
  <2> HIDE DEF c, m
  <2>2. m = Len(msg) /\ c = h.count
    BY DEF m, c
  <2> QED
    BY <1>1, <1>2, <1>3, <1>6, <2>1, <2>2, PaddedFacts
<1>8. HasLengths(h, msg, b, c, m, q, ptr, n)
  BY <1>1, <1>2, <1>4, <1>6, <1>7 DEF HasLengths
<1> QED
  BY <1>8

\* What is hashed at the end is what the standard pads the message to, whatever
\* is left in the buffer (br_hash_out of the same).
THEOREM OutStands ==
  ASSUME NEW h, NEW cc, NEW msg, Sound(h), Stands(h, cc, msg)
  PROVE  br_hash_out(h, cc) = Digest(h, msg)
<1> DEFINE p == Padded(h, msg)
           cut == [i \in 0..(h.block - 1) |->
                     IF i < cc.count % h.block THEN cc.buf[i]
                     ELSE IF i = cc.count % h.block THEN OneBit ELSE Zero]
           blank == [i \in 0..(h.block - 1) |-> Zero]
           last == Closing(h, cut, cc.count)
           next == Closing(h, blank, cc.count)
           end == IF Fits(h, cc.count % h.block) THEN Append(cc.val, last)
                  ELSE cc.val \o <<cut, next>>
<1>1. br_hash_out(h, cc) = DigestBytes(h, end)
  BY DEF br_hash_out
<1>2. IsString(msg)
  BY DEF Stands
<1>3. PICK b, c, m, q, ptr, n : HasLengths(h, msg, b, c, m, q, ptr, n)
  BY <1>2, Lengths
<1>4. /\ b \in Nat \ {0} /\ c \in 0..(b - 1) /\ CountLen \in 1..c /\ m \in Nat
      /\ q \in Nat /\ ptr \in 0..(b - 1)
  BY <1>3 DEF HasLengths, Parted
<1>5. b = h.block /\ c = h.count /\ m = Len(msg)
  BY <1>3 DEF HasLengths
<1>6. m = b * q + ptr
  BY <1>3 DEF HasLengths, Parted
<1>7. q = m \div b /\ ptr = m % b
  BY <1>3 DEF HasLengths, Parted
<1>8. cc.count = m
  BY <1>5 DEF Stands
\* The blocks the message fills.
<1>9. Chopped(cc.val, b, q, msg)
  <2>1. Chopped(Blocks(h, msg), h.block, Len(msg) \div h.block, msg)
    BY <1>2, BlocksChopped
  <2>2. cc.val = Blocks(h, msg)
    BY DEF Stands
  <2> QED
    BY <1>5, <1>7, <2>1, <2>2
<1>10. PICK rounds \in Nat : rounds = IF ptr + 1 <= b - c THEN q + 1 ELSE q + 2
  BY <1>4
<1>11. n = b * rounds
  BY <1>3, <1>10 DEF HasLengths
<1>12. n \div b = rounds /\ n \in Nat
  BY <1>4, <1>11
<1> HIDE DEF p, cut, blank, last, next
<1>13. Chopped(Blocks(h, p), b, rounds, p)
  <2>1. IsString(p) /\ Len(p) = n
    BY <1>3 DEF HasLengths, PaddedAs, p
  <2>2. Chopped(Blocks(h, p), h.block, Len(p) \div h.block, p)
    BY <2>1, BlocksChopped
  <2>3. Len(p) \div h.block = rounds
    BY <1>5, <1>12, <2>1
  <2> QED
    BY <1>5, <2>2, <2>3
<1>14. \A i \in 1..n : p[i] = PadByte(msg, m, n, i)
  BY <1>3 DEF HasLengths, PaddedAs, p
<1>15. ASSUME NEW k \in 1..q, NEW i \in 0..(b - 1)
       PROVE  p[b * (k - 1) + i + 1] = msg[b * (k - 1) + i + 1]
  <2>1. k \in 1..(m \div b)
    BY <1>7
  <2>2. PICK j \in 1..m : j = b * (k - 1) + i + 1
    BY <1>4, <2>1, InBlock
  <2>3. j \in 1..n
    BY <1>4, <1>6, <1>10, <1>11
  <2>4. p[j] = PadByte(msg, m, n, j)
    BY <1>14, <2>3
  <2>5. p[j] = msg[j]
    BY <2>4 DEF PadByte
  <2> QED
    BY <2>2, <2>5
<1>16. \A i \in 0..(b - 1) :
         cut[i] = IF i < ptr THEN msg[b * q + i + 1] ELSE IF i = ptr THEN OneBit ELSE Zero
  <2>1. cut = [i \in 0..(b - 1) |->
                 IF i < ptr THEN cc.buf[i] ELSE IF i = ptr THEN OneBit ELSE Zero]
    BY <1>5, <1>7, <1>8 DEF cut
  <2>2. \A i \in 0..(b - 1) : i < ptr => cc.buf[i] = msg[b * q + i + 1]
    BY <1>5, <1>7 DEF Stands
  <2> QED
    BY <2>1, <2>2
<1>17. /\ cut = [i \in 0..(b - 1) |-> cut[i]]
       /\ last = [i \in 0..(b - 1) |-> last[i]] /\ next = [i \in 0..(b - 1) |-> next[i]]
  BY <1>5 DEF cut, last, next, Closing
<1>18. \A i \in 0..(b - 1) :
         /\ last[i] = IF i < b - c THEN cut[i] ELSE IF i < b - CountLen THEN Zero
                       ELSE CountByte(m, i - (b - CountLen))
         /\ next[i] = IF i < b - CountLen THEN Zero ELSE CountByte(m, i - (b - CountLen))
  <2>1. /\ last = [i \in 0..(b - 1) |->
                    IF i < b - c THEN cut[i] ELSE IF i < b - CountLen THEN Zero
                    ELSE CountByte(m, i - (b - CountLen))]
        /\ next = [i \in 0..(b - 1) |->
                    IF i < b - c THEN blank[i] ELSE IF i < b - CountLen THEN Zero
                    ELSE CountByte(m, i - (b - CountLen))]
    BY <1>5, <1>8 DEF last, next, Closing
  <2>2. \A i \in 0..(b - 1) : blank[i] = Zero
    BY <1>5 DEF blank
  <2>3. \A i \in 0..(b - 1) : i < b - c => i < b - CountLen
    BY <1>4
  <2> QED
    BY <2>1, <2>2, <2>3
<1>19. PICK bq \in Nat : bq = b * q
  BY <1>4
\* The byte i of the block after those the message fills, and of the next.
<1>20. ASSUME NEW i \in 0..(b - 1)
       PROVE  /\ ptr + 1 <= b - c => p[bq + i + 1] = last[i]
              /\ ~(ptr + 1 <= b - c) => p[bq + i + 1] = cut[i] /\ p[bq + b + i + 1] = next[i]
  <2>1. cut[i] = IF i < ptr THEN msg[bq + i + 1] ELSE IF i = ptr THEN OneBit ELSE Zero
    BY <1>16, <1>19
  <2>2. m = bq + ptr
    BY <1>6, <1>19
  <2>3. CASE ptr + 1 <= b - c
    <3>1. n = bq + b
      BY <1>4, <1>10, <1>11, <1>19, <2>3
    <3>2. PICK j \in 1..n : j = bq + i + 1
      BY <1>4, <3>1
    <3>3. p[j] = PadByte(msg, m, n, j)
      BY <1>14
    <3>4. /\ j <= m <=> i < ptr
          /\ j = m + 1 <=> i = ptr
          /\ j <= n - CountLen <=> i < b - CountLen
          /\ j - 1 - (n - CountLen) = i - (b - CountLen)
      BY <1>4, <2>2, <3>1, <3>2
    <3>5. last[i] = IF i < b - c THEN cut[i] ELSE IF i < b - CountLen THEN Zero
                    ELSE CountByte(m, i - (b - CountLen))
      BY <1>18
    <3>6. /\ i < ptr => i < b - c
          /\ i = ptr => i < b - c
          /\ i < b - c => i < b - CountLen
      BY <1>4, <2>3
    <3>7. p[j] = last[i]
      BY <2>1, <3>2, <3>3, <3>4, <3>5, <3>6 DEF PadByte
    <3> QED
      BY <2>3, <3>2, <3>7
  <2>4. CASE ~(ptr + 1 <= b - c)
    <3>1. n = bq + b + b
      BY <1>4, <1>10, <1>11, <1>19, <2>4
    <3>2. PICK j \in 1..n : j = bq + i + 1
      BY <1>4, <3>1
    <3>3. PICK k \in 1..n : k = bq + b + i + 1
      BY <1>4, <3>1
    <3>4. p[j] = PadByte(msg, m, n, j) /\ p[k] = PadByte(msg, m, n, k)
      BY <1>14
    <3>5. /\ j <= m <=> i < ptr
          /\ j = m + 1 <=> i = ptr
          /\ j <= n - CountLen
          /\ ~(k <= m) /\ k # m + 1
          /\ k <= n - CountLen <=> i < b - CountLen
          /\ k - 1 - (n - CountLen) = i - (b - CountLen)
      BY <1>4, <2>2, <3>1, <3>2, <3>3
    <3>6. p[j] = cut[i]
      BY <2>1, <3>2, <3>4, <3>5 DEF PadByte
    <3>7. next[i] = IF i < b - CountLen THEN Zero ELSE CountByte(m, i - (b - CountLen))
      BY <1>18
    <3>8. p[k] = next[i]
      BY <3>4, <3>5, <3>7 DEF PadByte
    <3> QED
      BY <2>4, <3>2, <3>3, <3>6, <3>8
  <2> QED
    BY <2>3, <2>4
<1>21. /\ \A k \in 1..rounds :
            Blocks(h, p)[k] = [i \in 0..(b - 1) |-> p[b * (k - 1) + i + 1]]
       /\ \A k \in 1..q : cc.val[k] = [i \in 0..(b - 1) |-> msg[b * (k - 1) + i + 1]]
       /\ IsString(cc.val) /\ Len(cc.val) = q
       /\ IsString(Blocks(h, p)) /\ Len(Blocks(h, p)) = rounds
  BY <1>9, <1>13 DEF Chopped
<1>22. ASSUME NEW k \in 1..q
       PROVE  Blocks(h, p)[k] = cc.val[k]
  <2>1. k \in 1..rounds
    BY <1>4, <1>10
  <2>2. \A i \in 0..(b - 1) : p[b * (k - 1) + i + 1] = msg[b * (k - 1) + i + 1]
    BY <1>15
  <2>3. [i \in 0..(b - 1) |-> p[b * (k - 1) + i + 1]] =
        [i \in 0..(b - 1) |-> msg[b * (k - 1) + i + 1]]
    BY <2>2, Zenon
  <2>4. Blocks(h, p)[k] = [i \in 0..(b - 1) |-> p[b * (k - 1) + i + 1]]
    BY <1>21, <2>1
  <2>5. cc.val[k] = [i \in 0..(b - 1) |-> msg[b * (k - 1) + i + 1]]
    BY <1>21
  <2> QED
    BY <2>3, <2>4, <2>5
<1>25. IsText(cc.val, q) /\ IsText(Blocks(h, p), rounds)
  BY <1>4, <1>21 DEF IsText
<1>23. CASE ptr + 1 <= b - c
  <2>1. rounds = q + 1 /\ q + 1 \in 1..rounds /\ b * ((q + 1) - 1) = bq
    BY <1>4, <1>10, <1>19, <1>23
  <2>2. Blocks(h, p)[q + 1] = last
    <3>1. Blocks(h, p)[q + 1] = [i \in 0..(b - 1) |-> p[bq + i + 1]]
      BY <1>21, <2>1
    <3>2. [i \in 0..(b - 1) |-> p[bq + i + 1]] = [i \in 0..(b - 1) |-> last[i]]
      BY <1>20, <1>23, Zenon
    <3> QED
      BY <1>17, <3>1, <3>2
  <2>3. end = cc.val \o <<last>>
    <3>1. Fits(h, cc.count % h.block)
      BY <1>5, <1>7, <1>8, <1>23 DEF Fits
    <3> QED
      BY <1>21, <3>1, Appended
  <2> HIDE DEF end
  <2> DEFINE t == <<last>>
  <2>4. IsText(t, 1) /\ t[1] = last
    BY Single DEF IsText
  <2> HIDE DEF t
  <2> DEFINE u == cc.val \o t
  <2>5. Joint(u, cc.val, q, t, 1)
    BY <1>25, <2>4, JointText
  <2> HIDE DEF u
  <2>9. /\ IsText(u, q + 1) /\ u[q + 1] = last
        /\ \A k \in 1..q : u[k] = cc.val[k]
    BY <2>4, <2>5 DEF Joint
  <2>6. \A k \in 1..(q + 1) : u[k] = Blocks(h, p)[k]
    BY <1>4, <1>22, <2>2, <2>9
  <2>10. IsText(Blocks(h, p), q + 1)
    BY <1>25, <2>1
  <2>11. u = Blocks(h, p)
    BY <2>6, <2>9, <2>10, SameText
  <2>7. cc.val \o <<last>> = Blocks(h, p)
    BY <2>11 DEF u, t
  <2> QED
    BY <1>1, <2>3, <2>7 DEF Digest, p
<1>24. CASE ~(ptr + 1 <= b - c)
  <2>1. /\ rounds = q + 2 /\ q + 1 \in 1..rounds /\ q + 2 \in 1..rounds
        /\ b * ((q + 1) - 1) = bq /\ b * ((q + 2) - 1) = bq + b
    BY <1>4, <1>10, <1>19, <1>24
  <2>2. Blocks(h, p)[q + 1] = cut
    <3>1. Blocks(h, p)[q + 1] = [i \in 0..(b - 1) |-> p[bq + i + 1]]
      BY <1>21, <2>1
    <3>2. [i \in 0..(b - 1) |-> p[bq + i + 1]] = [i \in 0..(b - 1) |-> cut[i]]
      BY <1>20, <1>24, Zenon
    <3> QED
      BY <1>17, <3>1, <3>2
  <2>8. Blocks(h, p)[q + 2] = next
    <3>1. Blocks(h, p)[q + 2] = [i \in 0..(b - 1) |-> p[bq + b + i + 1]]
      BY <1>21, <2>1
    <3>2. [i \in 0..(b - 1) |-> p[bq + b + i + 1]] = [i \in 0..(b - 1) |-> next[i]]
      BY <1>20, <1>24, Zenon
    <3> QED
      BY <1>17, <3>1, <3>2
  <2>3. end = cc.val \o <<cut, next>>
    BY <1>5, <1>7, <1>8, <1>24 DEF Fits
  <2> HIDE DEF end
  <2> DEFINE t == <<cut, next>>
  <2>4. IsText(t, 2) /\ t[1] = cut /\ t[2] = next
    <3>1. <<cut, next>> \in Seq({cut, next})
      OBVIOUS
    <3>2. IsString(<<cut, next>>)
      BY <3>1, StringIn
    <3> QED
      BY <3>2 DEF IsText
  <2> HIDE DEF t
  <2> DEFINE u == cc.val \o t
  <2>5. Joint(u, cc.val, q, t, 2)
    BY <1>25, <2>4, JointText
  <2> HIDE DEF u
  <2>9. /\ IsText(u, q + 2) /\ u[q + 1] = cut /\ u[q + 2] = next
        /\ \A k \in 1..q : u[k] = cc.val[k]
    BY <2>4, <2>5 DEF Joint
  <2>6. \A k \in 1..(q + 2) : u[k] = Blocks(h, p)[k]
    BY <1>4, <1>22, <2>2, <2>8, <2>9
  <2>10. IsText(Blocks(h, p), q + 2)
    BY <1>25, <2>1
  <2>11. u = Blocks(h, p)
    BY <2>6, <2>9, <2>10, SameText
  <2>7. cc.val \o <<cut, next>> = Blocks(h, p)
    BY <2>11 DEF u, t
  <2> QED
    BY <1>1, <2>3, <2>7 DEF Digest, p
<1> QED
  BY <1>23, <1>24

-----------------------------------------------------------------------------
(* The proof of work.                                                        *)
LEMMA Sha256Sound ==
  Sound(Sha256) /\ Sha256.block = 16
BY HashAssumption DEF Sound, Sha256

LEMMA TokenText ==
  IsText(Token, 12)
<1>1. Token = [i \in 1..12 |-> Token[i]] /\ 12 \in Nat
  BY DEF Token, Bytes
<1> HIDE DEF Token
<1>2. IsString(Token) /\ Len(Token) = 12
  BY <1>1, StringOf
<1> QED
  BY <1>2 DEF IsText

LEMMA RepeatedText ==
  ASSUME NEW n, n \in Nat
  PROVE  /\ IsText(Repeated(n), 12 * n)
         /\ \A i \in 1..(12 * n) : Repeated(n)[i] = Token[((i - 1) % 12) + 1]
<1> DEFINE r == Repeated(n)
<1>1. r = [i \in 1..(12 * n) |-> Token[((i - 1) % 12) + 1]]
  BY DEF Repeated
<1> HIDE DEF r
<1>2. r = [i \in 1..(12 * n) |-> r[i]] /\ 12 * n \in Nat
  BY <1>1
<1>3. IsString(r) /\ Len(r) = 12 * n
  BY <1>2, StringOf
<1>4. \A i \in 1..(12 * n) : r[i] = Token[((i - 1) % 12) + 1]
  BY <1>1
<1> QED
  BY <1>2, <1>3, <1>4 DEF IsText, r

LEMMA RepeatedJoined ==
  ASSUME NEW a, NEW b, a \in Nat, b \in Nat
  PROVE  Repeated(a) \o Repeated(b) = Repeated(a + b)
<1> DEFINE u == Repeated(a) \o Repeated(b)
           w == Repeated(a + b)
<1>1. PICK m \in Nat : m = 12 * a
  OBVIOUS
<1>2. PICK n \in Nat : n = 12 * b
  OBVIOUS
<1>3. PICK k \in Nat : k = a + b
  OBVIOUS
<1>4. 12 * k = m + n
  BY <1>1, <1>2, <1>3
<1>5. /\ IsText(Repeated(a), m) /\ IsText(Repeated(b), n)
      /\ \A i \in 1..m : Repeated(a)[i] = Token[((i - 1) % 12) + 1]
      /\ \A i \in 1..n : Repeated(b)[i] = Token[((i - 1) % 12) + 1]
  BY <1>1, <1>2, RepeatedText
<1>6. /\ IsText(w, m + n)
      /\ \A i \in 1..(m + n) : w[i] = Token[((i - 1) % 12) + 1]
  BY <1>3, <1>4, RepeatedText
<1>7. Joint(u, Repeated(a), m, Repeated(b), n)
  BY <1>5, JointText
<1> HIDE DEF u, w
<1>8. /\ IsText(u, m + n)
      /\ \A i \in 1..m : u[i] = Repeated(a)[i]
      /\ \A i \in 1..n : u[m + i] = Repeated(b)[i]
  BY <1>7 DEF Joint
<1>9. ASSUME NEW i \in 1..(m + n)
      PROVE  u[i] = w[i]
  <2>1. CASE i <= m
    BY <1>5, <1>6, <1>8, <2>1
  <2>2. CASE ~(i <= m)
    <3>1. PICK j \in 1..n : i = m + j
      <4>1. i - m \in 1..n /\ i = m + (i - m)
        BY <2>2
      <4> QED
        BY <4>1
    <3>2. (i - 1) % 12 = (j - 1) % 12
      BY <1>1, <3>1
    <3>3. u[i] = Token[((j - 1) % 12) + 1]
      BY <1>5, <1>8, <3>1
    <3>4. w[i] = Token[((i - 1) % 12) + 1]
      BY <1>6
    <3> QED
      BY <3>2, <3>3, <3>4
  <2> QED
    BY <2>1, <2>2
<1>10. u = w
  BY <1>6, <1>8, <1>9, SameText
<1> QED
  BY <1>10 DEF u, w

LEMMA PrefixText ==
  ASSUME NEW k
  PROVE  IsText(Prefix(k), 1)
BY Single DEF IsText, Prefix

LEMMA OneToken ==
  Repeated(1) = Token
<1>1. /\ IsText(Repeated(1), 12)
      /\ \A i \in 1..12 : Repeated(1)[i] = Token[((i - 1) % 12) + 1]
  BY RepeatedText
<1>2. \A i \in 1..12 : ((i - 1) % 12) + 1 = i
  OBVIOUS
<1>3. \A i \in 1..12 : Repeated(1)[i] = Token[i]
  BY <1>1, <1>2
<1> QED
  BY <1>1, <1>3, TokenText, SameText

\* A string cut in two.
Cutting(n, k, next, d) == n \in Nat /\ k \in 0..n /\ next = k + 1 /\ d = n - k

Halves(t, u, s) == t \o u = s

LEMMA CutInTwo ==
  ASSUME NEW s, NEW n, NEW k, NEW next, NEW d, IsText(s, n), Cutting(n, k, next, d)
  PROVE  /\ IsText(SubSeq(s, 1, k), k) /\ IsText(SubSeq(s, next, n), d)
         /\ Halves(SubSeq(s, 1, k), SubSeq(s, next, n), s)
<1> DEFINE t == SubSeq(s, 1, k)
           u == SubSeq(s, next, n)
           w == t \o u
<1>1. /\ IsString(s) /\ n \in Nat /\ Len(s) = n /\ k \in Nat /\ k <= n
      /\ next = k + 1 /\ d = n - k /\ d \in Nat
  BY DEF IsText, Cutting
<1>2. IsText(t, k) /\ \A i \in 1..k : t[i] = s[i]
  <2>1. /\ IsString(t) /\ Len(t) = k - 1 + 1
        /\ \A i \in 1..(k - 1 + 1) : t[i] = s[1 + i - 1]
    BY <1>1, CutString
  <2> HIDE DEF t
  <2> QED
    BY <1>1, <2>1 DEF IsText
<1>4. IsText(u, d) /\ \A i \in 1..d : u[i] = s[k + i]
  <2>1. /\ IsString(u) /\ Len(u) = n - next + 1
        /\ \A i \in 1..(n - next + 1) : u[i] = s[next + i - 1]
    BY <1>1, CutString
  <2> HIDE DEF u
  <2> QED
    BY <1>1, <2>1 DEF IsText
<1> HIDE DEF t, u
<1>5. Joint(w, t, k, u, d)
  BY <1>2, <1>4, JointText
<1> HIDE DEF w
<1>6. /\ IsText(w, k + d)
      /\ \A i \in 1..k : w[i] = t[i]
      /\ \A i \in 1..d : w[k + i] = u[i]
  BY <1>5 DEF Joint
<1>7. ASSUME NEW i \in 1..n
      PROVE  w[i] = s[i]
  <2>1. CASE i <= k
    BY <1>1, <1>2, <1>6, <2>1
  <2>2. CASE ~(i <= k)
    <3>1. PICK j \in 1..d : i = k + j
      <4>1. i - k \in 1..d /\ i = k + (i - k)
        BY <1>1, <2>2
      <4> QED
        BY <4>1
    <3> QED
      BY <1>4, <1>6, <3>1
  <2> QED
    BY <2>1, <2>2
<1>8. k + d = n
  BY <1>1
<1>9. w = s
  BY <1>6, <1>7, <1>8, SameText
<1> QED
  BY <1>2, <1>4, <1>9 DEF Halves, t, u, w

LEMMA FirstTokens ==
  ASSUME NEW k
  PROVE  /\ IsString(Prefix(k) \o Token \o SubSeq(Token, 1, 3))
         /\ IsString(SubSeq(Token, 4, 12))
         /\ (Prefix(k) \o Token \o SubSeq(Token, 1, 3)) \o SubSeq(Token, 4, 12) =
              Prefix(k) \o Repeated(2)
<1> DEFINE t == SubSeq(Token, 1, 3)
           u == SubSeq(Token, 4, 12)
<1>1. IsText(t, 3) /\ IsText(u, 9) /\ Halves(t, u, Token)
  <2>1. Cutting(12, 3, 4, 9) /\ IsText(Token, 12)
    BY TokenText DEF Cutting
  <2> QED
    BY <2>1, CutInTwo
<1> HIDE DEF t, u
<1>3. /\ IsString(t) /\ IsString(u) /\ IsString(Token) /\ IsString(Prefix(k))
  BY <1>1, TokenText, PrefixText DEF IsText
<1>4. IsString(Prefix(k) \o Token) /\ IsString((Prefix(k) \o Token) \o t)
  BY <1>3, Joined
<1>5. ((Prefix(k) \o Token) \o t) \o u = (Prefix(k) \o Token) \o (t \o u)
  BY SMTT(30), <1>3, <1>4, JoinedTwice
<1>6. (Prefix(k) \o Token) \o Token = Prefix(k) \o (Token \o Token)
  BY <1>3, JoinedTwice
<1>7. Token \o Token = Repeated(2)
  <2>1. Repeated(1) \o Repeated(1) = Repeated(1 + 1)
    BY RepeatedJoined
  <2> QED
    BY <2>1, OneToken
<1> QED
  BY <1>1, <1>3, <1>4, <1>5, <1>6, <1>7 DEF t, u, Halves

\* The nonce and a number of tokens went in.
Work(cc, nonce, tokens) == Stands(Sha256, cc, Prefix(nonce) \o Repeated(tokens))

LEMMA WorkBegins ==
  ASSUME NEW k
  PROVE  Work(br_hash_update(Sha256,
                br_hash_update(Sha256, br_hash_init(Sha256),
                  Prefix(k) \o Token \o SubSeq(Token, 1, 3)),
                SubSeq(Token, 4, 12)), k, 2)
<1> DEFINE a == Prefix(k) \o Token \o SubSeq(Token, 1, 3)
           b == SubSeq(Token, 4, 12)
<1>1. IsString(a) /\ IsString(b) /\ a \o b = Prefix(k) \o Repeated(2)
  BY FirstTokens
<1> HIDE DEF a, b
<1>2. Sound(Sha256) /\ Stands(Sha256, br_hash_init(Sha256), <<>>)
  BY Sha256Sound, EmptyStands
<1>3. Stands(Sha256, br_hash_update(Sha256, br_hash_init(Sha256), a), <<>> \o a)
  BY <1>1, <1>2, UpdateStands
<1>4. <<>> \o a = a
  BY <1>1, Empty
<1>5. Stands(Sha256, br_hash_update(Sha256, br_hash_init(Sha256), a), a)
  BY <1>3, <1>4
<1>6. Stands(Sha256, br_hash_update(Sha256, br_hash_update(Sha256, br_hash_init(Sha256), a), b),
             a \o b)
  BY <1>1, <1>2, <1>5, UpdateStands
<1> QED
  BY <1>1, <1>6 DEF Work, a, b

LEMMA WorkGoesOn ==
  ASSUME NEW cc, NEW k, NEW m, NEW n, Work(cc, k, m), m \in Nat, n \in Nat
  PROVE  Work(br_hash_update(Sha256, cc, Repeated(n)), k, m + n)
<1>1. /\ IsString(Prefix(k)) /\ IsString(Repeated(m)) /\ IsString(Repeated(n))
  BY PrefixText, RepeatedText DEF IsText
<1>2. Stands(Sha256, br_hash_update(Sha256, cc, Repeated(n)),
             (Prefix(k) \o Repeated(m)) \o Repeated(n))
  BY <1>1, Sha256Sound, UpdateStands DEF Work
<1>3. (Prefix(k) \o Repeated(m)) \o Repeated(n) = Prefix(k) \o (Repeated(m) \o Repeated(n))
  BY <1>1, JoinedTwice
<1>4. Repeated(m) \o Repeated(n) = Repeated(m + n)
  BY RepeatedJoined
<1> QED
  BY <1>2, <1>3, <1>4 DEF Work

LEMMA WorkEnds ==
  ASSUME NEW cc, NEW k, NEW m, Work(cc, k, m)
  PROVE  br_hash_out(Sha256, cc) = Digest(Sha256, Prefix(k) \o Repeated(m))
BY Sha256Sound, OutStands DEF Work

\* No later than the time that is allowed and that of some chunks.
Within(elapsed, chunks) == elapsed < Timeout + (MaxTicks * chunks)

LEMMA OneMore ==
  ASSUME NEW e, NEW t, NEW k, e \in Nat, t \in 0..MaxTicks, k \in Nat, Within(e, k)
  PROVE  Within(e + t, k + 1)
<1>1. MaxTicks \in Nat /\ Timeout \in Nat
  BY ClockAssumption
<1>2. MaxTicks * (k + 1) = (MaxTicks * k) + MaxTicks /\ MaxTicks * k \in Nat
  BY <1>1
<1> QED
  BY <1>1, <1>2 DEF Within

LEMMA LongerStill ==
  ASSUME NEW e, NEW k, NEW n, e \in Nat, k \in Nat, n \in Nat, k <= n, Within(e, k)
  PROVE  Within(e, n)
<1>1. MaxTicks \in Nat /\ Timeout \in Nat
  BY ClockAssumption
<1>2. MaxTicks * k \in Int /\ MaxTicks * n \in Int /\ MaxTicks * k <= MaxTicks * n
  BY <1>1, Product
<1> QED
  BY <1>1, <1>2 DEF Within

\* However the readings wrap, the time between them is the time that went by.
LEMMA ClockRight ==
  ASSUME NEW start, NEW e, start \in 0..(TickMod - 1), e \in Nat, e < TickMod
  PROVE  TimedOut(start, (start + e) % TickMod) <=> e >= Timeout
<1>1. PICK w \in Nat \ {0} : w = TickMod
  BY ClockAssumption
<1>2. PICK now \in 0..(w - 1) : now = (start + e) % w
  BY <1>1
<1>3. (now - start) % w = e
  <2>1. CASE start + e < w
    <3>1. now = start + e
      BY <1>1, <1>2, <2>1
    <3> QED
      BY <1>1, <3>1
  <2>2. CASE ~(start + e < w)
    <3>1. start + e = (w * 1) + (start + e - w) /\ start + e - w \in 0..(w - 1)
      BY <1>1, <2>2
    <3>2. now = start + e - w
      BY <1>1, <1>2, <3>1
    <3>3. now - start = (w * (0 - 1)) + e
      BY <1>1, <3>2
    <3> QED
      BY <1>1, <3>3
  <2> QED
    BY <2>1, <2>2
<1> QED
  BY <1>1, <1>2, <1>3 DEF TimedOut

IsHashcash(j) ==
  /\ j = [kind |-> "hashcash", at |-> j.at, nonce |-> j.nonce, i |-> j.i, start |-> j.start,
          elapsed |-> j.elapsed, cc |-> j.cc, rc |-> j.rc]
  /\ j.start \in 0..(TickMod - 1) /\ j.elapsed \in Nat /\ j.i \in 0..FullChunks
  /\ j.at \in {"nonce", "chunks", "compare", "done"}

\* What went in so far belongs to the nonce that is tried.
Digested(j) ==
  /\ j.at = "chunks" => Work(j.cc, j.nonce, 2 + (ChunkRepeats * j.i))
  /\ j.at = "compare" => Work(j.cc, j.nonce, ChunkRepeats * (FullChunks + 1))

\* Chunks since the clock was looked at: those of this nonce, and as long as it
\* was not looked at for this nonce, the last ones of the nonce before and what
\* follows them.
Unseen(j) ==
  IF j.at = "done" THEN CheckEvery + (FullChunks % CheckEvery) + 1
  ELSE IF j.at = "chunks"
    THEN IF j.i < CheckEvery THEN (FullChunks % CheckEvery) + 1 + j.i ELSE j.i % CheckEvery
  ELSE (FullChunks % CheckEvery) + 1

InTime(j) == Within(j.elapsed, Unseen(j))

Working(j) == IsHashcash(j) /\ Digested(j) /\ InTime(j)

LEMMA Bounds ==
  /\ CheckEvery \in Nat \ {0} /\ FullChunks \in Nat \ {0} /\ CheckEvery <= FullChunks
  /\ ChunkRepeats \in Nat /\ ChunkRepeats > 2
  /\ FullChunks % CheckEvery \in 0..(CheckEvery - 1)
BY ServicesAssumption

LEMMA HashcashBegins ==
  ASSUME NEW start, start \in Starts
  PROVE  Working(Hashcash(start))
<1> DEFINE j == Hashcash(start)
           cc == br_hash_init(Sha256)
<1>1. j = [kind |-> "hashcash", at |-> "nonce", nonce |-> 0, i |-> 0, start |-> start,
           elapsed |-> 0, cc |-> cc, rc |-> 0]
  BY DEF Hashcash
<1> HIDE DEF j, cc
<1>2. start \in 0..(TickMod - 1)
  BY ClockAssumption
<1>3. IsHashcash(j)
  BY <1>1, <1>2, Bounds DEF IsHashcash
<1>4. Digested(j)
  BY <1>1 DEF Digested
<1>5. InTime(j)
  <2>1. PICK r \in Nat : r = (FullChunks % CheckEvery) + 1
    BY Bounds
  <2>2. MaxTicks * r \in Nat /\ Timeout \in Nat \ {0}
    BY ClockAssumption
  <2>3. Within(0, r)
    BY <2>2 DEF Within
  <2>4. Unseen(j) = r /\ j.elapsed = 0
    BY <1>1, <2>1 DEF Unseen
  <2> QED
    BY <2>3, <2>4 DEF InTime
<1> QED
  BY <1>3, <1>4, <1>5 DEF Working, j

HashcashJob(at, nonce, i, start, elapsed, cc, rc) ==
  [kind |-> "hashcash", at |-> at, nonce |-> nonce, i |-> i, start |-> start,
   elapsed |-> elapsed, cc |-> cc, rc |-> rc]

LEMMA JobParts ==
  ASSUME NEW j, IsHashcash(j)
  PROVE  \E at, nonce, i, start, elapsed, cc, rc :
           /\ j = HashcashJob(at, nonce, i, start, elapsed, cc, rc)
           /\ start \in 0..(TickMod - 1) /\ elapsed \in Nat /\ i \in 0..FullChunks
<1>1. /\ j = HashcashJob(j.at, j.nonce, j.i, j.start, j.elapsed, j.cc, j.rc)
      /\ j.start \in 0..(TickMod - 1) /\ j.elapsed \in Nat /\ j.i \in 0..FullChunks
  BY DEF IsHashcash, HashcashJob
<1> QED
  BY <1>1

LEMMA NonceWorks ==
  ASSUME Working(job), HashcashNonce
  PROVE  Working(job')
<1>1. PICK at, nonce, i, start, e, old, rc :
        /\ job = HashcashJob(at, nonce, i, start, e, old, rc)
        /\ start \in 0..(TickMod - 1) /\ e \in Nat /\ i \in 0..FullChunks
  BY JobParts DEF Working
<1>2. /\ job.at = at /\ job.nonce = nonce /\ job.elapsed = e
  BY <1>1 DEF HashcashJob
<1> DEFINE cc == br_hash_update(Sha256,
                   br_hash_update(Sha256, br_hash_init(Sha256),
                     Prefix(nonce) \o Token \o SubSeq(Token, 1, 3)),
                   SubSeq(Token, 4, 12))
<1>3. job' = [job EXCEPT !.at = "chunks", !.i = 0, !.cc = cc] /\ at = "nonce"
  BY <1>2 DEF HashcashNonce
<1>4. Work(cc, nonce, 2)
  BY WorkBegins
<1> HIDE DEF cc
<1>5. job' = HashcashJob("chunks", nonce, 0, start, e, cc, rc)
  BY <1>1, <1>3 DEF HashcashJob
<1>6. /\ job' = [kind |-> "hashcash", at |-> "chunks", nonce |-> nonce, i |-> 0,
                 start |-> start, elapsed |-> e, cc |-> cc, rc |-> rc]
      /\ job'.at = "chunks" /\ job'.nonce = nonce /\ job'.i = 0 /\ job'.start = start
      /\ job'.elapsed = e /\ job'.cc = cc /\ job'.rc = rc
  BY <1>5 DEF HashcashJob
<1>7. IsHashcash(job')
  BY <1>1, <1>6, Bounds DEF IsHashcash
<1>8. Digested(job')
  <2>1. 2 + (ChunkRepeats * 0) = 2
    BY Bounds
  <2> QED
    BY <1>4, <1>6, <2>1 DEF Digested
<1>9. InTime(job')
  <2>1. PICK r \in Nat : r = (FullChunks % CheckEvery) + 1
    BY Bounds
  <2>2. Within(e, r)
    BY <1>2, <1>3, <2>1 DEF Working, InTime, Unseen
  <2>3. Unseen(job') = r + 0
    BY <1>6, <2>1, Bounds DEF Unseen
  <2> QED
    BY <1>6, <2>2, <2>3 DEF InTime
<1> QED
  BY <1>7, <1>8, <1>9 DEF Working

LEMMA JobFields ==
  ASSUME NEW j, NEW at, NEW nonce, NEW i, NEW start, NEW e, NEW cc, NEW rc,
         j = HashcashJob(at, nonce, i, start, e, cc, rc),
         start \in 0..(TickMod - 1), e \in Nat, i \in 0..FullChunks,
         at \in {"nonce", "chunks", "compare", "done"}
  PROVE  /\ IsHashcash(j)
         /\ j.at = at /\ j.nonce = nonce /\ j.i = i /\ j.elapsed = e /\ j.cc = cc
BY DEF HashcashJob, IsHashcash

LEMMA NextRemainder ==
  ASSUME NEW i \in Nat, NEW b \in Nat \ {0}
  PROVE  /\ i % b \in 0..(b - 1)
         /\ i % b = b - 1 => (i + 1) % b = 0 /\ ~(i + 1 < b)
         /\ i % b # b - 1 => (i + 1) % b = (i % b) + 1 /\ (i < b => i + 1 < b)
<1>1. PICK q \in Nat, s \in 0..(b - 1) : i = b * q + s /\ s = i % b
  BY Parts
<1>2. CASE s = b - 1
  <2>4. PICK k \in Nat : k = q + 1
    BY <1>1
  <2>5. b * k = b * q + b
    BY <2>4
  <2>1. i + 1 = b * k + 0 /\ 0 \in 0..(b - 1)
    BY <1>1, <1>2, <2>5
  <2>6. PICK n \in Int : n = i + 1
    OBVIOUS
  <2>7. PICK z \in 0..(b - 1) : z = 0
    OBVIOUS
  <2>8. n = b * k + z /\ b \in Nat /\ b # 0 /\ k \in Int
    BY <2>1, <2>6, <2>7
  <2>9. z = n % b
    BY <2>8, Quotient
  <2>2. 0 = (i + 1) % b
    BY <2>6, <2>7, <2>9
  <2>3. ~(i + 1 < b)
    BY <1>1, <1>2
  <2> QED
    BY <1>1, <1>2, <2>2, <2>3
<1>3. CASE s # b - 1
  <2>1. PICK t \in 0..(b - 1) : t = s + 1
    BY <1>3
  <2>2. i + 1 = b * q + t
    BY <1>1, <2>1
  <2>5. PICK n \in Int : n = i + 1
    OBVIOUS
  <2>6. n = b * q + t
    BY <2>2, <2>5
  <2>7. t = n % b
    BY <2>6, Quotient
  <2>3. t = (i + 1) % b
    BY <2>5, <2>7
  <2>4. i < b => i + 1 < b
    <3>1. CASE q = 0
      BY <1>1, <1>3, <3>1
    <3>2. CASE q # 0
      <4>1. b * 1 <= b * q
        BY <3>2, Product
      <4> QED
        BY <1>1, <4>1
    <3> QED
      BY <3>1, <3>2
  <2> QED
    BY <1>1, <1>3, <2>1, <2>3, <2>4
<1> QED
  BY <1>2, <1>3

LEMMA ChunkWorks ==
  ASSUME Working(job), HashcashChunk
  PROVE  Working(job')
<1>1. PICK at, nonce, i, start, e, cc, rc :
        /\ job = HashcashJob(at, nonce, i, start, e, cc, rc)
        /\ start \in 0..(TickMod - 1) /\ e \in Nat /\ i \in 0..FullChunks
  BY JobParts DEF Working
<1>2. /\ job.at = at /\ job.nonce = nonce /\ job.elapsed = e /\ job.i = i
      /\ job.start = start /\ job.cc = cc
  BY <1>1 DEF HashcashJob
<1> DEFINE new == br_hash_update(Sha256, cc, Repeated(ChunkRepeats))
<1>3. PICK ticks \in 0..MaxTicks :
        /\ at = "chunks" /\ i < FullChunks
        /\ job' = [job EXCEPT !.i = i + 1, !.elapsed = e + ticks, !.cc = new,
             !.at = IF i % CheckEvery = CheckEvery - 1
                       /\ TimedOut(start, (start + e + ticks) % TickMod)
                     THEN "done" ELSE at]
  BY <1>2 DEF HashcashChunk
<1> HIDE DEF new
<1>4. PICK end : end = IF i % CheckEvery = CheckEvery - 1
                          /\ TimedOut(start, (start + e + ticks) % TickMod)
                        THEN "done" ELSE "chunks"
  OBVIOUS
<1>5. job' = HashcashJob(end, nonce, i + 1, start, e + ticks, new, rc)
  BY <1>1, <1>3, <1>4 DEF HashcashJob
<1>6. /\ e + ticks \in Nat /\ i + 1 \in 0..FullChunks /\ i \in Nat /\ ticks \in Nat
      /\ end \in {"nonce", "chunks", "compare", "done"}
  BY <1>1, <1>3, <1>4, Bounds, ClockAssumption
<1>7. /\ IsHashcash(job')
      /\ job'.at = end /\ job'.nonce = nonce /\ job'.i = i + 1
      /\ job'.elapsed = e + ticks /\ job'.cc = new
  BY <1>1, <1>5, <1>6, JobFields
<1>8. Digested(job')
  <2>1. PICK a \in Nat : a = ChunkRepeats * i
    BY <1>6, Bounds
  <2>2. ChunkRepeats * (i + 1) = a + ChunkRepeats
    BY <1>6, <2>1, Bounds
  <2>3. Work(cc, nonce, 2 + a)
    BY <1>2, <1>3, <2>1 DEF Working, Digested
  <2>4. Work(new, nonce, (2 + a) + ChunkRepeats)
    BY <2>3, Bounds, WorkGoesOn DEF new
  <2>5. (2 + a) + ChunkRepeats = 2 + (ChunkRepeats * (i + 1))
    BY <2>2, Bounds
  <2>6. end # "compare"
    BY <1>4
  <2> QED
    BY <1>7, <2>4, <2>5, <2>6 DEF Digested
<1>9. InTime(job')
  <2>1. PICK r \in 0..(CheckEvery - 1) : r = FullChunks % CheckEvery
    BY Bounds
  <2>7. PICK b \in Nat \ {0} : b = CheckEvery
    BY Bounds
  <2>8. PICK n \in Nat : n = i
    BY <1>6
  <2>9. /\ n % b \in 0..(b - 1)
        /\ n % b = b - 1 => (n + 1) % b = 0 /\ ~(n + 1 < b)
        /\ n % b # b - 1 => (n + 1) % b = (n % b) + 1 /\ (n < b => n + 1 < b)
    BY NextRemainder
  <2>2. PICK k \in Nat : k = IF i < CheckEvery THEN r + 1 + i ELSE i % CheckEvery
    BY <2>1, <2>7, <2>8, <2>9
  <2>3. Within(e, k)
    BY <1>2, <1>3, <2>1, <2>2 DEF Working, InTime, Unseen
  <2>4. Within(e + ticks, k + 1)
    BY <1>1, <2>3, OneMore
  <2>5. CASE i % CheckEvery = CheckEvery - 1
    <3>1. k + 1 <= CheckEvery + r + 1
      BY <1>6, <2>1, <2>2, <2>5, Bounds
    <3>2. Within(e + ticks, CheckEvery + r + 1)
      BY <1>6, <2>1, <2>4, <3>1, LongerStill, Bounds
    <3>3. CASE end = "done"
      BY <1>7, <2>1, <3>2, <3>3 DEF InTime, Unseen
    <3>4. CASE end # "done"
      <4>1. e + ticks < TickMod
        <5>6. CheckEvery + r + 1 \in Nat
          BY <2>1, <2>7
        <5>4. PICK x \in Nat : x = CheckEvery + r + 1
          BY <5>6
        <5>5. MaxTicks \in Nat /\ Timeout \in Nat
          BY ClockAssumption
        <5>1. PICK late \in Int : late = Timeout + (MaxTicks * (CheckEvery + r + 1))
          BY <5>4, <5>5
        <5>2. late <= TickMod
          BY <2>1, <5>1, ClockAssumption DEF ChunksUnseen
        <5>3. e + ticks < late
          BY <3>2, <5>1 DEF Within
        <5> QED
          BY <1>6, <5>2, <5>3, ClockAssumption
      <4>2. ~TimedOut(start, (start + e + ticks) % TickMod)
        BY <1>4, <2>5, <3>4
      <4>3. PICK late \in Nat : late = e + ticks
        BY <1>6
      <4>4. start + e + ticks = start + late
        BY <1>1, <1>6, <4>3, ClockAssumption
      <4>9. ~TimedOut(start, (start + late) % TickMod)
        BY <4>2, <4>4
      <4>10. TimedOut(start, (start + late) % TickMod) <=> late >= Timeout
        BY <1>1, <4>1, <4>3, ClockRight
      <4>5. late < Timeout
        BY <4>9, <4>10, ClockAssumption
      <4>6. (i + 1) % CheckEvery = 0 /\ ~(i + 1 < CheckEvery)
        BY <2>5, <2>7, <2>8, <2>9
      <4>7. Unseen(job') = 0
        BY <1>4, <1>7, <3>4, <4>6 DEF Unseen
      <4>8. Within(late, 0)
        BY <4>5, ClockAssumption DEF Within
      <4> QED
        BY <1>7, <4>3, <4>7, <4>8 DEF InTime
    <3> QED
      BY <3>3, <3>4
  <2>6. CASE i % CheckEvery # CheckEvery - 1
    <3>1. (i + 1) % CheckEvery = (i % CheckEvery) + 1 /\ (i < CheckEvery => i + 1 < CheckEvery)
      BY <2>6, <2>7, <2>8, <2>9
    <3>2. end = "chunks"
      BY <1>4, <2>6
    <3>3. Unseen(job') = k + 1
      BY <1>6, <1>7, <2>1, <2>2, <3>1, <3>2, Bounds DEF Unseen
    <3> QED
      BY <1>7, <2>4, <3>3 DEF InTime
  <2> QED
    BY <2>5, <2>6
<1> QED
  BY <1>7, <1>8, <1>9 DEF Working


LEMMA TailWorks ==
  ASSUME Working(job), HashcashTail
  PROVE  Working(job')
<1>1. PICK at, nonce, i, start, e, cc, rc :
        /\ job = HashcashJob(at, nonce, i, start, e, cc, rc)
        /\ start \in 0..(TickMod - 1) /\ e \in Nat /\ i \in 0..FullChunks
  BY JobParts DEF Working
<1>2. /\ job.at = at /\ job.nonce = nonce /\ job.elapsed = e /\ job.i = i
      /\ job.cc = cc
  BY <1>1 DEF HashcashJob
<1> DEFINE new == br_hash_update(Sha256, cc, Repeated(ChunkRepeats - 2))
<1>3. PICK ticks \in 0..MaxTicks :
        /\ at = "chunks" /\ i = FullChunks
        /\ job' = [job EXCEPT !.at = "compare", !.elapsed = e + ticks, !.cc = new]
  BY <1>2 DEF HashcashTail
<1> HIDE DEF new
<1>8. e + ticks \in Nat
  BY <1>1, <1>3, ClockAssumption
<1>4. job' = HashcashJob("compare", nonce, i, start, e + ticks, new, rc)
  BY <1>1, <1>3 DEF HashcashJob
<1>5. /\ IsHashcash(job')
      /\ job'.at = "compare" /\ job'.nonce = nonce /\ job'.i = i
      /\ job'.elapsed = e + ticks /\ job'.cc = new
  BY <1>1, <1>4, <1>8, JobFields
<1>6. Digested(job')
  <2>1. PICK a \in Nat : a = ChunkRepeats * FullChunks
    BY Bounds
  <2>2. ChunkRepeats * (FullChunks + 1) = a + ChunkRepeats
    BY <2>1, Bounds
  <2>3. Work(cc, nonce, 2 + a)
    BY <1>2, <1>3, <2>1 DEF Working, Digested
  <2>4. PICK k \in Nat : k = ChunkRepeats - 2
    BY Bounds
  <2>5. PICK m \in Nat : m = 2 + a
    OBVIOUS
  <2>6. Work(new, nonce, m + k)
    BY <2>3, <2>4, <2>5, WorkGoesOn DEF new
  <2>7. m + k = ChunkRepeats * (FullChunks + 1)
    BY <2>2, <2>4, <2>5, Bounds
  <2> QED
    BY <1>5, <2>6, <2>7 DEF Digested
<1>7. InTime(job')
  <2>1. PICK r \in Nat : r = FullChunks % CheckEvery
    BY Bounds
  <2>2. Unseen(job) = r /\ Unseen(job') = r + 1
    <3>1. ~(FullChunks < CheckEvery)
      BY Bounds
    <3> QED
      BY <1>2, <1>3, <1>5, <2>1, <3>1 DEF Unseen
  <2>3. Within(e, r)
    BY <1>2, <2>2 DEF Working, InTime
  <2>4. Within(e + ticks, r + 1)
    BY <1>1, <1>3, <2>3, OneMore
  <2> QED
    BY <1>5, <2>2, <2>4 DEF InTime
<1> QED
  BY <1>5, <1>6, <1>7 DEF Working

LEMMA CompareWorks ==
  ASSUME Working(job), HashcashCompare
  PROVE  Working(job')
<1>1. PICK at, nonce, i, start, e, cc, rc :
        /\ job = HashcashJob(at, nonce, i, start, e, cc, rc)
        /\ start \in 0..(TickMod - 1) /\ e \in Nat /\ i \in 0..FullChunks
  BY JobParts DEF Working
<1>2. /\ job.at = at /\ job.nonce = nonce /\ job.elapsed = e
  BY <1>1 DEF HashcashJob
<1>3. /\ at = "compare"
      /\ \/ job' = [job EXCEPT !.at = "done", !.rc = 1]
         \/ job' = [job EXCEPT !.at = "nonce", !.nonce = nonce + 1]
         \/ job' = [job EXCEPT !.at = "done"]
  BY <1>2 DEF HashcashCompare
<1>4. \/ job' = HashcashJob("done", nonce, i, start, e, cc, 1)
      \/ job' = HashcashJob("nonce", nonce + 1, i, start, e, cc, rc)
      \/ job' = HashcashJob("done", nonce, i, start, e, cc, rc)
  BY <1>1, <1>3 DEF HashcashJob
<1>5. PICK end, next, result :
        /\ job' = HashcashJob(end, next, i, start, e, cc, result)
        /\ end \in {"done", "nonce"}
  BY <1>4
<1>6. IsHashcash(job') /\ job'.at = end /\ job'.elapsed = e
  BY <1>1, <1>5, JobFields
<1>7. Digested(job')
  BY <1>5, <1>6 DEF Digested
<1>8. InTime(job')
  <2>1. PICK r \in Nat : r = (FullChunks % CheckEvery) + 1
    BY Bounds
  <2>2. Within(e, r)
    BY <1>2, <1>3, <2>1 DEF Working, InTime, Unseen
  <2>3. CASE end = "nonce"
    BY <1>6, <2>1, <2>2, <2>3 DEF InTime, Unseen
  <2>4. CASE end = "done"
    <3>4. PICK c \in Nat, f \in Nat : c = CheckEvery /\ f = FullChunks % CheckEvery
      BY Bounds
    <3>1. PICK k \in Nat : k = c + f + 1
      OBVIOUS
    <3>2. r <= k
      BY <2>1, <3>1, <3>4
    <3>3. Within(e, k)
      BY <1>1, <2>2, <3>2, LongerStill
    <3> QED
      BY <1>6, <2>4, <3>1, <3>3, <3>4 DEF InTime, Unseen
  <2> QED
    BY <1>5, <2>3, <2>4
<1> QED
  BY <1>6, <1>7, <1>8 DEF Working

-----------------------------------------------------------------------------
(* A job stays what it is, but for the making of a key, that ends in its use. *)
HasKind(j) == "kind" \in DOMAIN j

KindStays(kinds) == HasKind(job') /\ job'.kind = job.kind /\ job.kind \in kinds

HashKinds == {"transcript", "mac", "pbkdf2", "hashcash", "hkdf", "prf"}
ArithKinds == {"arith", "moddiv", "modpow", "window"}
RsaKinds == {"keygen", "rsa", "privexp"}
CurveKinds == {"pad", "ec", "ecdsa", "asn1"}

LEMMA HashKind ==
  ASSUME HasKind(job), HashNext
  PROVE  KindStays(HashKinds)
<1> USE DEF HasKind, KindStays, HashKinds
<1>1. CASE TranscriptUpdate
  BY <1>1 DEF TranscriptUpdate
<1>2. CASE MacUpdate
  BY <1>2 DEF MacUpdate
<1>3. CASE Pbkdf2Block
  BY <1>3 DEF Pbkdf2Block
<1>4. CASE Pbkdf2Iterate
  BY <1>4 DEF Pbkdf2Iterate
<1>5. CASE Pbkdf2Copy
  BY <1>5 DEF Pbkdf2Copy
<1>6. CASE HashcashNonce
  BY <1>6 DEF HashcashNonce
<1>7. CASE HashcashChunk
  BY <1>7 DEF HashcashChunk
<1>8. CASE HashcashTail
  BY <1>8 DEF HashcashTail
<1>9. CASE HashcashCompare
  BY <1>9 DEF HashcashCompare
<1>10. CASE HkdfInject
  BY <1>10 DEF HkdfInject
<1>11. CASE HkdfFlip
  BY <1>11 DEF HkdfFlip
<1>12. CASE HkdfProduce
  BY <1>12 DEF HkdfProduce
<1>13. CASE Prf
  BY <1>13 DEF Prf
<1> QED
  BY <1>1, <1>2, <1>3, <1>4, <1>5, <1>6, <1>7, <1>8, <1>9, <1>10, <1>11, <1>12, <1>13
  DEF HashNext

LEMMA AeadKind ==
  ASSUME HasKind(job), AeadNext
  PROVE  KindStays({"aead"})
<1> USE DEF HasKind, KindStays
<1>1. CASE AeadAad
  BY <1>1 DEF AeadAad
<1>2. CASE AeadFlip
  BY <1>2 DEF AeadFlip
<1>3. CASE AeadRun
  BY <1>3 DEF AeadRun
<1> QED
  BY <1>1, <1>2, <1>3 DEF AeadNext

LEMMA ArithKind ==
  ASSUME HasKind(job), ArithNext
  PROVE  KindStays(ArithKinds)
<1> USE DEF HasKind, KindStays, ArithKinds
<1>1. CASE ArithStep
  <2>1. ASSUME NEW x, NEW v, NEW k, Becomes(x, v, k)
        PROVE  HasKind(job') /\ job'.kind = job.kind
    BY <2>1 DEF Becomes
  <2> QED
    BY <1>1, <2>1 DEF ArithStep
<1>2. CASE ModDivTurn
  BY <1>2 DEF ModDivTurn
<1>3. CASE ModDivEnd
  BY <1>3 DEF ModDivEnd
<1>4. CASE ModPowTurn
  BY <1>4 DEF ModPowTurn
<1>5. CASE WindowTable
  BY <1>5 DEF WindowTable
<1>6. CASE WindowTurn
  BY <1>6 DEF WindowTurn
<1>7. CASE WindowEnd
  BY <1>7 DEF WindowEnd
<1> QED
  BY <1>1, <1>2, <1>3, <1>4, <1>5, <1>6, <1>7 DEF ArithNext

LEMMA RsaKind ==
  ASSUME HasKind(job), RsaNext
  PROVE  HasKind(job') /\ {job.kind, job'.kind} \subseteq RsaKinds
<1> USE DEF HasKind, RsaKinds
<1>1. CASE MkPrime
  BY <1>1 DEF MkPrime
<1>2. CASE MillerRabin
  BY <1>2 DEF MillerRabin
<1>3. CASE InvertPubexp
  BY <1>3 DEF InvertPubexp
<1>4. CASE KeygenEnd
  BY <1>4 DEF KeygenEnd, Uses
<1>5. CASE RsaBegin
  BY <1>5 DEF RsaBegin
<1>6. CASE RsaFirst
  BY <1>6 DEF RsaFirst
<1>7. CASE RsaSecond
  BY <1>7 DEF RsaSecond
<1>8. CASE PrivexpTurn
  BY <1>8 DEF PrivexpTurn
<1>9. CASE PrivexpEnd
  BY <1>9 DEF PrivexpEnd
<1> QED
  BY <1>1, <1>2, <1>3, <1>4, <1>5, <1>6, <1>7, <1>8, <1>9 DEF RsaNext

LEMMA CurveKind ==
  ASSUME HasKind(job), PadNext \/ EcNext \/ EcdsaNext
  PROVE  KindStays(CurveKinds)
<1> USE DEF HasKind, KindStays, CurveKinds
<1>1. CASE PadEdit
  BY <1>1 DEF PadEdit
<1>2. CASE LadderStep
  BY <1>2 DEF LadderStep
<1>3. CASE EcEnd
  BY <1>3 DEF EcEnd
<1>4. CASE EcKeygen
  BY <1>4 DEF EcKeygen
<1>5. CASE ComputePub
  BY <1>5 DEF ComputePub
<1>6. CASE SignBegin
  BY <1>6 DEF SignBegin
<1>7. CASE SignEnd
  BY <1>7 DEF SignEnd
<1>8. CASE VerifyBegin
  BY <1>8 DEF VerifyBegin
<1>9. CASE VerifyEnd
  BY <1>9 DEF VerifyEnd
<1>10. CASE Asn1Edit
  BY <1>10 DEF Asn1Edit
<1> QED
  BY <1>1, <1>2, <1>3, <1>4, <1>5, <1>6, <1>7, <1>8, <1>9, <1>10
  DEF PadNext, EcNext, EcdsaNext

LEMMA OthersKind ==
  ASSUME HasKind(job), AeadNext \/ ArithNext \/ RsaNext \/ PadNext \/ EcNext \/ EcdsaNext
  PROVE  HasKind(job') /\ job.kind \notin HashKinds /\ job'.kind \notin HashKinds
BY AeadKind, ArithKind, RsaKind, CurveKind
DEF KindStays, HashKinds, ArithKinds, RsaKinds, CurveKinds

LEMMA OthersBegin ==
  ASSUME AeadInit \/ ArithInit \/ ModDivInit \/ PowInit \/ RsaInit \/ PadInit \/ EcInit \/ EcdsaInit
  PROVE  HasKind(job) /\ job.kind \notin HashKinds
<1> USE DEF HasKind, HashKinds
<1>1. CASE AeadInit
  <2>1. ASSUME NEW mode, NEW encrypt, NEW nonce, NEW at, NEW n, NEW ctx, NEW told,
               job = Aead(mode, encrypt, nonce, at, n, ctx)
                 \/ job = [Aead(mode, encrypt, nonce, at, n, ctx) EXCEPT !.told = told]
        PROVE  HasKind(job) /\ job.kind \notin HashKinds
    BY <2>1 DEF Aead
  <2>2. PICK encrypt \in BOOLEAN :
          \/ job = Aead("gcm", encrypt, 0, "aad", 0, br_gcm_reset)
          \/ \E aad \in TextLens, data \in TextLens :
               job = [Aead("ccm", encrypt, 0, "aad", 0, br_ccm_reset(aad, data))
                        EXCEPT !.told = <<aad, data>>]
          \/ \E mode, nonce, at, n, ctx : job = Aead(mode, encrypt, nonce, at, n, ctx)
    BY <1>1 DEF AeadInit
  <2> QED
    BY <2>1, <2>2
<1>2. CASE ArithInit
  BY <1>2 DEF ArithInit, Arith
<1>3. CASE ModDivInit
  BY <1>3 DEF ModDivInit
<1>4. CASE PowInit
  BY <1>4 DEF PowInit
<1>5. CASE RsaInit
  BY <1>5 DEF RsaInit, KeygenInit, Keygen, ForeignInit, Uses, PrivexpInit
<1>6. CASE PadInit
  <2>1. ASSUME NEW scheme, NEW with, NEW x, job = PadJob(scheme, with, x)
        PROVE  HasKind(job) /\ job.kind \notin HashKinds
    BY <2>1 DEF PadJob
  <2> QED
    BY <1>6, <2>1 DEF PadInit, SigPadInit, OaepInit, KxInit
<1>7. CASE EcInit
  BY <1>7 DEF EcInit, Multiply, MultiplyAdd, EcJob
<1>8. CASE EcdsaInit
  BY <1>8 DEF EcdsaInit, Asn1Init, Asn1Job, EcdsaJob
<1> QED
  BY <1>1, <1>2, <1>3, <1>4, <1>5, <1>6, <1>7, <1>8

WorkInv == HasKind(job) /\ (job.kind = "hashcash" => Working(job))

LEMMA WorkInit == Init => WorkInv
<1> SUFFICES ASSUME Init
             PROVE  WorkInv
  OBVIOUS
<1>1. CASE ~HashInit
  BY <1>1, OthersBegin DEF Init, WorkInv, HashKinds
<1>2. CASE \E start \in Starts : job = Hashcash(start)
  BY <1>2, HashcashBegins DEF WorkInv, HasKind, Hashcash
<1>3. CASE HashInit /\ ~\E start \in Starts : job = Hashcash(start)
  BY <1>3 DEF HashInit, WorkInv, HasKind, Transcript, Mac, Pbkdf2, HkdfJob, PrfJob
<1> QED
  BY <1>1, <1>2, <1>3

LEMMA WorkNext == WorkInv /\ [Next]_job => WorkInv'
<1> SUFFICES ASSUME WorkInv, [Next]_job
             PROVE  WorkInv'
  OBVIOUS
<1>1. CASE HashNext
  <2>1. HasKind(job') /\ job'.kind = job.kind
    BY <1>1, HashKind DEF WorkInv, KindStays
  <2>2. ASSUME job'.kind = "hashcash"
        PROVE  Working(job')
    <3>1. Working(job)
      BY <2>1, <2>2 DEF WorkInv
    <3>2. HashcashNonce \/ HashcashChunk \/ HashcashTail \/ HashcashCompare
      BY <1>1, <2>1, <2>2
      DEF HashNext, TranscriptUpdate, MacUpdate, Pbkdf2Block, Pbkdf2Iterate, Pbkdf2Copy,
          HkdfInject, HkdfFlip, HkdfProduce, Prf
    <3> QED
      BY <3>1, <3>2, NonceWorks, ChunkWorks, TailWorks, CompareWorks
  <2> QED
    BY <2>1, <2>2 DEF WorkInv
<1>2. CASE ~HashNext /\ job' # job
  BY <1>2, OthersKind DEF Next, WorkInv, HashKinds
<1>3. CASE job' = job
  BY <1>3 DEF WorkInv
<1> QED
  BY <1>1, <1>2, <1>3

\* The proof of work, whatever the repetitions, the chunks, the time allowed and
\* where the clock begins and wraps: what is compared with the threshold is the
\* digest of the nonce and of the token as often as it is repeated, and the
\* search is over soon after its time (wm_hashcash_solve, wm_https.c).
THEOREM WorkAlwaysProved == Spec => []ProofOfWork
<1>1. WorkInv => ProofOfWork
  <2> SUFFICES ASSUME WorkInv, job.kind = "hashcash"
               PROVE  /\ job.at = "compare" =>
                          br_hash_out(Sha256, job.cc) =
                            Digest(Sha256, Prefix(job.nonce)
                                             \o Repeated(ChunkRepeats * (FullChunks + 1)))
                      /\ job.elapsed < Timeout + MaxTicks * ChunksUnseen
    BY DEF ProofOfWork
  <2>1. Working(job)
    BY DEF WorkInv
  <2>2. ASSUME job.at = "compare"
        PROVE  br_hash_out(Sha256, job.cc) =
                 Digest(Sha256, Prefix(job.nonce) \o Repeated(ChunkRepeats * (FullChunks + 1)))
    <3>1. Work(job.cc, job.nonce, ChunkRepeats * (FullChunks + 1))
      BY <2>1, <2>2 DEF Working, Digested
    <3> QED
      BY <3>1, WorkEnds
  <2>3. job.elapsed < Timeout + MaxTicks * ChunksUnseen
    <3>1. PICK r \in Nat : r = FullChunks % CheckEvery /\ r < CheckEvery
      BY Bounds
    <3>2. PICK b \in Nat : b = CheckEvery
      BY Bounds
    <3>3. PICK e \in Nat : e = job.elapsed /\ Within(e, Unseen(job))
      BY <2>1 DEF Working, IsHashcash, InTime
    <3>4. Unseen(job) \in Nat /\ Unseen(job) <= b + r + 1
      <4>1. job.i \in Nat
        BY <2>1, Bounds DEF Working, IsHashcash
      <4>2. PICK i \in Nat : i = job.i
        BY <4>1
      <4>3. b \in Nat \ {0}
        BY <3>2, Bounds
      <4>4. PICK t \in Nat : t = i % b /\ t < b
        BY <4>3, Parts
      <4>5. i % b = job.i % CheckEvery
        BY <3>2, <4>2
      <4> QED
        BY <3>1, <3>2, <4>2, <4>4, <4>5 DEF Unseen
    <3>5. PICK k \in Nat, n \in Nat : k = Unseen(job) /\ n = b + r + 1
      BY <3>4
    <3>6. Within(e, n)
      BY <3>3, <3>4, <3>5, LongerStill
    <3>7. Within(job.elapsed, ChunksUnseen)
      BY <3>1, <3>2, <3>3, <3>5, <3>6 DEF ChunksUnseen
    <3> QED
      BY <3>7 DEF Within
  <2> QED
    BY <2>2, <2>3
<1> QED
  BY <1>1, WorkInit, WorkNext, PTL DEF Spec

-----------------------------------------------------------------------------
(* HMAC.                                                                     *)
ForMac(h) == Sound(h) /\ HashLen <= h.block

LEMMA DigestText ==
  ASSUME NEW h, NEW val, Sound(h)
  PROVE  IsText(DigestBytes(h, val), HashLen)
<1> DEFINE d == DigestBytes(h, val)
<1>1. d = [i \in 1..HashLen |-> <<"digest", h.id, val, i>>] /\ HashLen \in Nat
  BY SoundFacts DEF DigestBytes
<1> HIDE DEF d
<1>2. d = [i \in 1..HashLen |-> d[i]]
  BY <1>1
<1>3. IsString(d) /\ Len(d) = HashLen
  BY <1>1, <1>2, StringOf
<1> QED
  BY <1>1, <1>3 DEF IsText, d

\* The bytes of t are those of s, each with the pad.
Padding(t, s, pad, n) == IsText(t, n) /\ \A i \in 1..n : t[i] = <<"xor", pad, s[i]>>

LEMMA XoredText ==
  ASSUME NEW s, NEW n, NEW pad, IsText(s, n)
  PROVE  Padding(Xored(s, pad), s, pad, n)
<1> DEFINE t == Xored(s, pad)
<1>1. n \in Nat /\ Len(s) = n
  BY DEF IsText
<1>2. t = [i \in 1..n |-> <<"xor", pad, s[i]>>]
  BY <1>1 DEF Xored
<1> HIDE DEF t
<1>3. t = [i \in 1..n |-> t[i]]
  BY <1>2
<1>4. IsString(t) /\ Len(t) = n
  BY <1>1, <1>3, StringOf
<1>5. \A i \in 1..n : t[i] = <<"xor", pad, s[i]>>
  BY <1>2
<1> QED
  BY <1>1, <1>4, <1>5 DEF IsText, Padding, t

LEMMA ZerosText ==
  ASSUME NEW n, n \in Nat
  PROVE  IsText(Zeros(n), n) /\ \A i \in 1..n : Zeros(n)[i] = Zero
<1> DEFINE t == Zeros(n)
<1>1. t = [i \in 1..n |-> Zero]
  BY DEF Zeros
<1> HIDE DEF t
<1>2. t = [i \in 1..n |-> t[i]]
  BY <1>1
<1>3. IsString(t) /\ Len(t) = n
  BY <1>2, StringOf
<1>4. \A i \in 1..n : t[i] = Zero
  BY <1>1
<1> QED
  BY <1>3, <1>4 DEF IsText, t

\* A key filled up with zeros to the length of a block, before or after the pad.
ToBlock(h, key) == key \o Zeros(h.block - Len(key))

LEMMA ToBlockText ==
  ASSUME NEW h, NEW key, Sound(h), IsString(key), Len(key) <= h.block
  PROVE  IsText(ToBlock(h, key), h.block)
<1>1. PICK b \in Nat : b = h.block
  BY SoundFacts
<1>2. PICK m \in Nat : m = Len(key)
  BY StringFacts
<1>3. PICK n \in Nat : n = b - m
  BY <1>1, <1>2
<1>4. IsText(key, m) /\ IsText(Zeros(n), n)
  BY <1>2, <1>3, ZerosText DEF IsText
<1>5. Joint(key \o Zeros(n), key, m, Zeros(n), n)
  BY <1>4, JointText
<1>6. m + n = b
  BY <1>3
<1>7. IsText(key \o Zeros(n), b)
  BY <1>5, <1>6 DEF Joint
<1> QED
  BY <1>1, <1>2, <1>3, <1>7 DEF ToBlock

LEMMA ToBlockPad ==
  ASSUME NEW h, NEW key, NEW pad, Sound(h), IsString(key), Len(key) <= h.block
  PROVE  Xored(key, pad) \o [i \in 1..(h.block - Len(key)) |-> <<"xor", pad, Zero>>]
           = Xored(ToBlock(h, key), pad)
<1>1. PICK b \in Nat : b = h.block
  BY SoundFacts
<1>2. PICK m \in Nat : m = Len(key)
  BY StringFacts
<1>3. PICK n \in Nat : n = b - m
  BY <1>1, <1>2
<1> DEFINE s == Xored(key, pad)
           t == [i \in 1..n |-> <<"xor", pad, Zero>>]
           f == ToBlock(h, key)
           u == s \o t
           w == Xored(f, pad)
<1>4. /\ IsText(key, m) /\ IsText(Zeros(n), n) /\ IsText(f, b)
      /\ \A i \in 1..n : Zeros(n)[i] = Zero
  BY <1>1, <1>2, ZerosText, ToBlockText DEF IsText
<1>5. Padding(s, key, pad, m) /\ Padding(w, f, pad, b)
  BY <1>4, XoredText
<1>6. IsText(t, n) /\ \A i \in 1..n : t[i] = <<"xor", pad, Zero>>
  <2>1. t = [i \in 1..n |-> t[i]]
    OBVIOUS
  <2>2. \A i \in 1..n : t[i] = <<"xor", pad, Zero>>
    OBVIOUS
  <2> HIDE DEF t
  <2>3. IsString(t) /\ Len(t) = n
    BY <2>1, StringOf
  <2> QED
    BY <2>2, <2>3 DEF IsText
<1>7. f = key \o Zeros(n)
  BY <1>1, <1>2, <1>3 DEF ToBlock
<1> HIDE DEF s, t, f, u, w
<1>8. Joint(f, key, m, Zeros(n), n)
  BY <1>4, <1>7, JointText
<1>9. Joint(u, s, m, t, n)
  BY <1>5, <1>6, JointText DEF Padding, u
<1>10. m + n = b
  BY <1>3
<1>11. IsText(u, b) /\ IsText(w, b)
  BY <1>5, <1>9, <1>10 DEF Joint, Padding
<1>12. ASSUME NEW i \in 1..b
       PROVE  u[i] = w[i]
  <2>1. w[i] = <<"xor", pad, f[i]>>
    BY <1>5 DEF Padding
  <2>2. CASE i <= m
    <3>1. i \in 1..m
      BY <2>2
    <3>2. u[i] = s[i] /\ f[i] = key[i]
      BY <1>8, <1>9, <3>1 DEF Joint
    <3>3. s[i] = <<"xor", pad, key[i]>>
      BY <1>5, <3>1 DEF Padding
    <3> QED
      BY <2>1, <3>2, <3>3
  <2>3. CASE ~(i <= m)
    <3>1. PICK j \in 1..n : i = m + j
      <4>1. i - m \in 1..n /\ i = m + (i - m)
        BY <1>10, <2>3
      <4> QED
        BY <4>1
    <3>2. u[i] = t[j] /\ f[i] = Zeros(n)[j]
      BY <1>8, <1>9, <3>1 DEF Joint
    <3> QED
      BY <1>4, <1>6, <2>1, <3>2
  <2> QED
    BY <2>2, <2>3
<1>13. u = w
  BY <1>11, <1>12, SameText
<1> QED
  BY <1>1, <1>2, <1>3, <1>13 DEF u, w, s, t, f

LEMMA StateSet ==
  ASSUME NEW cc, NEW buf, NEW val, NEW n, NEW old, NEW k,
         cc = [val |-> old, count |-> k, buf |-> buf]
  PROVE  br_hash_set_state(cc, val, n) = [val |-> val, count |-> n, buf |-> buf]
<1>1. br_hash_set_state(cc, val, n) = [cc EXCEPT !.val = val, !.count = n]
  BY DEF br_hash_set_state
<1> QED
  BY <1>1

\* Blocks alone, with nothing in the buffer.
LEMMA StateStands ==
  ASSUME NEW h, NEW msg, NEW n, Sound(h), IsText(msg, n), n % h.block = 0
  PROVE  Stands(h, br_hash_set_state(br_hash_init(h), Blocks(h, msg), n), msg)
<1> DEFINE cc == br_hash_set_state(br_hash_init(h), Blocks(h, msg), n)
           v == Blocks(h, msg)
           buf == [i \in 0..(h.block - 1) |-> <<"junk">>]
<1>10. br_hash_init(h) = [val |-> <<>>, count |-> 0, buf |-> buf]
  BY DEF br_hash_init
<1> HIDE DEF v, buf
<1>1. cc = [val |-> v, count |-> n, buf |-> buf]
  BY <1>10, StateSet DEF v
<1>2. h.block \in Nat \ {0}
  BY SoundFacts
<1>3. IsString(msg) /\ n \in Nat /\ n = Len(msg)
  BY DEF IsText
<1>4. IsString(v)
  BY <1>3, BlocksFacts DEF v
<1>5. buf = [i \in 0..(h.block - 1) |-> buf[i]]
  BY DEF buf
<1> HIDE DEF cc
<1>6. IsContext(h, cc)
  BY <1>1, <1>3, <1>4, <1>5 DEF IsContext
<1>7. cc.count = Len(msg) /\ cc.val = Blocks(h, msg)
  BY <1>1, <1>3 DEF v
<1>8. ASSUME NEW i \in 0..(h.block - 1)
      PROVE  ~(i < Len(msg) % h.block)
  BY <1>2, <1>3
<1>9. Stands(h, cc, msg)
  BY <1>3, <1>6, <1>7, <1>8 DEF Stands
<1> QED
  BY <1>9 DEF cc, v

\* A context that was given a message from the beginning.
LEMMA FreshStands ==
  ASSUME NEW h, NEW msg, Sound(h), IsString(msg)
  PROVE  Stands(h, br_hash_update(h, br_hash_init(h), msg), msg)
<1>1. Stands(h, br_hash_init(h), <<>>)
  BY EmptyStands
<1>2. Stands(h, br_hash_update(h, br_hash_init(h), msg), <<>> \o msg)
  BY <1>1, UpdateStands
<1> QED
  BY <1>2, Empty

LEMMA OnceIs ==
  ASSUME NEW h, NEW msg, Sound(h), IsString(msg)
  PROVE  br_hash_out(h, br_hash_update(h, br_hash_init(h), msg)) = Digest(h, msg)
<1>1. Stands(h, br_hash_update(h, br_hash_init(h), msg), msg)
  BY FreshStands
<1> QED
  BY <1>1, OutStands

LEMMA KeyBlock ==
  ASSUME NEW h, NEW key, NEW pad, Sound(h), IsString(key), Len(key) <= h.block
  PROVE  process_key(h, key, pad) = Blocks(h, Xored(ToBlock(h, key), pad))
<1> DEFINE x == Xored(ToBlock(h, key), pad)
           cc == br_hash_update(h, br_hash_init(h), x)
<1>1. process_key(h, key, pad) = cc.val
  BY ToBlockPad DEF process_key
<1>2. IsString(x)
  BY ToBlockText, XoredText DEF Padding, IsText
<1> HIDE DEF x
<1>3. Stands(h, cc, x)
  BY <1>2, FreshStands
<1> HIDE DEF cc
<1>4. cc.val = Blocks(h, x)
  BY <1>3 DEF Stands
<1> QED
  BY <1>1, <1>4 DEF x

\* The key as HMAC uses it: a long one is hashed before.
Short(h, key) == IF Len(key) > h.block THEN Digest(h, key) ELSE key
Full(h, key) == ToBlock(h, Short(h, key))

LEMMA ShortKey ==
  ASSUME NEW h, NEW key, ForMac(h), IsString(key)
  PROVE  /\ IsString(Short(h, key)) /\ Len(Short(h, key)) <= h.block
         /\ IsText(Full(h, key), h.block)
<1>1. Len(key) \in Nat /\ h.block \in Nat /\ HashLen \in Nat
  BY StringFacts, SoundFacts DEF ForMac
<1>2. IsText(Digest(h, key), HashLen)
  BY DigestText DEF Digest, ForMac
<1>3. IsString(Short(h, key)) /\ Len(Short(h, key)) <= h.block
  BY <1>1, <1>2 DEF Short, IsText, ForMac
<1>4. IsText(ToBlock(h, Short(h, key)), h.block)
  BY <1>3, ToBlockText DEF ForMac
<1> QED
  BY <1>3, <1>4 DEF Full

Inner(h, key) == Xored(Full(h, key), "36")
Wrapped(h, key) == Xored(Full(h, key), "5C")

LEMMA PadsText ==
  ASSUME NEW h, NEW key, ForMac(h), IsString(key)
  PROVE  IsText(Inner(h, key), h.block) /\ IsText(Wrapped(h, key), h.block)
BY ShortKey, XoredText DEF Inner, Wrapped, Padding

LEMMA HmacIs ==
  ASSUME NEW h, NEW key, NEW msg
  PROVE  Hmac(h, key, msg) =
           Digest(h, Wrapped(h, key) \o Digest(h, Inner(h, key) \o msg))
BY DEF Hmac, Wrapped, Inner, Full, ToBlock, Short

LEMMA KeyInit ==
  ASSUME NEW h, NEW key, ForMac(h), IsString(key)
  PROVE  br_hmac_key_init(h, key) =
           [ksi |-> Blocks(h, Inner(h, key)), kso |-> Blocks(h, Wrapped(h, key))]
<1>1. Sound(h)
  BY DEF ForMac
<1>2. br_hash_out(h, br_hash_update(h, br_hash_init(h), key)) = Digest(h, key)
  BY <1>1, OnceIs
<1>3. br_hmac_key_init(h, key) =
        [ksi |-> process_key(h, Short(h, key), "36"),
         kso |-> process_key(h, Short(h, key), "5C")]
  BY <1>2 DEF br_hmac_key_init, Short
<1>4. /\ process_key(h, Short(h, key), "36") = Blocks(h, Inner(h, key))
      /\ process_key(h, Short(h, key), "5C") = Blocks(h, Wrapped(h, key))
  BY <1>1, ShortKey, KeyBlock DEF Inner, Wrapped, Full
<1> QED
  BY <1>3, <1>4

\* The context of an HMAC: within, it stands for the key and the message.
MacStands(h, hc, key, msg) ==
  /\ hc = [dig |-> hc.dig, kso |-> Blocks(h, Wrapped(h, key))]
  /\ Stands(h, hc.dig, Inner(h, key) \o msg)
  /\ IsString(key) /\ IsString(msg)

LEMMA MacFresh ==
  ASSUME NEW h, NEW key, ForMac(h), IsString(key)
  PROVE  MacStands(h, br_hmac_init(h, br_hmac_key_init(h, key)), key, <<>>)
<1> DEFINE dig == br_hash_set_state(br_hash_init(h), Blocks(h, Inner(h, key)), h.block)
           hc == br_hmac_init(h, br_hmac_key_init(h, key))
<1>1. hc = [dig |-> dig, kso |-> Blocks(h, Wrapped(h, key))]
  BY KeyInit DEF br_hmac_init
<1>2. IsText(Inner(h, key), h.block) /\ Sound(h)
  BY PadsText DEF ForMac
<1>3. h.block % h.block = 0
  BY <1>2, SoundFacts
<1>4. Stands(h, dig, Inner(h, key))
  BY <1>2, <1>3, StateStands
<1>5. Inner(h, key) \o <<>> = Inner(h, key) /\ IsString(<<>>)
  BY <1>2, Empty DEF IsText
<1> HIDE DEF dig, hc
<1>6. Stands(h, dig, Inner(h, key) \o <<>>)
  BY <1>4, <1>5
<1>7. MacStands(h, hc, key, <<>>)
  BY <1>1, <1>5, <1>6 DEF MacStands
<1> QED
  BY <1>7 DEF hc

\* HMAC goes on where it was (br_hmac_update).
THEOREM MacUpdates ==
  ASSUME NEW h, NEW hc, NEW key, NEW msg, NEW data,
         ForMac(h), MacStands(h, hc, key, msg), IsString(data)
  PROVE  MacStands(h, br_hmac_update(h, hc, data), key, msg \o data)
<1>1. /\ IsString(key) /\ IsString(msg) /\ Sound(h)
      /\ Stands(h, hc.dig, Inner(h, key) \o msg)
      /\ hc = [dig |-> hc.dig, kso |-> Blocks(h, Wrapped(h, key))]
  BY DEF MacStands, ForMac
<1>2. Stands(h, br_hash_update(h, hc.dig, data), (Inner(h, key) \o msg) \o data)
  BY <1>1, UpdateStands
<1>3. IsString(Inner(h, key))
  BY <1>1, PadsText DEF IsText
<1>4. (Inner(h, key) \o msg) \o data = Inner(h, key) \o (msg \o data)
  BY <1>1, <1>3, JoinedTwice
<1>5. IsString(msg \o data)
  BY <1>1, Joined
<1>6. PICK dig, kso : hc = [dig |-> dig, kso |-> kso] /\ dig = hc.dig
                        /\ kso = Blocks(h, Wrapped(h, key))
  BY <1>1
<1>7. br_hmac_update(h, hc, data) = [dig |-> br_hash_update(h, dig, data), kso |-> kso]
  BY <1>6 DEF br_hmac_update
<1>8. PICK new : new = br_hash_update(h, dig, data)
  OBVIOUS
<1>9. Stands(h, new, Inner(h, key) \o (msg \o data))
  BY <1>2, <1>4, <1>6, <1>8
<1>10. PICK u : u = br_hmac_update(h, hc, data) /\ u = [dig |-> new, kso |-> kso]
  BY <1>7, <1>8
<1>11. MacStands(h, u, key, msg \o data)
  BY <1>1, <1>5, <1>6, <1>9, <1>10 DEF MacStands
<1> QED
  BY <1>10, <1>11

LEMMA OuterIs ==
  ASSUME NEW h, NEW hc, NEW key, NEW d, ForMac(h), IsString(key), IsString(d),
         hc.kso = Blocks(h, Wrapped(h, key))
  PROVE  Outer(h, hc, d) = Digest(h, Wrapped(h, key) \o d)
<1> DEFINE cc == br_hash_set_state(br_hash_init(h), Blocks(h, Wrapped(h, key)), h.block)
<1>1. IsText(Wrapped(h, key), h.block) /\ Sound(h)
  BY PadsText DEF ForMac
<1>2. h.block % h.block = 0
  BY <1>1, SoundFacts
<1>3. Stands(h, cc, Wrapped(h, key))
  BY <1>1, <1>2, StateStands
<1>4. Outer(h, hc, d) = br_hash_out(h, br_hash_update(h, cc, d))
  BY DEF Outer
<1> HIDE DEF cc
<1>5. Stands(h, br_hash_update(h, cc, d), Wrapped(h, key) \o d)
  BY <1>1, <1>3, UpdateStands
<1> QED
  BY <1>1, <1>4, <1>5, OutStands

\* HMAC is HMAC of the key and of all that went in (br_hmac_out).
THEOREM MacOut ==
  ASSUME NEW h, NEW hc, NEW key, NEW msg, ForMac(h), MacStands(h, hc, key, msg)
  PROVE  br_hmac_out(h, hc) = Hmac(h, key, msg)
<1>1. /\ IsString(key) /\ Sound(h)
      /\ Stands(h, hc.dig, Inner(h, key) \o msg)
      /\ hc.kso = Blocks(h, Wrapped(h, key))
  BY DEF MacStands, ForMac
<1>2. br_hash_out(h, hc.dig) = Digest(h, Inner(h, key) \o msg)
  BY <1>1, OutStands
<1>3. IsString(Digest(h, Inner(h, key) \o msg))
  BY <1>1, DigestText DEF Digest, IsText
<1>4. Outer(h, hc, Digest(h, Inner(h, key) \o msg))
        = Digest(h, Wrapped(h, key) \o Digest(h, Inner(h, key) \o msg))
  BY <1>1, <1>3, OuterIs
<1> QED
  BY <1>2, <1>4, HmacIs DEF br_hmac_out

-----------------------------------------------------------------------------
(* HMAC that treats all lengths alike.                                       *)
UpTo(b, x, y) == x <= y /\ y < x + b

LEMMA Rounded ==
  ASSUME NEW h, NEW b, NEW x, b = h.block, b \in Nat \ {0}, x \in Nat
  PROVE  \E k : k \in Nat /\ RoundUp(h, x) = b * k /\ UpTo(b, x, b * k)
<1>1. PICK a \in Nat : a = x + b - 1
  OBVIOUS
<1>2. PICK q \in Nat, r \in 0..(b - 1) : a = b * q + r /\ q = a \div b
  BY <1>1, Parts
<1>3. RoundUp(h, x) = q * b
  BY <1>1, <1>2 DEF RoundUp
<1>4. PICK y \in Nat : y = b * q
  OBVIOUS
<1>5. q * b = y
  BY <1>4
<1>6. x <= y /\ y < x + b
  BY <1>1, <1>2, <1>4
<1> QED
  BY <1>3, <1>4, <1>5, <1>6 DEF UpTo

LEMMA OneMultiple ==
  ASSUME NEW b, NEW j, NEW k, NEW x, b \in Nat \ {0}, j \in Nat, k \in Nat, x \in Nat,
         UpTo(b, x, b * j), UpTo(b, x, b * k)
  PROVE  j = k
<1>1. ASSUME NEW s, NEW t, s \in Nat, t \in Nat, s < t,
             UpTo(b, x, b * s), UpTo(b, x, b * t)
      PROVE  FALSE
  <2>1. PICK w \in Nat : w = s + 1
    BY <1>1
  <2>2. b * w = b * s + b /\ b * s \in Nat /\ b * t \in Nat
    BY <1>1, <2>1
  <2>3. b * w <= b * t
    BY <1>1, <2>1, Product
  <2> QED
    BY <1>1, <2>2, <2>3 DEF UpTo
<1>2. ~(j < k) /\ ~(k < j)
  BY <1>1
<1> QED
  BY <1>2

\* The padding ends at the first whole block that has room for it.
LEMMA FirstRoom ==
  ASSUME NEW h, NEW msg, NEW b, NEW c, NEW m, NEW q, NEW ptr, NEW n,
         HasLengths(h, msg, b, c, m, q, ptr, n)
  PROVE  \E k : k \in Nat /\ n = b * k /\ UpTo(b, m + 1 + c, b * k)
<1>1. /\ b \in Nat \ {0} /\ q \in Nat /\ ptr \in 0..(b - 1) /\ m \in Nat
      /\ c \in 0..(b - 1)
  BY DEF HasLengths, Parted
<1>2. PICK y \in Nat : y = b * q
  BY <1>1
<1>3. m = y + ptr
  BY <1>2 DEF HasLengths, Parted
<1>4. b * (q + 1) = y + b /\ b * (q + 2) = y + b + b
  BY <1>1, <1>2
<1>5. n = IF ptr + 1 <= b - c THEN b * (q + 1) ELSE b * (q + 2)
  BY DEF HasLengths
<1>6. CASE ptr + 1 <= b - c
  <2>1. n = y + b
    BY <1>4, <1>5, <1>6
  <2>2. m + 1 + c <= y + b /\ y + b < m + 1 + c + b
    BY <1>1, <1>3, <1>6
  <2>3. q + 1 \in Nat
    BY <1>1
  <2> QED
    BY <1>4, <2>1, <2>2, <2>3 DEF UpTo
<1>7. CASE ~(ptr + 1 <= b - c)
  <2>1. n = y + b + b
    BY <1>4, <1>5, <1>7
  <2>2. m + 1 + c <= y + b + b /\ y + b + b < m + 1 + c + b
    BY <1>1, <1>3, <1>7
  <2>3. q + 2 \in Nat
    BY <1>1
  <2> QED
    BY <1>4, <2>1, <2>2, <2>3 DEF UpTo
<1> QED
  BY <1>6, <1>7

\* n1 bytes are hashed before, kr of them wait in the buffer; left follow.  The
\* padding of them all ends kz bytes further on.
Ending(h, b, c, n1, kr, left, kz, n) ==
  /\ kz \in Nat /\ n = n1 + kz + 1 /\ left + c <= kz
  /\ \A w \in 0..(b - 1) : w <= kz => (kr + (kz - w)) % b = b - 1 - w

Begun(n1, b, kr) == n1 \in Nat /\ kr = n1 % b

LEMMA Ends ==
  ASSUME NEW h, NEW msg, NEW b, NEW c, NEW m, NEW q, NEW ptr, NEW n, NEW n1, NEW kr, NEW left,
         HasLengths(h, msg, b, c, m, q, ptr, n),
         Begun(n1, b, kr), left \in Nat, m = n1 + left
  PROVE  Ending(h, b, c, n1, kr, left, RoundUp(h, kr + left + MinPadding(h)) - 1 - kr, n)
<1>1. /\ b \in Nat \ {0} /\ m \in Nat /\ c \in 0..(b - 1) /\ c \in Nat
      /\ b = h.block /\ c = h.count
  BY DEF HasLengths, Parted
<1>20. PICK q1 \in Nat, r1 \in 0..(b - 1) : n1 = b * q1 + r1 /\ r1 = kr
  BY <1>1, Parts DEF Begun
<1>9. PICK z \in Nat : z = b * q1
  BY <1>1
<1>2. n1 = z + kr /\ kr \in 0..(b - 1)
  BY <1>9, <1>20
<1>3. PICK x \in Nat : x = kr + left + (1 + c)
  BY <1>1, <1>2
<1>4. PICK k : k \in Nat /\ RoundUp(h, x) = b * k /\ UpTo(b, x, b * k)
  BY <1>1, Rounded
<1>5. PICK y \in Nat : y = b * k
  BY <1>1, <1>4
<1>6. RoundUp(h, kr + left + MinPadding(h)) = y
  BY <1>1, <1>3, <1>4, <1>5 DEF MinPadding
<1>7. PICK kz \in Nat : kz = y - 1 - kr /\ left + c <= kz
  BY <1>1, <1>2, <1>3, <1>4, <1>5 DEF UpTo
<1>8. PICK j : j \in Nat /\ n = b * j /\ UpTo(b, m + 1 + c, b * j)
  BY FirstRoom
<1>10. PICK i \in Nat : i = q1 + k
  BY <1>4
<1>11. b * i = z + y
  BY <1>1, <1>4, <1>5, <1>9, <1>10
<1>12. PICK t \in Nat : t = m + 1 + c
  BY <1>1
<1>13. UpTo(b, t, b * i)
  <2>1. t = z + x
    BY <1>1, <1>2, <1>3, <1>12
  <2>2. x <= y /\ y < x + b
    BY <1>4, <1>5 DEF UpTo
  <2>3. t <= z + y /\ z + y < t + b
    BY <1>1, <2>1, <2>2
  <2> QED
    BY <1>11, <2>3 DEF UpTo
<1>14. i = j
  BY <1>1, <1>8, <1>12, <1>13, OneMultiple
<1>15. n = z + y
  BY <1>8, <1>11, <1>14
<1>16. n = n1 + kz + 1
  BY <1>2, <1>7, <1>15
<1>17. ASSUME NEW w \in 0..(b - 1), w <= kz
       PROVE  (kr + (kz - w)) % b = b - 1 - w
  <2>1. PICK a \in Int : a = kr + (kz - w)
    BY <1>1, <1>2, <1>17
  <2>2. PICK r \in 0..(b - 1) : r = b - 1 - w
    BY <1>1
  <2>3. PICK p \in Int : p = k - 1
    BY <1>4
  <2>4. b * p = y - b
    BY <1>1, <1>4, <1>5, <2>3
  <2>5. a = b * p + r
    BY <1>1, <1>2, <1>7, <2>1, <2>2, <2>4
  <2>6. r = a % b
    BY <1>1, <2>5, Quotient
  <2> QED
    BY <2>1, <2>2, <2>6
<1>18. Ending(h, b, c, n1, kr, left, kz, n)
  BY <1>7, <1>16, <1>17 DEF Ending
<1> QED
  BY <1>6, <1>7, <1>18

LEMMA OneByteMore ==
  ASSUME NEW p, NEW k, NEW next, IsString(p), k \in 0..(Len(p) - 1), next = k + 1
  PROVE  SubSeq(p, 1, k) \o <<p[next]>> = SubSeq(p, 1, next)
<1>1. PICK n \in Nat : n = Len(p)
  BY StringFacts
<1> DEFINE s == SubSeq(p, 1, k)
           t == SubSeq(p, 1, next)
           u == s \o <<p[next]>>
<1>2. 1 \in 1..(Len(p) + 1) /\ k \in (1 - 1)..Len(p) /\ next \in (1 - 1)..Len(p)
      /\ k \in Nat /\ next \in Nat
  BY <1>1
<1>3. /\ IsString(s) /\ Len(s) = k - 1 + 1 /\ \A i \in 1..(k - 1 + 1) : s[i] = p[1 + i - 1]
      /\ IsString(t) /\ Len(t) = next - 1 + 1
      /\ \A i \in 1..(next - 1 + 1) : t[i] = p[1 + i - 1]
  BY <1>2, CutString
<1>4. k - 1 + 1 = k /\ next - 1 + 1 = next /\ \A i \in 1..next : 1 + i - 1 = i
  BY <1>2
<1> HIDE DEF s, t, u
<1>5. /\ IsText(s, k) /\ \A i \in 1..k : s[i] = p[i]
      /\ IsText(t, next) /\ \A i \in 1..next : t[i] = p[i]
  BY <1>2, <1>3, <1>4 DEF IsText
<1>6. IsText(<<p[next]>>, 1) /\ <<p[next]>>[1] = p[next]
  BY Single DEF IsText
<1>7. Joint(u, s, k, <<p[next]>>, 1)
  BY <1>5, <1>6, JointText DEF u
<1>8. IsText(u, next)
  BY <1>7 DEF Joint
<1>9. ASSUME NEW i \in 1..next
      PROVE  u[i] = t[i]
  <2>1. CASE i = k + 1
    <3>1. 1 \in 1..1
      OBVIOUS
    <3>2. u[k + 1] = <<p[next]>>[1]
      BY <1>7, <3>1 DEF Joint
    <3> QED
      BY <1>5, <1>6, <2>1, <3>2
  <2>2. CASE i # k + 1
    <3>1. i \in 1..k
      BY <1>2, <2>2
    <3>2. u[i] = s[i]
      BY <1>7, <3>1 DEF Joint
    <3> QED
      BY <1>5, <3>1, <3>2
  <2> QED
    BY <2>1, <2>2
<1>10. u = t
  BY <1>5, <1>8, <1>9, SameText
<1> QED
  BY <1>10 DEF u, s, t

\* One byte is hashed; the state is picked if this is the last one that counts.
CTRound(h, prev, byte, picked) ==
  LET s == br_hash_update(h, prev.cc, <<byte>>)
  IN  [cc |-> s, val |-> IF picked THEN s.val ELSE prev.val]

IsRun(f, h, start, byte, picked, n) ==
  f = [u \in 0..n |-> IF u = 0 THEN start
                      ELSE CTRound(h, f[u - 1], byte[u - 1], picked[u - 1])]

LEMMA RunExists ==
  ASSUME NEW h, NEW start, NEW byte, NEW picked
  PROVE  \A n \in Nat : \E f : IsRun(f, h, start, byte, picked, n)
<1> DEFINE S == {n \in Nat : \E f : IsRun(f, h, start, byte, picked, n)}
<1>1. 0 \in S
  <2> DEFINE f == [u \in 0..0 |-> start]
  <2>1. IsRun(f, h, start, byte, picked, 0)
    BY DEF IsRun
  <2> QED
    BY <2>1
<1>2. ASSUME NEW n \in Nat, n \in S
      PROVE  n + 1 \in S
  <2>1. PICK f : IsRun(f, h, start, byte, picked, n)
    BY <1>2
  <2> DEFINE g == [u \in 0..(n + 1) |->
                     IF u = n + 1 THEN CTRound(h, f[n], byte[n], picked[n]) ELSE f[u]]
             e == [u \in 0..(n + 1) |-> IF u = 0 THEN start
                     ELSE CTRound(h, g[u - 1], byte[u - 1], picked[u - 1])]
  <2>2. ASSUME NEW u \in 0..(n + 1)
        PROVE  g[u] = IF u = 0 THEN start
                      ELSE CTRound(h, g[u - 1], byte[u - 1], picked[u - 1])
    <3>1. CASE u = n + 1
      <4>1. u - 1 = n /\ n \in 0..(n + 1) /\ n # n + 1 /\ u # 0
        BY <3>1
      <4> QED
        BY <3>1, <4>1
    <3>2. CASE u # n + 1
      <4>1. u \in 0..n /\ (u # 0 => u - 1 \in 0..(n + 1) /\ u - 1 # n + 1)
        BY <3>2
      <4>2. f[u] = IF u = 0 THEN start
                   ELSE CTRound(h, f[u - 1], byte[u - 1], picked[u - 1])
        BY <2>1, <4>1 DEF IsRun
      <4> QED
        BY <3>2, <4>1, <4>2
    <3> QED
      BY <3>1, <3>2
  <2>3. g = e
    <3>1. g = [u \in 0..(n + 1) |-> g[u]]
      OBVIOUS
    <3> HIDE DEF g
    <3> QED
      BY <2>2, <3>1, Zenon
  <2>4. IsRun(g, h, start, byte, picked, n + 1)
    BY <2>3, Zenon DEF IsRun
  <2> QED
    BY <2>4
<1> HIDE DEF S
<1>3. \A n \in Nat : n \in S
  BY <1>1, <1>2, Induction
<1> QED
  BY <1>3 DEF S

LEMMA RunSteps ==
  ASSUME NEW f, NEW h, NEW start, NEW byte, NEW picked, NEW n, NEW u, NEW next,
         IsRun(f, h, start, byte, picked, n), n \in Nat, u \in 0..(n - 1), next = u + 1
  PROVE  f[next] = CTRound(h, f[u], byte[u], picked[u])
<1>1. next \in 0..n /\ next # 0 /\ next - 1 = u
  OBVIOUS
<1> QED
  BY <1>1 DEF IsRun

LEMMA RunBegins ==
  ASSUME NEW f, NEW h, NEW start, NEW byte, NEW picked, NEW n,
         IsRun(f, h, start, byte, picked, n), n \in Nat
  PROVE  f[0] = start
BY DEF IsRun

\* The bytes are those of p after its first n1, up to its end.
Feeds(byte, p, n1, kz) ==
  /\ IsString(p) /\ Len(p) = n1 + kz + 1
  /\ \A u \in 0..kz : byte[u] = p[n1 + u + 1]

PicksAt(picked, kz, km) == \A u \in 0..(km - 1) : picked[u] <=> u = kz

LEMMA FeedsOne ==
  ASSUME NEW h, NEW cc, NEW byte, NEW p, NEW n1, NEW kz, NEW u, NEW next,
         Sound(h), Feeds(byte, p, n1, kz), n1 \in Nat, kz \in Nat, u \in 0..kz, next = u + 1,
         Stands(h, cc, SubSeq(p, 1, n1 + u))
  PROVE  Stands(h, br_hash_update(h, cc, <<byte[u]>>), SubSeq(p, 1, n1 + next))
<1>1. PICK k \in Nat : k = n1 + u
  OBVIOUS
<1>2. PICK k1 \in Nat : k1 = n1 + next
  OBVIOUS
<1>3. IsString(p) /\ k \in 0..(Len(p) - 1) /\ k1 = k + 1
  BY <1>1, <1>2 DEF Feeds
<1>4. IsString(<<byte[u]>>)
  BY Single
<1>5. Stands(h, cc, SubSeq(p, 1, k))
  BY <1>1
<1>6. Stands(h, br_hash_update(h, cc, <<byte[u]>>), SubSeq(p, 1, k) \o <<byte[u]>>)
  BY <1>4, <1>5, UpdateStands
<1>7. byte[u] = p[k1]
  <2>1. n1 + u + 1 = k1
    BY <1>2
  <2> QED
    BY <2>1 DEF Feeds
<1>8. SubSeq(p, 1, k) \o <<p[k1]>> = SubSeq(p, 1, k1)
  BY <1>3, OneByteMore
<1> QED
  BY <1>2, <1>6, <1>7, <1>8

LEMMA WholeString ==
  ASSUME NEW p, NEW n, IsString(p), n = Len(p)
  PROVE  SubSeq(p, 1, n) = p
<1>1. n \in Nat
  BY StringFacts
<1>2. 1 \in 1..(Len(p) + 1) /\ n \in (1 - 1)..Len(p)
  BY <1>1
<1> DEFINE t == SubSeq(p, 1, n)
<1>3. /\ IsString(t) /\ Len(t) = n - 1 + 1
      /\ \A i \in 1..(n - 1 + 1) : t[i] = p[1 + i - 1]
  BY <1>2, CutString
<1> HIDE DEF t
<1>4. n - 1 + 1 = n /\ \A i \in 1..n : 1 + i - 1 = i
  BY <1>1
<1>5. Len(t) = Len(p) /\ \A i \in 1..Len(t) : t[i] = p[i]
  BY <1>3, <1>4
<1>6. t = p
  BY <1>3, <1>5, SameString
<1> QED
  BY <1>6 DEF t

\* After the last of them the state is that of p, and it stays.
Fed(h, s, p, n1, kz, u) ==
  /\ u <= kz + 1 => Stands(h, s.cc, SubSeq(p, 1, n1 + u))
  /\ u > kz => s.val = Blocks(h, p)

LEMMA FedOne ==
  ASSUME NEW h, NEW s, NEW byte, NEW picked, NEW p, NEW n1, NEW kz, NEW u, NEW next,
         Sound(h), Feeds(byte, p, n1, kz), n1 \in Nat, kz \in Nat, u \in Nat, next = u + 1,
         picked <=> u = kz, Fed(h, s, p, n1, kz, u)
  PROVE  Fed(h, CTRound(h, s, byte[u], picked), p, n1, kz, next)
<1> DEFINE cc == br_hash_update(h, s.cc, <<byte[u]>>)
           t == CTRound(h, s, byte[u], picked)
<1>1. t.cc = cc /\ t.val = IF picked THEN cc.val ELSE s.val
  BY DEF CTRound
<1> HIDE DEF cc, t
<1>2. u <= kz => Stands(h, cc, SubSeq(p, 1, n1 + next))
  <2> SUFFICES ASSUME u <= kz
               PROVE  Stands(h, cc, SubSeq(p, 1, n1 + next))
    OBVIOUS
  <2>1. u \in 0..kz /\ Stands(h, s.cc, SubSeq(p, 1, n1 + u))
    BY DEF Fed
  <2> QED
    BY <2>1, FeedsOne DEF cc
<1>3. next <= kz + 1 => Stands(h, t.cc, SubSeq(p, 1, n1 + next))
  BY <1>1, <1>2
<1>4. next > kz => t.val = Blocks(h, p)
  <2>1. CASE u = kz
    <3>1. PICK n : n = n1 + next /\ n = Len(p) /\ IsString(p)
      BY <2>1 DEF Feeds
    <3>2. Stands(h, cc, p)
      <4>1. SubSeq(p, 1, n) = p
        BY <3>1, WholeString
      <4>2. u <= kz
        BY <2>1
      <4>3. Stands(h, cc, SubSeq(p, 1, n1 + next))
        BY <1>2, <4>2
      <4>4. PICK k : k = n1 + next /\ k = n
        BY <3>1
      <4>5. Stands(h, cc, SubSeq(p, 1, k))
        BY <4>3, <4>4
      <4> QED
        BY <4>1, <4>4, <4>5
    <3>3. cc.val = Blocks(h, p)
      BY <3>2 DEF Stands
    <3> QED
      BY <1>1, <2>1, <3>3
  <2>2. CASE u # kz
    <3>1. t.val = s.val
      BY <1>1, <2>2
    <3>2. next > kz => u > kz
      BY <2>2
    <3> QED
      BY <3>1, <3>2 DEF Fed
  <2> QED
    BY <2>1, <2>2
<1>5. Fed(h, t, p, n1, kz, next)
  BY <1>3, <1>4 DEF Fed
<1> QED
  BY <1>5 DEF t

\* Byte by byte the padded message p goes in, after its first n1 bytes.
LEMMA RunEnds ==
  ASSUME NEW f, NEW h, NEW p, NEW start, NEW byte, NEW picked, NEW n1, NEW kz, NEW km,
         Sound(h), n1 \in Nat, kz \in Nat, km \in Nat, kz < km,
         Feeds(byte, p, n1, kz), PicksAt(picked, kz, km),
         IsRun(f, h, start, byte, picked, km), Stands(h, start.cc, SubSeq(p, 1, n1))
  PROVE  f[km].val = Blocks(h, p)
<1> DEFINE S == {u \in Nat : u <= km => Fed(h, f[u], p, n1, kz, u)}
<1>1. 0 \in S
  <2>1. f[0] = start
    BY RunBegins
  <2>2. n1 + 0 = n1
    OBVIOUS
  <2>3. Fed(h, f[0], p, n1, kz, 0)
    BY <2>1, <2>2 DEF Fed
  <2> QED
    BY <2>3
<1>2. ASSUME NEW u \in Nat, u \in S
      PROVE  u + 1 \in S
  <2>1. PICK next \in Nat : next = u + 1
    OBVIOUS
  <2>2. ASSUME next <= km
        PROVE  Fed(h, f[next], p, n1, kz, next)
    <3>1. u \in 0..(km - 1) /\ Fed(h, f[u], p, n1, kz, u)
      BY <1>2, <2>1, <2>2
    <3>2. f[next] = CTRound(h, f[u], byte[u], picked[u])
      BY <2>1, <3>1, RunSteps
    <3>3. picked[u] <=> u = kz
      BY <3>1 DEF PicksAt
    <3>4. Fed(h, CTRound(h, f[u], byte[u], picked[u]), p, n1, kz, next)
      BY <2>1, <3>1, <3>3, FedOne
    <3> QED
      BY <3>2, <3>4
  <2> QED
    BY <2>1, <2>2
<1> HIDE DEF S
<1>3. \A u \in Nat : u \in S
  BY <1>1, <1>2, Induction
<1>4. Fed(h, f[km], p, n1, kz, km)
  BY <1>3 DEF S
<1> QED
  BY <1>4 DEF Fed

\* The byte that the loop of br_hmac_outCT hashes at its step u.
ByteAt(b, data, z, m, left, most, kr, kl, u) ==
  IF u < left THEN IF u < most THEN data[z + u + 1] ELSE Zero
  ELSE IF u = left THEN OneBit
  ELSE IF u < kl THEN Zero
  ELSE IF (kr + u) % b >= b - CountLen
         THEN CountByte(m, ((kr + u) % b) - (b - CountLen)) ELSE Zero

BytesOf(b, data, z, m, left, most, kr, kz, km) ==
  [u \in 0..(km - 1) |-> ByteAt(b, data, z, m, left, most, kr, kz - (CountLen - 1), u)]

PickedAt(b, kr, kz, u) == (kr + u) % b = b - 1 /\ u = kz

PicksOf(b, kr, kz, km) == [u \in 0..(km - 1) |-> PickedAt(b, kr, kz, u)]

\* s is part of t, after its first n bytes; from here on left bytes of it are there.
Holds(t, n, s, z, left) == \A u \in 0..(left - 1) : t[n + u + 1] = s[z + u + 1]

CountedAt(b, kr, n, u, i) ==
  /\ (kr + u) % b >= b - CountLen
  /\ ((kr + u) % b) - (b - CountLen) = i - 1 - (n - CountLen)

LEMMA CountHere ==
  ASSUME NEW h, NEW b, NEW c, NEW n1, NEW kr, NEW left, NEW kz, NEW n, NEW u, NEW i,
         Ending(h, b, c, n1, kr, left, kz, n), b \in Nat \ {0}, c \in 0..(b - 1),
         CountLen \in 1..c, n1 \in Nat, left \in Nat, kr \in Nat, i = n1 + u + 1,
         u \in 0..kz, ~(u < kz - (CountLen - 1))
  PROVE  CountedAt(b, kr, n, u, i)
<1>1. kz \in Nat /\ n = n1 + kz + 1
      /\ \A w \in 0..(b - 1) : w <= kz => (kr + (kz - w)) % b = b - 1 - w
  BY DEF Ending
<1>2. PICK w \in Nat : w = kz - u
  BY <1>1
<1>3. w \in 0..(b - 1) /\ w <= kz /\ w <= CountLen - 1 /\ kz - w = u
  BY <1>1, <1>2
<1>4. (kr + u) % b = b - 1 - w
  BY <1>1, <1>3
<1>5. PICK v : v = (kr + u) % b
  OBVIOUS
<1> QED
  BY <1>1, <1>2, <1>3, <1>4, <1>5 DEF CountedAt

RightByte(b, data, z, left, most, kr, kz, msg, m, n, n1, u) ==
  ByteAt(b, data, z, m, left, most, kr, kz - (CountLen - 1), u)
    = PadByte(msg, m, n, n1 + u + 1)

LEMMA ByteIs ==
  ASSUME NEW h, NEW b, NEW c, NEW n1, NEW kr, NEW left, NEW kz, NEW n, NEW u,
         NEW msg, NEW m, NEW data, NEW z, NEW most,
         Ending(h, b, c, n1, kr, left, kz, n), b \in Nat \ {0}, c \in 0..(b - 1),
         CountLen \in 1..c, n1 \in Nat, left \in Nat, kr \in Nat, most \in Nat, m = n1 + left,
         left <= most, Holds(msg, n1, data, z, left), u \in 0..kz
  PROVE  RightByte(b, data, z, left, most, kr, kz, msg, m, n, n1, u)
<1>7. ByteAt(b, data, z, m, left, most, kr, kz - (CountLen - 1), u)
        = PadByte(msg, m, n, n1 + u + 1)
  <2>1. kz \in Nat /\ n = n1 + kz + 1
    BY DEF Ending
  <2>2. PICK i \in Nat : i = n1 + u + 1
    OBVIOUS
  <2>3. CASE u < left
    <3>1. i <= m /\ u < most /\ u \in 0..(left - 1)
      BY <2>2, <2>3
    <3>2. msg[i] = data[z + u + 1]
      BY <2>2, <3>1 DEF Holds
    <3> QED
      BY <2>2, <2>3, <3>1, <3>2 DEF ByteAt, PadByte
  <2>4. CASE u = left
    <3>1. ~(i <= m) /\ i = m + 1 /\ ~(u < left)
      BY <2>2, <2>4
    <3> QED
      BY <2>2, <2>4, <3>1 DEF ByteAt, PadByte
  <2>5. CASE u > left /\ u < kz - (CountLen - 1)
    <3>1. ~(i <= m) /\ i # m + 1 /\ i <= n - CountLen /\ ~(u < left) /\ u # left
      BY <2>1, <2>2, <2>5
    <3> QED
      BY <2>2, <2>5, <3>1 DEF ByteAt, PadByte
  <2>6. CASE u > left /\ ~(u < kz - (CountLen - 1))
    <3>1. ~(i <= m) /\ i # m + 1 /\ ~(i <= n - CountLen) /\ ~(u < left) /\ u # left
      BY <2>1, <2>2, <2>6
    <3>2. PICK v, x : v = (kr + u) % b /\ x = b - CountLen
      OBVIOUS
    <3>3. v >= x /\ v - x = i - 1 - (n - CountLen)
      <4>1. ~(u < kz - (CountLen - 1))
        BY <2>6
      <4>2. CountedAt(b, kr, n, u, i)
        BY <2>2, <4>1, CountHere
      <4> QED
        BY <3>2, <4>2 DEF CountedAt
    <3>4. PadByte(msg, m, n, i) = CountByte(m, v - x)
      BY <3>1, <3>3 DEF PadByte
    <3>5. ByteAt(b, data, z, m, left, most, kr, kz - (CountLen - 1), u) = CountByte(m, v - x)
      BY <2>6, <3>1, <3>2, <3>3 DEF ByteAt
    <3> QED
      BY <2>2, <3>4, <3>5
  <2> QED
    BY <2>3, <2>4, <2>5, <2>6
<1> QED
  BY <1>7, Zenon DEF RightByte

LEMMA PickIs ==
  ASSUME NEW h, NEW b, NEW c, NEW n1, NEW kr, NEW left, NEW kz, NEW n, NEW u,
         Ending(h, b, c, n1, kr, left, kz, n), b \in Nat \ {0}
  PROVE  PickedAt(b, kr, kz, u) <=> u = kz
<1>1. 0 \in 0..(b - 1) /\ kz \in Nat /\ kz - 0 = kz /\ b - 1 - 0 = b - 1 /\ 0 <= kz
  BY DEF Ending
<1>2. (kr + kz) % b = b - 1
  BY <1>1 DEF Ending
<1> QED
  BY <1>2 DEF PickedAt

\* The names br_hmac_outCT gives to its lengths.
CTNames(h, hc, data, len, min, max, b, count, z, cc, kr, kz, km) ==
  /\ b = h.block /\ count = hc.dig.count
  /\ z = IF ((count + min) \div h.block) * h.block > count
           THEN ((count + min) \div h.block) * h.block - count ELSE 0
  /\ cc = br_hash_update(h, hc.dig, SubSeq(data, 1, z))
  /\ kr = cc.count % h.block
  /\ kz = RoundUp(h, kr + (len - z) + MinPadding(h)) - 1 - kr
  /\ km = RoundUp(h, kr + (max - z) + MinPadding(h)) - kr

\* The states it goes through.
CTRun(f, h, data, len, max, b, count, z, cc, kr, kz, km) ==
  LET most == max - z
      d(u) == IF u < most THEN data[z + u + 1] ELSE Zero
      v(u) == (kr + u) % h.block
      c(u) == IF v(u) >= h.block - CountLen
                THEN CountByte(count + len, v(u) - (h.block - CountLen)) ELSE Zero
      byte(u) == IF u < len - z THEN d(u) ELSE IF u = len - z THEN OneBit
                 ELSE IF u < kz - (CountLen - 1) THEN Zero ELSE c(u)
  IN  f = [u \in 0..km |->
             IF u = 0 THEN [cc |-> cc, val |-> <<>>]
             ELSE LET prev == f[u - 1]
                      s == br_hash_update(h, prev.cc, <<byte(u - 1)>>)
                  IN  [cc |-> s,
                       val |-> IF v(u - 1) = h.block - 1 /\ u - 1 = kz THEN s.val
                               ELSE prev.val]]

CTStates(h, data, len, max, b, count, z, cc, kr, kz, km) ==
  CHOOSE f : CTRun(f, h, data, len, max, b, count, z, cc, kr, kz, km)

LEMMA CTUnfolds ==
  ASSUME NEW h, NEW hc, NEW data, NEW len, NEW min, NEW max
  PROVE  \E b, count, z, cc, kr, kz, km :
           /\ CTNames(h, hc, data, len, min, max, b, count, z, cc, kr, kz, km)
           /\ br_hmac_outCT(h, hc, data, len, min, max) =
                Outer(h, hc, DigestBytes(h,
                  CTStates(h, data, len, max, b, count, z, cc, kr, kz, km)[km].val))
<1> DEFINE b == h.block
           count == hc.dig.count
           z == IF ((count + min) \div h.block) * h.block > count
                  THEN ((count + min) \div h.block) * h.block - count ELSE 0
           cc == br_hash_update(h, hc.dig, SubSeq(data, 1, z))
           kr == cc.count % h.block
           kz == RoundUp(h, kr + (len - z) + MinPadding(h)) - 1 - kr
           km == RoundUp(h, kr + (max - z) + MinPadding(h)) - kr
<1>1. CTNames(h, hc, data, len, min, max, b, count, z, cc, kr, kz, km)
  BY DEF CTNames
<1>2. br_hmac_outCT(h, hc, data, len, min, max) =
        Outer(h, hc, DigestBytes(h,
          CTStates(h, data, len, max, b, count, z, cc, kr, kz, km)[km].val))
  BY DEF br_hmac_outCT, CTRun, CTStates
<1> HIDE DEF b, count, z, cc, kr, kz, km
<1> QED
  BY <1>1, <1>2

LEMMA CTRuns ==
  ASSUME NEW h, NEW data, NEW len, NEW max,
         NEW b, NEW count, NEW z, NEW cc, NEW kr, NEW kz, NEW km, km \in Nat, b = h.block
  PROVE  \E f, byte, picked :
           /\ IsRun(f, h, [cc |-> cc, val |-> <<>>], byte, picked, km)
           /\ byte = BytesOf(b, data, z, count + len, len - z, max - z, kr, kz, km)
           /\ picked = PicksOf(b, kr, kz, km)
           /\ f = CTStates(h, data, len, max, b, count, z, cc, kr, kz, km)
<1> DEFINE byte == [u \in 0..(km - 1) |->
                        ByteAt(b, data, z, count + len, len - z, max - z, kr,
                               kz - (CountLen - 1), u)]
           picked == [u \in 0..(km - 1) |-> PickedAt(b, kr, kz, u)]
           start == [cc |-> cc, val |-> <<>>]
           at(u) == ByteAt(b, data, z, count + len, len - z, max - z, kr,
                               kz - (CountLen - 1), u)
           Of(f) == [u \in 0..km |-> IF u = 0 THEN start
                     ELSE LET prev == f[u - 1]
                              s == br_hash_update(h, prev.cc, <<at(u - 1)>>)
                          IN [cc |-> s, val |-> IF PickedAt(b, kr, kz, u - 1)
                                                  THEN s.val ELSE prev.val]]
           P(f) == CTRun(f, h, data, len, max, b, count, z, cc, kr, kz, km)
<1>3. ASSUME NEW u \in 0..(km - 1)
      PROVE  byte[u] = at(u) /\ (picked[u] <=> PickedAt(b, kr, kz, u))
  OBVIOUS
<1>9. ASSUME NEW f
      PROVE  P(f) <=> f = Of(f)
  BY DEF CTRun, ByteAt, PickedAt
<1> HIDE DEF byte, picked, at, start, P
<1>4. ASSUME NEW f
      PROVE  [u \in 0..km |-> IF u = 0 THEN start
                               ELSE CTRound(h, f[u - 1], byte[u - 1], picked[u - 1])]
             = Of(f)
  <2>1. ASSUME NEW u \in 0..km, u # 0
        PROVE  CTRound(h, f[u - 1], byte[u - 1], picked[u - 1])
               = LET prev == f[u - 1]
                     s == br_hash_update(h, prev.cc, <<at(u - 1)>>)
                 IN [cc |-> s, val |-> IF PickedAt(b, kr, kz, u - 1)
                                         THEN s.val ELSE prev.val]
    <3>1. PICK w \in 0..(km - 1) : w = u - 1
      BY <2>1
    <3>2. byte[w] = at(w) /\ (picked[w] <=> PickedAt(b, kr, kz, w))
      BY <1>3
    <3> QED
      BY <3>1, <3>2 DEF CTRound
  <2> QED
    BY <2>1, Zenon
<1> HIDE DEF Of
<1>5. ASSUME NEW f
      PROVE  P(f) <=> IsRun(f, h, start, byte, picked, km)
  BY <1>4, <1>9, Zenon DEF IsRun
<1>6. \E f : P(f)
  BY <1>5, RunExists
<1>7. P(CHOOSE g : P(g))
  BY <1>6
<1>8. PICK a : a = CHOOSE g : P(g)
  OBVIOUS
<1>10. IsRun(a, h, start, byte, picked, km)
  BY <1>5, <1>7, <1>8
<1>11. a = CTStates(h, data, len, max, b, count, z, cc, kr, kz, km)
  BY <1>8 DEF P, CTStates
<1> QED
  BY <1>10, <1>11 DEF byte, picked, start, at, BytesOf, PicksOf

LEMMA Multiples ==
  ASSUME NEW b \in Nat \ {0}, NEW x \in Nat, NEW y \in Nat, x <= y
  PROVE  x \div b \in Nat /\ y \div b \in Nat /\ x \div b <= y \div b
<1>1. PICK q \in Nat, r \in 0..(b - 1) : x = b * q + r /\ q = x \div b
  BY Parts
<1>2. PICK s \in Nat, t \in 0..(b - 1) : y = b * s + t /\ s = y \div b
  BY Parts
<1>3. q <= s
  <2> SUFFICES ASSUME s < q
               PROVE  FALSE
    OBVIOUS
  <2>1. s + 1 \in Nat /\ b * (s + 1) = b * s + b
    OBVIOUS
  <2>2. b * (s + 1) <= b * q
    BY <2>1, Product
  <2> QED
    BY <1>1, <1>2, <2>1, <2>2
<1> QED
  BY <1>1, <1>2, <1>3

LEMMA RoundedMore ==
  ASSUME NEW h, NEW x, NEW y, h.block \in Nat \ {0}, x \in Nat, y \in Nat, x <= y
  PROVE  /\ RoundUp(h, x) \in Nat /\ RoundUp(h, y) \in Nat
         /\ RoundUp(h, x) <= RoundUp(h, y) /\ x <= RoundUp(h, x)
<1>1. PICK b \in Nat \ {0} : b = h.block
  OBVIOUS
<1>2. PICK v \in Nat, w \in Nat : v = x + b - 1 /\ w = y + b - 1 /\ v <= w
  <2>1. x + b - 1 \in Nat /\ y + b - 1 \in Nat /\ x + b - 1 <= y + b - 1
    BY <1>1
  <2> QED
    BY <2>1
<1>3. PICK q \in Nat, s \in Nat : q = v \div b /\ s = w \div b /\ q <= s
  BY <1>2, Multiples
<1>4. b * q \in Int /\ b * s \in Int /\ b * q <= b * s
  BY <1>3, Product
<1>5. q * b = b * q /\ s * b = b * s /\ b * q \in Nat /\ b * s \in Nat
  BY <1>3
<1>6. RoundUp(h, x) = b * q /\ RoundUp(h, y) = b * s
  BY <1>1, <1>2, <1>3, <1>5 DEF RoundUp
<1>7. x <= RoundUp(h, x)
  <2>1. PICK k : k \in Nat /\ RoundUp(h, x) = b * k /\ UpTo(b, x, b * k)
    BY <1>1, Rounded
  <2> QED
    BY <2>1 DEF UpTo
<1> QED
  BY <1>4, <1>5, <1>6, <1>7

\* The whole blocks that are there whatever counts of the last piece.
Skipped(b, count, min, z) ==
  z = IF ((count + min) \div b) * b > count THEN ((count + min) \div b) * b - count ELSE 0

LEMMA SkipIs ==
  ASSUME NEW b, NEW count, NEW min, NEW z, b \in Nat \ {0}, count \in Nat, min \in Nat,
         Skipped(b, count, min, z)
  PROVE  z \in 0..min
<1>1. PICK x \in Nat : x = count + min
  OBVIOUS
<1>2. PICK q \in Nat, r \in 0..(b - 1) : x = b * q + r /\ q = x \div b
  BY <1>1, Parts
<1>3. PICK y \in Nat : y = b * q /\ y = q * b
  OBVIOUS
<1>4. z = IF y > count THEN y - count ELSE 0
  BY <1>1, <1>2, <1>3 DEF Skipped
<1> QED
  BY <1>1, <1>2, <1>3, <1>4

\* The head of a string, and what is joined to another.
LEMMA Head1 ==
  ASSUME NEW data, NEW max, NEW len, IsText(data, max), len \in 0..max
  PROVE  /\ IsText(SubSeq(data, 1, len), len)
         /\ \A i \in 1..len : SubSeq(data, 1, len)[i] = data[i]
<1>1. max \in Nat /\ Len(data) = max /\ IsString(data) /\ len \in Nat
  BY DEF IsText
<1>2. 1 \in 1..(Len(data) + 1) /\ len \in (1 - 1)..Len(data)
  BY <1>1
<1> DEFINE t == SubSeq(data, 1, len)
<1>3. /\ IsString(t) /\ Len(t) = len - 1 + 1
      /\ \A i \in 1..(len - 1 + 1) : t[i] = data[1 + i - 1]
  BY <1>1, <1>2, CutString
<1> HIDE DEF t
<1>4. len - 1 + 1 = len /\ \A i \in 1..len : 1 + i - 1 = i
  BY <1>1
<1>5. IsText(t, len) /\ \A i \in 1..len : t[i] = data[i]
  BY <1>1, <1>3, <1>4 DEF IsText
<1> QED
  BY <1>5 DEF t

LEMMA HeadOf ==
  ASSUME NEW p, NEW n, NEW t, NEW k, IsString(p), n = Len(p), k \in 0..n, IsText(t, k),
         \A i \in 1..k : p[i] = t[i]
  PROVE  SubSeq(p, 1, k) = t
<1>1. IsText(p, n)
  BY StringFacts DEF IsText
<1>2. IsText(SubSeq(p, 1, k), k) /\ \A i \in 1..k : SubSeq(p, 1, k)[i] = p[i]
  BY <1>1, Head1
<1> DEFINE s == SubSeq(p, 1, k)
<1> HIDE DEF s
<1>3. IsText(s, k) /\ \A i \in 1..k : s[i] = t[i]
  BY <1>2 DEF s
<1>4. s = t
  BY <1>3, SameText
<1> QED
  BY <1>4 DEF s

\* The lengths of br_hmac_outCT: kz bytes and one are hashed until the padding
\* ends, and km in any case.
LEMMA EnoughSteps ==
  ASSUME NEW h, NEW b, NEW kr, NEW left, NEW most, NEW kz, NEW km,
         Sound(h), b = h.block, kr \in 0..(b - 1), left \in Nat, most \in Nat, left <= most,
         kz = RoundUp(h, kr + left + MinPadding(h)) - 1 - kr,
         km = RoundUp(h, kr + most + MinPadding(h)) - kr
  PROVE  km \in Nat /\ kz < km
<1>1. h.block \in Nat \ {0} /\ MinPadding(h) \in Nat
  BY SoundFacts DEF MinPadding
<1>2. PICK x \in Nat, y \in Nat :
        x = kr + left + MinPadding(h) /\ y = kr + most + MinPadding(h) /\ x <= y /\ kr <= y
  <2>1. PICK p \in Nat : p = MinPadding(h)
    BY <1>1
  <2>2. kr + left + p \in Nat /\ kr + most + p \in Nat /\ kr + left + p <= kr + most + p
        /\ kr <= kr + most + p
    BY <1>1
  <2> QED
    BY <2>1, <2>2
<1>3. /\ RoundUp(h, x) \in Nat /\ RoundUp(h, y) \in Nat
      /\ RoundUp(h, x) <= RoundUp(h, y) /\ y <= RoundUp(h, y)
  <2>1. /\ RoundUp(h, x) \in Nat /\ RoundUp(h, y) \in Nat
        /\ RoundUp(h, x) <= RoundUp(h, y)
    BY <1>1, <1>2, RoundedMore
  <2>2. y <= RoundUp(h, y)
    BY <1>1, <1>2, RoundedMore
  <2> QED
    BY <2>1, <2>2
<1>4. PICK r \in Nat, s \in Nat : r = RoundUp(h, x) /\ s = RoundUp(h, y) /\ r <= s /\ y <= s
  BY <1>3
<1>5. kz = r - 1 - kr /\ km = s - kr /\ kr <= s /\ kr \in Nat
  BY <1>1, <1>2, <1>4
<1> HIDE <1>2, <1>3
<1> QED
  BY <1>4, <1>5

\* The string that the contexts of HMAC stand for, and its heads.
Pieced(u, v, data, n1, z, left) ==
  /\ IsText(u, n1) /\ IsText(v, n1 + left) /\ Holds(v, n1, data, z, left)
  /\ \A i \in 1..n1 : v[i] = u[i]

LEMMA Pieces ==
  ASSUME NEW m0, NEW count, NEW data, NEW max, NEW len, NEW z, NEW left, NEW n1,
         IsText(m0, count), IsText(data, max), len \in 0..max, z \in 0..len,
         left = len - z, n1 = count + z
  PROVE  Pieced(m0 \o SubSeq(data, 1, z), m0 \o SubSeq(data, 1, len), data, n1, z, left)
<1>1. max \in Nat /\ count \in Nat /\ z \in 0..max /\ len \in Nat /\ z \in Nat /\ left \in Nat
  BY DEF IsText
<1> DEFINE s == SubSeq(data, 1, z)
           t == SubSeq(data, 1, len)
<1>2. IsText(s, z) /\ \A i \in 1..z : s[i] = data[i]
  BY <1>1, Head1
<1>3. IsText(t, len) /\ \A i \in 1..len : t[i] = data[i]
  BY Head1
<1> HIDE DEF s, t
<1> DEFINE u == m0 \o s
           v == m0 \o t
<1>4. Joint(u, m0, count, s, z) /\ Joint(v, m0, count, t, len)
  BY <1>2, <1>3, JointText
<1> HIDE DEF u, v
<1>5. count + len = n1 + left
  BY <1>1
<1>6. IsText(u, n1) /\ IsText(v, n1 + left)
  BY <1>4, <1>5 DEF Joint
<1>7. ASSUME NEW i \in 1..n1
      PROVE  v[i] = u[i]
  <2>1. CASE i <= count
    <3>1. i \in 1..count
      BY <2>1
    <3> QED
      BY <1>4, <3>1 DEF Joint
  <2>2. CASE ~(i <= count)
    <3>1. PICK j \in 1..z : i = count + j
      <4>1. i - count \in 1..z /\ i = count + (i - count)
        BY <1>1, <2>2
      <4> QED
        BY <4>1
    <3>2. j \in 1..len
      BY <1>1
    <3>3. u[i] = s[j] /\ v[i] = t[j]
      BY <1>4, <3>1, <3>2 DEF Joint
    <3> QED
      BY <1>2, <1>3, <3>2, <3>3
  <2> QED
    BY <2>1, <2>2
<1>8. ASSUME NEW w \in 0..(left - 1)
      PROVE  v[n1 + w + 1] = data[z + w + 1]
  <2>1. PICK j \in 1..len : j = z + w + 1 /\ n1 + w + 1 = count + j
    <3>1. z + w + 1 \in 1..len /\ n1 + w + 1 = count + (z + w + 1)
      BY <1>1
    <3> QED
      BY <3>1
  <2>2. v[count + j] = t[j] /\ t[j] = data[j]
    BY <1>3, <1>4 DEF Joint
  <2> QED
    BY <2>1, <2>2
<1>9. Holds(v, n1, data, z, left)
  BY <1>8 DEF Holds
<1> QED
  <2>1. Pieced(u, v, data, n1, z, left)
    BY <1>6, <1>7, <1>9 DEF Pieced
  <2> QED
    BY <2>1 DEF u, v, s, t

LEMMA PaddedHead ==
  ASSUME NEW p, NEW msg, NEW m, NEW n, NEW n1, NEW t, PaddedAs(p, msg, m, n), IsText(t, n1),
         n \in Nat, m \in Nat, n1 <= m, n1 <= n, \A i \in 1..n1 : msg[i] = t[i]
  PROVE  SubSeq(p, 1, n1) = t
<1>1. IsString(p) /\ Len(p) = n /\ \A i \in 1..n : p[i] = PadByte(msg, m, n, i)
  BY DEF PaddedAs
<1>2. n1 \in 0..n /\ n1 \in Nat
  BY DEF IsText
<1>3. ASSUME NEW i \in 1..n1
      PROVE  p[i] = t[i]
  <2>1. i \in 1..n /\ i <= m
    BY <1>2
  <2>2. PadByte(msg, m, n, i) = msg[i]
    BY <2>1 DEF PadByte
  <2> QED
    BY <1>1, <2>1, <2>2
<1> QED
  BY <1>1, <1>2, <1>3, HeadOf

LEMMA FeedsPadded ==
  ASSUME NEW h, NEW b, NEW c, NEW n1, NEW kr, NEW left, NEW kz, NEW n, NEW p,
         NEW msg, NEW m, NEW data, NEW z, NEW most, NEW km, NEW byte,
         Ending(h, b, c, n1, kr, left, kz, n), b \in Nat \ {0}, c \in 0..(b - 1),
         CountLen \in 1..c, n1 \in Nat, left \in Nat, kr \in Nat, most \in Nat, m = n1 + left,
         left <= most, Holds(msg, n1, data, z, left), PaddedAs(p, msg, m, n),
         km \in Nat, kz < km,
         byte = BytesOf(b, data, z, m, left, most, kr, kz, km)
  PROVE  Feeds(byte, p, n1, kz)
<1>1. kz \in Nat /\ n = n1 + kz + 1
  BY DEF Ending
<1>2. IsString(p) /\ Len(p) = n /\ \A i \in 1..n : p[i] = PadByte(msg, m, n, i)
  BY DEF PaddedAs
<1>3. ASSUME NEW u \in 0..kz
      PROVE  byte[u] = p[n1 + u + 1]
  <2>1. u \in 0..(km - 1)
    BY <1>1
  <2>2. byte[u] = ByteAt(b, data, z, m, left, most, kr, kz - (CountLen - 1), u)
    BY <2>1, Zenon DEF BytesOf
  <2>3. byte[u] = PadByte(msg, m, n, n1 + u + 1)
    <3>1. RightByte(b, data, z, left, most, kr, kz, msg, m, n, n1, u)
      BY ByteIs
    <3> QED
      BY <2>2, <3>1, Zenon DEF RightByte
  <2>4. PICK i \in 1..n : i = n1 + u + 1
    <3>1. n1 + u + 1 \in 1..n
      BY <1>1
    <3> QED
      BY <3>1
  <2> QED
    BY <1>2, <2>3, <2>4
<1> QED
  BY <1>1, <1>2, <1>3 DEF Feeds

\* The names of br_hmac_outCT, read as they are needed.
LEMMA NamesFacts ==
  ASSUME NEW h, NEW hc, NEW data, NEW len, NEW min, NEW max,
         NEW b, NEW count, NEW z, NEW cc, NEW kr, NEW kz, NEW km,
         CTNames(h, hc, data, len, min, max, b, count, z, cc, kr, kz, km)
  PROVE  /\ b = h.block /\ count = hc.dig.count /\ Skipped(b, count, min, z)
         /\ cc = br_hash_update(h, hc.dig, SubSeq(data, 1, z)) /\ kr = cc.count % b
         /\ kz = RoundUp(h, kr + (len - z) + MinPadding(h)) - 1 - kr
         /\ km = RoundUp(h, kr + (max - z) + MinPadding(h)) - kr
BY DEF CTNames, Skipped

\* The state that is picked is that of the whole padded message.
LEMMA CTDigest ==
  ASSUME NEW h, NEW hc, NEW m0, NEW data, NEW len, NEW min, NEW max,
         NEW b, NEW count, NEW z, NEW cc, NEW kr, NEW kz, NEW km, NEW val,
         Sound(h), Stands(h, hc.dig, m0), IsText(data, max), len \in 0..max, min \in 0..len,
         CTNames(h, hc, data, len, min, max, b, count, z, cc, kr, kz, km),
         val = CTStates(h, data, len, max, b, count, z, cc, kr, kz, km)[km].val
  PROVE  DigestBytes(h, val) = Digest(h, m0 \o SubSeq(data, 1, len))
<1>40. PICK dig : dig = hc.dig
  OBVIOUS
<1>41. /\ b = h.block /\ count = dig.count /\ Skipped(b, count, min, z)
       /\ cc = br_hash_update(h, dig, SubSeq(data, 1, z)) /\ kr = cc.count % b
       /\ kz = RoundUp(h, kr + (len - z) + MinPadding(h)) - 1 - kr
       /\ km = RoundUp(h, kr + (max - z) + MinPadding(h)) - kr
       /\ Stands(h, dig, m0)
  BY <1>40, NamesFacts
<1>1. /\ b \in Nat \ {0} /\ max \in Nat /\ len \in Nat /\ min \in Nat
      /\ IsText(m0, count) /\ count \in Nat /\ IsString(m0)
  BY <1>41, SoundFacts, StringFacts DEF IsText, Stands
<1>2. z \in 0..min
  BY <1>1, <1>41, SkipIs
<1>3. PICK left \in Nat, most \in Nat, n1 \in Nat, m \in Nat :
        /\ left = len - z /\ most = max - z /\ n1 = count + z /\ m = n1 + left
        /\ left <= most /\ m = count + len /\ z \in 0..len /\ z \in 0..max
  <2>1. /\ len - z \in Nat /\ max - z \in Nat /\ count + z \in Nat /\ count + len \in Nat
        /\ count + len = (count + z) + (len - z) /\ len - z <= max - z
        /\ z \in 0..len /\ z \in 0..max
    BY <1>1, <1>2
  <2> QED
    BY <2>1
<1> DEFINE s == SubSeq(data, 1, z)
           m1 == m0 \o s
           m2 == m0 \o SubSeq(data, 1, len)
<1>4. /\ IsText(m1, n1) /\ IsText(m2, m) /\ Holds(m2, n1, data, z, left)
      /\ \A i \in 1..n1 : m2[i] = m1[i]
  <2>1. Pieced(m1, m2, data, n1, z, left)
    BY <1>1, <1>3, Pieces
  <2> HIDE DEF m1, m2
  <2> QED
    BY <1>3, <2>1 DEF Pieced
<1>5. IsString(s)
  BY <1>3, Head1 DEF IsText
<1> HIDE DEF s
<1>6. Stands(h, cc, m1)
  <2>1. Stands(h, br_hash_update(h, dig, s), m0 \o s)
    BY <1>5, <1>41, UpdateStands
  <2> QED
    BY <1>41, <2>1 DEF s
<1> HIDE DEF m1, m2
<1>7. cc.count = n1
  BY <1>4, <1>6 DEF Stands, IsText
<1>8. Begun(n1, b, kr) /\ kr \in 0..(b - 1) /\ kr \in Nat
  BY <1>1, <1>7, <1>41 DEF Begun
<1>9. PICK c, q, ptr, n : HasLengths(h, m2, b, c, m, q, ptr, n)
  <2>1. IsString(m2) /\ Len(m2) = m
    BY <1>4 DEF IsText
  <2>2. PICK bb, c, mm, q, ptr, n : HasLengths(h, m2, bb, c, mm, q, ptr, n)
    BY <2>1, Lengths
  <2>3. bb = b /\ mm = m
    BY <1>41, <2>1, <2>2 DEF HasLengths
  <2> QED
    BY <2>2, <2>3
<1>10. Ending(h, b, c, n1, kr, left, kz, n)
  <2>1. Ending(h, b, c, n1, kr, left, RoundUp(h, kr + left + MinPadding(h)) - 1 - kr, n)
    BY <1>3, <1>8, <1>9, Ends
  <2>2. kz = RoundUp(h, kr + left + MinPadding(h)) - 1 - kr
    BY <1>3, <1>41
  <2> QED
    BY <2>1, <2>2, Zenon
<1>11. km \in Nat /\ kz < km
  <2>1. /\ kz = RoundUp(h, kr + left + MinPadding(h)) - 1 - kr
        /\ km = RoundUp(h, kr + most + MinPadding(h)) - kr
    BY <1>3, <1>41
  <2> QED
    BY <1>3, <1>8, <1>41, <2>1, EnoughSteps
<1>12. /\ c \in 0..(b - 1) /\ CountLen \in 1..c /\ PaddedAs(Padded(h, m2), m2, m, n)
  BY <1>9 DEF HasLengths
<1>13. PICK f, byte, picked :
         /\ IsRun(f, h, [cc |-> cc, val |-> <<>>], byte, picked, km)
         /\ byte = BytesOf(b, data, z, m, left, most, kr, kz, km)
         /\ picked = PicksOf(b, kr, kz, km)
         /\ f = CTStates(h, data, len, max, b, count, z, cc, kr, kz, km)
  <2>1. PICK f, byte, picked :
         /\ IsRun(f, h, [cc |-> cc, val |-> <<>>], byte, picked, km)
         /\ byte = BytesOf(b, data, z, count + len, len - z, max - z, kr, kz, km)
         /\ picked = PicksOf(b, kr, kz, km)
         /\ f = CTStates(h, data, len, max, b, count, z, cc, kr, kz, km)
    BY <1>11, <1>41, CTRuns
  <2>2. byte = BytesOf(b, data, z, m, left, most, kr, kz, km)
    BY <1>3, <2>1
  <2> QED
    BY <2>1, <2>2
<1> DEFINE p == Padded(h, m2)
<1> HIDE DEF p
<1>14. PaddedAs(p, m2, m, n)
  BY <1>12 DEF p
<1>15. Feeds(byte, p, n1, kz)
  BY <1>1, <1>3, <1>4, <1>8, <1>10, <1>11, <1>12, <1>13, <1>14, FeedsPadded
<1>16. PicksAt(picked, kz, km)
  <2>1. ASSUME NEW u \in 0..(km - 1)
        PROVE  picked[u] <=> u = kz
    <3>1. PickedAt(b, kr, kz, u) <=> u = kz
      BY <1>1, <1>10, PickIs
    <3>2. picked[u] <=> PickedAt(b, kr, kz, u)
      BY <1>13, Zenon DEF PicksOf
    <3> QED
      BY <3>1, <3>2
  <2> QED
    BY <2>1 DEF PicksAt
<1>17. kz \in Nat /\ n = n1 + kz + 1
  BY <1>10 DEF Ending
<1>18. SubSeq(p, 1, n1) = m1
  <2>1. n \in Nat /\ n1 <= n /\ n1 <= m
    BY <1>3, <1>17
  <2> QED
    BY <1>4, <1>14, <2>1, PaddedHead
<1>19. PICK start : start = [cc |-> cc, val |-> <<>>]
  OBVIOUS
<1>20. start.cc = cc
  BY <1>19
<1>21. Stands(h, start.cc, SubSeq(p, 1, n1))
  BY <1>6, <1>18, <1>20
<1>22. IsRun(f, h, start, byte, picked, km)
  BY <1>13, <1>19
<1>23. f[km].val = Blocks(h, p)
  BY <1>11, <1>15, <1>16, <1>17, <1>21, <1>22, RunEnds
<1>24. val = Blocks(h, p)
  BY <1>13, <1>23
<1> QED
  BY <1>24 DEF Digest, p, m2

\* Whatever counts of the last piece, the variant that treats all lengths alike
\* gives the code of what counts (br_hmac_outCT).
THEOREM MacOutAlike ==
  ASSUME NEW h, NEW hc, NEW key, NEW msg, NEW data, NEW len, NEW min, NEW max,
         ForMac(h), MacStands(h, hc, key, msg), IsText(data, max),
         len \in 0..max, min \in 0..len
  PROVE  br_hmac_outCT(h, hc, data, len, min, max)
           = br_hmac_out(h, br_hmac_update(h, hc, SubSeq(data, 1, len)))
<1> DEFINE s == SubSeq(data, 1, len)
           m0 == Inner(h, key) \o msg
<1>1. PICK b, count, z, cc, kr, kz, km, val :
        /\ CTNames(h, hc, data, len, min, max, b, count, z, cc, kr, kz, km)
        /\ br_hmac_outCT(h, hc, data, len, min, max) = Outer(h, hc, DigestBytes(h, val))
        /\ val = CTStates(h, data, len, max, b, count, z, cc, kr, kz, km)[km].val
  BY CTUnfolds
<1>2. /\ IsString(key) /\ IsString(msg) /\ Sound(h) /\ Stands(h, hc.dig, m0)
      /\ hc.kso = Blocks(h, Wrapped(h, key))
  BY DEF MacStands, ForMac
<1>3. DigestBytes(h, val) = Digest(h, m0 \o s)
  <2> HIDE DEF m0
  <2> QED
    BY <1>1, <1>2, CTDigest
<1>4. IsString(s)
  BY Head1 DEF IsText
<1>5. MacStands(h, br_hmac_update(h, hc, s), key, msg \o s)
  BY <1>4, MacUpdates
<1>6. br_hmac_out(h, br_hmac_update(h, hc, s)) = Hmac(h, key, msg \o s)
  BY <1>5, MacOut
<1>7. IsString(Inner(h, key))
  BY <1>2, PadsText DEF IsText
<1> HIDE DEF s
<1>8. m0 \o s = Inner(h, key) \o (msg \o s)
  BY <1>2, <1>4, <1>7, JoinedTwice
<1>9. IsString(Digest(h, m0 \o s))
  BY <1>2, DigestText DEF Digest, IsText
<1>10. Outer(h, hc, Digest(h, m0 \o s)) = Digest(h, Wrapped(h, key) \o Digest(h, m0 \o s))
  BY <1>2, <1>9, OuterIs
<1>11. Outer(h, hc, DigestBytes(h, val)) = Hmac(h, key, msg \o s)
  BY <1>3, <1>8, <1>10, HmacIs
<1>12. br_hmac_outCT(h, hc, data, len, min, max) = Hmac(h, key, msg \o s)
  BY <1>1, <1>11
<1> QED
  BY <1>6, <1>12 DEF s

-----------------------------------------------------------------------------
(* The jobs of HMAC.                                                         *)
LEMMA BytesText ==
  ASSUME NEW name, NEW a, NEW n, a \in Nat, n \in Nat
  PROVE  /\ IsText(Bytes(name, a + 1, a + n), n)
         /\ \A i \in 1..n : Bytes(name, a + 1, a + n)[i] = <<name, a + i>>
<1> DEFINE t == Bytes(name, a + 1, a + n)
<1>1. t = [i \in 1..n |-> <<name, a + i>>]
  <2>1. a + n - (a + 1) + 1 = n /\ \A i \in 1..n : a + 1 + i - 1 = a + i
    OBVIOUS
  <2> QED
    BY <2>1 DEF Bytes
<1> HIDE DEF t
<1>2. t = [i \in 1..n |-> t[i]] /\ \A i \in 1..n : t[i] = <<name, a + i>>
  BY <1>1
<1>3. IsString(t) /\ Len(t) = n
  BY <1>2, StringOf
<1> QED
  BY <1>2, <1>3 DEF IsText, t

LEMMA BytesFrom1 ==
  ASSUME NEW name, NEW n, n \in Nat
  PROVE  /\ IsText(Bytes(name, 1, n), n)
         /\ \A i \in 1..n : Bytes(name, 1, n)[i] = <<name, i>>
<1>1. /\ IsText(Bytes(name, 0 + 1, 0 + n), n)
      /\ \A i \in 1..n : Bytes(name, 0 + 1, 0 + n)[i] = <<name, 0 + i>>
  BY BytesText
<1>2. 0 + 1 = 1 /\ 0 + n = n /\ \A i \in 1..n : 0 + i = i
  OBVIOUS
<1> QED
  BY <1>1, <1>2

\* A message goes on where it was.
LEMMA MessageGoesOn ==
  ASSUME NEW n, NEW k, n \in Nat, k \in Nat
  PROVE  /\ Message(n) \o Bytes("msg", n + 1, n + k) = Message(n + k)
         /\ IsText(Message(n), n) /\ IsText(Bytes("msg", n + 1, n + k), k)
<1> DEFINE s == Message(n)
           t == Bytes("msg", n + 1, n + k)
           u == Message(n + k)
           v == s \o t
<1>1. /\ IsText(s, n) /\ IsText(u, n + k) /\ IsText(t, k)
      /\ \A i \in 1..n : s[i] = <<"msg", i>>
      /\ \A i \in 1..(n + k) : u[i] = <<"msg", i>>
      /\ \A i \in 1..k : t[i] = <<"msg", n + i>>
  <2>1. n + k \in Nat
    OBVIOUS
  <2>2. IsText(s, n) /\ \A i \in 1..n : s[i] = <<"msg", i>>
    BY BytesFrom1 DEF Message
  <2>3. IsText(u, n + k) /\ \A i \in 1..(n + k) : u[i] = <<"msg", i>>
    BY <2>1, BytesFrom1 DEF Message
  <2>4. IsText(t, k) /\ \A i \in 1..k : t[i] = <<"msg", n + i>>
    BY BytesText
  <2> QED
    BY <2>2, <2>3, <2>4
<1> HIDE DEF s, t, u
<1>2. Joint(v, s, n, t, k)
  BY <1>1, JointText
<1> HIDE DEF v
<1>3. ASSUME NEW i \in 1..(n + k)
      PROVE  v[i] = u[i]
  <2>1. CASE i <= n
    <3>1. i \in 1..n
      BY <2>1
    <3> QED
      BY <1>1, <1>2, <3>1 DEF Joint
  <2>2. CASE ~(i <= n)
    <3>1. PICK j \in 1..k : i = n + j
      <4>1. i - n \in 1..k /\ i = n + (i - n)
        BY <2>2
      <4> QED
        BY <4>1
    <3>2. v[i] = t[j]
      BY <1>2, <3>1 DEF Joint
    <3> QED
      BY <1>1, <3>1, <3>2
  <2> QED
    BY <2>1, <2>2
<1>4. v = u
  BY <1>1, <1>2, <1>3, SameText DEF Joint
<1> QED
  BY <1>1, <1>4 DEF v, s, t, u

LEMMA MacsFit ==
  ASSUME NEW h \in Macs
  PROVE  ForMac(h)
BY HashAssumption DEF ForMac, Sound

MacJob(n, h, key, hc) == [kind |-> "mac", n |-> n, h |-> h, key |-> key, hc |-> hc]

MacRight(j) ==
  \E hc : \E n \in Nat, h \in Macs, key \in Nat :
    j = MacJob(n, h, key, hc) /\ MacStands(h, hc, Key(key), Message(n))

LEMMA MacBegins ==
  ASSUME NEW h \in Macs, NEW len \in KeyLens
  PROVE  MacRight(Mac(h, len))
<1> DEFINE hc == br_hmac_init(h, br_hmac_key_init(h, Key(len)))
<1>1. len \in Nat
  BY ServicesAssumption
<1>2. IsString(Key(len))
  BY <1>1, BytesFrom1 DEF Key, IsText
<1>3. Mac(h, len) = MacJob(0, h, len, hc)
  BY DEF Mac, MacJob
<1>4. MacStands(h, hc, Key(len), <<>>)
  BY <1>2, MacsFit, MacFresh
<1>5. Message(0) = <<>>
  <2>1. IsText(Message(0), 0)
    BY BytesFrom1 DEF Message
  <2>2. IsText(<<>>, 0)
    BY Empty DEF IsText
  <2> QED
    BY <2>1, <2>2, SameText
<1> HIDE DEF hc
<1> QED
  BY <1>1, <1>3, <1>4, <1>5 DEF MacRight

LEMMA MacGoesOn ==
  ASSUME MacRight(job), MacUpdate
  PROVE  MacRight(job')
<1>0. PICK hc : \E n \in Nat, h \in Macs, key \in Nat :
        job = MacJob(n, h, key, hc) /\ MacStands(h, hc, Key(key), Message(n))
  BY DEF MacRight
<1>1. PICK n \in Nat, h \in Macs, key \in Nat :
        job = MacJob(n, h, key, hc) /\ MacStands(h, hc, Key(key), Message(n))
  BY <1>0
<1>2. job.n = n /\ job.h = h /\ job.hc = hc
  BY <1>1 DEF MacJob
<1>3. PICK k \in 1..MaxPiece :
        job' = [job EXCEPT !.n = @ + k,
                  !.hc = br_hmac_update(job.h, @, Bytes("msg", job.n + 1, job.n + k))]
  BY DEF MacUpdate
<1>4. k \in Nat
  BY ServicesAssumption
<1>5. PICK new : new = br_hmac_update(h, hc, Bytes("msg", n + 1, n + k))
  OBVIOUS
<1>6. job' = [job EXCEPT !.n = n + k, !.hc = new]
  BY <1>2, <1>3, <1>5
<1>7. job' = MacJob(n + k, h, key, new)
  BY <1>1, <1>6 DEF MacJob
<1>8. /\ Message(n) \o Bytes("msg", n + 1, n + k) = Message(n + k)
      /\ IsString(Bytes("msg", n + 1, n + k))
  BY <1>4, MessageGoesOn DEF IsText
<1>9. MacStands(h, new, Key(key), Message(n) \o Bytes("msg", n + 1, n + k))
  BY <1>1, <1>5, <1>8, MacsFit, MacUpdates
<1>10. MacStands(h, new, Key(key), Message(n + k)) /\ n + k \in Nat
  <2>1. PICK m \in Nat : m = n + k
    BY <1>4
  <2>2. MacStands(h, new, Key(key), Message(m))
    BY <1>8, <1>9, <2>1
  <2> QED
    BY <2>1, <2>2
<1> QED
  BY <1>7, <1>10 DEF MacRight

LEMMA MacIs ==
  ASSUME MacRight(job)
  PROVE  /\ br_hmac_out(job.h, job.hc) = Hmac(job.h, Key(job.key), Message(job.n))
         /\ \A max \in 0..MaxPiece : \A len \in 0..max : \A min \in 0..len :
              LET data == Bytes("last", 1, max) IN
              br_hmac_outCT(job.h, job.hc, data, len, min, max) =
                br_hmac_out(job.h, br_hmac_update(job.h, job.hc, SubSeq(data, 1, len)))
<1>0. PICK hc : \E n \in Nat, h \in Macs, key \in Nat :
        job = MacJob(n, h, key, hc) /\ MacStands(h, hc, Key(key), Message(n))
  BY DEF MacRight
<1>1. PICK n \in Nat, h \in Macs, key \in Nat :
        job = MacJob(n, h, key, hc) /\ MacStands(h, hc, Key(key), Message(n))
  BY <1>0
<1>2. job.n = n /\ job.h = h /\ job.hc = hc /\ job.key = key
  BY <1>1 DEF MacJob
<1>3. ForMac(h)
  BY MacsFit
<1>4. br_hmac_out(h, hc) = Hmac(h, Key(key), Message(n))
  BY <1>1, <1>3, MacOut
<1>5. ASSUME NEW max \in 0..MaxPiece, NEW len \in 0..max, NEW min \in 0..len
      PROVE  br_hmac_outCT(h, hc, Bytes("last", 1, max), len, min, max) =
               br_hmac_out(h, br_hmac_update(h, hc, SubSeq(Bytes("last", 1, max), 1, len)))
  <2>1. max \in Nat
    BY ServicesAssumption
  <2>2. IsText(Bytes("last", 1, max), max)
    BY <2>1, BytesFrom1
  <2> QED
    BY <1>1, <1>3, <2>2, MacOutAlike
<1> QED
  BY <1>2, <1>4, <1>5

-----------------------------------------------------------------------------
(* Several functions over one message: their states in one memory.           *)
IsMemory(mem) == mem = [a \in 0..56 |-> mem[a]]

Region(id) == get_state_offset(id)..(get_state_offset(id) + StateLen[id] - 1)

Offsets == <<0, 4, 9, 17, 25, 41>>

LEMMA OffsetIs ==
  ASSUME NEW id \in Ids
  PROVE  /\ get_state_offset(id) = Offsets[id] /\ StateLen[id] \in 4..16
         /\ Offsets[id] \in 0..41 /\ Offsets[id] + StateLen[id] \in 4..57
<1>1. CASE id = 1
  BY <1>1 DEF get_state_offset, Offsets, StateLen
<1>2. CASE id = 2
  BY <1>2 DEF get_state_offset, Offsets, StateLen
<1>3. CASE id = 3
  BY <1>3 DEF get_state_offset, Offsets, StateLen
<1>4. CASE id = 4
  BY <1>4 DEF get_state_offset, Offsets, StateLen
<1>5. CASE id = 5
  BY <1>5 DEF get_state_offset, Offsets, StateLen
<1>6. CASE id = 6
  BY <1>6 DEF get_state_offset, Offsets, StateLen
<1> QED
  BY <1>1, <1>2, <1>3, <1>4, <1>5, <1>6 DEF Ids

LEMMA OneAfterAnother ==
  ASSUME NEW id \in Ids, NEW other \in Ids, id < other
  PROVE  Offsets[id] + StateLen[id] <= Offsets[other]
<1>1. CASE id = 1
  BY <1>1 DEF Offsets, StateLen, Ids
<1>2. CASE id = 2
  BY <1>2 DEF Offsets, StateLen, Ids
<1>3. CASE id = 3
  BY <1>3 DEF Offsets, StateLen, Ids
<1>4. CASE id = 4
  BY <1>4 DEF Offsets, StateLen, Ids
<1>5. CASE id = 5
  BY <1>5 DEF Offsets, StateLen, Ids
<1>6. CASE id = 6
  BY <1>6 DEF Ids
<1> QED
  BY <1>1, <1>2, <1>3, <1>4, <1>5, <1>6 DEF Ids

LEMMA Inside ==
  ASSUME NEW p \in Nat, NEW n \in Nat, p + n <= 57, 4 <= n
  PROVE  /\ p..(p + n - 1) \subseteq 0..56 /\ 0 \in 0..(n - 1)
         /\ \A k \in 0..(n - 1) : p + k \in p..(p + n - 1)
OBVIOUS

LEMMA RegionAt ==
  ASSUME NEW id \in Ids
  PROVE  \E p \in Nat, n \in Nat : /\ p = Offsets[id] /\ n = StateLen[id] /\ 4 <= n /\ p + n <= 57
                                   /\ get_state_offset(id) = p /\ Region(id) = p..(p + n - 1)
<1>1. PICK p, n : p = Offsets[id] /\ n = StateLen[id]
  OBVIOUS
<1>2. p \in 0..41 /\ n \in 4..16 /\ p + n \in 4..57 /\ get_state_offset(id) = p
  BY <1>1, OffsetIs
<1>3. Region(id) = p..(p + n - 1)
  BY <1>1, <1>2 DEF Region
<1>4. p \in Nat /\ n \in Nat /\ 4 <= n /\ p + n <= 57
  BY <1>2
<1> QED
  BY <1>1, <1>2, <1>3, <1>4

\* No word belongs to two functions.
LEMMA RegionsApart ==
  ASSUME NEW id \in Ids, NEW other \in Ids, id # other, NEW a \in Region(id)
  PROVE  a \notin Region(other)
<1>1. PICK p \in Nat, n \in Nat : p = Offsets[id] /\ n = StateLen[id] /\ a \in p..(p + n - 1)
  BY RegionAt
<1>2. PICK q \in Nat, k \in Nat :
        q = Offsets[other] /\ k = StateLen[other] /\ Region(other) = q..(q + k - 1)
  BY RegionAt
<1>3. CASE id < other
  <2>1. p + n <= q
    BY <1>1, <1>2, <1>3, OneAfterAnother
  <2> QED
    BY <1>1, <1>2, <2>1
<1>4. CASE other < id
  <2>1. q + k <= p
    BY <1>1, <1>2, <1>4, OneAfterAnother
  <2> QED
    BY <1>1, <1>2, <2>1
<1>5. id < other \/ other < id
  BY DEF Ids
<1> QED
  BY <1>3, <1>4, <1>5

LEMMA StoredAt ==
  ASSUME NEW mem, NEW id \in Ids, NEW val, IsMemory(mem)
  PROVE  /\ IsMemory(Store(mem, id, val))
         /\ \A a \in Region(id) :
              Store(mem, id, val)[a] = <<id, val, a - get_state_offset(id)>>
         /\ \A a \in (0..56) \ Region(id) : Store(mem, id, val)[a] = mem[a]
<1>1. DOMAIN mem = 0..56
  BY DEF IsMemory
<1>2. Region(id) \subseteq 0..56
  <2>1. PICK p \in Nat, n \in Nat : p = Offsets[id] /\ n = StateLen[id] /\ 4 <= n /\ p + n <= 57
                                    /\ Region(id) = p..(p + n - 1)
    BY RegionAt
  <2>2. p..(p + n - 1) \subseteq 0..56
    <3>1. p + n <= 57 /\ 4 <= n
      BY <2>1
    <3> HIDE <2>1
    <3> QED
      BY <3>1, Inside
  <2> QED
    BY <2>1, <2>2
<1>3. Store(mem, id, val) =
        [a \in 0..56 |-> IF a \in Region(id) THEN <<id, val, a - get_state_offset(id)>>
                         ELSE mem[a]]
  BY <1>1 DEF Store, Region
<1> QED
  BY <1>2, <1>3 DEF IsMemory

LEMMA RegionIs ==
  ASSUME NEW id \in Ids
  PROVE  /\ Region(id) \subseteq 0..56
         /\ \A k \in 0..(StateLen[id] - 1) : get_state_offset(id) + k \in Region(id)
         /\ 0 \in 0..(StateLen[id] - 1) /\ get_state_offset(id) \in Nat
<1>1. PICK p \in Nat, n \in Nat : p = get_state_offset(id) /\ n = StateLen[id] /\ p + n <= 57
                                  /\ 4 <= n /\ Region(id) = p..(p + n - 1)
  BY RegionAt
<1>2. /\ p..(p + n - 1) \subseteq 0..56 /\ 0 \in 0..(n - 1)
      /\ \A k \in 0..(n - 1) : p + k \in p..(p + n - 1)
  BY <1>1, Inside
<1> QED
  BY <1>1, <1>2

\* What was stored is there, and nothing else was touched.
LEMMA LoadStored ==
  ASSUME NEW mem, NEW id \in Ids, NEW val, IsMemory(mem)
  PROVE  /\ IsMemory(Store(mem, id, val)) /\ Load(Store(mem, id, val), id) = val
         /\ \A other \in Ids \ {id} : Load(Store(mem, id, val), other) = Load(mem, other)
<1> DEFINE new == Store(mem, id, val)
<1>1. /\ IsMemory(new)
      /\ \A a \in Region(id) : new[a] = <<id, val, a - get_state_offset(id)>>
      /\ \A a \in (0..56) \ Region(id) : new[a] = mem[a]
  BY StoredAt
<1> HIDE DEF new
<1>2. Load(new, id) = val
  <2>1. PICK p \in Nat : p = get_state_offset(id)
    BY RegionIs
  <2>2. ASSUME NEW k \in 0..(StateLen[id] - 1)
        PROVE  new[p + k] = <<id, val, k>>
    <3>1. StateLen[id] \in Nat
      BY OffsetIs
    <3>2. p + k \in Region(id) /\ p + k - p = k
      BY <2>1, <3>1, RegionIs
    <3> QED
      BY <1>1, <2>1, <3>2
  <2>3. new[p] = <<id, val, 0>>
    <3>1. new[p + 0] = <<id, val, 0>>
      BY <2>2, RegionIs
    <3> QED
      BY <3>1
  <2> QED
    BY <2>1, <2>2, <2>3 DEF Load
<1>3. ASSUME NEW other \in Ids \ {id}
      PROVE  Load(new, other) = Load(mem, other)
  <2>1. ASSUME NEW a \in Region(other)
        PROVE  new[a] = mem[a]
    <3>1. a \notin Region(id) /\ a \in 0..56
      BY RegionsApart, RegionIs
    <3> QED
      BY <1>1, <3>1
  <2>2. PICK p \in Nat : p = get_state_offset(other)
    BY RegionIs
  <2>3. \A k \in 0..(StateLen[other] - 1) : new[p + k] = mem[p + k]
    BY <2>1, <2>2, RegionIs
  <2>4. new[p] = mem[p]
    <3>1. new[p + 0] = mem[p + 0]
      BY <2>3, RegionIs
    <3> QED
      BY <3>1
  <2> QED
    BY <2>2, <2>3, <2>4 DEF Load
<1> QED
  BY <1>1, <1>2, <1>3 DEF new

-----------------------------------------------------------------------------
(* The longest block is a multiple of every block.                           *)
LEMMA ImplFacts ==
  ASSUME NEW id \in DOMAIN Impl
  PROVE  Sound(Impl[id]) /\ id \in Ids /\ Impl[id].id = id /\ Impl[id].block \in Nat \ {0}
         /\ ForMac(Impl[id])
<1>1. Sound(Impl[id]) /\ id \in Ids /\ Impl[id].id = id /\ HashLen <= Impl[id].block
  BY HashAssumption DEF Sound
<1> QED
  BY <1>1, SoundFacts DEF ForMac

LEMMA SomeBound ==
  \E n \in Nat : \A id \in DOMAIN Impl : Impl[id].block <= n
<1> DEFINE b(i) == IF i \in DOMAIN Impl THEN Impl[i].block ELSE 0
<1>1. b(1) \in Nat /\ b(2) \in Nat /\ b(3) \in Nat /\ b(4) \in Nat /\ b(5) \in Nat /\ b(6) \in Nat
  BY ImplFacts
<1>2. ASSUME NEW id \in DOMAIN Impl
      PROVE  Impl[id].block = b(id) /\ id \in 1..6
  BY ImplFacts DEF Ids
<1> HIDE DEF b
<1>3. PICK n \in Nat : n = b(1) + b(2) + b(3) + b(4) + b(5) + b(6)
  BY <1>1
<1>4. ASSUME NEW i \in 1..6
      PROVE  b(i) <= n
  <2>1. i = 1 \/ i = 2 \/ i = 3 \/ i = 4 \/ i = 5 \/ i = 6
    OBVIOUS
  <2> QED
    BY <1>1, <1>3, <2>1
<1> QED
  BY <1>2, <1>4

LEMMA LongestIs ==
  /\ LongestBlock \in Nat \ {0}
  /\ \A id \in DOMAIN Impl : Impl[id].block <= LongestBlock
                             /\ LongestBlock % Impl[id].block = 0
<1> DEFINE T == {n \in Nat : \A id \in DOMAIN Impl : Impl[id].block <= n}
           P(n) == \A id \in DOMAIN Impl : Impl[id].block <= n
           S == {Impl[id].block : id \in DOMAIN Impl}
<1>1. PICK n \in T : \A y \in T : n <= y
  <2>1. T \subseteq Nat /\ T # {}
    BY SomeBound
  <2> HIDE DEF T
  <2> QED
    BY <2>1, Least
<1>2. \E id \in DOMAIN Impl : Impl[id].block = n
  <2> SUFFICES ASSUME \A id \in DOMAIN Impl : Impl[id].block # n
               PROVE  FALSE
    OBVIOUS
  <2>1. \A id \in DOMAIN Impl : Impl[id].block <= n - 1 /\ Impl[id].block \in Nat \ {0}
    BY <1>1, ImplFacts
  <2>2. 1 \in DOMAIN Impl
    BY HashAssumption
  <2>3. n - 1 \in T
    BY <1>1, <2>1, <2>2
  <2> QED
    BY <1>1, <2>3
<1>3. n \in S /\ P(n)
  BY <1>1, <1>2
<1>4. LongestBlock = CHOOSE m \in S : P(m)
  BY DEF LongestBlock
<1> HIDE DEF P, S
<1>5. LongestBlock \in S /\ P(LongestBlock)
  BY <1>3, <1>4
<1>6. PICK id \in DOMAIN Impl : LongestBlock = Impl[id].block
  BY <1>5 DEF S
<1>7. \A other \in DOMAIN Impl : Impl[other].block <= LongestBlock
  BY <1>5 DEF P
<1>8. LongestBlock \in Nat \ {0}
  BY <1>6, ImplFacts
<1>9. ASSUME NEW other \in DOMAIN Impl
      PROVE  LongestBlock % Impl[other].block = 0
  <2>1. Impl[id].block >= Impl[other].block
    BY <1>6, <1>7, <1>8, ImplFacts
  <2> QED
    BY <1>6, <2>1, HashAssumption
<1> QED
  BY <1>7, <1>8, <1>9

LEMMA WholeForEach ==
  ASSUME NEW id \in DOMAIN Impl, NEW q \in Nat
  PROVE  (LongestBlock * q) % Impl[id].block = 0
<1>1. PICK b \in Nat \ {0} : b = Impl[id].block
  BY ImplFacts
<1>2. PICK m \in Nat \ {0} : m = LongestBlock
  BY LongestIs
<1>3. PICK k \in Nat, r \in 0..(b - 1) : m = b * k + r /\ r = m % b
  BY <1>2, Parts
<1>4. r = 0
  BY <1>1, <1>2, <1>3, LongestIs
<1>5. m = b * k
  BY <1>3, <1>4
<1>6. PICK x \in Nat : x = k * q
  OBVIOUS
<1>7. m * q = b * x + 0
  BY <1>5, <1>6
<1>8. m * q \in Int /\ 0 \in 0..(b - 1)
  OBVIOUS
<1>9. 0 = (m * q) % b
  BY <1>7, <1>8, Quotient
<1> QED
  BY <1>1, <1>2, <1>9

\* The states are those after a message of whole blocks.
States(mem, msg) ==
  IsMemory(mem) /\ \A id \in DOMAIN Impl : Load(mem, id) = Blocks(Impl[id], msg)

AbsorbedBy(prev, id, buf, count) ==
  IF id \notin DOMAIN Impl THEN prev
  ELSE Store(prev, id,
         br_hash_update(Impl[id],
           br_hash_set_state(br_hash_init(Impl[id]), Load(prev, id), count - Len(buf)), buf).val)

IsAbsorb(f, mem, buf, count, n) ==
  f = [id \in 0..n |-> IF id = 0 THEN mem ELSE AbsorbedBy(f[id - 1], id, buf, count)]

LEMMA AbsorbExists ==
  ASSUME NEW mem, NEW buf, NEW count
  PROVE  \A n \in Nat : \E f : IsAbsorb(f, mem, buf, count, n)
<1> DEFINE S == {n \in Nat : \E f : IsAbsorb(f, mem, buf, count, n)}
<1>1. 0 \in S
  <2> DEFINE f == [u \in 0..0 |-> mem]
  <2>1. IsAbsorb(f, mem, buf, count, 0)
    BY DEF IsAbsorb
  <2> QED
    BY <2>1
<1>2. ASSUME NEW n \in Nat, n \in S
      PROVE  n + 1 \in S
  <2>1. PICK f : IsAbsorb(f, mem, buf, count, n)
    BY <1>2
  <2> DEFINE g == [u \in 0..(n + 1) |->
                     IF u = n + 1 THEN AbsorbedBy(f[n], n + 1, buf, count) ELSE f[u]]
             e == [u \in 0..(n + 1) |-> IF u = 0 THEN mem
                     ELSE AbsorbedBy(g[u - 1], u, buf, count)]
  <2>2. ASSUME NEW u \in 0..(n + 1)
        PROVE  g[u] = IF u = 0 THEN mem ELSE AbsorbedBy(g[u - 1], u, buf, count)
    <3>1. CASE u = n + 1
      <4>1. u - 1 = n /\ n \in 0..(n + 1) /\ n # n + 1 /\ u # 0
        BY <3>1
      <4> QED
        BY <3>1, <4>1
    <3>2. CASE u # n + 1
      <4>1. u \in 0..n /\ (u # 0 => u - 1 \in 0..(n + 1) /\ u - 1 # n + 1)
        BY <3>2
      <4>2. f[u] = IF u = 0 THEN mem ELSE AbsorbedBy(f[u - 1], u, buf, count)
        BY <2>1, <4>1 DEF IsAbsorb
      <4> QED
        BY <3>2, <4>1, <4>2
    <3> QED
      BY <3>1, <3>2
  <2>3. g = e
    <3>1. g = [u \in 0..(n + 1) |-> g[u]]
      OBVIOUS
    <3> HIDE DEF g
    <3> QED
      BY <2>2, <3>1, Zenon
  <2>4. IsAbsorb(g, mem, buf, count, n + 1)
    BY <2>3, Zenon DEF IsAbsorb
  <2> QED
    BY <2>4
<1> HIDE DEF S
<1>3. \A n \in Nat : n \in S
  BY <1>1, <1>2, Induction
<1> QED
  BY <1>3 DEF S

LEMMA AbsorbIs ==
  ASSUME NEW mem, NEW buf, NEW count
  PROVE  \E f : IsAbsorb(f, mem, buf, count, 6) /\ Absorb(Impl, mem, buf, count) = f[6]
<1> DEFINE P(f) == IsAbsorb(f, mem, buf, count, 6)
<1>1. PICK a : a = CHOOSE f : P(f)
  OBVIOUS
<1>2. Absorb(Impl, mem, buf, count) = a[6]
  BY <1>1 DEF Absorb, IsAbsorb, AbsorbedBy
<1>3. \E f : P(f)
  BY AbsorbExists
<1> HIDE DEF P
<1>4. P(a)
  BY <1>1, <1>3
<1> QED
  BY <1>2, <1>4 DEF P

\* What one function makes of a full buffer.
LEMMA OneAbsorbs ==
  ASSUME NEW id \in DOMAIN Impl, NEW mem, NEW msg, NEW n, NEW q \in Nat, NEW buf, NEW count,
         IsMemory(mem), Load(mem, id) = Blocks(Impl[id], msg), IsText(msg, n),
         n = LongestBlock * q, IsText(buf, LongestBlock), count = n + LongestBlock
  PROVE  /\ IsMemory(AbsorbedBy(mem, id, buf, count))
         /\ Load(AbsorbedBy(mem, id, buf, count), id) = Blocks(Impl[id], msg \o buf)
         /\ \A other \in Ids \ {id} :
              Load(AbsorbedBy(mem, id, buf, count), other) = Load(mem, other)
<1>1. PICK h : h = Impl[id] /\ Sound(h)
  BY ImplFacts
<1>2. n % h.block = 0
  BY <1>1, WholeForEach
<1>3. count - Len(buf) = n /\ IsString(buf)
  BY LongestIs DEF IsText
<1> DEFINE cc == br_hash_set_state(br_hash_init(h), Blocks(h, msg), n)
           val == br_hash_update(h, cc, buf).val
<1>4. Stands(h, cc, msg)
  BY <1>1, <1>2, StateStands
<1>5. AbsorbedBy(mem, id, buf, count) = Store(mem, id, val)
  BY <1>1, <1>3 DEF AbsorbedBy
<1> HIDE DEF cc
<1>6. Stands(h, br_hash_update(h, cc, buf), msg \o buf)
  BY <1>1, <1>3, <1>4, UpdateStands
<1>7. val = Blocks(h, msg \o buf)
  BY <1>6 DEF Stands
<1> HIDE DEF val
<1> QED
  BY <1>1, <1>5, <1>7, ImplFacts, LoadStored

LEMMA Absorbs ==
  ASSUME NEW mem, NEW msg, NEW n, NEW q \in Nat, NEW buf, NEW count,
         States(mem, msg), IsText(msg, n),
         n = LongestBlock * q, IsText(buf, LongestBlock), count = n + LongestBlock
  PROVE  States(Absorb(Impl, mem, buf, count), msg \o buf)
<1>1. PICK f : IsAbsorb(f, mem, buf, count, 6) /\ Absorb(Impl, mem, buf, count) = f[6]
  BY AbsorbIs
<1> DEFINE Upto(u) ==
             /\ IsMemory(f[u])
             /\ \A id \in DOMAIN Impl :
                  Load(f[u], id) = IF id <= u THEN Blocks(Impl[id], msg \o buf)
                                   ELSE Blocks(Impl[id], msg)
           S == {u \in Nat : u <= 6 => Upto(u)}
<1>2. 0 \in S
  <2>1. f[0] = mem
    BY <1>1 DEF IsAbsorb
  <2>2. \A id \in DOMAIN Impl : ~(id <= 0)
    BY ImplFacts DEF Ids
  <2> QED
    BY <2>1, <2>2 DEF States
<1>3. ASSUME NEW u \in Nat, u \in S
      PROVE  u + 1 \in S
  <2>1. PICK next \in Nat : next = u + 1
    OBVIOUS
  <2>2. ASSUME next <= 6
        PROVE  Upto(next)
    <3>1. IsMemory(f[u]) /\ \A id \in DOMAIN Impl :
                  Load(f[u], id) = IF id <= u THEN Blocks(Impl[id], msg \o buf)
                                   ELSE Blocks(Impl[id], msg)
      BY <1>3, <2>1, <2>2
    <3>2. f[next] = AbsorbedBy(f[u], next, buf, count)
      <4>1. next \in 0..6 /\ next # 0 /\ next - 1 = u
        BY <2>1, <2>2
      <4> QED
        BY <1>1, <4>1 DEF IsAbsorb
    <3>3. \A id \in DOMAIN Impl : id \in Nat /\ (id <= next <=> id <= u \/ id = next)
      BY <2>1, ImplFacts DEF Ids
    <3> HIDE DEF S
    <3>4. CASE next \in DOMAIN Impl
      <4>1. Load(f[u], next) = Blocks(Impl[next], msg) /\ next \in Ids
        BY <2>1, <3>1, <3>4, ImplFacts
      <4>2. /\ IsMemory(f[next])
            /\ Load(f[next], next) = Blocks(Impl[next], msg \o buf)
            /\ \A other \in Ids \ {next} : Load(f[next], other) = Load(f[u], other)
        BY <3>1, <3>2, <3>4, <4>1, OneAbsorbs
      <4>3. ASSUME NEW id \in DOMAIN Impl
            PROVE  Load(f[next], id) = IF id <= next THEN Blocks(Impl[id], msg \o buf)
                                       ELSE Blocks(Impl[id], msg)
        <5>1. CASE id = next
          BY <3>3, <4>2, <5>1
        <5>2. CASE id # next
          <6>1. Load(f[next], id) = Load(f[u], id)
            BY <4>2, <5>2, ImplFacts
          <6> QED
            BY <3>1, <3>3, <5>2, <6>1
        <5> QED
          BY <5>1, <5>2
      <4> QED
        BY <4>2, <4>3
    <3>5. CASE next \notin DOMAIN Impl
      <4>1. f[next] = f[u]
        BY <3>2, <3>5 DEF AbsorbedBy
      <4>2. \A id \in DOMAIN Impl : id <= next <=> id <= u
        BY <3>3, <3>5
      <4> QED
        BY <3>1, <4>1, <4>2
    <3> QED
      BY <3>4, <3>5
  <2> QED
    BY <2>1, <2>2
<1> HIDE DEF S
<1>4. \A u \in Nat : u \in S
  BY <1>2, <1>3, Induction
<1>5. Upto(6)
  BY <1>4 DEF S
<1>6. \A id \in DOMAIN Impl : id <= 6
  BY ImplFacts DEF Ids
<1>7. States(f[6], msg \o buf)
  BY <1>5, <1>6 DEF States
<1> QED
  BY <1>1, <1>7

\* At first each function has its initial state.
ClearedBy(prev, id) == IF id \in DOMAIN Impl THEN Store(prev, id, <<>>) ELSE prev

IsInit(f, first, n) == f = [id \in 0..n |-> IF id = 0 THEN first ELSE ClearedBy(f[id - 1], id)]

LEMMA InitExists ==
  ASSUME NEW first
  PROVE  \A n \in Nat : \E f : IsInit(f, first, n)
<1> DEFINE S == {n \in Nat : \E f : IsInit(f, first, n)}
<1>1. 0 \in S
  <2> DEFINE f == [u \in 0..0 |-> first]
  <2>1. IsInit(f, first, 0)
    BY DEF IsInit
  <2> QED
    BY <2>1
<1>2. ASSUME NEW n \in Nat, n \in S
      PROVE  n + 1 \in S
  <2>1. PICK f : IsInit(f, first, n)
    BY <1>2
  <2> DEFINE g == [u \in 0..(n + 1) |->
                     IF u = n + 1 THEN ClearedBy(f[n], n + 1) ELSE f[u]]
             e == [u \in 0..(n + 1) |-> IF u = 0 THEN first
                     ELSE ClearedBy(g[u - 1], u)]
  <2>2. ASSUME NEW u \in 0..(n + 1)
        PROVE  g[u] = IF u = 0 THEN first ELSE ClearedBy(g[u - 1], u)
    <3>1. CASE u = n + 1
      <4>1. u - 1 = n /\ n \in 0..(n + 1) /\ n # n + 1 /\ u # 0
        BY <3>1
      <4> QED
        BY <3>1, <4>1
    <3>2. CASE u # n + 1
      <4>1. u \in 0..n /\ (u # 0 => u - 1 \in 0..(n + 1) /\ u - 1 # n + 1)
        BY <3>2
      <4>2. f[u] = IF u = 0 THEN first ELSE ClearedBy(f[u - 1], u)
        BY <2>1, <4>1 DEF IsInit
      <4> QED
        BY <3>2, <4>1, <4>2
    <3> QED
      BY <3>1, <3>2
  <2>3. g = e
    <3>1. g = [u \in 0..(n + 1) |-> g[u]]
      OBVIOUS
    <3> HIDE DEF g
    <3> QED
      BY <2>2, <3>1, Zenon
  <2>4. IsInit(g, first, n + 1)
    BY <2>3, Zenon DEF IsInit
  <2> QED
    BY <2>4
<1> HIDE DEF S
<1>3. \A n \in Nat : n \in S
  BY <1>1, <1>2, Induction
<1> QED
  BY <1>3 DEF S

LEMMA InitIs ==
  \E f, first :
    /\ IsMemory(first) /\ IsInit(f, first, 6)
    /\ br_multihash_init(Impl, LongestBlock) =
         [count |-> 0, buf |-> [i \in 1..LongestBlock |-> <<"junk">>], mem |-> f[6]]
<1> DEFINE first == [a \in 0..56 |-> <<0, <<>>, a>>]
           P(f) == IsInit(f, first, 6)
<1>1. PICK a : a = CHOOSE f : P(f)
  OBVIOUS
<1>2. br_multihash_init(Impl, LongestBlock) =
         [count |-> 0, buf |-> [i \in 1..LongestBlock |-> <<"junk">>], mem |-> a[6]]
  BY <1>1 DEF br_multihash_init, IsInit, ClearedBy
<1>3. \E f : P(f)
  BY InitExists
<1>4. IsMemory(first)
  BY DEF IsMemory
<1> HIDE DEF P
<1>5. P(a)
  BY <1>1, <1>3
<1> QED
  BY <1>2, <1>4, <1>5 DEF P

LEMMA NoBlocks ==
  ASSUME NEW h, Sound(h)
  PROVE  Blocks(h, <<>>) = <<>>
<1>1. Stands(h, br_hash_init(h), <<>>)
  BY EmptyStands
<1> QED
  BY <1>1 DEF Stands, br_hash_init

LEMMA ClearStates ==
  ASSUME NEW f, NEW first, IsMemory(first), IsInit(f, first, 6)
  PROVE  States(f[6], <<>>)
<1> DEFINE Upto(u) == /\ IsMemory(f[u])
                      /\ \A id \in DOMAIN Impl : id <= u => Load(f[u], id) = <<>>
           S == {u \in Nat : u <= 6 => Upto(u)}
<1>2. 0 \in S
  <2>1. f[0] = first
    BY DEF IsInit
  <2>2. \A id \in DOMAIN Impl : ~(id <= 0)
    BY ImplFacts DEF Ids
  <2> QED
    BY <2>1, <2>2
<1>3. ASSUME NEW u \in Nat, u \in S
      PROVE  u + 1 \in S
  <2>1. PICK next \in Nat : next = u + 1
    OBVIOUS
  <2>2. ASSUME next <= 6
        PROVE  Upto(next)
    <3>1. IsMemory(f[u]) /\ \A id \in DOMAIN Impl : id <= u => Load(f[u], id) = <<>>
      BY <1>3, <2>1, <2>2
    <3>2. f[next] = ClearedBy(f[u], next)
      <4>1. next \in 0..6 /\ next # 0 /\ next - 1 = u
        BY <2>1, <2>2
      <4> QED
        BY <4>1 DEF IsInit
    <3>3. \A id \in DOMAIN Impl : id \in Nat /\ (id <= next <=> id <= u \/ id = next)
      BY <2>1, ImplFacts DEF Ids
    <3> HIDE DEF S
    <3>4. CASE next \in DOMAIN Impl
      <4>1. /\ IsMemory(f[next]) /\ Load(f[next], next) = <<>>
            /\ \A other \in Ids \ {next} : Load(f[next], other) = Load(f[u], other)
        BY <3>1, <3>2, <3>4, ImplFacts, LoadStored DEF ClearedBy
      <4>2. ASSUME NEW id \in DOMAIN Impl, id <= next
            PROVE  Load(f[next], id) = <<>>
        <5>1. CASE id = next
          BY <4>1, <5>1
        <5>2. CASE id # next
          BY <3>1, <3>3, <4>1, <4>2, <5>2, ImplFacts
        <5> QED
          BY <5>1, <5>2
      <4> QED
        BY <4>1, <4>2
    <3>5. CASE next \notin DOMAIN Impl
      <4>1. f[next] = f[u]
        BY <3>2, <3>5 DEF ClearedBy
      <4> QED
        BY <3>1, <3>3, <3>5, <4>1
    <3> QED
      BY <3>4, <3>5
  <2> QED
    BY <2>1, <2>2
<1> HIDE DEF S
<1>4. \A u \in Nat : u \in S
  BY <1>2, <1>3, Induction
<1>5. Upto(6)
  BY <1>4 DEF S
<1>6. \A id \in DOMAIN Impl : id <= 6 /\ Blocks(Impl[id], <<>>) = <<>>
  BY ImplFacts, NoBlocks DEF Ids
<1> QED
  BY <1>5, <1>6 DEF States

-----------------------------------------------------------------------------
(* A context of several functions: the whole blocks of the longest kind are  *)
(* in every state, the rest is in the buffer.                                *)
MultiContext(mc, buf, mem, q, r) ==
  mc = [count |-> LongestBlock * q + r, buf |-> buf, mem |-> mem]

Waiting(buf, mem, q, r, head, tail) ==
  /\ q \in Nat /\ r \in 0..(LongestBlock - 1)
  /\ IsText(buf, LongestBlock) /\ IsText(head, LongestBlock * q) /\ IsText(tail, r)
  /\ States(mem, head) /\ \A i \in 1..r : buf[i] = tail[i]

MultiStands(mc, msg) ==
  \E buf, mem, q, r, head, tail :
    /\ MultiContext(mc, buf, mem, q, r) /\ Waiting(buf, mem, q, r, head, tail)
    /\ msg = head \o tail

\* The arithmetic of a buffer.
LEMMA NextInBuffer ==
  ASSUME NEW q \in Nat, NEW r \in 0..(LongestBlock - 1)
  PROVE  /\ (LongestBlock * q + r) % LongestBlock = r
         /\ LongestBlock * q \in Nat /\ LongestBlock * q + r \in Nat
         /\ r + 1 = LongestBlock =>
              LongestBlock * q + r + 1 = LongestBlock * (q + 1)
              /\ LongestBlock * q + r + 1 = LongestBlock * q + LongestBlock
              /\ (LongestBlock * q + r + 1) % LongestBlock = 0
         /\ r + 1 # LongestBlock =>
              (LongestBlock * q + r + 1) % LongestBlock = r + 1
<1>1. PICK m \in Nat \ {0} : m = LongestBlock
  BY LongestIs
<1>2. PICK x \in Nat : x = m * q
  OBVIOUS
<1>3. m * (q + 1) = x + m /\ q + 1 \in Nat
  BY <1>2
<1>4. r = (x + r) % m
  BY <1>1, <1>2, Quotient
<1>5. ASSUME r + 1 = m
      PROVE  x + r + 1 = m * (q + 1) /\ x + r + 1 = x + m /\ (x + r + 1) % m = 0
  <2>1. x + r + 1 = m * (q + 1) /\ x + r + 1 = x + m
    BY <1>1, <1>3, <1>5
  <2>2. PICK y \in Nat : y = x + r + 1 /\ y = m * (q + 1) + 0
    BY <1>1, <2>1
  <2>3. 0 = y % m
    <3>1. 0 \in 0..(m - 1) /\ y \in Int /\ q + 1 \in Int
      OBVIOUS
    <3> QED
      BY <2>2, <3>1, Quotient
  <2> QED
    BY <2>1, <2>2, <2>3
<1>6. ASSUME r + 1 # m
      PROVE  (x + r + 1) % m = r + 1
  <2>1. PICK s \in 0..(m - 1) : s = r + 1
    BY <1>1, <1>6
  <2>2. PICK y \in Nat : y = x + r + 1 /\ y = m * q + s
    BY <1>1, <1>2, <2>1
  <2>3. s = y % m
    <3>1. y \in Int /\ q \in Int /\ y = m * q + s
      BY <2>2
    <3> HIDE <2>2
    <3> QED
      BY <3>1, Quotient
  <2> QED
    BY <2>1, <2>2, <2>3
<1> QED
  BY <1>1, <1>2, <1>4, <1>5, <1>6

\* One byte goes to the buffer; when that is full, each function takes it.
PutByte(s, byte) ==
  LET buf == [s.buf EXCEPT ![(s.count % Len(s.buf)) + 1] = byte]
      n == s.count + 1
  IN  [count |-> n, buf |-> buf,
       mem |-> IF n % Len(buf) = 0 THEN Absorb(Impl, s.mem, buf, n) ELSE s.mem]

IsPut(f, mc, data, n) == f = [u \in 0..n |-> IF u = 0 THEN mc ELSE PutByte(f[u - 1], data[u])]

LEMMA PutExists ==
  ASSUME NEW mc, NEW data
  PROVE  \A n \in Nat : \E f : IsPut(f, mc, data, n)
<1> DEFINE S == {n \in Nat : \E f : IsPut(f, mc, data, n)}
<1>1. 0 \in S
  <2> DEFINE f == [u \in 0..0 |-> mc]
  <2>1. IsPut(f, mc, data, 0)
    BY DEF IsPut
  <2> QED
    BY <2>1
<1>2. ASSUME NEW n \in Nat, n \in S
      PROVE  n + 1 \in S
  <2>1. PICK f : IsPut(f, mc, data, n)
    BY <1>2
  <2> DEFINE g == [u \in 0..(n + 1) |->
                     IF u = n + 1 THEN PutByte(f[n], data[n + 1]) ELSE f[u]]
             e == [u \in 0..(n + 1) |-> IF u = 0 THEN mc
                     ELSE PutByte(g[u - 1], data[u])]
  <2>2. ASSUME NEW u \in 0..(n + 1)
        PROVE  g[u] = IF u = 0 THEN mc ELSE PutByte(g[u - 1], data[u])
    <3>1. CASE u = n + 1
      <4>1. u - 1 = n /\ n \in 0..(n + 1) /\ n # n + 1 /\ u # 0
        BY <3>1
      <4> QED
        BY <3>1, <4>1
    <3>2. CASE u # n + 1
      <4>1. u \in 0..n /\ (u # 0 => u - 1 \in 0..(n + 1) /\ u - 1 # n + 1)
        BY <3>2
      <4>2. f[u] = IF u = 0 THEN mc ELSE PutByte(f[u - 1], data[u])
        BY <2>1, <4>1 DEF IsPut
      <4> QED
        BY <3>2, <4>1, <4>2
    <3> QED
      BY <3>1, <3>2
  <2>3. g = e
    <3>1. g = [u \in 0..(n + 1) |-> g[u]]
      OBVIOUS
    <3> HIDE DEF g
    <3> QED
      BY <2>2, <3>1, Zenon
  <2>4. IsPut(g, mc, data, n + 1)
    BY <2>3, Zenon DEF IsPut
  <2> QED
    BY <2>4
<1> HIDE DEF S
<1>3. \A n \in Nat : n \in S
  BY <1>1, <1>2, Induction
<1> QED
  BY <1>3 DEF S

LEMMA PutIs ==
  ASSUME NEW mc, NEW data, NEW n, n = Len(data), n \in Nat
  PROVE  \E f : IsPut(f, mc, data, n) /\ br_multihash_update(Impl, mc, data) = f[n]
<1> DEFINE P(f) == IsPut(f, mc, data, Len(data))
<1>1. PICK a : a = CHOOSE f : P(f)
  OBVIOUS
<1>2. br_multihash_update(Impl, mc, data) = a[Len(data)]
  BY <1>1 DEF br_multihash_update, IsPut, PutByte
<1>3. \E f : P(f)
  BY PutExists
<1> HIDE DEF P
<1>4. P(a)
  BY <1>1, <1>3
<1> QED
  BY <1>2, <1>4 DEF P

EditedAt(new, buf, n, i, byte) ==
  IsText(new, n) /\ new[i] = byte /\ \A k \in 1..n : k # i => new[k] = buf[k]

LEMMA InTheBuffer ==
  ASSUME NEW buf, NEW n, NEW i, NEW byte, IsText(buf, n), i \in 1..n
  PROVE  EditedAt([buf EXCEPT ![i] = byte], buf, n, i, byte)
<1> DEFINE b == [buf EXCEPT ![i] = byte]
<1>1. n \in Nat /\ buf = [k \in 1..n |-> buf[k]]
  BY StringFacts DEF IsText
<1>2. b = [k \in 1..n |-> IF k = i THEN byte ELSE buf[k]]
  BY <1>1
<1> HIDE DEF b
<1>3. b = [k \in 1..n |-> b[k]] /\ b[i] = byte /\ \A k \in 1..n : k # i => b[k] = buf[k]
  BY <1>2
<1>4. IsString(b) /\ Len(b) = n
  BY <1>1, <1>3, StringOf
<1> QED
  <2>1. EditedAt(b, buf, n, i, byte)
    BY <1>1, <1>3, <1>4 DEF IsText, EditedAt
  <2> QED
    BY <2>1 DEF b

LEMMA PutsOne ==
  ASSUME NEW mc, NEW msg, NEW byte, MultiStands(mc, msg)
  PROVE  MultiStands(PutByte(mc, byte), msg \o <<byte>>)
<1>1. PICK buf, mem, q, r, head, tail :
        /\ MultiContext(mc, buf, mem, q, r) /\ Waiting(buf, mem, q, r, head, tail)
        /\ msg = head \o tail
  BY DEF MultiStands
<1>2. /\ q \in Nat /\ r \in 0..(LongestBlock - 1)
      /\ IsText(buf, LongestBlock) /\ IsText(head, LongestBlock * q) /\ IsText(tail, r)
      /\ States(mem, head) /\ \A i \in 1..r : buf[i] = tail[i]
  BY <1>1 DEF Waiting
<1>3. PICK m \in Nat \ {0} : m = LongestBlock
  BY LongestIs
<1>4. PICK at : at = r + 1 /\ at \in 1..m
  BY <1>2, <1>3
<1>5. PICK n : n = LongestBlock * q + r + 1
  OBVIOUS
<1> DEFINE new == [buf EXCEPT ![at] = byte]
           rest == tail \o <<byte>>
           to == IF n % LongestBlock = 0 THEN Absorb(Impl, mem, new, n) ELSE mem
<1>6. /\ IsText(new, m) /\ new[at] = byte
      /\ \A k \in 1..m : k # at => new[k] = buf[k]
  <2>1. IsText(buf, m)
    BY <1>2, <1>3
  <2> QED
    <3>1. EditedAt(new, buf, m, at, byte)
      BY <1>4, <2>1, InTheBuffer
    <3> HIDE DEF new
    <3> QED
      BY <3>1 DEF EditedAt
<1>7. PutByte(mc, byte) = [count |-> n, buf |-> new, mem |-> to]
  <2>1. mc.count = LongestBlock * q + r /\ mc.buf = buf /\ mc.mem = mem
    BY <1>1 DEF MultiContext
  <2>2. Len(buf) = LongestBlock /\ Len(new) = LongestBlock
    BY <1>2, <1>3, <1>6 DEF IsText
  <2>3. (LongestBlock * q + r) % LongestBlock = r
    BY <1>2, NextInBuffer
  <2> QED
    BY <1>4, <1>5, <2>1, <2>2, <2>3 DEF PutByte
<1> HIDE DEF new
<1>8. IsText(rest, at) /\ \A i \in 1..at : new[i] = rest[i]
  <2>1. IsText(<<byte>>, 1) /\ <<byte>>[1] = byte
    BY Single DEF IsText
  <2>2. Joint(rest, tail, r, <<byte>>, 1)
    BY <1>2, <2>1, JointText
  <2> HIDE DEF rest
  <2>3. ASSUME NEW i \in 1..at
        PROVE  new[i] = rest[i]
    <3>1. CASE i = at
      <4>1. 1 \in 1..1
        OBVIOUS
      <4>2. rest[r + 1] = <<byte>>[1]
        BY <2>2, <4>1 DEF Joint
      <4> QED
        BY <1>4, <1>6, <2>1, <3>1, <4>2
    <3>2. CASE i # at
      <4>1. i \in 1..r /\ i \in 1..m
        BY <1>2, <1>3, <1>4, <3>2
      <4>2. rest[i] = tail[i]
        BY <2>2, <4>1 DEF Joint
      <4> QED
        BY <1>2, <1>6, <3>2, <4>1, <4>2
    <3> QED
      BY <3>1, <3>2
  <2>4. IsText(rest, at)
    BY <1>4, <2>2 DEF Joint
  <2> QED
    BY <2>3, <2>4
<1>9. msg \o <<byte>> = head \o rest
  <2>1. IsString(<<byte>>) /\ IsString(head) /\ IsString(tail)
    BY <1>2, Single DEF IsText
  <2> QED
    BY <1>1, <2>1, JoinedTwice
<1>10. CASE at = m
  <2>1. /\ n = LongestBlock * (q + 1) /\ n = LongestBlock * q + LongestBlock
        /\ n % LongestBlock = 0
    BY <1>2, <1>3, <1>4, <1>5, <1>10, NextInBuffer
  <2>2. rest = new
    <3> HIDE DEF rest
    <3> QED
      BY <1>6, <1>8, <1>10, SameText
  <2>3. States(to, head \o new)
    BY <1>2, <1>3, <1>6, <2>1, Absorbs
  <2> HIDE DEF rest, to
  <2>4. PICK all : all = head \o rest
    OBVIOUS
  <2>5. IsText(all, n)
    <3>1. Joint(all, head, LongestBlock * q, rest, at)
      BY <1>2, <1>8, <2>4, JointText
    <3> QED
      BY <1>3, <1>10, <2>1, <3>1 DEF Joint
  <2>6. PICK q1 \in Nat : q1 = q + 1 /\ n = LongestBlock * q1
    BY <1>2, <2>1
  <2>7. IsText(<<>>, 0) /\ all \o <<>> = all
    BY <2>5, Empty DEF IsText
  <2>8. Waiting(new, to, q1, 0, all, <<>>)
    <3>1. 0 \in 0..(LongestBlock - 1) /\ \A i \in 1..0 : FALSE
      BY <1>3
    <3> QED
      BY <1>3, <1>6, <2>2, <2>3, <2>4, <2>5, <2>6, <2>7, <3>1 DEF Waiting
  <2>9. MultiContext(PutByte(mc, byte), new, to, q1, 0)
    <3>1. n + 0 = n
      BY <2>6, LongestIs
    <3>2. n = LongestBlock * q1 + 0
      BY <2>6, <3>1
    <3> QED
      BY <1>7, <3>2 DEF MultiContext
  <2> QED
    BY <1>9, <2>4, <2>7, <2>8, <2>9 DEF MultiStands
<1>11. CASE at # m
  <2>1. n % LongestBlock = at /\ at # 0 /\ at \in 0..(LongestBlock - 1)
    BY <1>2, <1>3, <1>4, <1>5, <1>11, NextInBuffer
  <2>2. to = mem
    BY <2>1
  <2> HIDE DEF rest, to
  <2>3. n = LongestBlock * q + at
    <3>1. LongestBlock * q \in Nat
      BY <1>2, NextInBuffer
    <3>2. PICK x \in Nat : x = LongestBlock * q
      BY <3>1
    <3> QED
      BY <1>2, <1>4, <1>5, <3>2
  <2>4. Waiting(new, to, q, at, head, rest)
    BY <1>2, <1>3, <1>6, <1>8, <2>1, <2>2 DEF Waiting
  <2>5. MultiContext(PutByte(mc, byte), new, to, q, at)
    BY <1>7, <2>3 DEF MultiContext
  <2> QED
    BY <1>9, <2>4, <2>5 DEF MultiStands
<1> QED
  BY <1>10, <1>11

\* Byte by byte a piece of the message goes in.
LEMMA MultiUpdates ==
  ASSUME NEW mc, NEW msg, NEW data, MultiStands(mc, msg), IsString(msg), IsString(data)
  PROVE  MultiStands(br_multihash_update(Impl, mc, data), msg \o data)
<1>1. PICK n \in Nat : n = Len(data)
  BY StringFacts
<1>2. PICK f : IsPut(f, mc, data, n) /\ br_multihash_update(Impl, mc, data) = f[n]
  BY <1>1, PutIs
<1>3. IsText(data, n)
  BY <1>1 DEF IsText
<1> DEFINE S == {u \in Nat : u <= n => MultiStands(f[u], msg \o SubSeq(data, 1, u))}
<1>4. 0 \in S
  <2>1. f[0] = mc
    BY <1>2 DEF IsPut
  <2>2. SubSeq(data, 1, 0) = <<>>
    <3>1. IsText(SubSeq(data, 1, 0), 0)
      <4>1. 0 \in 0..n
        OBVIOUS
      <4> QED
        BY <1>3, <4>1, Head1
    <3>2. IsText(<<>>, 0)
      BY Empty DEF IsText
    <3> QED
      BY <3>1, <3>2, SameText
  <2>3. msg \o <<>> = msg
    BY Empty
  <2> QED
    BY <2>1, <2>2, <2>3
<1>5. ASSUME NEW u \in Nat, u \in S
      PROVE  u + 1 \in S
  <2>1. PICK next \in Nat : next = u + 1
    OBVIOUS
  <2>2. ASSUME next <= n
        PROVE  MultiStands(f[next], msg \o SubSeq(data, 1, next))
    <3>1. u \in 0..(n - 1) /\ u \in 0..n /\ MultiStands(f[u], msg \o SubSeq(data, 1, u))
      BY <1>5, <2>1, <2>2
    <3>2. f[next] = PutByte(f[u], data[next])
      <4>1. next \in 0..n /\ next # 0 /\ next - 1 = u
        BY <2>1, <2>2
      <4> QED
        BY <1>2, <4>1 DEF IsPut
    <3> HIDE DEF S
    <3>3. MultiStands(f[next], (msg \o SubSeq(data, 1, u)) \o <<data[next]>>)
      BY <3>1, <3>2, PutsOne
    <3>4. SubSeq(data, 1, u) \o <<data[next]>> = SubSeq(data, 1, next)
      BY <1>1, <2>1, <3>1, OneByteMore
    <3>5. IsString(SubSeq(data, 1, u)) /\ IsString(<<data[next]>>)
      BY <1>3, <3>1, Head1, Single DEF IsText
    <3>6. (msg \o SubSeq(data, 1, u)) \o <<data[next]>>
            = msg \o (SubSeq(data, 1, u) \o <<data[next]>>)
      <4>1. PICK s, t : s = SubSeq(data, 1, u) /\ t = <<data[next]>>
        OBVIOUS
      <4>2. IsString(s) /\ IsString(t)
        BY <3>5, <4>1
      <4>3. (msg \o s) \o t = msg \o (s \o t)
        BY <4>2, JoinedTwice
      <4> QED
        BY <4>1, <4>3
    <3> QED
      BY <3>3, <3>4, <3>6
  <2> QED
    BY <2>1, <2>2
<1> HIDE DEF S
<1>6. \A u \in Nat : u \in S
  BY <1>4, <1>5, Induction
<1>7. MultiStands(f[n], msg \o SubSeq(data, 1, n))
  BY <1>6 DEF S
<1>8. SubSeq(data, 1, n) = data
  BY <1>1, WholeString
<1> QED
  BY <1>2, <1>7, <1>8

LEMMA MultiFresh ==
  MultiStands(br_multihash_init(Impl, LongestBlock), <<>>)
<1>1. PICK f, first :
        /\ IsMemory(first) /\ IsInit(f, first, 6)
        /\ br_multihash_init(Impl, LongestBlock) =
             [count |-> 0, buf |-> [i \in 1..LongestBlock |-> <<"junk">>], mem |-> f[6]]
  BY InitIs
<1>2. PICK buf : buf = [i \in 1..LongestBlock |-> <<"junk">>]
  OBVIOUS
<1>3. IsText(buf, LongestBlock)
  <2>1. buf = [i \in 1..LongestBlock |-> buf[i]]
    BY <1>2
  <2> QED
    BY <2>1, LongestIs, StringOf DEF IsText
<1>4. States(f[6], <<>>)
  BY <1>1, ClearStates
<1>5. PICK z : z = LongestBlock * 0 /\ z = 0
  BY LongestIs
<1>6. IsText(<<>>, 0) /\ <<>> \o <<>> = <<>>
  BY Empty DEF IsText
<1>7. Waiting(buf, f[6], 0, 0, <<>>, <<>>)
  <2>1. 0 \in 0..(LongestBlock - 1) /\ \A i \in 1..0 : FALSE
    BY LongestIs
  <2> QED
    BY <1>3, <1>4, <1>5, <1>6, <2>1 DEF Waiting
<1>8. MultiContext(br_multihash_init(Impl, LongestBlock), buf, f[6], 0, 0)
  <2>1. z + 0 = 0
    BY <1>5
  <2> QED
    BY <1>1, <1>2, <1>5, <2>1 DEF MultiContext
<1> QED
  BY <1>6, <1>7, <1>8 DEF MultiStands

\* Each digest is that of everything that was said, though the functions share
\* one buffer and one memory (br_multihash_out).
THEOREM MultiOut ==
  ASSUME NEW mc, NEW msg, NEW id \in DOMAIN Impl, MultiStands(mc, msg)
  PROVE  br_multihash_out(Impl, mc, id) = Digest(Impl[id], msg)
<1>1. PICK buf, mem, q, r, head, tail :
        /\ MultiContext(mc, buf, mem, q, r) /\ Waiting(buf, mem, q, r, head, tail)
        /\ msg = head \o tail
  BY DEF MultiStands
<1>2. /\ q \in Nat /\ r \in 0..(LongestBlock - 1)
      /\ IsText(buf, LongestBlock) /\ IsText(head, LongestBlock * q) /\ IsText(tail, r)
      /\ States(mem, head) /\ \A i \in 1..r : buf[i] = tail[i]
  BY <1>1 DEF Waiting
<1>3. PICK h : h = Impl[id] /\ Sound(h)
  BY ImplFacts
<1>4. PICK n \in Nat : n = LongestBlock * q
  BY <1>2, NextInBuffer
<1>5. mc.count = n + r /\ mc.buf = buf /\ mc.mem = mem
  BY <1>1, <1>4 DEF MultiContext
<1>6. Len(buf) = LongestBlock /\ (n + r) % LongestBlock = r
  BY <1>2, <1>4, NextInBuffer DEF IsText
<1>7. n + r - r = n
  BY <1>2, LongestIs
<1>8. SubSeq(buf, 1, r) = tail
  <2>1. IsString(buf) /\ r \in 0..LongestBlock
    BY <1>2, LongestIs DEF IsText
  <2> QED
    BY <1>2, <1>6, <2>1, HeadOf
<1> DEFINE cc == br_hash_set_state(br_hash_init(h), Blocks(h, head), n)
<1>9. br_multihash_out(Impl, mc, id) = br_hash_out(h, br_hash_update(h, cc, tail))
  <2>1. Load(mem, id) = Blocks(h, head)
    BY <1>2, <1>3 DEF States
  <2> QED
    <3>1. mc.count % Len(mc.buf) = r
      BY <1>5, <1>6
    <3>2. mc.count - r = n
      <4>1. PICK k \in Nat : k = r
        BY <1>2, LongestIs
      <4>2. mc.count = n + k
        BY <1>5, <4>1
      <4>3. n + k - k = n
        OBVIOUS
      <4> QED
        BY <4>1, <4>2, <4>3
    <3> QED
      BY <1>3, <1>5, <1>8, <2>1, <3>1, <3>2 DEF br_multihash_out
<1>10. Stands(h, cc, head)
  <2>1. n % h.block = 0
    BY <1>2, <1>3, <1>4, WholeForEach
  <2> QED
    BY <1>2, <1>3, <1>4, <2>1, StateStands
<1> HIDE DEF cc
<1>11. IsString(tail)
  BY <1>2 DEF IsText
<1>12. Stands(h, br_hash_update(h, cc, tail), head \o tail)
  BY <1>3, <1>10, <1>11, UpdateStands
<1> QED
  BY <1>1, <1>3, <1>9, <1>12, OutStands

-----------------------------------------------------------------------------
(* The jobs that take a message: a transcript, and a code.                   *)
TranscriptJob(n, mc) == [kind |-> "transcript", n |-> n, mc |-> mc]

TranscriptRight(j) ==
  \E mc : \E n \in Nat : j = TranscriptJob(n, mc) /\ MultiStands(mc, Message(n))

LEMMA TranscriptBegins == TranscriptRight(Transcript)
<1>1. Message(0) = <<>>
  <2>1. IsText(Message(0), 0)
    BY BytesFrom1 DEF Message
  <2>2. IsText(<<>>, 0)
    BY Empty DEF IsText
  <2> QED
    BY <2>1, <2>2, SameText
<1>2. MultiStands(br_multihash_init(Impl, LongestBlock), Message(0))
  BY <1>1, MultiFresh
<1>3. Transcript = TranscriptJob(0, br_multihash_init(Impl, LongestBlock))
  BY DEF Transcript, TranscriptJob
<1> QED
  BY <1>2, <1>3 DEF TranscriptRight

LEMMA TranscriptGoesOn ==
  ASSUME TranscriptRight(job), TranscriptUpdate
  PROVE  TranscriptRight(job')
<1>0. PICK mc : \E n \in Nat : job = TranscriptJob(n, mc) /\ MultiStands(mc, Message(n))
  BY DEF TranscriptRight
<1>1. PICK n \in Nat : job = TranscriptJob(n, mc) /\ MultiStands(mc, Message(n))
  BY <1>0
<1>2. job.n = n /\ job.mc = mc
  BY <1>1 DEF TranscriptJob
<1>3. PICK k \in 1..MaxPiece :
        job' = [job EXCEPT !.n = @ + k,
                  !.mc = br_multihash_update(Impl, @, Bytes("msg", job.n + 1, job.n + k))]
  BY DEF TranscriptUpdate
<1>4. k \in Nat
  BY ServicesAssumption
<1>5. PICK new : new = br_multihash_update(Impl, mc, Bytes("msg", n + 1, n + k))
  OBVIOUS
<1>6. job' = [job EXCEPT !.n = n + k, !.mc = new]
  BY <1>2, <1>3, <1>5
<1>7. job' = TranscriptJob(n + k, new)
  BY <1>1, <1>6 DEF TranscriptJob
<1>8. /\ Message(n) \o Bytes("msg", n + 1, n + k) = Message(n + k)
      /\ IsString(Bytes("msg", n + 1, n + k)) /\ IsString(Message(n))
  BY <1>4, MessageGoesOn DEF IsText
<1>9. MultiStands(new, Message(n) \o Bytes("msg", n + 1, n + k))
  BY <1>1, <1>5, <1>8, MultiUpdates
<1>10. PICK m \in Nat : m = n + k
  BY <1>4
<1>11. MultiStands(new, Message(m)) /\ job' = TranscriptJob(m, new)
  BY <1>7, <1>8, <1>9, <1>10
<1> QED
  BY <1>11 DEF TranscriptRight

LEMMA TranscriptIs ==
  ASSUME TranscriptRight(job)
  PROVE  \A id \in DOMAIN Impl :
           br_multihash_out(Impl, job.mc, id) = Digest(Impl[id], Message(job.n))
<1>0. PICK mc : \E n \in Nat : job = TranscriptJob(n, mc) /\ MultiStands(mc, Message(n))
  BY DEF TranscriptRight
<1>1. PICK n \in Nat : job = TranscriptJob(n, mc) /\ MultiStands(mc, Message(n))
  BY <1>0
<1>2. job.n = n /\ job.mc = mc
  BY <1>1 DEF TranscriptJob
<1> QED
  BY <1>1, <1>2, MultiOut

MessageInv ==
  /\ HasKind(job)
  /\ job.kind = "transcript" => TranscriptRight(job)
  /\ job.kind = "mac" => MacRight(job)

LEMMA MessageInit == Init => MessageInv
<1> SUFFICES ASSUME Init
             PROVE  MessageInv
  OBVIOUS
<1>1. CASE ~HashInit
  BY <1>1, OthersBegin DEF Init, MessageInv, HashKinds
<1>2. CASE job = Transcript
  BY <1>2, TranscriptBegins DEF MessageInv, HasKind, Transcript
<1>3. CASE \E h \in Macs, len \in KeyLens : job = Mac(h, len)
  BY <1>3, MacBegins DEF MessageInv, HasKind, Mac
<1>4. CASE HashInit /\ job # Transcript /\ ~\E h \in Macs, len \in KeyLens : job = Mac(h, len)
  BY <1>4 DEF HashInit, MessageInv, HasKind, Pbkdf2, Hashcash, HkdfJob, PrfJob
<1> QED
  BY <1>1, <1>2, <1>3, <1>4

LEMMA MessageNext == MessageInv /\ [Next]_job => MessageInv'
<1> SUFFICES ASSUME MessageInv, [Next]_job
             PROVE  MessageInv'
  OBVIOUS
<1>1. CASE HashNext
  <2>1. HasKind(job') /\ job'.kind = job.kind
    BY <1>1, HashKind DEF MessageInv, KindStays
  <2>2. ASSUME job'.kind = "transcript"
        PROVE  TranscriptRight(job')
    <3>1. TranscriptRight(job)
      BY <2>1, <2>2 DEF MessageInv
    <3>2. TranscriptUpdate
      BY <1>1, <2>1, <2>2
      DEF HashNext, MacUpdate, Pbkdf2Block, Pbkdf2Iterate, Pbkdf2Copy, HashcashNonce,
          HashcashChunk, HashcashTail, HashcashCompare, HkdfInject, HkdfFlip, HkdfProduce, Prf
    <3> QED
      BY <3>1, <3>2, TranscriptGoesOn
  <2>3. ASSUME job'.kind = "mac"
        PROVE  MacRight(job')
    <3>1. MacRight(job)
      BY <2>1, <2>3 DEF MessageInv
    <3>2. MacUpdate
      BY <1>1, <2>1, <2>3
      DEF HashNext, TranscriptUpdate, Pbkdf2Block, Pbkdf2Iterate, Pbkdf2Copy, HashcashNonce,
          HashcashChunk, HashcashTail, HashcashCompare, HkdfInject, HkdfFlip, HkdfProduce, Prf
    <3> QED
      BY <3>1, <3>2, MacGoesOn
  <2> QED
    BY <2>1, <2>2, <2>3 DEF MessageInv
<1>2. CASE ~HashNext /\ job' # job
  BY <1>2, OthersKind DEF Next, MessageInv, HashKinds
<1>3. CASE job' = job
  BY <1>3 DEF MessageInv
<1> QED
  BY <1>1, <1>2, <1>3

\* Messages have their digests and their codes, in whatever pieces they come,
\* for any functions that fit each other, any key and any length
\* (multihash.c, hmac.c, hmac_ct.c).
THEOREM DigestsAlwaysAgree == Spec => []DigestsAgree
<1>1. MessageInv => DigestsAgree
  <2>1. ASSUME MessageInv
        PROVE  TranscriptAgrees
    <3>1. ASSUME job.kind = "transcript"
          PROVE  \A id \in DOMAIN Impl :
                   br_multihash_out(Impl, job.mc, id) = Digest(Impl[id], Message(job.n))
      BY <2>1, <3>1, TranscriptIs DEF MessageInv
    <3> QED
      BY <3>1, Zenon DEF TranscriptAgrees
  <2>2. ASSUME MessageInv
        PROVE  MacAgrees
    <3>1. ASSUME job.kind = "mac"
          PROVE  MacRight(job)
      BY <2>2, <3>1 DEF MessageInv
    <3> QED
      BY <3>1, MacIs, Zenon DEF MacAgrees
  <2> QED
    BY <2>1, <2>2 DEF DigestsAgree
<1> QED
  BY <1>1, MessageInit, MessageNext, PTL DEF Spec

-----------------------------------------------------------------------------
(* What is derived from secrets.  A digest tells the message it is of, and a *)
(* code of HMAC too, at each of its bytes.                                   *)
LEMMA DigestByte ==
  ASSUME NEW h, NEW v, NEW j \in 1..HashLen
  PROVE  DigestBytes(h, v)[j] = <<"digest", h.id, v, j>>
BY DEF DigestBytes

\* A number of whole blocks.
IsWhole(h, n, q) == q \in Nat /\ n = h.block * q

SameBytes(p, s, m, n) == m = n /\ \A i \in 1..m : p[i] = s[i]

\* The bytes of two padded messages with the same blocks are the same.
LEMMA SameBlocks ==
  ASSUME NEW h, NEW p, NEW s, NEW n1, NEW n2, NEW q1, NEW q2, Sound(h),
         IsText(p, n1), IsText(s, n2), IsWhole(h, n1, q1), IsWhole(h, n2, q2),
         Blocks(h, p) = Blocks(h, s)
  PROVE  SameBytes(p, s, n1, n2)
<1>1. PICK b \in Nat \ {0} : b = h.block
  BY SoundFacts
<1>2. /\ IsString(p) /\ IsString(s) /\ Len(p) = n1 /\ Len(s) = n2 /\ n1 \in Nat /\ n2 \in Nat
  BY DEF IsText
<1>3. q1 \in Nat /\ q2 \in Nat /\ n1 = b * q1 /\ n2 = b * q2
  BY <1>1 DEF IsWhole
<1>4. q1 = n1 \div b /\ q2 = n2 \div b
  <2>1. 0 \in 0..(b - 1) /\ n1 = b * q1 + 0 /\ n2 = b * q2 + 0
    BY <1>2, <1>3
  <2>2. n1 \in Nat /\ n2 \in Nat /\ q1 \in Int /\ q2 \in Int
    BY <1>2, <1>3
  <2> QED
    BY <2>1, <2>2, Quotient
<1>5. Chopped(Blocks(h, p), b, q1, p) /\ Chopped(Blocks(h, s), b, q2, s)
  BY <1>1, <1>2, <1>4, BlocksChopped
<1>6. q1 = q2
  BY <1>5 DEF Chopped
<1>7. ASSUME NEW i \in 1..n1
      PROVE  p[i] = s[i]
  <2>1. i - 1 \in Nat /\ i - 1 < n1
    BY <1>2
  <2>2. PICK q \in Nat, r \in 0..(b - 1) : i - 1 = b * q + r
    BY <2>1, Parts
  <2>3. q + 1 \in 1..q1
    <3>1. q < q1
      <4> SUFFICES ASSUME q1 <= q
                   PROVE  FALSE
        BY <1>3
      <4>1. b * q1 <= b * q /\ b * q \in Int
        BY <1>3, Product
      <4> QED
        BY <1>3, <2>1, <2>2, <4>1
    <3> QED
      BY <1>3, <3>1
  <2>4. PICK k \in 1..q1 : k = q + 1 /\ k - 1 = q
    BY <2>3
  <2>5. b * (k - 1) + r + 1 = i
    <3>1. b * (k - 1) = b * q
      BY <2>4
    <3>2. b * q \in Int /\ i \in Int
      OBVIOUS
    <3> QED
      BY <2>2, <3>1, <3>2
  <2>6. /\ Blocks(h, p)[k] = [x \in 0..(b - 1) |-> p[b * (k - 1) + x + 1]]
        /\ Blocks(h, s)[k] = [x \in 0..(b - 1) |-> s[b * (k - 1) + x + 1]]
    BY <1>5, <1>6 DEF Chopped
  <2>7. Blocks(h, p)[k][r] = p[i] /\ Blocks(h, s)[k][r] = s[i]
    BY <2>5, <2>6
  <2> QED
    BY <2>7
<1> QED
  BY <1>3, <1>6, <1>7 DEF SameBytes

\* The last byte of the padding is the last of the count.
LastByte(p, m, n) == p[n] = CountByte(m, CountLen - 1)

LEMMA PaddedEnd ==
  ASSUME NEW h, NEW msg, NEW m, Sound(h), IsText(msg, m)
  PROVE  \E n, k : /\ k \in Nat /\ n = h.block * k /\ IsText(Padded(h, msg), n)
                   /\ m < n /\ LastByte(Padded(h, msg), m, n)
                   /\ \A i \in 1..m : Padded(h, msg)[i] = msg[i]
<1>1. IsString(msg)
  BY DEF IsText
<1>2. PICK b, c, m2, q, ptr, n : HasLengths(h, msg, b, c, m2, q, ptr, n)
  BY <1>1, Lengths
<1>3. m2 = m /\ m \in Nat
  BY <1>2 DEF HasLengths, IsText
<1>4. /\ b \in Nat \ {0} /\ c \in 0..(b - 1) /\ CountLen \in 1..c
      /\ q \in Nat /\ ptr \in 0..(b - 1) /\ m = b * q + ptr /\ b = h.block
  BY <1>2, <1>3 DEF HasLengths, Parted
<1>5. n = IF ptr + 1 <= b - c THEN b * (q + 1) ELSE b * (q + 2)
  BY <1>2 DEF HasLengths
<1>6. PaddedAs(Padded(h, msg), msg, m, n)
  BY <1>2, <1>3 DEF HasLengths
<1>7. PICK k \in Nat : n = b * k /\ n \in Nat /\ m + 1 < n
  <2>1. b * (q + 1) = b * q + b /\ b * (q + 2) = b * q + b + b /\ b * q \in Nat
    <3>1. b \in Nat /\ q \in Nat
      BY <1>4
    <3> QED
      BY ONLY <3>1, SMT
  <2>2. CASE ptr + 1 <= b - c
    <3>1. n = b * (q + 1)
      BY <1>5, <2>2
    <3>2. n \in Nat /\ m + 1 < n
      BY <1>4, <2>1, <2>2, <3>1
    <3> QED
      BY <1>4, <3>1, <3>2
  <2>3. CASE ~(ptr + 1 <= b - c)
    <3>1. n = b * (q + 2)
      BY <1>5, <2>3
    <3>2. n \in Nat /\ m + 1 < n
      BY <1>4, <2>1, <3>1
    <3> QED
      BY <1>4, <3>1, <3>2
  <2> QED
    BY <2>2, <2>3
<1> DEFINE p == Padded(h, msg)
<1>8. IsText(p, n) /\ \A i \in 1..n : p[i] = PadByte(msg, m, n, i)
  BY <1>6, <1>7 DEF PaddedAs, IsText
<1> HIDE DEF p
<1>9. \A i \in 1..m : p[i] = msg[i]
  <2> TAKE i \in 1..m
  <2>1. i \in 1..n /\ i <= m
    BY <1>3, <1>7
  <2> QED
    BY <1>8, <2>1 DEF PadByte
<1>10. LastByte(p, m, n)
  <2>1. n \in 1..n /\ ~(n <= m) /\ n # m + 1 /\ ~(n <= n - CountLen)
        /\ n - 1 - (n - CountLen) = CountLen - 1
    BY <1>3, <1>4, <1>7
  <2>2. p[n] = PadByte(msg, m, n, n)
    BY <1>8, <2>1
  <2> QED
    BY <2>1, <2>2 DEF PadByte, LastByte
<1>11. m < n
  BY <1>3, <1>7
<1> QED
  BY <1>4, <1>7, <1>8, <1>9, <1>10, <1>11 DEF p

\* Two messages of which some byte of the digest is the same are the same.
LEMMA DigestTells ==
  ASSUME NEW h, NEW s, NEW t, NEW j, Sound(h), IsString(s), IsString(t),
         j \in 1..HashLen, Digest(h, s)[j] = Digest(h, t)[j]
  PROVE  s = t
<1>1. PICK m, l : m = Len(s) /\ l = Len(t) /\ IsText(s, m) /\ IsText(t, l)
  BY TextOf
<1>2. PICK n1, k1 : /\ k1 \in Nat /\ n1 = h.block * k1 /\ IsText(Padded(h, s), n1)
                    /\ m < n1 /\ LastByte(Padded(h, s), m, n1)
                    /\ \A i \in 1..m : Padded(h, s)[i] = s[i]
  BY <1>1, PaddedEnd
<1>3. PICK n2, k2 : /\ k2 \in Nat /\ n2 = h.block * k2 /\ IsText(Padded(h, t), n2)
                    /\ l < n2 /\ LastByte(Padded(h, t), l, n2)
                    /\ \A i \in 1..l : Padded(h, t)[i] = t[i]
  BY <1>1, PaddedEnd
<1>4. PICK p, q : p = Padded(h, s) /\ q = Padded(h, t)
  OBVIOUS
<1>5. PICK v, w : v = Blocks(h, p) /\ w = Blocks(h, q)
  OBVIOUS
<1>6. v = w
  <2>1. Digest(h, s) = DigestBytes(h, v) /\ Digest(h, t) = DigestBytes(h, w)
    BY <1>4, <1>5 DEF Digest
  <2>2. /\ DigestBytes(h, v)[j] = <<"digest", h.id, v, j>>
        /\ DigestBytes(h, w)[j] = <<"digest", h.id, w, j>>
    BY DigestByte
  <2>3. PICK id : id = h.id
    OBVIOUS
  <2>4. <<"digest", id, v, j>> = <<"digest", id, w, j>>
    BY <2>1, <2>2, <2>3
  <2> QED
    BY ONLY <2>4
<1>7. n1 = n2 /\ \A i \in 1..n1 : p[i] = q[i]
  <2>1. IsText(p, n1) /\ IsText(q, n2)
    BY <1>2, <1>3, <1>4
  <2>2. Blocks(h, p) = Blocks(h, q)
    BY <1>5, <1>6
  <2>3. IsWhole(h, n1, k1) /\ IsWhole(h, n2, k2)
    BY <1>2, <1>3 DEF IsWhole
  <2>4. SameBytes(p, q, n1, n2)
    BY <2>1, <2>2, <2>3, SameBlocks
  <2> QED
    BY <2>4 DEF SameBytes
<1>8. m \in Nat /\ l \in Nat /\ n1 \in Nat
  BY <1>1, <1>2 DEF IsText
<1>9. n1 \in 1..n1
  BY <1>2, <1>8
<1>10. p[n1] = q[n1]
  BY <1>7, <1>9
<1>11. CountByte(m, CountLen - 1) = CountByte(l, CountLen - 1)
  BY <1>2, <1>3, <1>4, <1>7, <1>10 DEF LastByte
<1>12. m = l
  BY <1>11 DEF CountByte
<1>13. \A i \in 1..m : s[i] = t[i]
  <2> TAKE i \in 1..m
  <2>1. i \in 1..n1
    BY <1>2, <1>8
  <2> QED
    BY <1>2, <1>3, <1>4, <1>7, <1>12, <2>1
<1> QED
  BY <1>1, <1>12, <1>13, SameText

\* What is behind equal heads is equal if the whole is.
LEMMA SameTail ==
  ASSUME NEW u, NEW s, NEW t, NEW n, IsText(u, n), IsString(s), IsString(t), u \o s = u \o t
  PROVE  s = t
<1>1. PICK m, l : m = Len(s) /\ l = Len(t) /\ IsText(s, m) /\ IsText(t, l)
  BY TextOf
<1>2. PICK x, y : x = u \o s /\ y = u \o t /\ x = y
  OBVIOUS
<1>3. Joint(x, u, n, s, m) /\ Joint(y, u, n, t, l)
  BY <1>1, <1>2, JointText
<1>4. IsText(x, n + m) /\ IsText(y, n + l) /\ n \in Nat /\ m \in Nat /\ l \in Nat
  BY <1>1, <1>3 DEF Joint, IsText
<1>5. n + m = n + l
  BY <1>2, <1>4 DEF IsText
<1>6. m = l
  BY <1>4, <1>5
<1>7. \A i \in 1..m : s[i] = t[i]
  BY <1>2, <1>3, <1>6 DEF Joint
<1> QED
  BY <1>1, <1>6, <1>7, SameText

LEMMA HmacByte ==
  ASSUME NEW h, NEW key, NEW msg, ForMac(h)
  PROVE  /\ IsText(Hmac(h, key, msg), HashLen)
         /\ \E v : \A j \in 1..HashLen : Hmac(h, key, msg)[j] = <<"digest", h.id, v, j>>
<1>1. PICK v : Hmac(h, key, msg) = DigestBytes(h, v)
  BY DEF Hmac, Digest
<1>2. IsText(DigestBytes(h, v), HashLen)
  BY DigestText DEF ForMac
<1> QED
  BY <1>1, <1>2, DigestByte

LEMMA HmacTells ==
  ASSUME NEW h, NEW key, NEW s, NEW t, NEW j, ForMac(h), IsString(key), IsString(s),
         IsString(t), j \in 1..HashLen, Hmac(h, key, s)[j] = Hmac(h, key, t)[j]
  PROVE  s = t
<1>1. Sound(h) /\ IsText(Inner(h, key), h.block) /\ IsText(Wrapped(h, key), h.block)
  BY PadsText DEF ForMac
<1>2. PICK x, y : x = Inner(h, key) \o s /\ y = Inner(h, key) \o t
  OBVIOUS
<1>3. IsString(x) /\ IsString(y)
  BY <1>1, <1>2, Joined DEF IsText
<1>4. PICK d, e : d = Digest(h, x) /\ e = Digest(h, y)
  OBVIOUS
<1>5. IsString(d) /\ IsString(e)
  BY <1>1, <1>4, DigestText DEF Digest, IsText
<1>6. PICK z, w : z = Wrapped(h, key) \o d /\ w = Wrapped(h, key) \o e
  OBVIOUS
<1>7. IsString(z) /\ IsString(w)
  BY <1>1, <1>5, <1>6, Joined DEF IsText
<1>8. Digest(h, z)[j] = Digest(h, w)[j]
  BY <1>2, <1>4, <1>6, HmacIs
<1>9. z = w
  BY <1>1, <1>7, <1>8, DigestTells
<1>10. d = e
  BY <1>1, <1>5, <1>6, <1>9, SameTail
<1>11. x = y
  BY <1>1, <1>3, <1>4, <1>10, DigestTells
<1> QED
  BY <1>1, <1>2, <1>11, SameTail

\* HMAC of one piece of data (hmac.c as prf.c, hkdf.c and wm_https.c use it).
LEMMA HmacOnce ==
  ASSUME NEW h, NEW key, NEW data, ForMac(h), IsString(key), IsString(data)
  PROVE  hmac(h, br_hmac_key_init(h, key), data) = Hmac(h, key, data)
<1> DEFINE hc == br_hmac_init(h, br_hmac_key_init(h, key))
<1>1. MacStands(h, hc, key, <<>>)
  BY MacFresh
<1>2. hmac(h, br_hmac_key_init(h, key), data) = br_hmac_out(h, br_hmac_update(h, hc, data))
  BY DEF hmac
<1> HIDE DEF hc
<1>3. MacStands(h, br_hmac_update(h, hc, data), key, <<>> \o data)
  BY <1>1, MacUpdates
<1>4. MacStands(h, br_hmac_update(h, hc, data), key, data)
  BY <1>3, Empty
<1> QED
  BY <1>2, <1>4, MacOut

-----------------------------------------------------------------------------
(* A chain of codes, each of the one before (PBKDF2, and the PRF of TLS).    *)
IsChain(f, h, key, first, n) ==
  f = [i \in 0..n |-> IF i = 0 THEN first ELSE Hmac(h, key, f[i - 1])]

LEMMA ChainExists ==
  ASSUME NEW h, NEW key, NEW first
  PROVE  \A n \in Nat : \E f : IsChain(f, h, key, first, n)
<1> DEFINE S == {n \in Nat : \E f : IsChain(f, h, key, first, n)}
<1>1. 0 \in S
  <2> DEFINE f == [u \in 0..0 |-> first]
  <2>1. IsChain(f, h, key, first, 0)
    BY DEF IsChain
  <2> QED
    BY <2>1
<1>2. ASSUME NEW n \in Nat, n \in S
      PROVE  n + 1 \in S
  <2>1. PICK f : IsChain(f, h, key, first, n)
    BY <1>2
  <2> DEFINE g == [u \in 0..(n + 1) |->
                     IF u = n + 1 THEN Hmac(h, key, f[n]) ELSE f[u]]
             e == [u \in 0..(n + 1) |-> IF u = 0 THEN first ELSE Hmac(h, key, g[u - 1])]
  <2>2. ASSUME NEW u \in 0..(n + 1)
        PROVE  g[u] = IF u = 0 THEN first ELSE Hmac(h, key, g[u - 1])
    <3>1. CASE u = n + 1
      <4>1. u - 1 = n /\ n \in 0..(n + 1) /\ n # n + 1 /\ u # 0
        BY <3>1
      <4> QED
        BY <3>1, <4>1
    <3>2. CASE u # n + 1
      <4>1. u \in 0..n /\ (u # 0 => u - 1 \in 0..(n + 1) /\ u - 1 # n + 1)
        BY <3>2
      <4>2. f[u] = IF u = 0 THEN first ELSE Hmac(h, key, f[u - 1])
        BY <2>1, <4>1 DEF IsChain
      <4> QED
        BY <3>2, <4>1, <4>2
    <3> QED
      BY <3>1, <3>2
  <2>3. g = e
    <3>1. g = [u \in 0..(n + 1) |-> g[u]]
      OBVIOUS
    <3> HIDE DEF g
    <3> QED
      BY <2>2, <3>1, Zenon
  <2>4. IsChain(g, h, key, first, n + 1)
    BY <2>3, Zenon DEF IsChain
  <2> QED
    BY <2>4
<1> HIDE DEF S
<1>3. \A n \in Nat : n \in S
  BY <1>1, <1>2, Induction
<1> QED
  BY <1>3 DEF S

-----------------------------------------------------------------------------
(* The key of PBKDF2.                                                        *)
FirstOf(salt, b) == Salt(salt) \o BlockIndex(b)

LEMMA FirstText ==
  ASSUME NEW salt, NEW b, salt \in Nat \ {0}
  PROVE  IsString(FirstOf(salt, b)) /\ FirstOf(salt, b)[1] = <<"salt", 1>>
<1> DEFINE t == BlockIndex(b)
<1>1. IsText(Salt(salt), salt) /\ \A i \in 1..salt : Salt(salt)[i] = <<"salt", i>>
  BY BytesFrom1 DEF Salt
<1>2. IsText(t, 4)
  <2>1. t = [i \in 1..4 |-> t[i]]
    BY DEF BlockIndex
  <2> HIDE DEF t
  <2> QED
    BY <2>1, StringOf DEF IsText
<1> HIDE DEF t
<1>3. Joint(Salt(salt) \o t, Salt(salt), salt, t, 4)
  BY <1>1, <1>2, JointText
<1>4. 1 \in 1..salt
  OBVIOUS
<1> QED
  BY <1>1, <1>3, <1>4 DEF Joint, IsText, FirstOf, t

IsIterates(f, h, first, n) ==
  f = [i \in 1..n |-> Hmac(h, Key(3), IF i = 1 THEN first ELSE f[i - 1])]

LEMMA IteratesExist ==
  ASSUME NEW h, NEW first, NEW n, n \in Nat
  PROVE  \E f : IsIterates(f, h, first, n)
<1>1. PICK f : IsChain(f, h, Key(3), first, n)
  BY ChainExists
<1>2. \A i \in 0..n : f[i] = IF i = 0 THEN first ELSE Hmac(h, Key(3), f[i - 1])
  BY <1>1 DEF IsChain
<1> DEFINE g == [i \in 1..n |-> f[i]]
           e == [i \in 1..n |-> Hmac(h, Key(3), IF i = 1 THEN first ELSE g[i - 1])]
<1>3. ASSUME NEW i \in 1..n
      PROVE  g[i] = Hmac(h, Key(3), IF i = 1 THEN first ELSE g[i - 1])
  <2>1. i \in 0..n /\ i # 0
    OBVIOUS
  <2>2. g[i] = Hmac(h, Key(3), f[i - 1])
    BY <1>2, <2>1
  <2>3. CASE i = 1
    <3>1. i - 1 = 0 /\ 0 \in 0..n
      BY <2>3
    <3>2. f[i - 1] = first
      BY <1>2, <3>1
    <3> QED
      BY <2>2, <2>3, <3>2
  <2>4. CASE i # 1
    <3>1. i - 1 \in 1..n
      BY <2>4
    <3>2. g[i - 1] = f[i - 1]
      BY <3>1
    <3> QED
      BY <2>2, <2>4, <3>2
  <2> QED
    BY <2>3, <2>4
<1>4. g = e
  <2>1. g = [i \in 1..n |-> g[i]]
    OBVIOUS
  <2> HIDE DEF g
  <2> QED
    BY <1>3, <2>1, Zenon
<1>5. IsIterates(g, h, first, n)
  BY <1>4, Zenon DEF IsIterates
<1> QED
  BY <1>5

LEMMA UIs ==
  ASSUME NEW h, NEW salt, NEW b
  PROVE  IsIterates(U(h, salt, b), h, FirstOf(salt, b), MaxIterations)
<1> DEFINE P(f) == IsIterates(f, h, FirstOf(salt, b), MaxIterations)
<1>1. PICK a : a = CHOOSE f : P(f)
  OBVIOUS
<1>2. U(h, salt, b) = a
  BY <1>1 DEF U, IsIterates, FirstOf
<1>3. \E f : P(f)
  BY ServicesAssumption, IteratesExist
<1> HIDE DEF P
<1>4. P(a)
  BY <1>1, <1>3
<1> QED
  BY <1>2, <1>4 DEF P

LEMMA KeyText ==
  IsString(Key(3))
BY BytesFrom1 DEF Key, IsText

LEMMA UFacts ==
  ASSUME NEW h, NEW salt, NEW b, NEW i, ForMac(h), salt \in Nat \ {0}, i \in 1..MaxIterations
  PROVE  /\ U(h, salt, b)[i] =
              Hmac(h, Key(3), IF i = 1 THEN FirstOf(salt, b) ELSE U(h, salt, b)[i - 1])
         /\ IsText(U(h, salt, b)[i], HashLen)
         /\ \E v : \A j \in 1..HashLen : U(h, salt, b)[i][j] = <<"digest", h.id, v, j>>
<1>1. PICK f : f = U(h, salt, b)
  OBVIOUS
<1>2. PICK first : first = FirstOf(salt, b)
  OBVIOUS
<1>3. f = [k \in 1..MaxIterations |-> Hmac(h, Key(3), IF k = 1 THEN first ELSE f[k - 1])]
  BY <1>1, <1>2, UIs DEF IsIterates
<1>4. f[i] = Hmac(h, Key(3), IF i = 1 THEN first ELSE f[i - 1])
  BY <1>3
<1>5. PICK m : f[i] = Hmac(h, Key(3), m)
  BY <1>4
<1> QED
  BY <1>1, <1>2, <1>4, <1>5, HmacByte

\* Equal at some byte, the codes of two messages are those of one.
LEMMA UBefore ==
  ASSUME NEW h, NEW salt, NEW b, NEW i, NEW k, NEW j, ForMac(h), salt \in Nat \ {0},
         i \in 1..MaxIterations, k \in 1..MaxIterations, j \in 1..HashLen,
         U(h, salt, b)[i][j] = U(h, salt, b)[k][j]
  PROVE  (i = 1 <=> k = 1) /\ (i # 1 => U(h, salt, b)[i - 1] = U(h, salt, b)[k - 1])
<1>1. PICK f : f = U(h, salt, b)
  OBVIOUS
<1>2. PICK first : first = FirstOf(salt, b)
  OBVIOUS
<1>3. \A x \in 1..MaxIterations :
         /\ f[x] = Hmac(h, Key(3), IF x = 1 THEN first ELSE f[x - 1])
         /\ IsText(f[x], HashLen)
         /\ \E v : \A y \in 1..HashLen : f[x][y] = <<"digest", h.id, v, y>>
  BY <1>1, <1>2, UFacts
<1>4. IsString(first) /\ first[1] = <<"salt", 1>>
  BY <1>2, FirstText
<1>5. \A x \in 1..MaxIterations : x # 1 => x - 1 \in 1..MaxIterations
  BY ServicesAssumption
<1> DEFINE before(x) == IF x = 1 THEN first ELSE f[x - 1]
<1>6. \A x \in 1..MaxIterations : IsString(before(x)) /\ f[x] = Hmac(h, Key(3), before(x))
  BY <1>3, <1>4, <1>5 DEF IsText
<1> HIDE DEF before
<1>7. PICK s, t : s = before(i) /\ t = before(k)
  OBVIOUS
<1>8. IsString(s) /\ IsString(t) /\ Hmac(h, Key(3), s)[j] = Hmac(h, Key(3), t)[j]
  BY <1>1, <1>6, <1>7
<1>9. s = t
  BY <1>8, HmacTells, KeyText
<1>10. before(i) = before(k)
  BY <1>7, <1>9
<1>11. ASSUME NEW x \in 1..MaxIterations
       PROVE  first # f[x]
  <2>1. 1 \in 1..HashLen
    BY SoundFacts DEF ForMac
  <2>2. PICK v : f[x][1] = <<"digest", h.id, v, 1>>
    BY <1>3, <2>1
  <2>3. PICK id : id = h.id
    OBVIOUS
  <2>4. <<"salt", 1>> # <<"digest", id, v, 1>>
    OBVIOUS
  <2> QED
    BY <1>4, <2>2, <2>3, <2>4
<1> QED
  BY <1>1, <1>5, <1>10, <1>11 DEF before

LEMMA UApart ==
  ASSUME NEW h, NEW salt, NEW b, ForMac(h), salt \in Nat \ {0}
  PROVE  \A i, k \in 1..MaxIterations : \A j \in 1..HashLen :
           U(h, salt, b)[i][j] = U(h, salt, b)[k][j] => i = k
<1>1. PICK f : f = U(h, salt, b)
  OBVIOUS
<1> DEFINE S == {i \in Nat : i + 1 \in 1..MaxIterations =>
                   \A k \in 1..MaxIterations : \A j \in 1..HashLen :
                     f[i + 1][j] = f[k][j] => i + 1 = k}
<1>2. \A i, k \in 1..MaxIterations : \A j \in 1..HashLen :
        f[i][j] = f[k][j] => /\ i = 1 <=> k = 1
                             /\ i # 1 => f[i - 1] = f[k - 1]
  <2> SUFFICES ASSUME NEW i \in 1..MaxIterations, NEW k \in 1..MaxIterations,
                      NEW j \in 1..HashLen, f[i][j] = f[k][j]
               PROVE  /\ i = 1 <=> k = 1
                      /\ i # 1 => f[i - 1] = f[k - 1]
    OBVIOUS
  <2>1. U(h, salt, b)[i][j] = U(h, salt, b)[k][j]
    BY <1>1
  <2>2. (i = 1 <=> k = 1) /\ (i # 1 => U(h, salt, b)[i - 1] = U(h, salt, b)[k - 1])
    BY <2>1, UBefore
  <2> QED
    BY <1>1, <2>2
<1>3. MaxIterations \in Nat
  BY ServicesAssumption
<1>4. 0 \in S
  BY <1>2, <1>3
<1>5. ASSUME NEW n \in Nat, n \in S
      PROVE  n + 1 \in S
  <2> SUFFICES ASSUME (n + 1) + 1 \in 1..MaxIterations,
                      NEW k \in 1..MaxIterations, NEW j \in 1..HashLen,
                      f[(n + 1) + 1][j] = f[k][j]
               PROVE  (n + 1) + 1 = k
    BY DEF S
  <2>1. PICK x \in Nat : x = (n + 1) + 1 /\ x # 1 /\ x - 1 = n + 1
    OBVIOUS
  <2>2. k # 1 /\ f[x - 1] = f[k - 1]
    BY <1>2, <2>1
  <2>3. n + 1 \in 1..MaxIterations /\ k - 1 \in 1..MaxIterations
    BY <1>3, <2>2
  <2>4. f[n + 1][j] = f[k - 1][j]
    BY <2>1, <2>2
  <2>5. n + 1 = k - 1
    BY <1>5, <2>3, <2>4
  <2> QED
    BY <2>5
<1> HIDE DEF S
<1>6. \A n \in Nat : n \in S
  BY <1>4, <1>5, Induction
<1>7. ASSUME NEW i \in 1..MaxIterations, NEW k \in 1..MaxIterations, NEW j \in 1..HashLen,
             f[i][j] = f[k][j]
      PROVE  i = k
  <2>1. PICK n \in Nat : n = i - 1 /\ i = n + 1
    <3>1. i - 1 \in Nat /\ i = (i - 1) + 1
      OBVIOUS
    <3> QED
      BY <3>1
  <2>2. n \in S
    BY <1>6
  <2> QED
    BY <1>7, <2>1, <2>2 DEF S
<1> QED
  BY <1>1, <1>7

-----------------------------------------------------------------------------
Iterated(h, salt, b, i, j) == {U(h, salt, b)[x][j] : x \in 1..i}

\* What was made of a block so far.
PbBegun(h, salt, b, i, u, t) ==
  /\ u = U(h, salt, b)[i] /\ IsText(t, HashLen)
  /\ \A j \in 1..HashLen : t[j] = Iterated(h, salt, b, i, j)

KeyByte(h, salt, n, k) ==
  Iterated(h, salt, ((k - 1) \div HashLen) + 1, n, ((k - 1) % HashLen) + 1)

PbRight(h, salt, iterations, out, n) ==
  IsText(out, n) /\ \A k \in 1..n : out[k] = KeyByte(h, salt, iterations, k)

\* The blocks before the block b are out, and more is wanted.
PbFilled(h, salt, iterations, len, out, b) ==
  \E n \in Nat : /\ n = HashLen * (b - 1) /\ n < len
                 /\ PbRight(h, salt, iterations, out, n)

PbJob(at, h, salt, iterations, len, out, b, i, u, t) ==
  [kind |-> "pbkdf2", at |-> at, h |-> h, salt |-> salt,
   iterations |-> iterations, out_len |-> len,
   out |-> out, block_index |-> b, i |-> i, u |-> u, t |-> t]

PbAt(at, h, salt, iterations, len, out, b, i, u, t) ==
  \/ at = "block" /\ PbFilled(h, salt, iterations, len, out, b)
  \/ /\ at = "iterate" /\ PbFilled(h, salt, iterations, len, out, b)
     /\ i \in 1..iterations /\ PbBegun(h, salt, b, i, u, t)
  \/ at = "done" /\ PbRight(h, salt, iterations, out, len)

PbState(j, at, h, salt, iterations, len, out, b, i, u, t) ==
  /\ j = PbJob(at, h, salt, iterations, len, out, b, i, u, t)
  /\ h \in Macs /\ salt \in Nat \ {0} /\ iterations \in 1..MaxIterations
  /\ len \in Nat \ {0} /\ b \in Nat \ {0}
  /\ PbAt(at, h, salt, iterations, len, out, b, i, u, t)

PbGood(j) ==
  \E at, h, salt, iterations, len, out, b, i, u, t :
    PbState(j, at, h, salt, iterations, len, out, b, i, u, t)

LEMMA HashLenIs ==
  HashLen \in Nat \ {0}
BY HashAssumption

LEMMA PbBegins ==
  ASSUME NEW h \in Macs, NEW salt \in KeyLens \ {0}, NEW n \in 1..MaxIterations,
         NEW len \in 1..MaxOut
  PROVE  PbGood(Pbkdf2(h, salt, n, len))
<1>1. salt \in Nat \ {0} /\ len \in Nat \ {0}
  BY ServicesAssumption
<1>2. Pbkdf2(h, salt, n, len) = PbJob("block", h, salt, n, len, <<>>, 1, 0, <<>>, <<>>)
  BY DEF Pbkdf2, PbJob
<1>3. PbRight(h, salt, n, <<>>, 0)
  BY Empty DEF PbRight, IsText
<1>4. 0 = HashLen * (1 - 1) /\ 0 < len
  BY <1>1, HashLenIs
<1>5. PbFilled(h, salt, n, len, <<>>, 1)
  BY <1>3, <1>4 DEF PbFilled
<1>6. PbAt("block", h, salt, n, len, <<>>, 1, 0, <<>>, <<>>)
  BY <1>5 DEF PbAt
<1>7. PbState(Pbkdf2(h, salt, n, len), "block", h, salt, n, len, <<>>, 1, 0, <<>>, <<>>)
  BY <1>1, <1>2, <1>6 DEF PbState
<1> QED
  BY <1>7 DEF PbGood

LEMMA PbFields ==
  ASSUME NEW j, NEW at, NEW h, NEW salt, NEW iterations, NEW len, NEW out, NEW b, NEW i,
         NEW u, NEW t, j = PbJob(at, h, salt, iterations, len, out, b, i, u, t)
  PROVE  /\ j.at = at /\ j.h = h /\ j.salt = salt /\ j.iterations = iterations
         /\ j.out_len = len /\ j.out = out /\ j.block_index = b /\ j.i = i /\ j.u = u
         /\ j.t = t
BY DEF PbJob

LEMMA PbOnce ==
  ASSUME NEW h, NEW data, ForMac(h), IsString(data)
  PROVE  hmac_sha512_once(h, data) = Hmac(h, Key(3), data)
BY HmacOnce, KeyText DEF hmac, hmac_sha512_once

\* One byte is the exclusive or of itself alone.
LEMMA FirstRound ==
  ASSUME NEW h, NEW salt, NEW b, NEW u, NEW t, ForMac(h), salt \in Nat \ {0},
         1 \in 1..MaxIterations, u = Hmac(h, Key(3), FirstOf(salt, b)),
         t = [j \in 1..HashLen |-> {u[j]}]
  PROVE  PbBegun(h, salt, b, 1, u, t)
<1>1. PICK f : f = U(h, salt, b)
  OBVIOUS
<1>2. f[1] = u
  BY <1>1, UFacts
<1>3. t = [j \in 1..HashLen |-> t[j]] /\ \A j \in 1..HashLen : t[j] = {u[j]}
  OBVIOUS
<1>4. IsText(t, HashLen)
  BY <1>3, StringOf, HashLenIs DEF IsText
<1>5. \A j \in 1..HashLen : t[j] = Iterated(h, salt, b, 1, j)
  <2> TAKE j \in 1..HashLen
  <2>1. 1..1 = {1}
    OBVIOUS
  <2>2. Iterated(h, salt, b, 1, j) = {f[x][j] : x \in {1}}
    BY <1>1, <2>1 DEF Iterated
  <2> QED
    BY <1>2, <1>3, <2>2
<1> QED
  BY <1>1, <1>2, <1>4, <1>5 DEF PbBegun

\* The next code has no byte in common with those before it.
LEMMA NextRound ==
  ASSUME NEW h, NEW salt, NEW b, NEW i, NEW u, NEW t, NEW v, ForMac(h), salt \in Nat \ {0},
         i \in 1..MaxIterations, i + 1 \in 1..MaxIterations,
         PbBegun(h, salt, b, i, u, t), v = Hmac(h, Key(3), u)
  PROVE  PbBegun(h, salt, b, i + 1, v, Xor(t, v))
<1>1. PICK f : f = U(h, salt, b)
  OBVIOUS
<1>2. u = f[i] /\ IsText(t, HashLen) /\ \A j \in 1..HashLen : t[j] = Iterated(h, salt, b, i, j)
  BY <1>1 DEF PbBegun
<1>3. f[i + 1] = v
  <2>1. PICK n : n = i + 1 /\ n \in 1..MaxIterations /\ n # 1 /\ n - 1 = i
    <3>1. i + 1 # 1 /\ (i + 1) - 1 = i
      OBVIOUS
    <3> QED
      BY <3>1
  <2>2. f[n] = Hmac(h, Key(3), f[n - 1])
    BY <1>1, <2>1, UFacts
  <2> QED
    BY <1>2, <2>1, <2>2
<1> DEFINE w == Xor(t, v)
<1>4. w = [j \in 1..HashLen |-> (t[j] \ {v[j]}) \cup ({v[j]} \ t[j])]
  BY <1>2 DEF Xor, IsText
<1> HIDE DEF w
<1>5. w = [j \in 1..HashLen |-> w[j]]
  BY <1>4
<1>6. IsText(w, HashLen)
  BY <1>5, StringOf, HashLenIs DEF IsText
<1>7. ASSUME NEW j \in 1..HashLen
      PROVE  w[j] = Iterated(h, salt, b, i + 1, j)
  <2>1. PICK n : n = i + 1 /\ n \in 1..MaxIterations
    OBVIOUS
  <2>2. \A x \in 1..i : x \in 1..MaxIterations /\ x # n
    BY <2>1, ServicesAssumption
  <2>3. 1..n = (1..i) \cup {n}
    BY <2>1
  <2>4. \A x \in 1..i : f[x][j] # f[n][j]
    <3> TAKE x \in 1..i
    <3>1. x \in 1..MaxIterations /\ x # n
      BY <2>2
    <3>2. U(h, salt, b)[x][j] # U(h, salt, b)[n][j]
      BY <2>1, <3>1, UApart
    <3> QED
      BY <1>1, <3>2
  <2>5. t[j] = {f[x][j] : x \in 1..i} /\ Iterated(h, salt, b, n, j) = {f[x][j] : x \in 1..n}
    BY <1>1, <1>2 DEF Iterated
  <2>6. v[j] = f[n][j]
    BY <1>3, <2>1
  <2>7. v[j] \notin t[j]
    BY <2>4, <2>5, <2>6
  <2>8. w[j] = t[j] \cup {v[j]}
    BY <1>4, <2>7
  <2>9. {f[x][j] : x \in 1..n} = {f[x][j] : x \in 1..i} \cup {f[n][j]}
    BY <2>3
  <2> QED
    BY <2>1, <2>5, <2>6, <2>8, <2>9
<1> QED
  BY <1>1, <1>3, <1>6, <1>7 DEF PbBegun, w

LEMMA PbBlockWorks ==
  ASSUME PbGood(job), Pbkdf2Block
  PROVE  PbGood(job')
<1>1. PICK at, h, salt, n, len, out, b, i, u, t :
        PbState(job, at, h, salt, n, len, out, b, i, u, t)
  BY DEF PbGood
<1>2. job = PbJob(at, h, salt, n, len, out, b, i, u, t)
  BY <1>1 DEF PbState
<1>3. /\ job.at = at /\ job.h = h /\ job.salt = salt /\ job.block_index = b
  BY <1>2, PbFields
<1>4. at = "block"
  BY <1>3 DEF Pbkdf2Block
<1>5. PICK v : v = hmac_sha512_once(h, FirstOf(salt, b))
  OBVIOUS
<1>6. PICK w : w = [j \in 1..HashLen |-> {v[j]}]
  OBVIOUS
<1>7. job' = [job EXCEPT !.at = "iterate", !.i = 1, !.u = v, !.t = w]
  BY <1>3, <1>5, <1>6 DEF Pbkdf2Block, FirstOf
<1>8. job' = PbJob("iterate", h, salt, n, len, out, b, 1, v, w)
  BY <1>2, <1>7 DEF PbJob
<1>9. /\ h \in Macs /\ salt \in Nat \ {0} /\ n \in 1..MaxIterations /\ len \in Nat \ {0}
      /\ b \in Nat \ {0} /\ PbAt(at, h, salt, n, len, out, b, i, u, t)
  BY <1>1 DEF PbState
<1>10. PbFilled(h, salt, n, len, out, b)
  BY <1>4, <1>9 DEF PbAt
<1>11. v = Hmac(h, Key(3), FirstOf(salt, b))
  BY <1>5, <1>9, PbOnce, MacsFit, FirstText
<1>12. 1 \in 1..MaxIterations /\ 1 \in 1..n
  BY <1>9, ServicesAssumption
<1>13. PbBegun(h, salt, b, 1, v, w)
  BY <1>6, <1>9, <1>11, <1>12, MacsFit, FirstRound
<1>14. PbAt("iterate", h, salt, n, len, out, b, 1, v, w)
  BY <1>10, <1>12, <1>13 DEF PbAt
<1>15. PbState(job', "iterate", h, salt, n, len, out, b, 1, v, w)
  BY <1>8, <1>9, <1>14 DEF PbState
<1> QED
  BY <1>15 DEF PbGood

LEMMA PbIterateWorks ==
  ASSUME PbGood(job), Pbkdf2Iterate
  PROVE  PbGood(job')
<1>1. PICK at, h, salt, n, len, out, b, i, u, t :
        PbState(job, at, h, salt, n, len, out, b, i, u, t)
  BY DEF PbGood
<1>2. job = PbJob(at, h, salt, n, len, out, b, i, u, t)
  BY <1>1 DEF PbState
<1>3. /\ job.at = at /\ job.h = h /\ job.u = u /\ job.i = i /\ job.t = t /\ job.iterations = n
  BY <1>2, PbFields
<1>4. at = "iterate" /\ i < n
  BY <1>3 DEF Pbkdf2Iterate
<1>5. PICK v : v = hmac_sha512_once(h, u)
  OBVIOUS
<1>6. PICK w : w = Xor(t, v)
  OBVIOUS
<1>7. job' = [job EXCEPT !.i = i + 1, !.u = v, !.t = w]
  BY <1>3, <1>5, <1>6 DEF Pbkdf2Iterate
<1>8. job' = PbJob("iterate", h, salt, n, len, out, b, i + 1, v, w)
  BY <1>2, <1>4, <1>7 DEF PbJob
<1>9. /\ h \in Macs /\ salt \in Nat \ {0} /\ n \in 1..MaxIterations /\ len \in Nat \ {0}
      /\ b \in Nat \ {0} /\ PbAt(at, h, salt, n, len, out, b, i, u, t)
  BY <1>1 DEF PbState
<1>10. /\ PbFilled(h, salt, n, len, out, b) /\ i \in 1..n
       /\ PbBegun(h, salt, b, i, u, t)
  BY <1>4, <1>9 DEF PbAt
<1>11. i \in 1..MaxIterations /\ i + 1 \in 1..MaxIterations /\ i + 1 \in 1..n
  BY <1>4, <1>9, <1>10, ServicesAssumption
<1>12. IsString(u)
  BY <1>9, <1>10, <1>11, MacsFit, UFacts DEF PbBegun, IsText
<1>13. v = Hmac(h, Key(3), u)
  BY <1>5, <1>9, <1>12, PbOnce, MacsFit
<1>14. PbBegun(h, salt, b, i + 1, v, w)
  BY <1>6, <1>9, <1>10, <1>11, <1>13, MacsFit, NextRound
<1>15. PbAt("iterate", h, salt, n, len, out, b, i + 1, v, w)
  BY <1>10, <1>11, <1>14 DEF PbAt
<1>16. PbState(job', "iterate", h, salt, n, len, out, b, i + 1, v, w)
  BY <1>8, <1>9, <1>15 DEF PbState
<1> QED
  BY <1>16 DEF PbGood

\* The byte j of the block after q blocks.
LEMMA PlaceOf ==
  ASSUME NEW b, NEW q, NEW j, b \in Nat \ {0}, q \in Nat, j \in 1..b
  PROVE  /\ b * q + j \in Nat \ {0} /\ b * q \in Nat
         /\ ((b * q + j) - 1) \div b = q /\ ((b * q + j) - 1) % b = j - 1
<1>1. b * q \in Nat /\ j - 1 \in 0..(b - 1)
  OBVIOUS
<1>2. PICK a : a = (b * q + j) - 1
  OBVIOUS
<1>3. a = b * q + (j - 1) /\ a \in Int /\ q \in Int
  BY <1>1, <1>2
<1>4. q = a \div b /\ j - 1 = a % b
  BY <1>1, <1>3, Quotient
<1> QED
  BY <1>1, <1>2, <1>4

LEMMA HeadText ==
  ASSUME NEW t, NEW n, NEW c, IsText(t, n), c \in 0..n
  PROVE  IsText(SubSeq(t, 1, c), c) /\ \A j \in 1..c : SubSeq(t, 1, c)[j] = t[j]
<1>1. IsString(t) /\ n \in Nat /\ Len(t) = n
  BY DEF IsText
<1>2. 1 \in 1..(Len(t) + 1) /\ c \in (1 - 1)..Len(t) /\ c - 1 + 1 = c
      /\ \A j \in 1..c : 1 + j - 1 = j
  BY <1>1
<1>3. /\ IsString(SubSeq(t, 1, c)) /\ Len(SubSeq(t, 1, c)) = c - 1 + 1
      /\ \A i \in 1..(c - 1 + 1) : SubSeq(t, 1, c)[i] = t[1 + i - 1]
  BY <1>1, <1>2, CutString
<1>4. c \in Nat
  BY <1>1
<1> QED
  BY <1>2, <1>3, <1>4 DEF IsText

LEMMA BlockAdded ==
  ASSUME NEW h, NEW salt, NEW it, NEW out, NEW n, NEW q, NEW t, NEW c,
         PbRight(h, salt, it, out, n), q \in Nat, n = HashLen * q, c \in 1..HashLen,
         IsText(t, HashLen), \A j \in 1..HashLen : t[j] = Iterated(h, salt, q + 1, it, j)
  PROVE  PbRight(h, salt, it, out \o SubSeq(t, 1, c), n + c)
<1>1. PICK b \in Nat \ {0} : b = HashLen
  BY HashLenIs
<1>2. PICK s : s = SubSeq(t, 1, c)
  OBVIOUS
<1>3. c \in 0..HashLen /\ c \in Nat
  BY <1>1
<1>4. IsText(s, c) /\ \A j \in 1..c : s[j] = t[j]
  BY <1>2, <1>3, HeadText
<1>5. IsText(out, n) /\ n \in Nat /\ \A k \in 1..n : out[k] = KeyByte(h, salt, it, k)
  BY DEF PbRight, IsText
<1>6. PICK u : u = out \o s
  OBVIOUS
<1>7. Joint(u, out, n, s, c)
  BY <1>4, <1>5, <1>6, JointText
<1>8. ASSUME NEW k \in 1..(n + c)
      PROVE  u[k] = KeyByte(h, salt, it, k)
  <2>1. CASE k \in 1..n
    BY <1>5, <1>7, <2>1 DEF Joint
  <2>2. CASE ~(k \in 1..n)
    <3>1. PICK j \in 1..c : k = n + j
      <4>1. k - n \in 1..c /\ k = n + (k - n)
        BY <1>3, <1>5, <2>2
      <4> QED
        BY <4>1
    <3>2. j \in 1..b /\ k = b * q + j
      BY <1>1, <3>1
    <3>3. (k - 1) \div b = q /\ (k - 1) % b = j - 1
      BY <3>2, PlaceOf
    <3>4. (j - 1) + 1 = j
      BY <3>2
    <3>5. KeyByte(h, salt, it, k) = Iterated(h, salt, q + 1, it, j)
      BY <1>1, <3>3, <3>4 DEF KeyByte
    <3>6. u[k] = s[j]
      BY <1>7, <3>1 DEF Joint
    <3>7. s[j] = t[j]
      BY <1>4, <3>1
    <3>8. t[j] = Iterated(h, salt, q + 1, it, j)
      BY <1>1, <3>2
    <3> QED
      BY <3>5, <3>6, <3>7, <3>8
  <2> QED
    BY <2>1, <2>2
<1>9. IsText(u, n + c)
  BY <1>7 DEF Joint
<1> QED
  BY <1>2, <1>6, <1>8, <1>9 DEF PbRight

LEMMA PbCopyWorks ==
  ASSUME PbGood(job), Pbkdf2Copy
  PROVE  PbGood(job')
<1>1. PICK at, h, salt, it, len, out, b, i, u, t :
        PbState(job, at, h, salt, it, len, out, b, i, u, t)
  BY DEF PbGood
<1>2. job = PbJob(at, h, salt, it, len, out, b, i, u, t)
  BY <1>1 DEF PbState
<1>3. /\ job.at = at /\ job.h = h /\ job.out = out /\ job.i = i /\ job.t = t
      /\ job.iterations = it /\ job.out_len = len /\ job.block_index = b
  BY <1>2, PbFields
<1>4. at = "iterate" /\ i = it
  BY <1>3 DEF Pbkdf2Copy
<1>5. /\ h \in Macs /\ salt \in Nat \ {0} /\ it \in 1..MaxIterations /\ len \in Nat \ {0}
      /\ b \in Nat \ {0} /\ PbAt(at, h, salt, it, len, out, b, i, u, t)
  BY <1>1 DEF PbState
<1>6. PbFilled(h, salt, it, len, out, b) /\ PbBegun(h, salt, b, it, u, t)
  BY <1>4, <1>5 DEF PbAt
<1>7. PICK n \in Nat : n = HashLen * (b - 1) /\ n < len /\ PbRight(h, salt, it, out, n)
  BY <1>6 DEF PbFilled
<1>8. IsText(t, HashLen) /\ \A j \in 1..HashLen : t[j] = Iterated(h, salt, b, it, j)
  BY <1>6 DEF PbBegun
<1>9. PICK l \in Nat \ {0} : l = HashLen
  BY HashLenIs
<1>10. PICK left \in Nat \ {0} : left = len - n
  BY <1>5, <1>7
<1>11. PICK c \in 1..l : c = IF left > l THEN l ELSE left
  BY <1>9, <1>10
<1>12. Len(out) = n
  BY <1>7 DEF PbRight, IsText
<1>13. PICK new : new = out \o SubSeq(t, 1, c)
  OBVIOUS
<1>14. job' = [job EXCEPT !.out = new, !.block_index = b + 1,
                          !.at = IF left > l THEN "block" ELSE "done"]
  BY <1>3, <1>9, <1>10, <1>11, <1>12, <1>13 DEF Pbkdf2Copy
<1>15. PICK q \in Nat : q = b - 1 /\ b = q + 1
  <2>1. b - 1 \in Nat /\ b = (b - 1) + 1
    BY <1>5
  <2> QED
    BY <2>1
<1>16. PbRight(h, salt, it, new, n + c)
  <2>1. n = HashLen * q /\ c \in 1..HashLen
    BY <1>7, <1>9, <1>15
  <2>2. \A j \in 1..HashLen : t[j] = Iterated(h, salt, q + 1, it, j)
    BY <1>8, <1>15
  <2> QED
    BY <1>7, <1>8, <1>13, <2>1, <2>2, BlockAdded
<1>17. CASE left > l
  <2>1. job' = PbJob("block", h, salt, it, len, new, b + 1, i, u, t)
    BY <1>2, <1>14, <1>17 DEF PbJob
  <2>2. n + c = HashLen * ((b + 1) - 1) /\ n + c < len /\ n + c \in Nat
    <3>1. c = l
      BY <1>11, <1>17
    <3>2. n = l * q /\ l * q \in Nat /\ l * b = l * q + l /\ (b + 1) - 1 = b
      BY <1>7, <1>9, <1>15
    <3>3. n + c = l * b
      BY <3>1, <3>2
    <3>4. n + c < len /\ n + c \in Nat
      BY <1>5, <1>10, <1>17, <3>1
    <3> QED
      BY <1>9, <3>2, <3>3, <3>4
  <2>3. PbFilled(h, salt, it, len, new, b + 1)
    BY <1>16, <2>2 DEF PbFilled
  <2>4. PbAt("block", h, salt, it, len, new, b + 1, i, u, t)
    BY <2>3 DEF PbAt
  <2>5. b + 1 \in Nat \ {0}
    BY <1>5
  <2>6. PbState(job', "block", h, salt, it, len, new, b + 1, i, u, t)
    BY <1>5, <2>1, <2>4, <2>5 DEF PbState
  <2> QED
    BY <2>6 DEF PbGood
<1>18. CASE ~(left > l)
  <2>1. job' = PbJob("done", h, salt, it, len, new, b + 1, i, u, t)
    BY <1>2, <1>14, <1>18 DEF PbJob
  <2>2. n + c = len
    BY <1>5, <1>7, <1>10, <1>11, <1>18
  <2>3. PbAt("done", h, salt, it, len, new, b + 1, i, u, t)
    BY <1>16, <2>2 DEF PbAt
  <2>4. b + 1 \in Nat \ {0}
    BY <1>5
  <2>5. PbState(job', "done", h, salt, it, len, new, b + 1, i, u, t)
    BY <1>5, <2>1, <2>3, <2>4 DEF PbState
  <2> QED
    BY <2>5 DEF PbGood
<1> QED
  BY <1>17, <1>18

LEMMA PbIs ==
  ASSUME PbGood(job), job.at = "done"
  PROVE  Pbkdf2Agrees
<1>1. PICK at, h, salt, it, len, out, b, i, u, t :
        PbState(job, at, h, salt, it, len, out, b, i, u, t)
  BY DEF PbGood
<1>2. job = PbJob(at, h, salt, it, len, out, b, i, u, t)
  BY <1>1 DEF PbState
<1>3. /\ job.at = at /\ job.h = h /\ job.out = out /\ job.salt = salt
      /\ job.iterations = it /\ job.out_len = len
  BY <1>2, PbFields
<1>4. PbRight(h, salt, it, out, len)
  BY <1>1, <1>3 DEF PbState, PbAt
<1>5. Len(out) = len /\ \A k \in 1..len : out[k] = KeyByte(h, salt, it, k)
  BY <1>4 DEF PbRight, IsText
<1>6. /\ Len(job.out) = job.out_len
      /\ \A k \in 1..job.out_len :
           job.out[k] = KeyByte(job.h, job.salt, job.iterations, k)
  BY <1>3, <1>5
<1> QED
  BY <1>6, Zenon DEF Pbkdf2Agrees, KeyByte, Iterated

-----------------------------------------------------------------------------
(* The bytes of HKDF.                                                        *)
ChunkData(k, before, info) ==
  (IF k = 1 THEN <<>> ELSE before) \o info \o <<ChunkNumber(k)>>

IsChunks(f, h, prk, info, n) ==
  f = [k \in 1..n |-> Hmac(h, prk, ChunkData(k, f[k - 1], info))]

LEMMA ChunksExist ==
  ASSUME NEW h, NEW prk, NEW info
  PROVE  \A n \in Nat : \E f : IsChunks(f, h, prk, info, n)
<1> DEFINE S == {n \in Nat : \E f : IsChunks(f, h, prk, info, n)}
<1>1. 0 \in S
  <2> DEFINE f == [k \in 1..0 |-> <<>>]
  <2>1. f = [k \in 1..0 |-> Hmac(h, prk, ChunkData(k, f[k - 1], info))]
    OBVIOUS
  <2>2. IsChunks(f, h, prk, info, 0)
    BY <2>1, Zenon DEF IsChunks
  <2> QED
    BY <2>2
<1>2. ASSUME NEW n \in Nat, n \in S
      PROVE  n + 1 \in S
  <2>1. PICK f : IsChunks(f, h, prk, info, n)
    BY <1>2
  <2> DEFINE g == [k \in 1..(n + 1) |->
                     IF k = n + 1 THEN Hmac(h, prk, ChunkData(n + 1, f[n], info)) ELSE f[k]]
             e == [k \in 1..(n + 1) |-> Hmac(h, prk, ChunkData(k, g[k - 1], info))]
  <2>2. ASSUME NEW k \in 1..(n + 1)
        PROVE  g[k] = Hmac(h, prk, ChunkData(k, g[k - 1], info))
    <3>1. CASE k = n + 1
      <4>1. CASE n = 0
        <5>1. k = 1 /\ n + 1 = 1
          BY <3>1, <4>1
        <5>2. g[k] = Hmac(h, prk, ChunkData(1, f[n], info))
          BY <3>1, <5>1
        <5>3. ChunkData(1, f[n], info) = ChunkData(1, g[k - 1], info)
          BY Zenon DEF ChunkData
        <5> QED
          BY <5>1, <5>2, <5>3
      <4>2. CASE n # 0
        <5>1. k - 1 = n /\ n \in 1..(n + 1) /\ n # n + 1
          BY <3>1, <4>2
        <5>2. g[k - 1] = f[n]
          BY <5>1
        <5> QED
          BY <3>1, <5>2
      <4> QED
        BY <4>1, <4>2
    <3>2. CASE k # n + 1
      <4>1. k \in 1..n
        BY <3>2
      <4>2. f[k] = Hmac(h, prk, ChunkData(k, f[k - 1], info))
        BY <2>1, <4>1 DEF IsChunks
      <4>3. ChunkData(k, f[k - 1], info) = ChunkData(k, g[k - 1], info)
        <5>1. CASE k = 1
          BY <5>1, Zenon DEF ChunkData
        <5>2. CASE k # 1
          <6>1. k - 1 \in 1..(n + 1) /\ k - 1 # n + 1
            BY <4>1, <5>2
          <6>2. g[k - 1] = f[k - 1]
            BY <6>1
          <6> QED
            BY <6>2
        <5> QED
          BY <5>1, <5>2
      <4>4. g[k] = f[k]
        BY <3>2
      <4> QED
        BY <4>2, <4>3, <4>4
    <3> QED
      BY <3>1, <3>2
  <2>3. g = e
    <3>1. g = [k \in 1..(n + 1) |-> g[k]]
      OBVIOUS
    <3> HIDE DEF g
    <3> QED
      BY <2>2, <3>1, Zenon
  <2>4. IsChunks(g, h, prk, info, n + 1)
    BY <2>3, Zenon DEF IsChunks
  <2> QED
    BY <2>4
<1> HIDE DEF S
<1>3. \A n \in Nat : n \in S
  BY <1>1, <1>2, Induction
<1> QED
  BY <1>3 DEF S

LEMMA HkdfIs ==
  ASSUME NEW h, NEW salt, NEW ikm, NEW info
  PROVE  IsChunks(Hkdf(h, salt, ikm, info), h, Hmac(h, salt, ikm), info, MaxChunks)
<1>1. PICK prk : prk = Hmac(h, salt, ikm)
  OBVIOUS
<1> DEFINE P(f) == IsChunks(f, h, prk, info, MaxChunks)
<1>2. PICK a : a = CHOOSE f : P(f)
  OBVIOUS
<1>3. Hkdf(h, salt, ikm, info) = a
  BY <1>1, <1>2 DEF Hkdf, IsChunks, ChunkData
<1>4. \E f : P(f)
  BY HashAssumption, ChunksExist
<1> HIDE DEF P
<1>5. P(a)
  BY <1>2, <1>4
<1> QED
  BY <1>1, <1>3, <1>5 DEF P

\* The chunks t are those of the key prk.
ChunksOf(t, h, prk, info) ==
  /\ \A k \in 1..MaxChunks :
       IsText(t[k], HashLen) /\ t[k] = Hmac(h, prk, ChunkData(k, t[k - 1], info))
  /\ IsString(prk)

LEMMA HkdfChunks ==
  ASSUME NEW h, NEW salt, NEW ikm, NEW info, ForMac(h)
  PROVE  ChunksOf(Hkdf(h, salt, ikm, info), h, Hmac(h, salt, ikm), info)
<1>1. PICK prk : prk = Hmac(h, salt, ikm)
  OBVIOUS
<1>2. PICK t : t = Hkdf(h, salt, ikm, info)
  OBVIOUS
<1>3. t = [k \in 1..MaxChunks |-> Hmac(h, prk, ChunkData(k, t[k - 1], info))]
  BY <1>1, <1>2, HkdfIs DEF IsChunks
<1>4. \A k \in 1..MaxChunks : t[k] = Hmac(h, prk, ChunkData(k, t[k - 1], info))
  BY <1>3
<1>5. \A k \in 1..MaxChunks : IsText(t[k], HashLen)
  BY <1>4, HmacByte
<1>6. IsString(prk)
  BY <1>1, HmacByte DEF IsText
<1> QED
  BY <1>1, <1>2, <1>4, <1>5, <1>6 DEF ChunksOf

ChunkByte(t, k) == t[((k - 1) \div HashLen) + 1][((k - 1) % HashLen) + 1]

HkContext(inner, prk, ptr, chunk, buf) ==
  [hmac |-> inner, prk |-> prk, ptr |-> ptr, chunk_num |-> chunk, buf |-> buf]

\* Where the context stands when n bytes have gone out.
HkAt(t, c, p, buf, n) ==
  /\ c \in 0..MaxChunks /\ p \in 0..HashLen /\ n \in Nat
  /\ \/ c = 0 /\ p = HashLen /\ n = 0
     \/ c # 0 /\ buf = t[c] /\ n = HashLen * (c - 1) + p

HkPlace(hc, key, t, n) ==
  \E inner, buf, c, p : hc = HkContext(inner, key, p, c, buf) /\ HkAt(t, c, p, buf, n)

LEMMA HkLimit ==
  ASSUME NEW t, NEW c, NEW p, NEW buf, NEW n, HkAt(t, c, p, buf, n)
  PROVE  /\ n <= HashLen * MaxChunks /\ HashLen * MaxChunks \in Nat
         /\ (p = HashLen /\ c = MaxChunks) => n = HashLen * MaxChunks
         /\ p = HashLen => n = HashLen * c
<1>1. PICK l \in Nat \ {0}, m \in Nat \ {0} : l = HashLen /\ m = MaxChunks
  BY HashAssumption
<1>2. /\ c \in 0..m /\ p \in 0..l /\ n \in Nat
      /\ \/ c = 0 /\ p = l /\ n = 0
         \/ c # 0 /\ n = l * (c - 1) + p
  BY <1>1 DEF HkAt
<1>3. l * m \in Nat /\ l * (c - 1) + l = l * c /\ l * c <= l * m
  BY <1>2, Product
<1>4. l * 0 = 0
  OBVIOUS
<1>5. CASE c = 0
  BY <1>1, <1>2, <1>3, <1>4, <1>5
<1>6. CASE c # 0
  <2>1. n = l * (c - 1) + p /\ l * (c - 1) \in Int
    BY <1>2, <1>6
  <2>2. n <= l * c /\ l * c \in Int /\ (p = l => n = l * c)
    BY <1>2, <1>3, <2>1
  <2>3. n <= l * m /\ ((p = l /\ c = m) => n = l * m)
    BY <1>2, <1>3, <2>2
  <2> QED
    BY <1>1, <1>3, <2>2, <2>3
<1> QED
  BY <1>5, <1>6

\* The next chunk is made of the one before it.
LEMMA NextChunkIs ==
  ASSUME NEW h, NEW inner, NEW prk, NEW c, NEW buf, NEW info, NEW t, NEW p, ForMac(h),
         ChunksOf(t, h, prk, info), IsString(info), c \in 0..(MaxChunks - 1),
         c # 0 => buf = t[c]
  PROVE  NextChunk(h, HkContext(inner, br_hmac_key_init(h, prk), p, c, buf), info)
           = HkContext(inner, br_hmac_key_init(h, prk), 0, c + 1, t[c + 1])
<1>1. PICK key : key = br_hmac_key_init(h, prk)
  OBVIOUS
<1>2. PICK hc : hc = HkContext(inner, key, p, c, buf)
  OBVIOUS
<1>3. hc.prk = key /\ hc.chunk_num = c /\ hc.buf = buf
  BY <1>2 DEF HkContext
<1>4. PICK n : n = c + 1 /\ n \in 1..MaxChunks /\ n % (MaxChunks + 1) = n /\ (n = 1 <=> c = 0)
            /\ n - 1 = c
  <2>1. MaxChunks \in Nat \ {0}
    BY HashAssumption
  <2>2. c + 1 \in 1..MaxChunks /\ (c + 1 = 1 <=> c = 0) /\ (c + 1) - 1 = c
    BY <2>1
  <2>3. (c + 1) % (MaxChunks + 1) = c + 1
    BY <2>1
  <2> QED
    BY <2>2, <2>3
<1>5. PICK data : data = ChunkData(n, buf, info)
  OBVIOUS
<1>6. NextChunk(h, hc, info)
        = [hc EXCEPT !.chunk_num = n, !.ptr = 0, !.buf = hmac(h, key, data)]
  BY <1>3, <1>4, <1>5 DEF NextChunk, ChunkData
<1>7. data = ChunkData(n, t[n - 1], info)
  BY <1>4, <1>5 DEF ChunkData
<1>8. IsString(data)
  <2>1. IsString(IF n = 1 THEN <<>> ELSE t[n - 1])
    <3>1. n # 1 => n - 1 \in 1..MaxChunks
      BY <1>4, HashAssumption
    <3> QED
      BY <3>1, Empty DEF ChunksOf, IsText
  <2>2. PICK s : s = IF n = 1 THEN <<>> ELSE t[n - 1]
    OBVIOUS
  <2>3. data = (s \o info) \o <<ChunkNumber(n)>>
    BY <1>7, <2>2 DEF ChunkData
  <2>4. IsString(s \o info)
    BY <2>1, <2>2, Joined
  <2> QED
    BY <2>3, <2>4, Joined, Single
<1>9. hmac(h, key, data) = t[n]
  <2>1. IsString(prk) /\ t[n] = Hmac(h, prk, ChunkData(n, t[n - 1], info))
    BY <1>4 DEF ChunksOf
  <2>2. hmac(h, key, data) = Hmac(h, prk, data)
    BY <1>1, <1>8, <2>1, HmacOnce
  <2> QED
    BY <1>7, <2>1, <2>2
<1>10. PICK new : new = t[n]
  OBVIOUS
<1>11. NextChunk(h, hc, info) = [hc EXCEPT !.chunk_num = n, !.ptr = 0, !.buf = new]
  BY <1>6, <1>9, <1>10
<1>12. NextChunk(h, hc, info) = HkContext(inner, key, 0, n, new)
  BY <1>2, <1>11 DEF HkContext
<1> QED
  BY <1>1, <1>2, <1>4, <1>10, <1>12

\* One turn of the loop that gives the bytes.
ProduceByte(h, info, s) ==
  IF s.ended THEN s
  ELSE IF s.hc.ptr = HashLen /\ s.hc.chunk_num = MaxChunks
    THEN [s EXCEPT !.hc.chunk_num = @ + 1, !.ended = TRUE]
  ELSE LET c == IF s.hc.ptr = HashLen THEN NextChunk(h, s.hc, info) ELSE s.hc IN
       [s EXCEPT !.hc = [c EXCEPT !.ptr = @ + 1], !.out = Append(@, c.buf[c.ptr + 1])]

NoBytes(hc) == [hc |-> hc, out |-> <<>>, ended |-> FALSE]

IsProduce(f, h, hc, info, n) ==
  f = [k \in 0..n |-> IF k = 0 THEN NoBytes(hc) ELSE ProduceByte(h, info, f[k - 1])]

LEMMA ProduceExists ==
  ASSUME NEW h, NEW hc, NEW info
  PROVE  \A n \in Nat : \E f : IsProduce(f, h, hc, info, n)
<1> DEFINE S == {n \in Nat : \E f : IsProduce(f, h, hc, info, n)}
<1>1. 0 \in S
  <2> DEFINE f == [u \in 0..0 |-> NoBytes(hc)]
  <2>1. IsProduce(f, h, hc, info, 0)
    BY DEF IsProduce
  <2> QED
    BY <2>1
<1>2. ASSUME NEW n \in Nat, n \in S
      PROVE  n + 1 \in S
  <2>1. PICK f : IsProduce(f, h, hc, info, n)
    BY <1>2
  <2> DEFINE g == [u \in 0..(n + 1) |->
                     IF u = n + 1 THEN ProduceByte(h, info, f[n]) ELSE f[u]]
             e == [u \in 0..(n + 1) |->
                     IF u = 0 THEN NoBytes(hc) ELSE ProduceByte(h, info, g[u - 1])]
  <2>2. ASSUME NEW u \in 0..(n + 1)
        PROVE  g[u] = IF u = 0 THEN NoBytes(hc) ELSE ProduceByte(h, info, g[u - 1])
    <3>1. CASE u = n + 1
      <4>1. u - 1 = n /\ n \in 0..(n + 1) /\ n # n + 1 /\ u # 0
        BY <3>1
      <4> QED
        BY <3>1, <4>1
    <3>2. CASE u # n + 1
      <4>1. u \in 0..n /\ (u # 0 => u - 1 \in 0..(n + 1) /\ u - 1 # n + 1)
        BY <3>2
      <4>2. f[u] = IF u = 0 THEN NoBytes(hc) ELSE ProduceByte(h, info, f[u - 1])
        BY <2>1, <4>1 DEF IsProduce
      <4> QED
        BY <3>2, <4>1, <4>2
    <3> QED
      BY <3>1, <3>2
  <2>3. g = e
    <3>1. g = [u \in 0..(n + 1) |-> g[u]]
      OBVIOUS
    <3> HIDE DEF g
    <3> QED
      BY <2>2, <3>1, Zenon
  <2>4. IsProduce(g, h, hc, info, n + 1)
    BY <2>3, Zenon DEF IsProduce
  <2> QED
    BY <2>4
<1> HIDE DEF S
<1>3. \A n \in Nat : n \in S
  BY <1>1, <1>2, Induction
<1> QED
  BY <1>3 DEF S

LEMMA ProduceIs ==
  ASSUME NEW h, NEW hc, NEW info, NEW n, n \in Nat
  PROVE  \E f : IsProduce(f, h, hc, info, n) /\ br_hkdf_produce(h, hc, info, n) = f[n]
<1> DEFINE P(f) == IsProduce(f, h, hc, info, n)
<1>1. PICK a : a = CHOOSE f : P(f)
  OBVIOUS
<1>2. br_hkdf_produce(h, hc, info, n) = a[n]
  BY <1>1 DEF br_hkdf_produce, IsProduce, ProduceByte, NoBytes
<1>3. \E f : P(f)
  BY ProduceExists
<1> HIDE DEF P
<1>4. P(a)
  BY <1>1, <1>3
<1> QED
  BY <1>2, <1>4 DEF P

GivenBytes(out, m, t, n) ==
  IsText(out, m) /\ \A i \in 1..m : out[i] = ChunkByte(t, n + i)

Produced(hc, out, ended) == [hc |-> hc, out |-> out, ended |-> ended]

\* After k turns, when n bytes had gone out before.
ProducedSo(s, key, t, n, k) ==
  \E hc, out, ended, m :
    /\ s = Produced(hc, out, ended) /\ GivenBytes(out, m, t, n) /\ m \in Nat
    /\ \/ ended = FALSE /\ m = k /\ HkPlace(hc, key, t, n + k)
       \/ ended = TRUE /\ m < k /\ n + m = HashLen * MaxChunks

LEMMA OneGiven ==
  ASSUME NEW out, NEW m, NEW t, NEW n, NEW x, GivenBytes(out, m, t, n), m \in Nat,
         n \in Nat, x = ChunkByte(t, n + (m + 1))
  PROVE  GivenBytes(Append(out, x), m + 1, t, n)
<1>1. IsText(out, m) /\ IsText(<<x>>, 1) /\ <<x>>[1] = x
  BY Single DEF GivenBytes, IsText
<1>2. PICK u : u = out \o <<x>>
  OBVIOUS
<1>3. Append(out, x) = u
  BY <1>1, <1>2, Appended DEF IsText
<1>4. Joint(u, out, m, <<x>>, 1)
  BY <1>1, <1>2, JointText
<1>5. ASSUME NEW i \in 1..(m + 1)
      PROVE  u[i] = ChunkByte(t, n + i)
  <2>1. CASE i = m + 1
    <3>1. 1 \in 1..1
      OBVIOUS
    <3>2. u[m + 1] = <<x>>[1]
      BY <1>4, <3>1 DEF Joint
    <3> QED
      BY <1>1, <2>1, <3>2
  <2>2. CASE i # m + 1
    <3>1. i \in 1..m
      BY <2>2
    <3> QED
      BY <1>4, <3>1 DEF Joint, GivenBytes
  <2> QED
    BY <2>1, <2>2
<1> QED
  BY <1>3, <1>4, <1>5 DEF Joint, GivenBytes

\* A byte of the chunk there is.
LEMMA ByteGiven ==
  ASSUME NEW t, NEW c, NEW p, NEW n, c \in Nat \ {0}, p \in Nat, p < HashLen,
         n = HashLen * (c - 1) + p
  PROVE  t[c][p + 1] = ChunkByte(t, n + 1)
<1>1. PICK l \in Nat \ {0} : l = HashLen
  BY HashLenIs
<1>2. PICK q \in Nat : q = c - 1 /\ q + 1 = c
  <2>1. c - 1 \in Nat /\ (c - 1) + 1 = c
    OBVIOUS
  <2> QED
    BY <2>1
<1>3. p + 1 \in 1..l
  BY <1>1
<1>4. PICK j \in 1..l : j = p + 1 /\ (j - 1) + 1 = j
  BY <1>3
<1>5. l * q \in Nat /\ n + 1 = l * q + j
  BY <1>1, <1>2, <1>4
<1>6. PICK k : k = n + 1
  OBVIOUS
<1>7. (k - 1) \div l = q /\ (k - 1) % l = j - 1
  BY <1>5, <1>6, PlaceOf
<1> QED
  BY <1>1, <1>2, <1>4, <1>6, <1>7 DEF ChunkByte

LEMMA ProduceOne ==
  ASSUME NEW h, NEW s, NEW prk, NEW t, NEW n, NEW k, NEW info, ForMac(h), IsString(info),
         ChunksOf(t, h, prk, info), n \in Nat, k \in Nat,
         ProducedSo(s, br_hmac_key_init(h, prk), t, n, k)
  PROVE  ProducedSo(ProduceByte(h, info, s), br_hmac_key_init(h, prk), t, n, k + 1)
<1>1. PICK key : key = br_hmac_key_init(h, prk)
  OBVIOUS
<1>2. PICK hc, out, ended, m :
        /\ s = Produced(hc, out, ended) /\ GivenBytes(out, m, t, n) /\ m \in Nat
        /\ \/ ended = FALSE /\ m = k /\ HkPlace(hc, key, t, n + k)
           \/ ended = TRUE /\ m < k /\ n + m = HashLen * MaxChunks
  BY <1>1 DEF ProducedSo
<1>3. s.hc = hc /\ s.out = out /\ s.ended = ended
  BY <1>2 DEF Produced
<1>4. CASE ended = TRUE
  <2>1. ProduceByte(h, info, s) = s
    BY <1>3, <1>4 DEF ProduceByte
  <2>2. m < k + 1 /\ n + m = HashLen * MaxChunks
    BY <1>2, <1>4
  <2> QED
    BY <1>1, <1>2, <1>4, <2>1, <2>2 DEF ProducedSo
<1>5. CASE ended = FALSE
  <2>1. m = k /\ HkPlace(hc, key, t, n + k)
    BY <1>2, <1>5
  <2>2. PICK inner, buf, c, p :
          hc = HkContext(inner, key, p, c, buf) /\ HkAt(t, c, p, buf, n + k)
    BY <2>1 DEF HkPlace
  <2>3. hc.ptr = p /\ hc.chunk_num = c /\ hc.buf = buf
    BY <2>2 DEF HkContext
  <2>4. PICK l \in Nat \ {0}, max \in Nat \ {0} : l = HashLen /\ max = MaxChunks
    BY HashAssumption
  <2>5. c \in 0..max /\ p \in 0..l /\ n + k \in Nat
    BY <2>2, <2>4 DEF HkAt
  <2>6. CASE p = l /\ c = max
    <3>1. ProduceByte(h, info, s) = [s EXCEPT !.hc.chunk_num = @ + 1, !.ended = TRUE]
      BY <1>3, <1>5, <2>3, <2>4, <2>6 DEF ProduceByte
    <3>2. PICK c2 : c2 = [hc EXCEPT !.chunk_num = @ + 1]
      OBVIOUS
    <3>3. ProduceByte(h, info, s) = Produced(c2, out, TRUE)
      BY <1>2, <3>1, <3>2 DEF Produced
    <3>4. n + m = HashLen * MaxChunks /\ m < k + 1
      BY <2>1, <2>2, <2>4, <2>6, HkLimit
    <3> QED
      BY <1>1, <1>2, <3>3, <3>4 DEF ProducedSo
  <2>7. CASE ~(p = l /\ c = max)
    <3>1. PICK now : now = IF p = l THEN NextChunk(h, hc, info) ELSE hc
      OBVIOUS
    <3>2. ProduceByte(h, info, s)
            = [s EXCEPT !.hc = [now EXCEPT !.ptr = @ + 1],
                        !.out = Append(@, now.buf[now.ptr + 1])]
      BY <1>3, <1>5, <2>3, <2>4, <2>7, <3>1 DEF ProduceByte
    <3>3. \E buf2 : \E c2 \in 1..max, p2 \in 0..(l - 1) :
            /\ now = HkContext(inner, key, p2, c2, buf2) /\ buf2 = t[c2]
            /\ n + k = l * (c2 - 1) + p2
      <4>1. CASE p = l
        <5>1. c \in 0..(max - 1) /\ c + 1 \in 1..max /\ (c + 1) - 1 = c
          BY <2>5, <2>7, <4>1
        <5>2. c # 0 => buf = t[c]
          BY <2>2 DEF HkAt
        <5>3. now = HkContext(inner, key, 0, c + 1, t[c + 1])
          BY <1>1, <2>2, <2>4, <3>1, <4>1, <5>1, <5>2, NextChunkIs
        <5>4. n + k = l * c
          BY <2>2, <2>4, <4>1, HkLimit
        <5>5. l * c \in Nat
          BY <2>5
        <5>6. n + k = l * ((c + 1) - 1) + 0
          BY <5>1, <5>4, <5>5
        <5>7. 0 \in 0..(l - 1)
          OBVIOUS
        <5> QED
          BY <5>1, <5>3, <5>6, <5>7
      <4>2. CASE p # l
        <5>1. c # 0 /\ buf = t[c] /\ n + k = l * (c - 1) + p
          BY <2>2, <2>4, <4>2 DEF HkAt
        <5>2. c \in 1..max /\ p \in 0..(l - 1) /\ now = hc
          BY <2>5, <3>1, <4>2, <5>1
        <5> QED
          BY <2>2, <5>1, <5>2
      <4> QED
        BY <4>1, <4>2
    <3>4. PICK buf2 : \E c2 \in 1..max, p2 \in 0..(l - 1) :
            /\ now = HkContext(inner, key, p2, c2, buf2) /\ buf2 = t[c2]
            /\ n + k = l * (c2 - 1) + p2
      BY <3>3
    <3>5. PICK c2 \in 1..max, p2 \in 0..(l - 1) :
            /\ now = HkContext(inner, key, p2, c2, buf2) /\ buf2 = t[c2]
            /\ n + k = l * (c2 - 1) + p2
      BY <3>4
    <3>6. now.buf = buf2 /\ now.ptr = p2
      BY <3>5 DEF HkContext
    <3>7. PICK q : q = p2 + 1
      OBVIOUS
    <3>8. PICK next : next = [now EXCEPT !.ptr = q]
      OBVIOUS
    <3>9. PICK x : x = buf2[q]
      OBVIOUS
    <3>10. PICK o : o = Append(out, x)
      OBVIOUS
    <3>11. ProduceByte(h, info, s) = [s EXCEPT !.hc = next, !.out = o]
      BY <1>3, <3>2, <3>6, <3>7, <3>8, <3>9, <3>10
    <3>12. ProduceByte(h, info, s) = Produced(next, o, FALSE)
      BY <1>2, <1>5, <3>11 DEF Produced
    <3>13. next = HkContext(inner, key, q, c2, buf2)
      BY <3>5, <3>8 DEF HkContext
    <3>14. HkAt(t, c2, q, buf2, n + (k + 1))
      <4>1. n + (k + 1) = l * (c2 - 1) + q /\ q \in 0..l /\ n + (k + 1) \in Nat
        <5>1. l * (c2 - 1) \in Int
          BY <3>5
        <5> QED
          BY <3>5, <3>7, <5>1
      <4>2. c2 \in 0..max /\ c2 # 0
        OBVIOUS
      <4> QED
        BY <2>4, <3>5, <4>1, <4>2 DEF HkAt
    <3>15. x = ChunkByte(t, n + (m + 1))
      <4>1. n + (m + 1) = (n + k) + 1
        BY <2>1
      <4>2. PICK y : y = n + k /\ y = HashLen * (c2 - 1) + p2
        BY <2>4, <3>5
      <4>3. t[c2][p2 + 1] = ChunkByte(t, y + 1)
        <5>1. c2 \in Nat \ {0} /\ p2 \in Nat /\ p2 < HashLen
          BY <2>4
        <5> QED
          BY <4>2, <5>1, ByteGiven
      <4> QED
        BY <3>5, <3>7, <3>9, <4>1, <4>2, <4>3
    <3>16. GivenBytes(o, m + 1, t, n)
      BY <1>2, <3>10, <3>15, OneGiven
    <3>17. HkPlace(next, key, t, n + (k + 1))
      BY <3>13, <3>14 DEF HkPlace
    <3>18. m + 1 = k + 1 /\ m + 1 \in Nat
      BY <2>1
    <3> QED
      BY <1>1, <3>12, <3>16, <3>17, <3>18 DEF ProducedSo
  <2> QED
    BY <2>6, <2>7
<1> QED
  BY <1>2, <1>4, <1>5

\* All bytes that are asked for, or those that are left.
LEMMA ProduceAll ==
  ASSUME NEW h, NEW hc, NEW prk, NEW t, NEW n, NEW k, NEW info, ForMac(h), IsString(info),
         ChunksOf(t, h, prk, info), n \in Nat, k \in Nat,
         HkPlace(hc, br_hmac_key_init(h, prk), t, n)
  PROVE  ProducedSo(br_hkdf_produce(h, hc, info, k), br_hmac_key_init(h, prk), t, n, k)
<1>1. PICK key : key = br_hmac_key_init(h, prk)
  OBVIOUS
<1>2. PICK f : IsProduce(f, h, hc, info, k) /\ br_hkdf_produce(h, hc, info, k) = f[k]
  BY ProduceIs
<1>3. \A u \in 0..k : f[u] = IF u = 0 THEN NoBytes(hc) ELSE ProduceByte(h, info, f[u - 1])
  BY <1>2 DEF IsProduce
<1> DEFINE S == {u \in Nat : u \in 0..k => ProducedSo(f[u], key, t, n, u)}
<1>4. 0 \in S
  <2>1. 0 \in 0..k /\ n + 0 = n
    OBVIOUS
  <2>2. f[0] = NoBytes(hc)
    BY <1>3, <2>1
  <2>3. f[0] = Produced(hc, <<>>, FALSE)
    BY <2>2 DEF NoBytes, Produced
  <2>4. GivenBytes(<<>>, 0, t, n)
    BY Empty DEF GivenBytes, IsText
  <2>5. HkPlace(hc, key, t, n + 0)
    BY <1>1, <2>1
  <2>6. ProducedSo(f[0], key, t, n, 0)
    BY <2>3, <2>4, <2>5 DEF ProducedSo
  <2> QED
    BY <2>6
<1>5. ASSUME NEW u \in Nat, u \in S
      PROVE  u + 1 \in S
  <2> SUFFICES ASSUME u + 1 \in 0..k
               PROVE  ProducedSo(f[u + 1], key, t, n, u + 1)
    OBVIOUS
  <2>1. u \in 0..k /\ u + 1 # 0 /\ (u + 1) - 1 = u
    OBVIOUS
  <2>2. ProducedSo(f[u], key, t, n, u)
    BY <1>5, <2>1
  <2>3. f[u + 1] = ProduceByte(h, info, f[u])
    BY <1>3, <2>1
  <2>4. PICK s : s = f[u] /\ ProducedSo(s, key, t, n, u)
    BY <2>2
  <2>5. ProducedSo(ProduceByte(h, info, s), key, t, n, u + 1)
    BY <1>1, <2>4, ProduceOne
  <2> QED
    BY <2>3, <2>4, <2>5
<1> HIDE DEF S
<1>6. \A u \in Nat : u \in S
  BY <1>4, <1>5, Induction
<1>7. k \in 0..k
  OBVIOUS
<1>8. ProducedSo(f[k], key, t, n, k)
  BY <1>6, <1>7 DEF S
<1> QED
  BY <1>1, <1>2, <1>8

HkJob(at, h, salt, n, hc, out, asked) ==
  [kind |-> "hkdf", at |-> at, h |-> h, salt |-> salt, n |-> n, hc |-> hc,
   out |-> out, asked |-> asked]

\* Extraction: the message so far went to HMAC under the salt.
HkExtracts(h, salt, n, hc, out, asked) ==
  /\ out = <<>> /\ asked = 0
  /\ \E inner : /\ hc = HkContext(inner, <<>>, 0, 0, <<>>)
                /\ MacStands(h, inner, salt, Message(n))

\* Expansion: as many bytes went out as were asked for.
HkExpands(h, salt, n, hc, out, asked) ==
  \E m, t, prk :
    /\ t = Hkdf(h, salt, Message(n), Info) /\ prk = Hmac(h, salt, Message(n))
    /\ m \in Nat /\ asked = m /\ GivenBytes(out, m, t, 0)
    /\ HkPlace(hc, br_hmac_key_init(h, prk), t, m)

\* At the limit, where more was asked for.
HkEnded(h, salt, n, out, asked) ==
  \E m, t :
    /\ t = Hkdf(h, salt, Message(n), Info) /\ m \in Nat /\ asked \in Nat
    /\ GivenBytes(out, m, t, 0) /\ m < asked /\ m = HashLen * MaxChunks

\* Past the limit: the bytes up to it stay, whatever goes out after them.
HkAgain(h, salt, n, out, asked) ==
  \E m, t, limit :
    /\ t = Hkdf(h, salt, Message(n), Info) /\ m \in Nat /\ asked \in Nat
    /\ limit = HashLen * MaxChunks /\ limit \in Nat /\ limit <= m /\ limit < asked
    /\ IsText(out, m) /\ \A i \in 1..limit : out[i] = ChunkByte(t, i)

HkState(j, at, h, salt, n, hc, out, asked) ==
  /\ j = HkJob(at, h, salt, n, hc, out, asked)
  /\ h \in Macs /\ IsString(salt) /\ n \in Nat
  /\ \/ at = "extract" /\ HkExtracts(h, salt, n, hc, out, asked)
     \/ at = "expand" /\ HkExpands(h, salt, n, hc, out, asked)
     \/ at = "ended" /\ HkEnded(h, salt, n, out, asked)
     \/ at = "again" /\ HkAgain(h, salt, n, out, asked)

HkGood(j) ==
  \E at, h, salt, n, hc, out, asked : HkState(j, at, h, salt, n, hc, out, asked)

LEMMA HkFields ==
  ASSUME NEW j, NEW at, NEW h, NEW salt, NEW n, NEW hc, NEW out, NEW asked,
         j = HkJob(at, h, salt, n, hc, out, asked)
  PROVE  /\ j.at = at /\ j.h = h /\ j.salt = salt /\ j.n = n /\ j.hc = hc
         /\ j.out = out /\ j.asked = asked
BY DEF HkJob

LEMMA NoMessage ==
  Message(0) = <<>>
<1>1. IsText(Message(0), 0)
  BY BytesFrom1 DEF Message
<1>2. IsText(<<>>, 0)
  BY Empty DEF IsText
<1> QED
  BY <1>1, <1>2, SameText

LEMMA HkBegins ==
  ASSUME NEW h, NEW salt, h \in Macs, IsString(salt)
  PROVE  HkGood(HkdfJob(h, salt))
<1>1. PICK inner : inner = br_hmac_init(h, br_hmac_key_init(h, salt))
  OBVIOUS
<1>2. PICK hc : hc = HkContext(inner, <<>>, 0, 0, <<>>)
  OBVIOUS
<1>3. HkdfJob(h, salt) = HkJob("extract", h, salt, 0, hc, <<>>, 0)
  BY <1>1, <1>2 DEF HkdfJob, HkJob, br_hkdf_init, HkContext
<1>4. MacStands(h, inner, salt, Message(0))
  BY <1>1, MacsFit, MacFresh, NoMessage
<1>5. HkExtracts(h, salt, 0, hc, <<>>, 0)
  BY <1>2, <1>4 DEF HkExtracts
<1>6. HkState(HkdfJob(h, salt), "extract", h, salt, 0, hc, <<>>, 0)
  BY <1>3, <1>5 DEF HkState
<1> QED
  BY <1>6 DEF HkGood

LEMMA SaltsText ==
  /\ \A len \in KeyLens : IsString(Salt(len))
  /\ IsString(Zeros(HashLen)) /\ IsString(Info)
<1>1. \A len \in KeyLens : IsString(Salt(len))
  BY ServicesAssumption, BytesFrom1 DEF Salt, IsText
<1>2. IsString(Zeros(HashLen))
  BY HashLenIs, ZerosText DEF IsText
<1>3. IsString(Info)
  BY BytesFrom1 DEF Info, IsText
<1> QED
  BY <1>1, <1>2, <1>3

LEMMA HkInjectWorks ==
  ASSUME HkGood(job), HkdfInject
  PROVE  HkGood(job')
<1>1. PICK at, h, salt, n, hc, out, asked : HkState(job, at, h, salt, n, hc, out, asked)
  BY DEF HkGood
<1>2. job = HkJob(at, h, salt, n, hc, out, asked)
  BY <1>1 DEF HkState
<1>3. job.at = at /\ job.h = h /\ job.n = n /\ job.hc = hc
  BY <1>2, HkFields
<1>4. at = "extract"
  BY <1>3 DEF HkdfInject
<1>5. /\ h \in Macs /\ IsString(salt) /\ n \in Nat /\ HkExtracts(h, salt, n, hc, out, asked)
  BY <1>1, <1>4 DEF HkState
<1>6. PICK inner : /\ hc = HkContext(inner, <<>>, 0, 0, <<>>)
                   /\ MacStands(h, inner, salt, Message(n))
  BY <1>5 DEF HkExtracts
<1>7. PICK k \in 1..MaxPiece :
        job' = [job EXCEPT !.n = @ + k,
                  !.hc = br_hkdf_inject(job.h, @, Bytes("msg", job.n + 1, job.n + k))]
  BY DEF HkdfInject
<1>8. k \in Nat
  BY ServicesAssumption
<1>9. PICK data : data = Bytes("msg", n + 1, n + k)
  OBVIOUS
<1>10. PICK new : new = br_hmac_update(h, inner, data)
  OBVIOUS
<1>11. PICK hc2 : hc2 = br_hkdf_inject(h, hc, data)
  OBVIOUS
<1>12. hc2 = HkContext(new, <<>>, 0, 0, <<>>)
  <2>1. hc.hmac = inner
    BY <1>6 DEF HkContext
  <2>2. hc2 = [hc EXCEPT !.hmac = new]
    BY <1>10, <1>11, <2>1 DEF br_hkdf_inject
  <2> QED
    BY <1>6, <2>2 DEF HkContext
<1>13. PICK n2 : n2 = n + k
  OBVIOUS
<1>14. job' = [job EXCEPT !.n = n2, !.hc = hc2]
  BY <1>3, <1>7, <1>9, <1>11, <1>13
<1>15. job' = HkJob("extract", h, salt, n2, hc2, out, asked)
  BY <1>2, <1>4, <1>14 DEF HkJob
<1>16. Message(n) \o data = Message(n2) /\ IsString(data) /\ n2 \in Nat
  <2>1. /\ Message(n) \o Bytes("msg", n + 1, n + k) = Message(n + k)
        /\ IsString(Bytes("msg", n + 1, n + k))
    <3>1. n \in Nat
      BY <1>5
    <3> QED
      BY <1>8, <3>1, MessageGoesOn DEF IsText
  <2>2. n + k \in Nat
    BY <1>5, <1>8
  <2> QED
    BY <1>9, <1>13, <2>1, <2>2, Zenon
<1>17. MacStands(h, new, salt, Message(n2))
  <2>1. MacStands(h, new, salt, Message(n) \o data)
    BY <1>5, <1>6, <1>10, <1>16, MacsFit, MacUpdates
  <2> QED
    BY <1>16, <2>1
<1>18. HkExtracts(h, salt, n2, hc2, out, asked)
  BY <1>5, <1>12, <1>17 DEF HkExtracts
<1>19. HkState(job', "extract", h, salt, n2, hc2, out, asked)
  BY <1>5, <1>15, <1>16, <1>18 DEF HkState
<1> QED
  BY <1>19 DEF HkGood

LEMMA HkFlipWorks ==
  ASSUME HkGood(job), HkdfFlip
  PROVE  HkGood(job')
<1>1. PICK at, h, salt, n, hc, out, asked : HkState(job, at, h, salt, n, hc, out, asked)
  BY DEF HkGood
<1>2. job = HkJob(at, h, salt, n, hc, out, asked)
  BY <1>1 DEF HkState
<1>3. job.at = at /\ job.h = h /\ job.n = n /\ job.hc = hc
  BY <1>2, HkFields
<1>4. at = "extract"
  BY <1>3 DEF HkdfFlip
<1>5. /\ h \in Macs /\ IsString(salt) /\ n \in Nat /\ HkExtracts(h, salt, n, hc, out, asked)
  BY <1>1, <1>4 DEF HkState
<1>6. PICK inner : /\ hc = HkContext(inner, <<>>, 0, 0, <<>>)
                   /\ MacStands(h, inner, salt, Message(n))
  BY <1>5 DEF HkExtracts
<1>7. PICK prk : prk = Hmac(h, salt, Message(n))
  OBVIOUS
<1>8. PICK key : key = br_hmac_key_init(h, prk)
  OBVIOUS
<1>9. br_hmac_out(h, inner) = prk
  BY <1>5, <1>6, <1>7, MacsFit, MacOut
<1>10. PICK hc2 : hc2 = br_hkdf_flip(h, hc)
  OBVIOUS
<1>11. hc2 = HkContext(inner, key, HashLen, 0, <<>>)
  <2>1. hc.hmac = inner
    BY <1>6 DEF HkContext
  <2>2. hc2 = [hc EXCEPT !.prk = key, !.ptr = HashLen]
    BY <1>8, <1>9, <1>10, <2>1 DEF br_hkdf_flip
  <2> QED
    BY <1>6, <2>2 DEF HkContext
<1>12. job' = [job EXCEPT !.at = "expand", !.hc = hc2]
  BY <1>3, <1>10 DEF HkdfFlip
<1>13. job' = HkJob("expand", h, salt, n, hc2, out, asked)
  BY <1>2, <1>12 DEF HkJob
<1>14. PICK t : t = Hkdf(h, salt, Message(n), Info)
  OBVIOUS
<1>15. HkAt(t, 0, HashLen, <<>>, 0)
  <2>1. 0 \in 0..MaxChunks /\ HashLen \in 0..HashLen
    BY HashAssumption
  <2> QED
    BY <2>1 DEF HkAt
<1>16. HkPlace(hc2, key, t, 0)
  BY <1>11, <1>15 DEF HkPlace
<1>17. out = <<>> /\ asked = 0
  BY <1>5 DEF HkExtracts
<1>18. GivenBytes(out, 0, t, 0)
  BY <1>17, Empty DEF GivenBytes, IsText
<1>19. HkExpands(h, salt, n, hc2, out, asked)
  BY <1>7, <1>8, <1>14, <1>16, <1>17, <1>18 DEF HkExpands
<1>20. HkState(job', "expand", h, salt, n, hc2, out, asked)
  BY <1>5, <1>13, <1>19 DEF HkState
<1> QED
  BY <1>20 DEF HkGood

\* Bytes that are given, and then more.
LEMMA GivenMore ==
  ASSUME NEW s, NEW m, NEW u, NEW k, NEW t, m \in Nat, k \in Nat,
         GivenBytes(s, m, t, 0), GivenBytes(u, k, t, m)
  PROVE  GivenBytes(s \o u, m + k, t, 0)
<1>1. PICK v : v = s \o u
  OBVIOUS
<1>2. IsText(s, m) /\ IsText(u, k)
  BY DEF GivenBytes
<1>3. Joint(v, s, m, u, k)
  BY <1>1, <1>2, JointText
<1>4. ASSUME NEW i \in 1..(m + k)
      PROVE  v[i] = ChunkByte(t, 0 + i)
  <2>1. CASE i \in 1..m
    BY <1>3, <2>1 DEF Joint, GivenBytes
  <2>2. CASE ~(i \in 1..m)
    <3>1. PICK j \in 1..k : i = m + j
      <4>1. i - m \in 1..k /\ i = m + (i - m)
        BY <2>2
      <4> QED
        BY <4>1
    <3>2. v[i] = u[j] /\ u[j] = ChunkByte(t, m + j)
      BY <1>3, <3>1 DEF Joint, GivenBytes
    <3>3. 0 + i = m + j
      BY <3>1
    <3> QED
      BY <3>2, <3>3
  <2> QED
    BY <2>1, <2>2
<1>5. IsText(v, m + k)
  BY <1>3 DEF Joint
<1> QED
  BY <1>1, <1>4, <1>5 DEF GivenBytes

\* What a call gives is a text, whatever context it is called with.
HasText(s) ==
  \E hc, out, ended, m :
    /\ s = Produced(hc, out, ended) /\ ended \in BOOLEAN /\ m \in Nat /\ IsText(out, m)

LEMMA GivesByte ==
  ASSUME NEW h, NEW info, NEW s, HasText(s)
  PROVE  HasText(ProduceByte(h, info, s))
<1>1. PICK hc, out, ended, m :
        /\ s = Produced(hc, out, ended) /\ ended \in BOOLEAN /\ m \in Nat /\ IsText(out, m)
  BY DEF HasText
<1>2. s.hc = hc /\ s.out = out /\ s.ended = ended
  BY <1>1 DEF Produced
<1>3. CASE ended
  <2>1. ProduceByte(h, info, s) = s
    BY <1>2, <1>3 DEF ProduceByte
  <2> QED
    BY <2>1
<1>4. CASE ~ended /\ hc.ptr = HashLen /\ hc.chunk_num = MaxChunks
  <2>1. ProduceByte(h, info, s) = [s EXCEPT !.hc.chunk_num = @ + 1, !.ended = TRUE]
    BY <1>2, <1>4 DEF ProduceByte
  <2>2. PICK c : c = [hc EXCEPT !.chunk_num = @ + 1]
    OBVIOUS
  <2>3. ProduceByte(h, info, s) = Produced(c, out, TRUE)
    BY <1>1, <2>1, <2>2 DEF Produced
  <2> QED
    BY <1>1, <2>3 DEF HasText
<1>5. CASE ~ended /\ ~(hc.ptr = HashLen /\ hc.chunk_num = MaxChunks)
  <2>1. PICK now : now = IF hc.ptr = HashLen THEN NextChunk(h, hc, info) ELSE hc
    OBVIOUS
  <2>2. PICK next : next = [now EXCEPT !.ptr = @ + 1]
    OBVIOUS
  <2>3. PICK x : x = now.buf[now.ptr + 1]
    OBVIOUS
  <2>4. PICK o : o = Append(out, x)
    OBVIOUS
  <2>5. ProduceByte(h, info, s) = [s EXCEPT !.hc = next, !.out = o]
    BY <1>2, <1>5, <2>1, <2>2, <2>3, <2>4 DEF ProduceByte
  <2>6. ProduceByte(h, info, s) = Produced(next, o, ended)
    BY <1>1, <2>5 DEF Produced
  <2>7. o = out \o <<x>>
    BY <1>1, <2>4, Appended DEF IsText
  <2>8. IsText(<<x>>, 1)
    BY Single DEF IsText
  <2>9. Joint(o, out, m, <<x>>, 1)
    BY <1>1, <2>7, <2>8, JointText
  <2>10. IsText(o, m + 1) /\ m + 1 \in Nat
    BY <1>1, <2>9 DEF Joint
  <2> QED
    BY <1>1, <2>6, <2>10 DEF HasText
<1> QED
  BY <1>1, <1>3, <1>4, <1>5

LEMMA GivesText ==
  ASSUME NEW h, NEW hc, NEW info, NEW k, k \in Nat
  PROVE  HasText(br_hkdf_produce(h, hc, info, k))
<1>1. PICK f : IsProduce(f, h, hc, info, k) /\ br_hkdf_produce(h, hc, info, k) = f[k]
  BY ProduceIs
<1>2. \A u \in 0..k : f[u] = IF u = 0 THEN NoBytes(hc) ELSE ProduceByte(h, info, f[u - 1])
  BY <1>1 DEF IsProduce
<1> DEFINE S == {u \in Nat : u \in 0..k => HasText(f[u])}
<1>3. 0 \in S
  <2>4. 0 \in 0..k
    OBVIOUS
  <2>5. f[0] = NoBytes(hc)
    BY <1>2, <2>4
  <2>1. f[0] = Produced(hc, <<>>, FALSE)
    BY <2>5 DEF NoBytes, Produced
  <2>2. IsText(<<>>, 0)
    BY Empty DEF IsText
  <2>3. HasText(f[0])
    BY <2>1, <2>2 DEF HasText
  <2> QED
    BY <2>3
<1>4. ASSUME NEW u \in Nat, u \in S
      PROVE  u + 1 \in S
  <2> SUFFICES ASSUME u + 1 \in 0..k
               PROVE  HasText(f[u + 1])
    OBVIOUS
  <2>1. u \in 0..k /\ u + 1 # 0 /\ (u + 1) - 1 = u
    OBVIOUS
  <2>2. HasText(f[u])
    BY <1>4, <2>1
  <2>3. f[u + 1] = ProduceByte(h, info, f[u])
    BY <1>2, <2>1
  <2> QED
    BY <2>2, <2>3, GivesByte
<1> HIDE DEF S
<1>5. \A u \in Nat : u \in S
  BY <1>3, <1>4, Induction
<1>6. k \in 0..k
  OBVIOUS
<1> QED
  BY <1>1, <1>5, <1>6 DEF S

LEMMA LimitIs ==
  \E limit \in Nat : limit = HashLen * MaxChunks /\ limit = MaxChunks * HashLen
<1>1. HashLen \in Nat /\ MaxChunks \in Nat
  BY HashAssumption
<1>2. HashLen * MaxChunks \in Nat /\ HashLen * MaxChunks = MaxChunks * HashLen
  BY <1>1
<1> QED
  BY <1>2

LEMMA EndedGoesOn ==
  ASSUME NEW h, NEW salt, NEW n, NEW out, NEW asked, HkEnded(h, salt, n, out, asked)
  PROVE  HkAgain(h, salt, n, out, asked)
<1>1. PICK m, t :
        /\ t = Hkdf(h, salt, Message(n), Info) /\ m \in Nat /\ asked \in Nat
        /\ GivenBytes(out, m, t, 0) /\ m < asked /\ m = HashLen * MaxChunks
  BY DEF HkEnded
<1>2. IsText(out, m) /\ \A i \in 1..m : out[i] = ChunkByte(t, 0 + i)
  BY <1>1 DEF GivenBytes
<1>3. \A i \in 1..m : 0 + i = i
  BY <1>1
<1>4. \A i \in 1..m : out[i] = ChunkByte(t, i)
  BY <1>2, <1>3
<1>5. m <= m
  BY <1>1
<1> QED
  BY <1>1, <1>2, <1>4, <1>5 DEF HkAgain

LEMMA MoreAfterEnd ==
  ASSUME NEW h, NEW salt, NEW n, NEW out, NEW asked, NEW k, NEW more, NEW l,
         HkAgain(h, salt, n, out, asked), k \in Nat, l \in Nat, IsText(more, l)
  PROVE  HkAgain(h, salt, n, out \o more, asked + k)
<1>1. PICK m, t, limit :
        /\ t = Hkdf(h, salt, Message(n), Info) /\ m \in Nat /\ asked \in Nat
        /\ limit = HashLen * MaxChunks /\ limit \in Nat /\ limit <= m /\ limit < asked
        /\ IsText(out, m) /\ \A i \in 1..limit : out[i] = ChunkByte(t, i)
  BY DEF HkAgain
<1>2. PICK new : new = out \o more
  OBVIOUS
<1>3. Joint(new, out, m, more, l)
  BY <1>1, <1>2, JointText
<1>4. IsText(new, m + l) /\ \A i \in 1..m : new[i] = out[i]
  BY <1>3 DEF Joint
<1>5. \A i \in 1..limit : new[i] = ChunkByte(t, i)
  <2>1. \A i \in 1..limit : i \in 1..m
    BY <1>1
  <2> QED
    BY <1>1, <1>4, <2>1
<1>6. PICK a, ml : a = asked + k /\ ml = m + l
  OBVIOUS
<1>7. a \in Nat /\ ml \in Nat /\ limit <= ml /\ limit < a
  BY <1>1, <1>6
<1>8. IsText(new, ml)
  BY <1>4, <1>6
<1>9. HkAgain(h, salt, n, new, a)
  BY <1>1, <1>5, <1>7, <1>8 DEF HkAgain
<1> QED
  BY <1>2, <1>6, <1>9

\* What a call does to the job.
Calls(at, h, salt, n, hc, out, asked, k, r) ==
  /\ r = br_hkdf_produce(h, hc, Info, k)
  /\ job' = HkJob(IF at # "expand" THEN "again"
                  ELSE IF Len(r.out) < k THEN "ended" ELSE at,
                  h, salt, n, r.hc, out \o r.out, asked + k)

LEMMA HkExpandWorks ==
  ASSUME NEW h, NEW salt, NEW n, NEW hc, NEW out, NEW asked, NEW k, NEW r,
         HkState(job, "expand", h, salt, n, hc, out, asked), k \in Nat,
         Calls("expand", h, salt, n, hc, out, asked, k, r)
  PROVE  HkGood(job')
<1>1. /\ h \in Macs /\ IsString(salt) /\ n \in Nat /\ HkExpands(h, salt, n, hc, out, asked)
  BY DEF HkState
<1>2. PICK m, t, prk :
        /\ t = Hkdf(h, salt, Message(n), Info) /\ prk = Hmac(h, salt, Message(n))
        /\ m \in Nat /\ asked = m /\ GivenBytes(out, m, t, 0)
        /\ HkPlace(hc, br_hmac_key_init(h, prk), t, m)
  BY <1>1 DEF HkExpands
<1>3. PICK key : key = br_hmac_key_init(h, prk)
  OBVIOUS
<1>4. m + k \in Nat
  BY <1>2
<1>5. ProducedSo(r, key, t, m, k)
  <2>1. ForMac(h) /\ IsString(Info) /\ ChunksOf(t, h, prk, Info)
    BY <1>1, <1>2, MacsFit, SaltsText, HkdfChunks
  <2> QED
    BY <1>2, <1>3, <2>1, ProduceAll DEF Calls
<1>6. PICK hc2, more, ended, l :
         /\ r = Produced(hc2, more, ended) /\ GivenBytes(more, l, t, m) /\ l \in Nat
         /\ \/ ended = FALSE /\ l = k /\ HkPlace(hc2, key, t, m + k)
            \/ ended = TRUE /\ l < k /\ m + l = HashLen * MaxChunks
  BY <1>5 DEF ProducedSo
<1>7. r.hc = hc2 /\ r.out = more
  BY <1>6 DEF Produced
<1>8. Len(more) = l
  BY <1>6 DEF GivenBytes, IsText
<1>9. PICK new, a, ml : new = out \o more /\ a = m + k /\ ml = m + l
  OBVIOUS
<1>10. job' = HkJob(IF l < k THEN "ended" ELSE "expand", h, salt, n, hc2, new, a)
  BY <1>2, <1>7, <1>8, <1>9 DEF Calls
<1>11. GivenBytes(new, ml, t, 0) /\ ml \in Nat
  <2>1. m \in Nat /\ l \in Nat /\ GivenBytes(out, m, t, 0) /\ GivenBytes(more, l, t, m)
    BY <1>2, <1>6
  <2>2. GivenBytes(out \o more, m + l, t, 0)
    BY ONLY <2>1, GivenMore
  <2> QED
    BY <1>9, <2>1, <2>2
<1>12. CASE l = k
  <2>1. job' = HkJob("expand", h, salt, n, hc2, new, a)
    BY <1>6, <1>10, <1>12
  <2>2. a = ml /\ HkPlace(hc2, key, t, ml)
    BY <1>6, <1>9, <1>12
  <2>3. HkExpands(h, salt, n, hc2, new, a)
    BY <1>2, <1>3, <1>11, <2>2 DEF HkExpands
  <2>4. HkState(job', "expand", h, salt, n, hc2, new, a)
    BY <1>1, <2>1, <2>3 DEF HkState
  <2> QED
    BY <2>4 DEF HkGood
<1>13. CASE l # k
  <2>1. l < k /\ m + l = HashLen * MaxChunks
    BY <1>6, <1>13
  <2>2. job' = HkJob("ended", h, salt, n, hc2, new, a)
    BY <1>10, <2>1
  <2>3. ml < a /\ a \in Nat /\ ml = HashLen * MaxChunks
    BY <1>2, <1>4, <1>6, <1>9, <2>1
  <2>4. HkEnded(h, salt, n, new, a)
    BY <1>2, <1>11, <2>3 DEF HkEnded
  <2>5. HkState(job', "ended", h, salt, n, hc2, new, a)
    BY <1>1, <2>2, <2>4 DEF HkState
  <2> QED
    BY <2>5 DEF HkGood
<1> QED
  BY <1>12, <1>13

LEMMA HkProduceWorks ==
  ASSUME HkGood(job), HkdfProduce
  PROVE  HkGood(job')
<1>1. PICK at, h, salt, n, hc, out, asked : HkState(job, at, h, salt, n, hc, out, asked)
  BY DEF HkGood
<1>2. job = HkJob(at, h, salt, n, hc, out, asked)
  BY <1>1 DEF HkState
<1>3. job.at = at /\ job.h = h /\ job.hc = hc /\ job.out = out /\ job.asked = asked
  BY <1>2, HkFields
<1>4. at \in {"expand", "ended", "again"}
  BY <1>3 DEF HkdfProduce
<1>5. PICK k \in 1..(HashLen + 1) :
        LET r == br_hkdf_produce(job.h, job.hc, Info, k) IN
        job' = [job EXCEPT !.hc = r.hc, !.out = @ \o r.out, !.asked = @ + k,
                  !.at = IF @ # "expand" THEN "again"
                         ELSE IF Len(r.out) < k THEN "ended" ELSE @]
  BY DEF HkdfProduce
<1>6. PICK r : r = br_hkdf_produce(h, hc, Info, k)
  OBVIOUS
<1>7. PICK next : next = IF at # "expand" THEN "again"
                         ELSE IF Len(r.out) < k THEN "ended" ELSE at
  OBVIOUS
<1>8. PICK new, a : new = out \o r.out /\ a = asked + k
  OBVIOUS
<1>9. job' = [job EXCEPT !.hc = r.hc, !.out = new, !.asked = a, !.at = next]
  BY <1>3, <1>5, <1>6, <1>7, <1>8
<1>10. job' = HkJob(next, h, salt, n, r.hc, new, a)
  BY <1>2, <1>9 DEF HkJob
<1>11. k \in Nat
  BY HashLenIs
<1>12. CASE at = "expand"
  <2>1. Calls("expand", h, salt, n, hc, out, asked, k, r)
    BY <1>6, <1>7, <1>8, <1>10, <1>12 DEF Calls
  <2> QED
    BY <1>1, <1>11, <1>12, <2>1, HkExpandWorks
<1>13. CASE at \in {"ended", "again"}
  <2>1. /\ h \in Macs /\ IsString(salt) /\ n \in Nat /\ HkAgain(h, salt, n, out, asked)
    BY <1>1, <1>13, EndedGoesOn DEF HkState
  <2>2. PICK more, l : more = r.out /\ l \in Nat /\ IsText(more, l)
    <3>1. HasText(r)
      BY <1>6, <1>11, GivesText
    <3>2. PICK c, o, ended, l : r = Produced(c, o, ended) /\ l \in Nat /\ IsText(o, l)
      BY <3>1 DEF HasText
    <3> QED
      BY <3>2 DEF Produced
  <2>3. HkAgain(h, salt, n, new, a)
    BY <1>8, <1>11, <2>1, <2>2, MoreAfterEnd
  <2>4. next = "again"
    BY <1>7, <1>13
  <2>5. HkState(job', "again", h, salt, n, r.hc, new, a)
    BY <1>10, <2>1, <2>3, <2>4 DEF HkState
  <2> QED
    BY <2>5 DEF HkGood
<1> QED
  BY <1>4, <1>12, <1>13

\* What is due of the bytes that were asked for went out.
AsDue(at, out, asked, t, limit) ==
  \E due, l :
    /\ due = IF asked > limit THEN limit ELSE asked
    /\ due \in Nat /\ l \in Nat /\ Len(out) = l /\ due <= l
    /\ at # "again" => l = due
    /\ \A k \in 1..due : out[k] = ChunkByte(t, k)

LEMMA GivenDue ==
  ASSUME NEW at, NEW out, NEW asked, NEW t, NEW limit, NEW m,
         m \in Nat, GivenBytes(out, m, t, 0), m = IF asked > limit THEN limit ELSE asked
  PROVE  AsDue(at, out, asked, t, limit)
<1>1. IsText(out, m) /\ \A k \in 1..m : out[k] = ChunkByte(t, 0 + k)
  BY DEF GivenBytes
<1>2. \A k \in 1..m : 0 + k = k
  OBVIOUS
<1>3. Len(out) = m /\ m <= m
  BY <1>1 DEF IsText
<1>4. \A k \in 1..m : out[k] = ChunkByte(t, k)
  BY <1>1, <1>2
<1> QED
  BY <1>3, <1>4 DEF AsDue

LEMMA HkIs ==
  ASSUME HkGood(job)
  PROVE  HkdfAgrees
<1>1. PICK at, h, salt, n, hc, out, asked : HkState(job, at, h, salt, n, hc, out, asked)
  BY DEF HkGood
<1>2. job = HkJob(at, h, salt, n, hc, out, asked)
  BY <1>1 DEF HkState
<1>3. /\ job.at = at /\ job.h = h /\ job.salt = salt /\ job.n = n /\ job.out = out
      /\ job.asked = asked
  BY <1>2, HkFields
<1>4. PICK t : t = Hkdf(h, salt, Message(n), Info)
  OBVIOUS
<1>5. PICK limit \in Nat : limit = HashLen * MaxChunks /\ limit = MaxChunks * HashLen
  BY LimitIs
<1>6. AsDue(at, out, asked, t, limit)
  <2>1. CASE at = "extract"
    <3>1. out = <<>> /\ asked = 0
      BY <1>1, <2>1 DEF HkState, HkExtracts
    <3>2. GivenBytes(<<>>, 0, t, 0)
      BY Empty DEF GivenBytes, IsText
    <3>3. 0 = IF asked > limit THEN limit ELSE asked
      BY <3>1
    <3> QED
      BY <3>1, <3>2, <3>3, GivenDue
  <2>2. CASE at = "expand"
    <3>1. PICK m, t2, prk :
            /\ t2 = t /\ m \in Nat /\ asked = m /\ GivenBytes(out, m, t2, 0)
            /\ HkPlace(hc, br_hmac_key_init(h, prk), t2, m)
      BY <1>1, <1>4, <2>2 DEF HkState, HkExpands
    <3>2. m <= limit
      BY <1>5, <3>1, HkLimit DEF HkPlace
    <3>3. m = IF asked > limit THEN limit ELSE asked
      BY <3>1, <3>2
    <3> QED
      BY <3>1, <3>3, GivenDue
  <2>3. CASE at = "ended"
    <3>1. PICK m, t2 :
            /\ t2 = t /\ m \in Nat /\ asked \in Nat /\ GivenBytes(out, m, t2, 0)
            /\ m < asked /\ m = HashLen * MaxChunks
      BY <1>1, <1>4, <2>3 DEF HkState, HkEnded
    <3>2. m = IF asked > limit THEN limit ELSE asked
      BY <1>5, <3>1
    <3> QED
      BY <3>1, <3>2, GivenDue
  <2>4. CASE at = "again"
    <3>1. PICK m, t2, limit2 :
            /\ t2 = t /\ m \in Nat /\ asked \in Nat
            /\ limit2 = HashLen * MaxChunks /\ limit2 <= m /\ limit2 < asked
            /\ IsText(out, m) /\ \A i \in 1..limit2 : out[i] = ChunkByte(t2, i)
      BY <1>1, <1>4, <2>4 DEF HkState, HkAgain
    <3>2. limit2 = limit /\ limit = IF asked > limit THEN limit ELSE asked
      BY <1>5, <3>1
    <3>3. Len(out) = m /\ limit <= m
      BY <3>1, <3>2 DEF IsText
    <3>4. \A i \in 1..limit : out[i] = ChunkByte(t, i)
      BY <3>1, <3>2
    <3> QED
      BY <2>4, <3>1, <3>2, <3>3, <3>4 DEF AsDue
  <2> QED
    BY <1>1, <2>1, <2>2, <2>3, <2>4 DEF HkState
<1>7. PICK due, l :
        /\ due = IF asked > limit THEN limit ELSE asked
        /\ due \in Nat /\ l \in Nat /\ Len(out) = l /\ due <= l
        /\ at # "again" => l = due
        /\ \A k \in 1..due : out[k] = ChunkByte(t, k)
  BY <1>6 DEF AsDue
<1>8. PICK most : most = IF job.asked > MaxChunks * HashLen THEN MaxChunks * HashLen
                         ELSE job.asked
  OBVIOUS
<1>9. most = due
  BY <1>3, <1>5, <1>7, <1>8
<1>10. /\ Len(job.out) >= most /\ (job.at # "again" => Len(job.out) = most)
       /\ \A k \in 1..most :
            job.out[k] = ChunkByte(Hkdf(job.h, job.salt, Message(job.n), Info), k)
  BY <1>3, <1>4, <1>7, <1>9
<1> QED
  BY <1>8, <1>10, Zenon DEF HkdfAgrees, ChunkByte

-----------------------------------------------------------------------------
(* Bytes laid over others: the PRF of TLS and the mask of MGF1.              *)
Toggled(d, x) == (d \ {x}) \cup ({x} \ d)

Covered(u, dst, p, len, n) ==
  /\ IsText(u, len)
  /\ \A k \in 1..len :
       u[k] = IF k <= HashLen * n THEN Toggled(dst[k], ChunkByte(p, k)) ELSE dst[k]

LEMMA OneCovers ==
  ASSUME NEW u, NEW dst, NEW p, NEW len, NEW n, NEW bytes, NEW at, len \in Nat, n \in Nat,
         Covered(u, dst, p, len, n), at = n * HashLen, IsText(bytes, HashLen),
         bytes = p[n + 1]
  PROVE  Covered(Over(u, at, bytes), dst, p, len, n + 1)
<1>1. PICK b \in Nat \ {0} : b = HashLen
  BY HashLenIs
<1>2. PICK m \in Nat : m = b * n /\ m = at /\ m + b = b * (n + 1)
  <2>1. b * n \in Nat /\ b * n = n * b /\ b * n + b = b * (n + 1)
    OBVIOUS
  <2> QED
    BY <1>1, <2>1
<1>3. IsText(u, len) /\ Len(bytes) = b /\ Len(u) = len
  BY <1>1 DEF Covered, IsText
<1>4. PICK v : v = Over(u, at, bytes)
  OBVIOUS
<1>5. v = [i \in 1..len |-> IF i \in (m + 1)..(m + b) THEN Toggled(u[i], bytes[i - m]) ELSE u[i]]
  BY <1>2, <1>3, <1>4 DEF Over, Toggled
<1>6. v = [i \in 1..len |-> v[i]]
  BY <1>5
<1>7. IsText(v, len)
  BY <1>6, StringOf DEF IsText
<1>8. ASSUME NEW k \in 1..len
      PROVE  v[k] = IF k <= m + b THEN Toggled(dst[k], ChunkByte(p, k)) ELSE dst[k]
  <2>1. u[k] = IF k <= m THEN Toggled(dst[k], ChunkByte(p, k)) ELSE dst[k]
    BY <1>1, <1>2 DEF Covered
  <2>2. CASE k \in (m + 1)..(m + b)
    <3>1. PICK j \in 1..b : k = m + j /\ k - m = j
      <4>1. k - m \in 1..b /\ k = m + (k - m)
        BY <2>2
      <4> QED
        BY <4>1
    <3>2. ~(k <= m) /\ k <= m + b
      BY <2>2
    <3>3. v[k] = Toggled(u[k], bytes[j])
      BY <1>5, <2>2, <3>1
    <3>4. ChunkByte(p, k) = bytes[j]
      <4>1. PICK x : x = b * n + j /\ k = x
        BY <1>2, <3>1
      <4>2. (x - 1) \div b = n /\ (x - 1) % b = j - 1
        BY <4>1, PlaceOf
      <4>3. (j - 1) + 1 = j
        OBVIOUS
      <4> QED
        BY <1>1, <4>1, <4>2, <4>3 DEF ChunkByte
    <3> QED
      BY <2>1, <3>2, <3>3, <3>4
  <2>3. CASE ~(k \in (m + 1)..(m + b))
    <3>1. v[k] = u[k]
      BY <1>5, <2>3
    <3>2. k <= m <=> k <= m + b
      BY <2>3
    <3> QED
      BY <2>1, <3>1, <3>2
  <2> QED
    BY <2>2, <2>3
<1>9. Covered(v, dst, p, len, n + 1)
  BY <1>1, <1>2, <1>7, <1>8 DEF Covered
<1> QED
  BY <1>4, <1>9

LEMMA AllRounds ==
  ASSUME NEW len, len \in Nat
  PROVE  /\ Rounds(len) \in Nat /\ len <= HashLen * Rounds(len)
         /\ \A k \in 1..len :
              /\ ((k - 1) \div HashLen) + 1 \in 1..Rounds(len)
              /\ (k + HashLen - 1) \div HashLen = ((k - 1) \div HashLen) + 1
              /\ ((k - 1) % HashLen) + 1 \in 1..HashLen
<1>1. PICK b \in Nat \ {0} : b = HashLen
  BY HashLenIs
<1>2. PICK r : r = Rounds(len) /\ r = (len + b - 1) \div b
  BY <1>1 DEF Rounds
<1>3. len + b - 1 \in Nat
  OBVIOUS
<1>4. PICK q \in Nat, x \in 0..(b - 1) : len + b - 1 = b * q + x /\ q = (len + b - 1) \div b
  BY <1>3, Parts
<1>5. r = q /\ b * q \in Nat
  BY <1>2, <1>4
<1>6. len <= b * q
  BY <1>4, <1>5
<1>7. ASSUME NEW k \in 1..len
      PROVE  /\ ((k - 1) \div b) + 1 \in 1..q
             /\ (k + b - 1) \div b = ((k - 1) \div b) + 1
             /\ ((k - 1) % b) + 1 \in 1..b
  <2>1. k - 1 \in Nat
    OBVIOUS
  <2>2. PICK c \in Nat, y \in 0..(b - 1) :
          k - 1 = b * c + y /\ c = (k - 1) \div b /\ y = (k - 1) % b
    BY <2>1, Parts
  <2>3. c < q
    <3> SUFFICES ASSUME q <= c
                 PROVE  FALSE
      OBVIOUS
    <3>1. b * q <= b * c /\ b * c \in Int
      BY Product
    <3> QED
      BY <1>5, <1>6, <2>1, <2>2, <3>1
  <2>4. b * (c + 1) = b * c + b /\ b * c \in Nat
    OBVIOUS
  <2>5. PICK a : a = k + b - 1
    OBVIOUS
  <2>6. a = b * (c + 1) + y /\ a \in Int /\ c + 1 \in Int
    BY <2>2, <2>4, <2>5
  <2>7. c + 1 = a \div b
    BY <2>6, Quotient
  <2> QED
    BY <2>2, <2>3, <2>5, <2>7
<1> QED
  BY <1>1, <1>2, <1>5, <1>6, <1>7

\* All rounds together lay each byte over its place once.
LaidBy(f, p, dst, r) ==
  f[0] = dst /\ \A n \in 0..(r - 1) : f[n + 1] = Over(f[n], n * HashLen, p[n + 1])

LEMMA RoundsCover ==
  ASSUME NEW f, NEW p, NEW dst, NEW len, len \in Nat, IsText(dst, len),
         LaidBy(f, p, dst, Rounds(len)),
         \A n \in 1..Rounds(len) : IsText(p[n], HashLen)
  PROVE  f[Rounds(len)] = [k \in 1..len |-> Toggled(dst[k], ChunkByte(p, k))]
<1>1. PICK r \in Nat : r = Rounds(len) /\ len <= HashLen * r
  BY AllRounds
<1> DEFINE S == {n \in Nat : n \in 0..r => Covered(f[n], dst, p, len, n)}
<1>2. 0 \in S
  <2>1. HashLen * 0 = 0
    BY HashLenIs
  <2>2. Covered(dst, dst, p, len, 0)
    BY <2>1 DEF Covered
  <2> QED
    BY <2>2 DEF LaidBy
<1>3. ASSUME NEW n \in Nat, n \in S
      PROVE  n + 1 \in S
  <2> SUFFICES ASSUME n + 1 \in 0..r
               PROVE  Covered(f[n + 1], dst, p, len, n + 1)
    OBVIOUS
  <2>1. n \in 0..r /\ n \in 0..(r - 1) /\ n + 1 \in 1..r
    BY <1>1
  <2>2. PICK u, at, bytes : u = f[n] /\ at = n * HashLen /\ bytes = p[n + 1]
    OBVIOUS
  <2>3. Covered(u, dst, p, len, n) /\ IsText(bytes, HashLen)
    BY <1>1, <1>3, <2>1, <2>2
  <2>4. f[n + 1] = Over(u, at, bytes)
    BY <1>1, <2>1, <2>2 DEF LaidBy
  <2>5. Covered(Over(u, at, bytes), dst, p, len, n + 1)
    BY <2>2, <2>3, OneCovers
  <2> QED
    BY <2>4, <2>5
<1> HIDE DEF S
<1>4. \A n \in Nat : n \in S
  BY <1>2, <1>3, Induction
<1>5. r \in 0..r
  BY <1>1
<1>6. PICK v : v = f[r]
  OBVIOUS
<1>7. Covered(v, dst, p, len, r)
  BY <1>1, <1>4, <1>5, <1>6 DEF S
<1>8. \A k \in 1..len : k <= HashLen * r
  BY <1>1, HashLenIs
<1>9. \A k \in 1..len : v[k] = Toggled(dst[k], ChunkByte(p, k))
  BY <1>7, <1>8 DEF Covered
<1>10. v = [k \in 1..len |-> v[k]]
  BY <1>7, StringFacts DEF Covered, IsText
<1>11. v = [k \in 1..len |-> Toggled(dst[k], ChunkByte(p, k))]
  BY <1>9, <1>10, Zenon
<1> QED
  BY <1>1, <1>6, <1>11

FirstCode(h, dst, kc, seed) == [dst |-> dst, a |-> hmac(h, kc, seed)]
NextCode(h, kc, seed, s, n) ==
  [dst |-> Over(s.dst, (n - 1) * HashLen, hmac(h, kc, s.a \o seed)), a |-> hmac(h, kc, s.a)]

IsPhash(f, h, dst, kc, seed, n) ==
  f = [u \in 0..n |-> IF u = 0 THEN FirstCode(h, dst, kc, seed)
                      ELSE NextCode(h, kc, seed, f[u - 1], u)]

LEMMA PhashExists ==
  ASSUME NEW h, NEW dst, NEW kc, NEW seed
  PROVE  \A n \in Nat : \E f : IsPhash(f, h, dst, kc, seed, n)
<1> DEFINE S == {n \in Nat : \E f : IsPhash(f, h, dst, kc, seed, n)}
<1>1. 0 \in S
  <2> DEFINE f == [u \in 0..0 |-> FirstCode(h, dst, kc, seed)]
  <2>1. IsPhash(f, h, dst, kc, seed, 0)
    BY DEF IsPhash
  <2> QED
    BY <2>1
<1>2. ASSUME NEW n \in Nat, n \in S
      PROVE  n + 1 \in S
  <2>1. PICK f : IsPhash(f, h, dst, kc, seed, n)
    BY <1>2
  <2> DEFINE g == [u \in 0..(n + 1) |->
                     IF u = n + 1 THEN NextCode(h, kc, seed, f[n], (n + 1)) ELSE f[u]]
             e == [u \in 0..(n + 1) |->
                     IF u = 0 THEN FirstCode(h, dst, kc, seed) ELSE NextCode(h, kc, seed, g[u - 1], u)]
  <2>2. ASSUME NEW u \in 0..(n + 1)
        PROVE  g[u] = IF u = 0 THEN FirstCode(h, dst, kc, seed) ELSE NextCode(h, kc, seed, g[u - 1], u)
    <3>1. CASE u = n + 1
      <4>1. u - 1 = n /\ n \in 0..(n + 1) /\ n # n + 1 /\ u # 0
        BY <3>1
      <4> QED
        BY <3>1, <4>1
    <3>2. CASE u # n + 1
      <4>1. u \in 0..n /\ (u # 0 => u - 1 \in 0..(n + 1) /\ u - 1 # n + 1)
        BY <3>2
      <4>2. f[u] = IF u = 0 THEN FirstCode(h, dst, kc, seed) ELSE NextCode(h, kc, seed, f[u - 1], u)
        BY <2>1, <4>1 DEF IsPhash
      <4> QED
        BY <3>2, <4>1, <4>2
    <3> QED
      BY <3>1, <3>2
  <2>3. g = e
    <3>1. g = [u \in 0..(n + 1) |-> g[u]]
      OBVIOUS
    <3> HIDE DEF g
    <3> QED
      BY <2>2, <3>1, Zenon
  <2>4. IsPhash(g, h, dst, kc, seed, n + 1)
    BY <2>3, Zenon DEF IsPhash
  <2> QED
    BY <2>4
<1> HIDE DEF S
<1>3. \A n \in Nat : n \in S
  BY <1>1, <1>2, Induction
<1> QED
  BY <1>3 DEF S

LEMMA PhashIs ==
  ASSUME NEW h, NEW dst, NEW len, NEW secret, NEW seed, IsText(dst, len)
  PROVE  \E f : /\ IsPhash(f, h, dst, br_hmac_key_init(h, secret), seed, Rounds(len))
                /\ br_tls_phash(h, dst, secret, seed) = f[Rounds(len)].dst
<1>1. PICK kc : kc = br_hmac_key_init(h, secret)
  OBVIOUS
<1>2. Len(dst) = len /\ len \in Nat
  BY DEF IsText
<1> DEFINE P(f) == IsPhash(f, h, dst, kc, seed, Rounds(Len(dst)))
<1>3. PICK a : a = CHOOSE f : P(f)
  OBVIOUS
<1>4. br_tls_phash(h, dst, secret, seed) = a[Rounds(Len(dst))].dst
  BY <1>1, <1>3 DEF br_tls_phash, IsPhash, FirstCode, NextCode
<1>5. \E f : P(f)
  BY <1>2, AllRounds, PhashExists
<1> HIDE DEF P
<1>6. P(a)
  BY <1>3, <1>5
<1> QED
  BY <1>1, <1>2, <1>4, <1>6 DEF P

LEMMA SameChain ==
  ASSUME NEW f, NEW g, NEW h, NEW key, NEW first, NEW n, NEW m, n \in Nat, m \in Nat, n <= m,
         IsChain(f, h, key, first, n), IsChain(g, h, key, first, m)
  PROVE  f[n] = g[n]
<1>1. \A u \in 0..n : f[u] = IF u = 0 THEN first ELSE Hmac(h, key, f[u - 1])
  BY DEF IsChain
<1>2. \A u \in 0..m : g[u] = IF u = 0 THEN first ELSE Hmac(h, key, g[u - 1])
  BY DEF IsChain
<1> DEFINE S == {u \in Nat : u \in 0..n => f[u] = g[u]}
<1>3. 0 \in S
  <2>1. 0 \in 0..n /\ 0 \in 0..m
    OBVIOUS
  <2> QED
    BY <1>1, <1>2, <2>1
<1>4. ASSUME NEW u \in Nat, u \in S
      PROVE  u + 1 \in S
  <2> SUFFICES ASSUME u + 1 \in 0..n
               PROVE  f[u + 1] = g[u + 1]
    OBVIOUS
  <2>1. u \in 0..n /\ u + 1 \in 0..m /\ u + 1 # 0 /\ (u + 1) - 1 = u
    OBVIOUS
  <2>2. f[u] = g[u]
    BY <1>4, <2>1
  <2>3. f[u + 1] = Hmac(h, key, f[u]) /\ g[u + 1] = Hmac(h, key, g[u])
    BY <1>1, <1>2, <2>1
  <2> QED
    BY <2>2, <2>3
<1> HIDE DEF S
<1>5. \A u \in Nat : u \in S
  BY <1>3, <1>4, Induction
<1>6. n \in 0..n
  OBVIOUS
<1> QED
  BY <1>5, <1>6 DEF S

LEMMA PHashIs ==
  ASSUME NEW h, NEW secret, NEW seed, NEW k, NEW n, n = (k + HashLen - 1) \div HashLen, n \in Nat
  PROVE  \E f : /\ IsChain(f, h, secret, seed, n)
                /\ PHash(h, secret, seed, k) =
                     Hmac(h, secret, f[n] \o seed)[((k - 1) % HashLen) + 1]
<1> DEFINE P(f) == IsChain(f, h, secret, seed, n)
<1>1. PICK a : a = CHOOSE f : P(f)
  OBVIOUS
<1>2. PHash(h, secret, seed, k) = Hmac(h, secret, a[n] \o seed)[((k - 1) % HashLen) + 1]
  BY <1>1 DEF PHash, IsChain
<1>3. \E f : P(f)
  BY ChainExists
<1> HIDE DEF P
<1>4. P(a)
  BY <1>1, <1>3
<1> QED
  BY <1>2, <1>4 DEF P

Link(c, h, key, seed, n, u) ==
  /\ IsString(c[u]) /\ IsString(c[u] \o seed)
  /\ u # n => c[u + 1] = Hmac(h, key, c[u])
  /\ c[0] = seed

\* The link c[n] of a chain is text, and the code of it with the seed too.
LEMMA ChainText ==
  ASSUME NEW c, NEW h, NEW key, NEW seed, NEW n, NEW u, n \in Nat, ForMac(h), IsString(seed),
         IsChain(c, h, key, seed, n), u \in 0..n
  PROVE  Link(c, h, key, seed, n, u)
<1>1. \A x \in 0..n : c[x] = IF x = 0 THEN seed ELSE Hmac(h, key, c[x - 1])
  BY DEF IsChain
<1>2. IsString(c[u])
  <2>1. CASE u = 0
    BY <1>1, <2>1
  <2>2. CASE u # 0
    <3>1. c[u] = Hmac(h, key, c[u - 1])
      BY <1>1, <2>2
    <3> QED
      BY <3>1, HmacByte DEF IsText
  <2> QED
    BY <2>1, <2>2
<1>3. IsString(c[u] \o seed)
  BY <1>2, Joined
<1>4. u # n => c[u + 1] = Hmac(h, key, c[u])
  <2> SUFFICES ASSUME u # n
               PROVE  c[u + 1] = Hmac(h, key, c[u])
    OBVIOUS
  <2>1. u + 1 \in 0..n /\ u + 1 # 0 /\ (u + 1) - 1 = u
    OBVIOUS
  <2> QED
    BY <1>1, <2>1
<1>5. 0 \in 0..n
  OBVIOUS
<1> QED
  BY <1>1, <1>2, <1>3, <1>4, <1>5 DEF Link

IsRounds(f, h, dst, secret, seed, c, r) ==
  /\ f[0].dst = dst
  /\ \A n \in 0..(r - 1) :
       f[n + 1].dst = Over(f[n].dst, n * HashLen, Hmac(h, secret, c[n + 1] \o seed))

\* Each round: the next link of the chain, and the code of the link with the seed.
LEMMA PhashRounds ==
  ASSUME NEW h, NEW dst, NEW secret, NEW seed, NEW f, NEW c, NEW r, NEW m, ForMac(h),
         IsString(secret), IsString(seed), r \in Nat, m \in Nat, m = r + 1,
         IsPhash(f, h, dst, br_hmac_key_init(h, secret), seed, r),
         IsChain(c, h, secret, seed, m)
  PROVE  IsRounds(f, h, dst, secret, seed, c, r)
<1>1. PICK kc : kc = br_hmac_key_init(h, secret)
  OBVIOUS
<1>2. \A u \in 0..r : f[u] = IF u = 0 THEN FirstCode(h, dst, kc, seed)
                             ELSE NextCode(h, kc, seed, f[u - 1], u)
  BY <1>1 DEF IsPhash
<1>3. \A s : IsString(s) => hmac(h, kc, s) = Hmac(h, secret, s)
  BY <1>1, HmacOnce
<1>4. \A u \in 0..m : Link(c, h, secret, seed, m, u)
  BY ChainText
<1>5. f[0] = [dst |-> dst, a |-> hmac(h, kc, seed)]
  <2>1. 0 \in 0..r
    OBVIOUS
  <2> QED
    BY <1>2, <2>1 DEF FirstCode
<1> DEFINE S == {u \in Nat : u \in 0..r => f[u].a = c[u + 1]}
<1>6. 0 \in S
  <2>1. 0 \in 0..m /\ 0 # m
    OBVIOUS
  <2>2. c[0 + 1] = Hmac(h, secret, c[0]) /\ c[0] = seed
    BY <1>4, <2>1 DEF Link
  <2>3. f[0].a = Hmac(h, secret, seed)
    BY <1>3, <1>5
  <2> QED
    BY <2>2, <2>3
<1>7. ASSUME NEW u \in Nat, u \in 0..(r - 1)
      PROVE  f[u + 1] = [dst |-> Over(f[u].dst, u * HashLen, hmac(h, kc, f[u].a \o seed)),
                         a |-> hmac(h, kc, f[u].a)]
  <2>1. u + 1 \in 0..r /\ u + 1 # 0 /\ (u + 1) - 1 = u
    BY <1>7
  <2>2. f[u + 1] = NextCode(h, kc, seed, f[u], u + 1)
    BY <1>2, <2>1
  <2> QED
    BY <2>1, <2>2 DEF NextCode
<1>8. ASSUME NEW u \in Nat, u \in S
      PROVE  u + 1 \in S
  <2> SUFFICES ASSUME u + 1 \in 0..r
               PROVE  f[u + 1].a = c[(u + 1) + 1]
    OBVIOUS
  <2>1. u \in 0..r /\ u \in 0..(r - 1) /\ u + 1 \in 0..m /\ u + 1 # m
    OBVIOUS
  <2>2. PICK s : s = f[u].a /\ s = c[u + 1]
    BY <1>8, <2>1
  <2>3. f[u + 1].a = hmac(h, kc, s)
    <3>1. PICK d, x : d = Over(f[u].dst, u * HashLen, hmac(h, kc, s \o seed))
                        /\ x = hmac(h, kc, s)
      OBVIOUS
    <3>2. f[u + 1] = [dst |-> d, a |-> x]
      BY <1>7, <2>1, <2>2, <3>1
    <3>3. f[u + 1].a = x
      BY ONLY <3>2
    <3> QED
      BY <3>1, <3>3
  <2>4. PICK v \in 0..m : v = u + 1 /\ v # m
    BY <2>1
  <2>5. IsString(c[v]) /\ c[v + 1] = Hmac(h, secret, c[v])
    BY <1>4, <2>4 DEF Link
  <2> QED
    BY <1>3, <2>2, <2>3, <2>4, <2>5
<1> HIDE DEF S
<1>9. \A u \in Nat : u \in S
  BY <1>6, <1>8, Induction
<1>10. ASSUME NEW n \in 0..(r - 1)
       PROVE  f[n + 1].dst = Over(f[n].dst, n * HashLen, Hmac(h, secret, c[n + 1] \o seed))
  <2>1. n \in Nat /\ n \in 0..r
    OBVIOUS
  <2>2. PICK s : s = f[n].a /\ s = c[n + 1]
    BY <1>9, <2>1 DEF S
  <2>3. PICK v \in 0..m : v = n + 1
    <3>1. n + 1 \in 0..m
      BY <2>1
    <3> QED
      BY <3>1
  <2>4. IsString(c[v] \o seed)
    BY <1>4, <2>3 DEF Link
  <2>5. hmac(h, kc, s \o seed) = Hmac(h, secret, c[n + 1] \o seed)
    BY <1>3, <2>2, <2>3, <2>4
  <2>6. PICK d, x, y : d = f[n].dst /\ x = hmac(h, kc, s \o seed) /\ y = hmac(h, kc, s)
    OBVIOUS
  <2>7. f[n + 1] = [dst |-> Over(d, n * HashLen, x), a |-> y]
    BY <1>7, <2>1, <2>2, <2>6
  <2>8. f[n + 1].dst = Over(d, n * HashLen, x)
    BY <2>7
  <2> QED
    BY <2>5, <2>6, <2>8
<1>11. f[0].dst = dst
  BY ONLY <1>5
<1> QED
  BY <1>10, <1>11 DEF IsRounds

\* P_hash lays its bytes over what is there, each byte of P_hash once and in its
\* place, whatever the length asked for, the secret and the seed (br_tls_phash,
\* prf.c).
THEOREM PhashAll ==
  ASSUME NEW h, NEW dst, NEW len, NEW secret, NEW seed, ForMac(h), len \in Nat,
         IsText(dst, len), IsString(secret), IsString(seed)
  PROVE  br_tls_phash(h, dst, secret, seed)
           = [k \in 1..len |-> Toggled(dst[k], PHash(h, secret, seed, k))]
<1>1. PICK r \in Nat : r = Rounds(len)
  BY AllRounds
<1>2. PICK f : /\ IsPhash(f, h, dst, br_hmac_key_init(h, secret), seed, r)
               /\ br_tls_phash(h, dst, secret, seed) = f[r].dst
  BY <1>1, PhashIs
<1>3. PICK m \in Nat : m = r + 1
  OBVIOUS
<1>13. PICK c : IsChain(c, h, secret, seed, m)
  BY ChainExists
<1>4. /\ f[0].dst = dst
      /\ \A n \in 0..(r - 1) :
           f[n + 1].dst = Over(f[n].dst, n * HashLen, Hmac(h, secret, c[n + 1] \o seed))
  <2>1. IsRounds(f, h, dst, secret, seed, c, r)
    BY <1>2, <1>3, <1>13, PhashRounds
  <2> QED
    BY <2>1, Zenon DEF IsRounds
<1> DEFINE g == [n \in 0..r |-> f[n].dst]
           p == [n \in 1..r |-> Hmac(h, secret, c[n] \o seed)]
<1>5. g[0] = dst /\ g[r] = f[r].dst
  BY <1>4
<1>6. \A n \in 0..(r - 1) : g[n + 1] = Over(g[n], n * HashLen, p[n + 1])
  <2> TAKE n \in 0..(r - 1)
  <2>1. n \in 0..r /\ n + 1 \in 0..r /\ n + 1 \in 1..r
    OBVIOUS
  <2>2. g[n] = f[n].dst /\ g[n + 1] = f[n + 1].dst /\ p[n + 1] = Hmac(h, secret, c[n + 1] \o seed)
    BY <2>1
  <2> QED
    BY <1>4, <2>2
<1>7. \A n \in 1..r : p[n] = Hmac(h, secret, c[n] \o seed)
  OBVIOUS
<1> HIDE DEF g, p
<1>8. \A n \in 1..r : IsText(p[n], HashLen)
  BY <1>7, HmacByte
<1>9. LaidBy(g, p, dst, r)
  BY <1>5, <1>6 DEF LaidBy
<1>10. g[r] = [k \in 1..len |-> Toggled(dst[k], ChunkByte(p, k))]
  BY <1>1, <1>8, <1>9, RoundsCover
<1>11. ASSUME NEW k \in 1..len
       PROVE  ChunkByte(p, k) = PHash(h, secret, seed, k)
  <2>1. PICK n : n = ((k - 1) \div HashLen) + 1 /\ n \in 1..r
               /\ n = (k + HashLen - 1) \div HashLen
    BY <1>1, AllRounds
  <2>2. PICK a : /\ IsChain(a, h, secret, seed, n)
                 /\ PHash(h, secret, seed, k) =
                      Hmac(h, secret, a[n] \o seed)[((k - 1) % HashLen) + 1]
    <3>1. n \in Nat
      BY <2>1
    <3> QED
      BY <2>1, <3>1, PHashIs
  <2>3. n \in Nat /\ n <= m
    BY <1>3, <2>1
  <2>4. a[n] = c[n]
    BY <1>13, <2>2, <2>3, SameChain
  <2>5. p[n] = Hmac(h, secret, c[n] \o seed)
    BY <1>7, <2>1
  <2>6. ChunkByte(p, k) = p[n][((k - 1) % HashLen) + 1]
    BY <2>1 DEF ChunkByte
  <2> QED
    BY <2>2, <2>4, <2>5, <2>6
<1>12. g[r] = [k \in 1..len |-> Toggled(dst[k], PHash(h, secret, seed, k))]
  BY <1>10, <1>11, Zenon
<1> QED
  BY <1>2, <1>5, <1>12

-----------------------------------------------------------------------------
(* The mask.                                                                 *)
MaskBlock(h, seed, under, n) ==
  Over(under, (n - 1) * HashLen,
       br_hash_out(h, br_hash_update(h,
         br_hash_update(h, br_hash_init(h), seed), CountBlock(n - 1))))

IsMask(f, h, data, seed, n) ==
  f = [u \in 0..n |-> IF u = 0 THEN data ELSE MaskBlock(h, seed, f[u - 1], u)]

LEMMA MaskExists ==
  ASSUME NEW h, NEW data, NEW seed
  PROVE  \A n \in Nat : \E f : IsMask(f, h, data, seed, n)
<1> DEFINE S == {n \in Nat : \E f : IsMask(f, h, data, seed, n)}
<1>1. 0 \in S
  <2> DEFINE f == [u \in 0..0 |-> data]
  <2>1. IsMask(f, h, data, seed, 0)
    BY DEF IsMask
  <2> QED
    BY <2>1
<1>2. ASSUME NEW n \in Nat, n \in S
      PROVE  n + 1 \in S
  <2>1. PICK f : IsMask(f, h, data, seed, n)
    BY <1>2
  <2> DEFINE g == [u \in 0..(n + 1) |->
                     IF u = n + 1 THEN MaskBlock(h, seed, f[n], (n + 1)) ELSE f[u]]
             e == [u \in 0..(n + 1) |->
                     IF u = 0 THEN data ELSE MaskBlock(h, seed, g[u - 1], u)]
  <2>2. ASSUME NEW u \in 0..(n + 1)
        PROVE  g[u] = IF u = 0 THEN data ELSE MaskBlock(h, seed, g[u - 1], u)
    <3>1. CASE u = n + 1
      <4>1. u - 1 = n /\ n \in 0..(n + 1) /\ n # n + 1 /\ u # 0
        BY <3>1
      <4> QED
        BY <3>1, <4>1
    <3>2. CASE u # n + 1
      <4>1. u \in 0..n /\ (u # 0 => u - 1 \in 0..(n + 1) /\ u - 1 # n + 1)
        BY <3>2
      <4>2. f[u] = IF u = 0 THEN data ELSE MaskBlock(h, seed, f[u - 1], u)
        BY <2>1, <4>1 DEF IsMask
      <4> QED
        BY <3>2, <4>1, <4>2
    <3> QED
      BY <3>1, <3>2
  <2>3. g = e
    <3>1. g = [u \in 0..(n + 1) |-> g[u]]
      OBVIOUS
    <3> HIDE DEF g
    <3> QED
      BY <2>2, <3>1, Zenon
  <2>4. IsMask(g, h, data, seed, n + 1)
    BY <2>3, Zenon DEF IsMask
  <2> QED
    BY <2>4
<1> HIDE DEF S
<1>3. \A n \in Nat : n \in S
  BY <1>1, <1>2, Induction
<1> QED
  BY <1>3 DEF S

LEMMA MaskIs ==
  ASSUME NEW h, NEW data, NEW len, NEW seed, IsText(data, len)
  PROVE  \E f : /\ IsMask(f, h, data, seed, Rounds(len))
                /\ br_mgf1_xor(h, data, seed) = f[Rounds(len)]
<1>1. Len(data) = len /\ len \in Nat
  BY DEF IsText
<1> DEFINE P(f) == IsMask(f, h, data, seed, Rounds(Len(data)))
<1>2. PICK a : a = CHOOSE f : P(f)
  OBVIOUS
<1>3. br_mgf1_xor(h, data, seed) = a[Rounds(Len(data))]
  BY <1>2 DEF br_mgf1_xor, IsMask, MaskBlock
<1>4. \E f : P(f)
  BY <1>1, AllRounds, MaskExists
<1> HIDE DEF P
<1>5. P(a)
  BY <1>2, <1>4
<1> QED
  BY <1>1, <1>3, <1>5 DEF P

LEMMA MaskDigest ==
  ASSUME NEW h, NEW seed, NEW n, Sound(h), IsString(seed)
  PROVE  br_hash_out(h, br_hash_update(h,
           br_hash_update(h, br_hash_init(h), seed), CountBlock(n)))
           = Digest(h, seed \o CountBlock(n))
<1>1. PICK t : t = CountBlock(n)
  OBVIOUS
<1>2. IsString(t)
  <2>1. t = [i \in 1..4 |-> t[i]]
    BY <1>1 DEF CountBlock
  <2> QED
    BY <2>1, StringOf
<1>3. PICK cc : cc = br_hash_update(h, br_hash_init(h), seed)
  OBVIOUS
<1>4. Stands(h, cc, seed)
  BY <1>3, FreshStands
<1>5. Stands(h, br_hash_update(h, cc, t), seed \o t)
  BY <1>2, <1>4, UpdateStands
<1>6. br_hash_out(h, br_hash_update(h, cc, t)) = Digest(h, seed \o t)
  BY <1>5, OutStands
<1> QED
  BY <1>1, <1>3, <1>6

\* MGF1 lays its mask over what is there, each byte of the mask once and in its
\* place, for data of any length (br_mgf1_xor, mgf1.c).
THEOREM MaskAll ==
  ASSUME NEW h, NEW data, NEW len, NEW seed, Sound(h), len \in Nat, IsText(data, len),
         IsString(seed)
  PROVE  br_mgf1_xor(h, data, seed)
           = [k \in 1..len |-> Toggled(data[k], Mask(h, seed, k))]
<1>1. PICK r \in Nat : r = Rounds(len)
  BY AllRounds
<1>2. PICK f : IsMask(f, h, data, seed, r) /\ br_mgf1_xor(h, data, seed) = f[r]
  BY <1>1, MaskIs
<1>3. \A u \in 0..r : f[u] = IF u = 0 THEN data ELSE MaskBlock(h, seed, f[u - 1], u)
  BY <1>2 DEF IsMask
<1> DEFINE p == [n \in 1..r |-> Digest(h, seed \o CountBlock(n - 1))]
<1>4. \A n \in 1..r : p[n] = Digest(h, seed \o CountBlock(n - 1))
  OBVIOUS
<1> HIDE DEF p
<1>5. \A n \in 1..r : IsText(p[n], HashLen)
  BY <1>4, DigestText DEF Digest
<1>6. LaidBy(f, p, data, r)
  <2>1. f[0] = data
    BY <1>3
  <2>2. ASSUME NEW n \in 0..(r - 1)
        PROVE  f[n + 1] = Over(f[n], n * HashLen, p[n + 1])
    <3>1. n + 1 \in 0..r /\ n + 1 \in 1..r /\ n + 1 # 0 /\ (n + 1) - 1 = n
      OBVIOUS
    <3>2. f[n + 1] = MaskBlock(h, seed, f[n], n + 1)
      BY <1>3, <3>1
    <3>3. p[n + 1] = Digest(h, seed \o CountBlock(n))
      BY <1>4, <3>1
    <3>4. f[n + 1] = Over(f[n], n * HashLen,
                       br_hash_out(h, br_hash_update(h,
                         br_hash_update(h, br_hash_init(h), seed), CountBlock(n))))
      BY <3>1, <3>2 DEF MaskBlock
    <3> QED
      BY <3>3, <3>4, MaskDigest
  <2> QED
    BY <2>1, <2>2 DEF LaidBy
<1>7. f[r] = [k \in 1..len |-> Toggled(data[k], ChunkByte(p, k))]
  BY <1>1, <1>5, <1>6, RoundsCover
<1>8. ASSUME NEW k \in 1..len
      PROVE  ChunkByte(p, k) = Mask(h, seed, k)
  <2>1. PICK n : n = ((k - 1) \div HashLen) + 1 /\ n \in 1..r
    BY <1>1, AllRounds
  <2>2. n - 1 = (k - 1) \div HashLen
    <3>1. (k - 1) \div HashLen \in Int
      BY HashLenIs
    <3> QED
      BY <2>1, <3>1
  <2>3. p[n] = Digest(h, seed \o CountBlock((k - 1) \div HashLen))
    BY <1>4, <2>1, <2>2
  <2> QED
    BY <2>1, <2>3 DEF ChunkByte, Mask
<1>9. f[r] = [k \in 1..len |-> Toggled(data[k], Mask(h, seed, k))]
  BY <1>7, <1>8, Zenon
<1> QED
  BY <1>2, <1>9

-----------------------------------------------------------------------------
(* The PRF of TLS and the mask, as they are used.                            *)
LEMMA ImplsFit ==
  ASSUME NEW id, id \in {1, 2, 4}
  PROVE  id \in DOMAIN Impl /\ ForMac(Impl[id]) /\ Impl[id].id = id
<1>1. id \in DOMAIN Impl
  BY HashAssumption
<1>2. Impl[id] \in Macs \cup {Impl[x] : x \in DOMAIN Impl}
  BY <1>1
<1> QED
  BY <1>1, <1>2, HashAssumption DEF ForMac, Sound

LEMMA ClearText ==
  ASSUME NEW len, len \in Nat
  PROVE  /\ IsText([i \in 1..len |-> {}], len)
         /\ \A k \in 1..len : [i \in 1..len |-> {}][k] = {}
<1> DEFINE t == [i \in 1..len |-> {}]
<1>1. t = [i \in 1..len |-> t[i]] /\ \A k \in 1..len : t[k] = {}
  OBVIOUS
<1> HIDE DEF t
<1>2. IsString(t) /\ Len(t) = len
  BY <1>1, StringOf
<1> QED
  BY <1>1, <1>2 DEF IsText, t

LaidOver(u, dst, h, secret, seed, len) ==
  u = [k \in 1..len |-> Toggled(dst[k], PHash(h, secret, seed, k))]

MaskedBy(u, d, h, seed, len) ==
  u = [k \in 1..len |-> Toggled(d[k], Mask(h, seed, k))]

\* The two results on whole texts, for use by name.
LEMMA PhashOver ==
  ASSUME NEW h, NEW dst, NEW len, NEW secret, NEW seed, ForMac(h), len \in Nat,
         IsText(dst, len), IsString(secret), IsString(seed)
  PROVE  LaidOver(br_tls_phash(h, dst, secret, seed), dst, h, secret, seed, len)
<1>1. br_tls_phash(h, dst, secret, seed)
        = [k \in 1..len |-> Toggled(dst[k], PHash(h, secret, seed, k))]
  BY PhashAll
<1> QED
  BY <1>1 DEF LaidOver

LEMMA MaskedData ==
  ASSUME NEW h, NEW data, NEW len, NEW seed, Sound(h), len \in Nat, IsText(data, len),
         IsString(seed)
  PROVE  MaskedBy(br_mgf1_xor(h, data, seed), data, h, seed, len)
<1>1. br_mgf1_xor(h, data, seed) = [k \in 1..len |-> Toggled(data[k], Mask(h, seed, k))]
  BY MaskAll
<1> QED
  BY <1>1 DEF MaskedBy

\* Laid over nothing, a byte is there alone (br_tls12_phash, prf.c).
PrfAlone(u, h, secret, seed, len) == u = [k \in 1..len |-> {PHash(h, secret, seed, k)}]

LEMMA Prf12 ==
  ASSUME NEW h, NEW len, NEW secret, NEW seed, ForMac(h), len \in Nat,
         IsString(secret), IsString(seed)
  PROVE  /\ PrfAlone(br_tls12_prf(h, len, secret, seed), h, secret, seed, len)
         /\ PrfAlone(br_tls_phash(h, [i \in 1..len |-> {}], secret, seed), h, secret, seed, len)
<1>1. PICK clear : clear = [i \in 1..len |-> {}]
  OBVIOUS
<1>2. IsText(clear, len) /\ \A k \in 1..len : clear[k] = {}
  BY <1>1, ClearText
<1>3. PICK u : u = br_tls_phash(h, clear, secret, seed)
  OBVIOUS
<1>4. LaidOver(u, clear, h, secret, seed, len)
  BY <1>2, <1>3, PhashOver
<1>5. u = [k \in 1..len |-> Toggled(clear[k], PHash(h, secret, seed, k))]
  BY <1>4 DEF LaidOver
<1>6. \A k \in 1..len :
        Toggled(clear[k], PHash(h, secret, seed, k)) = {PHash(h, secret, seed, k)}
  BY <1>2 DEF Toggled
<1>7. u = [k \in 1..len |-> {PHash(h, secret, seed, k)}]
  BY <1>5, <1>6, Zenon
<1>8. PrfAlone(u, h, secret, seed, len)
  BY <1>7 DEF PrfAlone
<1>9. u = br_tls12_prf(h, len, secret, seed)
  BY <1>1, <1>3 DEF br_tls12_prf
<1> QED
  BY <1>1, <1>3, <1>8, <1>9

\* A byte of one function is not a byte of another.
IsDigestByte(x, id) == \E v, j : x = <<"digest", id, v, j>>

LEMMA PHashByte ==
  ASSUME NEW h, NEW len, NEW secret, NEW seed, NEW k, ForMac(h), len \in Nat, k \in 1..len
  PROVE  IsDigestByte(PHash(h, secret, seed, k), h.id)
<1>1. PICK q, r, n : /\ q = (k - 1) \div HashLen /\ r = Rounds(len) /\ r \in Nat
                     /\ n = (k + HashLen - 1) \div HashLen
  BY AllRounds
<1>2. q + 1 \in 1..r /\ n = q + 1
  BY <1>1, AllRounds
<1>3. n \in Nat
  BY <1>1, <1>2
<1>4. PICK j : j = ((k - 1) % HashLen) + 1 /\ j \in 1..HashLen
  BY AllRounds
<1>5. PICK f : PHash(h, secret, seed, k) = Hmac(h, secret, f[n] \o seed)[j]
  BY <1>1, <1>3, <1>4, PHashIs
<1>6. PICK v : \A i \in 1..HashLen : Hmac(h, secret, f[n] \o seed)[i] = <<"digest", h.id, v, i>>
  BY HmacByte
<1> QED
  BY <1>4, <1>5, <1>6 DEF IsDigestByte

LEMMA OtherByte ==
  ASSUME NEW x, NEW y, NEW a, NEW b, IsDigestByte(x, a), IsDigestByte(y, b), a # b
  PROVE  x # y
<1>1. PICK v, i : x = <<"digest", a, v, i>>
  BY DEF IsDigestByte
<1>2. PICK w, j : y = <<"digest", b, w, j>>
  BY DEF IsDigestByte
<1>3. <<"digest", a, v, i>> # <<"digest", b, w, j>>
  OBVIOUS
<1> QED
  BY <1>1, <1>2, <1>3

\* Both functions are laid over each other (br_tls10_prf, prf_md5sha1.c).
PrfBoth(u, f, h, s, t, seed, len) ==
  u = [k \in 1..len |-> {PHash(f, s, seed, k), PHash(h, t, seed, k)}]

LEMMA Prf10 ==
  ASSUME NEW f, NEW h, NEW len, NEW s, NEW t, NEW seed, ForMac(f), ForMac(h), len \in Nat,
         f.id # h.id, IsString(s), IsString(t), IsString(seed)
  PROVE  PrfBoth(br_tls_phash(h, br_tls_phash(f, [i \in 1..len |-> {}], s, seed), t, seed),
                 f, h, s, t, seed, len)
<1>1. PICK one : one = br_tls_phash(f, [i \in 1..len |-> {}], s, seed)
  OBVIOUS
<1>2. PrfAlone(one, f, s, seed, len)
  BY <1>1, Prf12
<1>3. one = [k \in 1..len |-> one[k]] /\ \A k \in 1..len : one[k] = {PHash(f, s, seed, k)}
  BY <1>2 DEF PrfAlone
<1>4. IsText(one, len)
  BY <1>3, StringOf DEF IsText
<1>5. PICK both : both = br_tls_phash(h, one, t, seed)
  OBVIOUS
<1>6. LaidOver(both, one, h, t, seed, len)
  BY <1>4, <1>5, PhashOver
<1>7. ASSUME NEW k \in 1..len
      PROVE  Toggled(one[k], PHash(h, t, seed, k)) = {PHash(f, s, seed, k), PHash(h, t, seed, k)}
  <2>1. PICK x, y : x = PHash(f, s, seed, k) /\ y = PHash(h, t, seed, k)
    OBVIOUS
  <2>2. IsDigestByte(x, f.id)
    BY <2>1, PHashByte
  <2>3. IsDigestByte(y, h.id)
    BY <2>1, PHashByte
  <2>4. x # y
    BY <2>2, <2>3, OtherByte
  <2>5. one[k] = {x}
    BY <1>3, <2>1
  <2>6. Toggled(one[k], y) = {x, y}
    BY <2>4, <2>5 DEF Toggled
  <2> QED
    BY <2>1, <2>6
<1>8. both = [k \in 1..len |-> Toggled(one[k], PHash(h, t, seed, k))]
  BY <1>6 DEF LaidOver
<1>9. both = [k \in 1..len |-> {PHash(f, s, seed, k), PHash(h, t, seed, k)}]
  BY <1>7, <1>8, Zenon
<1> QED
  BY <1>1, <1>5, <1>9 DEF PrfBoth

\* A mask over data (br_mgf1_xor).
MaskOver(u, h, seed, len) == u = [k \in 1..len |-> {<<"data", k>>, Mask(h, seed, k)}]

LEMMA DataMasked ==
  ASSUME NEW h, NEW len, NEW seed, Sound(h), len \in Nat, IsString(seed)
  PROVE  MaskOver(br_mgf1_xor(h, [i \in 1..len |-> {<<"data", i>>}], seed), h, seed, len)
<1>1. PICK data : data = [i \in 1..len |-> {<<"data", i>>}]
  OBVIOUS
<1>2. data = [k \in 1..len |-> data[k]] /\ \A k \in 1..len : data[k] = {<<"data", k>>}
  BY <1>1
<1>3. IsText(data, len)
  BY <1>2, StringOf DEF IsText
<1>4. PICK u : u = br_mgf1_xor(h, data, seed)
  OBVIOUS
<1>5. MaskedBy(u, data, h, seed, len)
  BY <1>3, <1>4, MaskedData
<1>6. ASSUME NEW k \in 1..len
      PROVE  Toggled(data[k], Mask(h, seed, k)) = {<<"data", k>>, Mask(h, seed, k)}
  <2>1. PICK j : j = ((k - 1) % HashLen) + 1 /\ j \in 1..HashLen
    BY AllRounds
  <2>2. PICK v : Mask(h, seed, k) = DigestBytes(h, v)[j]
    BY <2>1 DEF Mask, Digest
  <2>3. Mask(h, seed, k) = <<"digest", h.id, v, j>>
    BY <2>1, <2>2, DigestByte
  <2>4. PICK id : id = h.id
    OBVIOUS
  <2>5. <<"data", k>> # <<"digest", id, v, j>>
    OBVIOUS
  <2>6. PICK x, y : x = <<"data", k>> /\ y = Mask(h, seed, k)
    OBVIOUS
  <2>7. x # y
    BY <2>3, <2>4, <2>5, <2>6
  <2>8. data[k] = {x}
    BY <1>2, <2>6
  <2>9. Toggled(data[k], y) = {x, y}
    BY <2>7, <2>8 DEF Toggled
  <2> QED
    BY <2>6, <2>9
<1>7. u = [k \in 1..len |-> Toggled(data[k], Mask(h, seed, k))]
  BY <1>5 DEF MaskedBy
<1>8. u = [k \in 1..len |-> {<<"data", k>>, Mask(h, seed, k)}]
  BY <1>6, <1>7, Zenon
<1> QED
  BY <1>1, <1>4, <1>8 DEF MaskOver

PrfOut(version, secret, len) ==
  CASE version = "tls10" -> br_tls10_prf(Impl[1], Impl[2], len, Secret(secret), Seed)
    [] version = "tls12" -> br_tls12_prf(Impl[4], len, Secret(secret), Seed)
    [] OTHER -> br_mgf1_xor(Impl[4], [i \in 1..len |-> {<<"data", i>>}], Secret(secret))

PrfByteOf(version, secret, k) ==
  LET s == Secret(secret)
      half == (secret + 1) \div 2
  IN  CASE version = "tls10" ->
             {PHash(Impl[1], SubSeq(s, 1, half), Seed, k),
              PHash(Impl[2], SubSeq(s, secret - half + 1, secret), Seed, k)}
        [] version = "tls12" -> {PHash(Impl[4], s, Seed, k)}
        [] OTHER -> {<<"data", k>>, Mask(Impl[4], s, k)}

LEMMA HalvesText ==
  ASSUME NEW secret, NEW half, secret \in Nat, half = (secret + 1) \div 2
  PROVE  /\ Len(Secret(secret)) = secret /\ IsString(Secret(secret))
         /\ IsString(SubSeq(Secret(secret), 1, half))
         /\ IsString(SubSeq(Secret(secret), secret - half + 1, secret))
<1>1. PICK s : s = Secret(secret)
  OBVIOUS
<1>2. IsText(s, secret)
  BY <1>1, BytesFrom1 DEF Secret
<1>3. IsString(s) /\ Len(s) = secret
  BY <1>2 DEF IsText
<1>4. half \in 0..secret
  OBVIOUS
<1>5. IsString(SubSeq(s, 1, half))
  BY <1>2, <1>4, HeadText DEF IsText
<1>6. secret - half + 1 \in 1..(secret + 1) /\ secret \in ((secret - half + 1) - 1)..secret
  BY <1>4
<1>7. PICK m : m = secret - half + 1
  OBVIOUS
<1>8. IsString(SubSeq(s, m, secret))
  BY <1>3, <1>6, <1>7, CutString
<1> QED
  BY <1>1, <1>3, <1>5, <1>7, <1>8

\* In one call: each byte of the PRF or of the masked data is the standard's.
LEMMA PrfIs ==
  ASSUME NEW version, NEW secret, NEW len, secret \in Nat, len \in Nat
  PROVE  PrfOut(version, secret, len) = [k \in 1..len |-> PrfByteOf(version, secret, k)]
<1>1. PICK s, half : s = Secret(secret) /\ half = (secret + 1) \div 2
  OBVIOUS
<1>2. PICK left, right : left = SubSeq(s, 1, half) /\ right = SubSeq(s, secret - half + 1, secret)
  OBVIOUS
<1>3. Len(s) = secret /\ IsString(s) /\ IsString(left) /\ IsString(right)
  BY <1>1, <1>2, HalvesText
<1>4. IsString(Seed)
  BY BytesFrom1 DEF Seed, IsText
<1>5. PICK f, g, h : /\ f = Impl[1] /\ g = Impl[2] /\ h = Impl[4]
                     /\ ForMac(f) /\ ForMac(g) /\ ForMac(h) /\ f.id # g.id
  <2>1. /\ ForMac(Impl[1]) /\ ForMac(Impl[2]) /\ ForMac(Impl[4])
        /\ Impl[1].id = 1 /\ Impl[2].id = 2
    BY ImplsFit
  <2> QED
    BY <2>1
<1>6. CASE version = "tls10"
  <2>1. PrfOut(version, secret, len)
          = br_tls_phash(g, br_tls_phash(f, [i \in 1..len |-> {}], left, Seed), right, Seed)
    BY <1>1, <1>2, <1>3, <1>5, <1>6 DEF PrfOut, br_tls10_prf
  <2>2. PrfBoth(PrfOut(version, secret, len), f, g, left, right, Seed, len)
    BY <1>3, <1>4, <1>5, <2>1, Prf10
  <2>3. \A k : PrfByteOf(version, secret, k) = {PHash(f, left, Seed, k), PHash(g, right, Seed, k)}
    BY <1>1, <1>2, <1>5, <1>6 DEF PrfByteOf
  <2> QED
    BY <2>2, <2>3, Zenon DEF PrfBoth
<1>7. CASE version = "tls12"
  <2>1. PrfOut(version, secret, len) = br_tls12_prf(h, len, s, Seed)
    BY <1>1, <1>5, <1>7 DEF PrfOut
  <2>2. \A k : PrfByteOf(version, secret, k) = {PHash(h, s, Seed, k)}
    BY <1>1, <1>5, <1>7 DEF PrfByteOf
  <2>3. PrfAlone(PrfOut(version, secret, len), h, s, Seed, len)
    BY <1>3, <1>4, <1>5, <2>1, Prf12
  <2> QED
    BY <2>2, <2>3, Zenon DEF PrfAlone
<1>8. CASE version # "tls10" /\ version # "tls12"
  <2>1. PrfOut(version, secret, len) = br_mgf1_xor(h, [i \in 1..len |-> {<<"data", i>>}], s)
    BY <1>1, <1>5, <1>8 DEF PrfOut
  <2>2. MaskOver(PrfOut(version, secret, len), h, s, len)
    BY <1>3, <1>5, <2>1, DataMasked DEF ForMac
  <2>3. \A k : PrfByteOf(version, secret, k) = {<<"data", k>>, Mask(h, s, k)}
    BY <1>1, <1>5, <1>8 DEF PrfByteOf
  <2> QED
    BY <2>2, <2>3, Zenon DEF MaskOver
<1> QED
  BY <1>6, <1>7, <1>8

PrfRecord(at, version, secret, len, out) ==
  [kind |-> "prf", at |-> at, version |-> version, secret |-> secret, len |-> len, out |-> out]

PrfGood(j) ==
  \E at, version, out : \E secret \in Nat, len \in Nat :
    /\ j = PrfRecord(at, version, secret, len, out)
    /\ at = "done" => out = PrfOut(version, secret, len)

LEMMA PrfBegins ==
  ASSUME NEW version, NEW secret \in KeyLens, NEW len \in 0..MaxOut
  PROVE  PrfGood(PrfJob(version, secret, len))
<1>1. secret \in Nat /\ len \in Nat
  BY ServicesAssumption
<1>2. PrfJob(version, secret, len) = PrfRecord("start", version, secret, len, <<>>)
  BY DEF PrfJob, PrfRecord
<1> QED
  BY <1>1, <1>2 DEF PrfGood

LEMMA PrfFields ==
  ASSUME NEW j, NEW at, NEW version, NEW secret, NEW len, NEW out,
         j = PrfRecord(at, version, secret, len, out)
  PROVE  /\ j.at = at /\ j.version = version /\ j.secret = secret /\ j.len = len /\ j.out = out
BY DEF PrfRecord

LEMMA PrfWorks ==
  ASSUME PrfGood(job), Prf
  PROVE  PrfGood(job')
<1>1. PICK at, version, out : \E secret \in Nat, len \in Nat :
        job = PrfRecord(at, version, secret, len, out)
  BY DEF PrfGood
<1>2. PICK secret \in Nat, len \in Nat : job = PrfRecord(at, version, secret, len, out)
  BY <1>1
<1>3. job.version = version /\ job.secret = secret /\ job.len = len
  BY <1>2, PrfFields
<1>4. PICK new : new = PrfOut(version, secret, len)
  OBVIOUS
<1>5. job' = [job EXCEPT !.at = "done", !.out = new]
  BY <1>3, <1>4 DEF Prf, PrfOut
<1>6. job' = PrfRecord("done", version, secret, len, new)
  BY <1>2, <1>5 DEF PrfRecord
<1> QED
  BY <1>4, <1>6 DEF PrfGood

LEMMA PrfAgrees ==
  ASSUME PrfGood(job), job.at = "done"
  PROVE  job.out = [k \in 1..job.len |-> PrfByte(k)]
<1>1. PICK at, version, out : \E secret \in Nat, len \in Nat :
        /\ job = PrfRecord(at, version, secret, len, out)
        /\ at = "done" => out = PrfOut(version, secret, len)
  BY DEF PrfGood
<1>2. PICK secret \in Nat, len \in Nat :
        /\ job = PrfRecord(at, version, secret, len, out)
        /\ at = "done" => out = PrfOut(version, secret, len)
  BY <1>1
<1>3. job.at = at /\ job.version = version /\ job.secret = secret /\ job.len = len /\ job.out = out
  BY <1>2, PrfFields
<1>4. out = [k \in 1..len |-> PrfByteOf(version, secret, k)]
  BY <1>2, <1>3, PrfIs
<1>5. job.out = [k \in 1..job.len |-> PrfByteOf(job.version, job.secret, k)]
  BY <1>3, <1>4, Zenon
<1>6. \A k : PrfByteOf(job.version, job.secret, k) = PrfByte(k)
  BY DEF PrfByteOf, PrfByte
<1> QED
  BY <1>5, <1>6, Zenon

-----------------------------------------------------------------------------
(* All that is derived.                                                      *)
DerivedInv ==
  /\ HasKind(job)
  /\ job.kind = "pbkdf2" => PbGood(job)
  /\ job.kind = "hkdf" => HkGood(job)
  /\ job.kind = "prf" => PrfGood(job)

LEMMA DerivedInit == Init => DerivedInv
<1> SUFFICES ASSUME Init
             PROVE  DerivedInv
  OBVIOUS
<1>1. CASE ~HashInit
  BY <1>1, OthersBegin DEF Init, DerivedInv, HashKinds
<1>2. CASE \E h \in Macs, salt \in KeyLens \ {0}, n \in 1..MaxIterations, len \in 1..MaxOut :
             job = Pbkdf2(h, salt, n, len)
  BY <1>2, PbBegins DEF DerivedInv, HasKind, Pbkdf2
<1>3. CASE \E h \in Macs, len \in KeyLens : job = HkdfJob(h, Salt(len))
  BY <1>3, HkBegins, SaltsText DEF DerivedInv, HasKind, HkdfJob
<1>4. CASE \E h \in Macs : job = HkdfJob(h, Zeros(HashLen))
  BY <1>4, HkBegins, SaltsText DEF DerivedInv, HasKind, HkdfJob
<1>5. CASE \E version \in {"tls10", "tls12", "mgf1"}, secret \in KeyLens, len \in 0..MaxOut :
             job = PrfJob(version, secret, len)
  BY <1>5, PrfBegins DEF DerivedInv, HasKind, PrfJob
<1>6. CASE job = Transcript
  BY <1>6 DEF DerivedInv, HasKind, Transcript
<1>7. CASE \E h \in Macs, len \in KeyLens : job = Mac(h, len)
  BY <1>7 DEF DerivedInv, HasKind, Mac
<1>8. CASE \E start \in Starts : job = Hashcash(start)
  BY <1>8 DEF DerivedInv, HasKind, Hashcash
<1> QED
  BY <1>1, <1>2, <1>3, <1>4, <1>5, <1>6, <1>7, <1>8 DEF HashInit

LEMMA DerivedNext == DerivedInv /\ [Next]_job => DerivedInv'
<1> SUFFICES ASSUME DerivedInv, [Next]_job
             PROVE  DerivedInv'
  OBVIOUS
<1>1. CASE HashNext
  <2>1. HasKind(job') /\ job'.kind = job.kind
    BY <1>1, HashKind DEF DerivedInv, KindStays
  <2>2. ASSUME job'.kind = "pbkdf2"
        PROVE  PbGood(job')
    <3>1. PbGood(job)
      BY <2>1, <2>2 DEF DerivedInv
    <3>2. Pbkdf2Block \/ Pbkdf2Iterate \/ Pbkdf2Copy
      BY <1>1, <2>1, <2>2
      DEF HashNext, TranscriptUpdate, MacUpdate, HashcashNonce, HashcashChunk, HashcashTail,
          HashcashCompare, HkdfInject, HkdfFlip, HkdfProduce, Prf
    <3> QED
      BY <3>1, <3>2, PbBlockWorks, PbIterateWorks, PbCopyWorks
  <2>3. ASSUME job'.kind = "hkdf"
        PROVE  HkGood(job')
    <3>1. HkGood(job)
      BY <2>1, <2>3 DEF DerivedInv
    <3>2. HkdfInject \/ HkdfFlip \/ HkdfProduce
      BY <1>1, <2>1, <2>3
      DEF HashNext, TranscriptUpdate, MacUpdate, Pbkdf2Block, Pbkdf2Iterate, Pbkdf2Copy,
          HashcashNonce, HashcashChunk, HashcashTail, HashcashCompare, Prf
    <3> QED
      BY <3>1, <3>2, HkInjectWorks, HkFlipWorks, HkProduceWorks
  <2>4. ASSUME job'.kind = "prf"
        PROVE  PrfGood(job')
    <3>1. PrfGood(job)
      BY <2>1, <2>4 DEF DerivedInv
    <3>2. Prf
      BY <1>1, <2>1, <2>4
      DEF HashNext, TranscriptUpdate, MacUpdate, Pbkdf2Block, Pbkdf2Iterate, Pbkdf2Copy,
          HashcashNonce, HashcashChunk, HashcashTail, HashcashCompare, HkdfInject, HkdfFlip,
          HkdfProduce
    <3> QED
      BY <3>1, <3>2, PrfWorks
  <2> QED
    BY <2>1, <2>2, <2>3, <2>4 DEF DerivedInv
<1>2. CASE ~HashNext /\ job' # job
  BY <1>2, OthersKind DEF Next, DerivedInv, HashKinds
<1>3. CASE job' = job
  BY <1>3 DEF DerivedInv
<1> QED
  BY <1>1, <1>2, <1>3

\* Keys, masks and the bytes of a PRF are those of the standards, whatever is asked
\* for and in whatever pieces: the key of PBKDF2 for any salt, iterations and
\* length (wm_pbkdf2_sha512_b64salt, wm_https.c), the bytes of HKDF up to their
\* limit (hkdf.c), the PRF of TLS (prf.c, prf_md5sha1.c) and the mask (mgf1.c).
THEOREM KeyAlwaysDerived == Spec => []DerivedKey
<1>1. DerivedInv => DerivedKey
  <2> SUFFICES ASSUME DerivedInv
               PROVE  DerivedKey
    OBVIOUS
  <2>1. (job.kind = "pbkdf2" /\ job.at = "done") => Pbkdf2Agrees
    BY PbIs DEF DerivedInv
  <2>2. job.kind = "hkdf" => HkdfAgrees
    BY HkIs DEF DerivedInv
  <2>3. (job.kind = "prf" /\ job.at = "done") =>
          job.out = [k \in 1..job.len |-> PrfByte(k)]
    BY PrfAgrees DEF DerivedInv
  <2> QED
    BY <2>1, <2>2, <2>3, Zenon DEF DerivedKey
<1> QED
  BY <1>1, DerivedInit, DerivedNext, PTL DEF Spec
==============================================================================
