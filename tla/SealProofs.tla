----------------------------- MODULE SealProofs ------------------------------
(***************************************************************************)
(* Theorems about AeadServices: GCM, CCM and EAX seal and open a message   *)
(* of any length, with additional data of any length, in any pieces, for   *)
(* blocks of any length over two bytes.  The invariant says where a        *)
(* context stands between two calls: what the MAC has taken, what waits in *)
(* the buffer, what of the key stream is left over, and that what came out *)
(* so far is the beginning of the whole.  The arithmetic of blocks is that *)
(* of ServiceProofs.                                                       *)
(***************************************************************************)
EXTENDS ServiceProofs

-----------------------------------------------------------------------------
(* Blocks of a text, and the text of a stream from some place on.            *)
Aligned(w) == \E q \in Nat : w = Block * q

LEMMA BlockIs == Block \in Nat \ {0} /\ Block > 2
BY BlockAssumption

LEMMA AlignedIs ==
  ASSUME NEW w, Aligned(w)
  PROVE  /\ w \in Nat /\ w % Block = 0 /\ w \div Block \in Nat
         /\ w = Block * (w \div Block)
<1>1. PICK b \in Nat \ {0} : b = Block
  BY BlockIs
<1>2. PICK q \in Nat : w = b * q
  BY <1>1 DEF Aligned
<1>3. w \in Nat /\ w % b = 0 /\ w \div b = q
  BY <1>2, Quotient
<1> QED
  BY <1>1, <1>2, <1>3

LEMMA AlignedSum ==
  ASSUME NEW w, NEW v, NEW u, Aligned(w), Aligned(v), u = w + v
  PROVE  Aligned(u) /\ u \div Block = (w \div Block) + (v \div Block)
<1>1. PICK b \in Nat \ {0} : b = Block
  BY BlockIs
<1>2. PICK q \in Nat, r \in Nat : w = b * q /\ v = b * r
  BY <1>1 DEF Aligned
<1>3. u = b * (q + r) /\ q + r \in Nat
  BY <1>2
<1>4. PICK s \in Nat : s = q + r /\ u = b * s
  BY <1>3
<1>5. w \div b = q /\ v \div b = r /\ u \div b = s
  BY <1>2, <1>4
<1> QED
  BY <1>1, <1>4, <1>5 DEF Aligned

LEMMA OneBlock == Aligned(Block) /\ Aligned(0) /\ Block \div Block = 1 /\ 0 \div Block = 0
<1>1. PICK b \in Nat \ {0} : b = Block
  BY BlockIs
<1>2. b = b * 1 /\ 0 = b * 0 /\ b \div b = 1 /\ 0 \div b = 0
  OBVIOUS
<1> QED
  BY <1>1, <1>2 DEF Aligned

\* The whole blocks of a length, and what is left.
LEMMA WholeIs ==
  ASSUME NEW n, n \in Nat
  PROVE  /\ Aligned(Whole(n)) /\ Whole(n) <= n /\ n = Whole(n) + (n % Block)
         /\ n % Block \in 0..(Block - 1) /\ n \div Block \in Nat
         /\ Whole(n) \div Block = n \div Block
<1>1. PICK b \in Nat \ {0} : b = Block
  BY BlockIs
<1>2. PICK q \in Nat, r \in 0..(b - 1) : n = b * q + r /\ q = n \div b /\ r = n % b
  BY Parts
<1>3. Whole(n) = b * q
  BY <1>1, <1>2 DEF Whole
<1>4. PICK w : w = b * q /\ w \in Nat /\ w \div b = q
  OBVIOUS
<1>5. Aligned(w)
  BY <1>1, <1>2, <1>4 DEF Aligned
<1>6. PICK e : e = n % b /\ e \in 0..(b - 1) /\ n = w + e
  BY <1>2, <1>4
<1> QED
  BY <1>1, <1>2, <1>3, <1>4, <1>5, <1>6

LEMMA WholeAfter ==
  ASSUME NEW w, NEW n, NEW m, n \in Nat, Aligned(w), m = w + n
  PROVE  /\ Whole(m) = w + Whole(n) /\ m % Block = n % Block
         /\ m \div Block = (w \div Block) + (n \div Block)
<1>1. PICK b \in Nat \ {0} : b = Block
  BY BlockIs
<1>2. PICK q \in Nat : w = b * q /\ q = w \div b
  BY <1>1, AlignedIs DEF Aligned
<1>3. PICK s \in Nat, r \in 0..(b - 1) : n = b * s + r /\ s = n \div b /\ r = n % b
  BY Parts
<1>4. b * (q + s) = b * q + b * s /\ b * q \in Nat /\ b * s \in Nat
  OBVIOUS
<1>5. PICK t \in Nat : t = q + s /\ b * t = b * q + b * s
  BY <1>4
<1>6. m \in Int /\ m = b * t + r
  <2>1. PICK x, y, z : x = b * q /\ y = b * s /\ z = b * t
    OBVIOUS
  <2>2. x \in Nat /\ y \in Nat /\ z = x + y /\ w = x /\ n = y + r
    BY <1>2, <1>3, <1>4, <1>5, <2>1
  <2>3. m = z + r /\ m \in Int
    BY <2>2
  <2> QED
    BY <2>1, <2>3
<1>7. t = m \div b /\ r = m % b
  <2>1. t \in Int
    OBVIOUS
  <2> QED
    BY <1>6, <2>1, Quotient
<1>8. m % b = n % b /\ m \div b = (w \div b) + (n \div b)
  BY <1>2, <1>3, <1>5, <1>7
<1>9. m - r = w + (n - r)
  BY <1>2, <1>3, <1>4
<1> QED
  BY <1>1, <1>3, <1>7, <1>8, <1>9 DEF Whole

\* A block that is begun, once it is complete.
LEMMA BlockDone ==
  ASSUME NEW n, NEW k, n \in Nat, n % Block # 0, k = n + (Block - (n % Block))
  PROVE  Aligned(k) /\ k = Whole(n) + Block /\ k \div Block = (n \div Block) + 1
<1>1. Aligned(Whole(n)) /\ n = Whole(n) + (n % Block) /\ Whole(n) \div Block = n \div Block
      /\ n % Block \in 0..(Block - 1)
  BY WholeIs
<1>2. Whole(n) \in Nat /\ Block \in Nat
  BY <1>1, AlignedIs, BlockIs
<1>3. k = Whole(n) + Block
  <2>1. PICK w, e : w = Whole(n) /\ e = n % Block
    OBVIOUS
  <2>2. n = w + e /\ e \in Nat /\ w \in Nat /\ k = n + (Block - e)
    BY <1>1, <1>2, <2>1
  <2> QED
    BY <1>2, <2>1, <2>2
<1> QED
  BY <1>1, <1>3, AlignedSum, OneBlock

\* k is m + n: opaque in the lemmas below, so that they match.
IsSum(k, m, n) == k = m + n
IsJoin(u, s, t) == u = s \o t

\* The stream f from place a on, n bytes of it.
Shows(s, f, a, n) == \A i \in 1..n : s[i] = f[a + i]
Span(f, a, n) == [i \in 1..n |-> f[a + i]]

LEMMA SpanText ==
  ASSUME NEW f, NEW a, NEW n, a \in Nat, n \in Nat
  PROVE  IsText(Span(f, a, n), n) /\ \A i \in 1..n : Span(f, a, n)[i] = f[a + i]
<1>1. PICK s : s = Span(f, a, n)
  OBVIOUS
<1>2. s = [i \in 1..n |-> s[i]] /\ \A i \in 1..n : s[i] = f[a + i]
  BY <1>1 DEF Span
<1> QED
  BY <1>1, <1>2, StringOf DEF IsText

LEMMA SpanSame ==
  ASSUME NEW f, NEW a, NEW n, NEW s, a \in Nat, n \in Nat, IsText(s, n), Shows(s, f, a, n)
  PROVE  s = Span(f, a, n)
BY SpanText, SameText DEF Shows

LEMMA SpanPart ==
  ASSUME NEW f, NEW a, NEW n, NEW j, NEW b, NEW k, a \in Nat, n \in Nat, j \in 0..n,
         IsSum(b, a, j), IsSum(n, j, k), k \in Nat
  PROVE  First(Span(f, a, n), j) = Span(f, a, j) /\ After(Span(f, a, n), j) = Span(f, b, k)
<1>1. PICK s : s = Span(f, a, n)
  OBVIOUS
<1>2. IsString(s) /\ Len(s) = n /\ \A i \in 1..n : s[i] = f[a + i]
  <2>1. IsText(Span(f, a, n), n) /\ \A i \in 1..n : Span(f, a, n)[i] = f[a + i]
    BY SpanText
  <2>2. IsText(s, n) /\ \A i \in 1..n : s[i] = f[a + i]
    BY <1>1, <2>1
  <2> QED
    BY <2>2 DEF IsText
<1>3. j \in Nat /\ b \in Nat /\ k \in Nat /\ b = a + j /\ k = n - j
  BY DEF IsSum
<1>4. /\ 1 \in 1..(Len(s) + 1) /\ j \in (1 - 1)..Len(s)
      /\ j + 1 \in 1..(Len(s) + 1) /\ n \in ((j + 1) - 1)..Len(s)
  BY <1>2
<1>5. IsText(First(s, j), j) /\ \A i \in 1..j : First(s, j)[i] = f[a + i]
  <2>1. /\ IsString(SubSeq(s, 1, j)) /\ Len(SubSeq(s, 1, j)) = j - 1 + 1
        /\ \A i \in 1..(j - 1 + 1) : SubSeq(s, 1, j)[i] = s[1 + i - 1]
    BY <1>2, <1>4, CutString
  <2>2. j - 1 + 1 = j /\ \A i \in 1..j : 1 + i - 1 = i /\ i \in 1..n
    OBVIOUS
  <2> QED
    BY <1>2, <1>3, <2>1, <2>2 DEF IsText, First
<1>6. IsText(After(s, j), k) /\ \A i \in 1..k : After(s, j)[i] = f[b + i]
  <2>1. PICK m : m = j + 1 /\ m \in 1..(Len(s) + 1) /\ n \in (m - 1)..Len(s)
    BY <1>4
  <2>2. /\ IsString(SubSeq(s, m, n)) /\ Len(SubSeq(s, m, n)) = n - m + 1
        /\ \A i \in 1..(n - m + 1) : SubSeq(s, m, n)[i] = s[m + i - 1]
    BY <1>2, <2>1, CutString
  <2>3. n - m + 1 = k /\ \A i \in 1..k : m + i - 1 = j + i /\ j + i \in 1..n /\ a + (j + i) = b + i
    BY <1>3, <2>1
  <2>4. PICK u : u = After(s, j) /\ u = SubSeq(s, m, n)
    BY <1>2, <2>1 DEF After
  <2>5. IsText(u, k)
    BY <1>3, <2>2, <2>3, <2>4 DEF IsText
  <2>6. \A i \in 1..k : u[i] = s[j + i]
    BY <2>2, <2>3, <2>4
  <2>7. \A i \in 1..k : u[i] = f[b + i]
    BY <1>2, <2>3, <2>6
  <2> QED
    BY <2>4, <2>5, <2>7
<1>7. First(s, j) = Span(f, a, j)
  BY <1>3, <1>5, SpanSame DEF Shows
<1>8. After(s, j) = Span(f, b, k)
  BY <1>3, <1>6, SpanSame DEF Shows
<1> QED
  BY <1>1, <1>7, <1>8

LEMMA SpanJoined ==
  ASSUME NEW f, NEW a, NEW m, NEW n, NEW b, NEW k, a \in Nat, m \in Nat, n \in Nat,
         IsSum(b, a, m), IsSum(k, m, n)
  PROVE  IsJoin(Span(f, a, k), Span(f, a, m), Span(f, b, n))
<1>1. PICK s, t : s = Span(f, a, m) /\ t = Span(f, b, n)
  OBVIOUS
<1>2. b \in Nat /\ k \in Nat /\ b = a + m /\ k = m + n
  BY DEF IsSum
<1>3. /\ IsText(s, m) /\ \A i \in 1..m : s[i] = f[a + i]
      /\ IsText(t, n) /\ \A i \in 1..n : t[i] = f[b + i]
  BY <1>1, <1>2, SpanText
<1>4. PICK u : u = s \o t
  OBVIOUS
<1>5. IsText(u, m + n) /\ (\A i \in 1..m : u[i] = s[i]) /\ \A i \in 1..n : u[m + i] = t[i]
  <2>1. Joint(u, s, m, t, n)
    BY <1>3, <1>4, JointText
  <2> QED
    BY <2>1 DEF Joint
<1>6. ASSUME NEW i \in 1..k
      PROVE  u[i] = f[a + i]
  <2>1. CASE i \in 1..m
    BY <1>3, <1>5, <2>1
  <2>2. CASE i \notin 1..m
    <3>1. PICK j \in 1..n : i = m + j
      <4>1. i - m \in 1..n /\ i = m + (i - m)
        BY <1>2, <2>2
      <4> QED
        BY <4>1
    <3>2. b + j = a + i
      BY <1>2, <3>1
    <3> QED
      BY <1>3, <1>5, <3>1, <3>2
  <2> QED
    BY <2>1, <2>2
<1>7. IsText(u, k)
  BY <1>2, <1>5
<1>8. u = Span(f, a, k)
  BY <1>2, <1>6, <1>7, SpanSame DEF Shows
<1> QED
  BY <1>1, <1>4, <1>8 DEF IsJoin

-----------------------------------------------------------------------------
(* The blocks of a text.                                                     *)
LEMMA CutText ==
  ASSUME NEW s, NEW n, NEW q, IsText(s, n), q = n \div Block
  PROVE  IsText(Cut(s), q) /\ \A b \in 1..q : Cut(s)[b] = SubSeq(s, (b - 1) * Block + 1, b * Block)
<1>1. Len(s) = n /\ n \in Nat
  BY DEF IsText
<1>2. q \in Nat
  BY <1>1, WholeIs
<1>3. PICK c : c = Cut(s)
  OBVIOUS
<1>4. c = [b \in 1..q |-> SubSeq(s, (b - 1) * Block + 1, b * Block)]
  BY <1>1, <1>3 DEF Cut
<1>5. c = [b \in 1..q |-> c[b]] /\ \A b \in 1..q : c[b] = SubSeq(s, (b - 1) * Block + 1, b * Block)
  BY <1>4
<1> QED
  BY <1>2, <1>3, <1>5, StringOf DEF IsText

\* The block b of a text.
IsPart(p, s, b) == IsText(p, Block) /\ \A i \in 1..Block : p[i] = s[Block * (b - 1) + i]

LEMMA PartIs ==
  ASSUME NEW s, NEW n, NEW b, IsText(s, n), b \in 1..(n \div Block)
  PROVE  IsPart(SubSeq(s, (b - 1) * Block + 1, b * Block), s, b)
<1>1. PICK l \in Nat \ {0} : l = Block
  BY BlockIs
<1>2. n \in Nat /\ Len(s) = n /\ IsString(s)
  BY DEF IsText
<1>3. PICK q \in Nat, r \in 0..(l - 1) : n = l * q + r /\ q = n \div l /\ r = n % l
  BY <1>2, Parts
<1>4. b \in 1..q /\ b \in Nat
  BY <1>1, <1>3
<1>5. l * b <= l * q /\ l * (b - 1) >= 0 /\ l * (b - 1) \in Int /\ l * b = l * (b - 1) + l
      /\ l * b \in Int /\ l * q \in Int
  <2>1. l * b \in Int /\ l * q \in Int /\ l * b <= l * q
    BY <1>3, <1>4, Product
  <2>2. b - 1 \in Nat
    BY <1>4
  <2>3. l * 0 \in Int /\ l * (b - 1) \in Int /\ l * 0 <= l * (b - 1)
    BY <2>2, Product
  <2> QED
    BY <1>4, <2>1, <2>3
<1>6. PICK x, y : x = l * (b - 1) /\ y = l * b
  OBVIOUS
<1>7. x \in Nat /\ y = x + l /\ y <= n
  BY <1>3, <1>5, <1>6
<1>8. (b - 1) * Block + 1 = x + 1 /\ b * Block = y
  BY <1>1, <1>4, <1>6
<1>9. PICK m : m = x + 1 /\ m \in 1..(Len(s) + 1) /\ y \in (m - 1)..Len(s)
  BY <1>2, <1>7
<1>10. PICK p : p = SubSeq(s, m, y)
  OBVIOUS
<1>11. /\ IsString(p) /\ Len(p) = y - m + 1
       /\ \A i \in 1..(y - m + 1) : p[i] = s[m + i - 1]
  BY <1>2, <1>9, <1>10, CutString
<1>12. y - m + 1 = l /\ \A i \in 1..l : m + i - 1 = x + i
  BY <1>7, <1>9
<1>13. IsText(p, l) /\ \A i \in 1..l : p[i] = s[x + i]
  BY <1>11, <1>12 DEF IsText
<1>14. p = SubSeq(s, (b - 1) * Block + 1, b * Block)
  BY <1>8, <1>9, <1>10
<1> QED
  BY <1>1, <1>6, <1>13, <1>14 DEF IsPart

\* A block after whole ones is a block of what comes after.
LEMMA CutJoined ==
  ASSUME NEW s, NEW t, NEW n, NEW k, IsText(s, n), IsText(t, k), Aligned(n)
  PROVE  Cut(s \o t) = Cut(s) \o Cut(t)
<1>1. PICK u : u = s \o t
  OBVIOUS
<1>2. IsText(u, n + k) /\ (\A i \in 1..n : u[i] = s[i]) /\ \A i \in 1..k : u[n + i] = t[i]
  <2>1. Joint(u, s, n, t, k)
    BY <1>1, JointText
  <2> QED
    BY <2>1 DEF Joint
<1>3. n \in Nat /\ k \in Nat
  BY DEF IsText
<1>4. PICK l \in Nat \ {0} : l = Block
  BY BlockIs
<1>5. PICK q, r, m : q = n \div Block /\ r = k \div Block /\ m = n + k
  OBVIOUS
<1>6. q \in Nat /\ r \in Nat /\ m \div Block = q + r /\ n = l * q
  <2>1. q \in Nat /\ r \in Nat
    BY <1>3, <1>5, WholeIs
  <2>2. m \div Block = q + r
    BY <1>3, <1>5, WholeAfter
  <2>3. n = l * q
    BY <1>4, <1>5, AlignedIs
  <2> QED
    BY <2>1, <2>2, <2>3
<1>7. IsText(u, m)
  BY <1>2, <1>5
<1>8. PICK cu, cs, ct : cu = Cut(u) /\ cs = Cut(s) /\ ct = Cut(t)
  OBVIOUS
<1>9. /\ IsText(cs, q) /\ \A b \in 1..q : IsPart(cs[b], s, b)
      /\ IsText(ct, r) /\ \A b \in 1..r : IsPart(ct[b], t, b)
      /\ IsText(cu, q + r) /\ \A b \in 1..(q + r) : IsPart(cu[b], u, b)
  BY <1>5, <1>6, <1>7, <1>8, CutText, PartIs
<1>10. PICK j : j = cs \o ct
  OBVIOUS
<1>11. IsText(j, q + r) /\ (\A b \in 1..q : j[b] = cs[b]) /\ \A b \in 1..r : j[q + b] = ct[b]
  <2>1. Joint(j, cs, q, ct, r)
    BY <1>9, <1>10, JointText
  <2> QED
    BY <2>1 DEF Joint
<1>12. ASSUME NEW b \in 1..(q + r)
       PROVE  cu[b] = j[b]
  <2>1. IsText(cu[b], l) /\ \A i \in 1..l : cu[b][i] = u[l * (b - 1) + i]
    BY <1>4, <1>9 DEF IsPart
  <2>2. CASE b <= q
    <3>1. b \in 1..q
      BY <2>2
    <3>2. IsText(cs[b], l) /\ \A i \in 1..l : cs[b][i] = s[l * (b - 1) + i]
      BY <1>4, <1>9, <3>1 DEF IsPart
    <3>3. ASSUME NEW i \in 1..l
          PROVE  l * (b - 1) + i \in 1..n
      <4>1. b - 1 \in Nat /\ 0 <= b - 1 /\ b <= q
        BY <3>1
      <4>2. l * 0 \in Int /\ l * (b - 1) \in Int /\ l * 0 <= l * (b - 1)
        BY <4>1, Product
      <4>3. l * b \in Int /\ l * q \in Int /\ l * b <= l * q
        BY <1>6, <3>1, Product
      <4>4. l * b = l * (b - 1) + l /\ l * 0 = 0
        BY <3>1
      <4>5. PICK x, y : x = l * (b - 1) /\ y = l * b
        OBVIOUS
      <4> QED
        BY <1>3, <1>6, <4>2, <4>3, <4>4, <4>5
    <3>4. \A i \in 1..l : cu[b][i] = cs[b][i]
      BY <1>2, <2>1, <3>2, <3>3
    <3>5. cu[b] = cs[b]
      BY <2>1, <3>2, <3>4, SameText
    <3> QED
      BY <1>11, <3>1, <3>5
  <2>3. CASE b > q
    <3>1. PICK d \in 1..r : b = q + d
      <4>1. b - q \in 1..r /\ b = q + (b - q)
        BY <1>6, <2>3
      <4> QED
        BY <4>1
    <3>2. IsText(ct[d], l) /\ \A i \in 1..l : ct[d][i] = t[l * (d - 1) + i]
      BY <1>4, <1>9 DEF IsPart
    <3>3. ASSUME NEW i \in 1..l
          PROVE  l * (d - 1) + i \in 1..k /\ l * (b - 1) + i = n + (l * (d - 1) + i)
      <4>1. d - 1 \in Nat /\ 0 <= d - 1 /\ d <= r /\ d \in Nat
        BY <1>6
      <4>2. l * 0 \in Int /\ l * (d - 1) \in Int /\ l * 0 <= l * (d - 1)
        BY <4>1, Product
      <4>3. l * d \in Int /\ l * r \in Int /\ l * d <= l * r
        BY <1>6, <4>1, Product
      <4>4. l * d = l * (d - 1) + l /\ l * 0 = 0 /\ l * (b - 1) = l * q + l * (d - 1)
        BY <1>6, <3>1, <4>1
      <4>5. l * r <= k
        <5>1. PICK rr \in Nat, e \in 0..(l - 1) : k = l * rr + e /\ rr = k \div l /\ e = k % l
          BY <1>3, Parts
        <5> QED
          BY <1>4, <1>5, <5>1
      <4>6. PICK x, y, z : x = l * (d - 1) /\ y = l * d /\ z = l * r
        OBVIOUS
      <4> QED
        BY <1>3, <1>6, <4>2, <4>3, <4>4, <4>5, <4>6
    <3>4. \A i \in 1..l : cu[b][i] = ct[d][i]
      BY <1>2, <2>1, <3>2, <3>3
    <3>5. cu[b] = ct[d]
      BY <2>1, <3>2, <3>4, SameText
    <3> QED
      BY <1>11, <3>1, <3>5
  <2> QED
    BY <1>6, <2>2, <2>3
<1>13. cu = j
  BY <1>9, <1>11, <1>12, SameText
<1> QED
  BY <1>1, <1>8, <1>10, <1>13

LEMMA CutBlock ==
  ASSUME NEW s, IsText(s, Block)
  PROVE  Cut(s) = <<s>>
<1>1. PICK l \in Nat \ {0} : l = Block
  BY BlockIs
<1>2. 1 = Block \div Block
  BY OneBlock
<1>3. IsText(Cut(s), 1) /\ \A b \in 1..1 : Cut(s)[b] = SubSeq(s, (b - 1) * Block + 1, b * Block)
  BY <1>2, CutText
<1>4. IsPart(Cut(s)[1], s, 1)
  <2>1. 1 \in 1..(Block \div Block)
    BY <1>2
  <2>2. IsPart(SubSeq(s, (1 - 1) * Block + 1, 1 * Block), s, 1)
    BY <2>1, PartIs
  <2>3. 1 \in 1..1
    OBVIOUS
  <2>4. Cut(s)[1] = SubSeq(s, (1 - 1) * Block + 1, 1 * Block)
    BY <1>3, <2>3
  <2> QED
    BY <2>2, <2>4
<1>5. \A i \in 1..l : l * (1 - 1) + i = i
  OBVIOUS
<1>6. Cut(s)[1] = s
  BY <1>1, <1>4, <1>5, SameText DEF IsPart
<1>7. IsText(<<s>>, 1) /\ <<s>>[1] = s
  BY Single DEF IsText
<1> QED
  BY <1>3, <1>6, <1>7, SameText

LEMMA CutNothing == Cut(<<>>) = <<>>
<1>1. IsText(<<>>, 0)
  BY Empty DEF IsText
<1>2. 0 = 0 \div Block
  BY OneBlock
<1>3. IsText(Cut(<<>>), 0)
  BY <1>1, <1>2, CutText
<1> QED
  BY <1>3, Empty DEF IsText

-----------------------------------------------------------------------------
(* The key stream and what is laid over it.                                  *)
KeyBytes(iv, c) == [i \in Nat |-> {<<"ks", iv, c + (i - 1) \div Block, (i - 1) % Block>>}]
Mixed(f, g) == [i \in Nat |-> (f[i] \ g[i]) \cup (g[i] \ f[i])]

LEMMA KeySpan ==
  ASSUME NEW iv, NEW c, NEW d, NEW w, NEW n, c \in Nat, n \in Nat, Aligned(w),
         d = c + (w \div Block)
  PROVE  KeyStream(iv, d, n) = Span(KeyBytes(iv, c), w, n)
<1>1. PICK s : s = KeyStream(iv, d, n)
  OBVIOUS
<1>2. s = [i \in 1..n |-> {<<"ks", iv, d + (i - 1) \div Block, (i - 1) % Block>>}]
  BY <1>1 DEF KeyStream
<1>3. s = [i \in 1..n |-> s[i]]
      /\ \A i \in 1..n : s[i] = {<<"ks", iv, d + (i - 1) \div Block, (i - 1) % Block>>}
  BY <1>2
<1>4. IsText(s, n)
  BY <1>3, StringOf DEF IsText
<1>5. w \in Nat /\ w \div Block \in Nat
  BY AlignedIs
<1>6. ASSUME NEW i \in 1..n
      PROVE  s[i] = KeyBytes(iv, c)[w + i]
  <2>1. PICK j \in Nat, m \in Nat, u \in Nat : j = i - 1 /\ u = w + i /\ m = u - 1 /\ m = w + j
    <3>1. i - 1 \in Nat /\ w + i \in Nat /\ (w + i) - 1 \in Nat /\ (w + i) - 1 = w + (i - 1)
      BY <1>5
    <3> QED
      BY <3>1
  <2>2. m % Block = j % Block /\ m \div Block = (w \div Block) + (j \div Block)
    BY <2>1, WholeAfter
  <2>3. j \div Block \in Nat
    BY <2>1, WholeIs
  <2>4. c + m \div Block = d + j \div Block
    BY <1>5, <2>2, <2>3
  <2>5. KeyBytes(iv, c)[u] = {<<"ks", iv, c + m \div Block, m % Block>>}
    BY <2>1 DEF KeyBytes
  <2>6. s[i] = {<<"ks", iv, d + j \div Block, j % Block>>}
    BY <1>3, <2>1
  <2> QED
    BY <2>1, <2>2, <2>4, <2>5, <2>6
<1> QED
  BY <1>1, <1>4, <1>5, <1>6, SpanSame DEF Shows

LEMMA XorSpan ==
  ASSUME NEW f, NEW g, NEW a, NEW n, NEW s, NEW t, a \in Nat, n \in Nat, IsText(s, n),
         Shows(s, f, a, n), Shows(t, g, a, n)
  PROVE  XorBytes(s, t) = Span(Mixed(f, g), a, n)
<1>1. PICK u : u = XorBytes(s, t)
  OBVIOUS
<1>2. u = [i \in 1..n |-> (s[i] \ t[i]) \cup (t[i] \ s[i])]
  BY <1>1 DEF XorBytes, IsText
<1>3. u = [i \in 1..n |-> u[i]] /\ \A i \in 1..n : u[i] = (s[i] \ t[i]) \cup (t[i] \ s[i])
  BY <1>2
<1>4. IsText(u, n)
  BY <1>3, StringOf DEF IsText
<1>5. ASSUME NEW i \in 1..n
      PROVE  u[i] = Mixed(f, g)[a + i]
  <2>1. PICK m \in Nat : m = a + i
    OBVIOUS
  <2>2. s[i] = f[m] /\ t[i] = g[m]
    BY <2>1 DEF Shows
  <2>3. Mixed(f, g)[m] = (f[m] \ g[m]) \cup (g[m] \ f[m])
    BY DEF Mixed
  <2>4. u[i] = (f[m] \ g[m]) \cup (g[m] \ f[m])
    BY <1>3, <2>2
  <2> QED
    BY <2>1, <2>3, <2>4
<1> QED
  BY <1>1, <1>4, <1>5, SpanSame DEF Shows

\* The stream of counter c and those after it, over data that begins a block.
LEMMA CtrSpan ==
  ASSUME NEW f, NEW iv, NEW c, NEW d, NEW w, NEW n, c \in Nat, n \in Nat, Aligned(w),
         d = c + (w \div Block)
  PROVE  ctr(iv, d, Span(f, w, n)) = Span(Mixed(f, KeyBytes(iv, c)), w, n)
<1>1. w \in Nat
  BY AlignedIs
<1>2. PICK s, k, t : s = Span(f, w, n) /\ k = KeyBytes(iv, c) /\ t = Span(k, w, n)
  OBVIOUS
<1>3. IsText(s, n) /\ (\A i \in 1..n : s[i] = f[w + i]) /\ \A i \in 1..n : t[i] = k[w + i]
  BY <1>1, <1>2, SpanText
<1>4. Len(s) = n
  BY <1>3 DEF IsText
<1>5. KeyStream(iv, d, n) = t
  BY <1>2, KeySpan
<1>6. ctr(iv, d, s) = XorBytes(s, t)
  BY <1>4, <1>5 DEF ctr
<1>7. XorBytes(s, t) = Span(Mixed(f, k), w, n)
  BY <1>1, <1>3, XorSpan DEF Shows
<1> QED
  BY <1>2, <1>6, <1>7

\* What is left of a block of the key stream, over data.
LeftShows(buf, p, g, a, k) == \A i \in 1..k : buf[p + i] = g[a + i]

LEMMA XorLeft ==
  ASSUME NEW f, NEW g, NEW a, NEW k, NEW p, NEW buf, NEW m, NEW n, a \in Nat, k \in Nat,
         p \in Nat, IsText(buf, Block), IsSum(m, p, 1), IsSum(n, p, k), n <= Block,
         LeftShows(buf, p, g, a, k)
  PROVE  XorBytes(Span(f, a, k), SubSeq(buf, m, n)) = Span(Mixed(f, g), a, k)
<1>1. PICK s, t : s = Span(f, a, k) /\ t = SubSeq(buf, m, n)
  OBVIOUS
<1>2. IsText(s, k) /\ \A i \in 1..k : s[i] = f[a + i]
  BY <1>1, SpanText
<1>3. IsString(buf) /\ Len(buf) = Block /\ Block \in Nat /\ m = p + 1 /\ n = p + k
  BY DEF IsText, IsSum
<1>4. m \in 1..(Len(buf) + 1) /\ n \in (m - 1)..Len(buf)
  BY <1>3
<1>5. \A i \in 1..(n - m + 1) : t[i] = buf[m + i - 1]
  BY <1>1, <1>3, <1>4, CutString
<1>6. n - m + 1 = k /\ \A i \in 1..k : m + i - 1 = p + i
  BY <1>3
<1>7. Shows(t, g, a, k)
  BY <1>5, <1>6 DEF Shows, LeftShows
<1>8. Shows(s, f, a, k)
  BY <1>2 DEF Shows
<1> QED
  BY <1>1, <1>2, <1>7, <1>8, XorSpan

LEMMA Back ==
  ASSUME NEW f, NEW g, NEW a, NEW n, a \in Nat, n \in Nat
  PROVE  Span(Mixed(Mixed(f, g), g), a, n) = Span(f, a, n)
<1>1. PICK h : h = Mixed(f, g)
  OBVIOUS
<1>2. PICK s : s = Span(Mixed(h, g), a, n)
  OBVIOUS
<1>3. IsText(s, n) /\ \A i \in 1..n : s[i] = Mixed(h, g)[a + i]
  BY <1>2, SpanText
<1>4. ASSUME NEW i \in 1..n
      PROVE  s[i] = f[a + i]
  <2>1. PICK m \in Nat : m = a + i
    OBVIOUS
  <2>2. s[i] = (h[m] \ g[m]) \cup (g[m] \ h[m])
    BY <1>3, <2>1 DEF Mixed
  <2>3. h[m] = (f[m] \ g[m]) \cup (g[m] \ f[m])
    BY <1>1 DEF Mixed
  <2>4. s[i] = f[m]
    BY <2>2, <2>3
  <2> QED
    BY <2>1, <2>4
<1> QED
  BY <1>1, <1>2, <1>3, <1>4, SpanSame DEF Shows

-----------------------------------------------------------------------------
(* The buffer, and the blocks that a MAC took.                               *)
PutAt(u, buf, at, data, k) ==
  /\ IsText(u, Block)
  /\ \A i \in 1..Block : u[i] = IF i \in (at + 1)..(at + k) THEN data[i - at] ELSE buf[i]

LEMMA PutText ==
  ASSUME NEW buf, NEW at, NEW data, NEW k, IsText(data, k)
  PROVE  PutAt(Put(buf, at, data), buf, at, data, k)
<1>1. PICK u : u = Put(buf, at, data)
  OBVIOUS
<1>2. u = [i \in 1..Block |-> IF i \in (at + 1)..(at + k) THEN data[i - at] ELSE buf[i]]
  BY <1>1 DEF Put, IsText
<1>3. u = [i \in 1..Block |-> u[i]]
      /\ \A i \in 1..Block : u[i] = IF i \in (at + 1)..(at + k) THEN data[i - at] ELSE buf[i]
  BY <1>2
<1>4. IsText(u, Block)
  BY <1>3, StringOf, BlockIs DEF IsText
<1> QED
  BY <1>1, <1>3, <1>4 DEF PutAt

LEMMA NullsText ==
  ASSUME NEW n, n \in Nat
  PROVE  IsText(Nulls(n), n) /\ \A i \in 1..n : Nulls(n)[i] = {}
<1>1. PICK s : s = Nulls(n)
  OBVIOUS
<1>2. s = [i \in 1..n |-> s[i]] /\ \A i \in 1..n : s[i] = {}
  BY <1>1 DEF Nulls
<1> QED
  BY <1>1, <1>2, StringOf DEF IsText

LEMMA Missing ==
  ASSUME NEW n, n \in Nat
  PROVE  (0 - n) % Block = IF n % Block = 0 THEN 0 ELSE Block - (n % Block)
<1>1. PICK b \in Nat \ {0} : b = Block
  BY BlockIs
<1>2. PICK q \in Nat, r \in 0..(b - 1) : n = b * q + r /\ q = n \div b /\ r = n % b
  BY Parts
<1>3. PICK z \in Int : z = 0 - n
  OBVIOUS
<1>4. CASE r = 0
  <2>1. b * (0 - q) = 0 - b * q /\ b * q \in Nat
    OBVIOUS
  <2>2. PICK t \in Int : t = 0 - q /\ b * t = 0 - b * q
    BY <2>1
  <2>3. PICK e \in 0..(b - 1) : e = 0
    OBVIOUS
  <2>4. z = b * t + e
    <3>1. PICK x, y : x = b * q /\ y = b * t
      OBVIOUS
    <3>2. x \in Nat /\ y = 0 - x /\ n = x + r
      BY <1>2, <2>1, <2>2, <3>1
    <3>3. e = 0 /\ r = 0 /\ z = 0 - n
      BY <1>3, <1>4, <2>3
    <3>4. z = y + e
      BY ONLY <3>2, <3>3
    <3> QED
      BY <3>1, <3>4
  <2>5. e = z % b
    BY <2>4, Quotient
  <2> QED
    BY <1>1, <1>2, <1>3, <1>4, <2>3, <2>5
<1>5. CASE r # 0
  <2>1. b * (0 - q - 1) = 0 - b * q - b /\ b * q \in Nat
    OBVIOUS
  <2>2. PICK t \in Int : t = 0 - q - 1 /\ b * t = 0 - b * q - b
    BY <2>1
  <2>3. PICK e \in 0..(b - 1) : e = b - r
    BY <1>5
  <2>4. z = b * t + e
    <3>1. PICK x, y : x = b * q /\ y = b * t
      OBVIOUS
    <3>2. x \in Nat /\ y = 0 - x - b /\ n = x + r
      BY <1>2, <2>1, <2>2, <3>1
    <3>3. e = b - r /\ r \in Nat /\ b \in Nat /\ z = 0 - n
      BY <1>3, <2>3
    <3>4. z = y + e
      BY ONLY <3>2, <3>3
    <3> QED
      BY <3>1, <3>4
  <2>5. e = z % b
    BY <2>4, Quotient
  <2> QED
    BY <1>1, <1>2, <1>3, <1>5, <2>3, <2>5
<1> QED
  BY <1>4, <1>5

LEMMA FilledText ==
  ASSUME NEW s, NEW n, IsText(s, n)
  PROVE  \E u : IsText(Filled(s), u) /\ Aligned(u) /\ (Aligned(n) => Filled(s) = s)
<1>1. n \in Nat /\ Len(s) = n /\ IsString(s)
  BY DEF IsText
<1>2. PICK e : e = (0 - n) % Block /\ e = IF n % Block = 0 THEN 0 ELSE Block - (n % Block)
  BY <1>1, Missing
<1>3. n % Block \in 0..(Block - 1) /\ Block \in Nat
  BY <1>1, WholeIs, BlockIs
<1>4. e \in Nat
  BY <1>2, <1>3
<1>5. PICK t : t = Nulls(e) /\ IsText(t, e)
  BY <1>4, NullsText
<1>6. Filled(s) = s \o t
  BY <1>1, <1>2, <1>5 DEF Filled
<1>7. IsText(s \o t, n + e)
  BY <1>5, JointText DEF Joint
<1>8. Aligned(n + e)
  <2>1. CASE n % Block = 0
    <3>1. Aligned(Whole(n)) /\ n = Whole(n) + (n % Block) /\ Whole(n) \in Nat
      BY <1>1, WholeIs, AlignedIs
    <3>2. n = Whole(n) /\ n + e = n
      BY <1>1, <1>2, <2>1, <3>1
    <3> QED
      BY <3>1, <3>2
  <2>2. CASE n % Block # 0
    <3>1. PICK k : k = n + (Block - (n % Block))
      OBVIOUS
    <3>2. Aligned(k)
      BY <1>1, <2>2, <3>1, BlockDone
    <3> QED
      BY <1>2, <2>2, <3>1, <3>2
  <2> QED
    BY <2>1, <2>2
<1>9. ASSUME Aligned(n)
      PROVE  s \o t = s
  <2>1. e = 0
    BY <1>2, <1>9, AlignedIs
  <2>2. t = <<>>
    BY <1>5, <2>1, Empty DEF IsText
  <2> QED
    BY <1>1, <2>2, Empty
<1> QED
  BY <1>6, <1>7, <1>8, <1>9

\* GHASH fills with zeros only what is not whole.
LEMMA GhWhole ==
  ASSUME NEW y, NEW s, NEW n, IsText(s, n), Aligned(n)
  PROVE  gh(y, s) = mac(y, s)
<1>1. Filled(s) = s
  BY FilledText
<1> QED
  BY <1>1 DEF gh, mac, Filled

LEMMA GhFilled ==
  ASSUME NEW y, NEW s
  PROVE  gh(y, s) = y \o Cut(Filled(s))
BY DEF gh, Filled

LEMMA HeadJoined ==
  ASSUME NEW f, NEW m, NEW n, NEW k, m \in Nat, n \in Nat, IsSum(k, m, n)
  PROVE  IsJoin(Span(f, 0, k), Span(f, 0, m), Span(f, m, n))
<1>1. PICK a : a = 0
  OBVIOUS
<1>2. a \in Nat /\ IsSum(m, a, m)
  BY <1>1 DEF IsSum
<1>3. IsJoin(Span(f, a, k), Span(f, a, m), Span(f, m, n))
  BY <1>2, SpanJoined
<1> QED
  BY <1>1, <1>3

\* y is what a MAC that stood at y0 is after the first w bytes of f.
Took(y, y0, f, w) == IsString(y0) /\ Aligned(w) /\ y = y0 \o Cut(Span(f, 0, w))

LEMMA CutOf ==
  ASSUME NEW s, NEW n, IsText(s, n)
  PROVE  IsString(Cut(s))
<1>1. PICK q : q = n \div Block
  OBVIOUS
<1> QED
  BY <1>1, CutText DEF IsText

LEMMA TakesMore ==
  ASSUME NEW y, NEW y0, NEW f, NEW w, NEW k, NEW v, Took(y, y0, f, w), Aligned(k), IsSum(v, w, k)
  PROVE  Took(mac(y, Span(f, w, k)), y0, f, v)
<1>1. w \in Nat /\ v \in Nat /\ k \in Nat /\ v = w + k
  BY AlignedIs DEF Took, IsSum
<1>2. PICK s, t, u : s = Span(f, 0, w) /\ t = Span(f, w, k) /\ u = Span(f, 0, v)
  OBVIOUS
<1>3. IsText(s, w) /\ IsText(t, k)
  BY <1>1, <1>2, SpanText
<1>4. s \o t = u
  BY <1>1, <1>2, HeadJoined DEF IsJoin
<1>5. Cut(u) = Cut(s) \o Cut(t)
  BY <1>3, <1>4, CutJoined DEF Took
<1>6. IsString(Cut(s)) /\ IsString(Cut(t)) /\ IsString(y0)
  BY <1>3, CutOf DEF Took
<1>7. (y0 \o Cut(s)) \o Cut(t) = y0 \o (Cut(s) \o Cut(t))
  BY <1>6, JoinedTwice
<1>8. y = y0 \o Cut(s)
  BY <1>2 DEF Took
<1>9. mac(y, t) = y0 \o Cut(u)
  BY <1>5, <1>7, <1>8 DEF mac
<1>10. Aligned(v)
  BY <1>1, AlignedSum DEF Took
<1> QED
  BY <1>2, <1>6, <1>9, <1>10 DEF Took

\* All of f so far, with zeros to the end of its last block.
LEMMA FilledSpan ==
  ASSUME NEW f, NEW n, NEW w, NEW r, n \in Nat, w = Whole(n), r = n % Block
  PROVE  IsJoin(Cut(Filled(Span(f, 0, n))), Cut(Span(f, 0, w)), Cut(Filled(Span(f, w, r))))
<1>1. /\ Aligned(w) /\ n = w + r /\ r \in 0..(Block - 1) /\ w \in Nat /\ r \in Nat
      /\ IsSum(n, w, r)
  BY WholeIs, AlignedIs DEF IsSum
<1>2. PICK s, t, u : s = Span(f, 0, w) /\ t = Span(f, w, r) /\ u = Span(f, 0, n)
  OBVIOUS
<1>3. IsText(s, w) /\ IsText(t, r) /\ IsText(u, n)
  BY <1>1, <1>2, SpanText
<1>4. s \o t = u
  BY <1>1, <1>2, HeadJoined DEF IsJoin
<1>5. PICK e : e = (0 - n) % Block /\ e = (0 - r) % Block /\ e \in Nat
  <2>1. n % Block = r % Block
    BY <1>1, WholeAfter
  <2>2. /\ (0 - n) % Block = IF n % Block = 0 THEN 0 ELSE Block - (n % Block)
        /\ (0 - r) % Block = IF r % Block = 0 THEN 0 ELSE Block - (r % Block)
    BY <1>1, Missing
  <2>3. r % Block \in 0..(Block - 1) /\ Block \in Nat
    BY <1>1, WholeIs, BlockIs
  <2> QED
    BY <2>1, <2>2, <2>3
<1>6. PICK z : z = Nulls(e) /\ IsText(z, e)
  BY <1>5, NullsText
<1>7. Filled(u) = u \o z /\ Filled(t) = t \o z
  BY <1>3, <1>5, <1>6 DEF Filled, IsText
<1>8. (s \o t) \o z = s \o (t \o z)
  <2>1. IsString(s) /\ IsString(t) /\ IsString(z)
    BY <1>3, <1>6 DEF IsText
  <2> QED
    BY ONLY <2>1, JoinedTwice
<1>9. IsText(t \o z, r + e)
  BY <1>3, <1>6, JointText DEF Joint
<1>10. Cut(s \o (t \o z)) = Cut(s) \o Cut(t \o z)
  BY <1>1, <1>3, <1>9, CutJoined
<1> QED
  BY <1>2, <1>4, <1>7, <1>8, <1>10 DEF IsJoin

-----------------------------------------------------------------------------
(* Blocks are taken when they are whole; the rest waits in the buffer.       *)
Buffered(buf, f, n) ==
  IsText(buf, Block) /\ \A i \in 1..(n % Block) : buf[i] = f[Whole(n) + i]
WholeAt(y, buf, y0, f, n) == Took(y, y0, f, Whole(n)) /\ Buffered(buf, f, n)

LEMMA Small ==
  ASSUME NEW e, e \in Nat, e < Block
  PROVE  e % Block = e /\ Whole(e) = 0 /\ e \div Block = 0
<1>1. PICK b \in Nat \ {0} : b = Block
  BY BlockIs
<1>2. b * 0 = 0 /\ e \in 0..(b - 1) /\ 0 \in Int /\ e \in Int
  BY <1>1
<1>3. e = b * 0 + e
  BY <1>2
<1>4. 0 = e \div b /\ e = e % b
  BY <1>2, <1>3, Quotient
<1> QED
  BY <1>1, <1>2, <1>4 DEF Whole

LEMMA PlaceOfLength ==
  ASSUME NEW n, NEW w, NEW p, n \in Nat, w = Whole(n), p = n % Block
  PROVE  Aligned(w) /\ w \in Nat /\ p \in Nat /\ p < Block /\ IsSum(n, w, p)
BY WholeIs, AlignedIs, BlockIs DEF IsSum

LEMMA InjectPart ==
  ASSUME NEW y, NEW buf, NEW y0, NEW f, NEW n, NEW k, NEW p, NEW v, n \in Nat, k \in Nat,
         WholeAt(y, buf, y0, f, n), p = n % Block, k < Block - p, IsSum(v, n, k)
  PROVE  WholeAt(y, Put(buf, p, Span(f, n, k)), y0, f, v) /\ v % Block = p + k
<1>1. PICK w : w = Whole(n)
  OBVIOUS
<1>2. Aligned(w) /\ w \in Nat /\ p \in Nat /\ p < Block /\ n = w + p /\ Block \in Nat
  BY <1>1, PlaceOfLength, BlockIs DEF IsSum
<1>3. PICK e \in Nat : e = p + k
  BY <1>2
<1>4. e < Block /\ v = w + e /\ v \in Nat
  BY <1>2, <1>3 DEF IsSum
<1>5. e % Block = e /\ Whole(e) = 0
  BY <1>4, Small
<1>6. Whole(v) = w + Whole(e) /\ v % Block = e % Block
  BY <1>2, <1>4, WholeAfter
<1>7. Whole(v) = w /\ v % Block = e
  BY <1>2, <1>5, <1>6
<1>8. PICK d, u : d = Span(f, n, k) /\ u = Put(buf, p, d)
  OBVIOUS
<1>9. IsText(d, k) /\ \A i \in 1..k : d[i] = f[n + i]
  BY <1>8, SpanText
<1>10. PutAt(u, buf, p, d, k)
  BY <1>8, <1>9, PutText
<1>11. /\ IsText(u, Block)
       /\ \A i \in 1..Block : u[i] = IF i \in (p + 1)..(p + k) THEN d[i - p] ELSE buf[i]
  BY <1>10 DEF PutAt
<1>12. \A i \in 1..p : buf[i] = f[w + i]
  BY <1>1 DEF WholeAt, Buffered
<1>13. ASSUME NEW i \in 1..e
       PROVE  u[i] = f[w + i]
  <2>1. i \in 1..Block
    BY <1>2, <1>4
  <2>2. CASE i \in 1..p
    <3>1. i \notin (p + 1)..(p + k)
      BY <1>2, <2>2
    <3> QED
      BY <1>11, <1>12, <2>1, <2>2, <3>1
  <2>3. CASE i \notin 1..p
    <3>1. i \in (p + 1)..(p + k)
      BY <1>2, <1>3, <2>3
    <3>2. PICK j \in 1..k : j = i - p
      <4>1. i - p \in 1..k
        BY <1>2, <3>1
      <4> QED
        BY <4>1
    <3>3. n + j = w + i
      BY <1>2, <3>2
    <3>4. u[i] = d[j]
      BY <1>11, <2>1, <3>1, <3>2
    <3> QED
      BY <1>9, <3>2, <3>3, <3>4
  <2> QED
    BY <2>2, <2>3
<1>14. Buffered(u, f, v)
  BY <1>7, <1>11, <1>13 DEF Buffered
<1>15. Took(y, y0, f, Whole(v))
  BY <1>1, <1>7 DEF WholeAt
<1> QED
  BY <1>3, <1>7, <1>8, <1>14, <1>15 DEF WholeAt

\* The block begun, once it is complete.
LEMMA BlockCompleted ==
  ASSUME NEW buf, NEW f, NEW n, NEW p, NEW c, n \in Nat, Buffered(buf, f, n), p = n % Block,
         c = Block - p
  PROVE  Put(buf, p, Span(f, n, c)) = Span(f, Whole(n), Block)
<1>1. PICK w : w = Whole(n)
  OBVIOUS
<1>2. w \in Nat /\ p \in Nat /\ p < Block /\ n = w + p /\ Block \in Nat
  BY <1>1, PlaceOfLength, BlockIs DEF IsSum
<1>3. c \in Nat /\ p + c = Block
  BY <1>2
<1>4. PICK d, u : d = Span(f, n, c) /\ u = Put(buf, p, d)
  OBVIOUS
<1>5. IsText(d, c) /\ \A i \in 1..c : d[i] = f[n + i]
  BY <1>3, <1>4, SpanText
<1>6. PutAt(u, buf, p, d, c)
  BY <1>4, <1>5, PutText
<1>7. /\ IsText(u, Block)
      /\ \A i \in 1..Block : u[i] = IF i \in (p + 1)..(p + c) THEN d[i - p] ELSE buf[i]
  BY <1>6 DEF PutAt
<1>8. \A i \in 1..p : buf[i] = f[w + i]
  BY <1>1 DEF Buffered
<1>9. ASSUME NEW i \in 1..Block
      PROVE  u[i] = f[w + i]
  <2>1. CASE i \in 1..p
    <3>1. i \notin (p + 1)..(p + c)
      BY <1>2, <2>1
    <3> QED
      BY <1>7, <1>8, <2>1, <3>1
  <2>2. CASE i \notin 1..p
    <3>1. i \in (p + 1)..(p + c)
      BY <1>2, <1>3, <2>2
    <3>2. PICK j \in 1..c : j = i - p
      <4>1. i - p \in 1..c
        BY <1>2, <1>3, <3>1
      <4> QED
        BY <4>1
    <3>3. n + j = w + i
      BY <1>2, <3>2
    <3>4. u[i] = d[j]
      BY <1>7, <3>1, <3>2
    <3> QED
      BY <1>5, <3>2, <3>3, <3>4
  <2> QED
    BY <2>1, <2>2
<1>10. u = Span(f, w, Block)
  BY <1>2, <1>7, <1>9, SpanSame DEF Shows
<1> QED
  BY <1>1, <1>4, <1>10

\* First the block begun.
LEMMA BlockFirst ==
  ASSUME NEW y, NEW buf, NEW y0, NEW f, NEW n, NEW p, NEW c, NEW a, n \in Nat,
         WholeAt(y, buf, y0, f, n), p = n % Block, c = IF p = 0 THEN 0 ELSE Block - p,
         IsSum(a, n, c)
  PROVE  Took(IF p = 0 THEN y ELSE mac(y, Put(buf, p, Span(f, n, c))), y0, f, a)
<1>1. PICK w : w = Whole(n)
  OBVIOUS
<1>2. Aligned(w) /\ w \in Nat /\ p \in Nat /\ p < Block /\ n = w + p /\ Block \in Nat
  BY <1>1, PlaceOfLength, BlockIs DEF IsSum
<1>3. Took(y, y0, f, w)
  BY <1>1 DEF WholeAt
<1>4. CASE p = 0
  <2>1. c = 0 /\ n = w /\ a = n + c
    BY <1>2, <1>4 DEF IsSum
  <2>2. a = w
    BY ONLY <1>2, <2>1
  <2> QED
    BY <1>3, <1>4, <2>2
<1>5. CASE p # 0
  <2>1. c = Block - p
    BY <1>5
  <2>2. Put(buf, p, Span(f, n, c)) = Span(f, w, Block)
    BY <1>1, <2>1, BlockCompleted DEF WholeAt
  <2>3. IsSum(a, w, Block)
    BY <1>2, <2>1 DEF IsSum
  <2>4. Took(mac(y, Span(f, w, Block)), y0, f, a)
    BY <1>3, <2>3, TakesMore, OneBlock
  <2> QED
    BY <1>5, <2>2, <2>4
<1> QED
  BY <1>4, <1>5

\* Then whole blocks, and then a new block is begun.
LEMMA BlocksThen ==
  ASSUME NEW y, NEW buf, NEW y0, NEW f, NEW a, NEW r, NEW d, NEW v, r \in Nat,
         Took(y, y0, f, a), d = Whole(r), IsSum(v, a, r)
  PROVE  /\ WholeAt(mac(y, First(Span(f, a, r), d)), Put(buf, 0, After(Span(f, a, r), d)), y0, f, v)
         /\ IsSum(r, d, v % Block)
<1>1. Aligned(a) /\ a \in Nat
  BY AlignedIs DEF Took
<1>2. PICK e : e = r % Block
  OBVIOUS
<1>3. Aligned(d) /\ d \in Nat /\ e \in Nat /\ e < Block /\ IsSum(r, d, e)
  BY <1>2, PlaceOfLength
<1>4. PICK b : IsSum(b, a, d)
  BY DEF IsSum
<1>5. b \in Nat /\ b = a + d /\ v = a + r /\ r = d + e /\ d \in 0..r
  BY ONLY <1>1, <1>3, <1>4, r \in Nat, IsSum(v, a, r) DEF IsSum
<1>6. First(Span(f, a, r), d) = Span(f, a, d) /\ After(Span(f, a, r), d) = Span(f, b, e)
  BY <1>1, <1>3, <1>4, <1>5, SpanPart
<1>7. Took(mac(y, Span(f, a, d)), y0, f, b)
  BY <1>3, <1>4, TakesMore
<1>8. Whole(v) = a + d /\ v % Block = e
  BY <1>1, <1>2, <1>5, WholeAfter
<1>9. PICK s, u : s = Span(f, b, e) /\ u = Put(buf, 0, s)
  OBVIOUS
<1>10. IsText(s, e) /\ \A i \in 1..e : s[i] = f[b + i]
  BY ONLY <1>3, <1>5, <1>9, SpanText
<1>11. PutAt(u, buf, 0, s, e)
  BY <1>9, <1>10, PutText
<1>12. \A i \in 1..e : i \in (0 + 1)..(0 + e) /\ i - 0 = i /\ i \in 1..Block
  BY <1>3, BlockIs
<1>13. IsText(u, Block) /\ \A i \in 1..e : u[i] = f[b + i]
  BY <1>10, <1>11, <1>12 DEF PutAt
<1>14. Buffered(u, f, v)
  BY <1>5, <1>8, <1>13 DEF Buffered
<1> QED
  BY <1>3, <1>5, <1>6, <1>7, <1>8, <1>9, <1>14 DEF WholeAt

\* Both at once: what the additional data of GCM and CCM goes through.
LEMMA InjectWhole ==
  ASSUME NEW y, NEW buf, NEW y0, NEW f, NEW n, NEW k, NEW p, NEW v, NEW c, NEW r, NEW y1, NEW d,
         n \in Nat, k \in Nat,
         WholeAt(y, buf, y0, f, n), p = n % Block, c = IF p = 0 THEN 0 ELSE Block - p, c <= k,
         IsSum(v, n, k), r = After(Span(f, n, k), c), d = Whole(Len(r)),
         y1 = IF p = 0 THEN y ELSE mac(y, Put(buf, p, First(Span(f, n, k), c)))
  PROVE  /\ WholeAt(mac(y1, First(r, d)), Put(buf, 0, After(r, d)), y0, f, v)
         /\ IsText(r, Len(r)) /\ IsText(First(r, d), d) /\ Aligned(d) /\ Len(r) - d = v % Block
<1>1. p \in Nat /\ p < Block /\ Block \in Nat
  BY PlaceOfLength, BlockIs
<1>2. c \in 0..k
  BY <1>1
<1>3. PICK l \in Nat, a \in Nat : l = k - c /\ a = n + c
  BY <1>2
<1>4. IsSum(a, n, c) /\ IsSum(k, c, l) /\ IsSum(v, a, l)
  BY <1>2, <1>3 DEF IsSum
<1>5. First(Span(f, n, k), c) = Span(f, n, c) /\ r = Span(f, a, l)
  <2>1. First(Span(f, n, k), c) = Span(f, n, c) /\ After(Span(f, n, k), c) = Span(f, a, l)
    BY ONLY <1>2, <1>3, <1>4, n \in Nat, k \in Nat, SpanPart
  <2> QED
    BY ONLY <2>1, r = After(Span(f, n, k), c)
<1>6. IsText(r, l)
  BY <1>3, <1>5, SpanText
<1>7. Len(r) = l
  BY <1>6 DEF IsText
<1>8. Took(y1, y0, f, a)
  BY <1>4, <1>5, BlockFirst
<1>9. /\ WholeAt(mac(y1, First(r, d)), Put(buf, 0, After(r, d)), y0, f, v)
      /\ IsSum(l, d, v % Block)
  BY <1>4, <1>5, <1>7, <1>8, BlocksThen
<1>10. Aligned(d) /\ d \in Nat /\ d \in 0..l
  BY <1>7, WholeIs, AlignedIs
<1>11. IsText(First(r, d), d)
  <2>1. PICK m \in Nat : IsSum(l, d, m) /\ m = l - d
    BY <1>10 DEF IsSum
  <2>2. PICK b : IsSum(b, a, d)
    BY DEF IsSum
  <2>3. First(r, d) = Span(f, a, d)
    BY <1>3, <1>5, <1>10, <2>1, <2>2, SpanPart
  <2> QED
    BY <1>10, <2>3, SpanText
<1>12. v % Block \in Int
  <2>1. v \in Nat
    <3>1. IsSum(v, a, l) /\ a \in Nat /\ l \in Nat
      BY <1>4
    <3> QED
      BY ONLY <3>1 DEF IsSum
  <2>2. v % Block \in 0..(Block - 1)
    BY ONLY <2>1, WholeIs
  <2> QED
    BY <1>1, <2>2
<1>13. l - d = v % Block
  BY <1>9, <1>10, <1>12 DEF IsSum
<1> QED
  BY <1>6, <1>7, <1>9, <1>10, <1>11, <1>13

-----------------------------------------------------------------------------
(* Data in GCM and CCM: the key stream left over, whole blocks, and a block   *)
(* that is begun.                                                            *)
Keep(o, x, z) == IF o THEN z ELSE x

\* The stream that comes out, and the one that the MAC takes.
OutOf(in, iv, c) == Mixed(in, KeyBytes(iv, c))
KeptOf(o, in, iv, c) == IF o THEN OutOf(in, iv, c) ELSE in

\* Blocks of the key stream that n bytes needed.
Used(n) == IF n % Block = 0 THEN n \div Block ELSE (n \div Block) + 1

Leftover(buf, iv, c, n) ==
  n % Block # 0 => \A i \in ((n % Block) + 1)..Block : buf[i] = KeyBytes(iv, c)[Whole(n) + i]

RunAt(y, buf, now, y0, o, in, iv, c, n) ==
  /\ n \in Nat /\ c \in Nat /\ now = c + Used(n)
  /\ WholeAt(y, buf, y0, KeptOf(o, in, iv, c), n)
  /\ Leftover(buf, iv, c, n)

LEMMA KeepSpan ==
  ASSUME NEW o, NEW in, NEW iv, NEW c, NEW a, NEW n
  PROVE  Keep(o, Span(in, a, n), Span(OutOf(in, iv, c), a, n)) = Span(KeptOf(o, in, iv, c), a, n)
BY DEF Keep, KeptOf

\* What was left over of the key stream.
LEMMA LeftGiven ==
  ASSUME NEW y, NEW buf, NEW now, NEW y0, NEW o, NEW in, NEW iv, NEW c, NEW n, NEW p, NEW k,
         RunAt(y, buf, now, y0, o, in, iv, c, n), p = n % Block, k \in Nat, p + k <= Block,
         p = 0 => k = 0
  PROVE  XorBytes(Span(in, n, k), SubSeq(buf, p + 1, p + k)) = Span(OutOf(in, iv, c), n, k)
<1>1. n \in Nat /\ IsText(buf, Block)
  BY DEF RunAt, WholeAt, Buffered
<1>2. PICK w : w = Whole(n)
  OBVIOUS
<1>3. w \in Nat /\ p \in Nat /\ p < Block /\ n = w + p /\ Block \in Nat
  BY <1>1, <1>2, PlaceOfLength, BlockIs DEF IsSum
<1>4. PICK g : g = KeyBytes(iv, c)
  OBVIOUS
<1>5. LeftShows(buf, p, g, n, k)
  <2>1. CASE p = 0
    BY <2>1 DEF LeftShows
  <2>2. CASE p # 0
    <3>1. \A i \in (p + 1)..Block : buf[i] = g[w + i]
      BY <1>2, <1>4, <2>2 DEF RunAt, Leftover
    <3>2. \A i \in 1..k : p + i \in (p + 1)..Block /\ w + (p + i) = n + i
      BY <1>3
    <3> QED
      BY <3>1, <3>2 DEF LeftShows
  <2> QED
    BY <2>1, <2>2
<1>6. PICK m, l : m = p + 1 /\ l = p + k /\ l <= Block /\ IsSum(m, p, 1) /\ IsSum(l, p, k)
  BY DEF IsSum
<1>7. XorBytes(Span(in, n, k), SubSeq(buf, m, l)) = Span(Mixed(in, g), n, k)
  BY ONLY <1>1, <1>3, <1>5, <1>6, k \in Nat, XorLeft
<1> QED
  BY <1>4, <1>6, <1>7 DEF OutOf

\* Fewer bytes than the block begun still needs.
LEMMA RunWithin ==
  ASSUME NEW y, NEW buf, NEW now, NEW y0, NEW o, NEW in, NEW iv, NEW c, NEW n, NEW p, NEW k,
         NEW v, RunAt(y, buf, now, y0, o, in, iv, c, n), p = n % Block, k \in Nat, p # 0,
         k < Block - p, IsSum(v, n, k)
  PROVE  /\ RunAt(y, Put(buf, p, Span(KeptOf(o, in, iv, c), n, k)), now, y0, o, in, iv, c, v)
         /\ v % Block = p + k
<1>1. PICK f, u : f = KeptOf(o, in, iv, c) /\ u = Put(buf, p, Span(f, n, k))
  OBVIOUS
<1>2. n \in Nat /\ c \in Nat /\ WholeAt(y, buf, y0, f, n) /\ now = c + Used(n)
  BY <1>1 DEF RunAt
<1>3. PICK w : w = Whole(n)
  OBVIOUS
<1>4. w \in Nat /\ p \in Nat /\ p < Block /\ n = w + p /\ Block \in Nat /\ Aligned(w)
  BY <1>2, <1>3, PlaceOfLength, BlockIs DEF IsSum
<1>5. WholeAt(y, u, y0, f, v) /\ v % Block = p + k
  BY <1>1, <1>2, InjectPart
<1>6. PICK e \in Nat : e = p + k /\ e < Block /\ e # 0
  BY <1>4
<1>7. v = w + e /\ v \in Nat /\ n = w + p
  BY <1>4, <1>6 DEF IsSum
<1>8. /\ Whole(v) = w + Whole(e) /\ v \div Block = (w \div Block) + (e \div Block)
      /\ n \div Block = (w \div Block) + (p \div Block)
  BY <1>4, <1>6, <1>7, WholeAfter
<1>9. Whole(e) = 0 /\ e \div Block = 0 /\ p \div Block = 0
  BY <1>4, <1>6, Small
<1>10. Whole(v) = w /\ v \div Block = n \div Block
  <2>1. w \div Block \in Nat
    BY <1>4, AlignedIs
  <2> QED
    BY <1>4, <1>8, <1>9, <2>1
<1>11. now = c + Used(v)
  BY <1>2, <1>5, <1>6, <1>10 DEF Used
<1>12. \A i \in (p + 1)..Block : buf[i] = KeyBytes(iv, c)[w + i]
  BY <1>3 DEF RunAt, Leftover
<1>13. PutAt(u, buf, p, Span(f, n, k), k)
  BY <1>1, <1>2, SpanText, PutText
<1>14. ASSUME NEW i \in (e + 1)..Block
       PROVE  u[i] = KeyBytes(iv, c)[w + i]
  <2>1. i \in 1..Block /\ i \notin (p + 1)..(p + k) /\ i \in (p + 1)..Block
    BY <1>4, <1>6
  <2>2. u[i] = buf[i]
    BY <1>13, <2>1 DEF PutAt
  <2> QED
    BY <1>12, <2>1, <2>2
<1>15. Leftover(u, iv, c, v)
  BY <1>5, <1>6, <1>10, <1>14 DEF Leftover
<1> QED
  BY <1>1, <1>2, <1>5, <1>7, <1>11, <1>15 DEF RunAt

\* The parts of a run that completes the block begun: l bytes complete it, then
\* d are whole blocks from a on, and the last x begin a block at b.
Splits(n, k, p, l, a, r, d, b, x, v) ==
  /\ n \in Nat /\ k \in Nat /\ p = n % Block /\ l = (IF p = 0 THEN 0 ELSE Block - p) /\ l <= k
  /\ a = n + l /\ r = k - l /\ d = Whole(r) /\ b = a + d /\ x = r - d /\ v = n + k

LEMMA SplitFacts ==
  ASSUME NEW n, NEW k, NEW p, NEW l, NEW a, NEW r, NEW d, NEW b, NEW x, NEW v,
         Splits(n, k, p, l, a, r, d, b, x, v)
  PROVE  /\ l \in Nat /\ a \in Nat /\ r \in Nat /\ d \in Nat /\ b \in Nat /\ x \in Nat /\ v \in Nat
         /\ p + l <= Block /\ (p = 0 => l = 0) /\ l \in 0..k /\ d \in 0..r
         /\ Aligned(a) /\ Aligned(d) /\ Aligned(b) /\ x < Block
         /\ IsSum(a, n, l) /\ IsSum(k, l, r) /\ IsSum(b, a, d) /\ IsSum(r, d, x)
         /\ IsSum(v, b, x) /\ IsSum(v, n, k) /\ IsSum(v, a, r)
         /\ v % Block = x /\ Whole(v) = b
         /\ a \div Block = Used(n) /\ b \div Block = (a \div Block) + (d \div Block)
         /\ Used(v) = IF x = 0 THEN b \div Block ELSE (b \div Block) + 1
<1>1. n \in Nat /\ k \in Nat /\ p = n % Block /\ l <= k /\ l = IF p = 0 THEN 0 ELSE Block - p
  BY DEF Splits
<1>2. PICK w : w = Whole(n)
  OBVIOUS
<1>3. Aligned(w) /\ w \in Nat /\ p \in Nat /\ p < Block /\ n = w + p /\ Block \in Nat
  BY <1>1, <1>2, PlaceOfLength, BlockIs DEF IsSum
<1>4. l \in Nat /\ p + l <= Block /\ (p = 0 => l = 0)
  BY <1>1, <1>3
<1>5. r = k - l /\ r \in Nat /\ a = n + l /\ a \in Nat /\ d = Whole(r)
  BY <1>1, <1>4 DEF Splits
<1>6. PICK e : e = r % Block
  OBVIOUS
<1>7. Aligned(d) /\ d \in Nat /\ e \in Nat /\ e < Block /\ r = d + e
  BY <1>5, <1>6, PlaceOfLength DEF IsSum
<1>8. x = e /\ b = a + d /\ v = n + k
  BY <1>7 DEF Splits
<1>9. b \in Nat /\ v \in Nat /\ v = b + x /\ v = a + r
  BY <1>1, <1>5, <1>7, <1>8
<1>10. Aligned(a) /\ a \div Block = Used(n)
  <2>1. CASE p = 0
    <3>1. a = n /\ n = w
      BY <1>3, <1>4, <1>5, <2>1
    <3> QED
      BY <1>1, <1>3, <2>1, <3>1 DEF Used
  <2>2. CASE p # 0
    <3>1. a = n + (Block - (n % Block)) /\ n % Block # 0
      BY <1>1, <1>5, <2>2
    <3>2. Aligned(a) /\ a \div Block = (n \div Block) + 1
      BY <1>1, <3>1, BlockDone
    <3> QED
      BY <3>1, <3>2 DEF Used
  <2> QED
    BY <2>1, <2>2
<1>11. Aligned(b) /\ b \div Block = (a \div Block) + (d \div Block)
  BY <1>7, <1>8, <1>10, AlignedSum
<1>12. x % Block = x /\ Whole(x) = 0 /\ x \div Block = 0
  BY <1>7, <1>8, Small
<1>13. Whole(v) = b + Whole(x) /\ v % Block = x % Block /\ v \div Block = (b \div Block) + (x \div Block)
  BY <1>7, <1>8, <1>9, <1>11, WholeAfter
<1>14. Whole(v) = b /\ v % Block = x /\ v \div Block = b \div Block
  <2>1. b \div Block \in Nat
    BY <1>11, AlignedIs
  <2> QED
    BY <1>9, <1>12, <1>13, <2>1
<1>15. Used(v) = IF x = 0 THEN b \div Block ELSE (b \div Block) + 1
  BY <1>14 DEF Used
<1>16. l \in 0..k /\ d \in 0..r /\ x \in Nat /\ x < Block
  BY <1>1, <1>4, <1>7, <1>8
<1>17. /\ IsSum(a, n, l) /\ IsSum(k, l, r) /\ IsSum(b, a, d) /\ IsSum(r, d, x)
       /\ IsSum(v, b, x) /\ IsSum(v, n, k) /\ IsSum(v, a, r)
  BY <1>1, <1>4, <1>5, <1>7, <1>8, <1>9 DEF IsSum
<1> QED
  BY <1>4, <1>5, <1>7, <1>9, <1>10, <1>11, <1>14, <1>15, <1>16, <1>17

\* The bytes of those parts.
PartedRun(in, out, iv, c, n, k, l, r, d, a, b, x) ==
  /\ First(Span(in, n, k), l) = Span(in, n, l) /\ After(Span(in, n, k), l) = Span(in, a, r)
  /\ First(Span(in, a, r), d) = Span(in, a, d) /\ After(Span(in, a, r), d) = Span(in, b, x)
  /\ ctr(iv, c + (a \div Block), Span(in, a, d)) = Span(out, a, d)
  /\ ctr(iv, c + (b \div Block), Span(in, b, x)) = Span(out, b, x)
  /\ (Span(out, n, l) \o Span(out, a, d)) \o Span(out, b, x) = Span(out, n, k)
  /\ Len(Span(in, n, k)) = k /\ Len(Span(in, a, r)) = r /\ Len(Span(in, a, d)) = d
  /\ Len(Span(in, b, x)) = x /\ (x = 0 <=> Span(in, b, x) = <<>>)

RunPieces(n, k, l, a, r, d, b, x) ==
  /\ n \in Nat /\ k \in Nat
  /\ l \in Nat /\ a \in Nat /\ r \in Nat /\ d \in Nat /\ b \in Nat /\ x \in Nat
  /\ l \in 0..k /\ d \in 0..r /\ Aligned(a) /\ Aligned(b)
  /\ IsSum(a, n, l) /\ IsSum(k, l, r) /\ IsSum(b, a, d) /\ IsSum(r, d, x)

LEMMA PartsOfPieces ==
  ASSUME NEW in, NEW iv, NEW c, NEW n, NEW k, NEW l, NEW a, NEW r, NEW d, NEW b, NEW x,
         c \in Nat, RunPieces(n, k, l, a, r, d, b, x)
  PROVE  PartedRun(in, OutOf(in, iv, c), iv, c, n, k, l, r, d, a, b, x)
<1>1. PICK out, s : out = OutOf(in, iv, c) /\ s = Span(in, n, k)
  OBVIOUS
<1>2. n \in Nat /\ k \in Nat
  BY DEF RunPieces
<1>3. /\ l \in Nat /\ a \in Nat /\ r \in Nat /\ d \in Nat /\ b \in Nat /\ x \in Nat
      /\ l \in 0..k /\ d \in 0..r /\ Aligned(a) /\ Aligned(b)
      /\ IsSum(a, n, l) /\ IsSum(k, l, r) /\ IsSum(b, a, d) /\ IsSum(r, d, x)
  BY DEF RunPieces
<1>4. /\ First(Span(in, n, k), l) = Span(in, n, l) /\ After(Span(in, n, k), l) = Span(in, a, r)
  BY ONLY <1>2, <1>3, SpanPart
<1>5. First(Span(in, a, r), d) = Span(in, a, d) /\ After(Span(in, a, r), d) = Span(in, b, x)
  BY ONLY <1>3, SpanPart
<1>6. ctr(iv, c + (a \div Block), Span(in, a, d)) = Span(out, a, d)
  BY <1>1, <1>3, CtrSpan DEF OutOf
<1>7. ctr(iv, c + (b \div Block), Span(in, b, x)) = Span(out, b, x)
  BY <1>1, <1>3, CtrSpan DEF OutOf
<1>8. (Span(out, n, l) \o Span(out, a, d)) \o Span(out, b, x) = Span(out, n, k)
  <2>1. PICK m : IsSum(m, l, d)
    BY DEF IsSum
  <2>2. m \in Nat /\ IsSum(b, n, m) /\ IsSum(k, m, x)
    BY ONLY <1>2, <1>3, <2>1 DEF IsSum
  <2>3. IsJoin(Span(out, n, m), Span(out, n, l), Span(out, a, d))
    BY ONLY <1>2, <1>3, <2>1, SpanJoined
  <2>4. IsJoin(Span(out, n, k), Span(out, n, m), Span(out, b, x))
    BY ONLY <1>2, <1>3, <2>2, SpanJoined
  <2> QED
    BY <2>3, <2>4 DEF IsJoin
<1>9. /\ IsText(Span(in, n, k), k) /\ IsText(Span(in, a, r), r) /\ IsText(Span(in, a, d), d)
      /\ IsText(Span(in, b, x), x)
  BY ONLY <1>2, <1>3, SpanText
<1>10. /\ Len(Span(in, n, k)) = k /\ Len(Span(in, a, r)) = r /\ Len(Span(in, a, d)) = d
       /\ Len(Span(in, b, x)) = x /\ (x = 0 <=> Span(in, b, x) = <<>>)
  BY <1>9, Empty DEF IsText
<1> QED
  BY <1>1, <1>4, <1>5, <1>6, <1>7, <1>8, <1>10 DEF PartedRun

LEMMA PartsOfRun ==
  ASSUME NEW in, NEW iv, NEW c, NEW n, NEW k, NEW p, NEW l, NEW a, NEW r, NEW d, NEW b, NEW x,
         NEW v, c \in Nat, Splits(n, k, p, l, a, r, d, b, x, v)
  PROVE  PartedRun(in, OutOf(in, iv, c), iv, c, n, k, l, r, d, a, b, x)
<1>1. n \in Nat /\ k \in Nat
  BY DEF Splits
<1>2. /\ l \in Nat /\ a \in Nat /\ r \in Nat /\ d \in Nat /\ b \in Nat /\ x \in Nat
      /\ l \in 0..k /\ d \in 0..r /\ Aligned(a) /\ Aligned(b)
      /\ IsSum(a, n, l) /\ IsSum(k, l, r) /\ IsSum(b, a, d) /\ IsSum(r, d, x)
  BY SplitFacts
<1>3. RunPieces(n, k, l, a, r, d, b, x)
  BY ONLY <1>1, <1>2 DEF RunPieces
<1> QED
  BY <1>3, PartsOfPieces

\* A run that completes the block begun.
LEMMA RunBeyond ==
  ASSUME NEW y, NEW buf, NEW now, NEW y0, NEW o, NEW in, NEW iv, NEW c, NEW n, NEW k, NEW p,
         NEW l, NEW a, NEW r, NEW d, NEW b, NEW x, NEW v, NEW f, NEW y1, NEW any,
         RunAt(y, buf, now, y0, o, in, iv, c, n), Splits(n, k, p, l, a, r, d, b, x, v),
         f = KeptOf(o, in, iv, c), IsText(any, Block),
         y1 = IF p = 0 THEN y ELSE mac(y, Put(buf, p, Span(f, n, l)))
  PROVE  RunAt(mac(y1, Span(f, a, d)),
               IF x = 0 THEN any ELSE Put(KeyStream(iv, c + (b \div Block), Block), 0, Span(f, b, x)),
               IF x = 0 THEN c + (b \div Block) ELSE c + (b \div Block) + 1,
               y0, o, in, iv, c, v)
<1>1. /\ n \in Nat /\ c \in Nat /\ WholeAt(y, buf, y0, f, n)
      /\ p = n % Block /\ l = IF p = 0 THEN 0 ELSE Block - p
  BY DEF RunAt, Splits
<1>2. /\ a \in Nat /\ d \in Nat /\ b \in Nat /\ x \in Nat /\ v \in Nat
      /\ Aligned(d) /\ Aligned(b) /\ x < Block
      /\ IsSum(a, n, l) /\ IsSum(b, a, d) /\ v % Block = x /\ Whole(v) = b
      /\ Used(v) = IF x = 0 THEN b \div Block ELSE (b \div Block) + 1
  BY SplitFacts
<1>3. Took(y1, y0, f, a)
  BY <1>1, <1>2, BlockFirst
<1>4. PICK y2 : y2 = mac(y1, Span(f, a, d))
  OBVIOUS
<1>5. Took(y2, y0, f, b)
  BY <1>2, <1>3, <1>4, TakesMore
<1>6. PICK key, s, u, after : /\ key = KeyStream(iv, c + (b \div Block), Block)
                             /\ s = Span(f, b, x) /\ u = Put(key, 0, s)
                             /\ after = IF x = 0 THEN any ELSE u
  OBVIOUS
<1>7. key = Span(KeyBytes(iv, c), b, Block)
  <2>1. PICK m : m = c + (b \div Block)
    OBVIOUS
  <2> QED
    BY <1>1, <1>2, <1>6, <2>1, KeySpan, BlockIs
<1>8. \A i \in 1..Block : key[i] = KeyBytes(iv, c)[b + i]
  BY ONLY <1>2, <1>7, SpanText, BlockIs
<1>9. IsText(s, x) /\ \A i \in 1..x : s[i] = f[b + i]
  BY ONLY <1>2, <1>6, SpanText
<1>10. PutAt(u, key, 0, s, x)
  BY <1>6, <1>9, PutText
<1>11. /\ IsText(u, Block)
       /\ \A i \in 1..Block : u[i] = IF i \in (0 + 1)..(0 + x) THEN s[i - 0] ELSE key[i]
  BY <1>10 DEF PutAt
<1>12. \A i \in 1..x : u[i] = f[b + i]
  <2>1. \A i \in 1..x : i \in 1..Block /\ i \in (0 + 1)..(0 + x) /\ i - 0 = i
    BY <1>2, BlockIs
  <2> QED
    BY <1>9, <1>11, <2>1
<1>13. \A i \in (x + 1)..Block : u[i] = KeyBytes(iv, c)[b + i]
  <2>1. \A i \in (x + 1)..Block : i \in 1..Block /\ i \notin (0 + 1)..(0 + x)
    BY <1>2, BlockIs
  <2> QED
    BY <1>8, <1>11, <2>1
<1>14. Buffered(after, f, v)
  <2>1. CASE x = 0
    BY <1>2, <1>6, <2>1 DEF Buffered
  <2>2. CASE x # 0
    BY <1>2, <1>6, <1>11, <1>12, <2>2 DEF Buffered
  <2> QED
    BY <2>1, <2>2
<1>15. Leftover(after, iv, c, v)
  <2>1. CASE x = 0
    BY <1>2, <2>1 DEF Leftover
  <2>2. CASE x # 0
    BY <1>2, <1>6, <1>13, <2>2 DEF Leftover
  <2> QED
    BY <2>1, <2>2
<1>16. PICK q, next : q = b \div Block /\ next = IF x = 0 THEN c + q ELSE c + q + 1
  OBVIOUS
<1>17. next = c + Used(v)
  <2>1. q \in Nat
    BY <1>2, <1>16, AlignedIs
  <2> QED
    BY <1>1, <1>2, <1>16, <2>1
<1>18. WholeAt(y2, after, y0, f, v)
  BY <1>2, <1>5, <1>14 DEF WholeAt
<1>19. RunAt(y2, after, next, y0, o, in, iv, c, v)
  BY <1>1, <1>2, <1>15, <1>17, <1>18 DEF RunAt
<1> QED
  BY <1>4, <1>6, <1>16, <1>19

-----------------------------------------------------------------------------
(* The last block, filled with zeros.                                        *)
LEMMA HeadOfBuffer ==
  ASSUME NEW buf, NEW f, NEW n, NEW p, n \in Nat, Buffered(buf, f, n), p = n % Block
  PROVE  First(buf, p) = Span(f, Whole(n), p)
<1>1. PICK w : w = Whole(n)
  OBVIOUS
<1>2. w \in Nat /\ p \in Nat /\ p < Block /\ Block \in Nat
  BY <1>1, PlaceOfLength, BlockIs
<1>3. IsString(buf) /\ Len(buf) = Block /\ \A i \in 1..p : buf[i] = f[w + i]
  BY <1>1 DEF Buffered, IsText
<1>4. 1 \in 1..(Len(buf) + 1) /\ p \in (1 - 1)..Len(buf)
  BY <1>2, <1>3
<1>5. PICK s : s = SubSeq(buf, 1, p)
  OBVIOUS
<1>6. IsString(s) /\ Len(s) = p - 1 + 1 /\ \A i \in 1..(p - 1 + 1) : s[i] = buf[1 + i - 1]
  BY ONLY <1>3, <1>4, <1>5, CutString
<1>7. p - 1 + 1 = p /\ \A i \in 1..p : 1 + i - 1 = i
  BY <1>2
<1>8. IsText(s, p) /\ Shows(s, f, w, p)
  BY <1>2, <1>3, <1>6, <1>7 DEF IsText, Shows
<1>9. s = Span(f, w, p)
  BY <1>2, <1>8, SpanSame
<1> QED
  BY <1>1, <1>5, <1>9 DEF First

Complete(y, y0, f, n) == y = y0 \o Cut(Filled(Span(f, 0, n)))

LEMMA Completes ==
  ASSUME NEW y, NEW y0, NEW f, NEW n, NEW w, NEW p, n \in Nat, Took(y, y0, f, w), w = Whole(n),
         p = n % Block
  PROVE  Complete(IF p = 0 THEN y ELSE y \o Cut(Filled(Span(f, w, p))), y0, f, n)
<1>1. Aligned(w) /\ w \in Nat /\ p \in Nat /\ n = w + p
  BY PlaceOfLength DEF IsSum
<1>2. IsString(y0) /\ y = y0 \o Cut(Span(f, 0, w))
  BY DEF Took
<1>3. CASE p = 0
  <2>1. n = w
    BY <1>1, <1>3
  <2>2. IsText(Span(f, 0, w), w)
    BY <1>1, SpanText
  <2>3. Filled(Span(f, 0, w)) = Span(f, 0, w)
    BY <1>1, <2>2, FilledText
  <2> QED
    BY <1>2, <1>3, <2>1, <2>3 DEF Complete
<1>4. CASE p # 0
  <2>1. PICK s, t, u : /\ s = Cut(Span(f, 0, w)) /\ t = Cut(Filled(Span(f, w, p)))
                       /\ u = Cut(Filled(Span(f, 0, n)))
    OBVIOUS
  <2>2. u = s \o t
    <3>1. IsJoin(Cut(Filled(Span(f, 0, n))), Cut(Span(f, 0, w)), Cut(Filled(Span(f, w, p))))
      BY ONLY n \in Nat, w = Whole(n), p = n % Block, FilledSpan
    <3> QED
      BY <2>1, <3>1 DEF IsJoin
  <2>3. IsString(s)
    BY <1>1, <2>1, SpanText, CutOf
  <2>4. IsString(t)
    <3>1. IsText(Span(f, w, p), p)
      BY <1>1, SpanText
    <3>2. PICK q : IsText(Filled(Span(f, w, p)), q)
      BY <3>1, FilledText
    <3> QED
      BY <2>1, <3>2, CutOf
  <2>5. (y0 \o s) \o t = y0 \o (s \o t)
    BY <1>2, <2>3, <2>4, JoinedTwice
  <2> QED
    BY <1>2, <1>4, <2>1, <2>2, <2>5 DEF Complete
<1> QED
  BY <1>3, <1>4

\* GHASH is given the bytes there are.
LEMMA CompleteGh ==
  ASSUME NEW y, NEW buf, NEW y0, NEW f, NEW n, NEW p, n \in Nat, WholeAt(y, buf, y0, f, n),
         p = n % Block
  PROVE  Complete(IF p = 0 THEN y ELSE gh(y, First(buf, p)), y0, f, n)
<1>1. PICK w, s : w = Whole(n) /\ s = Span(f, w, p)
  OBVIOUS
<1>2. First(buf, p) = s
  BY <1>1, HeadOfBuffer DEF WholeAt
<1>3. gh(y, s) = y \o Cut(Filled(s))
  BY GhFilled
<1>4. Complete(IF p = 0 THEN y ELSE y \o Cut(Filled(s)), y0, f, n)
  BY <1>1, Completes DEF WholeAt
<1> QED
  BY <1>2, <1>3, <1>4

\* CBC-MAC is given the block.
LEMMA CompleteMac ==
  ASSUME NEW y, NEW buf, NEW y0, NEW f, NEW n, NEW p, n \in Nat, WholeAt(y, buf, y0, f, n),
         p = n % Block
  PROVE  Complete(IF p = 0 THEN y ELSE mac(y, Put(buf, p, Nulls(Block - p))), y0, f, n)
<1>1. PICK w, s : w = Whole(n) /\ s = Span(f, w, p)
  OBVIOUS
<1>2. w \in Nat /\ p \in Nat /\ p < Block /\ Block \in Nat
  BY <1>1, PlaceOfLength, BlockIs
<1>3. Complete(IF p = 0 THEN y ELSE y \o Cut(Filled(s)), y0, f, n)
  BY <1>1, Completes DEF WholeAt
<1>4. CASE p = 0
  BY <1>3, <1>4
<1>5. CASE p # 0
  <2>1. IsText(s, p) /\ \A i \in 1..p : s[i] = f[w + i]
    BY <1>1, <1>2, SpanText
  <2>2. PICK e \in Nat : e = Block - p
    BY <1>2
  <2>3. p % Block = p
    BY <1>2, Small
  <2>4. (0 - p) % Block = e
    BY <1>2, <1>5, <2>2, <2>3, Missing
  <2>5. PICK z : z = Nulls(e) /\ IsText(z, e)
    BY NullsText
  <2>6. PICK t, u : t = s \o z /\ u = Put(buf, p, z)
    OBVIOUS
  <2>7. Filled(s) = t
    BY <2>1, <2>4, <2>5, <2>6 DEF Filled, IsText
  <2>8. IsText(t, p + e) /\ (\A i \in 1..p : t[i] = s[i]) /\ \A i \in 1..e : t[p + i] = z[i]
    <3>1. Joint(t, s, p, z, e)
      BY <2>1, <2>5, <2>6, JointText
    <3> QED
      BY <3>1 DEF Joint
  <2>9. PutAt(u, buf, p, z, e)
    BY <2>5, <2>6, PutText
  <2>10. \A i \in 1..p : buf[i] = f[w + i]
    BY <1>1 DEF WholeAt, Buffered
  <2>11. p + e = Block
    BY <1>2, <2>2
  <2>12. ASSUME NEW i \in 1..Block
         PROVE  u[i] = t[i]
    <3>1. CASE i \in 1..p
      <4>1. i \notin (p + 1)..(p + e)
        BY <1>2, <3>1
      <4> QED
        BY <2>1, <2>8, <2>9, <2>10, <3>1, <4>1 DEF PutAt
    <3>2. CASE i \notin 1..p
      <4>1. PICK j \in 1..e : i = p + j /\ j = i - p
        <5>1. i - p \in 1..e /\ i = p + (i - p)
          BY <1>2, <2>11, <3>2
        <5> QED
          BY <5>1
      <4>2. i \in (p + 1)..(p + e)
        BY <1>2, <4>1
      <4> QED
        BY <2>8, <2>9, <4>1, <4>2 DEF PutAt
    <3> QED
      BY <3>1, <3>2
  <2>13. u = t
    BY <2>8, <2>9, <2>11, <2>12, SameText DEF PutAt
  <2> QED
    BY <1>3, <1>5, <2>2, <2>5, <2>6, <2>7, <2>13 DEF mac
<1> QED
  BY <1>4, <1>5

-----------------------------------------------------------------------------
(* GCM.                                                                      *)
GcmContext(jc, y, aad, data, buf) ==
  [jc |-> jc, y |-> y, count_aad |-> aad, count_ctr |-> data, buf |-> buf]

GcmAad(g, f, n) ==
  \E y, buf : g = GcmContext(2, y, n, 0, buf) /\ WholeAt(y, buf, <<>>, f, n)

LEMMA GcmFields ==
  ASSUME NEW g, NEW jc, NEW y, NEW aad, NEW data, NEW buf, g = GcmContext(jc, y, aad, data, buf)
  PROVE  g.jc = jc /\ g.y = y /\ g.count_aad = aad /\ g.count_ctr = data /\ g.buf = buf
BY DEF GcmContext

GcmPut(h, g, buf, data) == h = [g EXCEPT !.buf = buf, !.count_ctr = data]
GcmRan(h, g, y, jc, buf, data) ==
  h = [g EXCEPT !.y = y, !.jc = jc, !.buf = buf, !.count_ctr = data]

LEMMA GcmPutIs ==
  ASSUME NEW g, NEW jc, NEW y, NEW aad, NEW data, NEW buf, NEW h, NEW data2, NEW buf2,
         g = GcmContext(jc, y, aad, data, buf), GcmPut(h, g, buf2, data2)
  PROVE  h = GcmContext(jc, y, aad, data2, buf2)
<1>1. PICK g3 : g3 = [g EXCEPT !.buf = buf2]
  OBVIOUS
<1>2. g3 = GcmContext(jc, y, aad, data, buf2)
  BY <1>1 DEF GcmContext
<1>3. [g3 EXCEPT !.count_ctr = data2] = GcmContext(jc, y, aad, data2, buf2)
  BY <1>2 DEF GcmContext
<1>4. [[g EXCEPT !.buf = buf2] EXCEPT !.count_ctr = data2] = [g EXCEPT !.buf = buf2, !.count_ctr = data2]
  OBVIOUS
<1> QED
  BY <1>1, <1>3, <1>4 DEF GcmPut

LEMMA GcmRanIs ==
  ASSUME NEW g, NEW jc, NEW y, NEW aad, NEW data, NEW buf, NEW h, NEW jc2, NEW y2, NEW data2,
         NEW buf2, g = GcmContext(jc, y, aad, data, buf), GcmRan(h, g, y2, jc2, buf2, data2)
  PROVE  h = GcmContext(jc2, y2, aad, data2, buf2)
<1>1. PICK g1, g2 : g1 = [g EXCEPT !.y = y2] /\ g2 = [g1 EXCEPT !.jc = jc2]
  OBVIOUS
<1>2. PICK g4 : g4 = [g2 EXCEPT !.buf = buf2]
  OBVIOUS
<1>3. g1 = GcmContext(jc, y2, aad, data, buf)
  BY <1>1 DEF GcmContext
<1>4. g2 = GcmContext(jc2, y2, aad, data, buf)
  BY <1>1, <1>3 DEF GcmContext
<1>5. g4 = GcmContext(jc2, y2, aad, data, buf2)
  BY <1>2, <1>4 DEF GcmContext
<1>6. [g4 EXCEPT !.count_ctr = data2] = GcmContext(jc2, y2, aad, data2, buf2)
  BY <1>5 DEF GcmContext
<1>7. [[[[g EXCEPT !.y = y2] EXCEPT !.jc = jc2] EXCEPT !.buf = buf2] EXCEPT !.count_ctr = data2]
         = [g EXCEPT !.y = y2, !.jc = jc2, !.buf = buf2, !.count_ctr = data2]
  OBVIOUS
<1> QED
  BY <1>1, <1>2, <1>6, <1>7 DEF GcmRan

LEMMA GcmBegins ==
  ASSUME NEW f
  PROVE  GcmAad(br_gcm_reset, f, 0)
<1>1. PICK buf : buf = Nulls(Block)
  OBVIOUS
<1>2. IsText(buf, Block)
  BY <1>1, BlockIs, NullsText
<1>3. 0 % Block = 0 /\ Whole(0) = 0
  BY Small, BlockIs
<1>4. Span(f, 0, 0) = <<>>
  <2>1. IsText(Span(f, 0, 0), 0)
    BY SpanText
  <2> QED
    BY <2>1, Empty DEF IsText
<1>5. <<>> = <<>> \o Cut(Span(f, 0, 0)) /\ IsString(<<>>)
  BY <1>4, CutNothing, Empty
<1>6. WholeAt(<<>>, buf, <<>>, f, 0)
  BY <1>2, <1>3, <1>5, OneBlock DEF WholeAt, Took, Buffered
<1>7. br_gcm_reset = GcmContext(2, <<>>, 0, 0, buf)
  BY <1>1 DEF br_gcm_reset, GcmContext
<1> QED
  BY <1>6, <1>7 DEF GcmAad

LEMMA GcmInjects ==
  ASSUME NEW g, NEW f, NEW n, NEW k, NEW v, n \in Nat, k \in Nat, GcmAad(g, f, n),
         IsSum(v, n, k)
  PROVE  GcmAad(br_gcm_aad_inject(g, Span(f, n, k)), f, v)
<1>1. PICK y, buf : g = GcmContext(2, y, n, 0, buf) /\ WholeAt(y, buf, <<>>, f, n)
  BY DEF GcmAad
<1>2. g.y = y /\ g.count_aad = n /\ g.buf = buf
  BY <1>1, GcmFields
<1>3. PICK data : data = Span(f, n, k)
  OBVIOUS
<1>4. Len(data) = k
  BY <1>3, SpanText DEF IsText
<1>5. PICK p, c : p = n % Block /\ c = IF p = 0 THEN 0 ELSE Block - p
  OBVIOUS
<1>6. p \in Nat /\ p < Block /\ Block \in Nat
  BY <1>5, PlaceOfLength, BlockIs
<1>7. CASE k < c
  <2>1. k < Block - p
    BY <1>5, <1>6, <1>7
  <2>2. WholeAt(y, Put(buf, p, data), <<>>, f, v)
    BY <1>1, <1>3, <1>5, <2>1, InjectPart
  <2>3. PICK b : b = Put(buf, p, data)
    OBVIOUS
  <2>4. br_gcm_aad_inject(g, data) = [[g EXCEPT !.buf = b] EXCEPT !.count_aad = @ + k]
    BY <1>2, <1>4, <1>5, <1>7, <2>3 DEF br_gcm_aad_inject
  <2>5. v = n + k
    BY DEF IsSum
  <2>6. br_gcm_aad_inject(g, data) = GcmContext(2, y, v, 0, b)
    BY <1>1, <2>4, <2>5 DEF GcmContext
  <2> QED
    BY <1>3, <2>2, <2>3, <2>6 DEF GcmAad
<1>8. CASE ~(k < c)
  <2>1. PICK r, y1 : /\ r = After(data, c)
                     /\ y1 = IF p = 0 THEN y ELSE mac(y, Put(buf, p, First(data, c)))
    OBVIOUS
  <2>2. PICK d : d = Whole(Len(r))
    OBVIOUS
  <2>3. c <= k
    BY <1>5, <1>6, <1>8
  <2>4. /\ WholeAt(mac(y1, First(r, d)), Put(buf, 0, After(r, d)), <<>>, f, v)
        /\ IsText(First(r, d), d) /\ Aligned(d)
    BY ONLY n \in Nat, k \in Nat, IsSum(v, n, k), <1>1, <1>3, <1>5, <2>1, <2>2, <2>3, InjectWhole
  <2>5. y1 = IF p = 0 THEN y ELSE gh(y, Put(buf, p, First(data, c)))
    <3>1. CASE p = 0
      BY <2>1, <3>1
    <3>2. CASE p # 0
      <4>1. First(data, c) = Span(f, n, c)
        <5>1. PICK l \in Nat : IsSum(k, c, l) /\ c \in 0..k
          <6>1. k - c \in Nat /\ k = c + (k - c) /\ c \in 0..k
            BY <1>5, <1>6, <2>3
          <6> QED
            BY <6>1 DEF IsSum
        <5>2. PICK a : IsSum(a, n, c)
          BY DEF IsSum
        <5> QED
          BY <1>3, <5>1, <5>2, SpanPart
      <4>2. c = Block - p /\ c \in Nat
        BY <1>5, <1>6, <3>2
      <4>3. IsText(Span(f, n, c), c)
        BY <4>2, SpanText
      <4>4. PutAt(Put(buf, p, First(data, c)), buf, p, First(data, c), c)
        BY <4>1, <4>3, PutText
      <4>5. gh(y, Put(buf, p, First(data, c))) = mac(y, Put(buf, p, First(data, c)))
        BY <4>4, OneBlock, GhWhole DEF PutAt
      <4> QED
        BY <2>1, <3>2, <4>5
    <3> QED
      BY <3>1, <3>2
  <2>6. gh(y1, First(r, d)) = mac(y1, First(r, d))
    BY <2>4, GhWhole
  <2>7. PICK y2, b : y2 = gh(y1, First(r, d)) /\ b = Put(buf, 0, After(r, d))
    OBVIOUS
  <2>8. br_gcm_aad_inject(g, data) = [[g EXCEPT !.y = y2, !.buf = b] EXCEPT !.count_aad = @ + k]
    BY <1>2, <1>4, <1>5, <1>8, <2>1, <2>2, <2>5, <2>7 DEF br_gcm_aad_inject
  <2>9. v = n + k
    BY DEF IsSum
  <2>10. br_gcm_aad_inject(g, data) = GcmContext(2, y2, v, 0, b)
    BY <1>1, <2>8, <2>9 DEF GcmContext
  <2> QED
    BY <1>3, <2>4, <2>6, <2>7, <2>10 DEF GcmAad
<1> QED
  BY <1>7, <1>8

\* The context while data goes through it: n bytes of the stream f of additional
\* data came before, and m bytes of the stream in so far.
GcmRuns(g, f, n, o, in, m) ==
  \E jc, y, buf : /\ g = GcmContext(jc, y, n, m, buf)
                  /\ RunAt(y, buf, jc, Cut(Filled(Span(f, 0, n))), o, in, "iv", 2, m)

LEMMA NothingTaken ==
  ASSUME NEW y0, NEW f, IsString(y0)
  PROVE  Took(y0, y0, f, 0) /\ Whole(0) = 0 /\ 0 % Block = 0 /\ Used(0) = 0
<1>1. 0 % Block = 0 /\ Whole(0) = 0 /\ 0 \div Block = 0
  BY Small, BlockIs
<1>2. IsText(Span(f, 0, 0), 0)
  BY SpanText
<1>3. Span(f, 0, 0) = <<>>
  BY <1>2, Empty DEF IsText
<1>4. y0 = y0 \o Cut(Span(f, 0, 0))
  BY <1>3, CutNothing, Empty
<1> QED
  BY <1>1, <1>4, OneBlock DEF Took, Used

LEMMA RunBegins0 ==
  ASSUME NEW y0, NEW buf, NEW o, NEW in, NEW iv, NEW c, IsString(y0), IsText(buf, Block),
         c \in Nat
  PROVE  RunAt(y0, buf, c, y0, o, in, iv, c, 0)
<1>1. PICK f : f = KeptOf(o, in, iv, c)
  OBVIOUS
<1>2. Took(y0, y0, f, 0) /\ Whole(0) = 0 /\ 0 % Block = 0 /\ Used(0) = 0
  BY NothingTaken
<1>3. WholeAt(y0, buf, y0, f, 0)
  BY <1>2 DEF WholeAt, Buffered
<1>4. Leftover(buf, iv, c, 0)
  BY <1>2 DEF Leftover
<1>5. c = c + Used(0)
  BY <1>2
<1> QED
  BY <1>1, <1>3, <1>4, <1>5 DEF RunAt

LEMMA FilledBlocks ==
  ASSUME NEW f, NEW n, n \in Nat
  PROVE  IsString(Cut(Filled(Span(f, 0, n))))
<1>1. IsText(Span(f, 0, n), n)
  BY SpanText
<1>2. PICK u : IsText(Filled(Span(f, 0, n)), u)
  BY <1>1, FilledText
<1> QED
  BY <1>2, CutOf

LEMMA GcmFlips ==
  ASSUME NEW g, NEW f, NEW n, NEW o, NEW in, n \in Nat, GcmAad(g, f, n)
  PROVE  GcmRuns(br_gcm_flip(g), f, n, o, in, 0)
<1>1. PICK y, buf : g = GcmContext(2, y, n, 0, buf) /\ WholeAt(y, buf, <<>>, f, n)
  BY DEF GcmAad
<1>2. g.y = y /\ g.count_aad = n /\ g.buf = buf
  BY <1>1, GcmFields
<1>3. PICK p, y0 : p = n % Block /\ y0 = Cut(Filled(Span(f, 0, n)))
  OBVIOUS
<1>4. PICK z : z = IF p = 0 THEN y ELSE gh(y, First(buf, p))
  OBVIOUS
<1>5. Complete(z, <<>>, f, n)
  BY <1>1, <1>3, <1>4, CompleteGh
<1>6. z = y0 /\ IsString(y0)
  BY <1>3, <1>5, FilledBlocks, Empty DEF Complete
<1>7. br_gcm_flip(g) = IF p = 0 THEN g ELSE [g EXCEPT !.y = gh(y, First(buf, p))]
  BY <1>2, <1>3 DEF br_gcm_flip
<1>8. br_gcm_flip(g) = GcmContext(2, z, n, 0, buf)
  BY <1>1, <1>4, <1>7 DEF GcmContext
<1>9. IsText(buf, Block)
  BY <1>1 DEF WholeAt, Buffered
<1>10. RunAt(z, buf, 2, y0, o, in, "iv", 2, 0)
  BY <1>6, <1>9, RunBegins0
<1> QED
  BY <1>3, <1>8, <1>10 DEF GcmRuns

LEMMA GcmWithin ==
  ASSUME NEW g, NEW f, NEW n, NEW o, NEW in, NEW m, NEW k, NEW v, NEW p, k \in Nat,
         o \in BOOLEAN, GcmRuns(g, f, n, o, in, m), IsSum(v, m, k), p = m % Block, p # 0,
         k < Block - p
  PROVE  /\ GcmRuns(br_gcm_run(g, o, Span(in, m, k)).ctx, f, n, o, in, v)
         /\ br_gcm_run(g, o, Span(in, m, k)).out = Span(OutOf(in, "iv", 2), m, k)
<1>1. PICK jc, y, buf : /\ g = GcmContext(jc, y, n, m, buf)
                        /\ RunAt(y, buf, jc, Cut(Filled(Span(f, 0, n))), o, in, "iv", 2, m)
  BY DEF GcmRuns
<1>2. g.y = y /\ g.count_ctr = m /\ g.buf = buf /\ g.jc = jc
  BY <1>1, GcmFields
<1>3. PICK y0, out, kept : y0 = Cut(Filled(Span(f, 0, n))) /\ out = OutOf(in, "iv", 2)
                           /\ kept = KeptOf(o, in, "iv", 2)
  OBVIOUS
<1>4. m \in Nat /\ p \in Nat /\ p < Block /\ Block \in Nat
  BY <1>1, PlaceOfLength, BlockIs DEF RunAt
<1>5. PICK data : data = Span(in, m, k)
  OBVIOUS
<1>6. Len(data) = k /\ First(data, k) = data
  <2>1. IsText(data, k)
    BY <1>4, <1>5, SpanText
  <2>2. IsSum(k, k, 0) /\ k \in 0..k
    BY DEF IsSum
  <2>3. PICK b : IsSum(b, m, k)
    BY DEF IsSum
  <2>4. First(data, k) = data
    BY ONLY <1>4, <1>5, <2>2, <2>3, k \in Nat, 0 \in Nat, SpanPart
  <2> QED
    BY <2>1, <2>4 DEF IsText
<1>7. XorBytes(data, SubSeq(buf, p + 1, p + k)) = Span(out, m, k)
  <2>1. p + k <= Block /\ (p = 0 => k = 0)
    BY <1>4
  <2> QED
    BY <1>1, <1>3, <1>5, <2>1, LeftGiven
<1>8. PICK z, b : z = Span(out, m, k) /\ b = Put(buf, p, Span(kept, m, k))
  OBVIOUS
<1>9. Encrypted(o, data, z) = Span(kept, m, k)
  BY <1>3, <1>5, <1>8 DEF Encrypted, KeptOf
<1>10. RunAt(y, b, jc, y0, o, in, "iv", 2, v)
  BY <1>1, <1>3, <1>8, RunWithin
<1>11. br_gcm_run(g, o, data)
         = [ctx |-> [g EXCEPT !.buf = b, !.count_ctr = @ + k], out |-> z]
  <2>1. p + k < Block
    BY <1>4
  <2> QED
    BY <1>2, <1>6, <1>7, <1>8, <1>9, <2>1 DEF br_gcm_run
<1>12. PICK h, new : h = [g EXCEPT !.buf = b, !.count_ctr = @ + k] /\ new = m + k
  OBVIOUS
<1>14. h = [g EXCEPT !.buf = b, !.count_ctr = new]
  BY <1>2, <1>12
<1>15. GcmPut(h, g, b, new)
  BY <1>14 DEF GcmPut
<1>16. h = GcmContext(jc, y, n, new, b)
  BY <1>1, <1>15, GcmPutIs
<1>17. v = new
  BY <1>12 DEF IsSum
<1>13. br_gcm_run(g, o, data).ctx = GcmContext(jc, y, n, v, b) /\ br_gcm_run(g, o, data).out = z
  BY <1>11, <1>12, <1>16, <1>17
<1> QED
  BY <1>3, <1>5, <1>8, <1>10, <1>13 DEF GcmRuns

LEMMA SplitsExist ==
  ASSUME NEW n, NEW k, NEW p, NEW l, NEW v, n \in Nat, k \in Nat, p = n % Block,
         l = IF p = 0 THEN 0 ELSE Block - p, l <= k, IsSum(v, n, k)
  PROVE  \E a, r, d, b, x : Splits(n, k, p, l, a, r, d, b, x, v)
<1>1. PICK a, r : a = n + l /\ r = k - l
  OBVIOUS
<1>2. PICK d : d = Whole(r)
  OBVIOUS
<1>3. PICK b, x : b = a + d /\ x = r - d
  OBVIOUS
<1>4. v = n + k
  BY DEF IsSum
<1> QED
  BY <1>1, <1>2, <1>3, <1>4 DEF Splits

LEMMA GcmBeyond ==
  ASSUME NEW g, NEW f, NEW n, NEW o, NEW in, NEW m, NEW k, NEW v, NEW p, NEW l, k \in Nat,
         o \in BOOLEAN, GcmRuns(g, f, n, o, in, m), IsSum(v, m, k), p = m % Block,
         l = IF p = 0 THEN 0 ELSE Block - p, l <= k
  PROVE  /\ GcmRuns(br_gcm_run(g, o, Span(in, m, k)).ctx, f, n, o, in, v)
         /\ br_gcm_run(g, o, Span(in, m, k)).out = Span(OutOf(in, "iv", 2), m, k)
<1>1. PICK jc, y, buf : /\ g = GcmContext(jc, y, n, m, buf)
                        /\ RunAt(y, buf, jc, Cut(Filled(Span(f, 0, n))), o, in, "iv", 2, m)
  BY DEF GcmRuns
<1>2. g.y = y /\ g.count_ctr = m /\ g.buf = buf /\ g.jc = jc
  BY <1>1, GcmFields
<1>3. PICK y0, out, kept : y0 = Cut(Filled(Span(f, 0, n))) /\ out = OutOf(in, "iv", 2)
                           /\ kept = KeptOf(o, in, "iv", 2)
  OBVIOUS
<1>4. m \in Nat /\ p \in Nat /\ p < Block /\ Block \in Nat /\ 2 \in Nat
  BY <1>1, PlaceOfLength, BlockIs DEF RunAt
<1>5. PICK data : data = Span(in, m, k)
  OBVIOUS
<1>6. PICK a, r, d, b, x : Splits(m, k, p, l, a, r, d, b, x, v)
  BY <1>4, SplitsExist
<1>7. /\ l \in Nat /\ a \in Nat /\ r \in Nat /\ d \in Nat /\ b \in Nat /\ x \in Nat
      /\ p + l <= Block /\ (p = 0 => l = 0) /\ l \in 0..k /\ d \in 0..r
      /\ Aligned(a) /\ Aligned(d) /\ Aligned(b)
      /\ a \div Block = Used(m) /\ b \div Block = (a \div Block) + (d \div Block)
  BY <1>6, SplitFacts
<1>8. PartedRun(in, out, "iv", 2, m, k, l, r, d, a, b, x)
  BY <1>3, <1>4, <1>6, PartsOfRun
<1>9. PICK s1, s2, s3, t2, t3 : /\ s1 = Span(in, m, l) /\ s2 = Span(in, a, r)
                                /\ s3 = Span(in, a, d) /\ t2 = Span(in, b, x)
                                /\ t3 = KeyStream("iv", 2 + (b \div Block), Block)
  OBVIOUS
<1>10. PICK z, e, h : z = Span(out, m, l) /\ e = Span(out, a, d) /\ h = Span(out, b, x)
  OBVIOUS
<1>11. /\ First(data, l) = s1 /\ After(data, l) = s2 /\ First(s2, d) = s3 /\ After(s2, d) = t2
       /\ Len(data) = k /\ Len(s2) = r /\ Len(s3) = d /\ (x = 0 <=> t2 = <<>>)
       /\ (z \o e) \o h = Span(out, m, k)
  BY <1>5, <1>8, <1>9, <1>10 DEF PartedRun
<1>12. XorBytes(s1, SubSeq(buf, p + 1, p + l)) = z
  BY <1>1, <1>3, <1>7, <1>9, <1>10, LeftGiven
<1>13. PICK j, q : j = 2 + (b \div Block) /\ q = d \div Block
  OBVIOUS
<1>14. jc = 2 + (a \div Block)
  BY <1>1, <1>7 DEF RunAt
<1>15. j = jc + q
  BY <1>7, <1>13, <1>14, AlignedIs
<1>16. ctr("iv", jc, s3) = e /\ ctr("iv", j, t2) = h
  BY <1>8, <1>9, <1>10, <1>13, <1>14 DEF PartedRun
<1>17. d = Whole(r)
  BY <1>6 DEF Splits
<1>18. PICK kz, ke, kh : /\ kz = Span(kept, m, l) /\ ke = Span(kept, a, d)
                         /\ kh = Span(kept, b, x)
  OBVIOUS
<1>19. /\ Encrypted(o, s1, z) = kz /\ Encrypted(o, s3, e) = ke /\ Encrypted(o, t2, h) = kh
  BY <1>3, <1>9, <1>10, <1>18 DEF Encrypted, KeptOf
<1>20. PICK u : u = Put(buf, p, kz)
  OBVIOUS
<1>21. IsText(u, Block)
  <2>1. IsText(kz, l)
    BY <1>4, <1>7, <1>18, SpanText
  <2> QED
    BY <1>20, <2>1, PutText DEF PutAt
<1>22. PICK y1 : y1 = IF p = 0 THEN y ELSE mac(y, u)
  OBVIOUS
<1>23. (IF p = 0 THEN y ELSE gh(y, u)) = y1
  BY <1>21, <1>22, OneBlock, GhWhole
<1>24. gh(y1, ke) = mac(y1, ke)
  <2>1. IsText(ke, d)
    BY <1>7, <1>18, SpanText
  <2> QED
    BY <1>7, <2>1, GhWhole
<1>25. PICK y2, nj, nb : /\ y2 = mac(y1, ke) /\ nj = (IF x = 0 THEN j ELSE j + 1)
                         /\ nb = IF x = 0 THEN u ELSE Put(t3, 0, kh)
  OBVIOUS
<1>26. RunAt(y2, nb, nj, y0, o, in, "iv", 2, v)
  <2>1. y1 = IF p = 0 THEN y ELSE mac(y, Put(buf, p, Span(kept, m, l)))
    BY <1>18, <1>20, <1>22
  <2>2. RunAt(y, buf, jc, y0, o, in, "iv", 2, m)
    BY <1>1, <1>3
  <2>3. RunAt(mac(y1, Span(kept, a, d)),
              IF x = 0 THEN u ELSE Put(KeyStream("iv", 2 + (b \div Block), Block), 0, Span(kept, b, x)),
              IF x = 0 THEN 2 + (b \div Block) ELSE 2 + (b \div Block) + 1,
              y0, o, in, "iv", 2, v)
    BY ONLY <1>3, <1>6, <1>21, <2>1, <2>2, RunBeyond
  <2> QED
    BY <1>9, <1>13, <1>18, <1>25, <2>3
<1> DEFINE ptr == g.count_ctr % Block
           clen == IF ptr = 0 THEN 0
                   ELSE IF Len(data) < Block - ptr THEN Len(data) ELSE Block - ptr
           x1 == First(data, clen)
           z1 == XorBytes(x1, SubSeq(g.buf, ptr + 1, ptr + clen))
           buf1 == Put(g.buf, ptr, Encrypted(o, x1, z1))
           w1 == IF ptr = 0 THEN g.y ELSE gh(g.y, buf1)
           rest == After(data, clen)
           d1 == First(rest, Whole(Len(rest)))
           e1 == ctr("iv", g.jc, d1)
           j1 == g.jc + Len(d1) \div Block
           last == After(rest, Len(d1))
           h1 == ctr("iv", j1, last)
<1>27. br_gcm_run(g, o, data)
         = IF ptr # 0 /\ ptr + clen < Block
           THEN [ctx |-> [g EXCEPT !.buf = buf1, !.count_ctr = @ + clen], out |-> z1]
           ELSE [ctx |-> [g EXCEPT
                   !.y = gh(w1, Encrypted(o, d1, e1)),
                   !.jc = IF last = <<>> THEN j1 ELSE j1 + 1,
                   !.buf = IF last = <<>> THEN buf1
                           ELSE Put(KeyStream("iv", j1, Block), 0, Encrypted(o, last, h1)),
                   !.count_ctr = @ + Len(data)],
                 out |-> z1 \o e1 \o h1]
  BY DEF br_gcm_run
<1> HIDE DEF ptr, clen, x1, z1, buf1, w1, rest, d1, e1, j1, last, h1
<1>28. ptr = p /\ clen = l
  <2>1. ptr = p
    BY <1>2 DEF ptr
  <2> QED
    BY <1>4, <1>7, <1>11, <2>1 DEF clen
<1>29. /\ x1 = s1 /\ rest = s2 /\ z1 = z /\ buf1 = u
  <2>1. x1 = s1 /\ rest = s2
    BY <1>11, <1>28 DEF x1, rest
  <2>2. z1 = z
    BY <1>2, <1>12, <1>28, <2>1 DEF z1
  <2> QED
    BY <1>2, <1>19, <1>20, <1>28, <2>1, <2>2 DEF buf1
<1>35. w1 = y1 /\ d1 = s3 /\ e1 = e
  <2>1. w1 = y1
    BY <1>2, <1>23, <1>28, <1>29 DEF w1
  <2>2. d1 = s3
    BY <1>11, <1>17, <1>29 DEF d1
  <2> QED
    BY <1>2, <1>16, <2>1, <2>2 DEF e1
<1>36. j1 = j /\ last = t2 /\ h1 = h
  <2>1. j1 = j
    BY <1>2, <1>11, <1>13, <1>15, <1>35 DEF j1
  <2>2. last = t2
    BY <1>11, <1>29, <1>35 DEF last
  <2> QED
    BY <1>16, <2>1, <2>2 DEF h1
<1>37. ~(ptr # 0 /\ ptr + clen < Block)
  BY <1>4, <1>28
<1>38. /\ gh(w1, Encrypted(o, d1, e1)) = y2
       /\ (IF last = <<>> THEN j1 ELSE j1 + 1) = nj
       /\ (IF last = <<>> THEN buf1
           ELSE Put(KeyStream("iv", j1, Block), 0, Encrypted(o, last, h1))) = nb
  <2>1. KeyStream("iv", j, Block) = t3
    BY <1>9, <1>13
  <2> QED
    BY <1>11, <1>19, <1>24, <1>25, <1>29, <1>35, <1>36, <2>1
<1>39. br_gcm_run(g, o, data)
         = [ctx |-> [g EXCEPT !.y = y2, !.jc = nj, !.buf = nb, !.count_ctr = @ + k],
            out |-> z1 \o e1 \o h1]
  BY <1>11, <1>27, <1>37, <1>38
<1>30. PICK g2, new : /\ g2 = [g EXCEPT !.y = y2, !.jc = nj, !.buf = nb, !.count_ctr = @ + k]
                     /\ new = m + k
  OBVIOUS
<1>31. g2 = [g EXCEPT !.y = y2, !.jc = nj, !.buf = nb, !.count_ctr = new]
  BY <1>2, <1>30
<1>32. GcmRan(g2, g, y2, nj, nb, new)
  BY <1>31 DEF GcmRan
<1>33. g2 = GcmContext(nj, y2, n, new, nb) /\ v = new
  BY <1>1, <1>30, <1>32, GcmRanIs DEF IsSum
<1>34. /\ br_gcm_run(g, o, data).ctx = GcmContext(nj, y2, n, v, nb)
       /\ br_gcm_run(g, o, data).out = Span(out, m, k)
  BY <1>11, <1>29, <1>30, <1>33, <1>35, <1>36, <1>39
<1> QED
  BY <1>3, <1>5, <1>26, <1>34 DEF GcmRuns

\* br_gcm_run, whatever is left of a block and whatever is given.
LEMMA GcmRunsOn ==
  ASSUME NEW g, NEW f, NEW n, NEW o, NEW in, NEW m, NEW k, NEW v, k \in Nat,
         o \in BOOLEAN, GcmRuns(g, f, n, o, in, m), IsSum(v, m, k)
  PROVE  /\ GcmRuns(br_gcm_run(g, o, Span(in, m, k)).ctx, f, n, o, in, v)
         /\ br_gcm_run(g, o, Span(in, m, k)).out = Span(OutOf(in, "iv", 2), m, k)
<1>1. PICK p, l : p = m % Block /\ l = IF p = 0 THEN 0 ELSE Block - p
  OBVIOUS
<1>2. m \in Nat
  BY DEF GcmRuns, RunAt
<1>3. p \in Nat /\ p < Block /\ Block \in Nat
  BY <1>1, <1>2, PlaceOfLength, BlockIs
<1>4. CASE l <= k
  BY ONLY k \in Nat, o \in BOOLEAN, GcmRuns(g, f, n, o, in, m), IsSum(v, m, k), <1>1, <1>4,
          GcmBeyond
<1>5. CASE ~(l <= k)
  <2>1. p # 0 /\ k < Block - p
    BY <1>1, <1>3, <1>5
  <2> QED
    BY ONLY k \in Nat, o \in BOOLEAN, GcmRuns(g, f, n, o, in, m), IsSum(v, m, k), <1>1, <2>1,
            GcmWithin
<1> QED
  BY <1>4, <1>5

\* Texts filled with zeros to the end of a block, and a last block.
LEMMA CutFilled ==
  ASSUME NEW s, NEW t, NEW m, NEW n, NEW last, IsText(s, m), IsText(t, n), IsText(last, Block)
  PROVE  Cut((Filled(s) \o Filled(t)) \o last) = (Cut(Filled(s)) \o Cut(Filled(t))) \o Cut(last)
<1>1. PICK a, b : a = Filled(s) /\ b = Filled(t)
  OBVIOUS
<1>2. PICK u, v : IsText(a, u) /\ Aligned(u) /\ IsText(b, v) /\ Aligned(v)
  BY <1>1, FilledText
<1>3. Cut(a \o b) = Cut(a) \o Cut(b)
  BY <1>2, CutJoined
<1>4. IsText(a \o b, u + v)
  BY <1>2, JointText DEF Joint
<1>5. Aligned(u + v)
  BY <1>2, AlignedSum
<1>6. PICK j, w : j = a \o b /\ w = u + v
  OBVIOUS
<1>7. Cut(j \o last) = Cut(j) \o Cut(last)
  BY <1>4, <1>5, <1>6, CutJoined
<1> QED
  BY <1>1, <1>3, <1>6, <1>7

LEMMA GcmTags ==
  ASSUME NEW g, NEW f, NEW n, NEW o, NEW in, NEW m, n \in Nat, GcmRuns(g, f, n, o, in, m)
  PROVE  br_gcm_get_tag(g) = GcmTag(Span(f, 0, n), Span(KeptOf(o, in, "iv", 2), 0, m))
<1>1. PICK jc, y, buf : /\ g = GcmContext(jc, y, n, m, buf)
                        /\ RunAt(y, buf, jc, Cut(Filled(Span(f, 0, n))), o, in, "iv", 2, m)
  BY DEF GcmRuns
<1>2. g.y = y /\ g.count_ctr = m /\ g.buf = buf /\ g.count_aad = n
  BY <1>1, GcmFields
<1>3. PICK kept, s, t : /\ kept = KeptOf(o, in, "iv", 2) /\ s = Span(f, 0, n)
                        /\ t = Span(kept, 0, m)
  OBVIOUS
<1>4. m \in Nat /\ WholeAt(y, buf, Cut(Filled(s)), kept, m)
  BY <1>1, <1>3 DEF RunAt
<1>5. PICK p : p = m % Block
  OBVIOUS
<1>6. PICK z : z = IF p = 0 THEN y ELSE gh(y, First(buf, p))
  OBVIOUS
<1>7. Complete(z, Cut(Filled(s)), kept, m)
  BY <1>4, <1>5, <1>6, CompleteGh
<1>8. z = Cut(Filled(s)) \o Cut(Filled(t))
  BY <1>3, <1>7 DEF Complete
<1>9. PICK last : last = LengthBlock(n, m)
  OBVIOUS
<1>10. IsText(last, Block)
  <2>1. last = [i \in 1..Block |-> last[i]]
    BY <1>9 DEF LengthBlock
  <2> QED
    BY <2>1, BlockIs, StringOf DEF IsText
<1>11. gh(z, last) = z \o Cut(last)
  BY <1>10, OneBlock, GhWhole DEF mac
<1>12. IsText(s, n) /\ IsText(t, m)
  BY <1>3, <1>4, SpanText
<1>13. Cut((Filled(s) \o Filled(t)) \o last) = (Cut(Filled(s)) \o Cut(Filled(t))) \o Cut(last)
  BY <1>10, <1>12, CutFilled
<1>14. br_gcm_get_tag(g) = ctr("iv", 1, MacBytes(gh(z, last)))
  BY <1>2, <1>5, <1>6, <1>9 DEF br_gcm_get_tag
<1>15. Len(s) = n /\ Len(t) = m
  BY <1>12 DEF IsText
<1>16. GcmTag(s, t) = ctr("iv", 1, MacBytes(Cut((Filled(s) \o Filled(t)) \o last)))
  BY <1>9, <1>15 DEF GcmTag
<1> QED
  BY <1>3, <1>8, <1>11, <1>13, <1>14, <1>16

-----------------------------------------------------------------------------
(* CCM.                                                                      *)
CcmContext(y, now, buf, ptr) == [mac |-> y, ctr |-> now, buf |-> buf, ptr |-> ptr]

CcmAad(c, f, y0, n) ==
  \E y, buf : c = CcmContext(y, 1, buf, n % Block) /\ WholeAt(y, buf, y0, f, n)

LEMMA CcmFields ==
  ASSUME NEW c, NEW y, NEW now, NEW buf, NEW ptr, c = CcmContext(y, now, buf, ptr)
  PROVE  c.mac = y /\ c.ctr = now /\ c.buf = buf /\ c.ptr = ptr
BY DEF CcmContext

CcmPut(h, c, buf, ptr) == h = [c EXCEPT !.buf = buf, !.ptr = ptr]
CcmEnded(h, c, y, ptr) == h = [c EXCEPT !.mac = y, !.ptr = ptr]
CcmTook(h, c, y, buf, ptr) == h = [c EXCEPT !.mac = y, !.buf = buf, !.ptr = ptr]
CcmRan(h, c, y, now, buf, ptr) == h = [c EXCEPT !.mac = y, !.ctr = now, !.buf = buf, !.ptr = ptr]

LEMMA CcmPutIs ==
  ASSUME NEW c, NEW y, NEW now, NEW buf, NEW ptr, NEW h, NEW buf2, NEW ptr2,
         c = CcmContext(y, now, buf, ptr), CcmPut(h, c, buf2, ptr2)
  PROVE  h = CcmContext(y, now, buf2, ptr2)
<1>1. PICK d : d = [c EXCEPT !.buf = buf2]
  OBVIOUS
<1>2. d = CcmContext(y, now, buf2, ptr)
  BY <1>1 DEF CcmContext
<1>3. [d EXCEPT !.ptr = ptr2] = CcmContext(y, now, buf2, ptr2)
  BY <1>2 DEF CcmContext
<1>4. [[c EXCEPT !.buf = buf2] EXCEPT !.ptr = ptr2] = [c EXCEPT !.buf = buf2, !.ptr = ptr2]
  OBVIOUS
<1> QED
  BY <1>1, <1>3, <1>4 DEF CcmPut

LEMMA CcmEndedIs ==
  ASSUME NEW c, NEW y, NEW now, NEW buf, NEW ptr, NEW h, NEW y2, NEW ptr2,
         c = CcmContext(y, now, buf, ptr), CcmEnded(h, c, y2, ptr2)
  PROVE  h = CcmContext(y2, now, buf, ptr2)
<1>1. PICK d : d = [c EXCEPT !.mac = y2]
  OBVIOUS
<1>2. d = CcmContext(y2, now, buf, ptr)
  BY <1>1 DEF CcmContext
<1>3. [d EXCEPT !.ptr = ptr2] = CcmContext(y2, now, buf, ptr2)
  BY <1>2 DEF CcmContext
<1>4. [[c EXCEPT !.mac = y2] EXCEPT !.ptr = ptr2] = [c EXCEPT !.mac = y2, !.ptr = ptr2]
  OBVIOUS
<1> QED
  BY <1>1, <1>3, <1>4 DEF CcmEnded

LEMMA CcmTookIs ==
  ASSUME NEW c, NEW y, NEW now, NEW buf, NEW ptr, NEW h, NEW y2, NEW buf2, NEW ptr2,
         c = CcmContext(y, now, buf, ptr), CcmTook(h, c, y2, buf2, ptr2)
  PROVE  h = CcmContext(y2, now, buf2, ptr2)
<1>1. PICK d : d = [c EXCEPT !.mac = y2]
  OBVIOUS
<1>2. d = CcmContext(y2, now, buf, ptr)
  BY <1>1 DEF CcmContext
<1>3. PICK e : e = [d EXCEPT !.buf = buf2, !.ptr = ptr2]
  OBVIOUS
<1>4. CcmPut(e, d, buf2, ptr2)
  BY <1>3 DEF CcmPut
<1>5. e = CcmContext(y2, now, buf2, ptr2)
  BY <1>2, <1>4, CcmPutIs
<1>6. [[c EXCEPT !.mac = y2] EXCEPT !.buf = buf2, !.ptr = ptr2]
        = [c EXCEPT !.mac = y2, !.buf = buf2, !.ptr = ptr2]
  OBVIOUS
<1> QED
  BY <1>1, <1>3, <1>5, <1>6 DEF CcmTook

LEMMA CcmRanIs ==
  ASSUME NEW c, NEW y, NEW now, NEW buf, NEW ptr, NEW h, NEW y2, NEW now2, NEW buf2, NEW ptr2,
         c = CcmContext(y, now, buf, ptr), CcmRan(h, c, y2, now2, buf2, ptr2)
  PROVE  h = CcmContext(y2, now2, buf2, ptr2)
<1>1. PICK a, d : a = [c EXCEPT !.mac = y2] /\ d = [a EXCEPT !.ctr = now2]
  OBVIOUS
<1>2. a = CcmContext(y2, now, buf, ptr)
  BY <1>1 DEF CcmContext
<1>3. d = CcmContext(y2, now2, buf, ptr)
  BY <1>1, <1>2 DEF CcmContext
<1>4. PICK e : e = [d EXCEPT !.buf = buf2, !.ptr = ptr2]
  OBVIOUS
<1>5. CcmPut(e, d, buf2, ptr2)
  BY <1>4 DEF CcmPut
<1>6. e = CcmContext(y2, now2, buf2, ptr2)
  BY <1>3, <1>5, CcmPutIs
<1>7. [[[c EXCEPT !.mac = y2] EXCEPT !.ctr = now2] EXCEPT !.buf = buf2, !.ptr = ptr2]
        = [c EXCEPT !.mac = y2, !.ctr = now2, !.buf = buf2, !.ptr = ptr2]
  OBVIOUS
<1> QED
  BY <1>1, <1>4, <1>6, <1>7 DEF CcmRan

LEMMA PlaceMoves ==
  ASSUME NEW n, NEW k, NEW p, NEW v, NEW q, n \in Nat, k \in Nat, p = n % Block, k < Block - p,
         IsSum(v, n, k), IsSum(q, p, k)
  PROVE  v % Block = q
<1>1. PICK w : w = Whole(n)
  OBVIOUS
<1>2. /\ Aligned(w) /\ w \in Nat /\ p \in Nat /\ n = w + p /\ Block \in Nat
      /\ v = n + k /\ q = p + k
  BY <1>1, PlaceOfLength, BlockIs DEF IsSum
<1>3. q \in Nat /\ q < Block /\ v = w + q
  BY <1>2
<1>4. q % Block = q
  BY <1>3, Small
<1>5. v % Block = q % Block
  BY <1>2, <1>3, WholeAfter
<1> QED
  BY <1>4, <1>5

LEMMA CcmInjects ==
  ASSUME NEW c, NEW f, NEW y0, NEW n, NEW k, NEW v, n \in Nat, k \in Nat, CcmAad(c, f, y0, n),
         IsSum(v, n, k)
  PROVE  CcmAad(br_ccm_aad_inject(c, Span(f, n, k)), f, y0, v)
<1>1. PICK y, buf, p : /\ c = CcmContext(y, 1, buf, p) /\ WholeAt(y, buf, y0, f, n)
                       /\ p = n % Block
  BY DEF CcmAad
<1>2. c.mac = y /\ c.ptr = p /\ c.buf = buf
  BY <1>1, CcmFields
<1>3. PICK data : data = Span(f, n, k)
  OBVIOUS
<1>4. Len(data) = k
  BY <1>3, SpanText DEF IsText
<1>5. PICK l : l = IF p = 0 THEN 0 ELSE Block - p
  OBVIOUS
<1>6. p \in Nat /\ p < Block /\ Block \in Nat
  BY <1>1, PlaceOfLength, BlockIs
<1>7. CASE k < l
  <2>1. k < Block - p /\ l > k
    BY <1>5, <1>6, <1>7
  <2>2. WholeAt(y, Put(buf, p, data), y0, f, v)
    BY <1>1, <1>3, <2>1, InjectPart
  <2>3. PICK b, q : b = Put(buf, p, data) /\ q = p + k
    OBVIOUS
  <2>6. v % Block = q
    <3>1. IsSum(q, p, k)
      BY <2>3 DEF IsSum
    <3> QED
      BY <1>1, <2>1, <3>1, PlaceMoves
  <2>4. br_ccm_aad_inject(c, data) = [c EXCEPT !.buf = b, !.ptr = q]
    BY <1>2, <1>4, <1>5, <2>1, <2>3 DEF br_ccm_aad_inject
  <2>5. br_ccm_aad_inject(c, data) = CcmContext(y, 1, b, q)
    <3>1. PICK h : h = br_ccm_aad_inject(c, data)
      OBVIOUS
    <3>2. CcmPut(h, c, b, q)
      BY <2>4, <3>1 DEF CcmPut
    <3> QED
      BY <1>1, <3>1, <3>2, CcmPutIs
  <2> QED
    BY <1>3, <2>2, <2>3, <2>5, <2>6 DEF CcmAad
<1>8. CASE ~(k < l)
  <2>1. PICK r, y1 : /\ r = After(data, l)
                     /\ y1 = IF p = 0 THEN y ELSE mac(y, Put(buf, p, First(data, l)))
    OBVIOUS
  <2>2. PICK d : d = Whole(Len(r))
    OBVIOUS
  <2>3. l <= k /\ ~(l > k)
    BY <1>5, <1>6, <1>8
  <2>4. /\ WholeAt(mac(y1, First(r, d)), Put(buf, 0, After(r, d)), y0, f, v)
        /\ Len(r) - d = v % Block
    BY ONLY n \in Nat, k \in Nat, IsSum(v, n, k), <1>1, <1>3, <1>5, <2>1, <2>2, <2>3, InjectWhole
  <2>5. PICK y2, b, q : y2 = mac(y1, First(r, d)) /\ b = Put(buf, 0, After(r, d)) /\ q = Len(r) - d
    OBVIOUS
  <2>6. br_ccm_aad_inject(c, data) = [c EXCEPT !.mac = y2, !.buf = b, !.ptr = q]
    BY <1>2, <1>4, <1>5, <2>1, <2>2, <2>3, <2>5 DEF br_ccm_aad_inject
  <2>7. br_ccm_aad_inject(c, data) = CcmContext(y2, 1, b, q)
    <3>1. PICK h : h = br_ccm_aad_inject(c, data)
      OBVIOUS
    <3>2. CcmTook(h, c, y2, b, q)
      BY <2>6, <3>1 DEF CcmTook
    <3> QED
      BY <1>1, <3>1, <3>2, CcmTookIs
  <2> QED
    BY <1>3, <2>4, <2>5, <2>7 DEF CcmAad
<1> QED
  BY <1>7, <1>8

\* The context while data goes through it: m bytes so far. The MAC is that of the
\* plain text.
CcmRuns(c, y0, o, in, m) ==
  \E y, buf, now : /\ c = CcmContext(y, now, buf, m % Block)
                   /\ RunAt(y, buf, now, y0, o, in, "nonce", 1, m)

Other(o, e) == (o /\ ~e) \/ (~o /\ e)

LEMMA CcmFlips ==
  ASSUME NEW c, NEW f, NEW y0, NEW n, NEW o, NEW in, n \in Nat, CcmAad(c, f, y0, n)
  PROVE  CcmRuns(br_ccm_flip(c), y0 \o Cut(Filled(Span(f, 0, n))), o, in, 0)
<1>1. PICK y, buf, p : /\ c = CcmContext(y, 1, buf, p) /\ WholeAt(y, buf, y0, f, n)
                       /\ p = n % Block
  BY DEF CcmAad
<1>2. c.mac = y /\ c.ptr = p /\ c.buf = buf
  BY <1>1, CcmFields
<1>3. PICK z : z = IF p = 0 THEN y ELSE mac(y, Put(buf, p, Nulls(Block - p)))
  OBVIOUS
<1>4. Complete(z, y0, f, n)
  BY <1>1, <1>3, CompleteMac
<1>5. PICK z0 : z0 = y0 \o Cut(Filled(Span(f, 0, n)))
  OBVIOUS
<1>6. z = z0 /\ IsString(z0)
  <2>1. z = z0
    BY <1>4, <1>5 DEF Complete
  <2>2. IsString(y0)
    BY <1>1 DEF WholeAt, Took
  <2>3. PICK s : s = Cut(Filled(Span(f, 0, n)))
    OBVIOUS
  <2>4. IsString(s)
    BY <2>3, FilledBlocks
  <2>5. IsString(y0 \o s)
    BY <2>2, <2>4, Joined
  <2> QED
    BY <1>5, <2>1, <2>3, <2>5
<1>7. Completed(c) = z
  BY <1>2, <1>3 DEF Completed
<1>8. br_ccm_flip(c) = CcmContext(z, 1, buf, 0)
  <2>1. br_ccm_flip(c) = [c EXCEPT !.mac = z, !.ptr = 0]
    BY <1>7 DEF br_ccm_flip
  <2> QED
    <3>1. PICK h : h = br_ccm_flip(c)
      OBVIOUS
    <3>2. CcmEnded(h, c, z, 0)
      BY <2>1, <3>1 DEF CcmEnded
    <3> QED
      BY <1>1, <3>1, <3>2, CcmEndedIs
<1>9. IsText(buf, Block)
  BY <1>1 DEF WholeAt, Buffered
<1>10. RunAt(z0, buf, 1, z0, o, in, "nonce", 1, 0)
  BY <1>6, <1>9, RunBegins0
<1>11. 0 % Block = 0
  BY Small, BlockIs
<1> QED
  BY <1>5, <1>6, <1>8, <1>10, <1>11 DEF CcmRuns

LEMMA CcmWithin ==
  ASSUME NEW c, NEW y0, NEW o, NEW en, NEW in, NEW m, NEW k, NEW v, NEW p, k \in Nat,
         Other(o, en), CcmRuns(c, y0, o, in, m), IsSum(v, m, k), p = m % Block, p # 0,
         k < Block - p
  PROVE  /\ CcmRuns(br_ccm_run(c, en, Span(in, m, k)).ctx, y0, o, in, v)
         /\ br_ccm_run(c, en, Span(in, m, k)).out = Span(OutOf(in, "nonce", 1), m, k)
<1>1. PICK y, buf, now : /\ c = CcmContext(y, now, buf, p)
                         /\ RunAt(y, buf, now, y0, o, in, "nonce", 1, m)
  BY DEF CcmRuns
<1>2. c.mac = y /\ c.ptr = p /\ c.buf = buf /\ c.ctr = now
  BY <1>1, CcmFields
<1>3. PICK out, kept : out = OutOf(in, "nonce", 1) /\ kept = KeptOf(o, in, "nonce", 1)
  OBVIOUS
<1>4. m \in Nat /\ p \in Nat /\ p < Block /\ Block \in Nat
  BY <1>1, PlaceOfLength, BlockIs DEF RunAt
<1>5. PICK data : data = Span(in, m, k)
  OBVIOUS
<1>6. Len(data) = k /\ First(data, k) = data
  <2>1. IsText(data, k)
    BY <1>4, <1>5, SpanText
  <2>2. IsSum(k, k, 0) /\ k \in 0..k
    BY DEF IsSum
  <2>3. PICK b : IsSum(b, m, k)
    BY DEF IsSum
  <2>4. First(data, k) = data
    BY ONLY <1>4, <1>5, <2>2, <2>3, k \in Nat, 0 \in Nat, SpanPart
  <2> QED
    BY <2>1, <2>4 DEF IsText
<1>7. XorBytes(data, SubSeq(buf, p + 1, p + k)) = Span(out, m, k)
  <2>1. p + k <= Block /\ (p = 0 => k = 0)
    BY <1>4
  <2> QED
    BY <1>1, <1>3, <1>5, <2>1, LeftGiven
<1>8. PICK z, b, q : z = Span(out, m, k) /\ b = Put(buf, p, Span(kept, m, k)) /\ q = p + k
  OBVIOUS
<1>9. Decrypted(en, data, z) = Span(kept, m, k)
  BY <1>3, <1>5, <1>8 DEF Decrypted, KeptOf, Other
<1>10. RunAt(y, b, now, y0, o, in, "nonce", 1, v)
  BY <1>1, <1>3, <1>8, RunWithin
<1>15. v % Block = q
  <2>1. IsSum(q, p, k)
    BY <1>8 DEF IsSum
  <2> QED
    BY <1>4, <2>1, PlaceMoves
<1>11. br_ccm_run(c, en, data) = [ctx |-> [c EXCEPT !.buf = b, !.ptr = q], out |-> z]
  <2>1. p + k < Block /\ Block - p > k
    BY <1>4
  <2> QED
    BY <1>2, <1>6, <1>7, <1>8, <1>9, <2>1 DEF br_ccm_run
<1>12. PICK h : h = [c EXCEPT !.buf = b, !.ptr = q]
  OBVIOUS
<1>14. h = CcmContext(y, now, b, q)
  <2>1. CcmPut(h, c, b, q)
    BY <1>12 DEF CcmPut
  <2> QED
    BY <1>1, <2>1, CcmPutIs
<1>13. br_ccm_run(c, en, data).ctx = CcmContext(y, now, b, q) /\ br_ccm_run(c, en, data).out = z
  BY <1>11, <1>12, <1>14
<1> QED
  BY <1>3, <1>5, <1>8, <1>10, <1>13, <1>15 DEF CcmRuns

LEMMA CcmBeyond ==
  ASSUME NEW c, NEW y0, NEW o, NEW en, NEW in, NEW m, NEW k, NEW v, NEW p, NEW l, k \in Nat,
         Other(o, en), CcmRuns(c, y0, o, in, m), IsSum(v, m, k), p = m % Block,
         l = IF p = 0 THEN 0 ELSE Block - p, l <= k
  PROVE  /\ CcmRuns(br_ccm_run(c, en, Span(in, m, k)).ctx, y0, o, in, v)
         /\ br_ccm_run(c, en, Span(in, m, k)).out = Span(OutOf(in, "nonce", 1), m, k)
<1>1. PICK y, buf, now : /\ c = CcmContext(y, now, buf, p)
                         /\ RunAt(y, buf, now, y0, o, in, "nonce", 1, m)
  BY DEF CcmRuns
<1>2. c.mac = y /\ c.ptr = p /\ c.buf = buf /\ c.ctr = now
  BY <1>1, CcmFields
<1>3. PICK out, kept : out = OutOf(in, "nonce", 1) /\ kept = KeptOf(o, in, "nonce", 1)
  OBVIOUS
<1>4. m \in Nat /\ p \in Nat /\ p < Block /\ Block \in Nat /\ 1 \in Nat
  BY <1>1, PlaceOfLength, BlockIs DEF RunAt
<1>5. PICK data : data = Span(in, m, k)
  OBVIOUS
<1>6. PICK a, r, d, b, x : Splits(m, k, p, l, a, r, d, b, x, v)
  BY <1>4, SplitsExist
<1>7. /\ l \in Nat /\ a \in Nat /\ r \in Nat /\ d \in Nat /\ b \in Nat /\ x \in Nat
      /\ p + l <= Block /\ (p = 0 => l = 0) /\ l \in 0..k /\ d \in 0..r
      /\ Aligned(a) /\ Aligned(d) /\ Aligned(b) /\ v % Block = x
      /\ a \div Block = Used(m) /\ b \div Block = (a \div Block) + (d \div Block)
  BY <1>6, SplitFacts
<1>8. PartedRun(in, out, "nonce", 1, m, k, l, r, d, a, b, x)
  BY <1>3, <1>4, <1>6, PartsOfRun
<1>9. PICK s1, s2, s3, t2, t3 : /\ s1 = Span(in, m, l) /\ s2 = Span(in, a, r)
                                /\ s3 = Span(in, a, d) /\ t2 = Span(in, b, x)
                                /\ t3 = KeyStream("nonce", 1 + (b \div Block), Block)
  OBVIOUS
<1>10. PICK z, e, h : z = Span(out, m, l) /\ e = Span(out, a, d) /\ h = Span(out, b, x)
  OBVIOUS
<1>11. /\ First(data, l) = s1 /\ After(data, l) = s2 /\ First(s2, d) = s3 /\ After(s2, d) = t2
       /\ Len(data) = k /\ Len(s2) = r /\ Len(s3) = d /\ Len(t2) = x /\ (x = 0 <=> t2 = <<>>)
       /\ (z \o e) \o h = Span(out, m, k)
  BY <1>5, <1>8, <1>9, <1>10 DEF PartedRun
<1>12. XorBytes(s1, SubSeq(buf, p + 1, p + l)) = z
  BY <1>1, <1>3, <1>7, <1>9, <1>10, LeftGiven
<1>13. PICK j, q : j = 1 + (b \div Block) /\ q = d \div Block
  OBVIOUS
<1>14. now = 1 + (a \div Block)
  BY <1>1, <1>7 DEF RunAt
<1>15. j = now + q
  BY <1>7, <1>13, <1>14, AlignedIs
<1>16. ctr("nonce", now, s3) = e /\ ctr("nonce", j, t2) = h
  BY <1>8, <1>9, <1>10, <1>13, <1>14 DEF PartedRun
<1>17. d = Whole(r)
  BY <1>6 DEF Splits
<1>18. PICK kz, ke, kh : /\ kz = Span(kept, m, l) /\ ke = Span(kept, a, d)
                         /\ kh = Span(kept, b, x)
  OBVIOUS
<1>19. /\ Decrypted(en, s1, z) = kz /\ Decrypted(en, s3, e) = ke /\ Decrypted(en, t2, h) = kh
  BY <1>3, <1>9, <1>10, <1>18 DEF Decrypted, KeptOf, Other
<1>20. PICK u : u = Put(buf, p, kz)
  OBVIOUS
<1>21. IsText(u, Block)
  <2>1. IsText(kz, l)
    BY <1>4, <1>7, <1>18, SpanText
  <2> QED
    BY <1>20, <2>1, PutText DEF PutAt
<1>22. PICK y1 : y1 = IF p = 0 THEN y ELSE mac(y, u)
  OBVIOUS
<1>23. PICK y2, nj, nb : /\ y2 = mac(y1, ke) /\ nj = (IF x = 0 THEN j ELSE j + 1)
                         /\ nb = IF x = 0 THEN u ELSE Put(t3, 0, kh)
  OBVIOUS
<1>24. RunAt(y2, nb, nj, y0, o, in, "nonce", 1, v)
  <2>1. y1 = IF p = 0 THEN y ELSE mac(y, Put(buf, p, Span(kept, m, l)))
    BY <1>18, <1>20, <1>22
  <2>2. RunAt(mac(y1, Span(kept, a, d)),
              IF x = 0 THEN u ELSE Put(KeyStream("nonce", 1 + (b \div Block), Block), 0, Span(kept, b, x)),
              IF x = 0 THEN 1 + (b \div Block) ELSE 1 + (b \div Block) + 1,
              y0, o, in, "nonce", 1, v)
    BY ONLY <1>1, <1>3, <1>6, <1>21, <2>1, RunBeyond
  <2> QED
    BY <1>9, <1>13, <1>18, <1>23, <2>2
<1> DEFINE clen == IF c.ptr = 0 THEN 0
                   ELSE IF Block - c.ptr > Len(data) THEN Len(data) ELSE Block - c.ptr
           x1 == First(data, clen)
           z1 == XorBytes(x1, SubSeq(c.buf, c.ptr + 1, c.ptr + clen))
           buf1 == Put(c.buf, c.ptr, Decrypted(en, x1, z1))
           w1 == IF c.ptr = 0 THEN c.mac ELSE mac(c.mac, buf1)
           rest == After(data, clen)
           d1 == First(rest, Whole(Len(rest)))
           e1 == ctr("nonce", c.ctr, d1)
           j1 == c.ctr + Len(d1) \div Block
           last == After(rest, Len(d1))
           h1 == ctr("nonce", j1, last)
<1>25. br_ccm_run(c, en, data)
         = IF c.ptr # 0 /\ c.ptr + clen < Block
           THEN [ctx |-> [c EXCEPT !.buf = buf1, !.ptr = @ + clen], out |-> z1]
           ELSE [ctx |-> [c EXCEPT
                   !.mac = mac(w1, Decrypted(en, d1, e1)),
                   !.ctr = IF last = <<>> THEN j1 ELSE j1 + 1,
                   !.buf = IF last = <<>> THEN buf1
                           ELSE Put(KeyStream("nonce", j1, Block), 0, Decrypted(en, last, h1)),
                   !.ptr = Len(last)],
                 out |-> z1 \o e1 \o h1]
  BY DEF br_ccm_run
<1> HIDE DEF clen, x1, z1, buf1, w1, rest, d1, e1, j1, last, h1
<1>26. clen = l
  BY <1>2, <1>4, <1>7, <1>11 DEF clen
<1>30. /\ x1 = s1 /\ rest = s2 /\ z1 = z /\ buf1 = u
  <2>1. x1 = s1 /\ rest = s2
    BY <1>11, <1>26 DEF x1, rest
  <2>2. z1 = z
    BY <1>2, <1>12, <1>26, <2>1 DEF z1
  <2> QED
    BY <1>2, <1>19, <1>20, <1>26, <2>1, <2>2 DEF buf1
<1>31. w1 = y1 /\ d1 = s3 /\ e1 = e
  <2>1. w1 = y1
    BY <1>2, <1>22, <1>30 DEF w1
  <2>2. d1 = s3
    BY <1>11, <1>17, <1>30 DEF d1
  <2> QED
    BY <1>2, <1>16, <2>1, <2>2 DEF e1
<1>32. j1 = j /\ last = t2 /\ h1 = h
  <2>1. j1 = j
    BY <1>2, <1>11, <1>13, <1>15, <1>31 DEF j1
  <2>2. last = t2
    BY <1>11, <1>30, <1>31 DEF last
  <2> QED
    BY <1>16, <2>1, <2>2 DEF h1
<1>33. ~(c.ptr # 0 /\ c.ptr + clen < Block)
  BY <1>2, <1>4, <1>26, <1>7
<1>34. /\ mac(w1, Decrypted(en, d1, e1)) = y2
       /\ (IF last = <<>> THEN j1 ELSE j1 + 1) = nj
       /\ (IF last = <<>> THEN buf1
           ELSE Put(KeyStream("nonce", j1, Block), 0, Decrypted(en, last, h1))) = nb
       /\ Len(last) = x
  <2>1. KeyStream("nonce", j, Block) = t3
    BY <1>9, <1>13
  <2> QED
    BY <1>11, <1>19, <1>23, <1>30, <1>31, <1>32, <2>1
<1>27. br_ccm_run(c, en, data)
         = [ctx |-> [c EXCEPT !.mac = y2, !.ctr = nj, !.buf = nb, !.ptr = x],
            out |-> z1 \o e1 \o h1]
  BY <1>25, <1>33, <1>34
<1>28. PICK c2 : c2 = [c EXCEPT !.mac = y2, !.ctr = nj, !.buf = nb, !.ptr = x]
  OBVIOUS
<1>35. c2 = CcmContext(y2, nj, nb, x)
  <2>1. CcmRan(c2, c, y2, nj, nb, x)
    BY <1>28 DEF CcmRan
  <2> QED
    BY <1>1, <2>1, CcmRanIs
<1>29. /\ br_ccm_run(c, en, data).ctx = CcmContext(y2, nj, nb, x)
       /\ br_ccm_run(c, en, data).out = Span(out, m, k)
  BY <1>11, <1>27, <1>28, <1>30, <1>31, <1>32, <1>35
<1> QED
  BY <1>3, <1>5, <1>7, <1>24, <1>29 DEF CcmRuns

\* br_ccm_run, whatever is left of a block and whatever is given.
LEMMA CcmRunsOn ==
  ASSUME NEW c, NEW y0, NEW o, NEW en, NEW in, NEW m, NEW k, NEW v, k \in Nat,
         Other(o, en), CcmRuns(c, y0, o, in, m), IsSum(v, m, k)
  PROVE  /\ CcmRuns(br_ccm_run(c, en, Span(in, m, k)).ctx, y0, o, in, v)
         /\ br_ccm_run(c, en, Span(in, m, k)).out = Span(OutOf(in, "nonce", 1), m, k)
<1>1. PICK p, l : p = m % Block /\ l = IF p = 0 THEN 0 ELSE Block - p
  OBVIOUS
<1>2. m \in Nat
  BY DEF CcmRuns, RunAt
<1>3. p \in Nat /\ p < Block /\ Block \in Nat
  BY <1>1, <1>2, PlaceOfLength, BlockIs
<1>4. CASE l <= k
  BY ONLY k \in Nat, Other(o, en), CcmRuns(c, y0, o, in, m), IsSum(v, m, k), <1>1, <1>4,
          CcmBeyond
<1>5. CASE ~(l <= k)
  <2>1. p # 0 /\ k < Block - p
    BY <1>1, <1>3, <1>5
  <2> QED
    BY ONLY k \in Nat, Other(o, en), CcmRuns(c, y0, o, in, m), IsSum(v, m, k), <1>1, <2>1,
            CcmWithin
<1> QED
  BY <1>4, <1>5

LEMMA CcmSums ==
  ASSUME NEW c, NEW y0, NEW o, NEW in, NEW m, CcmRuns(c, y0, o, in, m)
  PROVE  br_ccm_get_tag(c)
           = ctr("nonce", 0, MacBytes(y0 \o Cut(Filled(Span(KeptOf(o, in, "nonce", 1), 0, m)))))
<1>1. PICK y, buf, now, p : /\ c = CcmContext(y, now, buf, p) /\ p = m % Block
                            /\ RunAt(y, buf, now, y0, o, in, "nonce", 1, m)
  BY DEF CcmRuns
<1>2. c.mac = y /\ c.ptr = p /\ c.buf = buf
  BY <1>1, CcmFields
<1>3. PICK kept : kept = KeptOf(o, in, "nonce", 1)
  OBVIOUS
<1>4. m \in Nat /\ WholeAt(y, buf, y0, kept, m)
  BY <1>1, <1>3 DEF RunAt
<1>5. PICK z : z = IF p = 0 THEN y ELSE mac(y, Put(buf, p, Nulls(Block - p)))
  OBVIOUS
<1>6. Complete(z, y0, kept, m)
  BY <1>1, <1>4, <1>5, CompleteMac
<1>7. Completed(c) = z
  BY <1>2, <1>5 DEF Completed
<1> QED
  BY <1>3, <1>6, <1>7 DEF br_ccm_get_tag, Complete

\* The first block, and two texts filled with zeros.
LEMMA CutFirst ==
  ASSUME NEW s, NEW t, NEW m, NEW n, NEW first, IsText(s, m), IsText(t, n), IsText(first, Block)
  PROVE  Cut((first \o Filled(s)) \o Filled(t)) = (Cut(first) \o Cut(Filled(s))) \o Cut(Filled(t))
<1>1. PICK a, b : a = Filled(s) /\ b = Filled(t)
  OBVIOUS
<1>2. PICK u, v : IsText(a, u) /\ Aligned(u) /\ IsText(b, v) /\ Aligned(v)
  BY <1>1, FilledText
<1>3. Cut(first \o a) = Cut(first) \o Cut(a)
  BY <1>2, OneBlock, CutJoined
<1>4. IsText(first \o a, Block + u)
  BY <1>2, JointText DEF Joint
<1>5. PICK j, w : j = first \o a /\ w = Block + u
  OBVIOUS
<1>6. Aligned(w)
  BY <1>2, <1>5, OneBlock, AlignedSum
<1>7. Cut(j \o b) = Cut(j) \o Cut(b)
  BY <1>2, <1>4, <1>5, <1>6, CutJoined
<1> QED
  BY <1>1, <1>3, <1>5, <1>7

-----------------------------------------------------------------------------
(* The data that goes in, as streams.                                        *)
Stream(name) == [i \in Nat |-> {<<name, i>>}]

LEMMA PieceSpan ==
  ASSUME NEW name, NEW n, NEW k, n \in Nat, k \in Nat
  PROVE  Piece(name, n, k) = Span(Stream(name), n, k)
<1>1. PICK s : s = Piece(name, n, k)
  OBVIOUS
<1>2. s = [i \in 1..k |-> {<<name, n + i>>}]
  BY <1>1 DEF Piece
<1>3. \A i \in 1..k : n + i \in Nat
  OBVIOUS
<1>4. \A i \in 1..k : s[i] = Stream(name)[n + i]
  BY <1>2, <1>3 DEF Stream
<1>5. s = [i \in 1..k |-> s[i]]
  BY <1>2
<1>6. IsText(s, k)
  BY <1>5, StringOf DEF IsText
<1>7. Shows(s, Stream(name), n, k)
  BY <1>4 DEF Shows
<1> QED
  BY <1>1, <1>6, <1>7, SpanSame

LEMMA TextSpan ==
  ASSUME NEW n, n \in Nat
  PROVE  Text(n) = Span(Stream("text"), 0, n) /\ Aad(n) = Span(Stream("aad"), 0, n)
BY PieceSpan DEF Text, Aad

\* What comes in is the text, or its cipher text.
InOf(e, iv, c) == IF e THEN Stream("text") ELSE OutOf(Stream("text"), iv, c)
ResultOf(e, iv, c) == IF e THEN OutOf(Stream("text"), iv, c) ELSE Stream("text")

LEMMA CipherSpan ==
  ASSUME NEW iv, NEW c, NEW n, c \in Nat, n \in Nat
  PROVE  ctr(iv, c, Text(n)) = Span(OutOf(Stream("text"), iv, c), 0, n)
<1>1. PICK f : f = Stream("text")
  OBVIOUS
<1>2. Text(n) = Span(f, 0, n)
  BY <1>1, TextSpan
<1>3. PICK w : w = 0 /\ Aligned(w) /\ w \div Block = 0
  BY OneBlock
<1>4. c = c + (w \div Block)
  BY <1>3
<1>5. ctr(iv, c, Span(f, w, n)) = Span(Mixed(f, KeyBytes(iv, c)), w, n)
  BY ONLY c \in Nat, n \in Nat, <1>3, <1>4, CtrSpan
<1> QED
  BY <1>1, <1>2, <1>3, <1>5 DEF OutOf

LEMMA InputSpan ==
  ASSUME NEW e, NEW iv, NEW c, NEW m, NEW k, NEW v, c \in Nat, m \in Nat, k \in Nat, IsSum(v, m, k)
  PROVE  After(IF e THEN Text(v) ELSE ctr(iv, c, Text(v)), m) = Span(InOf(e, iv, c), m, k)
<1>1. v \in Nat /\ m \in 0..v /\ IsSum(m, 0, m) /\ 0 \in Nat
  BY DEF IsSum
<1>2. PICK g : g = InOf(e, iv, c)
  OBVIOUS
<1>3. (IF e THEN Text(v) ELSE ctr(iv, c, Text(v))) = Span(g, 0, v)
  BY <1>1, <1>2, TextSpan, CipherSpan DEF InOf
<1>4. After(Span(g, 0, v), m) = Span(g, m, k)
  <2>1. PICK z : z = 0
    OBVIOUS
  <2>2. After(Span(g, z, v), m) = Span(g, m, k)
    BY ONLY <1>1, <2>1, m \in Nat, k \in Nat, IsSum(v, m, k), SpanPart
  <2> QED
    BY <2>1, <2>2
<1> QED
  BY <1>2, <1>3, <1>4

LEMMA OutputSpan ==
  ASSUME NEW e, NEW iv, NEW c, NEW m, NEW k, m \in Nat, k \in Nat
  PROVE  Span(OutOf(InOf(e, iv, c), iv, c), m, k) = Span(ResultOf(e, iv, c), m, k)
<1>1. CASE e
  BY <1>1 DEF InOf, ResultOf
<1>2. CASE ~e
  <2>1. PICK f, g : f = Stream("text") /\ g = KeyBytes(iv, c)
    OBVIOUS
  <2>2. Span(Mixed(Mixed(f, g), g), m, k) = Span(f, m, k)
    BY Back
  <2> QED
    BY <1>2, <2>1, <2>2 DEF InOf, ResultOf, OutOf
<1> QED
  BY <1>1, <1>2

\* What GCM and EAX take into their MAC is the cipher text, and CCM the text.
LEMMA KeptCipher ==
  ASSUME NEW e, NEW iv, NEW c
  PROVE  KeptOf(e, InOf(e, iv, c), iv, c) = OutOf(Stream("text"), iv, c)
BY DEF KeptOf, InOf

LEMMA KeptText ==
  ASSUME NEW o, NEW e, NEW iv, NEW c, NEW n, n \in Nat, Other(o, e)
  PROVE  Span(KeptOf(o, InOf(e, iv, c), iv, c), 0, n) = Span(Stream("text"), 0, n)
<1>1. CASE e
  BY <1>1 DEF InOf, KeptOf, Other
<1>2. CASE ~e
  <2>1. PICK f, g : f = Stream("text") /\ g = KeyBytes(iv, c)
    OBVIOUS
  <2>2. Span(Mixed(Mixed(f, g), g), 0, n) = Span(f, 0, n)
    BY Back
  <2> QED
    BY <1>2, <2>1, <2>2 DEF InOf, OutOf, KeptOf, Other
<1> QED
  BY <1>1, <1>2

-----------------------------------------------------------------------------
(* The additional data of CCM comes behind its own length.                   *)
HeaderLen(t) == IF t > 0 THEN 2 ELSE 0
CcmStream(t) ==
  [i \in Nat |-> IF i <= HeaderLen(t) THEN AadHeader(t)[i] ELSE {<<"aad", i - HeaderLen(t)>>}]

LEMMA HeaderText ==
  ASSUME NEW t, t \in Nat
  PROVE  IsText(AadHeader(t), HeaderLen(t)) /\ HeaderLen(t) \in Nat /\ HeaderLen(t) < Block
<1>1. Block \in Nat /\ Block > 2
  BY BlockIs
<1>2. CASE t > 0
  <2>1. PICK s : s = [i \in 1..2 |-> {<<"aad_len", t, i>>}]
    OBVIOUS
  <2>2. s = [i \in 1..2 |-> s[i]]
    BY <2>1
  <2>3. IsText(s, 2)
    BY <2>2, StringOf DEF IsText
  <2> QED
    BY <1>1, <1>2, <2>1, <2>3 DEF AadHeader, HeaderLen
<1>3. CASE ~(t > 0)
  BY <1>1, <1>3, Empty DEF AadHeader, HeaderLen, IsText
<1> QED
  BY <1>2, <1>3

LEMMA CcmPiece ==
  ASSUME NEW t, NEW h, NEW n, NEW k, NEW a, t \in Nat, n \in Nat, k \in Nat, h = HeaderLen(t),
         IsSum(a, h, n)
  PROVE  Piece("aad", n, k) = Span(CcmStream(t), a, k)
<1>1. PICK s : s = Piece("aad", n, k)
  OBVIOUS
<1>2. s = [i \in 1..k |-> {<<"aad", n + i>>}]
  BY <1>1 DEF Piece
<1>3. h \in Nat /\ a \in Nat /\ a = h + n
  BY HeaderText DEF IsSum
<1>4. ASSUME NEW i \in 1..k
      PROVE  s[i] = CcmStream(t)[a + i]
  <2>1. PICK j \in Nat : j = a + i /\ j - h = n + i /\ ~(j <= h)
    <3>1. a + i \in Nat /\ (a + i) - h = n + i /\ ~(a + i <= h)
      BY <1>3
    <3> QED
      BY <3>1
  <2>2. CcmStream(t)[j] = IF j <= HeaderLen(t) THEN AadHeader(t)[j] ELSE {<<"aad", j - HeaderLen(t)>>}
    BY DEF CcmStream
  <2>3. CcmStream(t)[j] = {<<"aad", n + i>>}
    BY <2>1, <2>2
  <2> QED
    BY <1>2, <2>1, <2>3
<1>5. s = [i \in 1..k |-> s[i]]
  BY <1>2
<1>6. IsText(s, k)
  BY <1>5, StringOf DEF IsText
<1>7. Shows(s, CcmStream(t), a, k)
  BY <1>4 DEF Shows
<1> QED
  BY <1>1, <1>3, <1>6, <1>7, SpanSame

LEMMA CcmHeader ==
  ASSUME NEW t, NEW h, t \in Nat, h = HeaderLen(t)
  PROVE  AadHeader(t) = Span(CcmStream(t), 0, h)
<1>1. PICK s : s = AadHeader(t)
  OBVIOUS
<1>2. IsText(s, h) /\ h \in Nat
  BY <1>1, HeaderText
<1>3. ASSUME NEW i \in 1..h
      PROVE  s[i] = CcmStream(t)[0 + i]
  <2>1. i \in Nat /\ 0 + i = i /\ i <= HeaderLen(t)
    BY <1>2
  <2> QED
    BY <1>1, <2>1 DEF CcmStream
<1>4. Shows(s, CcmStream(t), 0, h)
  BY <1>3 DEF Shows
<1> QED
  BY <1>1, <1>2, <1>4, SpanSame

LEMMA CcmAadText ==
  ASSUME NEW t, NEW h, NEW n, NEW a, t \in Nat, n \in Nat, h = HeaderLen(t), IsSum(a, h, n)
  PROVE  IsJoin(Span(CcmStream(t), 0, a), AadHeader(t), Aad(n))
<1>1. h \in Nat /\ IsSum(h, h, 0) /\ 0 \in Nat /\ IsSum(h, 0, h)
  BY HeaderText DEF IsSum
<1>2. PICK f : f = CcmStream(t)
  OBVIOUS
<1>3. Piece("aad", 0, n) = Span(f, h, n)
  BY <1>1, <1>2, CcmPiece
<1>4. IsJoin(Span(f, 0, a), Span(f, 0, h), Span(f, h, n))
  BY <1>1, HeadJoined
<1> QED
  BY <1>2, <1>3, <1>4, CcmHeader DEF Aad

LEMMA FirstBlockText ==
  ASSUME NEW t, NEW d
  PROVE  IsText(FirstBlock(t, d), Block)
<1>1. PICK s : s = FirstBlock(t, d)
  OBVIOUS
<1>2. s = [i \in 1..Block |-> s[i]]
  BY <1>1, Zenon DEF FirstBlock
<1> QED
  BY <1>1, <1>2, BlockIs, StringOf DEF IsText

LEMMA CcmBegins ==
  ASSUME NEW t, NEW d, t \in Nat
  PROVE  CcmAad(br_ccm_reset(t, d), CcmStream(t), Cut(FirstBlock(t, d)), HeaderLen(t))
<1>1. PICK h, s, first, f : /\ h = HeaderLen(t) /\ s = AadHeader(t) /\ first = FirstBlock(t, d)
                            /\ f = CcmStream(t)
  OBVIOUS
<1>2. IsText(s, h) /\ h \in Nat /\ h < Block
  BY <1>1, HeaderText
<1>3. IsText(first, Block)
  BY <1>1, FirstBlockText
<1>4. PICK y0, buf : y0 = Cut(first) /\ buf = Put(Nulls(Block), 0, s)
  OBVIOUS
<1>5. IsString(y0)
  BY <1>3, <1>4, CutOf
<1>6. mac(<<>>, first) = y0
  BY <1>4, <1>5, Empty DEF mac
<1>7. h % Block = h /\ Whole(h) = 0
  BY <1>2, Small
<1>8. Took(y0, y0, f, 0)
  BY <1>5, NothingTaken
<1>9. PutAt(buf, Nulls(Block), 0, s, h)
  BY <1>2, <1>4, PutText
<1>10. \A i \in 1..h : s[i] = f[0 + i]
  BY <1>1, <1>2, CcmHeader, SpanText
<1>11. \A i \in 1..h : buf[i] = f[0 + i]
  <2>1. \A i \in 1..h : i \in 1..Block /\ i \in (0 + 1)..(0 + h) /\ i - 0 = i
    BY <1>2, BlockIs
  <2> QED
    BY <1>9, <1>10, <2>1 DEF PutAt
<1>12. IsText(buf, Block)
  BY <1>9 DEF PutAt
<1>13. WholeAt(y0, buf, y0, f, h)
  BY <1>7, <1>8, <1>11, <1>12 DEF WholeAt, Buffered
<1>14. br_ccm_reset(t, d) = CcmContext(y0, 1, buf, h)
  <2>1. Len(s) = h
    BY <1>2 DEF IsText
  <2> QED
    BY <1>1, <1>4, <1>6, <2>1 DEF br_ccm_reset, CcmContext
<1> QED
  BY <1>1, <1>4, <1>7, <1>13, <1>14 DEF CcmAad

\* The tag of CCM, once all that was announced has gone through.
LEMMA CcmTags ==
  ASSUME NEW c, NEW t, NEW d, NEW h, NEW o, NEW e, NEW u, t \in Nat, d \in Nat, Other(o, e),
         h = HeaderLen(t), IsSum(u, h, t),
         CcmRuns(c, Cut(FirstBlock(t, d)) \o Cut(Filled(Span(CcmStream(t), 0, u))), o,
                 InOf(e, "nonce", 1), d)
  PROVE  br_ccm_get_tag(c) = CcmTag(Aad(t), Text(d))
<1>1. PICK first, s, y0, in : /\ first = FirstBlock(t, d) /\ s = Span(CcmStream(t), 0, u)
                              /\ y0 = Cut(first) \o Cut(Filled(s)) /\ in = InOf(e, "nonce", 1)
  OBVIOUS
<1>2. br_ccm_get_tag(c) = ctr("nonce", 0, MacBytes(y0 \o Cut(Filled(Span(KeptOf(o, in, "nonce", 1), 0, d)))))
  BY <1>1, CcmSums
<1>3. PICK plain : plain = Text(d)
  OBVIOUS
<1>4. Span(KeptOf(o, in, "nonce", 1), 0, d) = plain /\ IsText(plain, d)
  BY <1>1, <1>3, KeptText, TextSpan, SpanText
<1>5. s = AadHeader(t) \o Aad(t)
  BY <1>1, CcmAadText DEF IsJoin
<1>6. IsText(s, u)
  BY <1>1, HeaderText, SpanText DEF IsSum
<1>7. IsText(first, Block)
  BY <1>1, FirstBlockText
<1>8. Cut((first \o Filled(s)) \o Filled(plain)) = (Cut(first) \o Cut(Filled(s))) \o Cut(Filled(plain))
  BY <1>4, <1>6, <1>7, CutFirst
<1>9. PICK aad : aad = Aad(t)
  OBVIOUS
<1>10. Len(aad) = t /\ Len(plain) = d
  BY <1>4, <1>9, TextSpan, SpanText DEF IsText
<1>11. CcmTag(aad, plain)
         = ctr("nonce", 0, MacBytes(Cut((first \o Filled(s)) \o Filled(plain))))
  BY <1>1, <1>5, <1>9, <1>10 DEF CcmTag
<1> QED
  BY <1>1, <1>2, <1>3, <1>4, <1>8, <1>9, <1>11

-----------------------------------------------------------------------------
(* OMAC: the last block waits until more follows.                            *)
Before(n) == n - (IF n % Block = 0 THEN Block ELSE n % Block)

LEMMA BeforeAs ==
  ASSUME NEW n, NEW w, NEW p, Aligned(w), p \in 1..Block, IsSum(n, w, p)
  PROVE  Before(n) = w /\ n \in Nat \ {0} /\ Used(n) = (w \div Block) + 1
<1>1. w \in Nat /\ w \div Block \in Nat /\ Block \in Nat /\ n = w + p /\ p \in Nat
  BY AlignedIs, BlockIs DEF IsSum
<1>2. n % Block = p % Block /\ n \div Block = (w \div Block) + (p \div Block)
  BY <1>1, WholeAfter
<1>3. CASE p = Block
  <2>1. p % Block = 0 /\ p \div Block = 1
    BY <1>3, OneBlock, AlignedIs
  <2>2. n % Block = 0 /\ n \div Block = (w \div Block) + 1
    BY <1>2, <2>1
  <2> QED
    BY <1>1, <1>3, <2>2 DEF Before, Used
<1>4. CASE p # Block
  <2>1. p % Block = p /\ p \div Block = 0
    BY <1>1, <1>4, Small
  <2>2. n % Block = p /\ n \div Block = (w \div Block) + 0 /\ p # 0
    BY <1>2, <2>1
  <2> QED
    BY <1>1, <2>2 DEF Before, Used
<1> QED
  BY <1>3, <1>4

LEMMA BeforeIs ==
  ASSUME NEW n, n \in Nat \ {0}
  PROVE  \E w, p : /\ Aligned(w) /\ p \in 1..Block /\ IsSum(n, w, p)
                   /\ w = Before(n) /\ w \in Nat /\ p = n - w
<1>1. PICK v, r : v = Whole(n) /\ r = n % Block
  OBVIOUS
<1>2. Aligned(v) /\ v \in Nat /\ r \in Nat /\ r < Block /\ n = v + r /\ Block \in Nat
  BY <1>1, PlaceOfLength, BlockIs DEF IsSum
<1>3. CASE r # 0
  <2>1. r \in 1..Block /\ IsSum(n, v, r) /\ r = n - v
    BY <1>2, <1>3 DEF IsSum
  <2>2. v = Before(n)
    BY <1>1, <1>2, <1>3 DEF Before
  <2> QED
    BY <1>2, <2>1, <2>2
<1>4. CASE r = 0
  <2>1. n = v /\ n # 0
    BY <1>2, <1>4
  <2>2. PICK q \in Nat : n = Block * q
    BY <1>2, <2>1 DEF Aligned
  <2>3. q # 0
    BY <1>2, <2>1, <2>2
  <2>4. PICK j \in Nat : q = j + 1
    <3>1. q - 1 \in Nat /\ q = (q - 1) + 1
      BY <2>3
    <3> QED
      BY <3>1
  <2>5. PICK w : w = Block * j
    OBVIOUS
  <2>6. Block * (j + 1) = Block * j + Block /\ Block * j \in Nat
    BY <1>2
  <2>7. w \in Nat /\ n = w + Block
    BY <2>2, <2>4, <2>5, <2>6
  <2>8. Aligned(w)
    BY <2>5 DEF Aligned
  <2>9. Block \in 1..Block /\ IsSum(n, w, Block) /\ Block = n - w /\ w = n - Block
    BY <1>2, <2>7, BlockIs DEF IsSum
  <2>10. w = Before(n)
    BY <1>1, <1>4, <2>9 DEF Before
  <2> QED
    BY <2>7, <2>8, <2>9, <2>10
<1> QED
  BY <1>3, <1>4

\* The last p bytes of n wait in the buffer, from w on.
Holding(buf, f, w, p) == IsText(buf, Block) /\ \A i \in 1..p : buf[i] = f[w + i]
Waits(y, buf, p, y0, f, n) ==
  \E w : /\ Aligned(w) /\ p \in 1..Block /\ IsSum(n, w, p)
         /\ Took(y, y0, f, w) /\ Holding(buf, f, w, p)

LEMMA HeldBlock ==
  ASSUME NEW buf, NEW f, NEW w, w \in Nat, Holding(buf, f, w, Block)
  PROVE  buf = Span(f, w, Block)
<1>1. IsText(buf, Block) /\ Shows(buf, f, w, Block) /\ Block \in Nat
  BY BlockIs DEF Holding, Shows
<1> QED
  BY <1>1, SpanSame

\* The block that waited is complete, and more follows.
LEMMA WaitedTakes ==
  ASSUME NEW y, NEW buf, NEW y0, NEW f, NEW n, Waits(y, buf, Block, y0, f, n)
  PROVE  Took(mac(y, buf), y0, f, n)
<1>1. PICK w : Aligned(w) /\ IsSum(n, w, Block) /\ Took(y, y0, f, w) /\ Holding(buf, f, w, Block)
  BY DEF Waits
<1>2. buf = Span(f, w, Block)
  BY <1>1, AlignedIs, HeldBlock
<1>3. Took(mac(y, Span(f, w, Block)), y0, f, n)
  BY <1>1, OneBlock, TakesMore
<1> QED
  BY <1>2, <1>3

\* Whole blocks, and then what waits, over anything.
LEMMA WaitsThen ==
  ASSUME NEW y, NEW y0, NEW f, NEW a, NEW d, NEW b, NEW x, NEW v, NEW any,
         Took(y, y0, f, a), Aligned(d), IsSum(b, a, d), x \in 1..Block, IsSum(v, b, x)
  PROVE  Waits(mac(y, Span(f, a, d)), Put(any, 0, Span(f, b, x)), x, y0, f, v)
<1>1. Took(mac(y, Span(f, a, d)), y0, f, b)
  BY TakesMore
<1>2. Aligned(b)
  BY <1>1 DEF Took
<1>3. b \in Nat /\ x \in Nat /\ x <= Block /\ Block \in Nat
  BY <1>2, AlignedIs, BlockIs
<1>4. PICK s, u : s = Span(f, b, x) /\ u = Put(any, 0, s)
  OBVIOUS
<1>5. IsText(s, x) /\ \A i \in 1..x : s[i] = f[b + i]
  BY <1>3, <1>4, SpanText
<1>6. PutAt(u, any, 0, s, x)
  BY <1>4, <1>5, PutText
<1>7. \A i \in 1..x : u[i] = f[b + i]
  <2>1. \A i \in 1..x : i \in 1..Block /\ i \in (0 + 1)..(0 + x) /\ i - 0 = i
    BY <1>3
  <2> QED
    BY <1>5, <1>6, <2>1 DEF PutAt
<1>8. Holding(u, f, b, x)
  BY <1>6, <1>7 DEF Holding, PutAt
<1> QED
  BY <1>1, <1>2, <1>4, <1>8 DEF Waits

\* More for the block that waits and is not complete.
LEMMA WaitsMore ==
  ASSUME NEW y, NEW buf, NEW p, NEW y0, NEW f, NEW n, NEW k, NEW v, NEW q,
         Waits(y, buf, p, y0, f, n), k \in Nat, IsSum(q, p, k), q <= Block, IsSum(v, n, k)
  PROVE  Waits(y, Put(buf, p, Span(f, n, k)), q, y0, f, v)
<1>1. PICK w : /\ Aligned(w) /\ p \in 1..Block /\ IsSum(n, w, p)
               /\ Took(y, y0, f, w) /\ Holding(buf, f, w, p)
  BY DEF Waits
<1>2. w \in Nat /\ p \in Nat /\ Block \in Nat /\ n = w + p /\ n \in Nat /\ q = p + k /\ v = n + k
  BY <1>1, AlignedIs, BlockIs DEF IsSum
<1>3. PICK s, u : s = Span(f, n, k) /\ u = Put(buf, p, s)
  OBVIOUS
<1>4. IsText(s, k) /\ \A i \in 1..k : s[i] = f[n + i]
  BY <1>2, <1>3, SpanText
<1>5. PutAt(u, buf, p, s, k)
  BY <1>3, <1>4, PutText
<1>6. ASSUME NEW i \in 1..q
      PROVE  u[i] = f[w + i]
  <2>1. i \in 1..Block
    BY <1>2
  <2>2. CASE i \in 1..p
    <3>1. i \notin (p + 1)..(p + k)
      BY <1>2, <2>2
    <3> QED
      BY <1>1, <1>5, <2>1, <2>2, <3>1 DEF PutAt, Holding
  <2>3. CASE i \notin 1..p
    <3>1. i \in (p + 1)..(p + k)
      BY <1>2, <2>3
    <3>2. PICK j \in 1..k : j = i - p /\ n + j = w + i
      <4>1. i - p \in 1..k /\ n + (i - p) = w + i
        BY <1>2, <3>1
      <4> QED
        BY <4>1
    <3> QED
      BY <1>4, <1>5, <2>1, <3>1, <3>2 DEF PutAt
  <2> QED
    BY <2>2, <2>3
<1>7. Holding(u, f, w, q)
  BY <1>5, <1>6 DEF Holding, PutAt
<1>8. q \in 1..Block /\ IsSum(v, w, q)
  BY <1>1, <1>2 DEF IsSum
<1> QED
  BY <1>1, <1>3, <1>7, <1>8 DEF Waits

-----------------------------------------------------------------------------
(* A MAC begun with a block of its number t: that block waits as well, unless *)
(* the state was captured.                                                   *)
OmacAt(y, buf, p, t, f, n) ==
  /\ n \in Nat /\ IsText(buf, Block)
  /\ \/ n = 0 /\ p = Block /\ y = <<>> /\ buf = NumberBlock(t)
     \/ n = 0 /\ p = 0 /\ y = <<NumberBlock(t)>>
     \/ n # 0 /\ Waits(y, buf, p, <<NumberBlock(t)>>, f, n)

LEMMA NumberText ==
  ASSUME NEW t
  PROVE  IsText(NumberBlock(t), Block) /\ Cut(NumberBlock(t)) = <<NumberBlock(t)>>
<1>1. PICK n, s, e : n = Block - 1 /\ s = Nulls(n) /\ e = {<<"omac", t>>}
  OBVIOUS
<1>2. n \in Nat /\ n + 1 = Block /\ Block \in Nat
  BY <1>1, BlockIs
<1>3. IsText(s, n)
  BY <1>1, <1>2, NullsText
<1>4. NumberBlock(t) = s \o <<e>>
  BY <1>1, <1>3, Appended DEF NumberBlock, IsText
<1>5. IsText(<<e>>, 1)
  BY Single DEF IsText
<1>6. IsText(s \o <<e>>, n + 1)
  BY <1>3, <1>5, JointText DEF Joint
<1>7. IsText(NumberBlock(t), Block)
  BY <1>2, <1>4, <1>6
<1> QED
  BY <1>7, CutBlock

\* Nothing waits that is not complete: what was given has been taken, with the
\* block that waits.
LEMMA OmacTakes ==
  ASSUME NEW y, NEW buf, NEW p, NEW t, NEW f, NEW n, NEW y1, OmacAt(y, buf, p, t, f, n),
         p = 0 \/ p = Block, y1 = IF p = 0 THEN y ELSE mac(y, buf)
  PROVE  Took(y1, <<NumberBlock(t)>>, f, n) /\ Aligned(n) /\ (p = 0 => n = 0)
<1>1. PICK nb : nb = NumberBlock(t)
  OBVIOUS
<1>2. IsText(nb, Block) /\ Cut(nb) = <<nb>> /\ IsString(<<nb>>)
  BY <1>1, NumberText, Single
<1>3. Took(<<nb>>, <<nb>>, f, 0)
  BY <1>2, NothingTaken
<1>4. Block # 0 /\ Block \in Nat
  BY BlockIs
<1>5. CASE n = 0 /\ p = Block /\ y = <<>> /\ buf = nb
  <2>1. mac(<<>>, nb) = <<nb>>
    BY <1>2, Empty DEF mac
  <2>2. y1 = <<nb>>
    BY <1>4, <1>5, <2>1
  <2> QED
    BY <1>1, <1>3, <1>5, <2>2, OneBlock
<1>6. CASE n = 0 /\ p = 0 /\ y = <<nb>>
  BY <1>1, <1>3, <1>6, OneBlock
<1>7. CASE n # 0 /\ Waits(y, buf, p, <<nb>>, f, n)
  <2>1. p # 0 /\ p = Block
    BY <1>4, <1>7 DEF Waits
  <2>2. Took(mac(y, buf), <<nb>>, f, n)
    BY <1>7, <2>1, WaitedTakes
  <2>3. Aligned(n)
    BY <2>2 DEF Took
  <2> QED
    BY <1>1, <2>1, <2>2, <2>3
<1> QED
  BY <1>1, <1>5, <1>6, <1>7 DEF OmacAt

\* The padding of the last block looks at no more of the buffer than what was put there.
Alike(buf, s, p) == \A i \in 1..p : buf[i] = s[i]

LEMMA MaskedText ==
  ASSUME NEW buf, NEW key, IsText(buf, Block)
  PROVE  IsText(Masked(buf, key), Block)
<1>1. PICK s, t : s = XorBytes(buf, t) /\ t = Piece(key, 0, Block)
  OBVIOUS
<1>2. Len(buf) = Block
  BY DEF IsText
<1>3. s = [i \in 1..Block |-> s[i]]
  BY <1>1, <1>2 DEF XorBytes
<1>4. IsText(s, Block)
  BY <1>3, BlockIs, StringOf DEF IsText
<1> QED
  BY <1>1, <1>4 DEF Masked

LEMMA PaddedSame ==
  ASSUME NEW buf, NEW s, NEW p, IsText(buf, Block), IsText(s, Block), p \in 1..Block, p # Block,
         Alike(buf, s, p)
  PROVE  /\ Put(buf, p, <<{<<"80", 0>>}>> \o Nulls(Block - p - 1))
              = Put(s, p, <<{<<"80", 0>>}>> \o Nulls(Block - p - 1))
         /\ IsText(Put(s, p, <<{<<"80", 0>>}>> \o Nulls(Block - p - 1)), Block)
<1>1. PICK e, m, pad : /\ e = {<<"80", 0>>} /\ m = Block - p - 1 /\ pad = <<e>> \o Nulls(m)
  OBVIOUS
<1>2. Block \in Nat /\ p \in Nat /\ m \in Nat /\ p + (1 + m) = Block
  BY <1>1, BlockIs
<1>3. IsText(<<e>>, 1)
  BY Single DEF IsText
<1>4. IsText(Nulls(m), m)
  BY <1>2, NullsText
<1>5. IsText(pad, 1 + m)
  BY <1>1, <1>3, <1>4, JointText DEF Joint
<1>6. PICK u, v, k : u = Put(buf, p, pad) /\ v = Put(s, p, pad) /\ k = 1 + m
  OBVIOUS
<1>7. PutAt(u, buf, p, pad, k) /\ PutAt(v, s, p, pad, k)
  BY <1>5, <1>6, PutText
<1>8. p + k = Block
  BY <1>2, <1>6
<1>9. ASSUME NEW i \in 1..Block
      PROVE  u[i] = v[i]
  <2>1. CASE i \in 1..p
    <3>1. i \notin (p + 1)..(p + k)
      BY <1>2, <1>8, <2>1
    <3> QED
      BY <1>7, <2>1, <3>1 DEF PutAt, Alike
  <2>2. CASE i \notin 1..p
    <3>1. i \in (p + 1)..(p + k)
      BY <1>2, <1>8, <2>2
    <3> QED
      BY <1>7, <3>1 DEF PutAt
  <2> QED
    BY <2>1, <2>2
<1>10. u = v /\ IsText(v, Block)
  BY <1>7, <1>9, SameText DEF PutAt
<1> QED
  BY <1>1, <1>6, <1>10

LEMMA LastBlockIs ==
  ASSUME NEW buf, NEW s, NEW p, IsText(buf, Block), IsText(s, Block), p \in 1..Block,
         Alike(buf, s, p)
  PROVE  LastBlock(buf, p) = LastBlock(s, p) /\ IsText(LastBlock(s, p), Block)
<1>1. CASE p = Block
  <2>1. buf = s
    BY <1>1, SameText DEF Alike
  <2> QED
    BY <1>1, <2>1, MaskedText DEF LastBlock
<1>2. CASE p # Block
  <2>1. PICK u, v : /\ u = Put(buf, p, <<{<<"80", 0>>}>> \o Nulls(Block - p - 1))
                    /\ v = Put(s, p, <<{<<"80", 0>>}>> \o Nulls(Block - p - 1))
    OBVIOUS
  <2>2. u = v /\ IsText(v, Block)
    BY <1>2, <2>1, PaddedSame
  <2>3. LastBlock(buf, p) = Masked(u, "L4") /\ LastBlock(s, p) = Masked(v, "L4")
    BY <1>2, <2>1 DEF LastBlock
  <2> QED
    BY <2>2, <2>3, MaskedText
<1> QED
  BY <1>1, <1>2

\* The block of the number, and then the stream f.
Ahead(nb, f) == [i \in Nat |-> IF i <= Block THEN nb[i] ELSE f[i - Block]]

LEMMA BegunHead ==
  ASSUME NEW nb, NEW f, IsText(nb, Block)
  PROVE  nb = Span(Ahead(nb, f), 0, Block)
<1>1. Block \in Nat
  BY BlockIs
<1>2. ASSUME NEW i \in 1..Block
      PROVE  nb[i] = Ahead(nb, f)[0 + i]
  <2>1. i \in Nat /\ 0 + i = i /\ i <= Block
    BY <1>1
  <2> QED
    BY <2>1 DEF Ahead
<1>3. Shows(nb, Ahead(nb, f), 0, Block)
  BY <1>2 DEF Shows
<1> QED
  BY <1>1, <1>3, SpanSame

LEMMA BegunRest ==
  ASSUME NEW nb, NEW f, NEW a, NEW k, NEW b, a \in Nat, k \in Nat, IsSum(b, Block, a)
  PROVE  Span(f, a, k) = Span(Ahead(nb, f), b, k)
<1>1. Block \in Nat /\ b = Block + a /\ b \in Nat
  BY BlockIs DEF IsSum
<1>2. PICK s : s = Span(f, a, k)
  OBVIOUS
<1>3. IsText(s, k) /\ \A i \in 1..k : s[i] = f[a + i]
  BY <1>2, SpanText
<1>4. ASSUME NEW i \in 1..k
      PROVE  s[i] = Ahead(nb, f)[b + i]
  <2>1. PICK j \in Nat : j = b + i /\ j - Block = a + i /\ ~(j <= Block)
    <3>1. b + i \in Nat /\ (b + i) - Block = a + i /\ ~(b + i <= Block)
      BY <1>1
    <3> QED
      BY <3>1
  <2>2. Ahead(nb, f)[j] = f[j - Block]
    BY <2>1 DEF Ahead
  <2> QED
    BY <1>3, <2>1, <2>2
<1>5. Shows(s, Ahead(nb, f), b, k)
  BY <1>4 DEF Shows
<1> QED
  BY <1>1, <1>2, <1>3, <1>5, SpanSame

LEMMA BegunText ==
  ASSUME NEW nb, NEW f, NEW n, NEW k, IsText(nb, Block), n \in Nat, IsSum(k, Block, n)
  PROVE  IsJoin(Span(Ahead(nb, f), 0, k), nb, Span(f, 0, n))
<1>1. PICK g : g = Ahead(nb, f)
  OBVIOUS
<1>2. Block \in Nat /\ IsSum(Block, Block, 0) /\ 0 \in Nat
  BY BlockIs DEF IsSum
<1>3. IsJoin(Span(g, 0, k), Span(g, 0, Block), Span(g, Block, n))
  BY <1>2, HeadJoined
<1>4. Span(f, 0, n) = Span(g, Block, n)
  <2>1. PICK z : z = 0
    OBVIOUS
  <2>2. z \in Nat /\ IsSum(Block, Block, z)
    BY <1>2, <2>1
  <2>3. Span(f, z, n) = Span(g, Block, n)
    BY ONLY n \in Nat, <1>1, <2>2, BegunRest
  <2> QED
    BY <2>1, <2>3
<1> QED
  BY <1>1, <1>3, <1>4, BegunHead

\* The same with the block of the number as the beginning of what was taken.
OmacBegun(y, buf, p, g, n) ==
  \E w, k : /\ Aligned(w) /\ p \in 1..Block /\ IsSum(k, w, p) /\ IsSum(k, Block, n)
            /\ y = Cut(Span(g, 0, w)) /\ Holding(buf, g, w, p)

LEMMA OmacIsBegun ==
  ASSUME NEW y, NEW buf, NEW p, NEW t, NEW f, NEW n, OmacAt(y, buf, p, t, f, n), p # 0
  PROVE  OmacBegun(y, buf, p, Ahead(NumberBlock(t), f), n)
<1>1. PICK nb, g : nb = NumberBlock(t) /\ g = Ahead(nb, f)
  OBVIOUS
<1>2. IsText(nb, Block) /\ Cut(nb) = <<nb>> /\ Block \in Nat \ {0}
  BY <1>1, NumberText, BlockIs
<1>3. nb = Span(g, 0, Block)
  BY <1>1, <1>2, BegunHead
<1>4. CASE n = 0 /\ p = Block /\ y = <<>> /\ buf = nb
  <2>1. IsText(Span(g, 0, 0), 0)
    BY SpanText
  <2>2. y = Cut(Span(g, 0, 0))
    BY <1>4, <2>1, Empty, CutNothing DEF IsText
  <2>3. Holding(buf, g, 0, p)
    BY <1>2, <1>3, <1>4, SpanText DEF Holding
  <2>4. IsSum(Block, 0, p) /\ IsSum(Block, Block, n) /\ p \in 1..Block
    BY <1>2, <1>4 DEF IsSum
  <2> QED
    BY <1>1, <2>2, <2>3, <2>4, OneBlock DEF OmacBegun
<1>5. CASE n # 0 /\ Waits(y, buf, p, <<nb>>, f, n)
  <2>1. PICK w : /\ Aligned(w) /\ p \in 1..Block /\ IsSum(n, w, p)
                 /\ Took(y, <<nb>>, f, w) /\ Holding(buf, f, w, p)
    BY <1>5 DEF Waits
  <2>2. PICK v, k : v = Block + w /\ k = Block + n
    OBVIOUS
  <2>3. w \in Nat /\ n = w + p /\ p \in Nat
    BY <2>1, AlignedIs, <1>2 DEF IsSum
  <2>4. Aligned(v)
    BY <2>1, <2>2, OneBlock, AlignedSum
  <2>5. v \in Nat /\ IsSum(k, v, p) /\ IsSum(k, Block, n) /\ IsSum(v, Block, w)
    BY <1>2, <2>2, <2>3 DEF IsSum
  <2>6. IsJoin(Span(g, 0, v), nb, Span(f, 0, w))
    BY <1>1, <1>2, <2>3, <2>5, BegunText
  <2>7. PICK s : s = Span(f, 0, w) /\ IsText(s, w)
    BY <2>3, SpanText
  <2>8. Cut(nb \o s) = Cut(nb) \o Cut(s)
    BY <1>2, <2>7, OneBlock, CutJoined
  <2>9. y = <<nb>> \o Cut(s)
    BY <2>1, <2>7 DEF Took
  <2>10. y = Cut(Span(g, 0, v))
    BY <1>2, <2>6, <2>7, <2>8, <2>9 DEF IsJoin
  <2>11. Span(f, w, p) = Span(g, v, p)
    BY <1>1, <2>3, <2>5, BegunRest
  <2>12. \A i \in 1..p : f[w + i] = g[v + i]
    <3>1. \A i \in 1..p : Span(f, w, p)[i] = f[w + i] /\ Span(g, v, p)[i] = g[v + i]
      BY <2>3, <2>5, SpanText
    <3> QED
      BY <2>11, <3>1
  <2>13. Holding(buf, g, v, p)
    BY <2>1, <2>12 DEF Holding
  <2> QED
    BY <1>1, <2>1, <2>4, <2>5, <2>10, <2>13 DEF OmacBegun
<1> QED
  BY <1>1, <1>4, <1>5 DEF OmacAt

\* do_pad: the MAC of all that was given.
LEMMA OmacPads ==
  ASSUME NEW y, NEW buf, NEW p, NEW t, NEW f, NEW n, OmacAt(y, buf, p, t, f, n), p # 0
  PROVE  mac(y, LastBlock(buf, p)) = Omac(t, Span(f, 0, n))
<1>1. PICK nb, g : nb = NumberBlock(t) /\ g = Ahead(nb, f)
  OBVIOUS
<1>2. PICK w, k : /\ Aligned(w) /\ p \in 1..Block /\ IsSum(k, w, p) /\ IsSum(k, Block, n)
                  /\ y = Cut(Span(g, 0, w)) /\ Holding(buf, g, w, p)
  BY <1>1, OmacIsBegun DEF OmacBegun
<1>3. n \in Nat /\ w \in Nat /\ p \in Nat /\ Block \in Nat /\ p <= Block
  BY <1>2, AlignedIs, BlockIs DEF OmacAt
<1>4. PICK u : u = Span(g, 0, k)
  OBVIOUS
<1>5. nb \o Span(f, 0, n) = u
  <2>1. IsText(nb, Block)
    BY <1>1, NumberText
  <2>2. IsJoin(Span(g, 0, k), nb, Span(f, 0, n))
    BY <1>1, <1>2, <1>3, <2>1, BegunText
  <2> QED
    BY <1>4, <2>2 DEF IsJoin
<1>6. k \in Nat /\ w \in 0..k /\ k - w = p
  BY <1>2, <1>3 DEF IsSum
<1>7. IsText(u, k)
  BY <1>4, <1>6, SpanText
<1>8. BeforeLast(u) = w
  <2>1. Before(k) = w
    BY <1>2, BeforeAs
  <2> QED
    BY <1>7, <2>1 DEF BeforeLast, Before, IsText
<1>9. First(u, w) = Span(g, 0, w) /\ After(u, w) = Span(g, w, p)
  <2>1. PICK z : z = 0
    OBVIOUS
  <2>2. z \in Nat /\ IsSum(w, z, w)
    BY <1>3, <2>1 DEF IsSum
  <2>3. First(Span(g, z, k), w) = Span(g, z, w) /\ After(Span(g, z, k), w) = Span(g, w, p)
    BY ONLY <1>2, <1>3, <1>6, <2>2, SpanPart
  <2> QED
    BY <1>4, <2>1, <2>3
<1>10. PICK s, b : s = Span(g, w, p) /\ b = Put(Nulls(Block), 0, s)
  OBVIOUS
<1>11. IsText(s, p) /\ \A i \in 1..p : s[i] = g[w + i]
  BY <1>3, <1>10, SpanText
<1>12. PutAt(b, Nulls(Block), 0, s, p)
  BY <1>10, <1>11, PutText
<1>13. \A i \in 1..p : b[i] = g[w + i]
  <2>1. \A i \in 1..p : i \in 1..Block /\ i \in (0 + 1)..(0 + p) /\ i - 0 = i
    BY <1>3
  <2> QED
    BY <1>11, <1>12, <2>1 DEF PutAt
<1>14. IsText(buf, Block) /\ IsText(b, Block) /\ Alike(buf, b, p)
  BY <1>2, <1>12, <1>13 DEF Holding, PutAt, Alike
<1>15. PICK last : last = LastBlock(b, p)
  OBVIOUS
<1>16. LastBlock(buf, p) = last /\ IsText(last, Block)
  BY <1>2, <1>14, <1>15, LastBlockIs
<1>17. mac(y, last) = y \o <<last>>
  BY <1>16, CutBlock DEF mac
<1>18. IsString(y)
  <2>1. IsText(Span(g, 0, w), w)
    BY <1>3, SpanText
  <2> QED
    BY <1>2, <2>1, CutOf
<1>19. Append(y, last) = y \o <<last>>
  BY <1>18, Appended
<1>20. Len(u) = k
  BY <1>7 DEF IsText
<1>21. PICK text : text = Span(f, 0, n)
  OBVIOUS
<1>22. Omac(t, text) = Append(Cut(First(u, w)), LastBlock(Put(Nulls(Block), 0, After(u, w)), k - w))
  BY <1>1, <1>5, <1>8, <1>20, <1>21 DEF Omac
<1>23. Omac(t, text) = Append(y, last)
  BY <1>2, <1>6, <1>9, <1>10, <1>15, <1>22
<1> QED
  BY <1>16, <1>17, <1>19, <1>21, <1>23

-----------------------------------------------------------------------------
(* EAX.                                                                      *)
EaxContext(y, buf, p, nonce, head, captured, iv, now) ==
  [mac |-> y, buf |-> buf, ptr |-> p, nonce |-> nonce, head |-> head,
   captured |-> captured, iv |-> iv, ctr |-> now]

LEMMA EaxFields ==
  ASSUME NEW c, NEW y, NEW buf, NEW p, NEW nonce, NEW head, NEW captured, NEW iv, NEW now,
         c = EaxContext(y, buf, p, nonce, head, captured, iv, now)
  PROVE  /\ c.mac = y /\ c.buf = buf /\ c.ptr = p /\ c.nonce = nonce /\ c.head = head
         /\ c.captured = captured /\ c.iv = iv /\ c.ctr = now
BY DEF EaxContext

EaxPut(h, c, buf, p) == h = [c EXCEPT !.buf = buf, !.ptr = p]
EaxTook(h, c, y, buf, p) == h = [c EXCEPT !.mac = y, !.buf = buf, !.ptr = p]
EaxRan(h, c, y, now, buf, p) == h = [c EXCEPT !.mac = y, !.ctr = now, !.buf = buf, !.ptr = p]

LEMMA EaxPutIs ==
  ASSUME NEW c, NEW y, NEW buf, NEW p, NEW nonce, NEW head, NEW captured, NEW iv, NEW now,
         NEW h, NEW buf2, NEW p2,
         c = EaxContext(y, buf, p, nonce, head, captured, iv, now), EaxPut(h, c, buf2, p2)
  PROVE  h = EaxContext(y, buf2, p2, nonce, head, captured, iv, now)
<1>1. PICK d : d = [c EXCEPT !.buf = buf2]
  OBVIOUS
<1>2. d = EaxContext(y, buf2, p, nonce, head, captured, iv, now)
  BY <1>1 DEF EaxContext
<1>3. [d EXCEPT !.ptr = p2] = EaxContext(y, buf2, p2, nonce, head, captured, iv, now)
  BY <1>2 DEF EaxContext
<1>4. [[c EXCEPT !.buf = buf2] EXCEPT !.ptr = p2] = [c EXCEPT !.buf = buf2, !.ptr = p2]
  OBVIOUS
<1> QED
  BY <1>1, <1>3, <1>4 DEF EaxPut

LEMMA EaxMacIs ==
  ASSUME NEW c, NEW y, NEW buf, NEW p, NEW nonce, NEW head, NEW captured, NEW iv, NEW now, NEW y2,
         c = EaxContext(y, buf, p, nonce, head, captured, iv, now)
  PROVE  \E h : /\ h = [c EXCEPT !.mac = y2]
                /\ h = EaxContext(y2, buf, p, nonce, head, captured, iv, now)
<1>1. PICK h : h = [c EXCEPT !.mac = y2]
  OBVIOUS
<1>2. h = EaxContext(y2, buf, p, nonce, head, captured, iv, now)
  BY <1>1 DEF EaxContext
<1> QED
  BY <1>1, <1>2

LEMMA EaxTookIs ==
  ASSUME NEW c, NEW y, NEW buf, NEW p, NEW nonce, NEW head, NEW captured, NEW iv, NEW now,
         NEW h, NEW y2, NEW buf2, NEW p2,
         c = EaxContext(y, buf, p, nonce, head, captured, iv, now), EaxTook(h, c, y2, buf2, p2)
  PROVE  h = EaxContext(y2, buf2, p2, nonce, head, captured, iv, now)
<1>1. PICK d : /\ d = [c EXCEPT !.mac = y2]
               /\ d = EaxContext(y2, buf, p, nonce, head, captured, iv, now)
  BY EaxMacIs
<1>2. PICK e : e = [d EXCEPT !.buf = buf2, !.ptr = p2]
  OBVIOUS
<1>3. EaxPut(e, d, buf2, p2)
  BY <1>2 DEF EaxPut
<1>4. e = EaxContext(y2, buf2, p2, nonce, head, captured, iv, now)
  BY <1>1, <1>3, EaxPutIs
<1>5. [[c EXCEPT !.mac = y2] EXCEPT !.buf = buf2, !.ptr = p2]
        = [c EXCEPT !.mac = y2, !.buf = buf2, !.ptr = p2]
  OBVIOUS
<1> QED
  BY <1>1, <1>2, <1>4, <1>5 DEF EaxTook

LEMMA EaxRanIs ==
  ASSUME NEW c, NEW y, NEW buf, NEW p, NEW nonce, NEW head, NEW captured, NEW iv, NEW now,
         NEW h, NEW y2, NEW now2, NEW buf2, NEW p2,
         c = EaxContext(y, buf, p, nonce, head, captured, iv, now),
         EaxRan(h, c, y2, now2, buf2, p2)
  PROVE  h = EaxContext(y2, buf2, p2, nonce, head, captured, iv, now2)
<1>1. PICK a : /\ a = [c EXCEPT !.mac = y2]
               /\ a = EaxContext(y2, buf, p, nonce, head, captured, iv, now)
  BY EaxMacIs
<1>2. PICK d : d = [a EXCEPT !.ctr = now2]
  OBVIOUS
<1>3. d = EaxContext(y2, buf, p, nonce, head, captured, iv, now2)
  BY <1>1, <1>2 DEF EaxContext
<1>4. PICK e : e = [d EXCEPT !.buf = buf2, !.ptr = p2]
  OBVIOUS
<1>5. EaxPut(e, d, buf2, p2)
  BY <1>4 DEF EaxPut
<1>6. e = EaxContext(y2, buf2, p2, nonce, head, captured, iv, now2)
  BY <1>3, <1>5, EaxPutIs
<1>7. [[[c EXCEPT !.mac = y2] EXCEPT !.ctr = now2] EXCEPT !.buf = buf2, !.ptr = p2]
        = [c EXCEPT !.mac = y2, !.ctr = now2, !.buf = buf2, !.ptr = p2]
  OBVIOUS
<1> QED
  BY <1>1, <1>2, <1>4, <1>6, <1>7 DEF EaxRan

-----------------------------------------------------------------------------
(* Pieces of what is only authenticated. A context keeps its other fields.    *)
EaxAt(c, t, f, n, nonce, head, captured, iv) ==
  \E y, buf, p : /\ c = EaxContext(y, buf, p, nonce, head, captured, iv, 0)
                 /\ OmacAt(y, buf, p, t, f, n)

LEMMA EaxChunk ==
  ASSUME NEW c, NEW t, NEW f, NEW n, NEW nonce, NEW head, NEW captured, NEW iv, NEW k, NEW v,
         k \in Nat, IsSum(v, n, k), EaxAt(c, t, f, n, nonce, head, captured, iv),
         c.ptr = 0 \/ c.ptr = Block
  PROVE  EaxAt(do_cbcmac_chunk(c, Span(f, n, k)), t, f, v, nonce, head, captured, iv)
<1>1. PICK y, buf, p : /\ c = EaxContext(y, buf, p, nonce, head, captured, iv, 0)
                       /\ OmacAt(y, buf, p, t, f, n)
  BY DEF EaxAt
<1>2. c.mac = y /\ c.buf = buf /\ c.ptr = p
  BY <1>1, EaxFields
<1>3. p = 0 \/ p = Block
  BY <1>2
<1>4. n \in Nat /\ Block \in Nat \ {0}
  BY <1>1, BlockIs DEF OmacAt
<1>5. PICK data : data = Span(f, n, k)
  OBVIOUS
<1>6. IsText(data, k) /\ Len(data) = k
  BY <1>4, <1>5, SpanText DEF IsText
<1>7. CASE k = 0
  <2>1. data = <<>>
    BY <1>6, <1>7, Empty DEF IsText
  <2>2. do_cbcmac_chunk(c, data) = c
    BY <2>1 DEF do_cbcmac_chunk
  <2>3. v = n
    BY <1>4, <1>7 DEF IsSum
  <2> QED
    BY <1>5, <2>2, <2>3
<1>8. CASE k # 0
  <2>1. data # <<>>
    BY <1>6, <1>8, Empty
  <2>2. PICK y1 : y1 = IF p = 0 THEN y ELSE mac(y, buf)
    OBVIOUS
  <2>3. PICK y0 : y0 = <<NumberBlock(t)>>
    OBVIOUS
  <2>4. Took(y1, y0, f, n)
    BY <1>1, <1>3, <2>2, <2>3, OmacTakes
  <2>5. (IF p = Block THEN mac(y, buf) ELSE y) = y1
    BY <1>3, <1>4, <2>2
  <2>6. PICK d, x : Aligned(d) /\ x \in 1..Block /\ IsSum(k, d, x)
    BY <1>8, BeforeIs
  <2>7. BeforeLast(data) = d
    <3>1. Before(k) = d
      BY <2>6, BeforeAs
    <3> QED
      BY <1>6, <3>1 DEF BeforeLast, Before
  <2>8. PICK b : b = n + d
    OBVIOUS
  <2>9. d \in 0..k /\ x \in Nat /\ IsSum(b, n, d) /\ IsSum(v, b, x) /\ v # 0 /\ v \in Nat
    <3>1. d \in Nat
      BY <2>6, AlignedIs
    <3>2. x \in Nat /\ x # 0
      BY <1>4, <2>6
    <3>3. k = d + x /\ v = n + k
      BY <2>6 DEF IsSum
    <3>4. d \in 0..k /\ v = b + x /\ v # 0 /\ v \in Nat
      BY ONLY k \in Nat, <1>4, <2>8, <3>1, <3>2, <3>3
    <3> QED
      BY <2>8, <3>2, <3>4 DEF IsSum
  <2>10. First(data, d) = Span(f, n, d) /\ After(data, d) = Span(f, b, x)
    BY <1>4, <1>5, <2>6, <2>9, SpanPart
  <2>11. PICK y2, u : y2 = mac(y1, Span(f, n, d)) /\ u = Put(buf, 0, Span(f, b, x))
    OBVIOUS
  <2>12. Waits(y2, u, x, y0, f, v)
    BY <2>4, <2>6, <2>9, <2>11, WaitsThen
  <2>13. PICK h : h = do_cbcmac_chunk(c, data)
    OBVIOUS
  <2>14. h = [c EXCEPT !.mac = y2, !.buf = u, !.ptr = x]
    <3>1. k - d = x
      <4>1. k = d + x /\ d \in Nat /\ x \in Nat
        BY <2>6, <2>9, AlignedIs DEF IsSum
      <4> QED
        BY <4>1
    <3> QED
      BY <1>2, <1>6, <2>1, <2>5, <2>7, <2>10, <2>11, <2>13, <3>1 DEF do_cbcmac_chunk
  <2>15. EaxTook(h, c, y2, u, x)
    BY <2>14 DEF EaxTook
  <2>16. h = EaxContext(y2, u, x, nonce, head, captured, iv, 0)
    BY <1>1, <2>15, EaxTookIs
  <2>17. IsText(u, Block)
    BY <2>12 DEF Waits, Holding
  <2>18. OmacAt(y2, u, x, t, f, v)
    BY <2>3, <2>9, <2>12, <2>17 DEF OmacAt
  <2> QED
    BY <1>5, <2>13, <2>16, <2>18 DEF EaxAt
<1> QED
  BY <1>7, <1>8

\* Nothing put beyond the end.
LEMMA PutNothing ==
  ASSUME NEW buf, NEW p, IsText(buf, Block), p \in Nat
  PROVE  Put(buf, p, <<>>) = buf
<1>1. PICK u : u = Put(buf, p, <<>>)
  OBVIOUS
<1>2. IsText(<<>>, 0)
  BY Empty DEF IsText
<1>3. PutAt(u, buf, p, <<>>, 0)
  BY <1>1, <1>2, PutText
<1>4. \A i \in 1..Block : u[i] = buf[i]
  <2>1. Block \in Nat
    BY BlockIs
  <2>2. ASSUME NEW i \in 1..Block
        PROVE  u[i] = buf[i]
    <3>1. i \notin (p + 1)..(p + 0)
      BY <2>1
    <3> QED
      BY <1>3, <3>1 DEF PutAt
  <2> QED
    BY <2>2
<1>5. u = buf
  BY <1>3, <1>4, SameText DEF PutAt
<1> QED
  BY <1>1, <1>5

\* br_eax_aad_inject, when nothing goes beyond a block that is begun.
LEMMA EaxInjects ==
  ASSUME NEW c, NEW f, NEW n, NEW nonce, NEW head, NEW captured, NEW iv, NEW k, NEW v,
         k \in Nat, IsSum(v, n, k), EaxAt(c, 1, f, n, nonce, head, captured, iv),
         c.ptr < Block => k <= Block - c.ptr
  PROVE  EaxAt(br_eax_aad_inject(c, Span(f, n, k)), 1, f, v, nonce, head, captured, iv)
<1>1. PICK y, buf, p : /\ c = EaxContext(y, buf, p, nonce, head, captured, iv, 0)
                       /\ OmacAt(y, buf, p, 1, f, n)
  BY DEF EaxAt
<1>2. c.mac = y /\ c.buf = buf /\ c.ptr = p
  BY <1>1, EaxFields
<1>3. n \in Nat /\ Block \in Nat \ {0} /\ IsText(buf, Block) /\ v = n + k /\ v \in Nat
  BY <1>1, BlockIs DEF OmacAt, IsSum
<1>4. PICK data : data = Span(f, n, k)
  OBVIOUS
<1>5. IsText(data, k) /\ Len(data) = k
  BY <1>3, <1>4, SpanText DEF IsText
<1>6. p \in 0..Block
  BY <1>1, <1>3 DEF OmacAt, Waits
<1>7. CASE p < Block
  <2>1. k <= Block - p
    BY <1>2, <1>7
  <2>2. PICK u, q : u = Put(buf, p, data) /\ q = p + k
    OBVIOUS
  <2>3. PICK h : h = br_eax_aad_inject(c, data)
    OBVIOUS
  <2>4. h = [c EXCEPT !.buf = u, !.ptr = q]
    BY <1>2, <1>5, <1>7, <2>1, <2>2, <2>3 DEF br_eax_aad_inject
  <2>5. EaxPut(h, c, u, q)
    BY <2>4 DEF EaxPut
  <2>6. h = EaxContext(y, u, q, nonce, head, captured, iv, 0)
    BY <1>1, <2>5, EaxPutIs
  <2>7. PutAt(u, buf, p, data, k)
    BY <1>5, <2>2, PutText
  <2>8. IsText(u, Block)
    BY <2>7 DEF PutAt
  <2>9. PICK y0 : y0 = <<NumberBlock(1)>>
    OBVIOUS
  <2>10. OmacAt(y, u, q, 1, f, v)
    <3>1. CASE n = 0 /\ p = 0 /\ k = 0
      <4>1. y = y0
        BY <1>1, <1>3, <2>9, <3>1 DEF OmacAt
      <4>2. v = 0 /\ q = 0
        BY <1>3, <2>2, <3>1
      <4> QED
        BY <2>8, <2>9, <4>1, <4>2 DEF OmacAt
    <3>2. CASE n = 0 /\ p = 0 /\ k # 0
      <4>1. y = y0
        BY <1>1, <1>3, <2>9, <3>2 DEF OmacAt
      <4>2. Took(y, y0, f, 0)
        BY <2>9, <4>1, Single, NothingTaken
      <4>3. IsText(Span(f, 0, 0), 0)
        BY SpanText
      <4>4. mac(y, Span(f, 0, 0)) = y
        BY <2>9, <4>1, <4>3, Single, Empty, CutNothing DEF mac, IsText
      <4>5. IsSum(0, 0, 0) /\ k \in 1..Block /\ IsSum(v, 0, k)
        BY <1>3, <2>1, <3>2 DEF IsSum
      <4>6. Waits(mac(y, Span(f, 0, 0)), Put(buf, 0, Span(f, 0, k)), k, y0, f, v)
        BY <4>2, <4>5, OneBlock, WaitsThen
      <4>7. Waits(y, u, q, y0, f, v)
        BY <1>4, <2>2, <3>2, <4>4, <4>6
      <4>8. v # 0
        BY <1>3, <3>2
      <4> QED
        BY <1>3, <2>8, <2>9, <4>7, <4>8 DEF OmacAt
    <3>3. CASE n # 0
      <4>1. Waits(y, buf, p, y0, f, n)
        BY <1>1, <2>9, <3>3 DEF OmacAt
      <4>2. IsSum(q, p, k) /\ q <= Block
        <5>1. q = p + k /\ q <= Block
          BY ONLY k \in Nat, <1>3, <1>6, <2>1, <2>2
        <5> QED
          BY <5>1 DEF IsSum
      <4>3. Waits(y, u, q, y0, f, v)
        BY <1>4, <2>2, <4>1, <4>2, WaitsMore
      <4>4. v # 0
        BY <1>3, <3>3
      <4> QED
        BY <1>3, <2>8, <2>9, <4>3, <4>4 DEF OmacAt
    <3>4. n # 0 \/ p = 0
      BY <1>1, <1>3, <1>6, <1>7 DEF OmacAt
    <3> QED
      BY <3>1, <3>2, <3>3, <3>4
  <2> QED
    BY <1>4, <2>3, <2>6, <2>10 DEF EaxAt
<1>8. CASE ~(p < Block)
  <2>1. p = Block
    BY <1>3, <1>6, <1>8
  <2>2. First(data, 0) = <<>> /\ After(data, 0) = data
    <3>1. PICK z : z = 0
      OBVIOUS
    <3>2. z \in Nat /\ z \in 0..k /\ IsSum(n, n, z) /\ IsSum(k, z, k)
      BY <1>3, <3>1 DEF IsSum
    <3>3. First(data, z) = Span(f, n, z) /\ After(data, z) = Span(f, n, k)
      BY ONLY k \in Nat, <1>3, <1>4, <3>2, SpanPart
    <3>4. IsText(Span(f, n, 0), 0)
      BY <1>3, SpanText
    <3> QED
      BY <1>4, <3>1, <3>3, <3>4, Empty DEF IsText
  <2>3. Put(buf, Block, <<>>) = buf
    BY <1>3, PutNothing
  <2>4. [c EXCEPT !.buf = buf] = c
    BY <1>1 DEF EaxContext
  <2>5. br_eax_aad_inject(c, data) = do_cbcmac_chunk([c EXCEPT !.buf = buf], data)
    <3>1. Block - 0 = Block
      BY <1>3
    <3> QED
      BY <1>2, <1>8, <2>1, <2>2, <2>3, <3>1 DEF br_eax_aad_inject
  <2>6. c.ptr = 0 \/ c.ptr = Block
    BY <1>2, <2>1
  <2> QED
    BY <1>4, <2>4, <2>5, <2>6, EaxChunk
<1> QED
  BY <1>7, <1>8

-----------------------------------------------------------------------------
(* Data in EAX. What the block that waits does not fill is left over of the   *)
(* key stream.                                                               *)
Spare(buf, p, iv, c, m) ==
  m # 0 => \E w : /\ Aligned(w) /\ IsSum(m, w, p)
                  /\ \A i \in (p + 1)..Block : buf[i] = KeyBytes(iv, c)[w + i]

EaxRuns(g, nonce, head, c, o, in, m) ==
  \E y, buf, p, cap :
    /\ g = EaxContext(y, buf, p, nonce, head, cap, nonce, c + Used(m))
    /\ c \in Nat
    /\ OmacAt(y, buf, p, 2, KeptOf(o, in, nonce, c), m)
    /\ Spare(buf, p, nonce, c, m)

LEMMA SpareLeft ==
  ASSUME NEW buf, NEW p, NEW iv, NEW c, NEW m, NEW l, Spare(buf, p, iv, c, m), m \in Nat,
         m # 0, p \in Nat, l \in Nat, p + l <= Block
  PROVE  LeftShows(buf, p, KeyBytes(iv, c), m, l)
<1>1. PICK w : /\ Aligned(w) /\ IsSum(m, w, p)
               /\ \A i \in (p + 1)..Block : buf[i] = KeyBytes(iv, c)[w + i]
  BY DEF Spare
<1>2. Block \in Nat /\ w \in Nat
  BY <1>1, BlockIs, AlignedIs
<1>3. PICK key : key = KeyBytes(iv, c)
  OBVIOUS
<1>4. ASSUME NEW i \in 1..l
      PROVE  buf[p + i] = key[m + i]
  <2>1. PICK j : j = p + i
    OBVIOUS
  <2>2. j \in (p + 1)..Block
    BY ONLY <1>2, <2>1, p \in Nat, l \in Nat, p + l <= Block, i \in 1..l
  <2>3. buf[j] = key[w + j]
    BY <1>1, <1>3, <2>2
  <2>4. w + j = m + i
    <3>1. m = w + p
      BY <1>1 DEF IsSum
    <3> QED
      BY <1>2, <2>1, <3>1
  <2> QED
    BY <2>1, <2>3, <2>4
<1> QED
  BY <1>3, <1>4 DEF LeftShows

LEMMA SpareMore ==
  ASSUME NEW buf, NEW p, NEW iv, NEW c, NEW m, NEW data, NEW k, NEW q, NEW v, NEW u,
         Spare(buf, p, iv, c, m), m # 0, m \in Nat, p \in Nat, k \in Nat,
         IsSum(q, p, k), IsSum(v, m, k), PutAt(u, buf, p, data, k)
  PROVE  Spare(u, q, iv, c, v)
<1>1. PICK w : /\ Aligned(w) /\ IsSum(m, w, p)
               /\ \A i \in (p + 1)..Block : buf[i] = KeyBytes(iv, c)[w + i]
  BY DEF Spare
<1>2. Block \in Nat /\ w \in Nat
  BY <1>1, BlockIs, AlignedIs
<1>3. PICK key : key = KeyBytes(iv, c)
  OBVIOUS
<1>4. IsSum(v, w, q)
  BY <1>1, <1>2 DEF IsSum
<1>5. \A i \in 1..Block : u[i] = IF i \in (p + 1)..(p + k) THEN data[i - p] ELSE buf[i]
  BY DEF PutAt
<1>6. ASSUME NEW i \in (q + 1)..Block
      PROVE  u[i] = key[w + i]
  <2>1. q = p + k /\ q \in Nat
    BY DEF IsSum
  <2>2. i \in 1..Block /\ i \notin (p + 1)..(p + k) /\ i \in (p + 1)..Block
    BY <1>2, <2>1
  <2> QED
    BY <1>1, <1>3, <1>5, <2>2
<1> QED
  BY <1>1, <1>3, <1>4, <1>6 DEF Spare

\* The block begun: as many blocks of the key stream were used before and after.
LEMMA SameBlock ==
  ASSUME NEW m, NEW w, NEW p, NEW k, NEW q, NEW v, Aligned(w), p \in 1..Block, IsSum(m, w, p),
         k \in Nat, IsSum(q, p, k), q <= Block, IsSum(v, m, k)
  PROVE  Used(v) = Used(m)
<1>1. w \in Nat /\ Block \in Nat
  BY AlignedIs, BlockIs
<1>2. q \in 1..Block /\ IsSum(v, w, q)
  <2>1. q = p + k /\ m = w + p /\ v = m + k
    BY DEF IsSum
  <2>2. v = w + q
    BY ONLY <1>1, <2>1, p \in 1..Block, k \in Nat
  <2>3. q \in 1..Block
    BY ONLY <1>1, <2>1, p \in 1..Block, k \in Nat, q <= Block
  <2> QED
    BY <2>2, <2>3 DEF IsSum
<1>3. Used(v) = (w \div Block) + 1
  BY <1>2, BeforeAs
<1>4. Used(m) = (w \div Block) + 1
  BY BeforeAs
<1> QED
  BY <1>3, <1>4

\* The parts of a run behind the block begun: d are whole blocks from a on, and
\* the last x, one at least, wait at b.
Held(m, k, l, a, r, d, b, x, v) ==
  /\ RunPieces(m, k, l, a, r, d, b, x) /\ r # 0 /\ d = Before(r)
  /\ Aligned(d) /\ x \in 1..Block /\ IsSum(v, b, x) /\ v \in Nat \ {0}
  /\ Used(v) = (b \div Block) + 1 /\ b \div Block = (a \div Block) + (d \div Block)

LEMMA HeldExist ==
  ASSUME NEW m, NEW k, NEW l, NEW a, NEW v, m \in Nat, k \in Nat, l \in Nat, l < k,
         Aligned(a), IsSum(a, m, l), IsSum(v, m, k)
  PROVE  \E r, d, b, x : Held(m, k, l, a, r, d, b, x, v)
<1>1. PICK r : r = k - l
  OBVIOUS
<1>2. r \in Nat \ {0} /\ IsSum(k, l, r) /\ l \in 0..k /\ a \in Nat
  <2>1. r \in Nat \ {0} /\ k = l + r /\ l \in 0..k
    BY ONLY <1>1, k \in Nat, l \in Nat, l < k
  <2> QED
    BY <2>1, AlignedIs DEF IsSum
<1>3. PICK d, x : Aligned(d) /\ x \in 1..Block /\ IsSum(r, d, x)
  BY <1>2, BeforeIs
<1>4. Before(r) = d
  BY <1>3, BeforeAs
<1>5. d \in Nat /\ x \in Nat
  BY <1>3, AlignedIs, BlockIs
<1>6. PICK b : b = a + d
  OBVIOUS
<1>7. Aligned(b) /\ b \div Block = (a \div Block) + (d \div Block)
  BY <1>3, <1>6, AlignedSum
<1>8. b \in Nat
  BY <1>7, AlignedIs
<1>9. d \in 0..r
  <2>1. r = d + x
    BY <1>3 DEF IsSum
  <2> QED
    BY <1>5, <2>1
<1>10. IsSum(v, b, x)
  <2>1. r = d + x /\ k = l + r /\ a = m + l /\ v = m + k
    BY <1>2, <1>3 DEF IsSum
  <2>2. v = b + x
    BY <1>2, <1>5, <1>6, <2>1
  <2> QED
    BY <2>2 DEF IsSum
<1>11. Used(v) = (b \div Block) + 1 /\ v \in Nat \ {0}
  BY <1>3, <1>7, <1>10, BeforeAs
<1>12. IsSum(b, a, d)
  BY <1>6 DEF IsSum
<1>13. RunPieces(m, k, l, a, r, d, b, x)
  BY <1>2, <1>3, <1>5, <1>7, <1>8, <1>9, <1>12 DEF RunPieces
<1> QED
  BY <1>2, <1>3, <1>4, <1>7, <1>10, <1>11, <1>13 DEF Held

\* The block begun, and no more than it still needs.
LEMMA EaxWithin ==
  ASSUME NEW g, NEW nonce, NEW head, NEW c, NEW o, NEW in, NEW m, NEW k, NEW v, k \in Nat,
         k # 0, o \in BOOLEAN, EaxRuns(g, nonce, head, c, o, in, m), IsSum(v, m, k),
         g.ptr # 0, g.ptr # Block, k <= Block - g.ptr
  PROVE  /\ EaxRuns(br_eax_run(g, o, Span(in, m, k)).ctx, nonce, head, c, o, in, v)
         /\ br_eax_run(g, o, Span(in, m, k)).out = Span(OutOf(in, nonce, c), m, k)
<1>1. PICK y, buf, p, cap, now :
         /\ g = EaxContext(y, buf, p, nonce, head, cap, nonce, now) /\ now = c + Used(m)
         /\ c \in Nat /\ OmacAt(y, buf, p, 2, KeptOf(o, in, nonce, c), m)
         /\ Spare(buf, p, nonce, c, m)
  BY DEF EaxRuns
<1>2. g.mac = y /\ g.ptr = p /\ g.buf = buf /\ g.ctr = now
  BY <1>1, EaxFields
<1>3. PICK out, kept, y0 : /\ out = OutOf(in, nonce, c) /\ kept = KeptOf(o, in, nonce, c)
                           /\ y0 = <<NumberBlock(2)>>
  OBVIOUS
<1>4. m \in Nat /\ m # 0 /\ Waits(y, buf, p, y0, kept, m) /\ IsText(buf, Block)
  BY <1>1, <1>2, <1>3 DEF OmacAt
<1>5. PICK w : Aligned(w) /\ p \in 1..Block /\ IsSum(m, w, p)
  BY <1>4 DEF Waits
<1>6. p \in Nat /\ Block \in Nat /\ k <= Block - p /\ p # Block /\ p # 0
  BY <1>2, <1>5, BlockIs
<1>7. PICK data : data = Span(in, m, k)
  OBVIOUS
<1>8. Len(data) = k /\ First(data, k) = data /\ data # <<>>
  <2>1. IsText(data, k)
    BY <1>4, <1>7, SpanText
  <2>2. IsSum(k, k, 0) /\ k \in 0..k
    BY DEF IsSum
  <2>3. PICK b : IsSum(b, m, k)
    BY DEF IsSum
  <2>4. First(data, k) = data
    BY ONLY <1>4, <1>7, <2>2, <2>3, k \in Nat, 0 \in Nat, SpanPart
  <2> QED
    BY <2>1, <2>4, Empty DEF IsText
<1>9. XorBytes(data, SubSeq(buf, p + 1, p + k)) = Span(out, m, k)
  <2>1. PICK i, q : IsSum(i, p, 1) /\ IsSum(q, p, k) /\ i = p + 1 /\ q = p + k
    BY DEF IsSum
  <2>2. p + k <= Block /\ q <= Block
    BY <1>6, <2>1
  <2>3. LeftShows(buf, p, KeyBytes(nonce, c), m, k)
    BY <1>1, <1>4, <1>6, <2>2, SpareLeft
  <2>4. XorBytes(Span(in, m, k), SubSeq(buf, i, q)) = Span(Mixed(in, KeyBytes(nonce, c)), m, k)
    BY <1>4, <1>6, <2>1, <2>2, <2>3, XorLeft
  <2> QED
    BY <1>3, <1>7, <2>1, <2>4 DEF OutOf
<1>10. PICK z, u, q : z = Span(out, m, k) /\ u = Put(buf, p, Span(kept, m, k)) /\ q = p + k
  OBVIOUS
<1>11. Encrypted(o, data, z) = Span(kept, m, k)
  BY <1>3, <1>7, <1>10 DEF Encrypted, KeptOf
<1>12. IsSum(q, p, k) /\ q <= Block
  <2>1. q = p + k /\ q <= Block
    BY ONLY <1>6, <1>10, k \in Nat
  <2> QED
    BY <2>1 DEF IsSum
<1>13. PutAt(u, buf, p, Span(kept, m, k), k)
  <2>1. IsText(Span(kept, m, k), k)
    BY <1>4, SpanText
  <2> QED
    BY <1>10, <2>1, PutText
<1>14. Waits(y, u, q, y0, kept, v)
  BY <1>4, <1>10, <1>12, WaitsMore
<1>15. v \in Nat /\ v # 0
  <2>1. v = m + k
    BY DEF IsSum
  <2> QED
    BY <1>4, <2>1
<1>16. OmacAt(y, u, q, 2, kept, v)
  BY <1>3, <1>13, <1>14, <1>15 DEF OmacAt, PutAt
<1>17. Spare(u, q, nonce, c, v)
  BY <1>1, <1>4, <1>6, <1>12, <1>13, SpareMore
<1>18. now = c + Used(v)
  BY <1>1, <1>5, <1>12, SameBlock
<1> DEFINE begun == g.ptr \notin {0, Block}
           clen == IF ~begun THEN 0
                   ELSE IF Len(data) <= Block - g.ptr THEN Len(data) ELSE Block - g.ptr
           x1 == First(data, clen)
           z1 == XorBytes(x1, SubSeq(g.buf, g.ptr + 1, g.ptr + clen))
           buf1 == Put(g.buf, g.ptr, Encrypted(o, x1, z1))
           w1 == IF g.ptr = 0 THEN g.mac ELSE mac(g.mac, buf1)
           rest == After(data, clen)
           d1 == First(rest, BeforeLast(rest))
           e1 == ctr(g.iv, g.ctr, d1)
           j1 == g.ctr + Len(d1) \div Block
           last == After(rest, Len(d1))
           h1 == ctr(g.iv, j1, last)
<1>19. br_eax_run(g, o, data)
         = IF data = <<>> THEN [ctx |-> g, out |-> <<>>]
           ELSE IF begun /\ Len(data) <= clen
             THEN [ctx |-> [g EXCEPT !.buf = buf1, !.ptr = @ + clen], out |-> z1]
             ELSE [ctx |-> [g EXCEPT
                     !.mac = mac(w1, Encrypted(o, d1, e1)), !.ctr = j1 + 1,
                     !.buf = Put(KeyStream(g.iv, j1, Block), 0, Encrypted(o, last, h1)),
                     !.ptr = Len(last)],
                   out |-> z1 \o e1 \o h1]
  BY DEF br_eax_run
<1> HIDE DEF begun, clen, x1, z1, buf1, w1, rest, d1, e1, j1, last, h1
<1>24. begun /\ clen = k
  <2>1. begun
    BY <1>2, <1>6 DEF begun
  <2>2. Len(data) <= Block - g.ptr
    BY <1>2, <1>6, <1>8
  <2> QED
    BY <1>8, <2>1, <2>2 DEF clen
<1>25. x1 = data
  BY <1>8, <1>24 DEF x1
<1>26. z1 = z
  BY <1>2, <1>9, <1>10, <1>24, <1>25 DEF z1
<1>27. buf1 = u
  BY <1>2, <1>10, <1>11, <1>25, <1>26 DEF buf1
<1>28. Len(data) <= clen
  BY <1>8, <1>24
<1>29. br_eax_run(g, o, data) = [ctx |-> [g EXCEPT !.buf = u, !.ptr = g.ptr + k], out |-> z]
  BY <1>8, <1>19, <1>24, <1>26, <1>27, <1>28
<1>20. PICK h : h = [g EXCEPT !.buf = u, !.ptr = q]
  OBVIOUS
<1>21. h = EaxContext(y, u, q, nonce, head, cap, nonce, now)
  <2>1. EaxPut(h, g, u, q)
    BY <1>20 DEF EaxPut
  <2> QED
    BY <1>1, <2>1, EaxPutIs
<1>22. br_eax_run(g, o, data).ctx = h /\ br_eax_run(g, o, data).out = z
  BY <1>2, <1>10, <1>20, <1>29
<1>23. EaxRuns(h, nonce, head, c, o, in, v)
  BY <1>1, <1>3, <1>16, <1>17, <1>18, <1>21 DEF EaxRuns
<1> QED
  BY <1>3, <1>7, <1>10, <1>22, <1>23

\* Bytes that the block begun still needs, if there is one.
Needs(p, l) == l \in Nat /\ IF p = 0 \/ p = Block THEN l = 0 ELSE IsSum(Block, p, l)

\* What the MAC took once the block begun is complete, or when none is begun.
LEMMA EaxTaken ==
  ASSUME NEW y, NEW buf, NEW p, NEW y0, NEW f, NEW m, NEW l, NEW a, NEW u, NEW y1, NEW t,
         y0 = <<NumberBlock(t)>>, OmacAt(y, buf, p, t, f, m), IsSum(a, m, l),
         Needs(p, l),
         u = Put(buf, p, Span(f, m, l)), y1 = IF p = 0 THEN y ELSE mac(y, u)
  PROVE  Took(y1, y0, f, a) /\ Aligned(a) /\ a \div Block = Used(m) /\ IsText(u, Block)
<1>1. m \in Nat /\ IsText(buf, Block) /\ Block \in Nat /\ Block # 0
  BY BlockIs DEF OmacAt
<1>2. CASE p = 0 \/ p = Block
  <2>1. l = 0
    BY <1>2 DEF Needs
  <2>2. a = m
    BY <1>1, <2>1 DEF IsSum
  <2>3. IsText(Span(f, m, 0), 0)
    BY <1>1, SpanText
  <2>4. Span(f, m, l) = <<>>
    BY <2>1, <2>3, Empty DEF IsText
  <2>5. p \in Nat
    BY <1>1, <1>2
  <2>6. u = buf
    BY <1>1, <2>4, <2>5, PutNothing
  <2>7. PICK y2 : y2 = IF p = 0 THEN y ELSE mac(y, buf)
    OBVIOUS
  <2>8. y1 = y2
    BY <2>6, <2>7
  <2>9. Took(y2, <<NumberBlock(t)>>, f, m) /\ Aligned(m)
    BY <1>2, <2>7, OmacTakes
  <2>10. Used(m) = m \div Block
    BY <2>9, AlignedIs DEF Used
  <2> QED
    BY <1>1, <2>2, <2>6, <2>8, <2>9, <2>10
<1>3. CASE ~(p = 0 \/ p = Block)
  <2>1. Waits(y, buf, p, y0, f, m)
    BY <1>3 DEF OmacAt
  <2>2. IsSum(Block, p, l) /\ l \in Nat
    BY <1>3 DEF Needs
  <2>3. PICK w : Aligned(w) /\ p \in 1..Block /\ IsSum(m, w, p)
    BY <2>1 DEF Waits
  <2>4. Block <= Block
    BY <1>1
  <2>5. Waits(y, u, Block, y0, f, a)
    BY <2>1, <2>2, <2>4, WaitsMore
  <2>6. Took(mac(y, u), y0, f, a)
    BY <2>5, WaitedTakes
  <2>7. y1 = mac(y, u)
    BY <1>3
  <2>8. IsSum(a, w, Block)
    <3>1. w \in Nat /\ m = w + p /\ a = m + l /\ Block = p + l
      BY <2>2, <2>3, AlignedIs DEF IsSum
    <3>2. a = w + Block
      BY <2>2, <2>3, <3>1
    <3> QED
      BY <3>2 DEF IsSum
  <2>9. a = w + Block
    BY <2>8 DEF IsSum
  <2>10. Aligned(a) /\ a \div Block = (w \div Block) + (Block \div Block) /\ Block \div Block = 1
    BY <2>3, <2>9, OneBlock, AlignedSum
  <2>11. Used(m) = (w \div Block) + 1
    BY <2>3, BeforeAs
  <2>12. IsText(u, Block)
    BY <2>5 DEF Waits, Holding
  <2> QED
    BY <2>6, <2>7, <2>10, <2>11, <2>12
<1> QED
  BY <1>2, <1>3

\* What waits over the key stream, and what is left of it.
LEMMA SpareThen ==
  ASSUME NEW iv, NEW c, NEW b, NEW x, NEW v, NEW f, NEW key, NEW u, c \in Nat, Aligned(b),
         x \in 1..Block, IsSum(v, b, x), key = KeyStream(iv, c + (b \div Block), Block),
         u = Put(key, 0, Span(f, b, x))
  PROVE  Spare(u, x, iv, c, v)
<1>1. b \in Nat /\ x \in Nat /\ Block \in Nat
  BY AlignedIs, BlockIs
<1>2. PICK d : d = c + (b \div Block)
  OBVIOUS
<1>3. key = Span(KeyBytes(iv, c), b, Block)
  BY <1>1, <1>2, KeySpan
<1>4. \A i \in 1..Block : key[i] = KeyBytes(iv, c)[b + i]
  BY ONLY <1>1, <1>3, SpanText
<1>5. PICK s : s = Span(f, b, x)
  OBVIOUS
<1>6. IsText(s, x)
  BY ONLY <1>1, <1>5, SpanText
<1>7. PutAt(u, key, 0, s, x)
  BY <1>5, <1>6, PutText
<1>8. \A i \in 1..Block : u[i] = IF i \in (0 + 1)..(0 + x) THEN s[i - 0] ELSE key[i]
  BY <1>7 DEF PutAt
<1>9. \A i \in (x + 1)..Block : i \in 1..Block /\ i \notin (0 + 1)..(0 + x)
  BY <1>1
<1>10. \A i \in (x + 1)..Block : u[i] = KeyBytes(iv, c)[b + i]
  BY <1>4, <1>8, <1>9
<1> QED
  BY <1>10 DEF Spare

LEMMA EaxBeyond ==
  ASSUME NEW g, NEW nonce, NEW head, NEW c, NEW o, NEW in, NEW m, NEW k, NEW v, NEW l, k \in Nat,
         o \in BOOLEAN, EaxRuns(g, nonce, head, c, o, in, m), IsSum(v, m, k), l \in Nat, l < k,
         Needs(g.ptr, l)
  PROVE  /\ EaxRuns(br_eax_run(g, o, Span(in, m, k)).ctx, nonce, head, c, o, in, v)
         /\ br_eax_run(g, o, Span(in, m, k)).out = Span(OutOf(in, nonce, c), m, k)
<1>1. PICK y, buf, p, cap, now :
         /\ g = EaxContext(y, buf, p, nonce, head, cap, nonce, now) /\ now = c + Used(m)
         /\ c \in Nat /\ OmacAt(y, buf, p, 2, KeptOf(o, in, nonce, c), m)
         /\ Spare(buf, p, nonce, c, m)
  BY DEF EaxRuns
<1>2. g.mac = y /\ g.ptr = p /\ g.buf = buf /\ g.ctr = now /\ g.iv = nonce
  BY <1>1, EaxFields
<1>3. PICK out, kept, y0 : /\ out = OutOf(in, nonce, c) /\ kept = KeptOf(o, in, nonce, c)
                           /\ y0 = <<NumberBlock(2)>>
  OBVIOUS
<1>4. m \in Nat /\ IsText(buf, Block) /\ OmacAt(y, buf, p, 2, kept, m) /\ Block \in Nat \ {0}
  BY <1>1, <1>3, BlockIs DEF OmacAt
<1>5. p \in 0..Block /\ l \in Nat
  BY <1>4 DEF OmacAt, Waits, Needs
<1>6. PICK data : data = Span(in, m, k)
  OBVIOUS
<1>7. PICK a : a = m + l
  OBVIOUS
<1>8. IsSum(a, m, l)
  BY <1>7 DEF IsSum
<1>9. PICK s1, z, kz, u, y1 : /\ s1 = Span(in, m, l) /\ z = Span(out, m, l)
                              /\ kz = Span(kept, m, l) /\ u = Put(buf, p, kz)
                              /\ y1 = IF p = 0 THEN y ELSE mac(y, u)
  OBVIOUS
<1>10. Took(y1, y0, kept, a) /\ Aligned(a) /\ a \div Block = Used(m) /\ IsText(u, Block)
  <2>1. Needs(p, l)
    BY <1>2
  <2>2. y0 = <<NumberBlock(2)>> /\ u = Put(buf, p, Span(kept, m, l))
    BY <1>3, <1>9
  <2>3. y1 = IF p = 0 THEN y ELSE mac(y, u)
    BY <1>9
  <2> QED
    BY ONLY <1>4, <1>8, <2>1, <2>2, <2>3, EaxTaken
<1>11. PICK r, d, b, x : Held(m, k, l, a, r, d, b, x, v)
  BY <1>4, <1>8, <1>10, HeldExist
<1>12. /\ RunPieces(m, k, l, a, r, d, b, x) /\ r # 0 /\ d = Before(r)
       /\ Aligned(d) /\ x \in 1..Block /\ IsSum(v, b, x) /\ v \in Nat \ {0}
       /\ Used(v) = (b \div Block) + 1 /\ b \div Block = (a \div Block) + (d \div Block)
  BY <1>11 DEF Held
<1>13. Aligned(b) /\ IsSum(b, a, d) /\ r \in Nat /\ d \in Nat
  BY <1>12 DEF RunPieces
<1>14. PartedRun(in, out, nonce, c, m, k, l, r, d, a, b, x)
  BY <1>1, <1>3, <1>12, PartsOfPieces
<1>15. PICK s2, s3, t2, t3 : /\ s2 = Span(in, a, r) /\ s3 = Span(in, a, d) /\ t2 = Span(in, b, x)
                             /\ t3 = KeyStream(nonce, c + (b \div Block), Block)
  OBVIOUS
<1>16. PICK e, h : e = Span(out, a, d) /\ h = Span(out, b, x)
  OBVIOUS
<1>17. /\ First(data, l) = s1 /\ After(data, l) = s2 /\ First(s2, d) = s3 /\ After(s2, d) = t2
       /\ Len(data) = k /\ Len(s2) = r /\ Len(s3) = d /\ Len(t2) = x
       /\ (z \o e) \o h = Span(out, m, k)
  BY <1>6, <1>9, <1>14, <1>15, <1>16 DEF PartedRun
<1>18. XorBytes(s1, SubSeq(buf, p + 1, p + l)) = z
  <2>1. PICK i, q : IsSum(i, p, 1) /\ IsSum(q, p, l) /\ i = p + 1 /\ q = p + l
    BY DEF IsSum
  <2>2. p \in Nat
    BY <1>4, <1>5
  <2>3. p + l <= Block
    <3>1. CASE p = 0 \/ p = Block
      <4>1. l = 0
        BY <1>2, <3>1 DEF Needs
      <4> QED
        BY <1>4, <3>1, <4>1
    <3>2. CASE ~(p = 0 \/ p = Block)
      <4>1. Block = p + l
        BY <1>2, <3>2 DEF IsSum, Needs
      <4> QED
        BY <1>4, <4>1
    <3> QED
      BY <3>1, <3>2
  <2>4. LeftShows(buf, p, KeyBytes(nonce, c), m, l)
    <3>1. CASE p = 0 \/ p = Block
      <4>1. l = 0
        BY <1>2, <3>1 DEF Needs
      <4>2. \A ii \in 1..l : FALSE
        BY <4>1
      <4> QED
        BY <4>2 DEF LeftShows
    <3>2. CASE ~(p = 0 \/ p = Block)
      <4>1. m # 0
        BY <1>4, <3>2 DEF OmacAt
      <4> QED
        BY <1>1, <1>4, <2>2, <2>3, <4>1, SpareLeft
    <3> QED
      BY <3>1, <3>2
  <2>5. q <= Block
    BY <2>1, <2>3
  <2>6. XorBytes(Span(in, m, l), SubSeq(buf, i, q)) = Span(Mixed(in, KeyBytes(nonce, c)), m, l)
    BY <1>4, <2>1, <2>2, <2>4, <2>5, XorLeft
  <2> QED
    BY <1>3, <1>9, <2>1, <2>6 DEF OutOf
<1>19. PICK j, q : j = c + (b \div Block) /\ q = d \div Block
  OBVIOUS
<1>20. now = c + (a \div Block)
  BY <1>1, <1>10
<1>21. j = now + q
  <2>1. a \div Block \in Nat /\ d \div Block \in Nat
    BY <1>10, <1>12, AlignedIs
  <2> QED
    BY <1>1, <1>12, <1>19, <1>20, <2>1
<1>22. ctr(nonce, now, s3) = e /\ ctr(nonce, j, t2) = h
  BY <1>14, <1>15, <1>16, <1>19, <1>20 DEF PartedRun
<1>23. PICK ke, kh, y2, nb : /\ ke = Span(kept, a, d) /\ kh = Span(kept, b, x)
                             /\ y2 = mac(y1, ke) /\ nb = Put(t3, 0, kh)
  OBVIOUS
<1>24. Encrypted(o, s1, z) = kz /\ Encrypted(o, s3, e) = ke /\ Encrypted(o, t2, h) = kh
  BY <1>3, <1>9, <1>15, <1>16, <1>23 DEF Encrypted, KeptOf
<1>25. Waits(y2, nb, x, y0, kept, v)
  BY <1>10, <1>12, <1>13, <1>23, WaitsThen
<1>26. OmacAt(y2, nb, x, 2, kept, v)
  BY <1>3, <1>12, <1>25 DEF OmacAt, Waits, Holding
<1>27. Spare(nb, x, nonce, c, v)
  BY <1>1, <1>12, <1>13, <1>15, <1>23, SpareThen
<1>28. j + 1 = c + Used(v)
  <2>1. b \div Block \in Nat
    BY <1>13, AlignedIs
  <2> QED
    BY <1>1, <1>12, <1>19, <2>1
<1> DEFINE begun == g.ptr \notin {0, Block}
           clen == IF ~begun THEN 0
                   ELSE IF Len(data) <= Block - g.ptr THEN Len(data) ELSE Block - g.ptr
           x1 == First(data, clen)
           z1 == XorBytes(x1, SubSeq(g.buf, g.ptr + 1, g.ptr + clen))
           buf1 == Put(g.buf, g.ptr, Encrypted(o, x1, z1))
           w1 == IF g.ptr = 0 THEN g.mac ELSE mac(g.mac, buf1)
           rest == After(data, clen)
           d1 == First(rest, BeforeLast(rest))
           e1 == ctr(g.iv, g.ctr, d1)
           j1 == g.ctr + Len(d1) \div Block
           last == After(rest, Len(d1))
           h1 == ctr(g.iv, j1, last)
<1>29. br_eax_run(g, o, data)
         = IF data = <<>> THEN [ctx |-> g, out |-> <<>>]
           ELSE IF begun /\ Len(data) <= clen
             THEN [ctx |-> [g EXCEPT !.buf = buf1, !.ptr = @ + clen], out |-> z1]
             ELSE [ctx |-> [g EXCEPT
                     !.mac = mac(w1, Encrypted(o, d1, e1)), !.ctr = j1 + 1,
                     !.buf = Put(KeyStream(g.iv, j1, Block), 0, Encrypted(o, last, h1)),
                     !.ptr = Len(last)],
                   out |-> z1 \o e1 \o h1]
  BY DEF br_eax_run
<1> HIDE DEF begun, clen, x1, z1, buf1, w1, rest, d1, e1, j1, last, h1
<1>30. clen = l
  <2>1. CASE begun
    <3>1. ~(p = 0 \/ p = Block)
      BY <1>2, <2>1 DEF begun
    <3>2. Block = p + l
      BY <1>2, <3>1 DEF IsSum, Needs
    <3>3. Block - p = l /\ ~(k <= Block - p)
      BY <1>4, <1>5, <3>2
    <3> QED
      BY <1>2, <1>17, <2>1, <3>3 DEF clen
  <2>2. CASE ~begun
    <3>1. p = 0 \/ p = Block
      BY <1>2, <2>2 DEF begun
    <3> QED
      BY <1>2, <2>2, <3>1 DEF clen, Needs
  <2> QED
    BY <2>1, <2>2
<1>31. x1 = s1 /\ rest = s2
  BY <1>17, <1>30 DEF x1, rest
<1>32. z1 = z
  BY <1>2, <1>18, <1>30, <1>31 DEF z1
<1>33. buf1 = u
  BY <1>2, <1>9, <1>24, <1>31, <1>32 DEF buf1
<1>34. w1 = y1
  BY <1>2, <1>9, <1>33 DEF w1
<1>35. d1 = s3
  <2>1. BeforeLast(rest) = d
    BY <1>12, <1>17, <1>31 DEF BeforeLast, Before
  <2> QED
    BY <1>17, <1>31, <2>1 DEF d1
<1>36. e1 = e
  BY <1>2, <1>22, <1>35 DEF e1
<1>37. j1 = j
  BY <1>2, <1>17, <1>19, <1>21, <1>35 DEF j1
<1>38. last = t2
  BY <1>17, <1>31, <1>35 DEF last
<1>39. h1 = h
  BY <1>2, <1>22, <1>37, <1>38 DEF h1
<1>40. data # <<>> /\ ~(Len(data) <= clen)
  BY <1>17, <1>30, Empty
<1>41. /\ mac(w1, Encrypted(o, d1, e1)) = y2 /\ Len(last) = x
       /\ Put(KeyStream(g.iv, j1, Block), 0, Encrypted(o, last, h1)) = nb
  <2>1. KeyStream(g.iv, j1, Block) = t3
    BY <1>2, <1>15, <1>19, <1>37
  <2> QED
    BY <1>17, <1>23, <1>24, <1>34, <1>35, <1>36, <1>38, <1>39, <2>1
<1>42. br_eax_run(g, o, data)
         = [ctx |-> [g EXCEPT !.mac = y2, !.ctr = j1 + 1, !.buf = nb, !.ptr = x],
            out |-> z1 \o e1 \o h1]
  BY <1>29, <1>40, <1>41
<1>43. PICK g2, now2 : /\ g2 = [g EXCEPT !.mac = y2, !.ctr = now2, !.buf = nb, !.ptr = x]
                       /\ now2 = j1 + 1
  OBVIOUS
<1>44. g2 = EaxContext(y2, nb, x, nonce, head, cap, nonce, now2)
  <2>1. EaxRan(g2, g, y2, now2, nb, x)
    BY <1>43 DEF EaxRan
  <2> QED
    BY <1>1, <2>1, EaxRanIs
<1>45. now2 = c + Used(v)
  BY <1>28, <1>37, <1>43
<1>46. EaxRuns(g2, nonce, head, c, o, in, v)
  BY <1>1, <1>3, <1>26, <1>27, <1>44, <1>45 DEF EaxRuns
<1>47. br_eax_run(g, o, data).ctx = g2 /\ br_eax_run(g, o, data).out = Span(out, m, k)
  BY <1>17, <1>32, <1>36, <1>39, <1>42, <1>43
<1> QED
  BY <1>3, <1>6, <1>46, <1>47

\* br_eax_run, whatever is left of a block and whatever is given.
LEMMA EaxRunsOn ==
  ASSUME NEW g, NEW nonce, NEW head, NEW c, NEW o, NEW in, NEW m, NEW k, NEW v, k \in Nat,
         o \in BOOLEAN, EaxRuns(g, nonce, head, c, o, in, m), IsSum(v, m, k)
  PROVE  /\ EaxRuns(br_eax_run(g, o, Span(in, m, k)).ctx, nonce, head, c, o, in, v)
         /\ br_eax_run(g, o, Span(in, m, k)).out = Span(OutOf(in, nonce, c), m, k)
<1>1. m \in Nat /\ g.ptr \in 0..Block /\ Block \in Nat
  <2>1. PICK y, buf, p, cap, now :
          /\ g = EaxContext(y, buf, p, nonce, head, cap, nonce, now)
          /\ OmacAt(y, buf, p, 2, KeptOf(o, in, nonce, c), m)
    BY DEF EaxRuns
  <2>2. g.ptr = p
    BY <2>1, EaxFields
  <2> QED
    BY <2>1, <2>2, BlockIs DEF OmacAt, Waits
<1>2. CASE k = 0
  <2>1. IsText(Span(in, m, 0), 0) /\ IsText(Span(OutOf(in, nonce, c), m, 0), 0)
    BY <1>1, SpanText
  <2>2. Span(in, m, k) = <<>> /\ Span(OutOf(in, nonce, c), m, k) = <<>>
    BY <1>2, <2>1, Empty DEF IsText
  <2>3. br_eax_run(g, o, <<>>).ctx = g /\ br_eax_run(g, o, <<>>).out = <<>>
    BY DEF br_eax_run
  <2>4. v = m
    BY <1>1, <1>2 DEF IsSum
  <2> QED
    BY <2>2, <2>3, <2>4
<1>3. CASE k # 0 /\ g.ptr # 0 /\ g.ptr # Block /\ k <= Block - g.ptr
  BY <1>3, EaxWithin
<1>4. CASE k # 0 /\ (g.ptr = 0 \/ g.ptr = Block)
  <2>1. PICK l : l = 0
    OBVIOUS
  <2>2. l \in Nat /\ l < k
    BY <1>4, <2>1
  <2>3. Needs(g.ptr, l)
    BY <1>4, <2>1 DEF Needs
  <2> QED
    BY <2>2, <2>3, EaxBeyond
<1>5. CASE g.ptr # 0 /\ g.ptr # Block /\ ~(k <= Block - g.ptr)
  <2>1. PICK l : l = Block - g.ptr
    OBVIOUS
  <2>2. l \in Nat /\ l < k
    BY <1>1, <1>5, <2>1
  <2>3. Needs(g.ptr, l)
    <3>1. Block = g.ptr + l
      BY <1>1, <2>1
    <3> QED
      BY <1>5, <2>2, <3>1 DEF IsSum, Needs
  <2> QED
    BY <2>2, <2>3, EaxBeyond
<1> QED
  BY <1>2, <1>3, <1>4, <1>5

-----------------------------------------------------------------------------
(* How an EAX context begins and turns from the additional data to the data.  *)
LEMMA EaxPlace ==
  ASSUME NEW c, NEW t, NEW f, NEW n, NEW nonce, NEW head, NEW captured, NEW iv,
         EaxAt(c, t, f, n, nonce, head, captured, iv)
  PROVE  n \in Nat /\ (n # 0 => c.ptr # 0) /\ (n = 0 => c.ptr = 0 \/ c.ptr = Block)
<1>1. PICK y, buf, p : /\ c = EaxContext(y, buf, p, nonce, head, captured, iv, 0)
                       /\ OmacAt(y, buf, p, t, f, n)
  BY DEF EaxAt
<1>2. c.ptr = p
  BY <1>1, EaxFields
<1>3. n \in Nat /\ (n # 0 => p \in 1..Block) /\ (n = 0 => p = 0 \/ p = Block)
  BY <1>1 DEF OmacAt, Waits
<1> QED
  BY <1>2, <1>3, BlockIs

LEMMA ChunkPlace ==
  ASSUME NEW c, NEW t, NEW f, NEW n, NEW nonce, NEW head, NEW captured, NEW iv, NEW k, NEW v,
         k \in Nat, IsSum(v, n, k), EaxAt(c, t, f, n, nonce, head, captured, iv),
         c.ptr = 0 \/ c.ptr = Block, c.ptr # 0 \/ k # 0
  PROVE  do_cbcmac_chunk(c, Span(f, n, k)).ptr # 0
<1>1. n \in Nat
  BY EaxPlace
<1>2. CASE k = 0
  <2>1. IsText(Span(f, n, k), 0)
    BY <1>1, <1>2, SpanText
  <2>2. Span(f, n, k) = <<>>
    BY <2>1, Empty DEF IsText
  <2>3. do_cbcmac_chunk(c, <<>>) = c
    BY DEF do_cbcmac_chunk
  <2> QED
    BY <1>2, <2>2, <2>3
<1>3. CASE k # 0
  <2>1. v # 0
    BY <1>1, <1>3 DEF IsSum
  <2>2. EaxAt(do_cbcmac_chunk(c, Span(f, n, k)), t, f, v, nonce, head, captured, iv)
    BY EaxChunk
  <2> QED
    BY <2>1, <2>2, EaxPlace
<1> QED
  BY <1>2, <1>3

LEMMA InjectPlace ==
  ASSUME NEW c, NEW f, NEW n, NEW nonce, NEW head, NEW captured, NEW iv, NEW k, NEW v,
         k \in Nat, IsSum(v, n, k), EaxAt(c, 1, f, n, nonce, head, captured, iv),
         c.ptr < Block => k <= Block - c.ptr, c.ptr # 0
  PROVE  br_eax_aad_inject(c, Span(f, n, k)).ptr # 0
<1>1. n \in Nat
  BY EaxPlace
<1>2. CASE v = 0
  <2>1. n = 0 /\ k = 0 /\ Block \in Nat
    BY <1>1, <1>2, BlockIs DEF IsSum
  <2>2. c.ptr = Block
    BY <2>1, EaxPlace
  <2>3. IsText(Span(f, n, k), 0)
    BY <1>1, <2>1, SpanText
  <2>4. Span(f, n, k) = <<>>
    BY <2>3, Empty DEF IsText
  <2>5. PICK y, buf, p : c = EaxContext(y, buf, p, nonce, head, captured, iv, 0)
    BY DEF EaxAt
  <2>6. PICK s, r : s = Put(buf, Block, First(<<>>, 0)) /\ r = After(<<>>, 0)
    OBVIOUS
  <2>7. r = <<>>
    BY <2>6, Empty DEF After
  <2>8. br_eax_aad_inject(c, <<>>) = do_cbcmac_chunk([c EXCEPT !.buf = s], r)
    <3>1. ~(c.ptr < Block) /\ Block - 0 = Block /\ c.buf = buf
      BY <2>1, <2>2, <2>5 DEF EaxContext
    <3> QED
      BY <2>2, <2>6, <3>1 DEF br_eax_aad_inject
  <2>9. PICK h : h = [c EXCEPT !.buf = s]
    OBVIOUS
  <2>10. h.ptr = c.ptr
    BY <2>5, <2>9 DEF EaxContext
  <2>11. do_cbcmac_chunk(h, r) = h
    BY <2>7 DEF do_cbcmac_chunk
  <2> QED
    BY <2>1, <2>2, <2>4, <2>8, <2>9, <2>10, <2>11, BlockIs
<1>3. CASE v # 0
  <2>1. EaxAt(br_eax_aad_inject(c, Span(f, n, k)), 1, f, v, nonce, head, captured, iv)
    BY EaxInjects
  <2> QED
    BY <1>3, <2>1, EaxPlace
<1> QED
  BY <1>2, <1>3

\* do_pad.
LEMMA EaxPads ==
  ASSUME NEW c, NEW t, NEW f, NEW n, NEW nonce, NEW head, NEW captured, NEW iv,
         EaxAt(c, t, f, n, nonce, head, captured, iv), c.ptr # 0
  PROVE  \E buf, p : /\ do_pad(c) = EaxContext(Omac(t, Span(f, 0, n)), buf, p, nonce, head,
                                               captured, iv, 0)
                     /\ IsText(buf, Block)
<1>1. PICK y, buf, p : /\ c = EaxContext(y, buf, p, nonce, head, captured, iv, 0)
                       /\ OmacAt(y, buf, p, t, f, n)
  BY DEF EaxAt
<1>2. c.mac = y /\ c.buf = buf /\ c.ptr = p
  BY <1>1, EaxFields
<1>3. PICK x : x = mac(y, LastBlock(buf, p))
  OBVIOUS
<1>4. x = Omac(t, Span(f, 0, n))
  BY <1>1, <1>2, <1>3, OmacPads
<1>5. PICK h : h = [c EXCEPT !.mac = x] /\ h = EaxContext(x, buf, p, nonce, head, captured, iv, 0)
  BY <1>1, EaxMacIs
<1>6. do_pad(c) = h
  BY <1>2, <1>3, <1>5 DEF do_pad
<1>7. IsText(buf, Block)
  BY <1>1 DEF OmacAt
<1> QED
  BY <1>4, <1>5, <1>6, <1>7

LEMMA OmacStarts ==
  ASSUME NEW c, NEW t, NEW f, NEW y, NEW buf, NEW p, NEW nonce, NEW head, NEW captured, NEW iv,
         NEW now, c = EaxContext(y, buf, p, nonce, head, captured, iv, now)
  PROVE  /\ omac_start(c, t) = EaxContext(<<>>, NumberBlock(t), Block, nonce, head, captured, iv, now)
         /\ OmacAt(<<>>, NumberBlock(t), Block, t, f, 0)
<1>1. PICK h : h = omac_start(c, t)
  OBVIOUS
<1>2. EaxTook(h, c, <<>>, NumberBlock(t), Block)
  BY <1>1 DEF omac_start, EaxTook
<1>3. h = EaxContext(<<>>, NumberBlock(t), Block, nonce, head, captured, iv, now)
  BY <1>2, EaxTookIs
<1>4. OmacAt(<<>>, NumberBlock(t), Block, t, f, 0)
  BY NumberText DEF OmacAt
<1> QED
  BY <1>1, <1>3, <1>4

LEMMA NewEaxIs ==
  /\ NewEax = EaxContext(<<>>, Nulls(Block), 0, <<>>, <<>>, FALSE, <<>>, 0)
  /\ IsText(Nulls(Block), Block)
BY BlockIs, NullsText DEF NewEax, EaxContext

LEMMA CapturedIs ==
  ASSUME NEW t, t \in 0..2
  PROVE  br_eax_capture[t] = <<NumberBlock(t)>>
<1>1. IsText(NumberBlock(t), Block) /\ Cut(NumberBlock(t)) = <<NumberBlock(t)>>
  BY NumberText
<1>2. mac(<<>>, NumberBlock(t)) = <<NumberBlock(t)>>
  <2>1. IsString(<<NumberBlock(t)>>)
    BY Single
  <2> QED
    BY <1>1, <2>1, Empty DEF mac
<1> QED
  BY <1>2 DEF br_eax_capture

LEMMA NonceSpan ==
  ASSUME NEW n, n \in Nat
  PROVE  Nonce(n) = Span(Stream("nonce"), 0, n) /\ IsText(Nonce(n), n)
<1>1. Nonce(n) = Span(Stream("nonce"), 0, n)
  BY PieceSpan DEF Nonce
<1> QED
  BY <1>1, SpanText

\* The MAC of the nonce, from its start or from a captured state.
NonceDone(c, x) == \E buf, p : /\ c = EaxContext(x, buf, p, <<>>, <<>>, FALSE, <<>>, 0)
                               /\ IsText(buf, Block)

LEMMA NoncePads ==
  ASSUME NEW c, NEW n, n \in Nat, EaxAt(c, 0, Stream("nonce"), 0, <<>>, <<>>, FALSE, <<>>),
         c.ptr # 0 \/ n # 0
  PROVE  NonceDone(do_pad(do_cbcmac_chunk(c, Nonce(n))), Omac(0, Nonce(n)))
<1>1. PICK f, s, h, z : /\ f = Stream("nonce") /\ s = Nonce(n)
                        /\ h = do_cbcmac_chunk(c, s) /\ z \in Nat /\ z = 0
  OBVIOUS
<1>2. s = Span(f, z, n)
  BY <1>1, NonceSpan
<1>3. IsSum(n, z, n)
  BY <1>1 DEF IsSum
<1>4. EaxAt(c, 0, f, z, <<>>, <<>>, FALSE, <<>>)
  BY <1>1
<1>5. c.ptr = 0 \/ c.ptr = Block
  BY <1>1, EaxPlace
<1>6. EaxAt(do_cbcmac_chunk(c, Span(f, z, n)), 0, f, n, <<>>, <<>>, FALSE, <<>>)
  BY ONLY n \in Nat, <1>3, <1>4, <1>5, EaxChunk
<1>7. do_cbcmac_chunk(c, Span(f, z, n)).ptr # 0
  BY ONLY n \in Nat, c.ptr # 0 \/ n # 0, <1>3, <1>4, <1>5, ChunkPlace
<1>8. EaxAt(h, 0, f, n, <<>>, <<>>, FALSE, <<>>) /\ h.ptr # 0
  BY <1>1, <1>2, <1>6, <1>7
<1>9. \E buf, p : /\ do_pad(h) = EaxContext(Omac(0, Span(f, 0, n)), buf, p, <<>>, <<>>,
                                            FALSE, <<>>, 0)
                  /\ IsText(buf, Block)
  <2>1. PICK t, none, no : t = 0 /\ none = <<>> /\ no = FALSE
    OBVIOUS
  <2>2. EaxAt(h, t, f, n, none, none, no, none) /\ h.ptr # 0
    BY <1>8, <2>1
  <2>3. \E buf, p : /\ do_pad(h) = EaxContext(Omac(t, Span(f, 0, n)), buf, p, none, none,
                                               no, none, 0)
                    /\ IsText(buf, Block)
    BY ONLY <2>2, EaxPads
  <2> QED
    BY <2>1, <2>3
<1> QED
  BY <1>1, <1>2, <1>9 DEF NonceDone

LEMMA NonceStarts ==
  EaxAt(omac_start(NewEax, 0), 0, Stream("nonce"), 0, <<>>, <<>>, FALSE, <<>>)
    /\ omac_start(NewEax, 0).ptr # 0
<1>1. /\ omac_start(NewEax, 0)
           = EaxContext(<<>>, NumberBlock(0), Block, <<>>, <<>>, FALSE, <<>>, 0)
      /\ OmacAt(<<>>, NumberBlock(0), Block, 0, Stream("nonce"), 0)
  <2>1. PICK t, none, no, z, c, u :
          t = 0 /\ none = <<>> /\ no = FALSE /\ z = 0 /\ c = NewEax /\ u = Nulls(Block)
    OBVIOUS
  <2>2. c = EaxContext(none, u, z, none, none, no, none, z)
    BY <2>1, NewEaxIs
  <2>3. /\ omac_start(c, t) = EaxContext(<<>>, NumberBlock(t), Block, none, none, no, none, z)
        /\ OmacAt(<<>>, NumberBlock(t), Block, t, Stream("nonce"), 0)
    BY ONLY <2>2, OmacStarts
  <2> QED
    BY <2>1, <2>3
<1>2. omac_start(NewEax, 0).ptr # 0
  BY <1>1, BlockIs DEF EaxContext
<1> QED
  BY <1>1, <1>2 DEF EaxAt

LEMMA NonceFromIs ==
  ASSUME NEW st, NEW n, n \in Nat, st[0] = <<NumberBlock(0)>>
  PROVE  NonceDone(NonceFrom(st, Nonce(n)), Omac(0, Nonce(n)))
<1>1. IsText(Nonce(n), n)
  BY NonceSpan
<1>2. CASE Nonce(n) = <<>>
  <2>1. NonceFrom(st, Nonce(n)) = do_pad(omac_start(NewEax, 0))
    BY <1>2 DEF NonceFrom
  <2>2. do_cbcmac_chunk(omac_start(NewEax, 0), Nonce(n)) = omac_start(NewEax, 0)
    BY <1>2 DEF do_cbcmac_chunk
  <2>3. NonceDone(do_pad(do_cbcmac_chunk(omac_start(NewEax, 0), Nonce(n))), Omac(0, Nonce(n)))
    BY NonceStarts, NoncePads
  <2> QED
    BY <2>1, <2>2, <2>3
<1>3. CASE Nonce(n) # <<>>
  <2>1. PICK h, y, c : /\ c = NewEax /\ y = <<NumberBlock(0)>>
                       /\ h = [c EXCEPT !.mac = st[0], !.ptr = 0]
    OBVIOUS
  <2>2. NonceFrom(st, Nonce(n)) = do_pad(do_cbcmac_chunk(h, Nonce(n)))
    BY <1>3, <2>1 DEF NonceFrom
  <2>3. PICK a : a = [c EXCEPT !.mac = st[0]]
    OBVIOUS
  <2>4. a = EaxContext(y, Nulls(Block), 0, <<>>, <<>>, FALSE, <<>>, 0)
    BY <2>1, <2>3, NewEaxIs DEF EaxContext
  <2>11. PICK e : e = [a EXCEPT !.ptr = 0]
    OBVIOUS
  <2>5. e = EaxContext(y, Nulls(Block), 0, <<>>, <<>>, FALSE, <<>>, 0)
    BY <2>4, <2>11 DEF EaxContext
  <2>6. [[c EXCEPT !.mac = st[0]] EXCEPT !.ptr = 0] = [c EXCEPT !.mac = st[0], !.ptr = 0]
    OBVIOUS
  <2>7. h = EaxContext(y, Nulls(Block), 0, <<>>, <<>>, FALSE, <<>>, 0)
    BY <2>1, <2>3, <2>5, <2>6, <2>11
  <2>8. OmacAt(y, Nulls(Block), 0, 0, Stream("nonce"), 0)
    BY <2>1, NewEaxIs DEF OmacAt
  <2>9. EaxAt(h, 0, Stream("nonce"), 0, <<>>, <<>>, FALSE, <<>>)
    BY <2>7, <2>8 DEF EaxAt
  <2>10. n # 0
    BY <1>1, <1>3, Empty DEF IsText
  <2> QED
    BY <2>2, <2>9, <2>10, NoncePads
<1> QED
  BY <1>2, <1>3

LEMMA EaxResets ==
  ASSUME NEW n, NEW f, n \in Nat
  PROVE  /\ EaxAt(br_eax_reset(Nonce(n)), 1, f, 0, Omac(0, Nonce(n)), <<>>, FALSE, <<>>)
         /\ br_eax_reset(Nonce(n)).ptr # 0
<1>1. PICK c : c = do_pad(do_cbcmac_chunk(omac_start(NewEax, 0), Nonce(n)))
  OBVIOUS
<1>2. PICK x : x = Omac(0, Nonce(n))
  OBVIOUS
<1>3. NonceDone(c, x)
  BY <1>1, <1>2, NonceStarts, NoncePads
<1>4. PICK buf, p : c = EaxContext(x, buf, p, <<>>, <<>>, FALSE, <<>>, 0)
  BY <1>3 DEF NonceDone
<1>5. PICK d : d = omac_start(c, 1)
  OBVIOUS
<1>6. /\ d = EaxContext(<<>>, NumberBlock(1), Block, <<>>, <<>>, FALSE, <<>>, 0)
      /\ OmacAt(<<>>, NumberBlock(1), Block, 1, f, 0)
  <2>1. PICK t, none, no, z : t = 1 /\ none = <<>> /\ no = FALSE /\ z = 0
    OBVIOUS
  <2>2. c = EaxContext(x, buf, p, none, none, no, none, z)
    BY <1>4, <2>1
  <2>3. /\ omac_start(c, t) = EaxContext(<<>>, NumberBlock(t), Block, none, none, no, none, z)
        /\ OmacAt(<<>>, NumberBlock(t), Block, t, f, 0)
    BY ONLY <2>2, OmacStarts
  <2> QED
    BY <1>5, <2>1, <2>3
<1>7. PICK e : e = [d EXCEPT !.nonce = x]
  OBVIOUS
<1>8. e = EaxContext(<<>>, NumberBlock(1), Block, x, <<>>, FALSE, <<>>, 0)
  BY <1>6, <1>7 DEF EaxContext
<1>9. PICK h : h = [e EXCEPT !.captured = FALSE]
  OBVIOUS
<1>10. h = EaxContext(<<>>, NumberBlock(1), Block, x, <<>>, FALSE, <<>>, 0)
  BY <1>8, <1>9 DEF EaxContext
<1>11. [[d EXCEPT !.nonce = x] EXCEPT !.captured = FALSE] = [d EXCEPT !.nonce = x, !.captured = FALSE]
  OBVIOUS
<1>12. c.mac = x
  BY <1>4 DEF EaxContext
<1>13. br_eax_reset(Nonce(n)) = h
  BY <1>1, <1>5, <1>7, <1>9, <1>11, <1>12 DEF br_eax_reset
<1>14. h.ptr # 0
  BY <1>10, BlockIs DEF EaxContext
<1> QED
  BY <1>2, <1>6, <1>10, <1>13, <1>14 DEF EaxAt

\* br_eax_reset_pre_aad: ctr holds the third state.
LEMMA EaxResetsPre ==
  ASSUME NEW n, NEW f, n \in Nat
  PROVE  EaxAt(br_eax_reset_pre_aad(br_eax_capture, Nonce(n)), 1, f, 0, Omac(0, Nonce(n)), <<>>,
               TRUE, <<NumberBlock(2)>>)
<1>1. PICK st : st = br_eax_capture
  OBVIOUS
<1>2. st[0] = <<NumberBlock(0)>> /\ st[1] = <<NumberBlock(1)>> /\ st[2] = <<NumberBlock(2)>>
  BY <1>1, CapturedIs
<1>3. PICK c, x : c = NonceFrom(st, Nonce(n)) /\ x = Omac(0, Nonce(n))
  OBVIOUS
<1>4. NonceDone(c, x)
  BY <1>2, <1>3, NonceFromIs
<1>5. PICK buf, p : /\ c = EaxContext(x, buf, p, <<>>, <<>>, FALSE, <<>>, 0)
                    /\ IsText(buf, Block)
  BY <1>4 DEF NonceDone
<1>6. PICK y, iv : y = <<NumberBlock(1)>> /\ iv = <<NumberBlock(2)>>
  OBVIOUS
<1>7. PICK c1 : c1 = [c EXCEPT !.nonce = x]
  OBVIOUS
<1>8. c1 = EaxContext(x, buf, p, x, <<>>, FALSE, <<>>, 0)
  BY <1>5, <1>7 DEF EaxContext
<1>9. PICK c2 : c2 = [c1 EXCEPT !.mac = y]
  OBVIOUS
<1>10. c2 = EaxContext(y, buf, p, x, <<>>, FALSE, <<>>, 0)
  BY <1>8, <1>9 DEF EaxContext
<1>11. PICK c3 : c3 = [c2 EXCEPT !.ptr = 0]
  OBVIOUS
<1>12. c3 = EaxContext(y, buf, 0, x, <<>>, FALSE, <<>>, 0)
  BY <1>10, <1>11 DEF EaxContext
<1>13. PICK c4 : c4 = [c3 EXCEPT !.iv = iv]
  OBVIOUS
<1>14. c4 = EaxContext(y, buf, 0, x, <<>>, FALSE, iv, 0)
  BY <1>12, <1>13 DEF EaxContext
<1>15. PICK c5 : c5 = [c4 EXCEPT !.captured = TRUE]
  OBVIOUS
<1>16. c5 = EaxContext(y, buf, 0, x, <<>>, TRUE, iv, 0)
  BY <1>14, <1>15 DEF EaxContext
<1>17. [[[[[c EXCEPT !.nonce = x] EXCEPT !.mac = y] EXCEPT !.ptr = 0] EXCEPT !.iv = iv]
          EXCEPT !.captured = TRUE]
         = [c EXCEPT !.nonce = x, !.mac = y, !.ptr = 0, !.iv = iv, !.captured = TRUE]
  OBVIOUS
<1>18. c.mac = x
  BY <1>5 DEF EaxContext
<1>19. br_eax_reset_pre_aad(st, Nonce(n))
         = [c EXCEPT !.nonce = x, !.mac = y, !.ptr = 0, !.iv = iv, !.captured = TRUE]
  BY <1>2, <1>3, <1>6, <1>18 DEF br_eax_reset_pre_aad
<1>20. br_eax_reset_pre_aad(st, Nonce(n)) = c5
  BY <1>7, <1>9, <1>11, <1>13, <1>15, <1>17, <1>19
<1>21. OmacAt(y, buf, 0, 1, f, 0)
  BY <1>5, <1>6 DEF OmacAt
<1> QED
  BY <1>1, <1>3, <1>6, <1>16, <1>20, <1>21 DEF EaxAt

\* A MAC that was given nothing yet.
OmacNew(y, buf, p, t) ==
  IsText(buf, Block) /\ \/ p = Block /\ y = <<>> /\ buf = NumberBlock(t)
                        \/ p = 0 /\ y = <<NumberBlock(t)>>

LEMMA EaxRunBegins ==
  ASSUME NEW g, NEW y, NEW buf, NEW p, NEW nonce, NEW head, NEW cap, NEW o, NEW in,
         g = EaxContext(y, buf, p, nonce, head, cap, nonce, 0), OmacNew(y, buf, p, 2)
  PROVE  EaxRuns(g, nonce, head, 0, o, in, 0)
<1>1. Used(0) = 0
  <2>1. IsString(<<>>)
    BY Empty
  <2> QED
    BY <2>1, NothingTaken
<1>2. 0 + Used(0) = 0
  BY <1>1
<1>3. OmacAt(y, buf, p, 2, KeptOf(o, in, nonce, 0), 0)
  BY DEF OmacNew, OmacAt
<1>4. Spare(buf, p, nonce, 0, 0)
  BY DEF Spare
<1> QED
  BY <1>2, <1>3, <1>4 DEF EaxRuns

\* br_eax_flip. The state captured for the data was kept where the counter will be.
LEMMA EaxFlips ==
  ASSUME NEW c, NEW f, NEW n, NEW nonce, NEW head, NEW cap, NEW iv, NEW o, NEW in,
         EaxAt(c, 1, f, n, nonce, head, cap, iv), c.ptr # 0, cap \in BOOLEAN,
         cap => iv = <<NumberBlock(2)>>
  PROVE  /\ EaxRuns(br_eax_flip(c), nonce, Omac(1, Span(f, 0, n)), 0, o, in, 0)
         /\ ~cap => br_eax_flip(c).ptr # 0
         /\ br_eax_flip(c).head = Omac(1, Span(f, 0, n))
<1>1. PICK done : done = do_pad(c)
  OBVIOUS
<1>2. PICK x : x = Omac(1, Span(f, 0, n))
  OBVIOUS
<1>3. PICK buf, p : /\ done = EaxContext(x, buf, p, nonce, head, cap, iv, 0)
                    /\ IsText(buf, Block)
  <2>1. PICK t : t = 1
    OBVIOUS
  <2>2. EaxAt(c, t, f, n, nonce, head, cap, iv)
    BY <2>1
  <2>3. \E buf, p : /\ do_pad(c) = EaxContext(Omac(t, Span(f, 0, n)), buf, p, nonce, head,
                                               cap, iv, 0)
                    /\ IsText(buf, Block)
    BY ONLY <2>2, c.ptr # 0, EaxPads
  <2> QED
    BY <1>1, <1>2, <2>1, <2>3
<1>4. c.captured = cap /\ c.iv = iv /\ c.nonce = nonce
  BY DEF EaxAt, EaxContext
<1>5. done.mac = x
  BY <1>3 DEF EaxContext
<1>6. PICK d : d = [done EXCEPT !.head = x]
  OBVIOUS
<1>7. d = EaxContext(x, buf, p, nonce, x, cap, iv, 0)
  BY <1>3, <1>6 DEF EaxContext
<1>8. PICK e : e = IF cap THEN [d EXCEPT !.mac = iv, !.ptr = 0] ELSE omac_start(d, 2)
  OBVIOUS
<1>9. \E y, b, q : /\ e = EaxContext(y, b, q, nonce, x, cap, iv, 0)
                   /\ OmacNew(y, b, q, 2) /\ (~cap => q # 0)
  <2>1. CASE cap
    <3>1. PICK a : a = [d EXCEPT !.mac = iv]
      OBVIOUS
    <3>2. a = EaxContext(iv, buf, p, nonce, x, cap, iv, 0)
      BY <1>7, <3>1 DEF EaxContext
    <3>3. PICK h : h = [a EXCEPT !.ptr = 0]
      OBVIOUS
    <3>4. h = EaxContext(iv, buf, 0, nonce, x, cap, iv, 0)
      BY <3>2, <3>3 DEF EaxContext
    <3>5. [[d EXCEPT !.mac = iv] EXCEPT !.ptr = 0] = [d EXCEPT !.mac = iv, !.ptr = 0]
      OBVIOUS
    <3>6. e = h
      BY <1>8, <2>1, <3>1, <3>3, <3>5
    <3>7. OmacNew(iv, buf, 0, 2)
      BY <1>3, <2>1 DEF OmacNew
    <3> QED
      BY <2>1, <3>4, <3>6, <3>7
  <2>2. CASE ~cap
    <3>1. PICK t, z : t = 2 /\ z = 0
      OBVIOUS
    <3>2. d = EaxContext(x, buf, p, nonce, x, cap, iv, z)
      BY <1>7, <3>1
    <3>3. omac_start(d, t) = EaxContext(<<>>, NumberBlock(t), Block, nonce, x, cap, iv, z)
      BY ONLY <3>2, OmacStarts
    <3>4. OmacNew(<<>>, NumberBlock(2), Block, 2)
      BY NumberText DEF OmacNew
    <3>5. e = omac_start(d, t)
      BY <1>8, <2>2, <3>1
    <3>6. e = EaxContext(<<>>, NumberBlock(2), Block, nonce, x, cap, iv, 0)
      BY <3>1, <3>3, <3>5
    <3> QED
      BY <3>4, <3>6, BlockIs
  <2> QED
    BY <2>1, <2>2
<1>10. PICK y, b, q : /\ e = EaxContext(y, b, q, nonce, x, cap, iv, 0)
                      /\ OmacNew(y, b, q, 2) /\ (~cap => q # 0)
  BY <1>9
<1>11. PICK g : g = [e EXCEPT !.iv = nonce]
  OBVIOUS
<1>12. g = EaxContext(y, b, q, nonce, x, cap, nonce, 0)
  BY <1>10, <1>11 DEF EaxContext
<1>13. PICK h : h = [g EXCEPT !.ctr = 0]
  OBVIOUS
<1>14. h = EaxContext(y, b, q, nonce, x, cap, nonce, 0)
  BY <1>12, <1>13 DEF EaxContext
<1>15. [[e EXCEPT !.iv = nonce] EXCEPT !.ctr = 0] = [e EXCEPT !.iv = nonce, !.ctr = 0]
  OBVIOUS
<1>16. br_eax_flip(c) = [e EXCEPT !.iv = nonce, !.ctr = 0]
  <2>1. PICK r : r = (IF c.captured THEN [d EXCEPT !.mac = c.iv, !.ptr = 0] ELSE omac_start(d, 2))
    OBVIOUS
  <2>2. r = e
    BY <1>4, <1>8, <2>1
  <2>3. br_eax_flip(c) = [r EXCEPT !.iv = c.nonce, !.ctr = 0]
    BY <1>1, <1>5, <1>6, <2>1 DEF br_eax_flip
  <2> QED
    BY <1>4, <2>2, <2>3
<1>17. br_eax_flip(c) = h
  BY <1>11, <1>13, <1>15, <1>16
<1>18. EaxRuns(h, nonce, x, 0, o, in, 0)
  BY <1>10, <1>14, EaxRunBegins
<1>19. h.ptr = q /\ h.head = x
  BY <1>14 DEF EaxContext
<1> QED
  BY <1>2, <1>10, <1>17, <1>18, <1>19

LEMMA AadStateIs ==
  ASSUME NEW k, k \in Nat
  PROVE  /\ AadState(Aad(k))[0] = <<NumberBlock(0)>>
         /\ AadState(Aad(k))[1] = Omac(1, Aad(k))
         /\ AadState(Aad(k))[2] = <<NumberBlock(2)>>
<1>1. PICK c, x, f, z, s : /\ c = br_eax_reset(<<>>) /\ x = Omac(0, Nonce(0))
                           /\ f = Stream("aad") /\ z \in Nat /\ z = 0 /\ s = Aad(k)
  OBVIOUS
<1>2. Nonce(0) = <<>>
  <2>1. IsText(Nonce(0), 0)
    BY NonceSpan
  <2> QED
    BY <2>1, Empty DEF IsText
<1>3. EaxAt(c, 1, f, z, x, <<>>, FALSE, <<>>) /\ c.ptr # 0
  <2>1. /\ EaxAt(br_eax_reset(Nonce(z)), 1, f, 0, Omac(0, Nonce(z)), <<>>, FALSE, <<>>)
        /\ br_eax_reset(Nonce(z)).ptr # 0
    BY <1>1, EaxResets
  <2> QED
    BY <1>1, <1>2, <2>1
<1>4. s = Span(f, z, k) /\ s = Span(f, 0, k)
  BY <1>1, TextSpan
<1>5. IsSum(k, z, k)
  BY <1>1 DEF IsSum
<1>6. PICK none, no : none = <<>> /\ no = FALSE
  OBVIOUS
<1>7. EaxAt(c, 1, f, z, x, none, no, none)
  BY <1>3, <1>6
<1>8. ~(c.ptr < Block)
  <2>1. c.ptr = 0 \/ c.ptr = Block
    BY ONLY <1>1, <1>7, EaxPlace
  <2> QED
    BY <1>3, <2>1, BlockIs
<1>9. PICK h : h = br_eax_aad_inject(c, s)
  OBVIOUS
<1>10. EaxAt(h, 1, f, k, x, none, no, none) /\ h.ptr # 0
  <2>1. EaxAt(br_eax_aad_inject(c, Span(f, z, k)), 1, f, k, x, none, no, none)
    BY ONLY k \in Nat, <1>5, <1>7, <1>8, EaxInjects
  <2>2. br_eax_aad_inject(c, Span(f, z, k)).ptr # 0
    BY ONLY k \in Nat, <1>3, <1>5, <1>7, <1>8, InjectPlace
  <2> QED
    BY <1>4, <1>9, <2>1, <2>2
<1>11. br_eax_flip(h).head = Omac(1, s)
  <2>1. no \in BOOLEAN /\ (no => none = <<NumberBlock(2)>>)
    BY <1>6
  <2>2. PICK o, in : o = no /\ in = f
    OBVIOUS
  <2>3. br_eax_flip(h).head = Omac(1, Span(f, 0, k))
    BY ONLY <1>10, <2>1, EaxFlips
  <2> QED
    BY <1>4, <2>3
<1>12. PICK st, w : st = br_eax_capture /\ w = Omac(1, s)
  OBVIOUS
<1>13. AadState(s) = [st EXCEPT ![1] = w]
  BY <1>1, <1>9, <1>11, <1>12 DEF AadState
<1>14. st = [t \in 0..2 |-> mac(<<>>, NumberBlock(t))]
  BY <1>12 DEF br_eax_capture
<1>15. 0 \in 0..2 /\ 1 \in 0..2 /\ 2 \in 0..2
  OBVIOUS
<1>16. DOMAIN st = 0..2
  BY <1>14
<1>17. PICK u : u = [st EXCEPT ![1] = w]
  OBVIOUS
<1>18. u[0] = st[0] /\ u[1] = w /\ u[2] = st[2]
  BY <1>14, <1>15, <1>16, <1>17
<1>19. st[0] = <<NumberBlock(0)>> /\ st[2] = <<NumberBlock(2)>>
  BY <1>12, <1>15, CapturedIs
<1> QED
  BY <1>1, <1>12, <1>13, <1>17, <1>18, <1>19

\* br_eax_reset_post_aad.
LEMMA EaxResetsPost ==
  ASSUME NEW n, NEW k, NEW o, NEW in, n \in Nat, k \in Nat
  PROVE  EaxRuns(br_eax_reset_post_aad(AadState(Aad(k)), Nonce(n)), Omac(0, Nonce(n)),
                 Omac(1, Aad(k)), 0, o, in, 0)
<1>1. PICK st, w : st = AadState(Aad(k)) /\ w = Omac(1, Aad(k))
  OBVIOUS
<1>2. st[0] = <<NumberBlock(0)>> /\ st[1] = w /\ st[2] = <<NumberBlock(2)>>
  BY <1>1, AadStateIs
<1>3. PICK c, x : c = NonceFrom(st, Nonce(n)) /\ x = Omac(0, Nonce(n))
  OBVIOUS
<1>4. NonceDone(c, x)
  BY <1>2, <1>3, NonceFromIs
<1>5. PICK buf, p : /\ c = EaxContext(x, buf, p, <<>>, <<>>, FALSE, <<>>, 0)
                    /\ IsText(buf, Block)
  BY <1>4 DEF NonceDone
<1>6. PICK y : y = <<NumberBlock(2)>>
  OBVIOUS
<1>7. PICK c1 : c1 = [c EXCEPT !.nonce = x]
  OBVIOUS
<1>8. c1 = EaxContext(x, buf, p, x, <<>>, FALSE, <<>>, 0)
  BY <1>5, <1>7 DEF EaxContext
<1>9. PICK c2 : c2 = [c1 EXCEPT !.iv = x]
  OBVIOUS
<1>10. c2 = EaxContext(x, buf, p, x, <<>>, FALSE, x, 0)
  BY <1>8, <1>9 DEF EaxContext
<1>11. PICK c3 : c3 = [c2 EXCEPT !.head = w]
  OBVIOUS
<1>12. c3 = EaxContext(x, buf, p, x, w, FALSE, x, 0)
  BY <1>10, <1>11 DEF EaxContext
<1>13. PICK c4 : c4 = [c3 EXCEPT !.mac = y]
  OBVIOUS
<1>14. c4 = EaxContext(y, buf, p, x, w, FALSE, x, 0)
  BY <1>12, <1>13 DEF EaxContext
<1>15. PICK c5 : c5 = [c4 EXCEPT !.ptr = 0]
  OBVIOUS
<1>16. c5 = EaxContext(y, buf, 0, x, w, FALSE, x, 0)
  BY <1>14, <1>15 DEF EaxContext
<1>17. [[[[[c EXCEPT !.nonce = x] EXCEPT !.iv = x] EXCEPT !.head = w] EXCEPT !.mac = y]
          EXCEPT !.ptr = 0]
         = [c EXCEPT !.nonce = x, !.iv = x, !.head = w, !.mac = y, !.ptr = 0]
  OBVIOUS
<1>18. c.mac = x
  BY <1>5 DEF EaxContext
<1>19. br_eax_reset_post_aad(st, Nonce(n))
         = [c EXCEPT !.nonce = x, !.iv = x, !.head = w, !.mac = y, !.ptr = 0]
  BY <1>2, <1>3, <1>6, <1>18 DEF br_eax_reset_post_aad
<1>20. br_eax_reset_post_aad(st, Nonce(n)) = c5
  BY <1>7, <1>9, <1>11, <1>13, <1>15, <1>17, <1>19
<1>21. OmacNew(y, buf, 0, 2)
  BY <1>5, <1>6 DEF OmacNew
<1>22. EaxRuns(c5, x, w, 0, o, in, 0)
  <2>1. PICK q, cap : q = 0 /\ cap = FALSE
    OBVIOUS
  <2>2. c5 = EaxContext(y, buf, q, x, w, cap, x, 0) /\ OmacNew(y, buf, q, 2)
    BY <1>16, <1>21, <2>1
  <2> QED
    BY ONLY <2>2, EaxRunBegins
<1> QED
  BY <1>1, <1>3, <1>20, <1>22

\* The exclusive or of three blocks, in any order.
LEMMA XorThree ==
  ASSUME NEW a, NEW b, NEW c
  PROVE  XorBytes(MacBytes(a), XorBytes(MacBytes(b), MacBytes(c)))
           = XorBytes(MacBytes(b), XorBytes(MacBytes(c), MacBytes(a)))
<1>1. Block \in Nat
  BY BlockIs
<1>2. \A y : IsText(MacBytes(y), Block)
  BY <1>1, StringOf DEF MacBytes, IsText
<1>3. PICK s, t, u : s = MacBytes(a) /\ t = MacBytes(b) /\ u = MacBytes(c)
  OBVIOUS
<1>4. /\ IsString(s) /\ IsString(t) /\ IsString(u)
      /\ Len(s) = Block /\ Len(t) = Block /\ Len(u) = Block
  BY <1>2, <1>3 DEF IsText
<1> DEFINE Both(p, q) == [i \in 1..Block |-> (p[i] \ q[i]) \cup (q[i] \ p[i])]
<1>5. XorBytes(t, u) = Both(t, u) /\ XorBytes(u, s) = Both(u, s)
  BY <1>4 DEF XorBytes
<1>6. XorBytes(s, Both(t, u)) = Both(s, Both(t, u)) /\ XorBytes(t, Both(u, s)) = Both(t, Both(u, s))
  BY <1>4 DEF XorBytes
<1>7. ASSUME NEW i \in 1..Block
      PROVE  (s[i] \ Both(t, u)[i]) \cup (Both(t, u)[i] \ s[i])
               = (t[i] \ Both(u, s)[i]) \cup (Both(u, s)[i] \ t[i])
  <2>1. Both(t, u)[i] = (t[i] \ u[i]) \cup (u[i] \ t[i])
    OBVIOUS
  <2>2. Both(u, s)[i] = (u[i] \ s[i]) \cup (s[i] \ u[i])
    OBVIOUS
  <2> QED
    BY <2>1, <2>2
<1>8. Both(s, Both(t, u)) = Both(t, Both(u, s))
  BY <1>7
<1> QED
  BY <1>3, <1>5, <1>6, <1>8

LEMMA EaxSums ==
  ASSUME NEW g, NEW nonce, NEW head, NEW o, NEW in, NEW m,
         EaxRuns(g, nonce, head, 0, o, in, m), g.ptr # 0
  PROVE  br_eax_get_tag(g)
           = XorBytes(MacBytes(Omac(2, Span(KeptOf(o, in, nonce, 0), 0, m))),
                      XorBytes(MacBytes(nonce), MacBytes(head)))
<1>1. PICK y, buf, p, cap, now :
         /\ g = EaxContext(y, buf, p, nonce, head, cap, nonce, now)
         /\ OmacAt(y, buf, p, 2, KeptOf(o, in, nonce, 0), m)
  BY DEF EaxRuns
<1>2. g.mac = y /\ g.buf = buf /\ g.ptr = p
  BY <1>1, EaxFields
<1>3. PICK t, f, x : t = 2 /\ f = KeptOf(o, in, nonce, 0) /\ x = mac(y, LastBlock(buf, p))
  OBVIOUS
<1>4. OmacAt(y, buf, p, t, f, m) /\ p # 0
  BY <1>1, <1>2, <1>3
<1>5. mac(y, LastBlock(buf, p)) = Omac(t, Span(f, 0, m))
  BY ONLY <1>4, OmacPads
<1>6. PICK h : /\ h = [g EXCEPT !.mac = x]
               /\ h = EaxContext(x, buf, p, nonce, head, cap, nonce, now)
  BY <1>1, EaxMacIs
<1>7. do_pad(g) = h
  BY <1>2, <1>3, <1>6 DEF do_pad
<1>8. h.mac = x /\ h.nonce = nonce /\ h.head = head
  BY <1>6 DEF EaxContext
<1> QED
  BY <1>3, <1>5, <1>7, <1>8 DEF br_eax_get_tag, Sum

\* The tag of EAX, with any nonce and any additional data.
LEMMA EaxTags ==
  ASSUME NEW g, NEW n, NEW k, NEW e, NEW m, NEW x, m \in Nat, x = Omac(0, Nonce(n)),
         EaxRuns(g, x, Omac(1, Aad(k)), 0, e, InOf(e, x, 0), m), g.ptr # 0
  PROVE  br_eax_get_tag(g) = EaxTag(Nonce(n), Aad(k), ctr(x, 0, Text(m)))
<1>1. PICK h, in, z : h = Omac(1, Aad(k)) /\ in = InOf(e, x, 0) /\ z \in Nat /\ z = 0
  OBVIOUS
<1>2. EaxRuns(g, x, h, 0, e, in, m)
  BY <1>1
<1>3. br_eax_get_tag(g)
        = XorBytes(MacBytes(Omac(2, Span(KeptOf(e, in, x, 0), 0, m))),
                   XorBytes(MacBytes(x), MacBytes(h)))
  BY ONLY <1>2, g.ptr # 0, EaxSums
<1>4. KeptOf(e, in, x, 0) = OutOf(Stream("text"), x, 0)
  BY <1>1, KeptCipher
<1>5. ctr(x, z, Text(m)) = Span(OutOf(Stream("text"), x, z), 0, m)
  BY <1>1, CipherSpan
<1>6. PICK c : c = Omac(2, ctr(x, 0, Text(m)))
  OBVIOUS
<1>7. Omac(2, Span(KeptOf(e, in, x, 0), 0, m)) = c
  BY <1>1, <1>4, <1>5, <1>6
<1>8. XorBytes(MacBytes(c), XorBytes(MacBytes(x), MacBytes(h)))
        = XorBytes(MacBytes(x), XorBytes(MacBytes(h), MacBytes(c)))
  BY XorThree
<1> QED
  BY <1>1, <1>3, <1>6, <1>7, <1>8 DEF EaxTag

LEMMA EaxRunPlace ==
  ASSUME NEW g, NEW nonce, NEW head, NEW c, NEW o, NEW in, NEW m,
         EaxRuns(g, nonce, head, c, o, in, m)
  PROVE  m \in Nat /\ (m # 0 => g.ptr # 0)
<1>1. PICK y, buf, p, cap, now :
         /\ g = EaxContext(y, buf, p, nonce, head, cap, nonce, now)
         /\ OmacAt(y, buf, p, 2, KeptOf(o, in, nonce, c), m)
  BY DEF EaxRuns
<1>2. g.ptr = p
  BY <1>1, EaxFields
<1>3. m \in Nat /\ (m # 0 => p \in 1..Block)
  BY <1>1 DEF OmacAt, Waits
<1> QED
  BY <1>2, <1>3, BlockIs

LEMMA EaxPlaceOn ==
  ASSUME NEW g, NEW nonce, NEW head, NEW c, NEW o, NEW in, NEW m, NEW k, NEW v, k \in Nat,
         o \in BOOLEAN, EaxRuns(g, nonce, head, c, o, in, m), IsSum(v, m, k), g.ptr # 0
  PROVE  br_eax_run(g, o, Span(in, m, k)).ctx.ptr # 0
<1>1. m \in Nat
  BY EaxRunPlace
<1>2. CASE k = 0
  <2>1. IsText(Span(in, m, k), 0)
    BY <1>1, <1>2, SpanText
  <2>2. Span(in, m, k) = <<>>
    BY <2>1, Empty DEF IsText
  <2>3. br_eax_run(g, o, <<>>).ctx = g
    BY DEF br_eax_run
  <2> QED
    BY <2>2, <2>3
<1>3. CASE k # 0
  <2>1. EaxRuns(br_eax_run(g, o, Span(in, m, k)).ctx, nonce, head, c, o, in, v)
    BY EaxRunsOn
  <2>2. v # 0
    BY <1>1, <1>3 DEF IsSum
  <2> QED
    BY <2>1, <2>2, EaxRunPlace
<1> QED
  BY <1>2, <1>3

-----------------------------------------------------------------------------
(* The job: one use of a context.                                            *)
AeadRecord(mode, e, nonce, at, n, told, m, ctx, out) ==
  [kind |-> "aead", mode |-> mode, encrypt |-> e, nonce |-> nonce, at |-> at,
   n |-> n, told |-> told, m |-> m, ctx |-> ctx, out |-> out]

LEMMA AeadFields ==
  ASSUME NEW j, NEW mode, NEW e, NEW nonce, NEW at, NEW n, NEW told, NEW m, NEW ctx, NEW out,
         j = AeadRecord(mode, e, nonce, at, n, told, m, ctx, out)
  PROVE  /\ j.kind = "aead" /\ j.mode = mode /\ j.encrypt = e /\ j.nonce = nonce /\ j.at = at
         /\ j.n = n /\ j.told = told /\ j.m = m /\ j.ctx = ctx /\ j.out = out
BY DEF AeadRecord

GaveAad(h, j, n, ctx) == h = [j EXCEPT !.n = n, !.ctx = ctx]
TurnedTo(h, j, at, ctx) == h = [j EXCEPT !.at = at, !.ctx = ctx]
GaveData(h, j, m, ctx, out) == h = [j EXCEPT !.m = m, !.ctx = ctx, !.out = out]

LEMMA GivenAad ==
  ASSUME NEW j, NEW mode, NEW e, NEW nonce, NEW at, NEW n, NEW told, NEW m, NEW ctx, NEW out,
         NEW n2, NEW ctx2, NEW j2, j = AeadRecord(mode, e, nonce, at, n, told, m, ctx, out),
         GaveAad(j2, j, n2, ctx2)
  PROVE  j2 = AeadRecord(mode, e, nonce, at, n2, told, m, ctx2, out)
<1>1. PICK h : h = [j EXCEPT !.n = n2]
  OBVIOUS
<1>2. h = AeadRecord(mode, e, nonce, at, n2, told, m, ctx, out)
  BY <1>1 DEF AeadRecord
<1>3. PICK g : g = [h EXCEPT !.ctx = ctx2]
  OBVIOUS
<1>4. g = AeadRecord(mode, e, nonce, at, n2, told, m, ctx2, out)
  BY <1>2, <1>3 DEF AeadRecord
<1>5. [[j EXCEPT !.n = n2] EXCEPT !.ctx = ctx2] = [j EXCEPT !.n = n2, !.ctx = ctx2]
  OBVIOUS
<1> QED
  BY <1>1, <1>3, <1>4, <1>5 DEF GaveAad

LEMMA Turned ==
  ASSUME NEW j, NEW mode, NEW e, NEW nonce, NEW at, NEW n, NEW told, NEW m, NEW ctx, NEW out,
         NEW at2, NEW ctx2, NEW j2, j = AeadRecord(mode, e, nonce, at, n, told, m, ctx, out),
         TurnedTo(j2, j, at2, ctx2)
  PROVE  j2 = AeadRecord(mode, e, nonce, at2, n, told, m, ctx2, out)
<1>1. PICK h : h = [j EXCEPT !.at = at2]
  OBVIOUS
<1>2. h = AeadRecord(mode, e, nonce, at2, n, told, m, ctx, out)
  BY <1>1 DEF AeadRecord
<1>3. PICK g : g = [h EXCEPT !.ctx = ctx2]
  OBVIOUS
<1>4. g = AeadRecord(mode, e, nonce, at2, n, told, m, ctx2, out)
  BY <1>2, <1>3 DEF AeadRecord
<1>5. [[j EXCEPT !.at = at2] EXCEPT !.ctx = ctx2] = [j EXCEPT !.at = at2, !.ctx = ctx2]
  OBVIOUS
<1> QED
  BY <1>1, <1>3, <1>4, <1>5 DEF TurnedTo

LEMMA GivenData ==
  ASSUME NEW j, NEW mode, NEW e, NEW nonce, NEW at, NEW n, NEW told, NEW m, NEW ctx, NEW out,
         NEW m2, NEW ctx2, NEW out2, NEW j2,
         j = AeadRecord(mode, e, nonce, at, n, told, m, ctx, out), GaveData(j2, j, m2, ctx2, out2)
  PROVE  j2 = AeadRecord(mode, e, nonce, at, n, told, m2, ctx2, out2)
<1>1. PICK h : h = [j EXCEPT !.m = m2]
  OBVIOUS
<1>2. h = AeadRecord(mode, e, nonce, at, n, told, m2, ctx, out)
  BY <1>1 DEF AeadRecord
<1>3. PICK g : g = [h EXCEPT !.ctx = ctx2]
  OBVIOUS
<1>4. g = AeadRecord(mode, e, nonce, at, n, told, m2, ctx2, out)
  BY <1>2, <1>3 DEF AeadRecord
<1>5. PICK d : d = [g EXCEPT !.out = out2]
  OBVIOUS
<1>6. d = AeadRecord(mode, e, nonce, at, n, told, m2, ctx2, out2)
  BY <1>4, <1>5 DEF AeadRecord
<1>7. [[[j EXCEPT !.m = m2] EXCEPT !.ctx = ctx2] EXCEPT !.out = out2]
        = [j EXCEPT !.m = m2, !.ctx = ctx2, !.out = out2]
  OBVIOUS
<1> QED
  BY <1>1, <1>3, <1>5, <1>6, <1>7 DEF GaveData

\* Additional data, in whatever mode.
LEMMA AadStep ==
  ASSUME NEW mode, NEW e, NEW nonce, NEW at, NEW n, NEW told, NEW m, NEW ctx, NEW out,
         job = AeadRecord(mode, e, nonce, at, n, told, m, ctx, out), AeadAad
  PROVE  /\ at = "aad"
         /\ \E k, v, new : /\ k \in Nat
                           /\ MayGive(k) /\ IsSum(v, n, k)
                           /\ new = AadInject(Piece("aad", n, k))
                           /\ job' = AeadRecord(mode, e, nonce, at, v, told, m, new, out)
<1>1. job.at = at /\ job.n = n
  BY AeadFields
<1>2. PICK k \in 0..MaxText :
        /\ MayGive(k)
        /\ job' = [job EXCEPT !.n = @ + k, !.ctx = AadInject(Piece("aad", job.n, k))]
  BY DEF AeadAad
<1>3. PICK v, new : v = n + k /\ new = AadInject(Piece("aad", n, k))
  OBVIOUS
<1>4. GaveAad(job', job, v, new)
  BY <1>1, <1>2, <1>3 DEF GaveAad
<1>5. job' = AeadRecord(mode, e, nonce, at, v, told, m, new, out)
  BY <1>4, GivenAad
<1>6. k \in Nat
  BY AeadAssumption
<1>7. at = "aad"
  BY <1>1 DEF AeadAad
<1>8. IsSum(v, n, k)
  BY <1>3 DEF IsSum
<1> QED
  BY <1>2, <1>3, <1>5, <1>6, <1>7, <1>8

FlipOf(mode, ctx) ==
  CASE mode = "gcm" -> br_gcm_flip(ctx)
    [] mode = "ccm" -> br_ccm_flip(ctx)
    [] OTHER -> br_eax_flip(ctx)

LEMMA FlipStep ==
  ASSUME NEW mode, NEW e, NEW nonce, NEW at, NEW n, NEW told, NEW m, NEW ctx, NEW out,
         job = AeadRecord(mode, e, nonce, at, n, told, m, ctx, out), AeadFlip
  PROVE  /\ at = "aad" /\ (mode = "ccm" => n = told[1]) /\ (mode = "eax_pre" => n > 0)
         /\ job' = AeadRecord(mode, e, nonce, "data", n, told, m, FlipOf(mode, ctx), out)
<1>1. job.at = at /\ job.n = n /\ job.mode = mode /\ job.ctx = ctx /\ job.told = told
  BY AeadFields
<1>2. PICK at2, new : at2 = "data" /\ new = FlipOf(mode, ctx)
  OBVIOUS
<1>3. TurnedTo(job', job, at2, new)
  BY <1>1, <1>2 DEF AeadFlip, FlipOf, TurnedTo
<1>4. job' = AeadRecord(mode, e, nonce, at2, n, told, m, new, out)
  BY <1>3, Turned
<1> QED
  BY <1>1, <1>2, <1>4 DEF AeadFlip

CipherOf(mode, nonce, n) ==
  CASE mode = "gcm" -> ctr("iv", 2, Text(n))
    [] mode = "ccm" -> ctr("nonce", 1, Text(n))
    [] OTHER -> ctr(Omac(0, Nonce(nonce)), 0, Text(n))
DataOf(mode, e, nonce, m, v) ==
  After(IF e THEN Text(v) ELSE CipherOf(mode, nonce, v), m)
RunOf(mode, e, ctx, data) ==
  CASE mode = "gcm" -> br_gcm_run(ctx, e, data)
    [] mode = "ccm" -> br_ccm_run(ctx, e, data)
    [] OTHER -> br_eax_run(ctx, e, data)

LEMMA RunStep ==
  ASSUME NEW mode, NEW e, NEW nonce, NEW at, NEW n, NEW told, NEW m, NEW ctx, NEW out,
         job = AeadRecord(mode, e, nonce, at, n, told, m, ctx, out), AeadRun
  PROVE  /\ at = "data"
         /\ \E k, v, new :
              /\ k \in Nat
              /\ IsSum(v, m, k) /\ new = RunOf(mode, e, ctx, DataOf(mode, e, nonce, m, v))
              /\ job' = AeadRecord(mode, e, nonce, at, n, told, v, new.ctx, out \o new.out)
<1>1. /\ job.at = at /\ job.n = n /\ job.mode = mode /\ job.ctx = ctx /\ job.encrypt = e
      /\ job.m = m /\ job.out = out /\ job.nonce = nonce
  BY AeadFields
<1>2. \A v : Cipher(v) = CipherOf(mode, nonce, v)
  BY <1>1 DEF Cipher, CipherOf
<1> DEFINE Data(k) == After(IF job.encrypt THEN Text(job.m + k) ELSE Cipher(job.m + k), job.m)
           R(k) == CASE job.mode = "gcm" -> br_gcm_run(job.ctx, job.encrypt, Data(k))
                     [] job.mode = "ccm" -> br_ccm_run(job.ctx, job.encrypt, Data(k))
                     [] OTHER -> br_eax_run(job.ctx, job.encrypt, Data(k))
<1>3. PICK k \in 0..MaxText :
        job' = [job EXCEPT !.m = @ + k, !.ctx = R(k).ctx, !.out = @ \o R(k).out]
  BY DEF AeadRun
<1>4. PICK v : v = m + k
  OBVIOUS
<1>5. Data(k) = DataOf(mode, e, nonce, m, v)
  BY <1>1, <1>2, <1>4 DEF DataOf
<1>6. PICK data : data = DataOf(mode, e, nonce, m, v)
  OBVIOUS
<1>7. R(k) = RunOf(mode, e, ctx, data)
  <2>1. Data(k) = data
    BY <1>5, <1>6
  <2> HIDE DEF Data
  <2> QED
    BY <1>1, <2>1 DEF RunOf
<1> HIDE DEF R
<1>8. PICK new, new2, ctx2 : /\ new = RunOf(mode, e, ctx, data) /\ new2 = out \o new.out
                             /\ ctx2 = new.ctx
  OBVIOUS
<1>9. GaveData(job', job, v, ctx2, new2)
  BY <1>1, <1>3, <1>4, <1>7, <1>8 DEF GaveData
<1>10. job' = AeadRecord(mode, e, nonce, at, n, told, v, ctx2, new2)
  BY <1>9, GivenData
<1>11. k \in Nat
  BY AeadAssumption
<1>12. at = "data"
  BY <1>1 DEF AeadRun
<1>13. IsSum(v, m, k)
  BY <1>4 DEF IsSum
<1> QED
  BY <1>6, <1>8, <1>10, <1>11, <1>12, <1>13

\* What came out so far.
IsOut(out, e, iv, c, m) == out = Span(ResultOf(e, iv, c), 0, m)

LEMMA OutNothing ==
  ASSUME NEW e, NEW iv, NEW c
  PROVE  IsOut(<<>>, e, iv, c, 0)
<1>1. IsText(Span(ResultOf(e, iv, c), 0, 0), 0)
  BY SpanText
<1> QED
  BY <1>1, Empty DEF IsText, IsOut

LEMMA OutMore ==
  ASSUME NEW out, NEW new, NEW e, NEW iv, NEW c, NEW m, NEW k, NEW v, m \in Nat, k \in Nat,
         IsSum(v, m, k), IsOut(out, e, iv, c, m), new = Span(OutOf(InOf(e, iv, c), iv, c), m, k)
  PROVE  IsOut(out \o new, e, iv, c, v)
<1>1. new = Span(ResultOf(e, iv, c), m, k)
  BY OutputSpan
<1>2. PICK f : f = ResultOf(e, iv, c)
  OBVIOUS
<1>3. IsJoin(Span(f, 0, v), Span(f, 0, m), Span(f, m, k))
  BY HeadJoined
<1> QED
  BY <1>1, <1>2, <1>3 DEF IsOut, IsJoin

LEMMA OutIs ==
  ASSUME NEW out, NEW e, NEW iv, NEW c, NEW m, c \in Nat, m \in Nat, IsOut(out, e, iv, c, m)
  PROVE  out = IF e THEN ctr(iv, c, Text(m)) ELSE Text(m)
<1>1. ctr(iv, c, Text(m)) = Span(OutOf(Stream("text"), iv, c), 0, m)
  BY CipherSpan
<1>2. Text(m) = Span(Stream("text"), 0, m)
  BY TextSpan
<1> QED
  BY <1>1, <1>2 DEF IsOut, ResultOf

-----------------------------------------------------------------------------
(* A job in GCM.                                                             *)
GcmGood(j) ==
  \E e, nonce, at, n, told, m, ctx, out :
    /\ j = AeadRecord("gcm", e, nonce, at, n, told, m, ctx, out)
    /\ e \in BOOLEAN /\ n \in Nat /\ m \in Nat /\ IsOut(out, e, "iv", 2, m)
    /\ at = "aad" => m = 0 /\ GcmAad(ctx, Stream("aad"), n)
    /\ at = "data" => GcmRuns(ctx, Stream("aad"), n, e, InOf(e, "iv", 2), m)

LEMMA GcmStarts ==
  ASSUME NEW e \in BOOLEAN, NEW j, j = Aead("gcm", e, 0, "aad", 0, br_gcm_reset)
  PROVE  GcmGood(j)
<1>1. j = AeadRecord("gcm", e, 0, "aad", 0, <<>>, 0, br_gcm_reset, <<>>)
  BY DEF Aead, AeadRecord
<1>2. GcmAad(br_gcm_reset, Stream("aad"), 0)
  BY GcmBegins
<1>3. IsOut(<<>>, e, "iv", 2, 0)
  BY OutNothing
<1>4. PICK nonce, at, n, told, m, ctx, out :
        /\ nonce = 0 /\ at = "aad" /\ n = 0 /\ told = <<>> /\ m = 0 /\ ctx = br_gcm_reset
        /\ out = <<>>
  OBVIOUS
<1>5. /\ j = AeadRecord("gcm", e, nonce, at, n, told, m, ctx, out)
      /\ n \in Nat /\ m \in Nat /\ IsOut(out, e, "iv", 2, m) /\ at # "data"
      /\ m = 0 /\ GcmAad(ctx, Stream("aad"), n)
  BY <1>1, <1>2, <1>3, <1>4
<1> QED
  BY <1>5 DEF GcmGood

LEMMA GcmAadWorks ==
  ASSUME GcmGood(job), AeadAad
  PROVE  GcmGood(job')
<1>1. PICK e, nonce, at, n, told, m, ctx, out :
        /\ job = AeadRecord("gcm", e, nonce, at, n, told, m, ctx, out)
        /\ e \in BOOLEAN /\ n \in Nat /\ m \in Nat /\ IsOut(out, e, "iv", 2, m)
        /\ at = "aad" => m = 0 /\ GcmAad(ctx, Stream("aad"), n)
  BY DEF GcmGood
<1>2. /\ at = "aad"
      /\ \E k, v, new : /\ k \in Nat
                        /\ MayGive(k) /\ IsSum(v, n, k)
                        /\ new = AadInject(Piece("aad", n, k))
                        /\ job' = AeadRecord("gcm", e, nonce, at, v, told, m, new, out)
  BY <1>1, AadStep
<1>3. PICK k, v, new : /\ k \in Nat
                       /\ IsSum(v, n, k) /\ new = AadInject(Piece("aad", n, k))
                       /\ job' = AeadRecord("gcm", e, nonce, at, v, told, m, new, out)
  BY <1>2
<1>4. job.mode = "gcm" /\ job.ctx = ctx
  BY <1>1, AeadFields
<1>5. Piece("aad", n, k) = Span(Stream("aad"), n, k)
  BY <1>1, <1>3, PieceSpan
<1>6. new = br_gcm_aad_inject(ctx, Span(Stream("aad"), n, k))
  BY <1>3, <1>4, <1>5 DEF AadInject
<1>7. GcmAad(new, Stream("aad"), v)
  BY <1>1, <1>2, <1>3, <1>6, GcmInjects
<1>8. v \in Nat
  BY <1>1, <1>3 DEF IsSum
<1>9. at # "data"
  BY <1>2
<1> QED
  BY <1>1, <1>2, <1>3, <1>7, <1>8, <1>9 DEF GcmGood

LEMMA GcmFlipWorks ==
  ASSUME GcmGood(job), AeadFlip
  PROVE  GcmGood(job')
<1>1. PICK e, nonce, at, n, told, m, ctx, out :
        /\ job = AeadRecord("gcm", e, nonce, at, n, told, m, ctx, out)
        /\ e \in BOOLEAN /\ n \in Nat /\ m \in Nat /\ IsOut(out, e, "iv", 2, m)
        /\ at = "aad" => m = 0 /\ GcmAad(ctx, Stream("aad"), n)
  BY DEF GcmGood
<1>2. /\ at = "aad"
      /\ job' = AeadRecord("gcm", e, nonce, "data", n, told, m, FlipOf("gcm", ctx), out)
  BY <1>1, FlipStep
<1>3. PICK at2, new : at2 = "data" /\ new = br_gcm_flip(ctx)
  OBVIOUS
<1>4. job' = AeadRecord("gcm", e, nonce, at2, n, told, m, new, out)
  BY <1>2, <1>3 DEF FlipOf
<1>5. GcmRuns(new, Stream("aad"), n, e, InOf(e, "iv", 2), m)
  BY <1>1, <1>2, <1>3, GcmFlips
<1>6. at2 # "aad"
  BY <1>3
<1> QED
  BY <1>1, <1>4, <1>5, <1>6 DEF GcmGood

LEMMA GcmRunWorks ==
  ASSUME GcmGood(job), AeadRun
  PROVE  GcmGood(job')
<1>1. PICK e, nonce, at, n, told, m, ctx, out :
        /\ job = AeadRecord("gcm", e, nonce, at, n, told, m, ctx, out)
        /\ e \in BOOLEAN /\ n \in Nat /\ m \in Nat /\ IsOut(out, e, "iv", 2, m)
        /\ at = "data" => GcmRuns(ctx, Stream("aad"), n, e, InOf(e, "iv", 2), m)
  BY DEF GcmGood
<1>2. /\ at = "data"
      /\ \E k, v, new :
           /\ k \in Nat
           /\ IsSum(v, m, k) /\ new = RunOf("gcm", e, ctx, DataOf("gcm", e, nonce, m, v))
           /\ job' = AeadRecord("gcm", e, nonce, at, n, told, v, new.ctx, out \o new.out)
  BY <1>1, RunStep
<1>3. PICK k, v, new :
        /\ k \in Nat
        /\ IsSum(v, m, k) /\ new = RunOf("gcm", e, ctx, DataOf("gcm", e, nonce, m, v))
        /\ job' = AeadRecord("gcm", e, nonce, at, n, told, v, new.ctx, out \o new.out)
  BY <1>2
<1>4. PICK in : in = InOf(e, "iv", 2)
  OBVIOUS
<1>5. DataOf("gcm", e, nonce, m, v) = Span(in, m, k)
  BY <1>1, <1>3, <1>4, InputSpan DEF DataOf, CipherOf
<1>6. new = br_gcm_run(ctx, e, Span(in, m, k))
  BY <1>3, <1>5 DEF RunOf
<1>7. GcmRuns(ctx, Stream("aad"), n, e, in, m)
  BY <1>1, <1>2, <1>4
<1>8. /\ GcmRuns(br_gcm_run(ctx, e, Span(in, m, k)).ctx, Stream("aad"), n, e, in, v)
      /\ br_gcm_run(ctx, e, Span(in, m, k)).out = Span(OutOf(in, "iv", 2), m, k)
  BY ONLY <1>1, <1>3, <1>7, GcmRunsOn
<1>9. PICK ctx2, out2 : ctx2 = new.ctx /\ out2 = out \o new.out
  OBVIOUS
<1>10. GcmRuns(ctx2, Stream("aad"), n, e, in, v) /\ new.out = Span(OutOf(in, "iv", 2), m, k)
  BY <1>6, <1>8, <1>9
<1>11. IsOut(out2, e, "iv", 2, v)
  BY <1>1, <1>3, <1>4, <1>9, <1>10, OutMore
<1>12. v \in Nat
  BY <1>1, <1>3 DEF IsSum
<1>13. at # "aad" /\ job' = AeadRecord("gcm", e, nonce, at, n, told, v, ctx2, out2)
  BY <1>2, <1>3, <1>9
<1> QED
  BY <1>1, <1>4, <1>10, <1>11, <1>12, <1>13 DEF GcmGood

LEMMA GcmAgrees ==
  ASSUME GcmGood(job), job.at = "data"
  PROVE  /\ job.mode = "gcm"
         /\ job.out = IF job.encrypt THEN Cipher(job.m) ELSE Text(job.m)
         /\ br_gcm_get_tag(job.ctx) = GcmTag(Aad(job.n), Cipher(job.m))
<1>1. PICK e, nonce, at, n, told, m, ctx, out :
        /\ job = AeadRecord("gcm", e, nonce, at, n, told, m, ctx, out)
        /\ e \in BOOLEAN /\ n \in Nat /\ m \in Nat /\ IsOut(out, e, "iv", 2, m)
        /\ at = "data" => GcmRuns(ctx, Stream("aad"), n, e, InOf(e, "iv", 2), m)
  BY DEF GcmGood
<1>2. /\ job.mode = "gcm" /\ job.encrypt = e /\ job.m = m /\ job.n = n /\ job.ctx = ctx
      /\ job.out = out /\ job.at = at
  BY <1>1, AeadFields
<1>3. Cipher(m) = ctr("iv", 2, Text(m))
  BY <1>2 DEF Cipher
<1>4. out = IF e THEN ctr("iv", 2, Text(m)) ELSE Text(m)
  BY <1>1, OutIs
<1>5. PICK in : in = InOf(e, "iv", 2)
  OBVIOUS
<1>6. GcmRuns(ctx, Stream("aad"), n, e, in, m)
  BY <1>1, <1>2, <1>5
<1>7. br_gcm_get_tag(ctx) = GcmTag(Span(Stream("aad"), 0, n), Span(KeptOf(e, in, "iv", 2), 0, m))
  BY ONLY <1>1, <1>6, GcmTags
<1>8. KeptOf(e, in, "iv", 2) = OutOf(Stream("text"), "iv", 2)
  BY <1>5, KeptCipher
<1>9. ctr("iv", 2, Text(m)) = Span(OutOf(Stream("text"), "iv", 2), 0, m)
  BY <1>1, CipherSpan
<1>10. Aad(n) = Span(Stream("aad"), 0, n)
  BY <1>1, TextSpan
<1>11. br_gcm_get_tag(ctx) = GcmTag(Aad(n), Cipher(m))
  BY <1>3, <1>7, <1>8, <1>9, <1>10
<1> QED
  BY <1>2, <1>3, <1>4, <1>11

-----------------------------------------------------------------------------
(* A job in CCM, that was told the lengths t and d.                          *)
Told(told, t, d) == told = <<t, d>> /\ t \in Nat /\ d \in Nat
CcmStart(t, d, u) == Cut(FirstBlock(t, d)) \o Cut(Filled(Span(CcmStream(t), 0, u)))
CcmAdds(ctx, t, d, n) ==
  \E h, a : h = HeaderLen(t) /\ IsSum(a, h, n) /\ CcmAad(ctx, CcmStream(t), Cut(FirstBlock(t, d)), a)
CcmGoes(ctx, t, d, n, e, m) ==
  \E o, h, u : /\ n = t /\ Other(o, e) /\ h = HeaderLen(t) /\ IsSum(u, h, t)
               /\ CcmRuns(ctx, CcmStart(t, d, u), o, InOf(e, "nonce", 1), m)

CcmGood(j) ==
  \E e, nonce, at, n, told, m, ctx, out, t, d :
    /\ j = AeadRecord("ccm", e, nonce, at, n, told, m, ctx, out)
    /\ e \in BOOLEAN /\ n \in Nat /\ m \in Nat /\ Told(told, t, d) /\ IsOut(out, e, "nonce", 1, m)
    /\ at = "aad" => m = 0 /\ CcmAdds(ctx, t, d, n)
    /\ at = "data" => CcmGoes(ctx, t, d, n, e, m)

LEMMA CcmStarts ==
  ASSUME NEW e \in BOOLEAN, NEW t \in Nat, NEW d \in Nat, NEW j,
         j = [Aead("ccm", e, 0, "aad", 0, br_ccm_reset(t, d)) EXCEPT !.told = <<t, d>>]
  PROVE  CcmGood(j)
<1>1. PICK c, s : c = br_ccm_reset(t, d) /\ s = <<t, d>>
  OBVIOUS
<1>2. PICK i : i = Aead("ccm", e, 0, "aad", 0, c)
  OBVIOUS
<1>3. i = AeadRecord("ccm", e, 0, "aad", 0, <<>>, 0, c, <<>>)
  BY <1>2 DEF Aead, AeadRecord
<1>4. PICK g : g = [i EXCEPT !.told = s]
  OBVIOUS
<1>5. g = AeadRecord("ccm", e, 0, "aad", 0, s, 0, c, <<>>)
  BY <1>3, <1>4 DEF AeadRecord
<1>6. j = g
  BY <1>1, <1>2, <1>4
<1>7. CcmAdds(c, t, d, 0)
  <2>1. PICK h : h = HeaderLen(t)
    OBVIOUS
  <2>2. CcmAad(c, CcmStream(t), Cut(FirstBlock(t, d)), h)
    BY <1>1, <2>1, CcmBegins
  <2>3. h \in Nat
    BY <2>1, HeaderText
  <2>4. IsSum(h, h, 0)
    BY <2>3 DEF IsSum
  <2> QED
    BY <2>1, <2>2, <2>4 DEF CcmAdds
<1>8. IsOut(<<>>, e, "nonce", 1, 0) /\ Told(s, t, d)
  BY <1>1, OutNothing DEF Told
<1>9. PICK nonce, at, n, m, out : nonce = 0 /\ at = "aad" /\ n = 0 /\ m = 0 /\ out = <<>>
  OBVIOUS
<1>10. /\ j = AeadRecord("ccm", e, nonce, at, n, s, m, c, out)
       /\ n \in Nat /\ m \in Nat /\ IsOut(out, e, "nonce", 1, m) /\ at # "data"
       /\ m = 0 /\ CcmAdds(c, t, d, n)
  BY <1>5, <1>6, <1>7, <1>8, <1>9
<1>11. /\ j = AeadRecord("ccm", e, nonce, at, n, s, m, c, out)
       /\ e \in BOOLEAN /\ n \in Nat /\ m \in Nat /\ Told(s, t, d) /\ IsOut(out, e, "nonce", 1, m)
       /\ at = "aad" => m = 0 /\ CcmAdds(c, t, d, n)
       /\ at = "data" => CcmGoes(c, t, d, n, e, m)
  BY <1>8, <1>10
<1> QED
  BY ONLY <1>11 DEF CcmGood

LEMMA CcmAadWorks ==
  ASSUME CcmGood(job), AeadAad
  PROVE  CcmGood(job')
<1>1. PICK e, nonce, at, n, told, m, ctx, out, t, d :
        /\ job = AeadRecord("ccm", e, nonce, at, n, told, m, ctx, out)
        /\ e \in BOOLEAN /\ n \in Nat /\ m \in Nat /\ Told(told, t, d)
        /\ IsOut(out, e, "nonce", 1, m)
        /\ at = "aad" => m = 0 /\ CcmAdds(ctx, t, d, n)
  BY DEF CcmGood
<1>2. /\ at = "aad"
      /\ \E k, v, new : /\ k \in Nat
                        /\ MayGive(k) /\ IsSum(v, n, k)
                        /\ new = AadInject(Piece("aad", n, k))
                        /\ job' = AeadRecord("ccm", e, nonce, at, v, told, m, new, out)
  BY <1>1, AadStep
<1>3. PICK k, v, new : /\ k \in Nat
                       /\ IsSum(v, n, k) /\ new = AadInject(Piece("aad", n, k))
                       /\ job' = AeadRecord("ccm", e, nonce, at, v, told, m, new, out)
  BY <1>2
<1>4. job.mode = "ccm" /\ job.ctx = ctx
  BY <1>1, AeadFields
<1>5. t \in Nat /\ d \in Nat
  BY <1>1 DEF Told
<1>6. PICK h, a : /\ h = HeaderLen(t) /\ IsSum(a, h, n)
                  /\ CcmAad(ctx, CcmStream(t), Cut(FirstBlock(t, d)), a)
  BY <1>1, <1>2 DEF CcmAdds
<1>7. Piece("aad", n, k) = Span(CcmStream(t), a, k)
  BY <1>1, <1>3, <1>5, <1>6, CcmPiece
<1>8. new = br_ccm_aad_inject(ctx, Span(CcmStream(t), a, k))
  BY <1>3, <1>4, <1>7 DEF AadInject
<1>9. a \in Nat
  BY <1>1, <1>5, <1>6, HeaderText DEF IsSum
<1>10. PICK b : IsSum(b, a, k)
  BY DEF IsSum
<1>11. CcmAad(new, CcmStream(t), Cut(FirstBlock(t, d)), b)
  BY <1>3, <1>6, <1>8, <1>9, <1>10, CcmInjects
<1>12. v \in Nat /\ IsSum(b, h, v)
  <2>1. h \in Nat
    BY <1>5, <1>6, HeaderText
  <2> QED
    BY <1>1, <1>3, <1>6, <1>10, <2>1 DEF IsSum
<1>13. CcmAdds(new, t, d, v)
  BY <1>6, <1>11, <1>12 DEF CcmAdds
<1>14. at # "data" /\ m = 0
  BY <1>1, <1>2
<1> QED
  BY <1>1, <1>3, <1>12, <1>13, <1>14 DEF CcmGood

LEMMA CcmFlipWorks ==
  ASSUME CcmGood(job), AeadFlip
  PROVE  CcmGood(job')
<1>1. PICK e, nonce, at, n, told, m, ctx, out, t, d :
        /\ job = AeadRecord("ccm", e, nonce, at, n, told, m, ctx, out)
        /\ e \in BOOLEAN /\ n \in Nat /\ m \in Nat /\ Told(told, t, d)
        /\ IsOut(out, e, "nonce", 1, m)
        /\ at = "aad" => m = 0 /\ CcmAdds(ctx, t, d, n)
  BY DEF CcmGood
<1>2. /\ at = "aad" /\ n = told[1]
      /\ job' = AeadRecord("ccm", e, nonce, "data", n, told, m, FlipOf("ccm", ctx), out)
  BY <1>1, FlipStep
<1>3. PICK at2, new : at2 = "data" /\ new = br_ccm_flip(ctx)
  OBVIOUS
<1>4. job' = AeadRecord("ccm", e, nonce, at2, n, told, m, new, out)
  BY <1>2, <1>3 DEF FlipOf
<1>5. t \in Nat /\ d \in Nat /\ n = t
  BY <1>1, <1>2 DEF Told
<1>6. PICK h, a : /\ h = HeaderLen(t) /\ IsSum(a, h, n)
                  /\ CcmAad(ctx, CcmStream(t), Cut(FirstBlock(t, d)), a)
  BY <1>1, <1>2 DEF CcmAdds
<1>7. PICK o : o = ~e
  OBVIOUS
<1>8. Other(o, e)
  BY <1>1, <1>7 DEF Other
<1>9. a \in Nat
  BY <1>1, <1>5, <1>6, HeaderText DEF IsSum
<1>10. CcmRuns(new, CcmStart(t, d, a), o, InOf(e, "nonce", 1), m)
  BY <1>1, <1>2, <1>3, <1>6, <1>9, CcmFlips DEF CcmStart
<1>11. CcmGoes(new, t, d, n, e, m)
  BY <1>5, <1>6, <1>8, <1>10 DEF CcmGoes
<1>12. at2 # "aad"
  BY <1>3
<1> QED
  BY <1>1, <1>4, <1>11, <1>12 DEF CcmGood

LEMMA CcmRunWorks ==
  ASSUME CcmGood(job), AeadRun
  PROVE  CcmGood(job')
<1>1. PICK e, nonce, at, n, told, m, ctx, out, t, d :
        /\ job = AeadRecord("ccm", e, nonce, at, n, told, m, ctx, out)
        /\ e \in BOOLEAN /\ n \in Nat /\ m \in Nat /\ Told(told, t, d)
        /\ IsOut(out, e, "nonce", 1, m)
        /\ at = "data" => CcmGoes(ctx, t, d, n, e, m)
  BY DEF CcmGood
<1>2. /\ at = "data"
      /\ \E k, v, new :
           /\ k \in Nat
           /\ IsSum(v, m, k) /\ new = RunOf("ccm", e, ctx, DataOf("ccm", e, nonce, m, v))
           /\ job' = AeadRecord("ccm", e, nonce, at, n, told, v, new.ctx, out \o new.out)
  BY <1>1, RunStep
<1>3. PICK k, v, new :
        /\ k \in Nat
        /\ IsSum(v, m, k) /\ new = RunOf("ccm", e, ctx, DataOf("ccm", e, nonce, m, v))
        /\ job' = AeadRecord("ccm", e, nonce, at, n, told, v, new.ctx, out \o new.out)
  BY <1>2
<1>4. PICK in : in = InOf(e, "nonce", 1)
  OBVIOUS
<1>5. DataOf("ccm", e, nonce, m, v) = Span(in, m, k)
  BY <1>1, <1>3, <1>4, InputSpan DEF DataOf, CipherOf
<1>6. new = br_ccm_run(ctx, e, Span(in, m, k))
  BY <1>3, <1>5 DEF RunOf
<1>7. PICK o, h, u : /\ n = t /\ Other(o, e) /\ h = HeaderLen(t) /\ IsSum(u, h, t)
                     /\ CcmRuns(ctx, CcmStart(t, d, u), o, in, m)
  BY <1>1, <1>2, <1>4 DEF CcmGoes
<1>8. /\ CcmRuns(br_ccm_run(ctx, e, Span(in, m, k)).ctx, CcmStart(t, d, u), o, in, v)
      /\ br_ccm_run(ctx, e, Span(in, m, k)).out = Span(OutOf(in, "nonce", 1), m, k)
  BY ONLY <1>3, <1>7, CcmRunsOn
<1>9. PICK ctx2, out2 : ctx2 = new.ctx /\ out2 = out \o new.out
  OBVIOUS
<1>10. CcmRuns(ctx2, CcmStart(t, d, u), o, in, v) /\ new.out = Span(OutOf(in, "nonce", 1), m, k)
  BY <1>6, <1>8, <1>9
<1>11. IsOut(out2, e, "nonce", 1, v)
  BY <1>1, <1>3, <1>4, <1>9, <1>10, OutMore
<1>12. v \in Nat
  BY <1>1, <1>3 DEF IsSum
<1>13. at # "aad" /\ job' = AeadRecord("ccm", e, nonce, at, n, told, v, ctx2, out2)
  BY <1>2, <1>3, <1>9
<1>14. CcmGoes(ctx2, t, d, n, e, v)
  BY <1>4, <1>7, <1>10 DEF CcmGoes
<1> QED
  BY <1>1, <1>11, <1>12, <1>13, <1>14 DEF CcmGood

LEMMA CcmAgrees ==
  ASSUME CcmGood(job), job.at = "data"
  PROVE  /\ job.mode = "ccm"
         /\ job.out = IF job.encrypt THEN Cipher(job.m) ELSE Text(job.m)
         /\ job.m = job.told[2] => br_ccm_get_tag(job.ctx) = CcmTag(Aad(job.n), Text(job.m))
<1>1. PICK e, nonce, at, n, told, m, ctx, out, t, d :
        /\ job = AeadRecord("ccm", e, nonce, at, n, told, m, ctx, out)
        /\ e \in BOOLEAN /\ n \in Nat /\ m \in Nat /\ Told(told, t, d)
        /\ IsOut(out, e, "nonce", 1, m)
        /\ at = "data" => CcmGoes(ctx, t, d, n, e, m)
  BY DEF CcmGood
<1>2. /\ job.mode = "ccm" /\ job.encrypt = e /\ job.m = m /\ job.n = n /\ job.ctx = ctx
      /\ job.out = out /\ job.at = at /\ job.told = told
  BY <1>1, AeadFields
<1>3. Cipher(m) = ctr("nonce", 1, Text(m))
  BY <1>2 DEF Cipher
<1>4. out = IF e THEN ctr("nonce", 1, Text(m)) ELSE Text(m)
  BY <1>1, OutIs
<1>5. t \in Nat /\ d \in Nat /\ told[2] = d
  BY <1>1 DEF Told
<1>6. ASSUME m = d
      PROVE  br_ccm_get_tag(ctx) = CcmTag(Aad(n), Text(m))
  <2>1. PICK o, h, u : /\ n = t /\ Other(o, e) /\ h = HeaderLen(t) /\ IsSum(u, h, t)
                       /\ CcmRuns(ctx, CcmStart(t, d, u), o, InOf(e, "nonce", 1), m)
    BY <1>1, <1>2 DEF CcmGoes
  <2>2. CcmRuns(ctx, Cut(FirstBlock(t, d)) \o Cut(Filled(Span(CcmStream(t), 0, u))), o,
                InOf(e, "nonce", 1), d)
    BY <1>6, <2>1 DEF CcmStart
  <2>3. br_ccm_get_tag(ctx) = CcmTag(Aad(t), Text(d))
    BY <1>5, <2>1, <2>2, CcmTags
  <2> QED
    BY <1>6, <2>1, <2>3
<1> QED
  BY <1>2, <1>3, <1>4, <1>5, <1>6

-----------------------------------------------------------------------------
(* A job in EAX: x is the MAC of its nonce.                                  *)
NonceMac(x, nonce) == x = Omac(0, Nonce(nonce)) /\ nonce \in Nat
FitsMode(cap, iv, mode, ctx) ==
  /\ cap \in BOOLEAN
  /\ cap => mode = "eax_pre" /\ iv = <<NumberBlock(2)>>
  /\ ~cap => mode = "eax" /\ ctx.ptr # 0
EaxAdds(ctx, mode, n, x) ==
  \E head, cap, iv : /\ FitsMode(cap, iv, mode, ctx)
                     /\ EaxAt(ctx, 1, Stream("aad"), n, x, head, cap, iv)
EaxGoes(ctx, mode, n, e, x, m) ==
  /\ EaxRuns(ctx, x, Omac(1, Aad(n)), 0, e, InOf(e, x, 0), m)
  /\ mode = "eax" => ctx.ptr # 0

EaxGood(j) ==
  \E mode, e, nonce, at, n, told, m, ctx, out, x :
    /\ j = AeadRecord(mode, e, nonce, at, n, told, m, ctx, out)
    /\ mode \in {"eax", "eax_pre", "eax_post"} /\ e \in BOOLEAN /\ n \in Nat /\ m \in Nat
    /\ NonceMac(x, nonce) /\ IsOut(out, e, x, 0, m)
    /\ at = "aad" => m = 0 /\ EaxAdds(ctx, mode, n, x)
    /\ at = "data" => EaxGoes(ctx, mode, n, e, x, m)

LEMMA EaxStarts ==
  ASSUME NEW e \in BOOLEAN, NEW len \in Nat, NEW j,
         \/ j = Aead("eax", e, len, "aad", 0, br_eax_reset(Nonce(len)))
         \/ j = Aead("eax_pre", e, len, "aad", 0, br_eax_reset_pre_aad(br_eax_capture, Nonce(len)))
  PROVE  EaxGood(j)
<1>1. PICK x : x = Omac(0, Nonce(len))
  OBVIOUS
<1>2. IsOut(<<>>, e, x, 0, 0) /\ NonceMac(x, len)
  BY <1>1, OutNothing DEF NonceMac
<1>3. ASSUME NEW mode \in {"eax", "eax_pre"}, NEW ctx, EaxAdds(ctx, mode, 0, x),
             j = Aead(mode, e, len, "aad", 0, ctx)
      PROVE  EaxGood(j)
  <2>1. j = AeadRecord(mode, e, len, "aad", 0, <<>>, 0, ctx, <<>>)
    BY <1>3 DEF Aead, AeadRecord
  <2>2. PICK at, n, m, none : at = "aad" /\ n = 0 /\ m = 0 /\ none = <<>>
    OBVIOUS
  <2>3. /\ j = AeadRecord(mode, e, len, at, n, none, m, ctx, none)
        /\ mode \in {"eax", "eax_pre", "eax_post"} /\ e \in BOOLEAN /\ n \in Nat /\ m \in Nat
        /\ NonceMac(x, len) /\ IsOut(none, e, x, 0, m)
        /\ at = "aad" => m = 0 /\ EaxAdds(ctx, mode, n, x)
        /\ at = "data" => EaxGoes(ctx, mode, n, e, x, m)
    BY <1>2, <1>3, <2>1, <2>2
  <2> QED
    BY ONLY <2>3 DEF EaxGood
<1>4. CASE j = Aead("eax", e, len, "aad", 0, br_eax_reset(Nonce(len)))
  <2>1. PICK mode, ctx : mode = "eax" /\ ctx = br_eax_reset(Nonce(len))
    OBVIOUS
  <2>2. EaxAt(ctx, 1, Stream("aad"), 0, x, <<>>, FALSE, <<>>) /\ ctx.ptr # 0
    BY <1>1, <2>1, EaxResets
  <2>3. EaxAdds(ctx, mode, 0, x)
    <3>1. PICK head, cap, iv : head = <<>> /\ cap = FALSE /\ iv = <<>>
      OBVIOUS
    <3>2. FitsMode(cap, iv, mode, ctx) /\ EaxAt(ctx, 1, Stream("aad"), 0, x, head, cap, iv)
      BY <2>1, <2>2, <3>1 DEF FitsMode
    <3> QED
      BY ONLY <3>2 DEF EaxAdds
  <2> QED
    BY <1>3, <1>4, <2>1, <2>3
<1>5. CASE j = Aead("eax_pre", e, len, "aad", 0, br_eax_reset_pre_aad(br_eax_capture, Nonce(len)))
  <2>1. PICK mode, ctx : /\ mode = "eax_pre"
                         /\ ctx = br_eax_reset_pre_aad(br_eax_capture, Nonce(len))
    OBVIOUS
  <2>2. EaxAt(ctx, 1, Stream("aad"), 0, x, <<>>, TRUE, <<NumberBlock(2)>>)
    BY <1>1, <2>1, EaxResetsPre
  <2>3. EaxAdds(ctx, mode, 0, x)
    <3>1. PICK head, cap, iv : head = <<>> /\ cap = TRUE /\ iv = <<NumberBlock(2)>>
      OBVIOUS
    <3>2. FitsMode(cap, iv, mode, ctx) /\ EaxAt(ctx, 1, Stream("aad"), 0, x, head, cap, iv)
      BY <2>1, <2>2, <3>1 DEF FitsMode
    <3> QED
      BY ONLY <3>2 DEF EaxAdds
  <2> QED
    BY <1>3, <1>5, <2>1, <2>3
<1> QED
  BY <1>4, <1>5

LEMMA EaxPostStarts ==
  ASSUME NEW e \in BOOLEAN, NEW len \in Nat, NEW n \in Nat, NEW j,
         j = Aead("eax_post", e, len, "data", n, br_eax_reset_post_aad(AadState(Aad(n)), Nonce(len)))
  PROVE  EaxGood(j)
<1>1. PICK x, mode, ctx : /\ x = Omac(0, Nonce(len)) /\ mode = "eax_post"
                          /\ ctx = br_eax_reset_post_aad(AadState(Aad(n)), Nonce(len))
  OBVIOUS
<1>2. IsOut(<<>>, e, x, 0, 0) /\ NonceMac(x, len)
  BY <1>1, OutNothing DEF NonceMac
<1>3. EaxGoes(ctx, mode, n, e, x, 0)
  <2>1. PICK in : in = InOf(e, x, 0)
    OBVIOUS
  <2>2. EaxRuns(br_eax_reset_post_aad(AadState(Aad(n)), Nonce(len)), Omac(0, Nonce(len)),
                Omac(1, Aad(n)), 0, e, in, 0)
    BY EaxResetsPost
  <2> QED
    BY <1>1, <2>1, <2>2 DEF EaxGoes
<1>4. j = AeadRecord(mode, e, len, "data", n, <<>>, 0, ctx, <<>>)
  BY <1>1 DEF Aead, AeadRecord
<1>5. PICK at, m, none : at = "data" /\ m = 0 /\ none = <<>>
  OBVIOUS
<1>6. /\ j = AeadRecord(mode, e, len, at, n, none, m, ctx, none)
      /\ mode \in {"eax", "eax_pre", "eax_post"} /\ e \in BOOLEAN /\ n \in Nat /\ m \in Nat
      /\ NonceMac(x, len) /\ IsOut(none, e, x, 0, m)
      /\ at = "aad" => m = 0 /\ EaxAdds(ctx, mode, n, x)
      /\ at = "data" => EaxGoes(ctx, mode, n, e, x, m)
  BY <1>1, <1>2, <1>3, <1>4, <1>5
<1> QED
  BY ONLY <1>6 DEF EaxGood

LEMMA EaxAadWorks ==
  ASSUME ~AnyPieces, EaxGood(job), AeadAad
  PROVE  EaxGood(job')
<1>1. PICK mode, e, nonce, at, n, told, m, ctx, out, x :
        /\ job = AeadRecord(mode, e, nonce, at, n, told, m, ctx, out)
        /\ mode \in {"eax", "eax_pre", "eax_post"} /\ e \in BOOLEAN /\ n \in Nat /\ m \in Nat
        /\ NonceMac(x, nonce) /\ IsOut(out, e, x, 0, m)
        /\ at = "aad" => m = 0 /\ EaxAdds(ctx, mode, n, x)
  BY DEF EaxGood
<1>2. /\ at = "aad"
      /\ \E k, v, new : /\ k \in Nat
                        /\ MayGive(k) /\ IsSum(v, n, k)
                        /\ new = AadInject(Piece("aad", n, k))
                        /\ job' = AeadRecord(mode, e, nonce, at, v, told, m, new, out)
  BY <1>1, AadStep
<1>3. PICK k, v, new : /\ k \in Nat
                       /\ MayGive(k)
                       /\ IsSum(v, n, k) /\ new = AadInject(Piece("aad", n, k))
                       /\ job' = AeadRecord(mode, e, nonce, at, v, told, m, new, out)
  BY <1>2
<1>4. job.mode = mode /\ job.ctx = ctx
  BY <1>1, AeadFields
<1>5. mode # "gcm" /\ mode # "ccm"
  BY <1>1
<1>6. ctx.ptr < Block => k <= Block - ctx.ptr
  BY <1>3, <1>4, <1>5 DEF MayGive
<1>7. Piece("aad", n, k) = Span(Stream("aad"), n, k)
  BY <1>1, <1>3, PieceSpan
<1>8. new = br_eax_aad_inject(ctx, Span(Stream("aad"), n, k))
  BY <1>3, <1>4, <1>5, <1>7 DEF AadInject
<1>9. PICK head, cap, iv : /\ FitsMode(cap, iv, mode, ctx)
                           /\ EaxAt(ctx, 1, Stream("aad"), n, x, head, cap, iv)
  BY <1>1, <1>2 DEF EaxAdds
<1>10. EaxAt(new, 1, Stream("aad"), v, x, head, cap, iv)
  BY <1>3, <1>6, <1>8, <1>9, EaxInjects
<1>11. ~cap => new.ptr # 0
  <2>1. ~cap => ctx.ptr # 0
    BY <1>9 DEF FitsMode
  <2> QED
    BY <1>3, <1>6, <1>8, <1>9, <2>1, InjectPlace
<1>12. v \in Nat
  BY <1>1, <1>3 DEF IsSum
<1>13. EaxAdds(new, mode, v, x)
  <2>1. FitsMode(cap, iv, mode, new)
    BY <1>9, <1>11 DEF FitsMode
  <2> QED
    BY <1>10, <2>1 DEF EaxAdds
<1>14. at # "data" /\ m = 0
  BY <1>1, <1>2
<1> QED
  BY <1>1, <1>3, <1>12, <1>13, <1>14 DEF EaxGood

LEMMA EaxFlipWorks ==
  ASSUME EaxGood(job), AeadFlip
  PROVE  EaxGood(job')
<1>1. PICK mode, e, nonce, at, n, told, m, ctx, out, x :
        /\ job = AeadRecord(mode, e, nonce, at, n, told, m, ctx, out)
        /\ mode \in {"eax", "eax_pre", "eax_post"} /\ e \in BOOLEAN /\ n \in Nat /\ m \in Nat
        /\ NonceMac(x, nonce) /\ IsOut(out, e, x, 0, m)
        /\ at = "aad" => m = 0 /\ EaxAdds(ctx, mode, n, x)
  BY DEF EaxGood
<1>2. /\ at = "aad" /\ (mode = "eax_pre" => n > 0)
      /\ job' = AeadRecord(mode, e, nonce, "data", n, told, m, FlipOf(mode, ctx), out)
  BY <1>1, FlipStep
<1>3. mode # "gcm" /\ mode # "ccm"
  BY <1>1
<1>4. PICK at2, new : at2 = "data" /\ new = br_eax_flip(ctx)
  OBVIOUS
<1>5. job' = AeadRecord(mode, e, nonce, at2, n, told, m, new, out)
  BY <1>2, <1>3, <1>4 DEF FlipOf
<1>6. PICK head, cap, iv : /\ FitsMode(cap, iv, mode, ctx)
                           /\ EaxAt(ctx, 1, Stream("aad"), n, x, head, cap, iv)
  BY <1>1, <1>2 DEF EaxAdds
<1>7. ctx.ptr # 0
  <2>1. CASE cap
    <3>1. n # 0
      BY <1>1, <1>2, <1>6, <2>1 DEF FitsMode
    <3> QED
      BY ONLY <1>6, <3>1, EaxPlace
  <2> QED
    BY <1>6, <2>1 DEF FitsMode
<1>8. PICK in : in = InOf(e, x, 0)
  OBVIOUS
<1>9. /\ EaxRuns(br_eax_flip(ctx), x, Omac(1, Span(Stream("aad"), 0, n)), 0, e, in, 0)
      /\ ~cap => br_eax_flip(ctx).ptr # 0
  <2>1. cap \in BOOLEAN /\ (cap => iv = <<NumberBlock(2)>>)
    BY <1>6 DEF FitsMode
  <2> QED
    BY ONLY <1>6, <1>7, <2>1, EaxFlips
<1>10. Aad(n) = Span(Stream("aad"), 0, n)
  BY <1>1, TextSpan
<1>11. mode = "eax" => ~cap
  BY <1>6 DEF FitsMode
<1>12. EaxGoes(new, mode, n, e, x, 0)
  BY <1>4, <1>8, <1>9, <1>10, <1>11 DEF EaxGoes
<1>13. at2 # "aad" /\ m = 0
  BY <1>1, <1>2, <1>4
<1>14. EaxGoes(new, mode, n, e, x, m)
  BY <1>12, <1>13
<1>15. at2 # "aad"
  BY <1>13
<1> QED
  BY ONLY <1>1, <1>5, <1>14, <1>15 DEF EaxGood

LEMMA EaxRunWorks ==
  ASSUME EaxGood(job), AeadRun
  PROVE  EaxGood(job')
<1>1. PICK mode, e, nonce, at, n, told, m, ctx, out, x :
        /\ job = AeadRecord(mode, e, nonce, at, n, told, m, ctx, out)
        /\ mode \in {"eax", "eax_pre", "eax_post"} /\ e \in BOOLEAN /\ n \in Nat /\ m \in Nat
        /\ NonceMac(x, nonce) /\ IsOut(out, e, x, 0, m)
        /\ at = "data" => EaxGoes(ctx, mode, n, e, x, m)
  BY DEF EaxGood
<1>2. /\ at = "data"
      /\ \E k, v, new :
           /\ k \in Nat
           /\ IsSum(v, m, k) /\ new = RunOf(mode, e, ctx, DataOf(mode, e, nonce, m, v))
           /\ job' = AeadRecord(mode, e, nonce, at, n, told, v, new.ctx, out \o new.out)
  BY <1>1, RunStep
<1>3. PICK k, v, new :
        /\ k \in Nat
        /\ IsSum(v, m, k) /\ new = RunOf(mode, e, ctx, DataOf(mode, e, nonce, m, v))
        /\ job' = AeadRecord(mode, e, nonce, at, n, told, v, new.ctx, out \o new.out)
  BY <1>2
<1>4. mode # "gcm" /\ mode # "ccm"
  BY <1>1
<1>5. PICK z, in, head : z \in Nat /\ z = 0 /\ in = InOf(e, x, z) /\ head = Omac(1, Aad(n))
  OBVIOUS
<1>6. After(IF e THEN Text(v) ELSE ctr(x, z, Text(v)), m) = Span(in, m, k)
  BY <1>1, <1>3, <1>5, InputSpan
<1>7. DataOf(mode, e, nonce, m, v) = Span(in, m, k)
  <2>1. CipherOf(mode, nonce, v) = ctr(x, z, Text(v))
    BY <1>1, <1>4, <1>5 DEF CipherOf, NonceMac
  <2> QED
    BY <1>6, <2>1 DEF DataOf
<1>8. new = br_eax_run(ctx, e, Span(in, m, k))
  BY <1>3, <1>4, <1>7 DEF RunOf
<1>9. EaxRuns(ctx, x, head, z, e, in, m) /\ (mode = "eax" => ctx.ptr # 0)
  BY <1>1, <1>2, <1>5 DEF EaxGoes
<1>10. /\ EaxRuns(br_eax_run(ctx, e, Span(in, m, k)).ctx, x, head, z, e, in, v)
       /\ br_eax_run(ctx, e, Span(in, m, k)).out = Span(OutOf(in, x, z), m, k)
  BY ONLY <1>1, <1>3, <1>9, EaxRunsOn
<1>11. mode = "eax" => br_eax_run(ctx, e, Span(in, m, k)).ctx.ptr # 0
  BY ONLY <1>1, <1>3, <1>9, EaxPlaceOn
<1>12. PICK ctx2, out2 : ctx2 = new.ctx /\ out2 = out \o new.out
  OBVIOUS
<1>13. /\ EaxRuns(ctx2, x, head, z, e, in, v) /\ (mode = "eax" => ctx2.ptr # 0)
       /\ new.out = Span(OutOf(in, x, z), m, k)
  BY <1>8, <1>10, <1>11, <1>12
<1>14. IsOut(out2, e, x, 0, v)
  <2>1. IsOut(out, e, x, z, m) /\ new.out = Span(OutOf(InOf(e, x, z), x, z), m, k)
    BY <1>1, <1>5, <1>13
  <2>2. IsOut(out \o new.out, e, x, z, v)
    BY ONLY <1>1, <1>3, <2>1, OutMore
  <2> QED
    BY <1>5, <1>12, <2>2
<1>15. v \in Nat
  BY <1>1, <1>3 DEF IsSum
<1>16. at # "aad" /\ job' = AeadRecord(mode, e, nonce, at, n, told, v, ctx2, out2)
  BY <1>2, <1>3, <1>12
<1>17. EaxGoes(ctx2, mode, n, e, x, v)
  BY <1>5, <1>13 DEF EaxGoes
<1> QED
  BY ONLY <1>1, <1>14, <1>15, <1>16, <1>17 DEF EaxGood

LEMMA EaxAgrees ==
  ASSUME EaxGood(job), job.at = "data"
  PROVE  /\ job.mode \in {"eax", "eax_pre", "eax_post"}
         /\ job.out = IF job.encrypt THEN Cipher(job.m) ELSE Text(job.m)
         /\ (job.mode = "eax" \/ job.m > 0) =>
              br_eax_get_tag(job.ctx) = EaxTag(Nonce(job.nonce), Aad(job.n), Cipher(job.m))
<1>1. PICK mode, e, nonce, at, n, told, m, ctx, out, x :
        /\ job = AeadRecord(mode, e, nonce, at, n, told, m, ctx, out)
        /\ mode \in {"eax", "eax_pre", "eax_post"} /\ e \in BOOLEAN /\ n \in Nat /\ m \in Nat
        /\ NonceMac(x, nonce) /\ IsOut(out, e, x, 0, m)
        /\ at = "data" => EaxGoes(ctx, mode, n, e, x, m)
  BY DEF EaxGood
<1>2. /\ job.mode = mode /\ job.encrypt = e /\ job.m = m /\ job.n = n /\ job.ctx = ctx
      /\ job.out = out /\ job.at = at /\ job.nonce = nonce
  BY <1>1, AeadFields
<1>3. mode # "gcm" /\ mode # "ccm"
  BY <1>1
<1>4. Cipher(m) = ctr(x, 0, Text(m))
  BY <1>1, <1>2, <1>3 DEF Cipher, NonceMac
<1>5. out = IF e THEN ctr(x, 0, Text(m)) ELSE Text(m)
  <2>1. PICK z : z \in Nat /\ z = 0
    OBVIOUS
  <2>2. IsOut(out, e, x, z, m)
    BY <1>1, <2>1
  <2>3. out = IF e THEN ctr(x, z, Text(m)) ELSE Text(m)
    BY ONLY <1>1, <2>1, <2>2, OutIs
  <2> QED
    BY <2>1, <2>3
<1>6. EaxRuns(ctx, x, Omac(1, Aad(n)), 0, e, InOf(e, x, 0), m) /\ (mode = "eax" => ctx.ptr # 0)
  BY <1>1, <1>2 DEF EaxGoes
<1>7. ASSUME mode = "eax" \/ m > 0
      PROVE  br_eax_get_tag(ctx) = EaxTag(Nonce(nonce), Aad(n), Cipher(m))
  <2>1. ctx.ptr # 0
    <3>1. CASE m # 0
      BY <1>6, <3>1, EaxRunPlace
    <3>2. CASE m = 0
      BY <1>1, <1>6, <1>7, <3>2
    <3> QED
      BY <3>1, <3>2
  <2>2. x = Omac(0, Nonce(nonce))
    BY <1>1 DEF NonceMac
  <2>3. br_eax_get_tag(ctx) = EaxTag(Nonce(nonce), Aad(n), ctr(x, 0, Text(m)))
    BY <1>1, <1>6, <2>1, <2>2, EaxTags
  <2> QED
    BY <1>4, <2>3
<1> QED
  BY <1>1, <1>2, <1>4, <1>5, <1>7

-----------------------------------------------------------------------------
(* All that is sealed.                                                       *)
Sealing(j) == GcmGood(j) \/ CcmGood(j) \/ EaxGood(j)

SealInv ==
  /\ HasKind(job)
  /\ job.kind = "aead" => Sealing(job)

LEMMA AeadBegins ==
  ASSUME AeadInit
  PROVE  HasKind(job) /\ Sealing(job)
<1>1. HasKind(job)
  BY OthersBegin
<1>2. TextLens \subseteq Nat /\ NonceLens \subseteq Nat
  BY AeadAssumption
<1>3. PICK e \in BOOLEAN :
        \/ job = Aead("gcm", e, 0, "aad", 0, br_gcm_reset)
        \/ \E t \in TextLens, d \in TextLens :
             job = [Aead("ccm", e, 0, "aad", 0, br_ccm_reset(t, d)) EXCEPT !.told = <<t, d>>]
        \/ \E len \in NonceLens :
             \/ job = Aead("eax", e, len, "aad", 0, br_eax_reset(Nonce(len)))
             \/ job = Aead("eax_pre", e, len, "aad", 0,
                           br_eax_reset_pre_aad(br_eax_capture, Nonce(len)))
             \/ \E n \in TextLens :
                  job = Aead("eax_post", e, len, "data", n,
                             br_eax_reset_post_aad(AadState(Aad(n)), Nonce(len)))
  BY DEF AeadInit
<1>4. CASE job = Aead("gcm", e, 0, "aad", 0, br_gcm_reset)
  BY <1>1, <1>4, GcmStarts DEF Sealing
<1>5. CASE \E t \in TextLens, d \in TextLens :
             job = [Aead("ccm", e, 0, "aad", 0, br_ccm_reset(t, d)) EXCEPT !.told = <<t, d>>]
  <2>1. PICK t \in Nat, d \in Nat :
          job = [Aead("ccm", e, 0, "aad", 0, br_ccm_reset(t, d)) EXCEPT !.told = <<t, d>>]
    BY <1>2, <1>5
  <2> QED
    BY <1>1, <2>1, CcmStarts DEF Sealing
<1>6. ASSUME NEW len \in NonceLens,
             \/ job = Aead("eax", e, len, "aad", 0, br_eax_reset(Nonce(len)))
             \/ job = Aead("eax_pre", e, len, "aad", 0,
                           br_eax_reset_pre_aad(br_eax_capture, Nonce(len)))
      PROVE  Sealing(job)
  <2>1. len \in Nat
    BY <1>2
  <2> QED
    BY <1>6, <2>1, EaxStarts DEF Sealing
<1>7. ASSUME NEW len \in NonceLens, NEW n \in TextLens,
             job = Aead("eax_post", e, len, "data", n,
                        br_eax_reset_post_aad(AadState(Aad(n)), Nonce(len)))
      PROVE  Sealing(job)
  <2>1. len \in Nat /\ n \in Nat
    BY <1>2
  <2> QED
    BY <1>7, <2>1, EaxPostStarts DEF Sealing
<1> QED
  BY <1>1, <1>3, <1>4, <1>5, <1>6, <1>7

\* No other service begins with the kind of job that an AEAD context has.
LEMMA NoAeadBegins ==
  ASSUME HashInit \/ ArithInit \/ ModDivInit \/ PowInit \/ RsaInit \/ PadInit \/ EcInit \/ EcdsaInit
  PROVE  HasKind(job) /\ job.kind # "aead"
<1> USE DEF HasKind
<1>1. CASE HashInit
  BY <1>1 DEF HashInit, Transcript, Mac, Hashcash, Pbkdf2, HkdfJob, PrfJob
<1>2. CASE ArithInit
  BY <1>2 DEF ArithInit, Arith
<1>3. CASE ModDivInit
  BY <1>3 DEF ModDivInit
<1>4. CASE PowInit
  BY <1>4 DEF PowInit
<1>5. CASE RsaInit
  BY <1>5 DEF RsaInit, KeygenInit, Keygen, ForeignInit, Uses, PrivexpInit
<1>6. CASE PadInit
  <2>1. ASSUME NEW scheme, NEW with, NEW x, job = PadJob(scheme, with, x)
        PROVE  HasKind(job) /\ job.kind # "aead"
    BY <2>1 DEF PadJob
  <2> QED
    BY <1>6, <2>1 DEF PadInit, SigPadInit, OaepInit, KxInit
<1>7. CASE EcInit
  BY <1>7 DEF EcInit, Multiply, MultiplyAdd, EcJob
<1>8. CASE EcdsaInit
  BY <1>8 DEF EcdsaInit, Asn1Init, Asn1Job, EcdsaJob
<1> QED
  BY <1>1, <1>2, <1>3, <1>4, <1>5, <1>6, <1>7, <1>8

LEMMA SealInit == Init => SealInv
<1> SUFFICES ASSUME Init
             PROVE  SealInv
  OBVIOUS
<1>1. CASE AeadInit
  BY <1>1, AeadBegins DEF SealInv
<1>2. CASE ~AeadInit
  BY <1>2, NoAeadBegins DEF Init, SealInv
<1> QED
  BY <1>1, <1>2

LEMMA SealNext ==
  ASSUME ~AnyPieces
  PROVE  SealInv /\ [Next]_job => SealInv'
<1> SUFFICES ASSUME SealInv, [Next]_job
             PROVE  SealInv'
  OBVIOUS
<1>1. CASE AeadNext
  <2>1. HasKind(job') /\ job.kind = "aead"
    BY <1>1, AeadKind DEF SealInv, KindStays
  <2>2. Sealing(job)
    BY <2>1 DEF SealInv
  <2>3. AeadAad \/ AeadFlip \/ AeadRun
    BY <1>1 DEF AeadNext
  <2>4. GcmGood(job) => Sealing(job')
    BY <2>3, GcmAadWorks, GcmFlipWorks, GcmRunWorks DEF Sealing
  <2>5. CcmGood(job) => Sealing(job')
    BY <2>3, CcmAadWorks, CcmFlipWorks, CcmRunWorks DEF Sealing
  <2>6. EaxGood(job) => Sealing(job')
    BY <2>3, EaxAadWorks, EaxFlipWorks, EaxRunWorks DEF Sealing
  <2>7. Sealing(job')
    BY <2>4, <2>5, <2>6, <2>2 DEF Sealing
  <2> QED
    BY <2>1, <2>7 DEF SealInv
<1>2. CASE HashNext \/ ArithNext \/ RsaNext \/ PadNext \/ EcNext \/ EcdsaNext
  <2>1. HasKind(job') /\ job'.kind # "aead"
    BY <1>2, HashKind, ArithKind, RsaKind, CurveKind
    DEF SealInv, KindStays, HashKinds, ArithKinds, RsaKinds, CurveKinds
  <2> QED
    BY <2>1 DEF SealInv
<1>3. CASE job' = job
  BY <1>3 DEF SealInv
<1> QED
  BY <1>1, <1>2, <1>3 DEF Next

\* However the additional data and the message are cut into pieces, GCM, CCM and EAX
\* put out the cipher text of the whole message, or the message again, and the tag of
\* all of it (gcm.c, ccm.c, eax.c): for blocks, texts and nonces of any length and for
\* the three ways to begin with EAX.  ~AnyPieces keeps the pieces of additional data
\* for EAX inside the block begun before, which br_eax_aad_inject needs: without it the
\* property is false, as the run eax_pieces shows.
THEOREM SealsAlwaysAgree ==
  ASSUME ~AnyPieces
  PROVE  Spec => []SealsAgree
<1>1. SealInv => SealsAgree
  <2> SUFFICES ASSUME SealInv, job.kind = "aead", job.at = "data"
               PROVE  /\ job.out = IF job.encrypt THEN Cipher(job.m) ELSE Text(job.m)
                      /\ job.mode = "gcm" =>
                           br_gcm_get_tag(job.ctx) = GcmTag(Aad(job.n), Cipher(job.m))
                      /\ (job.mode = "ccm" /\ job.m = job.told[2]) =>
                           br_ccm_get_tag(job.ctx) = CcmTag(Aad(job.n), Text(job.m))
                      /\ (job.mode = "eax"
                            \/ (job.mode \in {"eax_pre", "eax_post"} /\ job.m > 0)) =>
                           br_eax_get_tag(job.ctx) =
                             EaxTag(Nonce(job.nonce), Aad(job.n), Cipher(job.m))
    BY DEF SealsAgree
  <2>1. Sealing(job)
    BY DEF SealInv
  <2>2. CASE GcmGood(job)
    BY <2>2, GcmAgrees
  <2>3. CASE CcmGood(job)
    BY <2>3, CcmAgrees
  <2>4. CASE EaxGood(job)
    BY <2>4, EaxAgrees
  <2> QED
    BY <2>1, <2>2, <2>3, <2>4 DEF Sealing
<1>2. SealInv /\ [Next]_job => SealInv'
  BY SealNext
<1> QED
  BY <1>1, <1>2, SealInit, PTL DEF Spec
==============================================================================
