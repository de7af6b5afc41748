------------------------------ MODULE HashStream ------------------------------
(***************************************************************************)
(* The hash functions of BearSSL as their users see them: contexts that    *)
(* take a message in pieces (md5.c, sha1.c, sha2small.c, sha2big.c), with  *)
(* the padding at the end, HMAC over them (hmac.c, hmac_ct.c) and the      *)
(* context that runs several functions over one message (multihash.c).     *)
(* A function h has an id, the length of its block and the length of the   *)
(* count at the end of the padding.  The round function is abstract and    *)
(* free of collisions: a running state is the sequence of the blocks that  *)
(* went in.  A byte is a tuple that says what it is.                       *)
(***************************************************************************)
EXTENDS Integers, Sequences

CONSTANTS
  HashLen,   \* bytes of a digest that are told apart
  CountLen   \* bytes of a count that are told apart, 8 in the code

Zero == <<"00">>
OneBit == <<"80">>
Zeros(n) == [i \in 1..n |-> Zero]
Xored(bytes, pad) == [i \in 1..Len(bytes) |-> <<"xor", pad, bytes[i]>>]

\* One byte of the encoded bit length: what is left of it does not depend on
\* the order of the bytes, which a function fixes once.
CountByte(count, i) == <<"count", count, i>>
DigestBytes(h, val) == [i \in 1..HashLen |-> <<"digest", h.id, val, i>>]

-----------------------------------------------------------------------------
(* One function.                                                             *)
br_hash_init(h) ==
  [val |-> <<>>, count |-> 0, buf |-> [i \in 0..(h.block - 1) |-> <<"junk">>]]

\* The bytes go to the buffer from where it is filled, and a round is done each
\* time it is full: at(p) is the byte p of the block begun and those after it.
br_hash_update(h, cc, data) ==
  LET ptr == cc.count % h.block
      total == ptr + Len(data)
      rounds == total \div h.block
      at(p) == IF p < ptr THEN cc.buf[p] ELSE data[p - ptr + 1]
      last(i) == IF i < total % h.block THEN at(rounds * h.block + i)
                 ELSE IF rounds > 0 THEN at((rounds - 1) * h.block + i) ELSE cc.buf[i]
  IN  [val |-> cc.val \o [n \in 1..rounds |->
                 [i \in 0..(h.block - 1) |-> at((n - 1) * h.block + i)]],
       count |-> cc.count + Len(data),
       buf |-> [i \in 0..(h.block - 1) |-> last(i)]]

\* The count takes the last bytes of a block; those of a long count that lie
\* before the last CountLen are zero.
Closing(h, buf, count) ==
  [i \in 0..(h.block - 1) |->
     IF i < h.block - h.count THEN buf[i]
     ELSE IF i < h.block - CountLen THEN Zero
     ELSE CountByte(count, i - (h.block - CountLen))]

Fits(h, ptr) == ptr + 1 <= h.block - h.count

br_hash_out(h, cc) ==
  LET ptr == cc.count % h.block
      cut == [i \in 0..(h.block - 1) |->
                IF i < ptr THEN cc.buf[i] ELSE IF i = ptr THEN OneBit ELSE Zero]
      blank == [i \in 0..(h.block - 1) |-> Zero]
  IN  DigestBytes(h, IF Fits(h, ptr)
        THEN Append(cc.val, Closing(h, cut, cc.count))
        ELSE cc.val \o <<cut, Closing(h, blank, cc.count)>>)

\* The state is that after the last whole block; what waits in the buffer is
\* not part of it.
br_hash_set_state(cc, val, count) == [cc EXCEPT !.val = val, !.count = count]

-----------------------------------------------------------------------------
(* HMAC.                                                                     *)
process_key(h, key, pad) ==
  br_hash_update(h, br_hash_init(h),
    Xored(key, pad) \o [i \in 1..(h.block - Len(key)) |-> <<"xor", pad, Zero>>]).val

br_hmac_key_init(h, key) ==
  LET short == IF Len(key) > h.block
                 THEN br_hash_out(h, br_hash_update(h, br_hash_init(h), key)) ELSE key
  IN  [ksi |-> process_key(h, short, "36"), kso |-> process_key(h, short, "5C")]

br_hmac_init(h, kc) ==
  [dig |-> br_hash_set_state(br_hash_init(h), kc.ksi, h.block), kso |-> kc.kso]

br_hmac_update(h, hc, data) == [hc EXCEPT !.dig = br_hash_update(h, @, data)]

Outer(h, hc, digest) ==
  br_hash_out(h, br_hash_update(h,
    br_hash_set_state(br_hash_init(h), hc.kso, h.block), digest))

br_hmac_out(h, hc) == Outer(h, hc, br_hash_out(h, hc.dig))

RoundUp(h, n) == ((n + h.block - 1) \div h.block) * h.block

\* Mutant: the shortest padding is taken to be the count alone.
MinPadding_bare(h) == h.count

MinPadding(h) == 1 + h.count

\* The same for data of which len bytes count, min <= len <= max: whatever len
\* is, the same blocks are hashed and the state is picked when the last one of
\* them is done.
br_hmac_outCT(h, hc, data, len, min, max) ==
  LET count == hc.dig.count
      whole == ((count + min) \div h.block) * h.block
      z == IF whole > count THEN whole - count ELSE 0
      cc == br_hash_update(h, hc.dig, SubSeq(data, 1, z))
      left == len - z
      most == max - z
      kr == cc.count % h.block
      kz == RoundUp(h, kr + left + MinPadding(h)) - 1 - kr
      kl == kz - (CountLen - 1)
      km == RoundUp(h, kr + most + MinPadding(h)) - kr
      d(u) == IF u < most THEN data[z + u + 1] ELSE Zero
      v(u) == (kr + u) % h.block
      c(u) == IF v(u) >= h.block - CountLen
                THEN CountByte(count + len, v(u) - (h.block - CountLen)) ELSE Zero
      byte(u) == IF u < left THEN d(u) ELSE IF u = left THEN OneBit
                 ELSE IF u < kl THEN Zero ELSE c(u)
      after[u \in 0..km] ==
        IF u = 0 THEN [cc |-> cc, val |-> <<>>]
        ELSE LET prev == after[u - 1]
                 s == br_hash_update(h, prev.cc, <<byte(u - 1)>>)
             IN  [cc |-> s,
                  val |-> IF v(u - 1) = h.block - 1 /\ u - 1 = kz THEN s.val ELSE prev.val]
  IN  Outer(h, hc, DigestBytes(h, after[km].val))

-----------------------------------------------------------------------------
(* Several functions at once: their running states share one memory.         *)
Ids == 1..6
StateLen == <<4, 5, 8, 8, 16, 16>>   \* in words of 32 bits, md5 to sha512

\* x + (x & (x >> 1)) is x for x < 3 and 4 for x = 3; val_64 follows val_32,
\* which has 25 words.
get_state_offset(id) ==
  IF id >= 5 THEN 25 + (id - 5) * 16
  ELSE LET x == id - 1 IN (x + (IF x = 3 THEN 1 ELSE 0)) * 4 + x \div 2

Store(mem, id, val) ==
  [a \in DOMAIN mem |->
     IF a \in get_state_offset(id)..(get_state_offset(id) + StateLen[id] - 1)
       THEN <<id, val, a - get_state_offset(id)>> ELSE mem[a]]

\* What is read back is a state only if no word of it was overwritten.
Load(mem, id) ==
  LET first == mem[get_state_offset(id)]
  IN  IF \A k \in 0..(StateLen[id] - 1) :
           mem[get_state_offset(id) + k] = <<id, first[2], k>>
        THEN first[2] ELSE <<<<"torn">>>>

\* impl: the functions present; the buffer is that of the longest block.
br_multihash_init(impl, most) ==
  LET after[id \in 0..6] ==
        IF id = 0 THEN [a \in 0..56 |-> <<0, <<>>, a>>]
        ELSE IF id \in DOMAIN impl THEN Store(after[id - 1], id, <<>>)
        ELSE after[id - 1]
  IN  [count |-> 0, buf |-> [i \in 1..most |-> <<"junk">>], mem |-> after[6]]

\* The buffer is full: each function goes from its state to the next.
Absorb(impl, mem, buf, count) ==
  LET after[id \in 0..6] ==
        IF id = 0 THEN mem
        ELSE LET prev == after[id - 1] IN
             IF id \notin DOMAIN impl THEN prev
             ELSE LET cc == br_hash_set_state(br_hash_init(impl[id]),
                              Load(prev, id), count - Len(buf))
                  IN  Store(prev, id, br_hash_update(impl[id], cc, buf).val)
  IN  after[6]

br_multihash_update(impl, mc, data) ==
  LET put(s, byte) ==
        LET buf == [s.buf EXCEPT ![(s.count % Len(s.buf)) + 1] = byte]
            n == s.count + 1
        IN  [count |-> n, buf |-> buf,
             mem |-> IF n % Len(buf) = 0 THEN Absorb(impl, s.mem, buf, n) ELSE s.mem]
      after[n \in 0..Len(data)] ==
        IF n = 0 THEN mc ELSE put(after[n - 1], data[n])
  IN  after[Len(data)]

br_multihash_out(impl, mc, id) ==
  LET waits == mc.count % Len(mc.buf)
      cc == br_hash_set_state(br_hash_init(impl[id]), Load(mc.mem, id), mc.count - waits)
  IN  br_hash_out(impl[id], br_hash_update(impl[id], cc, SubSeq(mc.buf, 1, waits)))

-----------------------------------------------------------------------------
(* What they stand for: the digest of a whole message, by the rule of the   *)
(* standards (a one bit, as few zeros as possible, the length), and HMAC.    *)
Padded(h, msg) ==
  LET gap == (0 - (Len(msg) + 1 + h.count)) % h.block
      count == [i \in 1..h.count |->
                  IF i <= h.count - CountLen THEN Zero
                  ELSE CountByte(Len(msg), i - 1 - (h.count - CountLen))]
  IN  msg \o <<OneBit>> \o Zeros(gap) \o count

Blocks(h, bytes) ==
  [b \in 1..(Len(bytes) \div h.block) |->
     [i \in 0..(h.block - 1) |-> bytes[(b - 1) * h.block + i + 1]]]

Digest(h, msg) == DigestBytes(h, Blocks(h, Padded(h, msg)))

Hmac(h, key, msg) ==
  LET k == IF Len(key) > h.block THEN Digest(h, key) ELSE key
      full == k \o Zeros(h.block - Len(k))
  IN  Digest(h, Xored(full, "5C") \o Digest(h, Xored(full, "36") \o msg))
=============================================================================
