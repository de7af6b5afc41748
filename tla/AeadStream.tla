------------------------------ MODULE AeadStream ------------------------------
(***************************************************************************)
(* Authenticated encryption in pieces: gcm.c, ccm.c and eax.c.  Each keeps *)
(* a buffer of one block and a place in it, since the block cipher works on *)
(* whole blocks only.  The cipher is abstract: every byte of a key stream is *)
(* a value of its own, and a MAC is the sequence of the blocks that went in, *)
(* free of collisions.  A byte is the set of the values it is the exclusive *)
(* or of, so that zero is the empty set.                                    *)
(***************************************************************************)
EXTENDS Integers, Sequences

CONSTANT Block   \* bytes of a block, 16 in the code

ASSUME BlockAssumption == Block \in Nat /\ Block > 2

XorBytes(s, t) == [i \in 1..Len(s) |-> (s[i] \ t[i]) \cup (t[i] \ s[i])]

First(s, n) == SubSeq(s, 1, n)
After(s, n) == SubSeq(s, n + 1, Len(s))
Nulls(n) == [i \in 1..n |-> {}]
Piece(name, done, n) == [i \in 1..n |-> {<<name, done + i>>}]

\* data over the bytes of buf from place at on.
Put(buf, at, data) ==
  [i \in 1..Block |-> IF i \in (at + 1)..(at + Len(data)) THEN data[i - at] ELSE buf[i]]

Whole(n) == n - (n % Block)
Cut(s) == [b \in 1..(Len(s) \div Block) |-> SubSeq(s, (b - 1) * Block + 1, b * Block)]

-----------------------------------------------------------------------------
(* The block cipher: the key stream of counter c and those after it, and both *)
(* MACs. GHASH pads its input with zeros, CBC-MAC takes whole blocks only.   *)
KeyStream(iv, c, n) ==
  [i \in 1..n |-> {<<"ks", iv, c + (i - 1) \div Block, (i - 1) % Block>>}]
ctr(iv, c, data) == XorBytes(data, KeyStream(iv, c, Len(data)))
gh(y, data) == y \o Cut(data \o Nulls((0 - Len(data)) % Block))
mac(y, data) == y \o Cut(data)
MacBytes(y) == [i \in 1..Block |-> {<<"mac", y, i>>}]

\* What is kept of bytes x that became z, for the tag: in GCM and EAX those of
\* the cipher text, in CCM those of the plain text.
\* Mutant: what is handed out is kept, whatever the direction.
Encrypted_out(encrypt, x, z) == z

Encrypted(encrypt, x, z) == IF encrypt THEN z ELSE x
Decrypted(encrypt, x, z) == IF encrypt THEN x ELSE z

-----------------------------------------------------------------------------
(* GCM.  Counter 1 masks the tag, the data begins at 2.                      *)
br_gcm_reset == [jc |-> 2, y |-> <<>>, count_aad |-> 0, count_ctr |-> 0, buf |-> Nulls(Block)]

br_gcm_aad_inject(g, data) ==
  LET ptr == g.count_aad % Block
      clen == IF ptr = 0 THEN 0 ELSE Block - ptr
      rest == After(data, clen)
      dlen == Whole(Len(rest))
      y == IF ptr = 0 THEN g.y ELSE gh(g.y, Put(g.buf, ptr, First(data, clen)))
  IN  [(IF Len(data) < clen THEN [g EXCEPT !.buf = Put(@, ptr, data)]
        ELSE [g EXCEPT !.y = gh(y, First(rest, dlen)),
                       !.buf = Put(@, 0, After(rest, dlen))])
        EXCEPT !.count_aad = @ + Len(data)]

br_gcm_flip(g) ==
  LET ptr == g.count_aad % Block IN
  IF ptr = 0 THEN g ELSE [g EXCEPT !.y = gh(@, First(g.buf, ptr))]

\* First the block begun, then whole blocks, then a new block is begun.
br_gcm_run(g, encrypt, data) ==
  LET ptr == g.count_ctr % Block
      clen == IF ptr = 0 THEN 0
              ELSE IF Len(data) < Block - ptr THEN Len(data) ELSE Block - ptr
      x == First(data, clen)
      z == XorBytes(x, SubSeq(g.buf, ptr + 1, ptr + clen))
      buf == Put(g.buf, ptr, Encrypted(encrypt, x, z))
      y == IF ptr = 0 THEN g.y ELSE gh(g.y, buf)
      rest == After(data, clen)
      d == First(rest, Whole(Len(rest)))
      e == ctr("iv", g.jc, d)
      jc == g.jc + Len(d) \div Block
      last == After(rest, Len(d))
      f == ctr("iv", jc, last)
  IN  IF ptr # 0 /\ ptr + clen < Block
        THEN [ctx |-> [g EXCEPT !.buf = buf, !.count_ctr = @ + clen], out |-> z]
        ELSE [ctx |-> [g EXCEPT
                !.y = gh(y, Encrypted(encrypt, d, e)),
                !.jc = IF last = <<>> THEN jc ELSE jc + 1,
                !.buf = IF last = <<>> THEN buf
                        ELSE Put(KeyStream("iv", jc, Block), 0, Encrypted(encrypt, last, f)),
                !.count_ctr = @ + Len(data)],
              out |-> z \o e \o f]

LengthBlock(aad, data) == [i \in 1..Block |-> {<<"lengths", aad, data, i>>}]

br_gcm_get_tag(g) ==
  LET ptr == g.count_ctr % Block
      y == IF ptr = 0 THEN g.y ELSE gh(g.y, First(g.buf, ptr))
  IN  ctr("iv", 1, MacBytes(gh(y, LengthBlock(g.count_aad, g.count_ctr))))

-----------------------------------------------------------------------------
(* CCM.  The lengths are told beforehand: the first block has them, and the  *)
(* additional data begins with its own, in two bytes: the headers of six and *)
(* ten bytes of longer data are left out, and so are the lengths of nonce,   *)
(* tag and data that br_ccm_reset refuses. Counter 0 masks the tag.          *)
FirstBlock(aad, data) == [i \in 1..Block |-> {<<"B0", aad > 0, data, i>>}]
AadHeader(aad) == IF aad > 0 THEN [i \in 1..2 |-> {<<"aad_len", aad, i>>}] ELSE <<>>

br_ccm_reset(aad_len, data_len) ==
  [mac |-> mac(<<>>, FirstBlock(aad_len, data_len)), ctr |-> 1,
   buf |-> Put(Nulls(Block), 0, AadHeader(aad_len)), ptr |-> Len(AadHeader(aad_len))]

br_ccm_aad_inject(c, data) ==
  LET clen == IF c.ptr = 0 THEN 0 ELSE Block - c.ptr
      rest == After(data, clen)
      dlen == Whole(Len(rest))
      y == IF c.ptr = 0 THEN c.mac ELSE mac(c.mac, Put(c.buf, c.ptr, First(data, clen)))
  IN  IF clen > Len(data)
        THEN [c EXCEPT !.buf = Put(@, c.ptr, data), !.ptr = @ + Len(data)]
        ELSE [c EXCEPT !.mac = mac(y, First(rest, dlen)),
                       !.buf = Put(@, 0, After(rest, dlen)), !.ptr = Len(rest) - dlen]

\* The block begun, completed with zeros.
Completed(c) ==
  IF c.ptr = 0 THEN c.mac ELSE mac(c.mac, Put(c.buf, c.ptr, Nulls(Block - c.ptr)))

br_ccm_flip(c) == [c EXCEPT !.mac = Completed(c), !.ptr = 0]

br_ccm_run(c, encrypt, data) ==
  LET clen == IF c.ptr = 0 THEN 0
              ELSE IF Block - c.ptr > Len(data) THEN Len(data) ELSE Block - c.ptr
      x == First(data, clen)
      z == XorBytes(x, SubSeq(c.buf, c.ptr + 1, c.ptr + clen))
      buf == Put(c.buf, c.ptr, Decrypted(encrypt, x, z))
      y == IF c.ptr = 0 THEN c.mac ELSE mac(c.mac, buf)
      rest == After(data, clen)
      d == First(rest, Whole(Len(rest)))
      e == ctr("nonce", c.ctr, d)
      n == c.ctr + Len(d) \div Block
      last == After(rest, Len(d))
      f == ctr("nonce", n, last)
  IN  IF c.ptr # 0 /\ c.ptr + clen < Block
        THEN [ctx |-> [c EXCEPT !.buf = buf, !.ptr = @ + clen], out |-> z]
        ELSE [ctx |-> [c EXCEPT
                !.mac = mac(y, Decrypted(encrypt, d, e)),
                !.ctr = IF last = <<>> THEN n ELSE n + 1,
                !.buf = IF last = <<>> THEN buf
                        ELSE Put(KeyStream("nonce", n, Block), 0, Decrypted(encrypt, last, f)),
                !.ptr = Len(last)],
              out |-> z \o e \o f]

br_ccm_get_tag(c) == ctr("nonce", 0, MacBytes(Completed(c)))

-----------------------------------------------------------------------------
(* EAX: three MACs, each begun with a block of its own number.  The last block *)
(* is marked, so it waits in the buffer until more data follows: ptr may be  *)
(* Block.  A state captured has the number blocks done, and ptr begins at 0. *)
NumberBlock(t) == Append(Nulls(Block - 1), {<<"omac", t>>})

omac_start(c, t) == [c EXCEPT !.mac = <<>>, !.buf = NumberBlock(t), !.ptr = Block]

\* The last block, whole or completed, is masked by the one key or the other.
Masked(buf, key) == XorBytes(buf, Piece(key, 0, Block))
LastBlock(buf, ptr) ==
  IF ptr = Block THEN Masked(buf, "L2")
  ELSE Masked(Put(buf, ptr, <<{<<"80", 0>>}>> \o Nulls(Block - ptr - 1)), "L4")

do_pad(c) == [c EXCEPT !.mac = mac(@, LastBlock(c.buf, c.ptr))]

\* Bytes of data that do not wait as its last block.
BeforeLast(data) ==
  Len(data) - (IF Len(data) % Block = 0 THEN Block ELSE Len(data) % Block)

do_cbcmac_chunk(c, data) ==
  IF data = <<>> THEN c ELSE
  LET y == IF c.ptr = Block THEN mac(c.mac, c.buf) ELSE c.mac
      n == BeforeLast(data)
  IN  [c EXCEPT !.mac = mac(y, First(data, n)), !.buf = Put(@, 0, After(data, n)),
                !.ptr = Len(data) - n]

NewEax == [mac |-> <<>>, buf |-> Nulls(Block), ptr |-> 0, nonce |-> <<>>, head |-> <<>>,
           captured |-> FALSE, iv |-> <<>>, ctr |-> 0]

\* st[1] may have been replaced by the MAC of additional data (br_eax_get_aad_mac).
br_eax_capture == [t \in 0..2 |-> mac(<<>>, NumberBlock(t))]

br_eax_reset(nonce) ==
  LET c == do_pad(do_cbcmac_chunk(omac_start(NewEax, 0), nonce)) IN
  [omac_start(c, 1) EXCEPT !.nonce = c.mac, !.captured = FALSE]

NonceFrom(st, nonce) ==
  do_pad(IF nonce = <<>> THEN omac_start(NewEax, 0)
         ELSE do_cbcmac_chunk([NewEax EXCEPT !.mac = st[0], !.ptr = 0], nonce))

\* ctr, here iv, holds the third state until br_eax_flip.
br_eax_reset_pre_aad(st, nonce) ==
  LET c == NonceFrom(st, nonce) IN
  [c EXCEPT !.nonce = c.mac, !.mac = st[1], !.ptr = 0, !.iv = st[2], !.captured = TRUE]

br_eax_reset_post_aad(st, nonce) ==
  LET c == NonceFrom(st, nonce) IN
  [c EXCEPT !.nonce = c.mac, !.iv = c.mac, !.head = st[1], !.mac = st[2], !.ptr = 0]

\* The place stays what it was when the block begun is completed: it is only
\* MACed below if it was complete before.
br_eax_aad_inject(c, data) ==
  LET clen == IF c.ptr < Block THEN Block - c.ptr ELSE 0 IN
  IF c.ptr < Block /\ Len(data) <= clen
    THEN [c EXCEPT !.buf = Put(@, c.ptr, data), !.ptr = @ + Len(data)]
    ELSE do_cbcmac_chunk([c EXCEPT !.buf = Put(@, Block - clen, First(data, clen))],
                         After(data, clen))

br_eax_flip(c) ==
  LET done == do_pad(c)
      d == [done EXCEPT !.head = done.mac]
  IN  [(IF c.captured THEN [d EXCEPT !.mac = c.iv, !.ptr = 0] ELSE omac_start(d, 2))
        EXCEPT !.iv = c.nonce, !.ctr = 0]

br_eax_run(c, encrypt, data) ==
  LET begun == c.ptr \notin {0, Block}
      clen == IF ~begun THEN 0
              ELSE IF Len(data) <= Block - c.ptr THEN Len(data) ELSE Block - c.ptr
      x == First(data, clen)
      z == XorBytes(x, SubSeq(c.buf, c.ptr + 1, c.ptr + clen))
      buf == Put(c.buf, c.ptr, Encrypted(encrypt, x, z))
      y == IF c.ptr = 0 THEN c.mac ELSE mac(c.mac, buf)
      rest == After(data, clen)
      d == First(rest, BeforeLast(rest))
      e == ctr(c.iv, c.ctr, d)
      n == c.ctr + Len(d) \div Block
      last == After(rest, Len(d))
      f == ctr(c.iv, n, last)
  IN  IF data = <<>> THEN [ctx |-> c, out |-> <<>>]
      ELSE IF begun /\ Len(data) <= clen
        THEN [ctx |-> [c EXCEPT !.buf = buf, !.ptr = @ + clen], out |-> z]
        ELSE [ctx |-> [c EXCEPT
                !.mac = mac(y, Encrypted(encrypt, d, e)), !.ctr = n + 1,
                !.buf = Put(KeyStream(c.iv, n, Block), 0, Encrypted(encrypt, last, f)),
                !.ptr = Len(last)],
              out |-> z \o e \o f]

Sum(c) == XorBytes(MacBytes(c.mac), XorBytes(MacBytes(c.nonce), MacBytes(c.head)))
br_eax_get_tag(c) == Sum(do_pad(c))

-----------------------------------------------------------------------------
(* What they stand for: cipher text and tag of a message as a whole.         *)
Filled(s) == s \o Nulls((0 - Len(s)) % Block)
Omac(t, data) ==
  LET s == NumberBlock(t) \o data
      n == BeforeLast(s)
  IN  Append(Cut(First(s, n)),
             LastBlock(Put(Nulls(Block), 0, After(s, n)), Len(s) - n))

GcmTag(aad, cipher) ==
  ctr("iv", 1, MacBytes(Cut(Filled(aad) \o Filled(cipher) \o
                            LengthBlock(Len(aad), Len(cipher)))))
CcmTag(aad, plain) ==
  ctr("nonce", 0, MacBytes(Cut(FirstBlock(Len(aad), Len(plain)) \o
                               Filled(AadHeader(Len(aad)) \o aad) \o Filled(plain))))
EaxTag(nonce, aad, cipher) ==
  XorBytes(MacBytes(Omac(0, nonce)),
           XorBytes(MacBytes(Omac(1, aad)), MacBytes(Omac(2, cipher))))
=============================================================================
