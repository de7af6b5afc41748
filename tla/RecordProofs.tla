---------------------------- MODULE RecordProofs ----------------------------
(***************************************************************************)
(* Proofs about the record layer, for every buffer length, every set of    *)
(* ciphers and every header: lemmas about the length arithmetic of the     *)
(* ciphers, one lemma for each register operation, and the invariants of   *)
(* RecordBuffers.                                                          *)
(***************************************************************************)
EXTENDS RecordBuffers, TLAPS

Modes == Ciphers \cup {Clear}

-----------------------------------------------------------------------------
(* Length arithmetic.                                                      *)

LEMMA BlockBounds ==
  ASSUME NEW n \in Int, NEW b \in BlockSizes
  PROVE  /\ WholeBlocks(n, b) \in Int
         /\ WholeBlocks(n, b) <= n
         /\ n < WholeBlocks(n, b) + b
         /\ Padded(n, b) \in Int
         /\ n < Padded(n, b)
         /\ Padded(n, b) <= n + b
<1>1. b \in {4, 8, 16}
  BY BlockSizesAssumption
<1>2. CASE b = 4
  BY <1>2 DEF WholeBlocks, Padded
<1>3. CASE b = 8
  BY <1>3 DEF WholeBlocks, Padded
<1>4. CASE b = 16
  BY <1>4 DEF WholeBlocks, Padded
<1> QED
  BY <1>1, <1>2, <1>3, <1>4

\* Padding a length that leaves at least one byte free in whole blocks does
\* not go beyond those blocks.
LEMMA PaddingFits ==
  ASSUME NEW n \in Int, NEW m \in Int, NEW b \in BlockSizes,
         n < WholeBlocks(m, b)
  PROVE  Padded(n, b) <= WholeBlocks(m, b)
<1>1. b \in {4, 8, 16}
  BY BlockSizesAssumption
<1>2. CASE b = 4
  BY <1>2 DEF WholeBlocks, Padded
<1>3. CASE b = 8
  BY <1>3 DEF WholeBlocks, Padded
<1>4. CASE b = 16
  BY <1>4 DEF WholeBlocks, Padded
<1> QED
  BY <1>1, <1>2, <1>3, <1>4

LEMMA ModeShape ==
  ASSUME NEW c \in Modes
  PROVE  /\ c.iv \in Nat /\ c.tag \in Nat /\ c.split \in BOOLEAN
         /\ c.blk \in {0} \cup BlockSizes
         /\ c.blk = 0 => ~c.split
         /\ c.blk # 0 => /\ c.blk \in BlockSizes /\ c.blk \in Nat \ {0}
                         /\ c.iv = IF c.split THEN 0 ELSE c.blk
         /\ Lead(c) \in Nat
         /\ c.split => Lead(c) > 0
<1>1. c \in Cipher \/ c = Clear
  BY BufferAssumption DEF Modes
<1>2. c \in StreamCipher \/ c \in CbcCipher
  <2>1. Clear \in StreamCipher
    BY DEF StreamCipher, Clear
  <2> QED
    BY <1>1, <2>1 DEF Cipher
<1>3. CASE c \in StreamCipher
  BY <1>3 DEF StreamCipher, Lead
<1>4. CASE c \in CbcCipher
  <2>1. /\ c.iv \in {0} \cup BlockSizes /\ c.tag \in Nat \ {0}
        /\ c.blk \in BlockSizes /\ c.split \in BOOLEAN
        /\ c.iv = IF c.split THEN 0 ELSE c.blk
    BY <1>4 DEF CbcCipher
  <2>2. BlockSizes \subseteq Nat \ {0}
    BY BlockSizesAssumption
  <2>3. Padded(c.tag + 1, c.blk) \in Int /\ Padded(c.tag + 1, c.blk) > c.tag + 1
    BY <2>1, BlockBounds
  <2>4. c.blk \in Nat \ {0} /\ c.iv \in Nat
    <3>1. \A n \in {0} \cup BlockSizes : n \in Nat
      BY <2>2
    <3> QED
      BY <2>1, <2>2, <3>1, Zenon
  <2>5. Lead(c) \in Nat /\ (c.split => Lead(c) > 0)
    BY <2>1, <2>3, <2>4 DEF Lead
  <2> QED
    BY <2>1, <2>4, <2>5
<1> QED
  BY <1>2, <1>3, <1>4

\* What the buffer length leaves for plaintext.
LEMMA RoomBounds ==
  ASSUME NEW c \in Modes
  PROVE  /\ PlainRoom(c) \in Nat \ {0}
         /\ PlainRoom(c) <= MaxPlain
         /\ c.blk = 0 => HeaderLen + HeaderLen + Lead(c) + PlainRoom(c) + c.tag
                           <= OBufLen
         /\ c.blk # 0 => PlainRoom(c) + c.tag + 1 <=
              WholeBlocks(OBufLen - HeaderLen - HeaderLen - Lead(c), c.blk)
<1> DEFINE room == OBufLen - HeaderLen - HeaderLen - Lead(c)
<1>1. room \in Int /\ MaxPlain \in Nat \ {0} /\ OBufLen \in Nat
  BY ModeShape, BufferAssumption, MaxPlainAssumption DEF HeaderLen
<1>2. PlainRoom(c) > 0
  BY BufferAssumption DEF PlainRoom, Modes
<1>3. PlainRoom(c) = Smaller(MaxPlain, IF c.blk = 0 THEN room - c.tag
                                       ELSE WholeBlocks(room, c.blk) - 1 - c.tag)
  BY DEF PlainRoom, max_plaintext
<1>4. CASE c.blk = 0
  <2>1. PlainRoom(c) \in Int /\ PlainRoom(c) <= MaxPlain
        /\ PlainRoom(c) <= room - c.tag
    BY <1>1, <1>3, <1>4, ModeShape DEF Smaller
  <2> QED
    BY <2>1, <1>1, <1>2, <1>4, ModeShape DEF HeaderLen
<1>5. CASE c.blk # 0
  <2>1. WholeBlocks(room, c.blk) \in Int
    BY <1>1, <1>5, ModeShape, BlockBounds
  <2>2. PlainRoom(c) \in Int /\ PlainRoom(c) <= MaxPlain
        /\ PlainRoom(c) <= WholeBlocks(room, c.blk) - 1 - c.tag
    <3> DEFINE w == WholeBlocks(room, c.blk)
    <3> HIDE DEF w
    <3>1. PlainRoom(c) = Smaller(MaxPlain, w - 1 - c.tag)
      BY <1>3, <1>5 DEF w
    <3>2. w \in Int
      BY <2>1 DEF w
    <3>3. PlainRoom(c) \in Int /\ PlainRoom(c) <= MaxPlain
          /\ PlainRoom(c) <= w - 1 - c.tag
      BY <3>1, <3>2, <1>1, ModeShape DEF Smaller
    <3> QED
      BY <3>3 DEF w
  <2> QED
    BY <2>1, <2>2, <1>1, <1>2, <1>5, ModeShape
<1> QED
  BY <1>4, <1>5

\* A record sealed over any gathered payload lies within the buffer.
LEMMA SealedRecordFits ==
  ASSUME NEW c \in Modes, NEW app \in BOOLEAN, NEW len \in 0..PlainRoom(c)
  PROVE  LET a == HeaderLen + Lead(c)
             s == EncryptStart(c, app, a, len)
             e == EncryptEnd(c, app, a, len)
         IN  s \in Nat /\ e \in Nat /\ s < e /\ e <= OBufLen
<1> DEFINE a == HeaderLen + Lead(c)
           room == OBufLen - HeaderLen - HeaderLen - Lead(c)
<1>1. /\ a \in Nat /\ len \in Nat /\ room \in Int /\ OBufLen \in Nat
      /\ PlainRoom(c) \in Nat /\ len <= PlainRoom(c)
  BY RoomBounds, ModeShape, BufferAssumption DEF HeaderLen
<1>2. CASE c.blk = 0
  BY <1>1, <1>2, ModeShape, RoomBounds
     DEF EncryptStart, EncryptEnd, Splits, Lead, HeaderLen
<1>3. CASE c.blk # 0
  <2> DEFINE w == WholeBlocks(room, c.blk)
             p == Padded(len + c.tag, c.blk)
             q == Padded((len - 1) + c.tag, c.blk)
  <2>1. /\ w \in Int /\ w <= room
        /\ len + c.tag + 1 <= w
    BY <1>1, <1>3, ModeShape, RoomBounds, BlockBounds
  <2>2. p \in Int /\ len + c.tag < p /\ p <= w
    <3>1. len + c.tag \in Int /\ len + c.tag < w /\ c.blk \in BlockSizes
      BY <2>1, <1>1, <1>3, ModeShape
    <3> QED
      BY <3>1, <1>1, BlockBounds, PaddingFits
  <2>3. q \in Int /\ (len - 1) + c.tag < q /\ q <= w
    <3>1. (len - 1) + c.tag \in Int /\ (len - 1) + c.tag < w
          /\ c.blk \in BlockSizes
      BY <2>1, <1>1, <1>3, ModeShape
    <3> QED
      BY <3>1, <1>1, BlockBounds, PaddingFits
  <2> HIDE DEF w, p, q
  <2>4. CASE Splits(c, app, len)
    <3>1. c.tag \in Nat /\ Lead(c) \in Nat /\ len > 1
      BY <2>4, ModeShape DEF Splits
    <3>2. /\ EncryptStart(c, app, a, len) = 0
          /\ EncryptEnd(c, app, a, len) = a + 1 + q
      <4> DEFINE first == CbcBody(c, 1)
      <4>1. 1 + c.tag = c.tag + 1
        BY <3>1
      <4>2. Lead(c) = 4 + first
        BY <4>1, <2>4 DEF Lead, Splits, CbcBody
      <4>3. first \in Int
        <5>1. 1 + c.tag \in Int /\ c.blk \in BlockSizes
          BY <3>1, <1>3, ModeShape
        <5> QED
          BY <5>1, BlockBounds DEF CbcBody
      <4>4. EncryptStart(c, app, a, len) = a + 1 - 2 * HeaderLen - first
        BY <2>4 DEF EncryptStart
      <4> HIDE DEF first
      <4>5. EncryptStart(c, app, a, len) = 0
        BY <4>2, <4>3, <4>4 DEF HeaderLen
      <4>6. EncryptEnd(c, app, a, len) = a + 1 + q
        BY <2>4, <1>1, <1>3, ModeShape DEF EncryptEnd, CbcBody, q
      <4> QED
        BY <4>5, <4>6
    <3> QED
      BY <3>1, <3>2, <2>1, <2>3, <1>1 DEF HeaderLen
  <2>5. CASE ~Splits(c, app, len)
    <3>1. /\ EncryptStart(c, app, a, len) = Lead(c) - c.iv
          /\ EncryptEnd(c, app, a, len) = a + p
      BY <2>5, <1>1, <1>3, ModeShape
         DEF EncryptStart, EncryptEnd, CbcBody, HeaderLen, p
    <3>2. c.tag \in Nat /\ Lead(c) \in Nat /\ c.iv \in Nat
      BY ModeShape
    <3>3. c.iv <= Lead(c)
      BY <1>3, <3>2, ModeShape DEF Lead
    <3> QED
      BY <3>1, <3>2, <3>3, <2>1, <2>2, <1>1 DEF HeaderLen
  <2> QED
    BY <2>4, <2>5
<1> QED
  BY <1>2, <1>3

\* A record whose length was accepted holds a plaintext that lies within it.
LEMMA PlaintextWithinRecord ==
  ASSUME NEW c \in Modes, NEW rlen \in Nat, check_length(c, rlen),
         NEW plain \in DecryptLens(c, rlen)
  PROVE  plain \in Nat /\ c.iv + plain <= rlen
<1>1. CASE c.blk = 0
  BY <1>1, ModeShape DEF DecryptLens, check_length, MinRecord
<1>2. CASE c.blk # 0
  BY <1>2, ModeShape DEF DecryptLens
<1> QED
  BY <1>1, <1>2

-----------------------------------------------------------------------------
(* One lemma for each operation on the registers.                          *)

InOK(r) == InHeader(r) \/ InBody(r) \/ InPayload(r)
OutOK(r) == OutGather(r) \/ OutRecord(r)

SameIn(r, s) ==
  /\ s.ixa = r.ixa /\ s.ixb = r.ixb /\ s.ixc = r.ixc
  /\ s.in = r.in
SameOut(r, s) ==
  /\ s.oxa = r.oxa /\ s.oxb = r.oxb /\ s.oxc = r.oxc
  /\ s.out = r.out

LEMMA SameKeeps ==
  ASSUME NEW r, NEW s
  PROVE  /\ SameIn(r, s) /\ InOK(r) => InOK(s)
         /\ SameOut(r, s) /\ OutOK(r) => OutOK(s)
BY DEF SameIn, SameOut, InOK, OutOK, InHeader, InBody, InPayload, OutGather,
       OutRecord, incrypt

LEMMA FailKeeps ==
  ASSUME NEW r \in Registers, NEW e \in Errors
  PROVE  LET s == br_ssl_engine_fail(r, e)
         IN  s \in Registers /\ failed(s)
BY DEF br_ssl_engine_fail, failed, Registers, IoModes

LEMMA ReadyIn ==
  ASSUME NEW r \in Registers
  PROVE  LET s == make_ready_in(r)
         IN  /\ s \in Registers /\ SameOut(r, s) /\ InOK(s)
             /\ s.ixa = 0 /\ s.ixb = 0 /\ s.shutdown_recv = r.shutdown_recv
             /\ s.iomode = IF r.iomode = "in" THEN "inout" ELSE r.iomode
<1> DEFINE m == IF r.iomode = "in" THEN "inout" ELSE r.iomode
           s == make_ready_in(r)
<1>1. m \in IoModes
  BY DEF Registers, IoModes
<1>2. HeaderLen \in Nat /\ HeaderLen > 0
  BY DEF HeaderLen
<1>3. s = [r EXCEPT !.ixa = 0, !.ixb = 0, !.ixc = HeaderLen, !.iomode = m]
  BY DEF make_ready_in, Registers
<1> HIDE DEF m, s
<1>4. s \in Registers
  BY <1>1, <1>2, <1>3 DEF Registers
<1>5. /\ s.ixa = 0 /\ s.ixb = 0 /\ s.ixc = HeaderLen /\ s.iomode = m
      /\ s.shutdown_recv = r.shutdown_recv /\ SameOut(r, s)
  BY <1>3 DEF Registers, SameOut
<1>6. InOK(s)
  BY <1>2, <1>5 DEF InOK, InHeader
<1> QED
  BY <1>4, <1>5, <1>6 DEF m, s

LEMMA ReadyOut ==
  ASSUME NEW r \in Registers
  PROVE  LET s == make_ready_out(r)
         IN  /\ s \in Registers /\ SameIn(r, s) /\ OutGather(s)
             /\ s.oxa = s.oxc
             /\ s.iomode = IF r.iomode = "out" THEN "inout" ELSE r.iomode
<1> DEFINE a == HeaderLen + Lead(r.out)
           n == Smaller(PlainRoom(r.out), r.max_frag_len)
           m == IF r.iomode = "out" THEN "inout" ELSE r.iomode
           s == make_ready_out(r)
<1>1. r.out \in Modes /\ r.max_frag_len \in Nat \ {0}
  BY ParameterAssumption DEF Registers, Modes
<1>2. PlainRoom(r.out) \in Nat \ {0} /\ Lead(r.out) \in Nat
  BY <1>1, RoomBounds, ModeShape
<1>3. a \in Nat /\ n \in Nat \ {0} /\ n <= PlainRoom(r.out)
  BY <1>1, <1>2 DEF Smaller, HeaderLen
<1> DEFINE b == a + n
<1>4. m \in IoModes
  BY DEF Registers, IoModes
<1>5. s = [r EXCEPT !.oxa = a, !.oxb = b, !.oxc = a, !.iomode = m]
  BY DEF make_ready_out, Registers
<1>6. b \in Nat /\ a < b /\ b - a <= PlainRoom(r.out)
  BY <1>2, <1>3
<1> HIDE DEF a, b, m, n, s
<1>7. s \in Registers
  BY <1>3, <1>4, <1>5, <1>6 DEF Registers
<1>8. /\ s.oxa = a /\ s.oxb = b /\ s.oxc = a /\ s.iomode = m
      /\ SameIn(r, s) /\ s.out = r.out
  BY <1>5 DEF Registers, SameIn
<1>9. OutGather(s)
  BY <1>3, <1>6, <1>8 DEF OutGather, a
<1> QED
  BY <1>7, <1>8, <1>9 DEF m, s

\* With a shared buffer, iomode says which direction holds it.
HoldsMode(r) ==
  /\ r.iomode = "in" <=> InBusy(r)
  /\ r.iomode = "out" <=> OutBusy(r)

LEMMA HeaderKeeps ==
  ASSUME NEW r \in Registers, NEW hdr \in Headers, CanIn(r),
         Shared => r.iomode = "in"
  PROVE  LET s == ReadHeader(r, hdr)
         IN  /\ s \in Registers /\ SameOut(r, s)
             /\ ~failed(s) => /\ InOK(s) /\ s.ixa = s.ixb /\ CanIn(s)
                              /\ Shared => s.iomode =
                                   IF InBusy(s) THEN "in" ELSE "inout"
<1> DEFINE e == HeaderError(r, hdr)
           v == IF e \in {"unsupported_version", "bad_version"}
                THEN r.version_in ELSE hdr.version
           known == [r EXCEPT !.record_type_in = hdr.type, !.version_in = v]
           s == ReadHeader(r, hdr)
<1>1. /\ hdr.type \in RecordTypes /\ hdr.version \in Versions \cup {0}
      /\ hdr.rlen \in Nat
  BY InputAssumption DEF Headers
<1>2. e \in Errors /\ v \in Versions \cup {0}
  BY <1>1 DEF HeaderError, Errors, Registers
<1>3. known \in Registers /\ SameOut(r, known) /\ known.iomode = r.iomode
      /\ SameIn(r, known)
  BY <1>1, <1>2 DEF Registers, SameOut, SameIn
<1>4. s = IF e # "ok" THEN br_ssl_engine_fail(known, e)
          ELSE IF hdr.rlen = 0 THEN make_ready_in(known)
          ELSE [known EXCEPT !.ixa = HeaderLen, !.ixb = HeaderLen,
                             !.ixc = hdr.rlen]
  BY DEF ReadHeader, Registers
<1>5. e = "ok" => LengthAllowed(r, hdr.rlen) /\ FitsBuffer(r, hdr.rlen)
  BY DEF HeaderError
<1> HIDE DEF e, v, known, s
<1>6. CASE e # "ok"
  <2>1. s = br_ssl_engine_fail(known, e)
    BY <1>4, <1>6
  <2>2. SameOut(known, s)
    BY <2>1, <1>3 DEF br_ssl_engine_fail, SameOut, Registers
  <2> QED
    BY <2>1, <2>2, <1>2, <1>3, FailKeeps DEF s, SameOut
<1>7. CASE e = "ok" /\ hdr.rlen = 0
  <2>1. s = make_ready_in(known)
    BY <1>4, <1>7
  <2> QED
    BY <2>1, <1>3, ReadyIn DEF s, SameOut, CanIn, InBusy
<1>8. CASE e = "ok" /\ hdr.rlen # 0
  <2> DEFINE n == hdr.rlen
  <2>1. s = [known EXCEPT !.ixa = HeaderLen, !.ixb = HeaderLen, !.ixc = n]
    BY <1>4, <1>8
  <2>2. HeaderLen = 5
    BY DEF HeaderLen
  <2>3. s \in Registers /\ SameOut(known, s) /\ s.iomode = r.iomode
        /\ s.ixa = HeaderLen /\ s.ixb = HeaderLen /\ s.ixc = n /\ s.in = r.in
    BY <2>1, <2>2, <1>1, <1>3 DEF Registers, SameOut, SameIn
  <2>4. InBody(s)
    BY <2>2, <2>3, <1>1, <1>5, <1>8, BufferAssumption
       DEF InBody, incrypt, LengthAllowed, FitsBuffer
  <2> QED
    BY <2>2, <2>3, <2>4, <1>3 DEF s, SameOut, InOK, CanIn, InBusy
<1> QED
  BY <1>6, <1>7, <1>8

LEMMA DecryptKeeps ==
  ASSUME NEW r \in Registers, CanIn(r), incrypt(r), r.ixa = r.ixb, r.ixc = 0,
         HeaderLen <= r.ixa, r.ixa <= IBufLen,
         check_length(r.in, r.ixa - HeaderLen),
         NEW plain \in {-1} \cup DecryptLens(r.in, r.ixa - HeaderLen),
         Shared => r.iomode = "in"
  PROVE  LET s == DecryptRecord(r, plain)
         IN  /\ s \in Registers /\ SameOut(r, s)
             /\ ~failed(s) => /\ InOK(s) /\ CanIn(s)
                              /\ s.ixb - s.ixa = plain
                              /\ Shared => s.iomode =
                                   IF InBusy(s) THEN "in" ELSE "inout"
<1> DEFINE a == DecryptStart(r.in)
           b == a + plain
           s == DecryptRecord(r, plain)
<1>1. r.in \in Modes /\ r.ixa \in Nat /\ IBufLen \in Nat /\ HeaderLen = 5
  BY BufferAssumption DEF Registers, Modes, HeaderLen
<1>2. CASE plain = -1
  <2>1. s = br_ssl_engine_fail(r, "bad_mac")
    BY <1>2 DEF DecryptRecord
  <2>2. SameOut(r, s)
    BY <2>1 DEF br_ssl_engine_fail, SameOut, Registers
  <2> QED
    BY <2>1, <2>2, FailKeeps DEF Errors
<1>3. CASE plain # -1
  <2>1. plain \in Nat /\ r.in.iv + plain <= r.ixa - HeaderLen /\ r.in.iv \in Nat
    BY <1>1, <1>3, PlaintextWithinRecord, ModeShape
  <2>2. CASE plain = 0
    <3>1. s = make_ready_in(r)
      BY <1>3, <2>2 DEF DecryptRecord
    <3> QED
      BY <3>1, <2>2, ReadyIn DEF CanIn, InBusy
  <2>3. CASE plain # 0
    <3>1. s = [r EXCEPT !.ixa = a, !.ixb = b]
      BY <1>3, <2>3 DEF DecryptRecord
    <3>2. a \in Nat /\ b \in Nat /\ HeaderLen <= a /\ a < b /\ b <= IBufLen
          /\ b - a = plain
      BY <1>1, <2>1, <2>3 DEF DecryptStart
    <3> HIDE DEF a, b, s
    <3>3. s \in Registers /\ SameOut(r, s) /\ s.iomode = r.iomode
          /\ s.ixa = a /\ s.ixb = b /\ s.ixc = 0 /\ s.in = r.in
      BY <3>1, <3>2 DEF Registers, SameOut
    <3>4. InPayload(s) /\ InBusy(s)
      BY <1>1, <3>2, <3>3 DEF InPayload, InBusy
    <3> QED
      BY <3>2, <3>3, <3>4 DEF s, InOK, CanIn
  <2> QED
    BY <2>2, <2>3
<1> QED
  BY <1>2, <1>3

LEMMA RecvRecKeeps ==
  ASSUME NEW r \in Registers, recvrec_open(r), InOK(r),
         NEW len \in 1..recvrec_len(r),
         NEW hdr \in HeadersFor(r, len), NEW plain \in PlainsFor(r, len)
  PROVE  LET s == recvrec_ack(r, len, hdr, plain)
         IN  /\ s \in Registers /\ SameOut(r, s)
             /\ ~failed(s) => /\ InOK(s) /\ CanIn(s)
                              /\ s.ixb - s.ixa = Received(r, len, plain)
                              /\ Shared => s.iomode =
                                   IF InBusy(s) THEN "in" ELSE "inout"
<1> DEFINE a == r.ixa + len
           c == r.ixc - len
           m == IF r.iomode = "inout" /\ Shared THEN "in" ELSE r.iomode
           fed == [r EXCEPT !.ixa = a, !.ixb = a, !.ixc = c, !.iomode = m]
           s == recvrec_ack(r, len, hdr, plain)
<1>1. /\ r.ixa \in Nat /\ r.ixb = r.ixa /\ r.ixc \in Nat /\ IBufLen \in Nat
      /\ IBufLen > HeaderLen /\ HeaderLen = 5
      /\ r.iomode \in {"in", "inout"}
  BY BufferAssumption DEF Registers, recvrec_open, CanIn, HeaderLen
<1>2. InHeader(r) \/ InBody(r)
  BY <1>1 DEF InOK, InPayload
<1>3. len \in Nat /\ 0 < len /\ len <= r.ixc /\ len <= IBufLen - r.ixa
  BY <1>1 DEF recvrec_len, Smaller
<1>4. a \in Nat /\ c \in Nat /\ 0 < a /\ a <= IBufLen
  BY <1>1, <1>3
<1>5. m \in {"in", "inout"} /\ (Shared => m = "in")
  BY <1>1
<1>6. s = IF fed.ixa < HeaderLen THEN fed
          ELSE IF fed.ixa = HeaderLen THEN ReadHeader(fed, hdr)
          ELSE IF ~incrypt(r) THEN [fed EXCEPT !.ixa = HeaderLen]
          ELSE IF fed.ixc # 0 THEN fed
          ELSE DecryptRecord(fed, plain)
  BY DEF recvrec_ack, Registers
<1>7. (a <= HeaderLen) <=> InHeader(r)
  BY <1>1, <1>2, <1>3 DEF InHeader, InBody
<1>8. /\ a <= HeaderLen => c = HeaderLen - a
      /\ a > HeaderLen => a + c = r.ixa + r.ixc
  BY <1>1, <1>2, <1>3, <1>7 DEF InHeader
<1> HIDE DEF a, c, m
<1>9. fed \in Registers
  BY <1>4, <1>5 DEF Registers, IoModes
<1>10. /\ fed.ixa = a /\ fed.ixb = a /\ fed.ixc = c /\ fed.iomode = m
       /\ fed.in = r.in /\ SameOut(r, fed)
  BY DEF Registers, SameOut
<1> HIDE DEF fed, s
<1>11. CanIn(fed) /\ (Shared => fed.iomode = "in") /\ ~failed(fed)
  BY <1>5, <1>10 DEF CanIn, failed
<1>12. CASE a < HeaderLen
  <2>1. s = fed /\ InHeader(s)
    BY <1>1, <1>4, <1>6, <1>7, <1>8, <1>10, <1>12 DEF InHeader
  <2>2. Received(r, len, plain) = 0
    <3>1. plain = 0 /\ ~(r.ixa + len > HeaderLen)
      BY <1>1, <1>4, <1>12 DEF a, PlainsFor, Completes
    <3> QED
      BY <3>1 DEF Received, Completes
  <2> QED
    BY <2>1, <2>2, <1>4, <1>9, <1>10, <1>11 DEF s, InOK, InBusy
<1>13. CASE a = HeaderLen
  <2>1. s = ReadHeader(fed, hdr)
    BY <1>1, <1>6, <1>10, <1>13
  <2>2. hdr \in Headers
    BY <1>13 DEF HeadersFor, a
  <2>3. Received(r, len, plain) = 0
    <3>1. ~(r.ixa + len > HeaderLen)
      BY <1>1, <1>4, <1>13 DEF a
    <3> QED
      BY <3>1 DEF Received, Completes
  <2>4. /\ s \in Registers /\ SameOut(fed, s)
        /\ ~failed(s) => /\ InOK(s) /\ s.ixa = s.ixb /\ CanIn(s)
                         /\ Shared => s.iomode =
                              IF InBusy(s) THEN "in" ELSE "inout"
    BY <2>1, <2>2, <1>9, <1>11, HeaderKeeps
  <2>5. s.ixa = s.ixb => s.ixb - s.ixa = 0
    BY <2>4 DEF Registers
  <2> QED
    BY <2>3, <2>4, <2>5, <1>10 DEF s, SameOut
<1>14. CASE a > HeaderLen /\ ~incrypt(r)
  <2>1. InBody(r) /\ r.ixa = HeaderLen
    BY <1>1, <1>2, <1>4, <1>7, <1>14 DEF InBody
  <2>2. s = [fed EXCEPT !.ixa = HeaderLen]
    BY <1>1, <1>4, <1>6, <1>10, <1>14
  <2>3. /\ s \in Registers /\ SameOut(fed, s) /\ s.iomode = m
        /\ s.ixa = HeaderLen /\ s.ixb = a /\ s.in = r.in
    BY <2>2, <1>1, <1>9, <1>10 DEF Registers, SameOut
  <2>4. InPayload(s) /\ InBusy(s)
    BY <2>3, <1>1, <1>4, <1>14 DEF InPayload, InBusy, incrypt
  <2>5. Received(r, len, plain) = len /\ s.ixb - s.ixa = len
    BY <2>1, <2>3, <1>1, <1>3, <1>14 DEF Received, Completes, a
  <2> QED
    BY <2>3, <2>4, <2>5, <1>5, <1>10 DEF s, InOK, CanIn, SameOut
<1>15. CASE a > HeaderLen /\ incrypt(r) /\ c # 0
  <2>1. InBody(r)
    BY <1>1, <1>2, <1>4, <1>7, <1>15
  <2>2. s = fed
    BY <1>1, <1>4, <1>6, <1>10, <1>15
  <2>3. InBody(s) /\ InBusy(s)
    BY <2>1, <2>2, <1>1, <1>4, <1>8, <1>10, <1>15
       DEF InBody, InBusy, incrypt
  <2>4. Received(r, len, plain) = 0 /\ s.ixb - s.ixa = 0
    <3>1. ~Completes(r, len)
      BY <1>1, <1>3, <1>15 DEF Completes, c
    <3> QED
      BY <3>1, <2>2, <1>4, <1>10, <1>15 DEF Received
  <2> QED
    BY <2>2, <2>3, <2>4, <1>5, <1>9, <1>10, <1>11 DEF s, InOK
<1>16. CASE a > HeaderLen /\ incrypt(r) /\ c = 0
  <2>1. InBody(r)
    BY <1>1, <1>2, <1>4, <1>7, <1>16
  <2>2. s = DecryptRecord(fed, plain)
    BY <1>1, <1>4, <1>6, <1>10, <1>16
  <2>3. check_length(fed.in, fed.ixa - HeaderLen)
    <3>1. r.ixa + r.ixc = a
      BY <1>4, <1>8, <1>16
    <3>2. r.ixa + r.ixc - HeaderLen = fed.ixa - HeaderLen
      BY <3>1, <1>1, <1>4, <1>10
    <3>3. check_length(r.in, r.ixa + r.ixc - HeaderLen)
      BY <2>1, <1>16 DEF InBody
    <3> QED
      BY <3>2, <3>3, <1>10, Zenon
  <2>4. Completes(r, len)
    BY <1>1, <1>3, <1>16 DEF Completes, a, c
  <2>5. plain \in {-1} \cup DecryptLens(fed.in, fed.ixa - HeaderLen)
    <3>1. plain \in {-1} \cup DecryptLens(r.in, r.ixa + len - HeaderLen)
      BY <2>4, Zenon DEF PlainsFor
    <3>2. fed.ixa = r.ixa + len
      BY <1>10 DEF a
    <3>3. fed.ixa - HeaderLen = r.ixa + len - HeaderLen
      BY <3>2, <1>1, <1>3
    <3>4. fed.in = r.in
      BY <1>10
    <3>5. DecryptLens(r.in, r.ixa + len - HeaderLen)
            = DecryptLens(fed.in, fed.ixa - HeaderLen)
      BY <3>3, <3>4, Zenon
    <3> QED
      BY <3>1, <3>5
  <2>6. /\ s \in Registers /\ SameOut(fed, s)
        /\ ~failed(s) => /\ InOK(s) /\ CanIn(s) /\ s.ixb - s.ixa = plain
                         /\ Shared => s.iomode =
                              IF InBusy(s) THEN "in" ELSE "inout"
    BY <2>2, <2>3, <2>5, <1>1, <1>4, <1>9, <1>10, <1>11, <1>16, DecryptKeeps
       DEF incrypt
  <2>7. ~failed(s) => plain # -1
    BY <2>2, <1>11 DEF DecryptRecord, br_ssl_engine_fail, failed
  <2>8. ~failed(s) => Received(r, len, plain) = plain
    BY <2>4, <2>7 DEF Received
  <2> QED
    BY <2>6, <2>8, <1>10 DEF s, SameOut
<1> QED
  BY <1>1, <1>4, <1>12, <1>13, <1>14, <1>15, <1>16

LEMMA RecvPldKeeps ==
  ASSUME NEW r \in Registers, recvpld_open(r), InOK(r),
         NEW len \in 1..recvpld_len(r)
  PROVE  LET s == recvpld_ack(r, len)
         IN  /\ s \in Registers /\ SameOut(r, s) /\ InOK(s) /\ CanIn(s)
             /\ s.ixb - s.ixa = r.ixb - r.ixa - len
             /\ (Shared /\ r.iomode = "in") =>
                  s.iomode = IF InBusy(s) THEN "in" ELSE "inout"
             /\ ~Shared /\ r.iomode = "inout" => s.iomode = "inout"
<1> DEFINE a == r.ixa + len
           read == [r EXCEPT !.ixa = a]
           s == recvpld_ack(r, len)
<1>1. /\ r.ixa \in Nat /\ r.ixb \in Nat /\ r.ixc \in Nat /\ HeaderLen = 5
      /\ r.iomode \in {"in", "inout"} /\ IBufLen \in Nat /\ HeaderLen < IBufLen
  BY BufferAssumption DEF Registers, recvpld_open, CanIn, HeaderLen
<1>2. /\ InPayload(r) /\ len \in Nat /\ 0 < len /\ a \in Nat /\ a <= r.ixb
      /\ HeaderLen < a
  BY <1>1 DEF recvpld_open, recvpld_len, InOK, InHeader, InBody, InPayload
<1>3. s = IF read.ixa # read.ixb THEN read
          ELSE IF r.ixc = 0 THEN make_ready_in(read)
          ELSE [read EXCEPT !.ixa = HeaderLen, !.ixb = HeaderLen]
  BY DEF recvpld_ack
<1> HIDE DEF a
<1>4. read \in Registers
  BY <1>2 DEF Registers
<1>5. /\ read.ixa = a /\ read.ixb = r.ixb /\ read.ixc = r.ixc
      /\ read.iomode = r.iomode /\ read.in = r.in /\ SameOut(r, read)
  BY DEF Registers, SameOut
<1> HIDE DEF read, s
<1>6. CASE a # r.ixb
  <2>1. s = read
    BY <1>3, <1>5, <1>6
  <2>2. InPayload(s) /\ InBusy(s)
    BY <2>1, <1>1, <1>2, <1>5, <1>6 DEF InPayload, InBusy, incrypt
  <2>3. s.ixb - s.ixa = r.ixb - r.ixa - len
    BY <2>1, <1>1, <1>2, <1>5 DEF a
  <2> QED
    BY <2>1, <2>2, <2>3, <1>1, <1>4, <1>5 DEF s, InOK, CanIn
<1>7. CASE a = r.ixb /\ r.ixc = 0
  <2>1. s = make_ready_in(read)
    BY <1>3, <1>5, <1>7
  <2>2. /\ s \in Registers /\ SameOut(read, s) /\ InOK(s)
        /\ s.ixa = 0 /\ s.ixb = 0
        /\ s.iomode = IF read.iomode = "in" THEN "inout" ELSE read.iomode
    BY <2>1, <1>4, ReadyIn
  <2>3. s.ixb - s.ixa = r.ixb - r.ixa - len
    BY <2>2, <1>1, <1>2, <1>7 DEF a
  <2> QED
    BY <2>2, <2>3, <1>1, <1>5 DEF s, SameOut, CanIn, InBusy
<1>8. CASE a = r.ixb /\ r.ixc # 0
  <2>1. s = [read EXCEPT !.ixa = HeaderLen, !.ixb = HeaderLen]
    BY <1>3, <1>5, <1>8
  <2>2. /\ s \in Registers /\ SameOut(read, s) /\ s.iomode = r.iomode
        /\ s.ixa = HeaderLen /\ s.ixb = HeaderLen /\ s.ixc = r.ixc
        /\ s.in = r.in
    BY <2>1, <1>1, <1>4, <1>5 DEF Registers, SameOut
  <2>3. InBody(s) /\ InBusy(s)
    BY <2>2, <1>1, <1>2, <1>8 DEF InBody, InBusy, InPayload, incrypt
  <2>4. s.ixb - s.ixa = r.ixb - r.ixa - len
    BY <2>2, <1>1, <1>2, <1>8 DEF a
  <2> QED
    BY <2>2, <2>3, <2>4, <1>1, <1>5 DEF s, InOK, CanIn, SameOut
<1> QED
  BY <1>6, <1>7, <1>8

\* A gathered payload, possibly up to and past its limit by the marker that
\* sendpld_ack sets, becomes a record.
LEMMA FlushKeeps ==
  ASSUME NEW r \in Registers, NEW app \in BOOLEAN, NEW force \in BOOLEAN,
         Seals(r, force) => /\ r.oxc = HeaderLen + Lead(r.out)
                            /\ r.oxa - r.oxc \in 0..PlainRoom(r.out)
  PROVE  LET s == sendpld_flush(r, force, app)
         IN  /\ s \in Registers /\ SameIn(r, s) /\ s.iomode = r.iomode
             /\ Seals(r, force) => OutRecord(s)
             /\ ~Seals(r, force) => s = r
<1> DEFINE n == r.oxa - r.oxc
           buf == EncryptStart(r.out, app, r.oxc, n)
           end == EncryptEnd(r.out, app, r.oxc, n)
           s == sendpld_flush(r, force, app)
<1>1. CASE ~Seals(r, force)
  BY <1>1 DEF sendpld_flush, SameIn
<1>2. CASE Seals(r, force)
  <2>1. s = [r EXCEPT !.oxa = buf, !.oxb = buf, !.oxc = end]
    BY <1>2 DEF sendpld_flush
  <2>2. r.out \in Modes
    BY DEF Registers, Modes
  <2>3. buf \in Nat /\ end \in Nat /\ buf < end /\ end <= OBufLen
    BY <1>2, <2>2, SealedRecordFits
  <2> HIDE DEF buf, end, n, s
  <2>4. s \in Registers /\ SameIn(r, s) /\ s.iomode = r.iomode
        /\ s.oxa = buf /\ s.oxb = buf /\ s.oxc = end
    BY <2>1, <2>3 DEF Registers, SameIn
  <2> QED
    BY <1>2, <2>3, <2>4 DEF OutRecord, s
<1> QED
  BY <1>1, <1>2

LEMMA SendPldKeeps ==
  ASSUME NEW r \in Registers, sendpld_open(r), OutOK(r),
         NEW len \in 1..sendpld_len(r), NEW app \in BOOLEAN
  PROVE  LET s == sendpld_ack(r, len, app)
         IN  /\ s \in Registers /\ SameIn(r, s) /\ CanOut(s)
             /\ r.oxa + len >= r.oxb => OutRecord(s)
             /\ r.oxa + len < r.oxb => /\ OutGather(s) /\ has_pld_to_send(s)
                                       /\ s.oxa = r.oxa + len /\ s.oxc = r.oxc
             /\ s.out = r.out
             /\ s.iomode = IF r.iomode = "inout" /\ Shared THEN "out"
                           ELSE r.iomode
<1> DEFINE a == r.oxa + len
           b == IF a >= r.oxb THEN a + 1 ELSE r.oxb
           m == IF r.iomode = "inout" /\ Shared THEN "out" ELSE r.iomode
           g == GatherPayload(r, len)
           s == sendpld_ack(r, len, app)
<1>1. /\ r.oxa \in Nat /\ r.oxb \in Nat /\ r.oxc \in Nat
      /\ r.iomode \in {"out", "inout"} /\ r.out \in Modes
  BY DEF Registers, sendpld_open, CanOut, Modes
<1>2. /\ OutGather(r) /\ len \in Nat /\ 0 < len /\ a \in Nat /\ a <= r.oxb
      /\ r.oxc < a
  BY <1>1 DEF sendpld_open, sendpld_len, OutOK, OutGather, OutRecord
<1>3. b \in Nat /\ a < b /\ m \in {"out", "inout"}
  BY <1>1, <1>2
<1>4. g = [r EXCEPT !.oxa = a, !.oxb = b, !.iomode = m]
  BY DEF GatherPayload, Registers
<1>5. s = IF a >= r.oxb THEN sendpld_flush(g, FALSE, app) ELSE g
  BY DEF sendpld_ack
<1>6. b = IF a >= r.oxb THEN a + 1 ELSE r.oxb
  OBVIOUS
<1>7. m = IF r.iomode = "inout" /\ Shared THEN "out" ELSE r.iomode
  OBVIOUS
<1>8. a = r.oxa + len
  OBVIOUS
<1> HIDE DEF a, b, m, g, s
<1>9. g \in Registers
  BY <1>2, <1>3, <1>4 DEF Registers, IoModes
<1>10. /\ g.oxa = a /\ g.oxb = b /\ g.oxc = r.oxc /\ g.iomode = m
       /\ g.out = r.out /\ SameIn(r, g)
  BY <1>4 DEF Registers, SameIn
<1>11. CASE a >= r.oxb
  <2>1. a - r.oxc \in 0..PlainRoom(r.out) /\ r.oxc = HeaderLen + Lead(r.out)
    <3>1. PlainRoom(r.out) \in Nat
      BY <1>1, RoomBounds
    <3> QED
      BY <3>1, <1>1, <1>2, <1>11 DEF OutGather
  <2>2. Seals(g, FALSE)
    BY <1>1, <1>2, <1>3, <1>10 DEF Seals
  <2>3. /\ s \in Registers /\ SameIn(g, s) /\ s.iomode = g.iomode
        /\ OutRecord(s)
    BY <2>1, <2>2, <1>5, <1>9, <1>10, <1>11, FlushKeeps
  <2>4. s.out = r.out
    BY <1>5, <1>9, <1>10, <1>11 DEF sendpld_flush, Registers
  <2> QED
    BY <2>3, <2>4, <1>1, <1>2, <1>3, <1>7, <1>8, <1>10, <1>11
       DEF s, SameIn, CanOut
<1>12. CASE a < r.oxb
  <2>1. s = g /\ b = r.oxb
    <3>1. ~(a >= r.oxb)
      BY <1>1, <1>2, <1>12
    <3> QED
      BY <3>1, <1>5, <1>6
  <2>2. OutGather(s) /\ has_pld_to_send(s)
    BY <2>1, <1>1, <1>2, <1>10, <1>12 DEF OutGather, has_pld_to_send
  <2> QED
    BY <2>1, <2>2, <1>1, <1>2, <1>3, <1>7, <1>8, <1>9, <1>10, <1>12
       DEF s, CanOut
<1> QED
  BY <1>1, <1>2, <1>11, <1>12

LEMMA SendRecKeeps ==
  ASSUME NEW r \in Registers, sendrec_open(r), OutOK(r),
         NEW len \in 1..sendrec_len(r)
  PROVE  LET s == sendrec_ack(r, len)
         IN  /\ s \in Registers /\ SameIn(r, s) /\ OutOK(s)
             /\ ~has_pld_to_send(s)
             /\ s.iomode = IF OutBusy(s) \/ r.iomode # "out" THEN r.iomode
                           ELSE "inout"
<1> DEFINE a == r.oxa + len
           sent == [r EXCEPT !.oxa = a, !.oxb = a]
           s == sendrec_ack(r, len)
<1>1. r.oxa \in Nat /\ r.oxb \in Nat /\ r.oxc \in Nat
  BY DEF Registers
<1>2. OutRecord(r) /\ len \in Nat /\ 0 < len /\ a \in Nat /\ a <= r.oxc
  BY <1>1 DEF sendrec_open, sendrec_len, OutOK, OutGather
<1>3. s = IF sent.oxa = sent.oxc THEN make_ready_out(sent) ELSE sent
  BY DEF sendrec_ack
<1> HIDE DEF a
<1>4. sent \in Registers
  BY <1>2 DEF Registers
<1>5. /\ sent.oxa = a /\ sent.oxb = a /\ sent.oxc = r.oxc
      /\ sent.iomode = r.iomode /\ SameIn(r, sent)
  BY DEF Registers, SameIn
<1> HIDE DEF sent, s
<1>6. CASE a = r.oxc
  <2>1. s = make_ready_out(sent)
    BY <1>3, <1>5, <1>6
  <2> QED
    BY <2>1, <1>4, <1>5, ReadyOut
       DEF s, SameIn, OutOK, has_pld_to_send, OutBusy
<1>7. CASE a # r.oxc
  <2>1. s = sent
    BY <1>3, <1>5, <1>7
  <2>2. OutRecord(s) /\ ~has_pld_to_send(s) /\ OutBusy(s)
    BY <2>1, <1>1, <1>2, <1>5, <1>7 DEF OutRecord, has_pld_to_send, OutBusy
  <2> QED
    BY <2>1, <2>2, <1>4, <1>5 DEF s, OutOK
<1> QED
  BY <1>6, <1>7

LEMMA FragLenKeeps ==
  ASSUME NEW r \in Registers, OutOK(r), NEW len \in FragLens
  PROVE  LET s == br_ssl_engine_new_max_frag_len(r, len)
         IN  /\ s \in Registers /\ SameIn(r, s) /\ OutOK(s)
             /\ s.iomode = r.iomode /\ s.oxa = r.oxa /\ s.oxc = r.oxc
             /\ has_pld_to_send(s) <=> has_pld_to_send(r)
<1> DEFINE nxb == r.oxc + len
           b == IF r.oxa < r.oxb /\ r.oxb > nxb /\ r.oxa < nxb THEN nxb
                ELSE r.oxb
           s == br_ssl_engine_new_max_frag_len(r, len)
<1>1. /\ r.oxa \in Nat /\ r.oxb \in Nat /\ r.oxc \in Nat
      /\ len \in Nat \ {0} /\ r.out \in Modes
  BY ParameterAssumption DEF Registers, Modes
<1>2. s = [r EXCEPT !.max_frag_len = len, !.oxb = b]
  BY DEF br_ssl_engine_new_max_frag_len
<1>3. b \in Nat /\ b <= r.oxb /\ (r.oxa < r.oxb => r.oxa < b)
      /\ (r.oxa = r.oxb => b = r.oxb)
  BY <1>1
<1> HIDE DEF b, s
<1>4. s \in Registers /\ SameIn(r, s) /\ s.iomode = r.iomode
      /\ s.oxa = r.oxa /\ s.oxb = b /\ s.oxc = r.oxc /\ s.out = r.out
  BY <1>1, <1>2, <1>3 DEF Registers, SameIn
<1>5. PlainRoom(r.out) \in Nat
  BY <1>1, RoomBounds
<1>6. CASE OutGather(r)
  BY <1>1, <1>3, <1>4, <1>5, <1>6 DEF s, OutOK, OutGather, has_pld_to_send
<1>7. CASE OutRecord(r)
  BY <1>1, <1>3, <1>4, <1>7 DEF s, OutOK, OutRecord, has_pld_to_send
<1> QED
  BY <1>6, <1>7 DEF OutOK

-----------------------------------------------------------------------------
(* The invariants of RecordBuffers.                                        *)

\* While the engine has not failed, the registers stand where the operations
\* expect them, and the history agrees with them: TypeOK, RegistersConsistent
\* and PayloadConserved are inductive together, and none of them alone.
IInv == TypeOK /\ RegistersConsistent /\ PayloadConserved

LEMMA IInvAlive ==
  ASSUME IInv, ~failed(rc)
  PROVE  /\ rc \in Registers /\ InOK(rc) /\ OutOK(rc)
         /\ held \in Nat /\ unread \in Nat
         /\ held = IF has_pld_to_send(rc) THEN rc.oxa - rc.oxc ELSE 0
         /\ unread = rc.ixb - rc.ixa
BY DEF IInv, TypeOK, RegistersConsistent, PayloadConserved, InOK, OutOK

\* The step obligation, in terms of the new registers.
LEMMA IInvFromParts ==
  ASSUME rc' \in Registers, held' \in Nat, unread' \in Nat,
         ~failed(rc') =>
           /\ InOK(rc') /\ OutOK(rc')
           /\ held' = IF has_pld_to_send(rc') THEN rc'.oxa - rc'.oxc ELSE 0
           /\ unread' = rc'.ixb - rc'.ixa
  PROVE  IInv'
BY DEF IInv, TypeOK, RegistersConsistent, PayloadConserved, InOK, OutOK

\* What is gathered or received is a number of bytes.
LEMMA CountsAreNat ==
  ASSUME NEW r \in Registers, InOK(r), OutOK(r)
  PROVE  /\ r.ixb - r.ixa \in Nat
         /\ OutGather(r) => r.oxa - r.oxc \in Nat
BY DEF Registers, InOK, OutOK, InHeader, InBody, InPayload, OutGather

LEMMA InitIInv == Init => IInv
<1> SUFFICES ASSUME Init PROVE IInv
  OBVIOUS
<1>1. PICK len \in FragLens : rc = InitRegisters(len)
  BY DEF Init
<1> DEFINE blank ==
      [iomode |-> "inout", err |-> "ok", in |-> Clear, out |-> Clear,
       record_type_in |-> "handshake", version_in |-> 0,
       shutdown_recv |-> FALSE, max_frag_len |-> len,
       ixa |-> 0, ixb |-> 0, ixc |-> 0, oxa |-> 0, oxb |-> 0, oxc |-> 0]
<1>2. rc = make_ready_out(make_ready_in(blank))
  BY <1>1 DEF InitRegisters
<1>3. blank \in Registers
  BY DEF Registers, IoModes, Errors, RecordTypes
<1> HIDE DEF blank
<1>4. make_ready_in(blank) \in Registers /\ InOK(make_ready_in(blank))
      /\ make_ready_in(blank).ixa = 0 /\ make_ready_in(blank).ixb = 0
  BY <1>3, ReadyIn
<1>5. /\ rc \in Registers /\ SameIn(make_ready_in(blank), rc)
      /\ OutGather(rc) /\ rc.oxa = rc.oxc
  BY <1>2, <1>4, ReadyOut
<1>6. InOK(rc) /\ rc.ixa = 0 /\ rc.ixb = 0
  BY <1>4, <1>5, SameKeeps DEF SameIn
<1>7. held = 0 /\ unread = 0
  BY DEF Init
<1> QED
  BY <1>5, <1>6, <1>7 DEF IInv, TypeOK, RegistersConsistent,
     PayloadConserved, InOK, has_pld_to_send

LEMMA RecvRecStep ==
  ASSUME IInv, NEW len \in 1..recvrec_len(rc), RecvRec(len)
  PROVE  IInv'
<1>1. recvrec_open(rc) /\ ~failed(rc) /\ held' = held
  BY DEF RecvRec, recvrec_open, CanIn, failed
<1>2. PICK hdr \in HeadersFor(rc, len), plain \in PlainsFor(rc, len) :
        /\ rc' = recvrec_ack(rc, len, hdr, plain)
        /\ unread' = unread + Received(rc, len, plain)
  BY DEF RecvRec
<1>3. rc \in Registers /\ InOK(rc) /\ OutOK(rc)
  BY <1>1, IInvAlive
<1>4. /\ rc' \in Registers /\ SameOut(rc, rc')
      /\ ~failed(rc') => /\ InOK(rc')
                         /\ rc'.ixb - rc'.ixa = Received(rc, len, plain)
  BY <1>1, <1>2, <1>3, RecvRecKeeps
<1>5. unread = 0
  <2>1. unread = rc.ixb - rc.ixa
    BY <1>1, IInvAlive
  <2> QED
    BY <2>1, <1>1, <1>3 DEF recvrec_open, Registers
<1>6. unread' \in Nat
  <2>1. len \in Nat
    BY <1>3, BufferAssumption DEF recvrec_len, Smaller, Registers
  <2>2. plain \in Int /\ (plain # -1 => plain \in Nat)
    <3>1. CASE Completes(rc, len)
      <4>1. rc.in \in Modes /\ InBody(rc) /\ rc.ixa \in Nat /\ rc.ixc \in Nat
        BY <1>1, <1>3, <3>1, <2>1 DEF Registers, Modes, Completes, InOK,
           InHeader, InPayload, recvrec_open, HeaderLen
      <4>2. check_length(rc.in, rc.ixa + len - HeaderLen)
        BY <4>1, <3>1 DEF InBody, Completes
      <4>3. rc.ixa + len - HeaderLen \in Nat
        BY <4>1, <3>1, <2>1 DEF Completes, HeaderLen
      <4> QED
        BY <4>1, <4>2, <4>3, <3>1, PlaintextWithinRecord DEF PlainsFor
    <3>2. CASE ~Completes(rc, len)
      BY <3>2 DEF PlainsFor
    <3> QED
      BY <3>1, <3>2
  <2> QED
    BY <2>1, <2>2, <1>2, <1>5 DEF Received
<1>7. ~failed(rc') => unread' = rc'.ixb - rc'.ixa
  BY <1>2, <1>4, <1>5, <1>6 DEF Registers
<1>8. OutOK(rc')
  BY <1>3, <1>4, SameKeeps
<1>9. /\ held' \in Nat
      /\ held' = IF has_pld_to_send(rc') THEN rc'.oxa - rc'.oxc ELSE 0
  BY <1>1, <1>4, IInvAlive DEF SameOut, has_pld_to_send
<1> QED
  BY <1>4, <1>6, <1>7, <1>8, <1>9, IInvFromParts

\* The output half and its history are left alone.
LEMMA OutputUntouched ==
  ASSUME IInv, ~failed(rc), SameOut(rc, rc'), held' = held
  PROVE  /\ OutOK(rc') /\ held' \in Nat
         /\ held' = IF has_pld_to_send(rc') THEN rc'.oxa - rc'.oxc ELSE 0
<1>1. OutOK(rc')
  BY IInvAlive, SameKeeps
<1> QED
  BY <1>1, IInvAlive DEF SameOut, has_pld_to_send

LEMMA InputUntouched ==
  ASSUME IInv, ~failed(rc), SameIn(rc, rc'), unread' = unread
  PROVE  InOK(rc') /\ unread' \in Nat /\ unread' = rc'.ixb - rc'.ixa
<1>1. InOK(rc')
  BY IInvAlive, SameKeeps
<1> QED
  BY <1>1, IInvAlive DEF SameIn

\* Reading payload, whatever the flags that the reader changes meanwhile.
LEMMA ReadStep ==
  ASSUME IInv, NEW r \in Registers, SameIn(rc, r), SameOut(rc, r),
         r.iomode = rc.iomode, recvpld_open(rc),
         NEW len \in 1..recvpld_len(rc), rc' = recvpld_ack(r, len),
         unread' = unread - len, held' = held
  PROVE  IInv'
<1>1. ~failed(rc) /\ rc \in Registers /\ InOK(rc)
  BY IInvAlive DEF recvpld_open, CanIn, failed
<1>2. recvpld_open(r) /\ recvpld_len(r) = recvpld_len(rc) /\ InOK(r)
  BY <1>1, SameKeeps DEF recvpld_open, recvpld_len, SameIn, CanIn
<1>3. /\ rc' \in Registers /\ SameOut(r, rc') /\ InOK(rc')
      /\ rc'.ixb - rc'.ixa = r.ixb - r.ixa - len
  BY <1>2, RecvPldKeeps
<1>4. SameOut(rc, rc')
  BY <1>3 DEF SameOut
<1>5. unread' = rc'.ixb - rc'.ixa
  <2>1. unread = rc.ixb - rc.ixa /\ rc.ixa \in Nat /\ rc.ixb \in Nat
        /\ len \in Nat
    BY <1>1, IInvAlive DEF Registers, recvpld_len
  <2> QED
    BY <2>1, <1>3 DEF SameIn
<1>6. unread' \in Nat
  <2>1. OutOK(rc')
    BY <1>1, <1>4, IInvAlive, SameKeeps
  <2> QED
    BY <2>1, <1>3, <1>5, CountsAreNat
<1> QED
  BY <1>1, <1>3, <1>4, <1>5, <1>6, OutputUntouched, IInvFromParts

LEMMA SwitchInStep ==
  ASSUME IInv, NEW c \in Ciphers, SwitchIn(c)
  PROVE  IInv'
<1> DEFINE bad == recvpld_len(rc) # 1 \/ ~br_ssl_engine_recvrec_finished(rc)
           r == [rc EXCEPT !.in = c]
<1>1. ~failed(rc) /\ rc \in Registers /\ InOK(rc) /\ InPayload(rc)
  BY IInvAlive DEF SwitchIn, recvpld_open, CanIn, failed, InOK, InHeader,
     InBody
<1>2. unread' = unread - 1 /\ held' = held
      /\ unread = rc.ixb - rc.ixa /\ 0 < unread /\ unread \in Nat
  BY <1>1, IInvAlive DEF SwitchIn, InPayload, Registers, HeaderLen
<1>3. CASE bad
  <2>1. rc' = br_ssl_engine_fail(rc, "bad_ccs")
    BY <1>3 DEF SwitchIn
  <2>2. rc' \in Registers /\ failed(rc')
    BY <2>1, <1>1, FailKeeps DEF Errors
  <2>3. unread' \in Nat /\ held' \in Nat
    BY <1>1, <1>2, IInvAlive
  <2> QED
    BY <2>2, <2>3, IInvFromParts
<1>4. CASE ~bad
  <2>1. rc' = recvpld_ack(r, 1) /\ recvpld_len(rc) = 1 /\ recvpld_open(rc)
    BY <1>4 DEF SwitchIn
  <2>2. rc.ixc = 0 /\ HeaderLen = 5 /\ rc.ixb - rc.ixa = 1
    BY <2>1, <1>1, <1>4 DEF br_ssl_engine_recvrec_finished, InPayload,
       recvpld_open, recvpld_len, Registers, HeaderLen
  <2>3. /\ r \in Registers /\ SameOut(rc, r) /\ r.iomode = rc.iomode
        /\ r.ixa = rc.ixa /\ r.ixb = rc.ixb /\ r.ixc = 0
    BY <2>2, <1>1 DEF Registers, SameOut
  <2> HIDE DEF r
  <2>4. InPayload(r) /\ recvpld_open(r) /\ recvpld_len(r) = 1
    BY <2>1, <2>2, <2>3, <1>1 DEF InPayload, recvpld_open, CanIn, recvpld_len
  <2>5. /\ rc' \in Registers /\ SameOut(r, rc') /\ InOK(rc')
        /\ rc'.ixb - rc'.ixa = r.ixb - r.ixa - 1
    BY <2>1, <2>3, <2>4, RecvPldKeeps DEF InOK
  <2>6. unread' = rc'.ixb - rc'.ixa /\ unread' \in Nat
    BY <2>2, <2>3, <2>5, <1>1, <1>2 DEF Registers
  <2>7. SameOut(rc, rc')
    BY <2>3, <2>5 DEF SameOut
  <2> QED
    BY <2>5, <2>6, <2>7, <1>1, <1>2, OutputUntouched, IInvFromParts
<1> QED
  BY <1>3, <1>4

LEMMA SendPldStep ==
  ASSUME IInv, NEW len \in 1..sendpld_len(rc), NEW app \in BOOLEAN,
         SendPld(len, app)
  PROVE  IInv'
<1> DEFINE full == rc.oxa + len >= rc.oxb
<1>1. /\ ~failed(rc) /\ rc \in Registers /\ OutOK(rc) /\ sendpld_open(rc)
      /\ unread' = unread /\ rc' = sendpld_ack(rc, len, app)
      /\ held' = IF full THEN held + len - (rc.oxa + len - rc.oxc)
                 ELSE held + len
  BY IInvAlive DEF SendPld, sendpld_open, CanOut, failed
<1>2. /\ rc' \in Registers /\ SameIn(rc, rc')
      /\ full => OutRecord(rc')
      /\ rc.oxa + len < rc.oxb =>
           /\ OutGather(rc') /\ has_pld_to_send(rc')
           /\ rc'.oxa = rc.oxa + len /\ rc'.oxc = rc.oxc
  BY <1>1, SendPldKeeps
<1>3. /\ rc.oxa \in Nat /\ rc.oxb \in Nat /\ rc.oxc \in Nat /\ len \in Nat
      /\ OutGather(rc) /\ rc.oxc <= rc.oxa
  BY <1>1 DEF Registers, sendpld_open, sendpld_len, OutOK, OutGather, OutRecord
<1>4. held = rc.oxa - rc.oxc
  BY <1>1, <1>3, IInvAlive DEF has_pld_to_send, sendpld_open
<1>5. CASE full
  <2>1. held' = 0 /\ ~has_pld_to_send(rc') /\ OutOK(rc')
    BY <1>1, <1>2, <1>3, <1>4, <1>5 DEF OutRecord, has_pld_to_send, OutOK
  <2> QED
    BY <2>1, <1>1, <1>2, InputUntouched, IInvFromParts
<1>6. CASE ~full
  <2>1. /\ held' = rc'.oxa - rc'.oxc /\ held' \in Nat
        /\ has_pld_to_send(rc') /\ OutOK(rc')
    BY <1>1, <1>2, <1>3, <1>4, <1>6 DEF OutOK
  <2> QED
    BY <2>1, <1>1, <1>2, InputUntouched, IInvFromParts
<1> QED
  BY <1>5, <1>6

LEMMA FlushStepKeeps ==
  ASSUME IInv, NEW force \in BOOLEAN, NEW app \in BOOLEAN, Flush(force, app)
  PROVE  IInv'
<1>1. /\ ~failed(rc) /\ rc \in Registers /\ OutOK(rc) /\ unread' = unread
      /\ rc' = sendpld_flush(rc, force, app)
      /\ held' = IF Seals(rc, force) THEN held - (rc.oxa - rc.oxc) ELSE held
  BY IInvAlive DEF Flush
<1>2. Seals(rc, force) => /\ rc.oxc = HeaderLen + Lead(rc.out)
                          /\ rc.oxa - rc.oxc \in 0..PlainRoom(rc.out)
  <2>1. rc.oxa \in Nat /\ rc.oxb \in Nat /\ rc.oxc \in Nat /\ rc.out \in Modes
    BY <1>1 DEF Registers, Modes
  <2>2. PlainRoom(rc.out) \in Nat
    BY <2>1, RoomBounds
  <2> QED
    BY <1>1, <2>1, <2>2 DEF Seals, OutOK, OutGather, OutRecord
<1>3. /\ rc' \in Registers /\ SameIn(rc, rc')
      /\ Seals(rc, force) => OutRecord(rc')
      /\ ~Seals(rc, force) => rc' = rc
  BY <1>1, <1>2, FlushKeeps
<1>4. CASE Seals(rc, force)
  <2>1. held = rc.oxa - rc.oxc
    BY <1>1, <1>2, <1>4, IInvAlive DEF Seals, has_pld_to_send, Registers
  <2>2. held' = 0 /\ ~has_pld_to_send(rc') /\ OutOK(rc')
    BY <2>1, <1>1, <1>2, <1>3, <1>4, IInvAlive
       DEF OutRecord, has_pld_to_send, OutOK
  <2> QED
    BY <2>2, <1>1, <1>3, InputUntouched, IInvFromParts
<1>5. CASE ~Seals(rc, force)
  BY <1>1, <1>3, <1>5 DEF IInv, TypeOK, RegistersConsistent, PayloadConserved
<1> QED
  BY <1>4, <1>5

\* ChangeCipherSpec leaves as a record of its own, whatever the buffer holds.
LEMMA SwitchOutSeals ==
  ASSUME IInv, NEW c \in Ciphers, SwitchOut(c)
  PROVE  /\ rc' \in Registers /\ SameIn(rc, rc') /\ OutRecord(rc')
         /\ ~has_pld_to_send(rc')
<1> DEFINE ccs == sendpld_ack(rc, 1, FALSE)
           sealed == IF has_pld_to_send(ccs)
                     THEN sendpld_flush(ccs, FALSE, FALSE) ELSE ccs
<1>1. /\ ~failed(rc) /\ rc \in Registers /\ OutOK(rc) /\ sendpld_open(rc)
      /\ ~has_pld_to_send(rc) /\ held' = held /\ unread' = unread
      /\ rc' = [sealed EXCEPT !.out = c]
  BY IInvAlive DEF SwitchOut, sendpld_open, CanOut, failed
<1>2. 1 \in 1..sendpld_len(rc) /\ rc.oxa \in Nat /\ rc.oxb \in Nat
  BY <1>1 DEF sendpld_len, sendpld_open, OutOK, OutGather, OutRecord, Registers
<1>3. /\ ccs \in Registers /\ SameIn(rc, ccs)
      /\ rc.oxa + 1 >= rc.oxb => OutRecord(ccs)
      /\ rc.oxa + 1 < rc.oxb => OutGather(ccs) /\ has_pld_to_send(ccs)
      /\ ccs.out = rc.out
  BY <1>1, <1>2, SendPldKeeps
<1> HIDE DEF ccs
<1>4. sealed \in Registers /\ SameIn(rc, sealed) /\ OutRecord(sealed)
  <2>1. CASE OutRecord(ccs)
    BY <2>1, <1>3 DEF OutRecord, has_pld_to_send
  <2>2. CASE ~OutRecord(ccs)
    <3>1. OutGather(ccs) /\ has_pld_to_send(ccs)
      BY <2>2, <1>2, <1>3
    <3>2. /\ ccs.oxa \in Nat /\ ccs.oxb \in Nat /\ ccs.oxc \in Nat
          /\ PlainRoom(ccs.out) \in Nat
      BY <1>3, RoomBounds DEF Registers, Modes
    <3>3. /\ Seals(ccs, FALSE) /\ ccs.oxc = HeaderLen + Lead(ccs.out)
          /\ ccs.oxa - ccs.oxc \in 0..PlainRoom(ccs.out)
      BY <3>1, <3>2 DEF OutGather, has_pld_to_send, Seals
    <3>4. LET s == sendpld_flush(ccs, FALSE, FALSE)
          IN  s \in Registers /\ SameIn(ccs, s) /\ OutRecord(s)
      BY <3>3, <1>3, FlushKeeps
    <3> QED
      BY <3>1, <3>4, <1>3 DEF SameIn
  <2> QED
    BY <2>1, <2>2
<1> HIDE DEF sealed
<1> QED
  BY <1>1, <1>4 DEF Registers, SameIn, OutRecord, has_pld_to_send

LEMMA SwitchOutStep ==
  ASSUME IInv, NEW c \in Ciphers, SwitchOut(c)
  PROVE  IInv'
<1>1. /\ ~failed(rc) /\ ~has_pld_to_send(rc) /\ held' = held
      /\ unread' = unread
  BY DEF SwitchOut, sendpld_open, CanOut, failed
<1>2. /\ rc' \in Registers /\ SameIn(rc, rc') /\ OutRecord(rc')
      /\ ~has_pld_to_send(rc')
  BY SwitchOutSeals
<1>3. held = 0
  BY <1>1, IInvAlive
<1> QED
  BY <1>1, <1>2, <1>3, InputUntouched, IInvFromParts DEF OutOK

LEMMA StepKeepsIInv == IInv /\ [Next]_vars => IInv'
<1> SUFFICES ASSUME IInv, [Next]_vars PROVE IInv'
  OBVIOUS
<1>1. CASE UNCHANGED vars
  BY <1>1 DEF vars, IInv, TypeOK, RegistersConsistent, PayloadConserved
<1>2. ASSUME NEW len \in 1..recvrec_len(rc), RecvRec(len) PROVE IInv'
  BY <1>2, RecvRecStep
<1>3. ASSUME NEW len \in 1..recvpld_len(rc), RecvPld(len) PROVE IInv'
  <2>1. rc \in Registers
    BY DEF IInv, TypeOK
  <2> QED
    BY <1>3, <2>1, ReadStep DEF RecvPld, SameIn, SameOut
<1>4. ASSUME NEW len \in 1..recvpld_len(rc), RecvCloseNotify(len) PROVE IInv'
  <2> DEFINE r == [rc EXCEPT !.shutdown_recv = TRUE]
  <2>1. rc \in Registers
    BY DEF IInv, TypeOK
  <2>2. /\ r \in Registers /\ SameIn(rc, r) /\ SameOut(rc, r)
        /\ r.iomode = rc.iomode
    BY <2>1 DEF Registers, SameIn, SameOut
  <2>3. /\ recvpld_open(rc) /\ rc' = recvpld_ack(r, len)
        /\ unread' = unread - len /\ held' = held
    BY <1>4 DEF RecvCloseNotify
  <2> QED
    BY <2>2, <2>3, ReadStep
<1>5. ASSUME NEW c \in Ciphers, SwitchIn(c) PROVE IInv'
  BY <1>5, SwitchInStep
<1>6. ASSUME NEW c \in Ciphers, SwitchOut(c) PROVE IInv'
  BY <1>6, SwitchOutStep
<1>7. ASSUME NEW len \in 1..sendpld_len(rc), NEW app \in BOOLEAN,
             SendPld(len, app)
      PROVE  IInv'
  BY <1>7, SendPldStep
<1>8. ASSUME NEW force \in Forces, NEW app \in BOOLEAN, Flush(force, app)
      PROVE  IInv'
  BY <1>8, FlushStepKeeps, InputAssumption
<1>9. ASSUME NEW len \in 1..sendrec_len(rc), SendRec(len) PROVE IInv'
  <2>1. /\ ~failed(rc) /\ rc \in Registers /\ OutOK(rc) /\ sendrec_open(rc)
        /\ rc' = sendrec_ack(rc, len) /\ held' = held /\ unread' = unread
    BY <1>9, IInvAlive DEF SendRec, sendrec_open, CanOut, failed
  <2>2. /\ rc' \in Registers /\ SameIn(rc, rc') /\ OutOK(rc')
        /\ ~has_pld_to_send(rc')
    BY <2>1, SendRecKeeps
  <2>3. held = 0
    BY <2>1, IInvAlive DEF sendrec_open, has_pld_to_send, OutOK, OutGather,
       OutRecord, Registers
  <2> QED
    BY <2>1, <2>2, <2>3, InputUntouched, IInvFromParts
<1>10. ASSUME NEW len \in FragLens, NewMaxFragLen(len) PROVE IInv'
  <2>1. /\ ~failed(rc) /\ rc \in Registers /\ OutOK(rc)
        /\ rc' = br_ssl_engine_new_max_frag_len(rc, len)
        /\ held' = held /\ unread' = unread
    BY <1>10, IInvAlive DEF NewMaxFragLen
  <2>2. /\ rc' \in Registers /\ SameIn(rc, rc') /\ OutOK(rc')
        /\ rc'.oxa = rc.oxa /\ rc'.oxc = rc.oxc
        /\ has_pld_to_send(rc') <=> has_pld_to_send(rc)
    BY <2>1, FragLenKeeps
  <2>3. /\ held' \in Nat
        /\ held' = IF has_pld_to_send(rc') THEN rc'.oxa - rc'.oxc ELSE 0
    BY <2>1, <2>2, IInvAlive
  <2> QED
    BY <2>1, <2>2, <2>3, InputUntouched, IInvFromParts
<1>11. ASSUME NEW e \in {"ok", "unexpected"}, Fail(e) PROVE IInv'
  <2>1. /\ rc \in Registers /\ rc' = br_ssl_engine_fail(rc, e)
        /\ held' = held /\ unread' = unread /\ held \in Nat /\ unread \in Nat
    BY <1>11 DEF Fail, IInv, TypeOK
  <2>2. rc' \in Registers /\ failed(rc')
    BY <2>1, FailKeeps DEF Errors
  <2> QED
    BY <2>1, <2>2, IInvFromParts
<1> QED
  BY <1>1, <1>2, <1>3, <1>4, <1>5, <1>6, <1>7, <1>8, <1>9, <1>10, <1>11
     DEF Next, SendStep

\* In every reachable state, whatever the buffer lengths, the ciphers and the
\* chunks: the type invariant of ssl_engine.c's registers, their consistency,
\* and the conservation of payload bytes.
THEOREM InvariantHolds == Spec => []IInv
<1>1. Init => IInv
  BY InitIInv
<1>2. IInv /\ [Next]_vars => IInv'
  BY StepKeepsIInv
<1> QED
  BY <1>1, <1>2, PTL DEF Spec

\* The registers keep their types (no unsigned register ever wraps).
THEOREM TypeCorrect == Spec => []TypeOK
<1>1. IInv => TypeOK
  BY DEF IInv
<1> QED
  BY <1>1, InvariantHolds, PTL

\* ssl_engine.c recvrec_ack, recvpld_ack, sendpld_ack, sendrec_ack and the
\* cipher switches leave the registers where the next call expects them.
THEOREM RegistersStayConsistent == Spec => []RegistersConsistent
<1>1. IInv => RegistersConsistent
  BY DEF IInv
<1> QED
  BY <1>1, InvariantHolds, PTL

\* No payload byte is lost or repeated between the application, or the
\* handshake processor, and the records.
THEOREM PayloadIsConserved == Spec => []PayloadConserved
<1>1. IInv => PayloadConserved
  BY DEF IInv
<1> QED
  BY <1>1, InvariantHolds, PTL

\* encrypt() never writes outside obuf, for any cipher and any payload that
\* sendpld_buf allowed.
THEOREM SealAlwaysInside == Spec => []SealStaysInside
<1>1. IInv => SealStaysInside
  <2> SUFFICES ASSUME IInv, ~failed(rc), rc.oxa # rc.oxb,
                      NEW xlen \in 0..(rc.oxb - rc.oxc), NEW app \in BOOLEAN
               PROVE  /\ EncryptStart(rc.out, app, rc.oxc, xlen) >= 0
                      /\ EncryptEnd(rc.out, app, rc.oxc, xlen) <= OBufLen
    BY DEF SealStaysInside
  <2>1. /\ rc.out \in Modes /\ rc.oxb \in Nat /\ rc.oxc \in Nat
        /\ OutGather(rc)
    BY IInvAlive DEF Registers, Modes, OutOK, OutRecord
  <2>2. PlainRoom(rc.out) \in Nat /\ OBufLen \in Nat
    BY <2>1, RoomBounds, BufferAssumption
  <2>3. xlen \in 0..PlainRoom(rc.out) /\ rc.oxc = HeaderLen + Lead(rc.out)
    BY <2>1, <2>2 DEF OutGather
  <2>4. /\ EncryptStart(rc.out, app, rc.oxc, xlen) \in Nat
        /\ EncryptEnd(rc.out, app, rc.oxc, xlen) <= OBufLen
    BY <2>1, <2>3, SealedRecordFits
  <2> QED
    BY <2>4
<1> QED
  BY <1>1, InvariantHolds, PTL

\* The comment of recvrec_buf: the engine cannot get stuck with a full buffer
\* while more data is expected.
THEOREM AlwaysUnstuck == Spec => []NeverStuck
<1>1. IInv => NeverStuck
  <2> SUFFICES ASSUME IInv, ~failed(rc)
               PROVE  /\ (CanIn(rc) /\ ~rc.shutdown_recv) =>
                           recvpld_open(rc)
                           \/ (recvrec_open(rc) /\ recvrec_len(rc) > 0)
                      /\ CanOut(rc) => sendpld_open(rc) \/ sendrec_open(rc)
    BY DEF NeverStuck, CanIn, CanOut, failed
  <2>1. rc \in Registers /\ InOK(rc) /\ OutOK(rc)
    BY IInvAlive
  <2>2. /\ rc.ixa \in Nat /\ rc.ixb \in Nat /\ rc.ixc \in Nat
        /\ rc.oxa \in Nat /\ rc.oxb \in Nat /\ rc.oxc \in Nat
        /\ IBufLen \in Nat /\ HeaderLen = 5 /\ HeaderLen < IBufLen
    BY <2>1, BufferAssumption DEF Registers, HeaderLen
  <2>3. rc.ixa = rc.ixb => recvrec_len(rc) > 0
    BY <2>1, <2>2 DEF InOK, InHeader, InBody, InPayload, recvrec_len, Smaller
  <2>4. rc.oxa # rc.oxb \/ rc.oxc > rc.oxa
    BY <2>1, <2>2 DEF OutOK, OutGather, OutRecord
  <2> QED
    BY <2>3, <2>4 DEF recvpld_open, recvrec_open, sendpld_open, sendrec_open
<1> QED
  BY <1>1, InvariantHolds, PTL

\* bearssl_ssl.h: sending and gathering, receiving and reading exclude each
\* other.
THEOREM StatesAlwaysExclusive == Spec => []StatesExclusive
<1>1. IInv => StatesExclusive
  <2> SUFFICES ASSUME IInv, ~failed(rc) PROVE StatesExclusive
    BY DEF StatesExclusive, sendrec_open, recvrec_open, CanIn, CanOut, failed
  <2>1. rc \in Registers /\ OutOK(rc)
    BY IInvAlive
  <2> QED
    BY <2>1 DEF StatesExclusive, sendrec_open, sendpld_open, recvrec_open,
       recvpld_open, OutOK, OutGather, OutRecord, Registers
<1> QED
  BY <1>1, InvariantHolds, PTL

-----------------------------------------------------------------------------
(* Half-duplex engines. An engine that shares its buffer is only sound when *)
(* no empty record is forced out: br_ssl_engine_flush with force set does   *)
(* not look at iomode.                                                      *)

ModeInv == (Shared /\ ~failed(rc)) => HoldsMode(rc)

LEMMA BusyIn ==
  ASSUME NEW r \in Registers, InOK(r)
  PROVE  /\ recvpld_open(r) => InBusy(r)
         /\ InBusy(r) <=> InSlot(r) # "idle"
BY DEF Registers, InOK, InHeader, InBody, InPayload, recvpld_open, InBusy,
       InSlot, HeaderLen

LEMMA InitMode == Init => ModeInv
<1> SUFFICES ASSUME Init PROVE HoldsMode(rc)
  BY DEF ModeInv
<1>1. PICK len \in FragLens : rc = InitRegisters(len)
  BY DEF Init
<1> DEFINE blank ==
    [iomode |-> "inout", err |-> "ok", in |-> Clear, out |-> Clear,
     record_type_in |-> "handshake", version_in |-> 0,
     shutdown_recv |-> FALSE, max_frag_len |-> len,
     ixa |-> 0, ixb |-> 0, ixc |-> 0, oxa |-> 0, oxb |-> 0, oxc |-> 0]
<1>2. rc = make_ready_out(make_ready_in(blank)) /\ blank.iomode = "inout"
  BY <1>1 DEF InitRegisters
<1>3. blank \in Registers
  BY DEF Registers, IoModes, Errors, RecordTypes
<1> HIDE DEF blank
<1>4. /\ make_ready_in(blank) \in Registers
      /\ make_ready_in(blank).ixa = 0 /\ make_ready_in(blank).ixb = 0
      /\ make_ready_in(blank).iomode = "inout"
  BY <1>2, <1>3, ReadyIn
<1>5. SameIn(make_ready_in(blank), rc) /\ rc.oxa = rc.oxc
      /\ rc.iomode = "inout"
  BY <1>2, <1>4, ReadyOut
<1> QED
  BY <1>4, <1>5 DEF HoldsMode, SameIn, InBusy, OutBusy

LEMMA ModeAfterRecv ==
  ASSUME IInv, ModeInv, Shared,
         NEW len \in 1..recvrec_len(rc), RecvRec(len), ~failed(rc')
  PROVE  HoldsMode(rc')
<1>1. recvrec_open(rc) /\ ~failed(rc) /\ rc \in Registers /\ InOK(rc)
  BY IInvAlive DEF RecvRec, recvrec_open, CanIn, failed
<1>2. PICK hdr \in HeadersFor(rc, len), plain \in PlainsFor(rc, len) :
        rc' = recvrec_ack(rc, len, hdr, plain)
  BY DEF RecvRec
<1>3. SameOut(rc, rc')
      /\ rc'.iomode = IF InBusy(rc') THEN "in" ELSE "inout"
  BY <1>1, <1>2, RecvRecKeeps
<1>4. ~OutBusy(rc)
  BY <1>1 DEF ModeInv, HoldsMode, recvrec_open, CanIn
<1> QED
  BY <1>3, <1>4 DEF HoldsMode, SameOut, OutBusy

LEMMA ModeAfterRead ==
  ASSUME IInv, ModeInv, Shared, recvpld_open(rc), NEW r \in Registers,
         InOK(r), recvpld_open(r), SameOut(rc, r), r.iomode = rc.iomode,
         NEW len \in 1..recvpld_len(r), rc' = recvpld_ack(r, len)
  PROVE  HoldsMode(rc')
<1>1. ~failed(rc) /\ rc \in Registers /\ InOK(rc)
  BY IInvAlive DEF recvpld_open, CanIn, failed
<1>2. rc.iomode = "in" /\ ~OutBusy(rc)
  BY <1>1, BusyIn DEF ModeInv, HoldsMode
<1>3. SameOut(r, rc')
      /\ rc'.iomode = IF InBusy(rc') THEN "in" ELSE "inout"
  BY <1>2, RecvPldKeeps
<1> QED
  BY <1>2, <1>3 DEF HoldsMode, SameOut, OutBusy

LEMMA ModeAfterWrite ==
  ASSUME IInv, ModeInv, Shared, sendpld_open(rc),
         NEW len \in 1..sendpld_len(rc), NEW app \in BOOLEAN,
         NEW s, s = sendpld_ack(rc, len, app)
  PROVE  HoldsMode(s) /\ s.iomode = "out" /\ ~InBusy(s)
<1>1. ~failed(rc) /\ rc \in Registers /\ OutOK(rc) /\ rc.oxa \in Nat
      /\ rc.oxb \in Nat /\ rc.oxc \in Nat /\ len \in Nat
  BY IInvAlive DEF sendpld_open, CanOut, failed, Registers, sendpld_len
<1>2. /\ s \in Registers /\ SameIn(rc, s)
      /\ rc.oxa + len >= rc.oxb => OutRecord(s)
      /\ rc.oxa + len < rc.oxb => has_pld_to_send(s)
      /\ s.iomode = IF rc.iomode = "inout" THEN "out" ELSE rc.iomode
  BY <1>1, SendPldKeeps
<1>3. OutBusy(s)
  BY <1>1, <1>2 DEF OutRecord, has_pld_to_send, OutBusy, Registers
<1>4. rc.iomode \in {"out", "inout"} /\ ~InBusy(rc)
  BY <1>1 DEF sendpld_open, CanOut, ModeInv, HoldsMode
<1> QED
  BY <1>2, <1>3, <1>4 DEF HoldsMode, SameIn, InBusy

LEMMA ModeStep ==
  ASSUME Shared => Forces \subseteq {FALSE}, IInv, ModeInv, [Next]_vars
  PROVE  ModeInv'
<1> SUFFICES ASSUME Shared, ~failed(rc') PROVE HoldsMode(rc')
  BY DEF ModeInv
<1>1. CASE UNCHANGED vars
  BY <1>1 DEF vars, ModeInv
<1>2. ASSUME NEW len \in 1..recvrec_len(rc), RecvRec(len)
      PROVE  HoldsMode(rc')
  BY <1>2, ModeAfterRecv
<1>3. ASSUME NEW len \in 1..recvpld_len(rc), RecvPld(len)
      PROVE  HoldsMode(rc')
  <2>1. rc \in Registers /\ InOK(rc) /\ recvpld_open(rc)
    BY <1>3, IInvAlive DEF RecvPld, recvpld_open, CanIn, failed
  <2> QED
    BY <1>3, <2>1, ModeAfterRead DEF RecvPld, SameOut
<1>4. ASSUME NEW len \in 1..recvpld_len(rc), RecvCloseNotify(len)
      PROVE  HoldsMode(rc')
  <2> DEFINE r == [rc EXCEPT !.shutdown_recv = TRUE]
  <2>1. rc \in Registers /\ InOK(rc) /\ recvpld_open(rc)
        /\ rc' = recvpld_ack(r, len)
    BY <1>4, IInvAlive DEF RecvCloseNotify, recvpld_open, CanIn, failed
  <2>2. /\ r \in Registers /\ SameIn(rc, r) /\ SameOut(rc, r)
        /\ r.iomode = rc.iomode
    BY <2>1 DEF Registers, SameIn, SameOut
  <2> HIDE DEF r
  <2>3. InOK(r) /\ recvpld_open(r) /\ recvpld_len(r) = recvpld_len(rc)
    BY <2>1, <2>2, SameKeeps DEF recvpld_open, recvpld_len, SameIn, CanIn
  <2> QED
    BY <1>4, <2>1, <2>2, <2>3, ModeAfterRead
<1>5. ASSUME NEW c \in Ciphers, SwitchIn(c)
      PROVE  HoldsMode(rc')
  <2> DEFINE r == [rc EXCEPT !.in = c]
  <2>1. rc \in Registers /\ InOK(rc) /\ recvpld_open(rc) /\ ~failed(rc)
    BY <1>5, IInvAlive DEF SwitchIn, recvpld_open, CanIn, failed
  <2>2. /\ rc' = recvpld_ack(r, 1) /\ recvpld_len(rc) = 1
        /\ br_ssl_engine_recvrec_finished(rc)
    BY <1>5, <2>1 DEF SwitchIn, br_ssl_engine_fail, failed
  <2>3. /\ r \in Registers /\ SameOut(rc, r) /\ r.iomode = rc.iomode
        /\ r.ixa = rc.ixa /\ r.ixb = rc.ixb /\ r.ixc = rc.ixc
    BY <2>1 DEF Registers, SameOut
  <2> HIDE DEF r
  <2>4. InPayload(rc) /\ rc.ixc = 0
    BY <2>1, <2>2 DEF InOK, InHeader, InBody, InPayload, recvpld_open,
       br_ssl_engine_recvrec_finished, Registers, HeaderLen
  <2>5. InOK(r) /\ recvpld_open(r) /\ 1 \in 1..recvpld_len(r)
    BY <2>1, <2>2, <2>3, <2>4 DEF InOK, InPayload, recvpld_open, recvpld_len,
       CanIn
  <2> QED
    BY <2>1, <2>2, <2>3, <2>5, ModeAfterRead
<1>6. ASSUME NEW c \in Ciphers, SwitchOut(c)
      PROVE  HoldsMode(rc')
  <2> DEFINE ccs == sendpld_ack(rc, 1, FALSE)
             sealed == IF has_pld_to_send(ccs)
                       THEN sendpld_flush(ccs, FALSE, FALSE) ELSE ccs
  <2>1. rc \in Registers /\ OutOK(rc) /\ sendpld_open(rc)
        /\ rc' = [sealed EXCEPT !.out = c]
    BY <1>6, IInvAlive DEF SwitchOut, sendpld_open, CanOut, failed
  <2>2. 1 \in 1..sendpld_len(rc) /\ rc.oxa \in Nat /\ rc.oxb \in Nat
    BY <2>1 DEF sendpld_len, sendpld_open, OutOK, OutGather, OutRecord,
       Registers
  <2>3. ccs.iomode = "out" /\ ~InBusy(ccs) /\ HoldsMode(ccs)
    BY <2>1, <2>2, ModeAfterWrite
  <2>4. /\ ccs \in Registers
        /\ rc.oxa + 1 >= rc.oxb => OutRecord(ccs)
        /\ rc.oxa + 1 < rc.oxb => OutGather(ccs) /\ has_pld_to_send(ccs)
    BY <2>1, <2>2, SendPldKeeps
  <2> HIDE DEF ccs
  <2>5. OutBusy(sealed) /\ sealed \in Registers /\ sealed.iomode = "out"
        /\ ~InBusy(sealed)
    <3>1. CASE ~has_pld_to_send(ccs)
      <4>1. sealed = ccs
        BY <3>1
      <4>2. OutBusy(ccs)
        BY <3>1, <2>2, <2>4 DEF OutRecord, OutBusy, Registers
      <4> HIDE DEF sealed
      <4> QED
        BY <4>1, <4>2, <2>3, <2>4
    <3>2. CASE has_pld_to_send(ccs)
      <4>1. OutGather(ccs)
        BY <3>2, <2>2, <2>4 DEF has_pld_to_send, OutRecord
      <4>2. /\ ccs.oxa \in Nat /\ ccs.oxb \in Nat /\ ccs.oxc \in Nat
            /\ PlainRoom(ccs.out) \in Nat
        BY <2>4, RoomBounds DEF Registers, Modes
      <4>3. /\ Seals(ccs, FALSE) /\ ccs.oxc = HeaderLen + Lead(ccs.out)
            /\ ccs.oxa - ccs.oxc \in 0..PlainRoom(ccs.out)
        BY <3>2, <4>1, <4>2 DEF OutGather, has_pld_to_send, Seals
      <4>4. sealed = sendpld_flush(ccs, FALSE, FALSE)
        BY <3>2
      <4> HIDE DEF sealed
      <4>5. /\ sealed \in Registers /\ SameIn(ccs, sealed)
            /\ OutRecord(sealed) /\ sealed.iomode = ccs.iomode
        BY <4>3, <4>4, <2>4, FlushKeeps
      <4>6. OutBusy(sealed)
        BY <4>5 DEF OutRecord, OutBusy, Registers
      <4> QED
        BY <4>5, <4>6, <2>3 DEF SameIn, InBusy
    <3> QED
      BY <3>1, <3>2
  <2> HIDE DEF sealed
  <2> QED
    BY <2>1, <2>5 DEF Registers, HoldsMode, InBusy, OutBusy
<1>7. ASSUME NEW len \in 1..sendpld_len(rc), NEW app \in BOOLEAN,
             SendPld(len, app)
      PROVE  HoldsMode(rc')
  BY <1>7, ModeAfterWrite DEF SendPld
<1>8. ASSUME NEW force \in Forces, NEW app \in BOOLEAN, Flush(force, app)
      PROVE  HoldsMode(rc')
  <2>1. /\ rc \in Registers /\ OutOK(rc) /\ ~failed(rc) /\ force = FALSE
        /\ rc' = sendpld_flush(rc, FALSE, app) /\ HoldsMode(rc)
    BY <1>8, IInvAlive DEF Flush, ModeInv
  <2>2. CASE ~Seals(rc, FALSE)
    BY <2>1, <2>2 DEF sendpld_flush
  <2>3. CASE Seals(rc, FALSE)
    <3>1. /\ rc.oxa \in Nat /\ rc.oxb \in Nat /\ rc.oxc \in Nat
          /\ PlainRoom(rc.out) \in Nat
      BY <2>1, RoomBounds DEF Registers, Modes
    <3>2. /\ rc.oxc = HeaderLen + Lead(rc.out)
          /\ rc.oxa - rc.oxc \in 0..PlainRoom(rc.out)
      BY <2>1, <2>3, <3>1 DEF Seals, OutOK, OutGather, OutRecord
    <3>3. /\ rc' \in Registers /\ SameIn(rc, rc') /\ OutRecord(rc')
          /\ rc'.iomode = rc.iomode
      BY <2>1, <2>3, <3>2, FlushKeeps
    <3>4. OutBusy(rc) /\ OutBusy(rc')
      BY <2>3, <3>3 DEF Seals, OutBusy, OutRecord, Registers
    <3> QED
      BY <2>1, <3>3, <3>4 DEF HoldsMode, SameIn, InBusy
  <2> QED
    BY <2>2, <2>3
<1>9. ASSUME NEW len \in 1..sendrec_len(rc), SendRec(len)
      PROVE  HoldsMode(rc')
  <2>1. /\ rc \in Registers /\ OutOK(rc) /\ sendrec_open(rc)
        /\ rc' = sendrec_ack(rc, len) /\ HoldsMode(rc) /\ rc.oxa # rc.oxc
    BY <1>9, IInvAlive DEF SendRec, sendrec_open, CanOut, failed, ModeInv,
       Registers
  <2>2. /\ SameIn(rc, rc')
        /\ rc'.iomode = IF OutBusy(rc') \/ rc.iomode # "out" THEN rc.iomode
                        ELSE "inout"
    BY <2>1, SendRecKeeps
  <2>3. rc.iomode = "out" /\ ~InBusy(rc)
    BY <2>1 DEF HoldsMode, OutBusy
  <2> QED
    BY <2>2, <2>3 DEF HoldsMode, SameIn, InBusy
<1>10. ASSUME NEW len \in FragLens, NewMaxFragLen(len)
       PROVE  HoldsMode(rc')
  <2>1. /\ rc \in Registers /\ OutOK(rc) /\ HoldsMode(rc)
        /\ rc' = br_ssl_engine_new_max_frag_len(rc, len)
    BY <1>10, IInvAlive DEF NewMaxFragLen, ModeInv
  <2>2. /\ SameIn(rc, rc') /\ rc'.iomode = rc.iomode /\ rc'.oxa = rc.oxa
        /\ rc'.oxc = rc.oxc
    BY <2>1, FragLenKeeps
  <2> QED
    BY <2>1, <2>2 DEF HoldsMode, SameIn, InBusy, OutBusy
<1>11. ASSUME NEW e \in {"ok", "unexpected"}, Fail(e) PROVE FALSE
  <2>1. rc \in Registers /\ rc' = br_ssl_engine_fail(rc, e) /\ e \in Errors
    BY <1>11 DEF Fail, IInv, TypeOK, Errors
  <2> QED
    BY <2>1, FailKeeps
<1> QED
  BY <1>1, <1>2, <1>3, <1>4, <1>5, <1>6, <1>7, <1>8, <1>9, <1>10, <1>11
     DEF Next, SendStep

\* With a shared buffer and no forced flush, what is received and what is to
\* be sent are never in the buffer together (iomode, bearssl_ssl.h:1786).
THEOREM HalfDuplexKept ==
  ASSUME Shared => Forces \subseteq {FALSE}
  PROVE  Spec => []HalfDuplex
<1>1. Init => ModeInv
  BY InitMode
<1>2. IInv /\ ModeInv /\ [Next]_vars => ModeInv'
  BY ModeStep
<1>3. IInv /\ ModeInv => HalfDuplex
  <2> SUFFICES ASSUME IInv, ModeInv, Shared, ~failed(rc) PROVE HalfDuplex
    BY DEF HalfDuplex
  <2>1. HoldsMode(rc) /\ rc.iomode \in {"in", "out", "inout"}
    BY DEF ModeInv, failed, IInv, TypeOK, Registers, IoModes
  <2> QED
    BY <2>1 DEF HoldsMode, HalfDuplex, sendpld_open, sendrec_open,
       recvrec_open, recvpld_open, CanIn, CanOut
<1> QED
  BY <1>1, <1>2, <1>3, InvariantHolds, PTL DEF Spec

-----------------------------------------------------------------------------
(* The registers implement the two slots of RecordSlots.                   *)

LEMMA SlotsUntouched ==
  ASSUME NEW r, NEW s
  PROVE  /\ SameIn(r, s) => InSlot(s) = InSlot(r)
         /\ SameOut(r, s) => OutSlot(s) = OutSlot(r)
BY DEF SameIn, SameOut, InSlot, OutSlot

LEMMA ReadLeavesOutput ==
  ASSUME NEW r \in Registers, NEW len
  PROVE  SameOut(r, recvpld_ack(r, len))
BY DEF Registers, recvpld_ack, make_ready_in, SameOut

\* A shared buffer that offers one direction holds nothing of the other.
LEMMA OtherSlotIdle ==
  ASSUME IInv, ModeInv, Shared
  PROVE  /\ recvrec_open(rc) => OutSlot(rc) = "idle"
         /\ sendpld_open(rc) => InSlot(rc) = "idle"
<1>1. recvrec_open(rc) => OutSlot(rc) = "idle"
  BY DEF ModeInv, HoldsMode, recvrec_open, CanIn, failed, OutBusy, OutSlot
<1>2. ASSUME sendpld_open(rc) PROVE InSlot(rc) = "idle"
  <2>1. ~failed(rc) /\ rc \in Registers /\ InOK(rc)
    BY <1>2, IInvAlive DEF sendpld_open, CanOut, failed
  <2>2. ~InBusy(rc)
    BY <1>2, <2>1 DEF ModeInv, HoldsMode, sendpld_open, CanOut
  <2> QED
    BY <2>1, <2>2, BusyIn
<1> QED
  BY <1>1, <1>2

\* Every step that leaves the engine alive, seen from the slots.
LEMMA FeedsSlot ==
  ASSUME IInv, ModeInv, ~failed(rc'),
         NEW len \in 1..recvrec_len(rc), RecvRec(len)
  PROVE  Slots!Feed
<1>1. recvrec_open(rc) /\ ~failed(rc) /\ rc \in Registers /\ InOK(rc)
  BY IInvAlive DEF RecvRec, recvrec_open, CanIn, failed
<1>2. PICK hdr \in HeadersFor(rc, len), plain \in PlainsFor(rc, len) :
        rc' = recvrec_ack(rc, len, hdr, plain)
  BY DEF RecvRec
<1>3. OutSlot(rc') = OutSlot(rc)
  BY <1>1, <1>2, RecvRecKeeps, SlotsUntouched
<1>4. InSlot(rc) \in {"idle", "partial"}
  BY <1>1 DEF recvrec_open, InSlot
<1>5. Shared => OutSlot(rc) = "idle"
  BY <1>1, OtherSlotIdle
<1>6. InSlot(rc') \in Slots!InStates
  BY DEF InSlot, Slots!InStates
<1>7. failed(rc') = failed(rc)
  BY <1>1 DEF failed
<1> QED
  BY <1>1, <1>3, <1>4, <1>5, <1>6, <1>7 DEF Slots!Feed

LEMMA ReadsSlot ==
  ASSUME IInv, ~failed(rc'), recvpld_open(rc), NEW r \in Registers,
         SameOut(rc, r), NEW len, rc' = recvpld_ack(r, len)
  PROVE  Slots!Read
<1>1. ~failed(rc) /\ InSlot(rc) = "payload"
  BY DEF recvpld_open, CanIn, failed, InSlot
<1>2. OutSlot(rc') = OutSlot(rc)
  BY ReadLeavesOutput, SlotsUntouched
<1>3. InSlot(rc') \in Slots!InStates
  BY DEF InSlot, Slots!InStates
<1>4. failed(rc') = failed(rc)
  BY <1>1 DEF failed
<1> QED
  BY <1>1, <1>2, <1>3, <1>4 DEF Slots!Read

LEMMA WritesSlot ==
  ASSUME IInv, ModeInv, ~failed(rc'), sendpld_open(rc), SameIn(rc, rc'),
         OutSlot(rc') \in {"payload", "record"}
  PROVE  Slots!Write
<1>1. ~failed(rc) /\ OutSlot(rc) \in {"idle", "payload"}
  BY DEF sendpld_open, CanOut, failed, OutSlot
<1>2. InSlot(rc') = InSlot(rc) /\ (Shared => InSlot(rc) = "idle")
  BY SlotsUntouched, OtherSlotIdle
<1>3. failed(rc') = failed(rc)
  BY <1>1 DEF failed
<1> QED
  BY <1>1, <1>2, <1>3 DEF Slots!Write

LEMMA FlushesSlot ==
  ASSUME Shared => Forces \subseteq {FALSE}, IInv, ~failed(rc'),
         NEW force \in Forces, NEW app \in BOOLEAN, Flush(force, app)
  PROVE  Slots!Seal \/ Slots!SealEmpty \/ rc' = rc
<1>1. /\ ~failed(rc) /\ rc \in Registers /\ OutOK(rc)
      /\ rc' = sendpld_flush(rc, force, app)
  BY IInvAlive DEF Flush
<1>2. CASE ~Seals(rc, force)
  BY <1>1, <1>2 DEF sendpld_flush
<1>3. CASE Seals(rc, force)
  <2>1. /\ rc.oxa \in Nat /\ rc.oxb \in Nat /\ rc.oxc \in Nat
        /\ PlainRoom(rc.out) \in Nat
    BY <1>1, RoomBounds DEF Registers, Modes
  <2>2. /\ rc.oxc = HeaderLen + Lead(rc.out)
        /\ rc.oxa - rc.oxc \in 0..PlainRoom(rc.out)
    BY <1>1, <1>3, <2>1 DEF Seals, OutOK, OutGather, OutRecord
  <2>3. rc' \in Registers /\ SameIn(rc, rc') /\ OutRecord(rc')
    BY <1>1, <1>3, <2>2, InputAssumption, FlushKeeps
  <2>4. InSlot(rc') = InSlot(rc) /\ OutSlot(rc') = "record"
    BY <2>3, SlotsUntouched DEF OutRecord, OutSlot, Registers
  <2>5. failed(rc') = failed(rc)
    BY <1>1 DEF failed
  <2>6. CASE OutSlot(rc) = "payload"
    BY <2>4, <2>5, <2>6, <1>1 DEF Slots!Seal
  <2>7. CASE OutSlot(rc) = "idle"
    <3>1. ~Shared
      BY <2>7, <1>3 DEF Seals, OutSlot
    <3> QED
      BY <3>1, <2>4, <2>5, <2>7, <1>1 DEF Slots!SealEmpty
  <2> QED
    BY <2>6, <2>7, <1>3 DEF Seals, OutSlot
<1> QED
  BY <1>2, <1>3

LEMMA SendsSlot ==
  ASSUME IInv, ~failed(rc'), NEW len \in 1..sendrec_len(rc), SendRec(len)
  PROVE  Slots!Sent \/ UNCHANGED Slots!slots
<1>1. /\ ~failed(rc) /\ rc \in Registers /\ OutOK(rc) /\ sendrec_open(rc)
      /\ rc' = sendrec_ack(rc, len)
  BY IInvAlive DEF SendRec, sendrec_open, CanOut, failed
<1>2. SameIn(rc, rc') /\ ~has_pld_to_send(rc')
  BY <1>1, SendRecKeeps
<1>3. OutSlot(rc) = "record"
  BY <1>1 DEF sendrec_open, OutOK, OutGather, OutRecord, OutSlot, Registers
<1>4. InSlot(rc') = InSlot(rc) /\ OutSlot(rc') \in {"idle", "record"}
  BY <1>2, SlotsUntouched DEF has_pld_to_send, OutSlot
<1>5. failed(rc') = failed(rc)
  BY <1>1 DEF failed
<1> QED
  BY <1>1, <1>3, <1>4, <1>5 DEF Slots!Sent, Slots!slots

LEMMA FragLenLeavesSlots ==
  ASSUME IInv, ~failed(rc'), NEW len \in FragLens, NewMaxFragLen(len)
  PROVE  UNCHANGED Slots!slots
<1>1. /\ ~failed(rc) /\ rc \in Registers /\ OutOK(rc)
      /\ rc' = br_ssl_engine_new_max_frag_len(rc, len)
  BY IInvAlive DEF NewMaxFragLen
<1>2. /\ rc' \in Registers /\ SameIn(rc, rc') /\ OutOK(rc')
      /\ rc'.oxa = rc.oxa /\ rc'.oxc = rc.oxc
  BY <1>1, FragLenKeeps
<1>3. OutSlot(rc') = OutSlot(rc)
  BY <1>1, <1>2 DEF OutOK, OutGather, OutRecord, OutSlot, Registers
<1>4. failed(rc') = failed(rc) /\ InSlot(rc') = InSlot(rc)
  BY <1>1, <1>2, SlotsUntouched DEF failed
<1> QED
  BY <1>3, <1>4 DEF Slots!slots

LEMMA StepsOfSlots ==
  ASSUME Shared => Forces \subseteq {FALSE}, IInv, ModeInv, [Next]_vars
  PROVE  [Slots!SlotsNext]_(Slots!slots)
<1>1. CASE UNCHANGED vars
  BY <1>1 DEF vars, Slots!slots, InSlot, OutSlot, failed
<1>2. CASE Next /\ failed(rc')
  <2>1. ~failed(rc)
    BY <1>2 DEF Next, SendStep, RecvRec, RecvPld, RecvCloseNotify, SwitchIn,
       SwitchOut, SendPld, Flush, SendRec, NewMaxFragLen, Fail, recvrec_open,
       recvpld_open, sendpld_open, sendrec_open, CanIn, CanOut, failed
  <2>2. failed(rc') = TRUE
    BY <1>2 DEF failed
  <2>3. InSlot(rc') \in Slots!InStates /\ OutSlot(rc') \in Slots!OutStates
    BY DEF InSlot, OutSlot, Slots!InStates, Slots!OutStates
  <2>4. Slots!Die
    BY <2>1, <2>2, <2>3 DEF Slots!Die
  <2> QED
    BY <2>4 DEF Slots!SlotsNext
<1>3. CASE Next /\ ~failed(rc')
  <2> USE <1>3
  <2>1. ASSUME NEW len \in 1..recvrec_len(rc), RecvRec(len)
        PROVE  Slots!SlotsNext
    BY <2>1, FeedsSlot DEF Slots!SlotsNext
  <2>2. ASSUME NEW r \in Registers, SameOut(rc, r), NEW len,
               recvpld_open(rc), rc' = recvpld_ack(r, len)
        PROVE  Slots!SlotsNext
    BY <2>2, ReadsSlot DEF Slots!SlotsNext
  <2>3. rc \in Registers /\ SameOut(rc, rc)
    BY DEF IInv, TypeOK, SameOut
  <2>4. ASSUME NEW len \in 1..recvpld_len(rc), RecvPld(len)
        PROVE  Slots!SlotsNext
    BY <2>2, <2>3, <2>4 DEF RecvPld
  <2>5. ASSUME NEW len \in 1..recvpld_len(rc), RecvCloseNotify(len)
        PROVE  Slots!SlotsNext
    <3> DEFINE r == [rc EXCEPT !.shutdown_recv = TRUE]
    <3>1. r \in Registers /\ SameOut(rc, r)
      BY <2>3 DEF Registers, SameOut
    <3>2. recvpld_open(rc) /\ rc' = recvpld_ack(r, len)
      BY <2>5 DEF RecvCloseNotify
    <3> QED
      BY <2>2, <3>1, <3>2
  <2>6. ASSUME NEW c \in Ciphers, SwitchIn(c)
        PROVE  Slots!SlotsNext
    <3> DEFINE r == [rc EXCEPT !.in = c]
    <3>1. r \in Registers /\ SameOut(rc, r)
      BY <2>3 DEF Registers, SameOut
    <3>2. ~failed(br_ssl_engine_fail(rc, "bad_ccs")) => FALSE
      BY <2>3, FailKeeps DEF Errors
    <3>3. recvpld_open(rc) /\ rc' = recvpld_ack(r, 1)
      BY <2>6, <3>2 DEF SwitchIn
    <3> QED
      BY <2>2, <3>1, <3>3
  <2>7. ASSUME NEW c \in Ciphers, SwitchOut(c)
        PROVE  Slots!SlotsNext
    <3>1. /\ rc' \in Registers /\ SameIn(rc, rc') /\ OutRecord(rc')
          /\ sendpld_open(rc)
      BY <2>7, SwitchOutSeals DEF SwitchOut
    <3>2. OutSlot(rc') = "record"
      BY <3>1 DEF OutRecord, OutSlot, Registers
    <3> QED
      BY <3>1, <3>2, WritesSlot DEF Slots!SlotsNext
  <2>8. ASSUME NEW len \in 1..sendpld_len(rc), NEW app \in BOOLEAN,
               SendPld(len, app)
        PROVE  Slots!SlotsNext
    <3>1. /\ ~failed(rc) /\ rc \in Registers /\ OutOK(rc) /\ sendpld_open(rc)
          /\ rc' = sendpld_ack(rc, len, app)
      BY <2>8, IInvAlive DEF SendPld, sendpld_open, CanOut, failed
    <3>2. /\ rc' \in Registers /\ SameIn(rc, rc')
          /\ rc.oxa + len >= rc.oxb => OutRecord(rc')
          /\ rc.oxa + len < rc.oxb => has_pld_to_send(rc')
      BY <3>1, SendPldKeeps
    <3>3. rc.oxa \in Nat /\ rc.oxb \in Nat /\ len \in Nat
      BY <3>1 DEF Registers, sendpld_len
    <3>4. OutSlot(rc') \in {"payload", "record"}
      BY <3>2, <3>3 DEF OutRecord, has_pld_to_send, OutSlot, Registers
    <3> QED
      BY <3>1, <3>2, <3>4, WritesSlot DEF Slots!SlotsNext
  <2>9. ASSUME NEW force \in Forces, NEW app \in BOOLEAN, Flush(force, app)
        PROVE  Slots!SlotsNext \/ UNCHANGED Slots!slots
    BY <2>9, FlushesSlot
       DEF Slots!SlotsNext, Slots!slots, InSlot, OutSlot, failed
  <2>10. ASSUME NEW len \in 1..sendrec_len(rc), SendRec(len)
         PROVE  Slots!SlotsNext \/ UNCHANGED Slots!slots
    BY <2>10, SendsSlot DEF Slots!SlotsNext
  <2>11. ASSUME NEW len \in FragLens, NewMaxFragLen(len)
         PROVE  UNCHANGED Slots!slots
    BY <2>11, FragLenLeavesSlots
  <2>12. ASSUME NEW e \in {"ok", "unexpected"}, Fail(e) PROVE FALSE
    BY <2>3, <2>12, FailKeeps DEF Fail, Errors
  <2> QED
    BY <2>1, <2>4, <2>5, <2>6, <2>7, <2>8, <2>9, <2>10, <2>11, <2>12
       DEF Next, SendStep
<1> QED
  BY <1>1, <1>2, <1>3

\* Whatever the buffer lengths, the ciphers and the chunks, the registers
\* behave as two slots for one record each, one at a time when the buffer is
\* shared and no empty record is forced out: the code above the record layer
\* (ssl_engine.c jump_handshake, ssl_io.c, wm_tls.c) may rely on that alone.
THEOREM SlotsAreImplemented ==
  ASSUME Shared => Forces \subseteq {FALSE}
  PROVE  Spec => SlotsRefined
<1>1. Init => Slots!SlotsInit
  <2> SUFFICES ASSUME Init PROVE Slots!SlotsInit
    OBVIOUS
  <2>1. PICK len \in FragLens : rc = InitRegisters(len)
    BY DEF Init
  <2>2. /\ rc.ixa = 0 /\ rc.ixb = 0 /\ rc.oxa = rc.oxc
        /\ rc.iomode = "inout"
    BY <2>1 DEF InitRegisters, make_ready_in, make_ready_out
  <2> QED
    BY <2>2 DEF Slots!SlotsInit, InSlot, OutSlot, failed
<1>2. IInv /\ ModeInv /\ [Next]_vars => ModeInv'
  BY ModeStep
<1>3. IInv /\ ModeInv /\ [Next]_vars => [Slots!SlotsNext]_(Slots!slots)
  BY StepsOfSlots
<1> QED
  BY <1>1, <1>2, <1>3, InitMode, InvariantHolds, PTL
     DEF Spec, SlotsRefined, Slots!SlotsSpec

=============================================================================
