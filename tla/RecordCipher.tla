---------------------------- MODULE RecordCipher ----------------------------
(***************************************************************************)
(* The length arithmetic of the record encoders and decoders of            *)
(* bearssl/src/ssl: ssl_rec_cbc.c, ssl_rec_gcm.c, ssl_rec_ccm.c,           *)
(* ssl_rec_chapol.c and the "no encryption" mode of ssl_engine.c.          *)
(* Contents are abstracted away: what matters to the engine is where the   *)
(* plaintext of a record starts in the buffer, how much of it fits, and    *)
(* which bytes the finished record occupies.                               *)
(***************************************************************************)
EXTENDS Integers

CONSTANTS
  MaxPlain,    \* largest plaintext of a record (16384 in the code)
  BlockSizes   \* CBC block sizes: 8 (3DES) and 16 (AES); 4 is a scaled-down
               \* size for model checking

ASSUME MaxPlainAssumption == MaxPlain \in Nat \ {0}
ASSUME BlockSizesAssumption == BlockSizes \subseteq {4, 8, 16}

\* Bytes of a record header: type, version, length.
HeaderLen == 5

(***************************************************************************)
(* A cipher is described by the shape it gives a record:                   *)
(*   iv     explicit nonce or IV in front of the ciphertext                *)
(*   tag    authentication tag, or MAC, after the plaintext                *)
(*   blk    CBC block size; 0 for clear, GCM, CCM and ChaCha20+Poly1305    *)
(*   split  CBC with an implicit IV (TLS 1.0): application data is sent    *)
(*          as a 1-byte record followed by the rest                        *)
(***************************************************************************)
StreamCipher == [iv : Nat, tag : Nat, blk : {0}, split : {FALSE}]

CbcCipher ==
  {c \in [iv : {0} \cup BlockSizes, tag : Nat \ {0}, blk : BlockSizes,
          split : BOOLEAN] : c.iv = IF c.split THEN 0 ELSE c.blk}

Cipher == StreamCipher \cup CbcCipher

\* No encryption: the plaintext follows the header, nothing follows it.
Clear == [iv |-> 0, tag |-> 0, blk |-> 0, split |-> FALSE]

Smaller(m, n) == IF m < n THEN m ELSE n

\* n & ~(blk - 1): the part of n made of whole blocks.
WholeBlocks(n, blk) == n - (n % blk)

\* Length once padded: the CBC encoders add 1 to blk bytes of padding.
Padded(n, blk) == n + blk - (n % blk)

-----------------------------------------------------------------------------
(* Outgoing records.                                                       *)

\* Mutant: the first record of a split pair is given no room.
Lead_unsplit(c) == c.iv

\* Bytes to leave free between the header and the plaintext: *start in the
\* max_plaintext methods. The split record of TLS 1.0 needs its own room.
Lead(c) == IF c.split THEN 4 + Padded(c.tag + 1, c.blk) ELSE c.iv

\* How many plaintext bytes fit when the record may use "avail" bytes after
\* the header (*end - *start on return of max_plaintext).
max_plaintext(c, avail) ==
  LET room == avail - Lead(c)
  IN  Smaller(MaxPlain, IF c.blk = 0 THEN room - c.tag
                        ELSE WholeBlocks(room, c.blk) - 1 - c.tag)

\* One CBC-encrypted body: plaintext, MAC and padding, in whole blocks.
CbcBody(c, len) == Padded(len + c.tag, c.blk)

\* Whether encrypt() emits the 1/n-1 split for this record.
Splits(c, app, len) == c.split /\ app /\ len > 1

\* First byte of the finished record, for a plaintext that starts at offset
\* "start": encrypt()'s result. A split leaves the second header just before
\* the second byte of the plaintext.
EncryptStart(c, app, start, len) ==
  IF Splits(c, app, len) THEN start + 1 - 2 * HeaderLen - CbcBody(c, 1)
  ELSE start - c.iv - HeaderLen

\* First byte after the finished record: the result plus *data_len.
EncryptEnd(c, app, start, len) ==
  IF c.blk = 0 THEN start + len + c.tag
  ELSE IF Splits(c, app, len) THEN start + 1 + CbcBody(c, len - 1)
  ELSE start + CbcBody(c, len)

-----------------------------------------------------------------------------
(* Incoming records.                                                       *)

\* Fewest bytes an encrypted record may have: an empty plaintext.
MinRecord(c) ==
  IF c.blk = 0 THEN c.iv + c.tag ELSE c.iv + WholeBlocks(c.blk + c.tag, c.blk)

\* Most bytes an encrypted record may have. CBC allows for 256 bytes of
\* padding.
MaxRecord(c) ==
  IF c.blk = 0 THEN MaxPlain + c.iv + c.tag
  ELSE c.iv + WholeBlocks(MaxPlain + 256 + c.tag, c.blk)

check_length(c, rlen) == MinRecord(c) <= rlen /\ rlen <= MaxRecord(c)

\* The plaintext lengths decrypt() may find in a record of rlen bytes: one
\* for the stream ciphers, any that the padding allows for CBC (the last byte
\* of the padding is its length; 1 to 256 bytes are removed).
DecryptLens(c, rlen) ==
  LET body == rlen - c.iv - c.tag
  IN  IF c.blk = 0 THEN {body}
      ELSE {n \in 0..(body - 1) : n <= MaxPlain /\ body - n <= 256}

\* Offset of the plaintext in the buffer: the header and the explicit IV or
\* nonce come first.
DecryptStart(c) == HeaderLen + c.iv

=============================================================================
