--------------------------- MODULE MCRecordBuffers ---------------------------
(* Small record layers for TLC. Lengths are scaled down: 3 bytes of         *)
(* plaintext instead of 16384, tags of 1 byte, blocks of 4.                 *)
EXTENDS RecordBuffers

MCGcm == [iv |-> 2, tag |-> 1, blk |-> 0, split |-> FALSE]
MCCbc12 == [iv |-> 4, tag |-> 1, blk |-> 4, split |-> FALSE]
MCCbc10 == [iv |-> 0, tag |-> 1, blk |-> 4, split |-> TRUE]

MCCiphers == {MCGcm, MCCbc12, MCCbc10}
MCFewCiphers == {MCGcm, MCCbc10}
MCVersions == {770, 771}
MCOneVersion == {771}
=============================================================================
