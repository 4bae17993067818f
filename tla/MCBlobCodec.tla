---------------------------- MODULE MCBlobCodec ----------------------------
(* BlobCodec on one-byte hashes of two values, offsets and sizes on both   *)
(* sides of the one-byte LEB128 limit, and the five encodings a prefix     *)
(* letter can carry.                                                       *)
EXTENDS BlobCodec

MCOffsets == {0, 1, 127, 128, 300}

MCEncodings == 0..4
=============================================================================
