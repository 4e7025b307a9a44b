---------------------------- MODULE MCRingBuffer ----------------------------
(* Small instances of RingBuffer. *)
EXTENDS RingBuffer

MCByte == 0 .. 3
MCPayloads == {<<1>>, <<2, 3, 1>>}
=============================================================================
