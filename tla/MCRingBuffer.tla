---------------------------- MODULE MCRingBuffer ----------------------------
(* Writes of every length a small buffer takes or just refuses; bytes a and *)
(* b tell a reordered queue from the right one.                             *)
EXTENDS RingBuffer

CONSTANTS a, b

MCByte == {a, b}
MCWrites == {<<>>, <<a>>, <<b>>, <<a, b>>, <<b, a, a>>, <<a, b, b, a>>}

(* Two bytes at a time, as many as make the tail wrap where they have to.   *)
MCPairs == {<<a, b>>}
=============================================================================
