----------------------------- MODULE ByteQueue ------------------------------
(***************************************************************************)
(* What a ring buffer promises: a queue of bytes shorter than the size of  *)
(* the buffer.  A write is all or nothing, a read takes as many bytes from *)
(* the front as there are and as fit the reader's buffer, and a resize     *)
(* touches no byte.                                                        *)
(***************************************************************************)
EXTENDS Integers, Sequences

CONSTANTS
  Writes,  \* the sequences of bytes clients write
  Counts   \* the sizes of the buffers clients read into

VARIABLES
  queue,   \* the bytes written and not yet read, oldest first
  size,    \* of the buffer, 0 when there is none
  ok,      \* what the last call returned, if it returns a boolean
  bytes    \* what the last call delivered, if it reads

vars == <<queue, size, ok, bytes>>

Init == queue = <<>> /\ size = 0 /\ ok = TRUE /\ bytes = <<>>

Create ==
  /\ size = 0
  /\ ok' \in BOOLEAN
  /\ size' \in IF ok' THEN Nat \ {0} ELSE {0}
  /\ queue' = <<>> /\ bytes' = <<>>

Destroy ==
  /\ size' = 0 /\ queue' = <<>> /\ ok' = TRUE /\ bytes' = <<>>

Put(s) ==
  /\ size > 0
  /\ ok' = (Len(queue) + Len(s) < size)
  /\ queue' = IF ok' THEN queue \o s ELSE queue
  /\ bytes' = <<>>
  /\ UNCHANGED size

Take(n) ==
  LET k == IF n < Len(queue) THEN n ELSE Len(queue)
  IN  /\ size > 0
      /\ bytes' = SubSeq(queue, 1, k)
      /\ queue' = SubSeq(queue, k + 1, Len(queue))
      /\ ok' = TRUE
      /\ UNCHANGED size

(* A refused resize changes nothing. *)
Resize ==
  /\ size > 0
  /\ ok' \in BOOLEAN
  /\ size' \in Nat /\ size' > Len(queue)
  /\ ~ok' => size' = size
  /\ bytes' = <<>>
  /\ UNCHANGED queue

Next ==
  \/ Create \/ Destroy \/ Resize
  \/ \E s \in Writes : Put(s)
  \/ \E n \in Counts : Take(n)

Spec == Init /\ [][Next]_vars
=============================================================================
