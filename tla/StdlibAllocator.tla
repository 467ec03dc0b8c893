-------------------------- MODULE StdlibAllocator ---------------------------
(***************************************************************************)
(* The stdlib allocator (src/src/allocator_stdlib.c) on malloc, calloc,    *)
(* realloc and free of the C library, with the C library's heap.           *)
(***************************************************************************)
EXTENDS Integers, FiniteSets

CONSTANTS
  Address, NULL,
  Sizes

StdlibAssumption == NULL \notin Address /\ Sizes \subseteq Nat

VARIABLES
  held,
  heap,               \* the addresses the C library has given out
  blocks_allocated,
  call

vars == <<held, heap, blocks_allocated, call>>

Contract == INSTANCE AllocatorContract

Init == Contract!Init /\ heap = {} /\ blocks_allocated = 0

Fail == Contract!Fail /\ UNCHANGED <<heap, blocks_allocated>>

(* reallocate of a null pointer comes here too.                            *)
_allocate(n, clean) ==
  \E a \in {NULL} \cup (Address \ heap) :
    IF a = NULL THEN Fail
    ELSE /\ heap' = heap \cup {a}
         /\ blocks_allocated' = blocks_allocated + 1
         /\ held' = Contract!With(held, a, n)
         /\ call' = Contract!Report(TRUE, TRUE, clean, 0, IF clean THEN 0 ELSE n)

_release(a) ==
  /\ heap' = heap \ {a}
  /\ held' = Contract!Without(held, a)
  /\ blocks_allocated' = blocks_allocated - 1
  /\ call' = Contract!Report(TRUE, FALSE, FALSE, 0, 0)

clears_from(clean, old, n) == IF clean /\ old < n THEN old ELSE n

Resized(a, b, n, clean) ==
  /\ heap' = (heap \ {a}) \cup {b}
  /\ held' = Contract!With(Contract!Without(held, a), b, n)
  /\ call' = Contract!Report(TRUE, b # a, clean, IF n < held[a] THEN n ELSE held[a],
                             clears_from(clean, held[a], n))
  /\ UNCHANGED blocks_allocated

(* The client never reallocates to no bytes: what realloc does then the    *)
(* language leaves open, and glibc frees the block and returns null, which *)
(* is taken for a failure.                                                 *)
_reallocate(a, n, clean) ==
  \/ n = held[a] /\ Resized(a, a, n, clean)
  \/ /\ n # held[a] /\ n # 0
     /\ \E b \in {a} \cup (Address \ heap) : Resized(a, b, n, clean)
  \/ n # held[a] /\ n # 0 /\ Fail

Next ==
  \/ \E n \in Sizes, clean \in BOOLEAN : _allocate(n, clean)
  \/ \E a \in DOMAIN held : _release(a)
  \/ \E a \in DOMAIN held, n \in Sizes, clean \in BOOLEAN : _reallocate(a, n, clean)

Spec == Init /\ [][Next]_vars
=============================================================================
