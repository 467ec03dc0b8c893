------------------------- MODULE AllocatorContract --------------------------
(***************************************************************************)
(* What an allocator promises its client, whichever of the three it is:    *)
(* a new block is at an address nobody holds, a reallocation keeps the     *)
(* bytes that both sizes have and clears the new ones if it is asked to,   *)
(* and one that fails leaves the block as it was.                          *)
(***************************************************************************)
EXTENDS Integers, Functions

CONSTANTS
  Address,
  Sizes     \* the numbers of bytes clients ask for

VARIABLES
  held,     \* the number of bytes of each block in the client's hands
  call      \* the last call: see Report

vars == <<held, call>>

(* A block's first bytes up to `kept' are those of the old block, and those *)
(* from `zero_from' on, if any, are zero.                                   *)
Report(ok, changed, clean, kept, zero_from) ==
  [ok |-> ok, changed |-> changed, clean |-> clean,
   kept |-> kept, zero_from |-> zero_from]

Failure == Report(FALSE, FALSE, FALSE, 0, 0)

Init == held = <<>> /\ call = Failure

Without(f, a) == Restrict(f, DOMAIN f \ {a})
With(f, a, n) == [x \in DOMAIN f \cup {a} |-> IF x = a THEN n ELSE f[x]]

Fail == call' = Failure /\ UNCHANGED held

Allocate(a, n) ==
  /\ a \notin DOMAIN held
  /\ held' = With(held, a, n)
  /\ call'.ok /\ call'.changed
  /\ call'.clean => call'.zero_from = 0

Release(a) ==
  /\ a \in DOMAIN held
  /\ held' = Without(held, a)
  /\ call'.ok

Reallocate(a, b, n) ==
  /\ a \in DOMAIN held
  /\ b = a \/ b \notin DOMAIN held
  /\ held' = With(Without(held, a), b, n)
  /\ call'.ok /\ (call'.changed <=> b # a)
  /\ call'.kept >= (IF n < held[a] THEN n ELSE held[a])
  /\ call'.clean /\ n > held[a] => call'.zero_from <= held[a]

Next ==
  \/ Fail
  \/ \E a \in Address : Release(a)
  \/ \E a \in Address, n \in Sizes : Allocate(a, n)
  \/ \E a, b \in Address, n \in Sizes : Reallocate(a, b, n)

Spec == Init /\ [][Next]_vars
=============================================================================
