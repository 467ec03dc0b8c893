--------------------------- MODULE DebugAllocator ---------------------------
(***************************************************************************)
(* The debug allocator (src/src/allocator_debug.c): malloc with a guard of *)
(* BUBBLEWRAP bytes on either side of a block, checked when the block is   *)
(* given up.  Bytes are numbered from the start of the block, so that the  *)
(* lower guard has negative numbers.                                       *)
(***************************************************************************)
EXTENDS Integers

CONSTANTS
  Address, NULL,
  BUBBLEWRAP, SizeofInfo, UNSIGNED,
  Sizes

DebugAssumption ==
  /\ NULL \notin Address
  /\ {BUBBLEWRAP, SizeofInfo, UNSIGNED} \subseteq Nat \ {0}
  /\ Sizes \subseteq 0 .. UNSIGNED - 1

VARIABLES
  held,
  damage,          \* the guard bytes that have been written to, by block
  strayed,         \* the blocks whose client has written outside of them
  blocks_allocated,
  call,
  outcome          \* "running", or how the program has ended

vars == <<held, damage, strayed, blocks_allocated, call, outcome>>

Contract == INSTANCE AllocatorContract

Init ==
  /\ Contract!Init
  /\ damage = <<>> /\ strayed = {}
  /\ blocks_allocated = 0
  /\ outcome = "running"

calc_memsize(n) == (SizeofInfo + n + 2 * BUBBLEWRAP) % UNSIGNED

Guard(n) == (-BUBBLEWRAP .. -1) \cup (n .. n + BUBBLEWRAP - 1)

(* The bytes check_region looks at; the loop of the mutant ends too early. *)
checked_but_lowest(n) == Guard(n) \ {-BUBBLEWRAP}
checked(n) == Guard(n)

check_region_passes(a) == damage[a] \cap checked(held[a]) = {}

(* The regions in the C library's heap and the statistics.  Taking a block *)
(* counts it up and giving one back counts it down, so that a move does    *)
(* both.                                                                   *)
ledger == [damage |-> damage, blocks |-> blocks_allocated]

(* Both memsets have filled the guards; what is copied to the block may    *)
(* reach them.                                                             *)
Taken(l, b, spilled) ==
  [damage |-> Contract!With(l.damage, b, spilled), blocks |-> l.blocks + 1]

Given(l, a) ==
  [damage |-> Contract!Without(l.damage, a), blocks |-> l.blocks - 1]

Keep(l) == damage' = l.damage /\ blocks_allocated' = l.blocks

Exit(how, l) ==
  /\ outcome' = how
  /\ Keep(l)
  /\ UNCHANGED <<held, strayed, call>>

Fail == Contract!Fail /\ Keep(ledger) /\ UNCHANGED <<strayed, outcome>>

-----------------------------------------------------------------------------
wraps(n) == calc_memsize(n) <= SizeofInfo + BUBBLEWRAP + n

Room == {NULL} \cup (Address \ DOMAIN held)

(* reallocate of a null pointer comes here too.                            *)
_allocate(n, clean) ==
  \E a \in Room :
    \/ a = NULL /\ Fail
    \/ a # NULL /\ wraps(n) /\ Exit("too_large", ledger)
    \/ /\ a # NULL /\ ~wraps(n)
       /\ held' = Contract!With(held, a, n)
       /\ Keep(Taken(ledger, a, {}))
       /\ call' = Contract!Report(TRUE, TRUE, clean, 0, IF clean THEN 0 ELSE n)
       /\ UNCHANGED <<strayed, outcome>>

_release(a) ==
  IF ~check_region_passes(a) THEN Exit("damaged", ledger)
  ELSE /\ held' = Contract!Without(held, a)
       /\ Keep(Given(ledger, a))
       /\ strayed' = strayed \ {a}
       /\ call' = Contract!Report(TRUE, FALSE, FALSE, 0, 0)
       /\ UNCHANGED outcome

(* All old bytes are copied and n - old bytes cleared, whichever is more:  *)
(* old bytes that do not fit go to the new block's upper guard and beyond, *)
(* and the difference wraps.  What is written past the guards may be       *)
(* anything of the program's, which ends here.                             *)
cleared_from(clean, old, n) == IF clean THEN old ELSE n

Move(a, b, n, clean) ==
  LET old == held[a]
      spilled == n .. old - 1
      after_copy == Taken(ledger, b, spilled)
      after_release == Given(after_copy, a)
  IN  IF ~(spilled \subseteq Guard(n)) THEN Exit("overflow", after_copy)
      ELSE IF ~check_region_passes(a) THEN Exit("damaged", after_copy)
      ELSE IF clean /\ n < old THEN Exit("overflow", after_release)
      ELSE /\ held' = Contract!With(Contract!Without(held, a), b, n)
           /\ Keep(after_release)
           /\ strayed' = strayed \ {a}
           /\ call' = Contract!Report(TRUE, TRUE, clean, IF n < old THEN n ELSE old,
                                      cleared_from(clean, old, n))
           /\ UNCHANGED outcome

_reallocate(a, n, clean) ==
  \/ /\ n = held[a]
     /\ call' = Contract!Report(TRUE, FALSE, clean, n, n)
     /\ UNCHANGED <<held, damage, strayed, blocks_allocated, outcome>>
  \/ /\ n # held[a]
     /\ \E b \in Room :
          \/ b = NULL /\ Fail
          \/ b # NULL /\ wraps(n) /\ Exit("too_large", ledger)
          \/ b # NULL /\ ~wraps(n) /\ Move(a, b, n, clean)

(* The client writes next to its block.                                    *)
Stray(a, i) ==
  /\ damage' = [damage EXCEPT ![a] = @ \cup {i}]
  /\ strayed' = strayed \cup {a}
  /\ UNCHANGED <<held, blocks_allocated, call, outcome>>

Next ==
  /\ outcome = "running"
  /\ \/ \E n \in Sizes, clean \in BOOLEAN : _allocate(n, clean)
     \/ \E a \in DOMAIN held : _release(a)
     \/ \E a \in DOMAIN held, n \in Sizes, clean \in BOOLEAN : _reallocate(a, n, clean)
     \/ \E a \in DOMAIN held : \E i \in Guard(held[a]) : Stray(a, i)

Spec == Init /\ [][Next]_vars

-----------------------------------------------------------------------------
(* A block whose client has written to any byte of the guards is not given *)
(* up, by release or by reallocate, without the program ending with the    *)
(* message about it.                                                       *)
DamageFound ==
  [][\A a \in strayed : a \in strayed' \/ outcome' = "damaged"]_vars
=============================================================================
