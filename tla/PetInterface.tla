---------------------------- MODULE PetInterface ----------------------------
(***************************************************************************)
(* _allocate, _release and _reallocate of the pet allocator                *)
(* (src/src/allocator_pet.c): which of its two sub-allocators a block of n *)
(* bytes belongs to, and how blocks cross from one to the other.           *)
(*                                                                         *)
(* A block is known by its address alone: one at the start of a page was   *)
(* mapped, one elsewhere is units of a bitmap page.  The bitmap            *)
(* sub-allocator is what BlockStore says of it: it finds units that are    *)
(* free, or fails.  mmap and mremap fail when they like, and for no bytes. *)
(***************************************************************************)
EXTENDS Integers, FiniteSets, Functions

CONSTANTS
  UnitAddr, PageAddr,   \* addresses in bitmap pages, and of pages
  NULL,
  UNIT_SIZE, sys_page_size, max_data_units,
  UNSIGNED,             \* 2 to the width of unsigned
  Sizes                 \* the numbers of bytes clients ask for

Address == UnitAddr \cup PageAddr

ASSUME InterfaceAssumption ==
  /\ UnitAddr \cap PageAddr = {} /\ NULL \notin Address
  /\ {UNIT_SIZE, sys_page_size, max_data_units} \subseteq Nat \ {0}
  /\ sys_page_size % UNIT_SIZE = 0 /\ UNSIGNED % sys_page_size = 0
  /\ max_data_units * UNIT_SIZE < sys_page_size
  /\ Sizes \subseteq 0 .. UNSIGNED - 1

VARIABLES
  held,              \* what the client has asked for, by address
  reserved,          \* the bytes the sub-allocators keep for it
  blocks_allocated,
  call,
  outcome,           \* "running", or how the program has ended
  careful            \* whether the client avoids some calls: see Avoided

vars == <<held, reserved, blocks_allocated, call, outcome, careful>>

Contract == INSTANCE AllocatorContract

Init ==
  /\ Contract!Init
  /\ reserved = <<>>
  /\ blocks_allocated = 0
  /\ outcome = "running"
  /\ careful \in BOOLEAN

-----------------------------------------------------------------------------
(* Sizes.  The mutant drops a last unit that is not full.                  *)
align_unsigned(n, a) == LET up == (n + a - 1) % UNSIGNED IN up - (up % a)
bytes_to_units_down(n) == n \div UNIT_SIZE
bytes_to_units(n) == align_unsigned(n, UNIT_SIZE) \div UNIT_SIZE
align_unsigned_to_page(n) == align_unsigned(n, sys_page_size)

is_small(units) == units < max_data_units

(* Sizes that wrap when they are rounded to pages.                         *)
Huge(n) == n > UNSIGNED - sys_page_size

Extent(n) ==
  IF is_small(bytes_to_units(n)) THEN UNIT_SIZE * bytes_to_units(n)
                                 ELSE align_unsigned_to_page(n)

(* Where memory for n bytes may come to be, or NULL.                       *)
Room(n) ==
  LET addrs == IF is_small(bytes_to_units(n)) THEN UnitAddr
               ELSE IF align_unsigned_to_page(n) > 0 THEN PageAddr ELSE {}
  IN  {NULL} \cup (addrs \ DOMAIN reserved)

(* Where each branch has cleanse() begin, with n for nothing to clear: a   *)
(* new block of units, new pages, a block that keeps its units, pages that *)
(* grow, units that grow, and a block that moves.  The mutant comes after  *)
(* the old size has been overwritten.                                      *)
bm_allocate_cleans(clean, n) == IF clean THEN 0 ELSE n
call_mmap_cleans(clean, n) == IF clean THEN 0 ELSE n
same_units_cleans(clean, old, n) == IF clean /\ n > old THEN old ELSE n
call_mremap_cleans(clean, old, n) == IF clean /\ n > old THEN old ELSE n
bm_grow_cleans(clean, old, n) == IF clean THEN old ELSE n
move_cleans_from_new(clean, old, n) == n
move_cleans(clean, old, n) == IF clean THEN old ELSE n

Smaller(m, n) == IF m < n THEN m ELSE n

(* The sub-allocators' memory and the statistics.  Taking a block counts   *)
(* it up and giving one back counts it down, so that a move does both; the *)
(* mutant of a move leaves the old block where it is.                      *)
ledger == [reserved |-> reserved, blocks |-> blocks_allocated]

Taken(l, b, n) ==
  [reserved |-> Contract!With(l.reserved, b, Extent(n)), blocks |-> l.blocks + 1]

Given(l, a) ==
  [reserved |-> Contract!Without(l.reserved, a), blocks |-> l.blocks - 1]

moved_without_release(l, a, b, n) == Taken(l, b, n)
moved(l, a, b, n) == Given(Taken(l, b, n), a)

Keep(l) == reserved' = l.reserved /\ blocks_allocated' = l.blocks

Fail == Contract!Fail /\ Keep(ledger) /\ UNCHANGED <<outcome, careful>>

Abort(how, l) ==
  /\ outcome' = how
  /\ Keep(l)
  /\ UNCHANGED <<held, call, careful>>

(* The client's block at a becomes one of n bytes at b, zero from          *)
(* zero_from on.                                                           *)
Replace(a, b, n, clean, zero_from) ==
  /\ held' = Contract!With(Contract!Without(held, a), b, n)
  /\ call' = Contract!Report(TRUE, b # a, clean, Smaller(held[a], n), zero_from)
  /\ UNCHANGED <<outcome, careful>>

(* The branches in which a sub-allocator changes the block it has: nothing *)
(* is counted.                                                             *)
Become(a, b, n, bytes, clean, zero_from) ==
  /\ Replace(a, b, n, clean, zero_from)
  /\ reserved' = Contract!With(Contract!Without(reserved, a), b, bytes)
  /\ UNCHANGED blocks_allocated

-----------------------------------------------------------------------------
_allocate(n, clean) ==
  \/ n = 0 /\ Fail
  \/ /\ n # 0 /\ (careful => ~Huge(n))
     /\ \E a \in Room(n) :
          IF a = NULL THEN Fail
          ELSE /\ held' = Contract!With(held, a, n)
               /\ Keep(Taken(ledger, a, n))
               /\ call' = Contract!Report(TRUE, TRUE, clean, 0,
                                          IF is_small(bytes_to_units(n))
                                          THEN bm_allocate_cleans(clean, n)
                                          ELSE call_mmap_cleans(clean, n))
               /\ UNCHANGED <<outcome, careful>>

_release(a) ==
  IF held[a] = 0 THEN Abort("abort", ledger)
  ELSE /\ held' = Contract!Without(held, a)
       /\ Keep(Given(ledger, a))
       /\ call' = Contract!Report(TRUE, FALSE, FALSE, 0, 0)
       /\ UNCHANGED <<outcome, careful>>

-----------------------------------------------------------------------------
(* The branches of _reallocate for a block that is there.                  *)

Same(a, n, clean) ==
  /\ bytes_to_units(n) = bytes_to_units(held[a])
  /\ Become(a, a, n, reserved[a], clean, same_units_cleans(clean, held[a], n))

(* A page whose shrinking fails is kept as it is.  So is one that is to    *)
(* grow to a size which wraps to no page at all: call_mremap takes it for  *)
(* a shrink.                                                               *)
call_mremap(a, n, clean) ==
  LET old_size == align_unsigned_to_page(held[a])
      new_size == align_unsigned_to_page(n)
      zero_from == call_mremap_cleans(clean, held[a], n)
  IN  \/ new_size = old_size /\ Become(a, a, n, reserved[a], clean, zero_from)
      \/ new_size > old_size /\ Fail
      \/ /\ new_size > old_size
         /\ \E b \in {a} \cup (PageAddr \ DOMAIN reserved) :
              Become(a, b, n, new_size, clean, zero_from)
      \/ /\ new_size < old_size
         /\ \E bytes \in {old_size} \cup ({new_size} \ {0}) :
              Become(a, a, n, bytes, clean, n)

ShrinkInBitmap(a, n) ==
  IF a \in PageAddr THEN Abort("abort", ledger)
  ELSE Become(a, a, n, Extent(n), FALSE, n)

(* The copy is in the bitmap; bm_release then takes the block of pages for *)
(* units, and what is in it for the header of a bitmap page.               *)
ShrinkToBitmap(a, n) ==
  IF a \in UnitAddr THEN Abort("abort", ledger)
  ELSE \E b \in Room(n) :
         IF b = NULL THEN call_mremap(a, n, FALSE)
                     ELSE Abort("bad_header", Taken(ledger, b, n))

(* bm_grow finds the next units free.                                      *)
GrowInBitmap(a, n, clean) ==
  IF a \in PageAddr THEN Abort("abort", ledger)
  ELSE Become(a, a, n, Extent(n), clean, bm_grow_cleans(clean, held[a], n))

(* Also when bm_grow has failed.  _allocate makes and counts a block, and  *)
(* _release takes the old one away, or ends the program for its size.      *)
Move(a, n, clean) ==
  /\ ~(is_small(bytes_to_units(n)) /\ a \in PageAddr)
  /\ \E b \in Room(n) :
       IF b = NULL THEN Fail
       ELSE IF held[a] = 0 THEN Abort("abort", Taken(ledger, b, n))
       ELSE /\ Replace(a, b, n, clean, move_cleans(clean, held[a], n))
            /\ Keep(moved(ledger, a, b, n))

OnPages(a, n, clean) ==
  IF a \in UnitAddr THEN Abort("abort", ledger) ELSE call_mremap(a, n, clean)

on_pages_by_new(old, new) == new # old /\ ~is_small(new)
on_pages(old, new) == new # old /\ ~is_small(old) /\ ~is_small(new)

Resize(a, n, clean) ==
  LET old == bytes_to_units(held[a])
      new == bytes_to_units(n)
  IN  \/ Same(a, n, clean)
      \/ new < old /\ is_small(old) /\ ShrinkInBitmap(a, n)
      \/ new < old /\ is_small(new) /\ ~is_small(old) /\ ShrinkToBitmap(a, n)
      \/ on_pages(old, new) /\ OnPages(a, n, clean /\ new > old)
      \/ new > old /\ is_small(new) /\ GrowInBitmap(a, n, clean)
      \/ new > old /\ is_small(old) /\ Move(a, n, clean)

(* What the code gets wrong: sizes that wrap, reallocating to no bytes,    *)
(* and to few units a block that was pages.                                *)
Avoided(a, n) ==
  \/ Huge(n)
  \/ n = 0
  \/ is_small(bytes_to_units(n)) /\ ~is_small(bytes_to_units(held[a]))

(* Two zero sizes are equal sizes, so that the test for them refuses none. *)
_reallocate(a, n, clean) ==
  /\ careful => ~Avoided(a, n)
  /\ IF n = held[a] THEN Become(a, a, n, reserved[a], clean, n)
     ELSE Resize(a, n, clean)

(* Of a null pointer; if the sizes are equal the call does nothing.        *)
ReallocateNull(old, n, clean) ==
  /\ old # n
  /\ IF old = 0 THEN _allocate(n, clean) ELSE Fail

Next ==
  /\ outcome = "running"
  /\ \/ \E n \in Sizes, clean \in BOOLEAN : _allocate(n, clean)
     \/ \E a \in DOMAIN held : _release(a)
     \/ \E a \in DOMAIN held, n \in Sizes, clean \in BOOLEAN : _reallocate(a, n, clean)
     \/ \E old, n \in Sizes, clean \in BOOLEAN : ReallocateNull(old, n, clean)

Spec == Init /\ [][Next]_vars

-----------------------------------------------------------------------------
(* The client's bytes are inside what is reserved, and for units the size  *)
(* the client gives back with the block is the number of units taken: the  *)
(* sub-allocators keep no size themselves.                                 *)
Covered ==
  \A a \in DOMAIN held :
    ~Huge(held[a]) =>
      /\ a \in DOMAIN reserved /\ reserved[a] >= held[a]
      /\ a \in UnitAddr => reserved[a] = UNIT_SIZE * bytes_to_units(held[a])

(* A careful client that gives every size right never sees an abort.       *)
NoAbort == careful => outcome # "abort"

(* To such a client the allocator keeps its promises, also where a         *)
(* reallocation takes three calls of the sub-allocators and one fails.     *)
ImplementsContract ==
  Contract!Init /\ [][careful => Contract!Next]_(Contract!vars)

-----------------------------------------------------------------------------
(* The code says of a page-aligned address "this means the block was       *)
(* allocated directly with mmap": bm_release is never given one.           *)
ReleasesUnitsOnly == outcome # "bad_header"
=============================================================================
