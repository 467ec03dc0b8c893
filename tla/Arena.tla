-------------------------------- MODULE Arena -------------------------------
(***************************************************************************)
(* The arena of src/src/arena.c: regions of mapped pages in a list, each   *)
(* filled from its start; blocks are freed only with the arena.  Sizes are *)
(* unsigned integers.  What the client holds is kept apart from what the   *)
(* arena knows, which is the tail of each region.                          *)
(***************************************************************************)
EXTENDS Integers, Sequences

CONSTANTS
  sys_page_size, UNSIGNED,
  ARENA_HEADER_SIZE,      \* of the first region, which the arena embeds
  REGION_HEADER_SIZE,
  Alignments,             \* powers of two
  Sizes, Capacities,      \* what clients ask for
  MaxRegions              \* bound: the regions of an arena

ArenaAssumption ==
  /\ sys_page_size \in Nat \ {0}
  /\ UNSIGNED \in Nat \ {0} /\ UNSIGNED % sys_page_size = 0
  /\ {ARENA_HEADER_SIZE, REGION_HEADER_SIZE} \subseteq 1 .. sys_page_size - 1
  /\ Alignments \subseteq 1 .. sys_page_size
  /\ \A a \in Alignments, size \in {sys_page_size, ARENA_HEADER_SIZE, REGION_HEADER_SIZE} :
       size % a = 0
  /\ Sizes \cup Capacities \subseteq 0 .. UNSIGNED - 1 /\ 0 \notin Sizes

VARIABLES
  regions,              \* of the arena, first to last; <<>> when there is none
  new_region_capacity,
  blocks                \* what the client holds: region, start and size in it

vars == <<regions, new_region_capacity, blocks>>

Init ==
  /\ regions = <<>> /\ new_region_capacity = 0
  /\ blocks = {}

align_unsigned(n, a) == LET up == (n + a - 1) % UNSIGNED IN up - (up % a)

(* mmap refuses no bytes.                                                  *)
Mapping(capacity, header) == align_unsigned((capacity + header) % UNSIGNED, sys_page_size)

(* `mapped' is the size of the mapping, which the arena itself derives     *)
(* from the capacity when it unmaps the region.                            *)
Region(capacity, header) ==
  LET mem_size == Mapping(capacity, header)
  IN  [tail |-> 0, capacity |-> (mem_size - header) % UNSIGNED, mapped |-> mem_size]

header_size(i) == IF i = 1 THEN ARENA_HEADER_SIZE ELSE REGION_HEADER_SIZE

-----------------------------------------------------------------------------
create_arena(capacity) ==
  /\ regions = <<>>
  /\ Mapping(capacity, ARENA_HEADER_SIZE) > 0
  /\ regions' = <<Region(capacity, ARENA_HEADER_SIZE)>>
  /\ new_region_capacity' = capacity
  /\ blocks' = {}

set_region_capacity(capacity) ==
  /\ regions # <<>>
  /\ new_region_capacity' = capacity
  /\ UNCHANGED <<regions, blocks>>

(* Alignment is that of the address, and a region starts on a page.        *)
start_unaligned(tail, alignment) == tail
start(tail, alignment) ==
  (align_unsigned((tail + REGION_HEADER_SIZE) % UNSIGNED, alignment) - REGION_HEADER_SIZE)
    % UNSIGNED

fits(region, size, alignment) ==
  LET from == start(region.tail, alignment)
  IN  from < region.capacity /\ size <= region.capacity - from

(* Block number i of list rs, and the list with its region's tail moved.   *)
region_alloc(rs, i, size, alignment) ==
  LET from == start(rs[i].tail, alignment)
  IN  /\ regions' = [rs EXCEPT ![i].tail = (from + size) % UNSIGNED]
      /\ blocks' = blocks \cup {[region |-> i, start |-> from, size |-> size,
                                 alignment |-> alignment]}

(* The block that did not fit anywhere may not fit the new region either:  *)
(* region_alloc then returns null, but the region stays.                   *)
capacity_default(size) == new_region_capacity
capacity_for(size) == IF size > new_region_capacity THEN size ELSE new_region_capacity

new_region_alloc(size, alignment) ==
  LET capacity == capacity_for(size)
      grown == Append(regions, Region(capacity, REGION_HEADER_SIZE))
      n == Len(grown)
  IN  /\ n <= MaxRegions
      /\ Mapping(capacity, REGION_HEADER_SIZE) > 0
      /\ IF fits(grown[n], size, alignment)
           THEN region_alloc(grown, n, size, alignment)
           ELSE regions' = grown /\ UNCHANGED blocks

_arena_alloc(size, alignment) ==
  /\ regions # <<>>
  /\ IF fits(regions[Len(regions)], size, alignment)
       THEN region_alloc(regions, Len(regions), size, alignment)
       ELSE new_region_alloc(size, alignment)
  /\ UNCHANGED new_region_capacity

_arena_fit(size, alignment) ==
  LET takes(i) == fits(regions[i], size, alignment)
  IN  /\ regions # <<>>
      /\ \/ \E i \in DOMAIN regions :
              /\ takes(i) /\ \A j \in 1 .. i - 1 : ~takes(j)
              /\ region_alloc(regions, i, size, alignment)
         \/ /\ \A i \in DOMAIN regions : ~takes(i)
            /\ new_region_alloc(size, alignment)
      /\ UNCHANGED new_region_capacity

delete_arena ==
  /\ regions # <<>>
  /\ regions' = <<>> /\ blocks' = {}
  /\ UNCHANGED new_region_capacity

Next ==
  \/ \E capacity \in Capacities : create_arena(capacity) \/ set_region_capacity(capacity)
  \/ \E size \in Sizes, alignment \in Alignments :
       _arena_alloc(size, alignment) \/ _arena_fit(size, alignment)
  \/ delete_arena

Spec == Init /\ [][Next]_vars

-----------------------------------------------------------------------------
End(b) == b.start + b.size

(* Blocks lie behind each other in the mapping of their region, and at     *)
(* addresses of their alignment, whichever of the two functions they come  *)
(* from: _arena_fit goes back to regions that _arena_alloc has left.       *)
BlocksApart ==
  /\ \A b \in blocks :
       /\ header_size(b.region) + End(b) <= regions[b.region].mapped
       /\ (header_size(b.region) + b.start) % b.alignment = 0
  /\ \A b, c \in blocks : b # c /\ b.region = c.region =>
       End(b) <= c.start \/ End(c) <= b.start

(* delete_arena asserts tail <= capacity of every region, and unmaps what  *)
(* was mapped.                                                             *)
DeletesWhole ==
  \A i \in DOMAIN regions :
    /\ regions[i].tail <= regions[i].capacity
    /\ align_unsigned((regions[i].capacity + header_size(i)) % UNSIGNED, sys_page_size)
         = regions[i].mapped

(* A region made for a block takes that block: no call leaves an unused    *)
(* region behind and returns nothing, whatever the region capacity is set  *)
(* to and however the block is aligned.                                    *)
NewRegionServes ==
  [][regions # <<>> /\ Len(regions') > Len(regions) => blocks' # blocks]_vars

=============================================================================
