----------------------------- MODULE Allocators -----------------------------
(***************************************************************************)
(* The allocator interface (src/include/allocator.h): init_allocator sets  *)
(* default_allocator to one of the three allocators when the program       *)
(* starts, and allocate(), reallocate() and release() call its functions.  *)
(* Whichever it is, the client sees the blocks, results and statistics     *)
(* that AllocatorContract and LedgerBalances speak of.                     *)
(***************************************************************************)
EXTENDS PetInterface

CONSTANTS
  HeapAddr, HeapSizes,     \* what malloc returns, and sizes asked of it
  BUBBLEWRAP, SizeofInfo

VARIABLES
  default_allocator,
  heap,                    \* of the stdlib allocator
  damage, strayed          \* of the debug allocator

Stdlib == INSTANCE StdlibAllocator WITH Address <- HeapAddr, Sizes <- HeapSizes
Debug  == INSTANCE DebugAllocator WITH Address <- HeapAddr, Sizes <- HeapSizes

ASSUME AllocatorsAssumption ==
  /\ Stdlib!StdlibAssumption /\ Debug!DebugAssumption
  /\ HeapAddr \subseteq Address /\ HeapSizes \subseteq Sizes

all_vars == <<vars, default_allocator, heap, damage, strayed>>

init_allocator ==
  /\ default_allocator \in {"pet", "stdlib", "debug"}
  /\ Init /\ Stdlib!Init /\ Debug!Init

default_call ==
  \/ /\ default_allocator = "pet" /\ Next
     /\ UNCHANGED <<heap, damage, strayed>>
  \/ /\ default_allocator = "stdlib" /\ Stdlib!Next
     /\ UNCHANGED <<reserved, outcome, careful, damage, strayed>>
  \/ /\ default_allocator = "debug" /\ Debug!Next
     /\ UNCHANGED <<reserved, heap, careful>>

AllocatorsSpec ==
  init_allocator /\ [][default_call /\ UNCHANGED default_allocator]_all_vars

-----------------------------------------------------------------------------
(* The properties of one allocator: see PetInterface and DebugAllocator.   *)

(* Every size a client gives back is covered by what the pet allocator has *)
(* reserved, across its two sub-allocators.                                *)
PetCovered == default_allocator = "pet" => Covered

(* Between two calls the memory an allocator keeps is the client's blocks  *)
(* and no other, and the statistics count as many, whatever allocations,   *)
(* releases and failures a reallocation was made of.                       *)
LedgerBalances ==
  outcome = "running" =>
    /\ DOMAIN held = CASE default_allocator = "pet"    -> DOMAIN reserved
                       [] default_allocator = "stdlib" -> heap
                       [] default_allocator = "debug"  -> DOMAIN damage
    /\ blocks_allocated = Cardinality(DOMAIN held)

(* The debug allocator reports every byte written beside a block when the  *)
(* block is given up.                                                      *)
DamageFound == Debug!DamageFound
=============================================================================
