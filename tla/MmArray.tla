------------------------------- MODULE MmArray ------------------------------
(***************************************************************************)
(* The growing array of src/src/mmarray.c.  Lengths and capacities are     *)
(* unsigned, sizes of memory are size_t, which is wide enough for all of   *)
(* them here; the index of an appended item is multiplied as unsigned.     *)
(* A failure of mmap or mremap aborts the program, and is not modelled     *)
(* beyond that.                                                            *)
(***************************************************************************)
EXTENDS Integers

CONSTANTS
  page_size, SizeofHeader, UNSIGNED,
  Lengths, ItemSizes, Increments,  \* what clients ask for
  MaxLength                        \* bound: of the array, so far below UNSIGNED
                                   \* that capacities do not wrap

ArrayAssumption ==
  /\ page_size \in Nat \ {0} /\ SizeofHeader \in 1 .. page_size
  /\ UNSIGNED \in Nat \ {0}
  /\ MaxLength \in Nat /\ MaxLength + page_size < UNSIGNED
  /\ Lengths \subseteq 0 .. MaxLength /\ Increments \subseteq 0 .. UNSIGNED - 1
  /\ ItemSizes \subseteq 1 .. UNSIGNED - 1

VARIABLES
  capacity, length, item_size,     \* the header
  mapped,                          \* the bytes mapped for it, 0 before
  wrote                            \* where the last call has put an item, or -1

vars == <<capacity, length, item_size, mapped, wrote>>

Init ==
  /\ capacity = 0 /\ length = 0 /\ item_size \in ItemSizes
  /\ mapped = 0 /\ wrote = -1

calc_memsize(n) ==
  page_size * ((SizeofHeader + n * item_size + page_size - 1) \div page_size)

(* The division is in size_t; the mutant forgets the header.               *)
capacity_of_pages(memsize) == (memsize \div item_size) % UNSIGNED
capacity_of(memsize) == ((memsize - SizeofHeader) \div item_size) % UNSIGNED

mmarray_allocate(n) ==
  /\ mapped = 0
  /\ mapped' = calc_memsize(n)
  /\ capacity' = capacity_of(mapped')
  /\ length' = n
  /\ wrote' = -1
  /\ UNCHANGED item_size

needs_room(n) == n > capacity

(* length + increment wraps.                                               *)
Grown(increment) ==
  LET n == (length + increment) % UNSIGNED
  IN  /\ mapped > 0
      /\ n <= MaxLength
      /\ IF needs_room(n)
           THEN /\ mapped' = calc_memsize(n)
                /\ capacity' = capacity_of(mapped')
           ELSE UNCHANGED <<mapped, capacity>>
      /\ length' = n
      /\ UNCHANGED item_size

mmarray_grow(increment) == Grown(increment) /\ wrote' = -1

(* The index is the length before the array grows.                         *)
index == length

mmarray_append_item == Grown(1) /\ wrote' = (index * item_size) % UNSIGNED

Next ==
  \/ \E n \in Lengths : mmarray_allocate(n)
  \/ \E n \in Increments : mmarray_grow(n)
  \/ mmarray_append_item

Spec == Init /\ [][Next]_vars

-----------------------------------------------------------------------------
(* All items are inside the mapping, and so is every item that the array   *)
(* takes without growing.                                                  *)
ItemsMapped ==
  mapped > 0 =>
    /\ length <= capacity
    /\ SizeofHeader + capacity * item_size <= mapped

(* mremap is told the size that is mapped: it is computed again from the   *)
(* capacity, which itself was rounded to whole items.                      *)
OldSizeExact == mapped > 0 => calc_memsize(capacity) = mapped

(* An appended item is the last of the array, behind all the others, until *)
(* the array has more bytes than an unsigned integer counts.               *)
AppendsAtEnd ==
  wrote >= 0 /\ length * item_size <= UNSIGNED => wrote = (length - 1) * item_size
=============================================================================
