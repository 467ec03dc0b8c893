----------------------------- MODULE PageBitmap -----------------------------
(***************************************************************************)
(* The bitmap of one page of the pet allocator (src/src/allocator_pet.c).  *)
(*                                                                         *)
(* A bitmap is the set of the units whose bit is set.  The C functions     *)
(* scan words of WORD_WIDTH bits; module WordBitmap models those scans     *)
(* word by word and shows that they find what the operators below say,     *)
(* which leave out how.                                                    *)
(***************************************************************************)
EXTENDS Integers, FiniteSetsExt

CONSTANTS
  units_per_page,               \* sys_page_size / UNIT_SIZE
  bm_page_header_size_in_units  \* units taken by struct _BmPageHeader

(* The header takes at least one unit, so that offset 0 can mean "no block *)
(* found", and leaves room for a block the sub-allocator accepts           *)
(* (num_units < max_data_units).                                           *)
ASSUME UnitsAssumption ==
  /\ units_per_page \in Nat
  /\ bm_page_header_size_in_units \in Nat \ {0}
  /\ bm_page_header_size_in_units + 1 < units_per_page

max_data_units == units_per_page - bm_page_header_size_in_units

Unit     == 0 .. (units_per_page - 1)
DataUnit == bm_page_header_size_in_units .. (units_per_page - 1)

(* n consecutive units from unit o on. *)
Run(o, n) == o .. (o + n - 1)

(* The units the page header occupies, set once when the page is made. *)
HeaderUnits == Run(0, bm_page_header_size_in_units)

(* The number of consecutive zero bits from offset o on.  The C function   *)
(* may stop early at its `limit`, which its callers pass only where a      *)
(* longer count would make no difference to them.                          *)
count_zero_bits(bm, o) ==
  Max({n \in 0 .. (units_per_page - o) : Run(o, n) \cap bm = {}})

(* A mutant: the comparison lets a run one unit too short pass. *)
find_free_block_short(bm, num_units) ==
  LET fits == {o \in DataUnit : count_zero_bits(bm, o) >= num_units - 1}
  IN  IF fits = {} THEN 0 ELSE Min(fits)

(* First fit: the lowest offset of a free run of num_units, 0 for none. *)
find_free_block(bm, num_units) ==
  LET fits == {o \in DataUnit : count_zero_bits(bm, o) >= num_units}
  IN  IF fits = {} THEN 0 ELSE Min(fits)

(* The length of the longest free run. *)
find_longest_free_block(bm) ==
  Max({count_zero_bits(bm, o) : o \in DataUnit})

set_bits(bm, o, n)   == bm \cup Run(o, n)
clear_bits(bm, o, n) == bm \ Run(o, n)
=============================================================================
