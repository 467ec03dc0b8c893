----------------------------- MODULE StandAlone -----------------------------
(***************************************************************************)
(* The parts of the library that stand alone, but for the two that bitwise *)
(* operations are about (see Parts).  No state is shared between them, so  *)
(* that a behaviour of one says all there is to say: `part' is the one     *)
(* that this behaviour is of, and the others never start.                  *)
(***************************************************************************)
EXTENDS Integers

CONSTANTS
  nullptr, UNSIGNED, sys_page_size,
  ARENA_HEADER_SIZE, REGION_HEADER_SIZE, Alignments, Sizes, Capacities, MaxRegions,
  SizeofHeader, Lengths, ItemSizes, Increments, MaxLength,
  NSEC, SUB, Wholes, Fractions, Seconds, MaxSec,
  SizeofWord, MaxBytes,
  Rows, MaxRows,
  ROW, Bytes, MaxBitmap,
  Address

VARIABLES
  part,
  regions, new_region_capacity, in_use,
  capacity, length, item_size, array_mapped, wrote,
  ts, exact,
  start, end, left, at, nbytes, cleared,
  memory, offset, remainder, row, prev_row, num_rows, num_same_rows, out, pc,
  data, i, column, prev_row_same_char, prev_row_char, skipping, lines,
  structure, ringbufs, ringbuf, lock, more, less, events, undestroyed, refused,
  wrong, srb_pc

arena == <<regions, new_region_capacity, in_use>>
mmarray == <<capacity, length, item_size, array_mapped, wrote>>
timespec == <<ts, exact>>
cleanse == <<start, end, left, at, nbytes, cleared>>
dump_hex == <<memory, offset, remainder, row, prev_row, num_rows, num_same_rows, out, pc>>
dump_bitmap == <<data, i, column, prev_row_same_char, prev_row_char, skipping, lines>>
srb == <<structure, ringbufs, ringbuf, lock, more, less, events, undestroyed, refused,
         wrong, srb_pc>>

alone_vars == <<part, arena, mmarray, timespec, cleanse, dump_hex, dump_bitmap, srb>>

Arena == INSTANCE Arena WITH blocks <- in_use
Array == INSTANCE MmArray WITH page_size <- sys_page_size, mapped <- array_mapped
Time == INSTANCE Timespec
Cleanse == INSTANCE Cleanse WITH length <- left
Hex == INSTANCE DumpHex WITH i <- row
Stars == INSTANCE DumpBitmap WITH MaxSize <- MaxBitmap, out <- lines
Srb == INSTANCE SrbLifecycle WITH NULL <- nullptr, pages <- ringbufs, data <- ringbuf,
         left <- undestroyed, pc <- srb_pc

ASSUME StandAloneAssumption ==
  /\ Arena!ArenaAssumption /\ Array!ArrayAssumption /\ Time!TimespecAssumption
  /\ Cleanse!CleanseAssumption /\ Hex!DumpHexAssumption
  /\ Stars!DumpBitmapAssumption /\ Srb!LifecycleAssumption

AloneNames == {"arena", "mmarray", "timespec", "cleanse", "dump_hex", "dump_bitmap", "srb"}

-----------------------------------------------------------------------------
Unused == "unused"

AloneInit ==
  /\ Arena!Init
  /\ IF part = "mmarray" THEN Array!Init
     ELSE /\ capacity = Unused /\ length = Unused /\ item_size = Unused
          /\ array_mapped = Unused /\ wrote = Unused
  /\ IF part = "timespec" THEN Time!Init ELSE ts = Unused /\ exact = Unused
  /\ IF part = "cleanse" THEN Cleanse!Init
     ELSE /\ start = Unused /\ end = Unused /\ left = Unused
          /\ at = Unused /\ nbytes = Unused /\ cleared = Unused
  /\ IF part = "dump_hex" THEN Hex!Init
     ELSE /\ memory = Unused /\ offset = Unused /\ remainder = Unused /\ row = Unused
          /\ prev_row = Unused /\ num_rows = Unused /\ num_same_rows = Unused
          /\ out = Unused /\ pc = Unused
  /\ IF part = "dump_bitmap" THEN Stars!Init
     ELSE /\ data = Unused /\ i = Unused /\ column = Unused /\ lines = Unused
          /\ prev_row_same_char = Unused /\ prev_row_char = Unused /\ skipping = Unused
  /\ Srb!Init

AloneNext ==
  /\ UNCHANGED part
  /\ IF part = "arena" THEN Arena!Next ELSE UNCHANGED arena
  /\ IF part = "mmarray" THEN Array!Next ELSE UNCHANGED mmarray
  /\ IF part = "timespec" THEN Time!Next ELSE UNCHANGED timespec
  /\ IF part = "cleanse" THEN Cleanse!Next ELSE UNCHANGED cleanse
  /\ IF part = "dump_hex" THEN Hex!Next ELSE UNCHANGED dump_hex
  /\ IF part = "dump_bitmap" THEN Stars!Next ELSE UNCHANGED dump_bitmap
  /\ IF part = "srb" THEN Srb!Next ELSE UNCHANGED srb

AloneSpec == AloneInit /\ [][AloneNext]_alone_vars

-----------------------------------------------------------------------------
(* What the modules claim, of the behaviours of their part.                *)

(* _arena_alloc and _arena_fit: blocks are apart, aligned and mapped, and  *)
(* delete_arena unmaps what was mapped.                                    *)
RegionsSound == part = "arena" => Arena!BlocksApart /\ Arena!DeletesWhole

(* A region made for a block takes the block.                              *)
NewRegionServes == Arena!NewRegionServes

(* mmarray_grow and mmarray_append_item: the array stays in its mapping,   *)
(* whose size mremap is told, and an item is written behind the others.    *)
ItemsKept ==
  part = "mmarray" => Array!ItemsMapped /\ Array!OldSizeExact /\ Array!AppendsAtEnd

(* timespec_add is exact to the nanosecond, timespec_sub altogether, and   *)
(* both keep tv_nsec below a second.                                       *)
TimeRight == part = "timespec" => Time!Normalised /\ Time!TimeExact

(* cleanse writes its range and nothing outside of it, by words where      *)
(* words are aligned.                                                      *)
ClearsRange == part = "cleanse" => Cleanse!ClearsInside /\ Cleanse!ClearsAll

(* _dump_hex hides no row, and counts the rows it leaves out.              *)
RowsTold == part = "dump_hex" => Hex!RowsShown /\ Hex!GapsExact

(* dump_bitmap can be read back, to its end.                               *)
StarsTold == part = "dump_bitmap" => Stars!ReadsBack /\ Stars!EndShown

(* Making and undoing a synchronised ring buffer undoes nothing twice, and *)
(* leaves all of its memory or none.  A mutex or a condition variable is   *)
(* left initialised only once an event could not be made.                  *)
MadeOrUndone ==
  part = "srb" => Srb!UndoneOnce /\ Srb!AllOrNothing /\ Srb!LeavesOnRefusal
=============================================================================
