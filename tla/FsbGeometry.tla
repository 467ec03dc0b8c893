---------------------------- MODULE FsbGeometry -----------------------------
(***************************************************************************)
(* _init_fsb_arena (src/src/fsb_arena.c): how a page of fixed-size blocks  *)
(* is divided into a header, a bitmap and blocks.  A larger bitmap means a *)
(* larger header and fewer blocks, so its size is searched for, one word   *)
(* at a time.  The arithmetic is that of unsigned integers.                *)
(***************************************************************************)
EXTENDS Integers, Bitwise

CONSTANTS
  UNSIGNED,         \* 2 to the width of unsigned
  sys_page_size,
  SizeofHeader, SizeofWord, WORD_WIDTH,
  Alignment,        \* the alignments a type can have
  MaxSize           \* bound: the largest size of a type

GeometryAssumption ==
  /\ {UNSIGNED, sys_page_size, SizeofHeader, SizeofWord, WORD_WIDTH} \subseteq Nat \ {0}
  /\ SizeofHeader + SizeofWord <= sys_page_size /\ sys_page_size < UNSIGNED
  /\ MaxSize < UNSIGNED

VARIABLES
  alignment, block_size,
  bitmap_size,      \* in words
  blocks_per_page,
  state             \* "start", "search", "ready" or "refused"

vars == <<alignment, block_size, bitmap_size, blocks_per_page, state>>

(* Any a, not only a power of two.  The mutant masks with a itself.        *)
align_off_by_one(n, a) == ((n + a - 1) % UNSIGNED) & (UNSIGNED - 1 - a)
align_unsigned(n, a) == ((n + a - 1) % UNSIGNED) & (UNSIGNED - a)

header_size(words) == align_unsigned(SizeofHeader + SizeofWord * words, block_size)

room(words) == (sys_page_size - header_size(words)) % UNSIGNED

(* The size of a type is a multiple of its alignment. *)
Init ==
  /\ alignment \in Alignment
  /\ \E size \in {n \in 0 .. MaxSize : n % alignment = 0} :
       block_size = IF size < alignment THEN alignment ELSE size
  /\ bitmap_size = 0 /\ blocks_per_page = 0
  /\ state = "start"

CheckSize ==
  /\ state = "start"
  /\ state' = IF block_size > room(1) THEN "refused" ELSE "search"
  /\ UNCHANGED <<alignment, block_size, bitmap_size, blocks_per_page>>

too_many(n, words) == n > words * WORD_WIDTH

TryBitmap ==
  LET words  == bitmap_size + 1
      blocks == room(words) \div block_size
  IN  /\ state = "search"
      /\ bitmap_size' = words
      /\ blocks_per_page' = blocks
      /\ state' = IF too_many(blocks, words) THEN "search" ELSE "ready"
      /\ UNCHANGED <<alignment, block_size>>

Next == CheckSize \/ TryBitmap

Spec == Init /\ [][Next]_vars

-----------------------------------------------------------------------------
(* The header with its bitmap comes before the first block, and the last   *)
(* block ends inside the page: the comment on blocks_per_page in           *)
(* fsb_arena.h derives it from what the page has left.                     *)
BlocksFit ==
  state = "ready" =>
    /\ header_size(bitmap_size) >= SizeofHeader + SizeofWord * bitmap_size
    /\ header_size(bitmap_size) + blocks_per_page * block_size <= sys_page_size

(* Every block has a bit, and there is a block: fsb_arena_allocate counts  *)
(* num_free down from blocks_per_page without checking it.                 *)
BlocksHaveBits ==
  state = "ready" => blocks_per_page \in 1 .. bitmap_size * WORD_WIDTH

(* Although align_unsigned is meant for powers of two, with any other      *)
(* block size the first block, and so every block, has the alignment of    *)
(* the type.                                                               *)
BlocksAligned ==
  state = "ready" =>
    header_size(bitmap_size) % alignment = 0 /\ block_size % alignment = 0
=============================================================================
