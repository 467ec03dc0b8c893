-------------------------------- MODULE Parts -------------------------------
(***************************************************************************)
(* All the parts that stand alone: those of StandAlone, the fixed-size     *)
(* block arena, the scans of bitmaps by words, and the geometry of an      *)
(* arena's page, which needs bitwise operations.  `part' is the one that   *)
(* this behaviour is of.                                                   *)
(***************************************************************************)
EXTENDS FsbArena, WordBitmap, StandAlone, TLC

VARIABLES
  alignment, block_size, bitmap_size, blocks, state

fsb_geometry == <<alignment, block_size, bitmap_size, blocks, state>>

all_vars == <<alone_vars, vars, scans_vars, fsb_geometry>>

Geometry == INSTANCE FsbGeometry WITH
  UNSIGNED <- 65536, sys_page_size <- 4096, SizeofHeader <- 32, SizeofWord <- 8,
  WORD_WIDTH <- 64, Alignment <- {1, 2, 4, 8, 16}, MaxSize <- 4064,
  blocks_per_page <- blocks

ASSUME PartsAssumption == Geometry!GeometryAssumption

Names == AloneNames \cup {"fsb arena", "bitmap scans", "fsb geometry"}

-----------------------------------------------------------------------------
PartsInit ==
  /\ part \in Names
  /\ AloneInit
  /\ Init
  /\ ScansInit
  /\ IF part = "fsb geometry" THEN Geometry!Init
     ELSE /\ alignment = Unused /\ block_size = Unused /\ bitmap_size = Unused
          /\ blocks = Unused /\ state = Unused

PartsNext ==
  /\ AloneNext
  /\ IF part = "fsb arena" THEN Next ELSE UNCHANGED vars
  /\ IF part = "bitmap scans" THEN ScansNext ELSE UNCHANGED scans_vars
  /\ IF part = "fsb geometry" THEN Geometry!Next ELSE UNCHANGED fsb_geometry

PartsSpec == PartsInit /\ [][PartsNext]_all_vars

Symmetry == Permutations(Page)

-----------------------------------------------------------------------------
(* What the modules claim, of the behaviours of their part.                *)

(* _init_fsb_arena: header, bitmap and blocks fit the page, every block    *)
(* has a bit, and all are aligned for their type.                          *)
PageDivided ==
  part = "fsb geometry" =>
    Geometry!BlocksFit /\ Geometry!BlocksHaveBits /\ Geometry!BlocksAligned
=============================================================================
