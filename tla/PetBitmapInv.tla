---------------------------- MODULE PetBitmapInv ----------------------------
(***************************************************************************)
(* The inductive invariant of PetBitmap: the properties of that module,    *)
(* with what a thread at each point of its call knows and what keeps the   *)
(* lists consistent.                                                       *)
(***************************************************************************)
EXTENDS PetBitmap

(* What thread t's locals hold at each point of a call. *)
Allocating == {"find", "scan_lru", "put_back", "search", "scan_superblock",
               "set", "map"}
Holding    == {"scan_lru", "put_back", "scan_superblock", "set", "unhand",
               "munmap", "update"}

Free(p, o, n) == o + n <= units_per_page /\ Run(o, n) \cap bitmap[p] = {}

LocalsOK(t) ==
  /\ pc[t] # "abort"
  /\ page[t] # NULL <=> pc[t] \in Holding
  /\ pc[t] = "idle" => call[t] = NoCall /\ new[t] = NoBlock
  /\ pc[t] \in Allocating =>
       /\ call[t].op \in {"allocate", "move"}
       /\ call[t].op = "allocate" <=> call[t].blk = NoBlock
       /\ call[t].n \in NumUnits
       /\ new[t] = NoBlock
  /\ pc[t] = "set" => offset[t] \in DataUnit /\ Free(page[t], offset[t], call[t].n)
  /\ pc[t] = "scan_superblock" =>
       find_longest_free_block(bitmap[page[t]]) >= call[t].n
  /\ pc[t] = "put_back" =>
       find_longest_free_block(bitmap[page[t]]) < max_data_units
  /\ pc[t] \in {"grab", "update"} =>
       /\ call[t].op \in {"release", "shrink", "grow", "move"}
       /\ call[t].blk # NoBlock
       /\ call[t].op = "shrink" => call[t].n \in 1 .. (call[t].blk.len - 1)
       /\ call[t].op = "grow" => call[t].n \in NumUnits /\ call[t].n > call[t].blk.len
       /\ call[t].op # "move" => new[t] = NoBlock
  /\ pc[t] = "update" => page[t] = call[t].blk.page
  /\ pc[t] \in {"unhand", "munmap", "return"} =>
       /\ call[t].op = "allocate" => call[t].blk = NoBlock
       /\ call[t].op = "release" => call[t].blk = NoBlock /\ new[t] = NoBlock
       /\ call[t].op \in {"shrink", "grow"} =>
            /\ call[t].blk # NoBlock
            /\ call[t].n \in NumUnits
            /\ call[t].n >= call[t].blk.len
            /\ new[t] = NoBlock
       /\ call[t].op # "none"

(* Pages and who has them. *)
HandsOK ==
  /\ PagesExclusive
  /\ \A p \in Page : links.list[p] # NULL => p \in mapped
  /\ \A t \in Thread : pc[t] = "munmap" =>
       /\ links.list[page[t]] = LRU
       /\ links.head[LRU] # page[t]
       /\ \A b \in allocated : b.page # page[t]

(* Blocks and bitmaps. *)
BlocksOK ==
  /\ BlocksDisjoint
  /\ BlocksMapped
  /\ BitmapExact

IInv ==
  /\ TypeOK
  /\ ListsOK(links)
  /\ \A t \in Thread : LocalsOK(t)
  /\ HandsOK
  /\ BlocksOK
  /\ SuperblockClassified
=============================================================================
