----------------------------- MODULE PetBitmap ------------------------------
(***************************************************************************)
(* The bitmap sub-allocator of the pet allocator                           *)
(* (src/src/allocator_pet.c): threads that allocate, release and resize    *)
(* blocks of a few units on pages they hand to each other through lru_page *)
(* and the superblock.                                                     *)
(*                                                                         *)
(* One action is one stretch of code between two points where another      *)
(* thread can interfere: a section under the mutex `lock`, or a stretch of *)
(* unlocked work on a page the thread has taken out of the lists.  Nothing *)
(* in the model keeps other threads off such a page: that no one touches   *)
(* it is a property (PagesExclusive), not an assumption.                   *)
(***************************************************************************)
EXTENDS PageLists

CONSTANT Thread

VARIABLES
  mapped,            \* the bitmap pages that are mapped
  bitmap,            \* the bitmap of each page
  links,             \* lru_page, superblock and the header's list pointers
  held,              \* the blocks in the hands of clients
  pc,                \* where each thread is
  call,              \* the call it executes: operation, block, num_units
  new,               \* the block it has allocated and not yet returned
  page,              \* bm_page: the page it has taken out of the lists, and
                     \*   then page_to_reclaim of unhand_page
  offset,            \* the free block find_free_block found on it
  fresh,             \* bm_allocate has mapped a new page
  blocks_allocated,  \* stats.blocks_allocated
  num_bm_pages

vars == <<mapped, bitmap, links, held, pc, call, new, page, offset, fresh,
          blocks_allocated, num_bm_pages>>

pages  == <<mapped, bitmap, links>>
counts == <<blocks_allocated, num_bm_pages>>

(***************************************************************************)
(* Blocks.  A client may ask for any size the interface functions pass on  *)
(* to the sub-allocator.                                                   *)
(***************************************************************************)
NumUnits == 1 .. (max_data_units - 1)

Block ==
  {b \in [page : Page, off : DataUnit, len : NumUnits] :
     b.off + b.len <= units_per_page}
NoBlock == [page |-> NULL, off |-> 0, len |-> 0]

block(p, o, n) == [page |-> p, off |-> o, len |-> n]
Units(b) == Run(b.off, b.len)

NoCall == [op |-> "none", blk |-> NoBlock, n |-> 0]

Init ==
  /\ mapped = {}
  /\ bitmap = [p \in Page |-> {}]
  /\ links = NoPages
  /\ held = {}
  /\ pc = [t \in Thread |-> "idle"]
  /\ call = [t \in Thread |-> NoCall]
  /\ new = [t \in Thread |-> NoBlock]
  /\ page = [t \in Thread |-> NULL]
  /\ offset = [t \in Thread |-> 0]
  /\ fresh = [t \in Thread |-> FALSE]
  /\ blocks_allocated = 0
  /\ num_bm_pages = 0

Goto(t, label) == pc' = [pc EXCEPT ![t] = label]

-----------------------------------------------------------------------------
(* Calls of a client.  It names a block it holds, which no other client    *)
(* uses from then on, and the block's true length.                         *)

CallAllocate(t, n) ==
  /\ pc[t] = "idle"
  /\ call' = [call EXCEPT ![t] = [op |-> "allocate", blk |-> NoBlock, n |-> n]]
  /\ Goto(t, "find")
  /\ UNCHANGED <<pages, held, new, page, offset, fresh, counts>>

CallRelease(t, b) ==
  /\ pc[t] = "idle"
  /\ b \in held
  /\ held' = held \ {b}
  /\ call' = [call EXCEPT ![t] = [op |-> "release", blk |-> b, n |-> 0]]
  /\ Goto(t, "grab")
  /\ UNCHANGED <<pages, new, page, offset, fresh, counts>>

(* _reallocate between two sizes of the sub-allocator. *)
CallReallocate(t, b, n) ==
  /\ pc[t] = "idle"
  /\ b \in held
  /\ n # b.len
  /\ held' = held \ {b}
  /\ call' = [call EXCEPT ![t] =
                [op |-> IF n < b.len THEN "shrink" ELSE "grow",
                 blk |-> b, n |-> n]]
  /\ Goto(t, "grab")
  /\ UNCHANGED <<pages, new, page, offset, fresh, counts>>

-----------------------------------------------------------------------------
(* find_available_page *)

(* A mutant: the LRU page is read, and stays on its list. *)
TakeLruShared(t) ==
  /\ pc[t] = "find"
  /\ links.head[LRU] # NULL
  /\ page' = [page EXCEPT ![t] = links.head[LRU]]
  /\ Goto(t, "scan_lru")
  /\ UNCHANGED <<mapped, bitmap, links, held, call, new, offset, fresh, counts>>

(* Under the lock: take the LRU page. *)
TakeLru(t) ==
  /\ pc[t] = "find"
  /\ links.head[LRU] # NULL
  /\ page' = [page EXCEPT ![t] = links.head[LRU]]
  /\ links' = delete_from_list(links, links.head[LRU])
  /\ Goto(t, "scan_lru")
  /\ UNCHANGED <<mapped, bitmap, held, call, new, offset, fresh, counts>>

ScanLru(t) ==
  LET o == find_free_block(bitmap[page[t]], call[t].n)
  IN  /\ pc[t] = "scan_lru"
      /\ offset' = [offset EXCEPT ![t] = o]
      /\ Goto(t, IF o # 0 THEN "set" ELSE "put_back")
      /\ UNCHANGED <<pages, held, call, new, page, fresh, counts>>

(* A mutant: the entry of the next larger length. *)
PutBackOneUp(t) ==
  /\ pc[t] = "put_back"
  /\ links' = add_to_list(links, find_longest_free_block(bitmap[page[t]]) + 1, page[t])
  /\ page' = [page EXCEPT ![t] = NULL]
  /\ Goto(t, "search")
  /\ UNCHANGED <<mapped, bitmap, held, call, new, offset, fresh, counts>>

(* The LRU page has no room: add_to_superblock_entry. *)
PutBack(t) ==
  /\ pc[t] = "put_back"
  /\ links' = add_to_list(links, find_longest_free_block(bitmap[page[t]]), page[t])
  /\ page' = [page EXCEPT ![t] = NULL]
  /\ Goto(t, "search")
  /\ UNCHANGED <<mapped, bitmap, held, call, new, offset, fresh, counts>>

(* The superblock is searched in the lock section that found no LRU page,  *)
(* or in a second one after the LRU page was put back.                     *)
Searching(t) == pc[t] = "search" \/ (pc[t] = "find" /\ links.head[LRU] = NULL)

Candidates(t) == {l \in call[t].n .. max_data_units : links.head[l] # NULL}

TakeFromSuperblock(t) ==
  /\ Searching(t)
  /\ Candidates(t) # {}
  /\ LET p == links.head[Min(Candidates(t))]
     IN  /\ page' = [page EXCEPT ![t] = p]
         /\ links' = delete_from_list(links, p)
  /\ Goto(t, "scan_superblock")
  /\ UNCHANGED <<mapped, bitmap, held, call, new, offset, fresh, counts>>

SuperblockMiss(t) ==
  /\ Searching(t)
  /\ Candidates(t) = {}
  /\ Goto(t, "map")
  /\ UNCHANGED <<pages, held, call, new, page, offset, fresh, counts>>

(* A superblock page must have room; if not, the program aborts. *)
ScanSuperblock(t) ==
  LET o == find_free_block(bitmap[page[t]], call[t].n)
  IN  /\ pc[t] = "scan_superblock"
      /\ offset' = [offset EXCEPT ![t] = o]
      /\ Goto(t, IF o # 0 THEN "set" ELSE "abort")
      /\ UNCHANGED <<pages, held, call, new, page, fresh, counts>>

-----------------------------------------------------------------------------
(* bm_allocate *)

SetBits(t) ==
  LET p == page[t]
      b == block(p, offset[t], call[t].n)
  IN  /\ pc[t] = "set"
      /\ bitmap' = [bitmap EXCEPT ![p] = set_bits(@, b.off, b.len)]
      /\ new' = [new EXCEPT ![t] = b]
      /\ offset' = [offset EXCEPT ![t] = 0]
      /\ Goto(t, "unhand")
      /\ UNCHANGED <<mapped, links, held, call, page, fresh, counts>>

(* mmap returns a frame that is not mapped; the bitmap is cleared and the  *)
(* header's and the block's units are set.                                 *)
MapPage(t, p) ==
  LET b == block(p, bm_page_header_size_in_units, call[t].n)
  IN  /\ pc[t] = "map"
      /\ p \notin mapped
      /\ mapped' = mapped \cup {p}
      /\ bitmap' = [bitmap EXCEPT ![p] =
                      set_bits({}, 0, bm_page_header_size_in_units + b.len)]
      /\ new' = [new EXCEPT ![t] = b]
      /\ page' = [page EXCEPT ![t] = p]
      /\ fresh' = [fresh EXCEPT ![t] = TRUE]
      /\ Goto(t, "unhand")
      /\ UNCHANGED <<links, held, call, offset, counts>>

-----------------------------------------------------------------------------
(* unhand_page: under the lock, the thread's page becomes the LRU page.    *)
(* The LRU page of before moves to the superblock, or is reclaimed when    *)
(* all its data units are free.                                            *)

Unhand(t) ==
  /\ pc[t] = "unhand"
  /\ links.head[LRU] = NULL
  /\ links' = set_lru(links, page[t])
  /\ page' = [page EXCEPT ![t] = NULL]
  /\ Goto(t, "return")
  /\ UNCHANGED <<mapped, bitmap, held, call, new, offset, fresh, counts>>

UnhandToSuperblock(t) ==
  LET prior == links.head[LRU]
      lfb   == find_longest_free_block(bitmap[prior])
  IN  /\ pc[t] = "unhand"
      /\ prior # NULL
      /\ lfb < max_data_units
      /\ links' = set_lru(add_to_list(links, lfb, prior), page[t])
      /\ page' = [page EXCEPT ![t] = NULL]
      /\ Goto(t, "return")
      /\ UNCHANGED <<mapped, bitmap, held, call, new, offset, fresh, counts>>

(* A mutant: a page with one unit in use is reclaimed. *)
UnhandAndReclaimEarly(t) ==
  LET prior == links.head[LRU]
  IN  /\ pc[t] = "unhand"
      /\ prior # NULL
      /\ find_longest_free_block(bitmap[prior]) >= max_data_units - 1
      /\ links' = set_lru(links, page[t])
      /\ page' = [page EXCEPT ![t] = prior]
      /\ Goto(t, "munmap")
      /\ UNCHANGED <<mapped, bitmap, held, call, new, offset, fresh, counts>>

UnhandAndReclaim(t) ==
  LET prior == links.head[LRU]
  IN  /\ pc[t] = "unhand"
      /\ prior # NULL
      /\ find_longest_free_block(bitmap[prior]) >= max_data_units
      /\ links' = set_lru(links, page[t])
      /\ page' = [page EXCEPT ![t] = prior]
      /\ Goto(t, "munmap")
      /\ UNCHANGED <<mapped, bitmap, held, call, new, offset, fresh, counts>>

Munmap(t) ==
  LET p == page[t]
  IN  /\ pc[t] = "munmap"
      /\ mapped' = mapped \ {p}
      /\ bitmap' = [bitmap EXCEPT ![p] = {}]
      /\ links' = forget(links, p)
      /\ page' = [page EXCEPT ![t] = NULL]
      /\ num_bm_pages' = num_bm_pages - 1
      /\ Goto(t, "return")
      /\ UNCHANGED <<held, call, new, offset, fresh, blocks_allocated>>

-----------------------------------------------------------------------------
(* bm_release, bm_shrink and bm_grow *)

(* grab_page: spin until the page of the block is on a list, then take it. *)
Grab(t) ==
  LET p == call[t].blk.page
  IN  /\ pc[t] = "grab"
      /\ links.list[p] # NULL
      /\ page' = [page EXCEPT ![t] = p]
      /\ links' = delete_from_list(links, p)
      /\ Goto(t, "update")
      /\ UNCHANGED <<mapped, bitmap, held, call, new, offset, fresh, counts>>

ClearBlock(t) ==
  LET b == call[t].blk
  IN  /\ pc[t] = "update"
      /\ call[t].op \in {"release", "move"}
      /\ bitmap' = [bitmap EXCEPT ![page[t]] = clear_bits(@, b.off, b.len)]
      /\ call' = [call EXCEPT ![t].blk = NoBlock]
      /\ Goto(t, "unhand")
      /\ UNCHANGED <<mapped, links, held, new, page, offset, fresh, counts>>

(* A mutant: the last unit of the tail stays set. *)
ClearTailShort(t) ==
  LET b == call[t].blk
      n == call[t].n
  IN  /\ pc[t] = "update"
      /\ call[t].op = "shrink"
      /\ bitmap' = [bitmap EXCEPT ![page[t]] = clear_bits(@, b.off + n, b.len - n - 1)]
      /\ call' = [call EXCEPT ![t].blk.len = n]
      /\ Goto(t, "unhand")
      /\ UNCHANGED <<mapped, links, held, new, page, offset, fresh, counts>>

ClearTail(t) ==
  LET b == call[t].blk
      n == call[t].n
  IN  /\ pc[t] = "update"
      /\ call[t].op = "shrink"
      /\ bitmap' = [bitmap EXCEPT ![page[t]] = clear_bits(@, b.off + n, b.len - n)]
      /\ call' = [call EXCEPT ![t].blk.len = n]
      /\ Goto(t, "unhand")
      /\ UNCHANGED <<mapped, links, held, new, page, offset, fresh, counts>>

HasRoom(t) ==
  LET b == call[t].blk
  IN  count_zero_bits(bitmap[page[t]], b.off + b.len) >= call[t].n - b.len

GrowInPlace(t) ==
  LET b == call[t].blk
      n == call[t].n
  IN  /\ pc[t] = "update"
      /\ call[t].op = "grow"
      /\ HasRoom(t)
      /\ bitmap' = [bitmap EXCEPT ![page[t]] = set_bits(@, b.off + b.len, n - b.len)]
      /\ call' = [call EXCEPT ![t].blk.len = n]
      /\ Goto(t, "unhand")
      /\ UNCHANGED <<mapped, links, held, new, page, offset, fresh, counts>>

(* A mutant: the early return skips unhand_page. *)
GrowBlockedKeepsPage(t) ==
  /\ pc[t] = "update"
  /\ call[t].op = "grow"
  /\ ~HasRoom(t)
  /\ Goto(t, "return")
  /\ UNCHANGED <<pages, held, call, new, page, offset, fresh, counts>>

GrowBlocked(t) ==
  /\ pc[t] = "update"
  /\ call[t].op = "grow"
  /\ ~HasRoom(t)
  /\ Goto(t, "unhand")
  /\ UNCHANGED <<pages, held, call, new, page, offset, fresh, counts>>

-----------------------------------------------------------------------------
(* What follows unhand_page, and the return to the client, who gets the    *)
(* block it passed and the one allocated, as far as there are any.         *)

Finish(t) ==
  /\ held' = held \cup ({call[t].blk, new[t]} \ {NoBlock})
  /\ call' = [call EXCEPT ![t] = NoCall]
  /\ new' = [new EXCEPT ![t] = NoBlock]
  /\ fresh' = [fresh EXCEPT ![t] = FALSE]
  /\ Goto(t, "idle")
  /\ UNCHANGED <<pages, page, offset>>

(* A mutant: only the first page is counted. *)
CountBlockOnly(t) ==
  /\ blocks_allocated' = blocks_allocated + 1
  /\ num_bm_pages' = num_bm_pages + IF fresh[t] /\ num_bm_pages = 0 THEN 1 ELSE 0

(* The counters of bm_allocate. *)
CountBlock(t) ==
  /\ blocks_allocated' = blocks_allocated + 1
  /\ num_bm_pages' = num_bm_pages + IF fresh[t] THEN 1 ELSE 0

ReturnAllocated(t) ==
  /\ pc[t] = "return"
  /\ call[t].op = "allocate"
  /\ CountBlock(t)
  /\ Finish(t)

(* mmap fails: bm_allocate returns nullptr, and so does _allocate; a       *)
(* _reallocate that had to move its block returns false and leaves it.     *)
MapFails(t) ==
  /\ pc[t] = "map"
  /\ Finish(t)
  /\ UNCHANGED counts

ReturnReleased(t) ==
  /\ pc[t] = "return"
  /\ call[t].op = "release" \/ (call[t].op = "move" /\ call[t].blk = NoBlock)
  /\ blocks_allocated' = blocks_allocated - 1
  /\ Finish(t)
  /\ UNCHANGED num_bm_pages

ReturnResized(t) ==
  /\ pc[t] = "return"
  /\ call[t].op \in {"shrink", "grow"}
  /\ call[t].blk.len = call[t].n
  /\ Finish(t)
  /\ UNCHANGED counts

(* bm_grow returned false: _reallocate allocates a new block, *)
StartMove(t) ==
  /\ pc[t] = "return"
  /\ call[t].op = "grow"
  /\ call[t].blk.len # call[t].n
  /\ call' = [call EXCEPT ![t].op = "move"]
  /\ Goto(t, "find")
  /\ UNCHANGED <<pages, held, new, page, offset, fresh, counts>>

(* copies the data and releases the old block. *)
ReleaseMoved(t) ==
  /\ pc[t] = "return"
  /\ call[t].op = "move"
  /\ call[t].blk # NoBlock
  /\ CountBlock(t)
  /\ fresh' = [fresh EXCEPT ![t] = FALSE]
  /\ Goto(t, "grab")
  /\ UNCHANGED <<pages, held, call, new, page, offset>>

-----------------------------------------------------------------------------
Call(t) ==
  \/ \E n \in NumUnits : CallAllocate(t, n)
  \/ \E b \in held : CallRelease(t, b)
  \/ \E b \in held, n \in NumUnits : CallReallocate(t, b, n)

Step(t) ==
  \/ TakeLru(t) \/ ScanLru(t) \/ PutBack(t)
  \/ TakeFromSuperblock(t) \/ SuperblockMiss(t) \/ ScanSuperblock(t)
  \/ SetBits(t) \/ (\E p \in Page : MapPage(t, p)) \/ MapFails(t)
  \/ Unhand(t) \/ UnhandToSuperblock(t) \/ UnhandAndReclaim(t) \/ Munmap(t)
  \/ Grab(t) \/ ClearBlock(t) \/ ClearTail(t) \/ GrowInPlace(t) \/ GrowBlocked(t)
  \/ ReturnAllocated(t) \/ ReturnReleased(t) \/ ReturnResized(t)
  \/ StartMove(t) \/ ReleaseMoved(t)

Next == \E t \in Thread : Call(t) \/ Step(t)

Spec == Init /\ [][Next]_vars

-----------------------------------------------------------------------------
(* The blocks thread t is responsible for, and all blocks there are. *)
Claimed(t) == {call[t].blk, new[t]} \ {NoBlock}
allocated  == held \cup UNION {Claimed(t) : t \in Thread}

Labels == {"idle", "find", "scan_lru", "put_back", "search", "scan_superblock",
           "abort", "set", "map", "unhand", "munmap", "grab", "update", "return"}

Operation == {"none", "allocate", "release", "shrink", "grow", "move"}

TypeOK ==
  /\ mapped \in SUBSET Page
  /\ bitmap \in [Page -> SUBSET Unit]
  /\ links \in Links
  /\ held \in SUBSET Block
  /\ pc \in [Thread -> Labels]
  /\ call \in [Thread -> [op : Operation, blk : Block \cup {NoBlock},
                          n : NumUnits \cup {0}]]
  /\ new \in [Thread -> Block \cup {NoBlock}]
  /\ page \in [Thread -> Page \cup {NULL}]
  /\ offset \in [Thread -> DataUnit \cup {0}]
  /\ fresh \in [Thread -> BOOLEAN]
  /\ blocks_allocated \in Int
  /\ num_bm_pages \in Int

(* The page a thread has taken out of the lists (find_available_page:      *)
(* "only current thread continue working with it") is in no other thread's *)
(* hands and on no list, and stays mapped.                                 *)
PagesExclusive ==
  \A t \in Thread : page[t] # NULL =>
    /\ page[t] \in mapped
    /\ pc[t] # "munmap" => links.list[page[t]] = NULL
    /\ \A u \in Thread \ {t} : page[u] # page[t]

Overlap(b, c) == b.page = c.page /\ Units(b) \cap Units(c) # {}

(* No unit belongs to two blocks, and no block to two owners: clients, or  *)
(* threads in the middle of allocating, resizing or releasing it.          *)
BlocksDisjoint ==
  /\ \A b, c \in allocated : b # c => ~Overlap(b, c)
  /\ \A t \in Thread :
       /\ Claimed(t) \cap held = {}
       /\ call[t].blk = new[t] => new[t] = NoBlock
       /\ \A u \in Thread \ {t} : Claimed(t) \cap Claimed(u) = {}

(* A page is not given back to the system while a block lies on it, even   *)
(* one a thread is waiting in grab_page to release.                        *)
BlocksMapped ==
  \A b \in allocated : b.page \in mapped

(* The bits set on a page are its header's and its blocks': no call leaks  *)
(* a unit, and none frees a unit of another block.                         *)
BitmapExact ==
  \A p \in mapped :
    bitmap[p] = HeaderUnits \cup
                  UNION {Units(b) : b \in {c \in allocated : c.page = p}}

(* Every page on a superblock list is there under its longest free block,  *)
(* and a wholly free page never is.                                        *)
SuperblockClassified ==
  /\ \A p \in Page : links.list[p] \notin {NULL, LRU} =>
       links.list[p] = find_longest_free_block(bitmap[p])
  /\ links.head[max_data_units] = NULL

(* The abort() of find_available_page is never reached. *)
NoAbort == \A t \in Thread : pc[t] # "abort"

(* add_to_list and delete_from_list follow only pointers to mapped pages:  *)
(* the page at a list's head agrees with its neighbours, and a page that   *)
(* does not has next = prev, which delete_from_list does not follow.       *)
LinksSafe ==
  /\ HeadsListed(links)
  /\ \A p \in Page : links.list[p] # NULL =>
       /\ p \in mapped
       /\ WellLinked(links, p) \/ links.next[p] = links.prev[p]

(* The unsigned counters never wrap below zero, although a page is counted *)
(* only after other threads can reach it, and when no call is in progress  *)
(* they are exact.                                                         *)
CountsSettle ==
  /\ blocks_allocated >= 0 /\ num_bm_pages >= 0
  /\ (\A t \in Thread : pc[t] = "idle") =>
       /\ blocks_allocated = Cardinality(held)
       /\ num_bm_pages = Cardinality(mapped)

(* The code's claim about the superblock, that it groups the pages by      *)
(* their longest free block, and about delete_from_list, that it deletes   *)
(* one page from a list: a page whose header names a list is on that list. *)
NoPageLost ==
  \A p \in mapped :
    links.list[p] = NULL \/ p \in Reachable(links, links.list[p])
      \/ \E t \in Thread : pc[t] = "munmap" /\ page[t] = p

-----------------------------------------------------------------------------
(* The allocator keeps what BlockStore promises.  A block takes its cells  *)
(* when its bits are set and gives them up when they are cleared.          *)
Cells(b) == {b.page} \X Units(b)

Store == INSTANCE BlockStore WITH
           Extent <- {Cells(b) : b \in Block},
           blocks <- {Cells(b) : b \in allocated}

ImplementsBlockStore == Store!Spec
=============================================================================
