------------------------------ MODULE FsbArena ------------------------------
(***************************************************************************)
(* The arena of fixed-size blocks (src/src/fsb_arena.c).  A page has a     *)
(* header with a bitmap, a count of its free blocks and the links of the   *)
(* list it is on: avail_pages or full_pages.                               *)
(*                                                                         *)
(* The arena has no lock and one user.  What can interleave with its code  *)
(* is the callback of fsb_arena_walk, which may release the block it is    *)
(* called for.  A block is the pair of its page and its index.             *)
(*                                                                         *)
(* Following a null pointer, or one to a page that is not mapped, ends the *)
(* program: `outcome` says where.                                          *)
(***************************************************************************)
EXTENDS Integers, FiniteSetsExt

CONSTANTS
  Page,             \* the frames mmap can return
  NULL,
  blocks_per_page,
  bitmap_bits       \* bitmap_size * WORD_WIDTH

ASSUME FsbAssumption ==
  /\ NULL \notin Page
  /\ blocks_per_page \in Nat \ {0}
  /\ bitmap_bits \in Nat /\ bitmap_bits >= blocks_per_page

VARIABLES
  mapped,    \* the pages of the arena
  links,     \* the heads of both lists; next and prev of every page
  num_free,
  bitmap,    \* the bits set on each page
  held,      \* the blocks in the hands of the client
  walk,      \* the locals of fsb_arena_walk while it runs
  outcome

pages == <<mapped, links, num_free, bitmap, held>>
vars == <<pages, walk, outcome>>

Lists == {"avail_pages", "full_pages"}
Bit == 0 .. bitmap_bits - 1
NoWalk == [page |-> NULL]

Init ==
  /\ mapped = {} /\ held = {}
  /\ links = [head |-> [l \in Lists |-> NULL],
              next |-> [p \in Page |-> NULL], prev |-> [p \in Page |-> NULL]]
  /\ num_free = [p \in Page |-> 0]
  /\ bitmap = [p \in Page |-> {}]
  /\ walk = NoWalk
  /\ outcome = "running"

-----------------------------------------------------------------------------
(* Page lists. *)

(* The new page becomes the head. *)
add_to_list(L, l, p) ==
  LET first == L.head[l]
      last  == L.prev[first]
  IN  IF first = NULL
      THEN [L EXCEPT !.head[l] = p, !.next[p] = p, !.prev[p] = p]
      ELSE [L EXCEPT !.head[l] = p, !.next[p] = first, !.next[last] = p,
                     !.prev[p] = last, !.prev[first] = p]

(* A mutant: the head stays the page that leaves. *)
delete_from_list_keeps_head(L, l, p) ==
  LET n == L.next[p]
      r == L.prev[p]
  IN  IF n = r THEN [L EXCEPT !.head[l] = NULL]
      ELSE [L EXCEPT !.prev[n] = r, !.next[r] = n]

(* `next = prev` also holds of the pages of a list of two. *)
delete_from_list(L, l, p) ==
  LET n == L.next[p]
      r == L.prev[p]
  IN  IF n = r THEN [L EXCEPT !.head[l] = NULL]
      ELSE [L EXCEPT !.head[l] = IF @ = p THEN n ELSE @, !.prev[n] = r, !.next[r] = n]

(* The other pages whose headers these functions use. *)
Added(L, l) == IF L.head[l] = NULL THEN {} ELSE {L.head[l], L.prev[L.head[l]]}
Deleted(L, p) == IF L.next[p] = L.prev[p] THEN {} ELSE {L.next[p], L.prev[p]}

(* Take p out of list `from`, and put it on list `to`. *)
Move(L, p, from, to) ==
  LET without == delete_from_list(L, from, p)
  IN  IF Deleted(L, p) \cup Added(without, to) \subseteq mapped
      THEN /\ links' = add_to_list(without, to, p)
           /\ UNCHANGED outcome
      ELSE outcome' = "bad_link" /\ UNCHANGED links

-----------------------------------------------------------------------------
(* fsb_arena_allocate *)

(* A mutant leaves the full page where it is. *)
must_move_late(n) == n < 0
must_move(n) == n = 0

(* The lowest clear bit of page p, with list pointers L. *)
TakeBlock(L, p, bits, n) ==
  IF bits = Bit
  THEN outcome' = "abort" /\ UNCHANGED <<links, num_free, bitmap, held>>
  ELSE LET i == Min(Bit \ bits)
       IN  /\ bitmap' = [bitmap EXCEPT ![p] = bits \cup {i}]
           /\ num_free' = [num_free EXCEPT ![p] = n - 1]
           /\ held' = held \cup {<<p, i>>}
           /\ IF must_move(n - 1) THEN Move(L, p, "avail_pages", "full_pages")
                                  ELSE links' = L /\ UNCHANGED outcome

AllocateFromPage ==
  LET p == links.head["avail_pages"]
  IN  /\ p # NULL
      /\ TakeBlock(links, p, bitmap[p], num_free[p])
      /\ UNCHANGED mapped

(* Without a page mmap may return any frame that is free. *)
AllocateFromNewPage(p) ==
  /\ links.head["avail_pages"] = NULL
  /\ p \notin mapped
  /\ mapped' = mapped \cup {p}
  /\ TakeBlock(add_to_list(links, "avail_pages", p), p, {}, blocks_per_page)

-----------------------------------------------------------------------------
(* fsb_arena_release *)

entirely_free(n) == n = blocks_per_page

(* The bit of a block, from its offset in the page.  The mutant subtracts  *)
(* the header without its bitmap.                                          *)
index_from_fixed_header(b) == b[2] + 1
index(b) == b[2]

Release(b) ==
  LET p == b[1]
      n == num_free[p] + 1
      list == links.head["avail_pages"]
  IN  /\ b \in held
      /\ held' = held \ {b}
      /\ bitmap' = [bitmap EXCEPT ![p] = @ \ {index(b)}]
      /\ num_free' = [num_free EXCEPT ![p] = n]
      /\ \/ /\ entirely_free(n) /\ list = NULL
            /\ outcome' = "null_list"
            /\ UNCHANGED <<mapped, links>>
         \/ /\ entirely_free(n) /\ list # NULL
            /\ IF links.next[list] = links.prev[list]
                 THEN UNCHANGED <<mapped, links, outcome>>
               ELSE IF Deleted(links, p) \subseteq mapped
                 THEN /\ links' = delete_from_list(links, "avail_pages", p)
                      /\ mapped' = mapped \ {p}
                      /\ UNCHANGED outcome
               ELSE outcome' = "bad_link" /\ UNCHANGED <<mapped, links>>
         \/ /\ ~entirely_free(n) /\ n = 1
            /\ Move(links, p, "full_pages", "avail_pages")
            /\ UNCHANGED mapped
         \/ /\ ~entirely_free(n) /\ n # 1
            /\ UNCHANGED <<mapped, links, outcome>>

-----------------------------------------------------------------------------
(* fsb_arena_walk: `todo` are the bits of the page that are left, `seen`   *)
(* the blocks the callback has been called for, and `releases` tells       *)
(* whether it has released one.                                            *)

WalkFrom(p, w) ==
  [w EXCEPT !.page = p, !.next = links.next[p], !.todo = bitmap[p]]

StartWalk ==
  LET p == links.head["avail_pages"]
  IN  /\ p # NULL
      /\ walk' = WalkFrom(p, [page |-> p, first |-> p, next |-> p, todo |-> {},
                              seen |-> {}, releases |-> FALSE])
      /\ UNCHANGED <<pages, outcome>>

(* The callback gets the next block, and releases it or not.  num_free is  *)
(* read before the call: with one block left the page is done.             *)
Visit(releases) ==
  LET b == <<walk.page, Min(walk.todo)>>
      last == num_free[walk.page] >= blocks_per_page - 1
  IN  /\ walk.todo # {}
      /\ IF releases THEN Release(b) ELSE UNCHANGED <<pages, outcome>>
      /\ walk' = [walk EXCEPT !.todo = IF last THEN {} ELSE @ \ {b[2]},
                              !.seen = @ \cup {b},
                              !.releases = @ \/ releases]

(* The mutant takes the list for one that ends with a null pointer.        *)
walk_ends_at_null(p) == p = NULL
walk_ends(p) == p = walk.first

NextPage ==
  /\ walk.todo = {}
  /\ IF walk_ends(walk.next) THEN walk' = NoWalk /\ UNCHANGED outcome
     ELSE IF walk.next \in mapped
       THEN walk' = WalkFrom(walk.next, walk) /\ UNCHANGED outcome
     ELSE outcome' = "bad_walk" /\ UNCHANGED walk
  /\ UNCHANGED pages

-----------------------------------------------------------------------------
(* destroy_fsb_arena goes once around a list of one page.  Its loop frees  *)
(* the page and never advances: with a second page it reads the first      *)
(* page's link after unmapping the page.                                   *)
Destroy ==
  LET heads == {links.head[l] : l \in Lists} \ {NULL}
  IN  /\ IF \A p \in heads : links.next[p] = p
           THEN /\ mapped' = mapped \ heads
                /\ outcome' = "destroyed"
           ELSE outcome' = "bad_destroy" /\ UNCHANGED mapped
      /\ UNCHANGED <<links, num_free, bitmap, held>>

-----------------------------------------------------------------------------
Call ==
  \/ AllocateFromPage \/ (\E p \in Page : AllocateFromNewPage(p))
  \/ \E b \in held : Release(b)
  \/ Destroy

Next ==
  /\ outcome = "running"
  /\ \/ walk = NoWalk /\ Call /\ UNCHANGED walk
     \/ walk = NoWalk /\ StartWalk
     \/ walk # NoWalk /\ \E releases \in BOOLEAN : Visit(releases)
     \/ walk # NoWalk /\ NextPage

Spec == Init /\ [][Next]_vars

-----------------------------------------------------------------------------
TypeOK ==
  /\ mapped \subseteq Page
  /\ links \in [head : [Lists -> Page \cup {NULL}],
                next : [Page -> Page \cup {NULL}], prev : [Page -> Page \cup {NULL}]]
  /\ num_free \in [Page -> 0 .. blocks_per_page]
  /\ bitmap \in [Page -> SUBSET (0 .. blocks_per_page - 1)]
  /\ held \subseteq Page \X (0 .. blocks_per_page - 1)

(* Every page counts and marks exactly the blocks that are in use on it,   *)
(* although pages drop out of their lists and frames are used again: no    *)
(* block is handed out twice.                                              *)
BooksExact ==
  \A p \in mapped :
    /\ bitmap[p] = {b[2] : b \in {c \in held : c[1] = p}}
    /\ num_free[p] = blocks_per_page - Cardinality(bitmap[p])

(* No page is unmapped under a block. *)
BlocksMapped == outcome # "destroyed" => \A b \in held : b[1] \in mapped

(* A page that fsb_arena_allocate would take has a free block, so that its *)
(* abort is unreachable and no index goes past the last block.             *)
AvailHasRoom ==
  outcome = "running" /\ links.head["avail_pages"] # NULL =>
    num_free[links.head["avail_pages"]] > 0

(* Every page counts and marks the blocks in use on it, and a page that is *)
(* next in line for fsb_arena_allocate has a free block.                   *)
BooksKept == TypeOK /\ BooksExact /\ AvailHasRoom

(* Although delete_from_list loses pages whose links are stale, no list    *)
(* operation and no walk, whatever its callback releases, follows a link   *)
(* to a page that is gone.                                                 *)
LinksSafe == outcome \notin {"bad_link", "bad_walk", "abort"}

(* A walk whose callback releases nothing comes to no block twice, although *)
(* lists that have lost pages, or run through full ones, lie beside it.     *)
VisitsOnce ==
  [][walk # NoWalk /\ walk' # NoWalk /\ ~walk'.releases /\ walk.todo # {}
       => <<walk.page, Min(walk.todo)>> \notin walk.seen]_vars
=============================================================================
