----------------------------- MODULE PageLists ------------------------------
(***************************************************************************)
(* The circular doubly-linked page lists of the pet allocator              *)
(* (src/src/allocator_pet.c): lru_page and the entries of the superblock.  *)
(*                                                                         *)
(* A value L of Links holds every pointer of those lists: L.head is the    *)
(* variable lru_page (list LRU) or the superblock entry of an index, and   *)
(* L.list, L.next and L.prev are the fields of each page's header.         *)
(***************************************************************************)
EXTENDS PageBitmap

CONSTANTS
  Page,  \* the page frames mmap can return
  NULL,  \* nullptr
  LRU    \* the list whose head is lru_page

ASSUME ListsAssumption ==
  /\ NULL \notin Page
  /\ NULL \notin Int
  /\ LRU \notin Int
  /\ NULL # LRU

(* The other lists are the superblock entries that can be in use, one per  *)
(* length of a longest free block.                                         *)
ListId == (0 .. max_data_units) \cup {LRU}

Links == [head : [ListId -> Page \cup {NULL}],
          list : [Page -> ListId \cup {NULL}],
          next : [Page -> Page \cup {NULL}],
          prev : [Page -> Page \cup {NULL}]]

NoPages == [head |-> [l \in ListId |-> NULL],
            list |-> [p \in Page |-> NULL],
            next |-> [p \in Page |-> NULL],
            prev |-> [p \in Page |-> NULL]]

(* Append page p to list l. *)
add_to_list(L, l, p) ==
  LET first == L.head[l]
      last  == L.prev[first]
  IN  IF first = NULL
      THEN [head |-> [L.head EXCEPT ![l] = p],
            list |-> [L.list EXCEPT ![p] = l],
            next |-> [L.next EXCEPT ![p] = p],
            prev |-> [L.prev EXCEPT ![p] = p]]
      ELSE [head |-> L.head,
            list |-> [L.list EXCEPT ![p] = l],
            next |-> [L.next EXCEPT ![p] = first, ![last] = p],
            prev |-> [L.prev EXCEPT ![p] = last, ![first] = p]]

(* A mutant: the next page keeps pointing back to p. *)
delete_from_list_one_way(L, p) ==
  LET l == L.list[p]
      n == L.next[p]
      r == L.prev[p]
  IN  IF n = r
      THEN [L EXCEPT !.head[l] = NULL, !.list[p] = NULL]
      ELSE [head |-> [L.head EXCEPT ![l] = IF @ = p THEN n ELSE @],
            list |-> [L.list EXCEPT ![p] = NULL],
            next |-> [L.next EXCEPT ![r] = n],
            prev |-> L.prev]

(* Take page p out of the list its header names.  `next = prev` is the     *)
(* code's test for the last page of a list; it also holds of either page   *)
(* of a list of two.                                                       *)
delete_from_list(L, p) ==
  LET l == L.list[p]
      n == L.next[p]
      r == L.prev[p]
  IN  IF n = r
      THEN [L EXCEPT !.head[l] = NULL, !.list[p] = NULL]
      ELSE [head |-> [L.head EXCEPT ![l] = IF @ = p THEN n ELSE @],
            list |-> [L.list EXCEPT ![p] = NULL],
            next |-> [L.next EXCEPT ![r] = n],
            prev |-> [L.prev EXCEPT ![n] = r]]

(* unhand_page: p becomes lru_page, whatever lru_page was before. *)
set_lru(L, p) ==
  [head |-> [L.head EXCEPT ![LRU] = p],
   list |-> [L.list EXCEPT ![p] = LRU],
   next |-> [L.next EXCEPT ![p] = p],
   prev |-> [L.prev EXCEPT ![p] = p]]

(* munmap: the page's header is gone with the page.  bm_allocate clears    *)
(* only the bitmap of a page it maps, so the links of a new page may be    *)
(* anything; nobody reads them until unhand_page has set them, because no  *)
(* block of the page is held before.                                       *)
forget(L, p) ==
  [L EXCEPT !.list[p] = NULL, !.next[p] = NULL, !.prev[p] = NULL]

-----------------------------------------------------------------------------
(* The pages of list l that a walk from its head along `next` meets. *)
Reachable(L, l) ==
  LET walk[i \in 0 .. Cardinality(Page)] ==
        IF i = 0 THEN L.head[l]
        ELSE IF walk[i - 1] = NULL THEN NULL ELSE L.next[walk[i - 1]]
  IN  {walk[i] : i \in DOMAIN walk} \ {NULL}

(* Page p and both its neighbours agree on each other and on the list. *)
WellLinked(L, p) ==
  /\ L.next[p] \in Page
  /\ L.prev[p] \in Page
  /\ L.list[L.next[p]] = L.list[p]
  /\ L.list[L.prev[p]] = L.list[p]
  /\ L.prev[L.next[p]] = p
  /\ L.next[L.prev[p]] = p

-----------------------------------------------------------------------------
(* What keeps the lists consistent although delete_from_list loses pages:  *)
(* a page whose neighbours disagree with it has been lost by its list, and *)
(* no page of a list that is still whole points to it.                     *)

HeadsListed(L) ==
  \A l \in ListId : L.head[l] # NULL =>
    L.list[L.head[l]] = l /\ WellLinked(L, L.head[l])

RingOrStale(L) ==
  \A p \in Page : L.list[p] # NULL => WellLinked(L, p) \/ L.next[p] = L.prev[p]

RingsClosed(L) ==
  \A p \in Page : L.list[p] # NULL /\ WellLinked(L, p) =>
    WellLinked(L, L.next[p]) /\ WellLinked(L, L.prev[p])

LruSingle(L) ==
  \A p \in Page : L.list[p] = LRU => L.next[p] = p /\ L.prev[p] = p

ListsOK(L) ==
  /\ L \in Links
  /\ HeadsListed(L)
  /\ RingOrStale(L)
  /\ RingsClosed(L)
  /\ LruSingle(L)
=============================================================================
