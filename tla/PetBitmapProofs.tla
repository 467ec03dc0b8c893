--------------------------- MODULE PetBitmapProofs --------------------------
(***************************************************************************)
(* The inductive invariant of PetBitmap holds in every reachable state,    *)
(* for any number of threads and pages and any page size.  From it, what   *)
(* the sub-allocator gives its clients: it implements BlockStore, and its  *)
(* counters are exact between calls.                                       *)
(***************************************************************************)
EXTENDS PetBitmapInv, PageLemmas, FiniteSetTheorems

-----------------------------------------------------------------------------
(* Types. *)

(* A block lies on the data units of its page and is not empty. *)
LEMMA BlockFacts ==
  ASSUME NEW b \in Block
  PROVE  /\ b.page \in Page
         /\ b.off \in DataUnit
         /\ b.len \in NumUnits
         /\ b.off + b.len <= units_per_page
         /\ b # NoBlock
         /\ Units(b) \subseteq DataUnit
         /\ b.off \in Units(b)
<1>1. /\ b.page \in Page /\ b.off \in DataUnit /\ b.len \in NumUnits
      /\ b.off + b.len <= units_per_page
  BY DEF Block
<1>2. b # NoBlock BY <1>1, NullDistinct DEF NoBlock
<1>3. b.off \in Int /\ b.len \in Int /\ b.len >= 1 BY <1>1 DEF DataUnit, NumUnits
<1>4. Units(b) \subseteq DataUnit /\ b.off \in Units(b)
  BY <1>1, <1>3, Layout DEF Units, Run, DataUnit
<1> QED BY <1>1, <1>2, <1>4

LEMMA BlockMade ==
  ASSUME NEW p \in Page, NEW o \in DataUnit, NEW n \in NumUnits, o + n <= units_per_page
  PROVE  /\ block(p, o, n) \in Block
         /\ block(p, o, n).page = p /\ block(p, o, n).off = o /\ block(p, o, n).len = n
         /\ block(p, o, n) # NoBlock
<1>1. block(p, o, n) \in Block BY DEF block, Block
<1> QED BY <1>1, BlockFacts DEF block

LEMMA UnitArith ==
  /\ NumUnits \subseteq Nat /\ 0 \notin NumUnits
  /\ DataUnit \subseteq Nat /\ 0 \notin DataUnit
  /\ DataUnit \subseteq Unit
  /\ \A o \in DataUnit : o < units_per_page
BY Layout DEF NumUnits, DataUnit, Unit

(* A run and its two parts. *)
LEMMA RunSplit ==
  ASSUME NEW o \in Nat, NEW m \in Nat, NEW n \in Nat, m <= n
  PROVE  /\ Run(o, n) = Run(o, m) \cup Run(o + m, n - m)
         /\ Run(o, m) \cap Run(o + m, n - m) = {}
BY DEF Run

(* The blocks somebody has, and what it means to be one of them. *)
LEMMA AllocatedDef ==
  \A b : b \in allocated <=>
    \/ b \in held
    \/ \E t \in Thread : b # NoBlock /\ (b = call[t].blk \/ b = new[t])
BY DEF allocated, Claimed

LEMMA AllocatedType ==
  ASSUME TypeOK
  PROVE  allocated \subseteq Block
<1> SUFFICES ASSUME NEW b \in allocated PROVE b \in Block OBVIOUS
<1>1. CASE b \in held BY <1>1 DEF TypeOK
<1>2. CASE \E t \in Thread : b # NoBlock /\ (b = call[t].blk \/ b = new[t])
  BY <1>2 DEF TypeOK
<1> QED BY <1>1, <1>2, AllocatedDef

LEMMA CallType ==
  ASSUME TypeOK, NEW t \in Thread
  PROVE  /\ call[t] = [op |-> call[t].op, blk |-> call[t].blk, n |-> call[t].n]
         /\ call[t].op \in Operation
         /\ call[t].blk \in Block \cup {NoBlock}
         /\ call[t].n \in NumUnits \cup {0}
         /\ new[t] \in Block \cup {NoBlock}
         /\ page[t] \in Page \cup {NULL}
         /\ pc[t] \in Labels
BY DEF TypeOK

-----------------------------------------------------------------------------
(* What a step that does not touch them leaves as it was. *)

(* Thread u's locals keep their meaning when they, and the bitmap of the   *)
(* page u holds, do not change.                                            *)
LEMMA LocalsFrame ==
  ASSUME NEW u \in Thread, LocalsOK(u),
         pc'[u] = pc[u], call'[u] = call[u], new'[u] = new[u], page'[u] = page[u],
         offset'[u] = offset[u],
         page[u] # NULL => bitmap'[page[u]] = bitmap[page[u]]
  PROVE  LocalsOK(u)'
<1>1. pc[u] \in {"scan_superblock", "put_back", "set"} => page[u] # NULL
  BY DEF LocalsOK, Holding
<1> QED BY <1>1 DEF LocalsOK, Free

(* Blocks and bitmaps are as they were when no block changes hands. *)
LEMMA BlocksFrame ==
  ASSUME BlocksOK, UNCHANGED <<held, new, bitmap, mapped>>,
         \A u \in Thread : call'[u].blk = call[u].blk
  PROVE  BlocksOK' /\ allocated' = allocated
<1>1. \A u \in Thread : Claimed(u)' = Claimed(u) BY DEF Claimed
<1>2. allocated' = allocated BY <1>1 DEF allocated
<1> QED BY <1>1, <1>2 DEF BlocksOK, BlocksDisjoint, BlocksMapped, BitmapExact

(* When only owners change: the blocks are the same, and each has one.     *)
LEMMA OwnersFrame ==
  ASSUME BlocksOK, UNCHANGED <<bitmap, mapped>>, allocated' = allocated,
         \A u \in Thread :
           /\ Claimed(u)' \cap held' = {}
           /\ call'[u].blk = new'[u] => new'[u] = NoBlock
           /\ \A v \in Thread \ {u} : Claimed(u)' \cap Claimed(v)' = {}
  PROVE  BlocksOK'
BY DEF BlocksOK, BlocksDisjoint, BlocksMapped, BitmapExact

(* A page's classification is as it was when neither its list nor its      *)
(* bitmap changes.                                                         *)
LEMMA ClassifiedFrame ==
  ASSUME SuperblockClassified,
         \A p \in Page : links'.list[p] \notin {NULL, LRU} =>
           links'.list[p] = links.list[p] /\ bitmap'[p] = bitmap[p],
         links'.head[max_data_units] = NULL
  PROVE  SuperblockClassified'
BY DEF SuperblockClassified

-----------------------------------------------------------------------------
(* What taking a page off its list does to the lists. *)
LEMMA DeleteEffect ==
  ASSUME NEW L, ListsOK(L), NEW p \in Page, L.list[p] # NULL
  PROVE  /\ delete_from_list(L, p).list = [L.list EXCEPT ![p] = NULL]
         /\ \A k \in ListId : L.head[k] = NULL => delete_from_list(L, p).head[k] = NULL
         /\ delete_from_list(L, p).head[LRU] \in {NULL, L.head[LRU]}
<1> DEFINE M == delete_from_list(L, p)
<1>1. L \in Links /\ L.list[p] \in ListId BY DEF ListsOK, Links
<1>2. M.list = [L.list EXCEPT ![p] = NULL] BY <1>1 DEF delete_from_list, Links
<1>3. CASE L.next[p] = L.prev[p]
  <2>1. M.head = [L.head EXCEPT ![L.list[p]] = NULL]
    BY <1>1, <1>3 DEF delete_from_list, Links
  <2> QED BY <1>1, <1>2, <2>1, NullDistinct DEF Links
<1>4. CASE L.next[p] # L.prev[p]
  <2>1. M.head = [L.head EXCEPT ![L.list[p]] = IF @ = p THEN L.next[p] ELSE @]
    BY <1>4 DEF delete_from_list
  <2>2. L.list[p] # LRU BY <1>4 DEF ListsOK, LruSingle
  <2> QED BY <1>1, <1>2, <2>1, <2>2, NullDistinct DEF Links
<1> QED BY <1>3, <1>4

(* What taking a page off its list does to all the rest: the thread that   *)
(* takes page p is the only one to have it.                                *)
LEMMA TakePage ==
  ASSUME IInv, NEW t \in Thread, page[t] = NULL, NEW p \in Page, links.list[p] # NULL,
         \A u \in Thread : page[u] # p,
         links' = delete_from_list(links, p),
         page' = [page EXCEPT ![t] = p],
         NEW label \in Holding \ {"munmap"}, pc' = [pc EXCEPT ![t] = label],
         UNCHANGED <<mapped, bitmap, held, call, new>>
  PROVE  ListsOK(links)' /\ HandsOK' /\ BlocksOK' /\ SuperblockClassified'
<1>1. ListsOK(links') BY DeleteOK DEF IInv
<1>2. /\ links'.list = [links.list EXCEPT ![p] = NULL]
      /\ \A k \in ListId : links.head[k] = NULL => links'.head[k] = NULL
      /\ links'.head[LRU] \in {NULL, links.head[LRU]}
  BY DeleteEffect DEF IInv
<1>3. links \in Links BY DEF IInv, ListsOK
<1>4. /\ links'.list[p] = NULL
      /\ \A q \in Page : q # p => links'.list[q] = links.list[q]
  BY <1>2, <1>3 DEF Links
<1>5. /\ pc \in [Thread -> Labels] /\ page \in [Thread -> Page \cup {NULL}]
  BY DEF IInv, TypeOK
<1>6. BlocksOK' /\ allocated' = allocated BY BlocksFrame DEF IInv
<1>7. SuperblockClassified'
  <2>1. max_data_units \in ListId BY Layout DEF ListId
  <2>2. links'.head[max_data_units] = NULL
    BY <1>2, <2>1 DEF IInv, SuperblockClassified
  <2> QED BY <1>4, <2>2, ClassifiedFrame DEF IInv
<1>8. \A q \in Page : links'.list[q] # NULL => q \in mapped'
  BY <1>4 DEF IInv, HandsOK
<1>9. PagesExclusive'
  <2> SUFFICES ASSUME NEW u \in Thread, page'[u] # NULL
               PROVE  /\ page'[u] \in mapped'
                      /\ pc'[u] # "munmap" => links'.list[page'[u]] = NULL
                      /\ \A v \in Thread \ {u} : page'[v] # page'[u]
    BY DEF PagesExclusive
  <2>1. CASE u = t
    <3>1. page'[u] = p BY <2>1, <1>5
    <3>2. p \in mapped BY DEF IInv, HandsOK
    <3> QED BY <2>1, <3>1, <3>2, <1>4, <1>5
  <2>2. CASE u # t
    <3>1. page'[u] = page[u] /\ pc'[u] = pc[u] BY <2>2, <1>5
    <3>2. page[u] \in Page /\ page[u] # p BY <3>1, <1>5
    <3>3. /\ page[u] \in mapped
          /\ pc[u] # "munmap" => links.list[page[u]] = NULL
          /\ \A v \in Thread \ {u} : page[v] # page[u]
      BY <3>1 DEF IInv, HandsOK, PagesExclusive
    <3> QED BY <3>1, <3>2, <3>3, <1>4, <1>5
  <2> QED BY <2>1, <2>2
<1>10. ASSUME NEW u \in Thread, pc'[u] = "munmap"
       PROVE  /\ links'.list[page'[u]] = LRU
              /\ links'.head[LRU] # page'[u]
              /\ \A b \in allocated' : b.page # page'[u]
  <2>1. u # t BY <1>5, <1>10
  <2>2. page'[u] = page[u] /\ pc[u] = "munmap" BY <2>1, <1>5, <1>10
  <2>3. page[u] \in Page
    BY <2>2, <1>5 DEF IInv, LocalsOK, Holding
  <2>4. /\ links.list[page[u]] = LRU
        /\ links.head[LRU] # page[u]
        /\ \A b \in allocated : b.page # page[u]
    BY <2>2 DEF IInv, HandsOK
  <2> QED BY <2>2, <2>3, <2>4, <1>2, <1>4, <1>6, NullDistinct
<1> QED BY <1>1, <1>6, <1>7, <1>8, <1>9, <1>10 DEF HandsOK

(* When the lists and the pages in hand do not change. *)
LEMMA HandsFrame ==
  ASSUME HandsOK, UNCHANGED <<mapped, links, page>>,
         allocated' \subseteq allocated,
         \A u \in Thread : pc'[u] = "munmap" <=> pc[u] = "munmap"
  PROVE  HandsOK'
<1>1. PagesExclusive' BY DEF HandsOK, PagesExclusive
<1> QED BY <1>1 DEF HandsOK

-----------------------------------------------------------------------------
(* The calls. *)

LEMMA CallAllocateInv ==
  ASSUME IInv, NEW t \in Thread, NEW n \in NumUnits, CallAllocate(t, n)
  PROVE  IInv'
<1>1. /\ pc[t] = "idle" /\ pc' = [pc EXCEPT ![t] = "find"]
      /\ call' = [call EXCEPT ![t] = [op |-> "allocate", blk |-> NoBlock, n |-> n]]
      /\ UNCHANGED <<mapped, bitmap, links, held, new, page, offset, fresh,
                     blocks_allocated, num_bm_pages>>
  BY DEF CallAllocate, Goto, pages, counts
<1>2. TypeOK /\ LocalsOK(t) BY DEF IInv
<1>3. call[t].blk = NoBlock /\ new[t] = NoBlock /\ page[t] = NULL
  BY <1>1, <1>2 DEF LocalsOK, NoCall, Holding
<1>4. TypeOK' BY <1>1, <1>2 DEF TypeOK, Labels, Operation
<1>5. ListsOK(links)' BY <1>1 DEF IInv
<1>6. \A u \in Thread : call'[u].blk = call[u].blk
  BY <1>1, <1>2, <1>3 DEF TypeOK
<1>7. BlocksOK' /\ allocated' = allocated BY <1>1, <1>6, BlocksFrame DEF IInv
<1>8. HandsOK'
  <2>1. \A u \in Thread : pc'[u] = "munmap" <=> pc[u] = "munmap"
    BY <1>1, <1>2 DEF TypeOK
  <2> QED BY <2>1, <1>1, <1>7, HandsFrame DEF IInv
<1>9. SuperblockClassified' BY <1>1 DEF IInv, SuperblockClassified
<1>10. ASSUME NEW u \in Thread PROVE LocalsOK(u)'
  <2>1. CASE u = t
    BY <2>1, <1>1, <1>2, <1>3 DEF LocalsOK, TypeOK, Allocating, Holding, NoBlock
  <2>2. CASE u # t BY <2>2, <1>1, <1>2, LocalsFrame DEF IInv, TypeOK
  <2> QED BY <2>1, <2>2
<1> QED BY <1>4, <1>5, <1>7, <1>8, <1>9, <1>10 DEF IInv

(* A thread takes a block from its client. *)
LEMMA TakeBlock ==
  ASSUME IInv, NEW t \in Thread, pc[t] = "idle", NEW b \in held,
         held' = held \ {b}, UNCHANGED <<bitmap, mapped, new>>,
         call'[t].blk = b, \A u \in Thread \ {t} : call'[u].blk = call[u].blk
  PROVE  BlocksOK' /\ allocated' = allocated
<1>1. TypeOK /\ LocalsOK(t) /\ BlocksDisjoint BY DEF IInv, BlocksOK
<1>2. call[t].blk = NoBlock /\ new[t] = NoBlock BY <1>1 DEF LocalsOK, NoCall
<1>3. b # NoBlock BY <1>1, BlockFacts DEF TypeOK
<1>4. Claimed(t) = {} /\ Claimed(t)' = {b} BY <1>2, <1>3 DEF Claimed
<1>5. \A u \in Thread \ {t} : Claimed(u)' = Claimed(u) BY DEF Claimed
<1>6. allocated' = allocated
  <2>1. UNION {Claimed(u)' : u \in Thread} = {b} \cup UNION {Claimed(u) : u \in Thread}
    BY <1>4, <1>5
  <2> QED BY <2>1 DEF allocated
<1>7. \A u \in Thread : b \notin Claimed(u) BY <1>1 DEF BlocksDisjoint
<1>8. ASSUME NEW u \in Thread
      PROVE  /\ Claimed(u)' \cap held' = {}
             /\ call'[u].blk = new'[u] => new'[u] = NoBlock
             /\ \A v \in Thread \ {u} : Claimed(u)' \cap Claimed(v)' = {}
  <2>1. Claimed(u) \cap held = {} /\ \A v \in Thread \ {u} : Claimed(u) \cap Claimed(v) = {}
    BY <1>1 DEF BlocksDisjoint
  <2>2. Claimed(u)' \cap held' = {} BY <2>1, <1>4, <1>5
  <2>3. call'[u].blk = new'[u] => new'[u] = NoBlock
    BY <1>1, <1>2 DEF BlocksDisjoint
  <2>4. \A v \in Thread \ {u} : Claimed(u)' \cap Claimed(v)' = {}
    BY <2>1, <1>4, <1>5, <1>7
  <2> QED BY <2>2, <2>3, <2>4
<1> QED BY <1>6, <1>8, OwnersFrame DEF IInv

(* A thread returns its blocks to its client. *)
LEMMA GiveBlocks ==
  ASSUME IInv, NEW t \in Thread, Finish(t)
  PROVE  BlocksOK' /\ allocated' = allocated
<1>1. /\ held' = held \cup Claimed(t)
      /\ call' = [call EXCEPT ![t] = NoCall]
      /\ new' = [new EXCEPT ![t] = NoBlock]
      /\ UNCHANGED <<bitmap, mapped>>
  BY DEF Finish, Claimed, pages
<1>2. TypeOK /\ BlocksDisjoint BY DEF IInv, BlocksOK
<1>3. call'[t].blk = NoBlock /\ new'[t] = NoBlock BY <1>1, <1>2 DEF TypeOK, NoCall
<1>4. \A u \in Thread \ {t} : call'[u] = call[u] /\ new'[u] = new[u]
  BY <1>1, <1>2 DEF TypeOK
<1>5. Claimed(t)' = {} BY <1>3 DEF Claimed
<1>6. \A u \in Thread \ {t} : Claimed(u)' = Claimed(u) BY <1>4 DEF Claimed
<1>7. allocated' = allocated
  <2>1. Claimed(t) \cup UNION {Claimed(u)' : u \in Thread} = UNION {Claimed(u) : u \in Thread}
    BY <1>5, <1>6
  <2> QED BY <2>1, <1>1 DEF allocated
<1>8. ASSUME NEW u \in Thread
      PROVE  /\ Claimed(u)' \cap held' = {}
             /\ call'[u].blk = new'[u] => new'[u] = NoBlock
             /\ \A v \in Thread \ {u} : Claimed(u)' \cap Claimed(v)' = {}
  <2>1. Claimed(u) \cap held = {} /\ \A v \in Thread \ {u} : Claimed(u) \cap Claimed(v) = {}
    BY <1>2 DEF BlocksDisjoint
  <2>2. Claimed(u)' \cap held' = {} BY <2>1, <1>1, <1>5, <1>6
  <2>3. call'[u].blk = new'[u] => new'[u] = NoBlock
    BY <1>2, <1>3, <1>4 DEF BlocksDisjoint
  <2>4. \A v \in Thread \ {u} : Claimed(u)' \cap Claimed(v)' = {}
    BY <2>1, <1>5, <1>6
  <2> QED BY <2>2, <2>3, <2>4
<1> QED BY <1>1, <1>7, <1>8, OwnersFrame DEF IInv

LEMMA CallReleaseInv ==
  ASSUME IInv, NEW t \in Thread, NEW b \in held, CallRelease(t, b)
  PROVE  IInv'
<1>1. /\ pc[t] = "idle" /\ pc' = [pc EXCEPT ![t] = "grab"]
      /\ call' = [call EXCEPT ![t] = [op |-> "release", blk |-> b, n |-> 0]]
      /\ held' = held \ {b}
      /\ UNCHANGED <<mapped, bitmap, links, new, page, offset, fresh,
                     blocks_allocated, num_bm_pages>>
  BY DEF CallRelease, Goto, pages, counts
<1>2. TypeOK /\ LocalsOK(t) BY DEF IInv
<1>3. new[t] = NoBlock /\ page[t] = NULL BY <1>1, <1>2 DEF LocalsOK, Holding
<1>4. b \in Block /\ b # NoBlock BY <1>2, BlockFacts DEF TypeOK
<1>5. TypeOK' BY <1>1, <1>2, <1>4 DEF TypeOK, Labels, Operation
<1>6. ListsOK(links)' BY <1>1 DEF IInv
<1>7. BlocksOK' /\ allocated' = allocated
  <2>1. call'[t].blk = b /\ \A u \in Thread \ {t} : call'[u].blk = call[u].blk
    BY <1>1, <1>2 DEF TypeOK
  <2> QED BY <2>1, <1>1, TakeBlock
<1>8. HandsOK'
  <2>1. \A u \in Thread : pc'[u] = "munmap" <=> pc[u] = "munmap"
    BY <1>1, <1>2 DEF TypeOK
  <2> QED BY <2>1, <1>1, <1>7, HandsFrame DEF IInv
<1>9. SuperblockClassified' BY <1>1 DEF IInv, SuperblockClassified
<1>10. ASSUME NEW u \in Thread PROVE LocalsOK(u)'
  <2>1. CASE u = t
    BY <2>1, <1>1, <1>2, <1>3, <1>4 DEF LocalsOK, TypeOK, Allocating, Holding
  <2>2. CASE u # t BY <2>2, <1>1, <1>2, LocalsFrame DEF IInv, TypeOK
  <2> QED BY <2>1, <2>2
<1> QED BY <1>5, <1>6, <1>7, <1>8, <1>9, <1>10 DEF IInv

LEMMA CallReallocateInv ==
  ASSUME IInv, NEW t \in Thread, NEW b \in held, NEW n \in NumUnits,
         CallReallocate(t, b, n)
  PROVE  IInv'
<1> DEFINE op == IF n < b.len THEN "shrink" ELSE "grow"
<1>1. /\ pc[t] = "idle" /\ pc' = [pc EXCEPT ![t] = "grab"]
      /\ n # b.len
      /\ call' = [call EXCEPT ![t] = [op |-> op, blk |-> b, n |-> n]]
      /\ held' = held \ {b}
      /\ UNCHANGED <<mapped, bitmap, links, new, page, offset, fresh,
                     blocks_allocated, num_bm_pages>>
  BY DEF CallReallocate, Goto, pages, counts
<1>2. TypeOK /\ LocalsOK(t) BY DEF IInv
<1>3. new[t] = NoBlock /\ page[t] = NULL BY <1>1, <1>2 DEF LocalsOK, Holding
<1>4. b \in Block /\ b # NoBlock /\ b.len \in NumUnits BY <1>2, BlockFacts DEF TypeOK
<1>5. /\ op \in {"shrink", "grow"}
      /\ op = "shrink" => n \in 1 .. (b.len - 1)
      /\ op = "grow" => n > b.len
  BY <1>1, <1>4 DEF NumUnits
<1> HIDE DEF op
<1>6. TypeOK' BY <1>1, <1>2, <1>4, <1>5 DEF TypeOK, Labels, Operation
<1>7. ListsOK(links)' BY <1>1 DEF IInv
<1>8. BlocksOK' /\ allocated' = allocated
  <2>1. call'[t].blk = b /\ \A u \in Thread \ {t} : call'[u].blk = call[u].blk
    BY <1>1, <1>2 DEF TypeOK
  <2> QED BY <2>1, <1>1, TakeBlock
<1>9. HandsOK'
  <2>1. \A u \in Thread : pc'[u] = "munmap" <=> pc[u] = "munmap"
    BY <1>1, <1>2 DEF TypeOK
  <2> QED BY <2>1, <1>1, <1>8, HandsFrame DEF IInv
<1>10. SuperblockClassified' BY <1>1 DEF IInv, SuperblockClassified
<1>11. ASSUME NEW u \in Thread PROVE LocalsOK(u)'
  <2>1. CASE u = t
    <3>1. /\ call'[t] = [op |-> op, blk |-> b, n |-> n]
          /\ pc'[t] = "grab" /\ page'[t] = NULL /\ new'[t] = NoBlock
      BY <1>1, <1>2, <1>3 DEF TypeOK
    <3> QED BY <2>1, <3>1, <1>4, <1>5 DEF LocalsOK, Allocating, Holding
  <2>2. CASE u # t BY <2>2, <1>1, <1>2, LocalsFrame DEF IInv, TypeOK
  <2> QED BY <2>1, <2>2
<1> QED BY <1>6, <1>7, <1>8, <1>9, <1>10, <1>11 DEF IInv

-----------------------------------------------------------------------------
(* find_available_page *)

(* The LRU page is in nobody's hands. *)
LEMMA LruUnheld ==
  ASSUME IInv, links.head[LRU] # NULL
  PROVE  /\ links.head[LRU] \in Page
         /\ links.list[links.head[LRU]] = LRU
         /\ links.head[LRU] \in mapped
         /\ \A u \in Thread : page[u] # links.head[LRU]
<1>1. links.head[LRU] \in Page /\ links.list[links.head[LRU]] = LRU
  BY NullDistinct DEF IInv, ListsOK, HeadsListed, Links
<1>2. links.head[LRU] \in mapped BY <1>1, NullDistinct DEF IInv, HandsOK
<1>3. ASSUME NEW u \in Thread, page[u] = links.head[LRU] PROVE FALSE
  <2>1. pc[u] = "munmap"
    BY <1>1, <1>3, NullDistinct DEF IInv, HandsOK, PagesExclusive
  <2> QED BY <2>1, <1>3 DEF IInv, HandsOK
<1> QED BY <1>1, <1>2, <1>3

LEMMA TakeLruInv ==
  ASSUME IInv, NEW t \in Thread, TakeLru(t)
  PROVE  IInv'
<1> DEFINE p == links.head[LRU]
<1>1. /\ pc[t] = "find" /\ p # NULL /\ pc' = [pc EXCEPT ![t] = "scan_lru"]
      /\ page' = [page EXCEPT ![t] = p]
      /\ links' = delete_from_list(links, p)
      /\ UNCHANGED <<mapped, bitmap, held, call, new, offset, fresh,
                     blocks_allocated, num_bm_pages>>
  BY DEF TakeLru, Goto, counts
<1>2. TypeOK /\ LocalsOK(t) BY DEF IInv
<1>3. p \in Page /\ links.list[p] # NULL /\ \A u \in Thread : page[u] # p
  BY <1>1, LruUnheld, NullDistinct
<1>4. page[t] = NULL BY <1>1, <1>2 DEF LocalsOK, Holding
<1> HIDE DEF p
<1>5. "scan_lru" \in Holding \ {"munmap"} BY DEF Holding
<1>6. ListsOK(links)' /\ HandsOK' /\ BlocksOK' /\ SuperblockClassified'
  BY <1>1, <1>3, <1>4, <1>5, TakePage
<1>7. TypeOK'
  <2>1. links' \in Links BY <1>6 DEF ListsOK
  <2> QED BY <2>1, <1>1, <1>2, <1>3 DEF TypeOK, Labels
<1>8. ASSUME NEW u \in Thread PROVE LocalsOK(u)'
  <2>1. CASE u = t
    <3>1. pc'[t] = "scan_lru" /\ page'[t] = p BY <1>1, <1>2 DEF TypeOK
    <3> QED BY <2>1, <3>1, <1>1, <1>2, <1>3, NullDistinct
            DEF LocalsOK, Allocating, Holding
  <2>2. CASE u # t BY <2>2, <1>1, <1>2, LocalsFrame DEF IInv, TypeOK
  <2> QED BY <2>1, <2>2
<1> QED BY <1>6, <1>7, <1>8 DEF IInv

(* A step that changes no more than its thread's call and place. *)
LEMMA QuietStep ==
  ASSUME IInv, NEW t \in Thread, UNCHANGED <<mapped, bitmap, links, held, new, page>>,
         call'[t].blk = call[t].blk,
         \A u \in Thread \ {t} : call'[u] = call[u] /\ offset'[u] = offset[u],
         NEW label \in Labels \ {"munmap"}, pc[t] # "munmap",
         pc' = [pc EXCEPT ![t] = label]
  PROVE  /\ ListsOK(links)' /\ HandsOK' /\ BlocksOK' /\ SuperblockClassified'
         /\ \A u \in Thread \ {t} : LocalsOK(u)'
<1>1. ListsOK(links)' /\ SuperblockClassified' BY DEF IInv, SuperblockClassified
<1>2. pc \in [Thread -> Labels] BY DEF IInv, TypeOK
<1>3. BlocksOK' /\ allocated' = allocated BY BlocksFrame DEF IInv
<1>4. HandsOK'
  <2>1. \A u \in Thread : pc'[u] = "munmap" <=> pc[u] = "munmap" BY <1>2
  <2> QED BY <2>1, <1>3, HandsFrame DEF IInv
<1>5. \A u \in Thread \ {t} : LocalsOK(u)' BY <1>2, LocalsFrame DEF IInv
<1> QED BY <1>1, <1>3, <1>4, <1>5

LEMMA ScanLruInv ==
  ASSUME IInv, NEW t \in Thread, ScanLru(t)
  PROVE  IInv'
<1> DEFINE bm == bitmap[page[t]]
           n == call[t].n
           o == find_free_block(bm, n)
           label == IF o # 0 THEN "set" ELSE "put_back"
<1>1. /\ pc[t] = "scan_lru" /\ pc' = [pc EXCEPT ![t] = label]
      /\ offset' = [offset EXCEPT ![t] = o]
      /\ UNCHANGED <<mapped, bitmap, links, held, call, new, page, fresh,
                     blocks_allocated, num_bm_pages>>
  BY DEF ScanLru, Goto, pages, counts
<1>2. TypeOK /\ LocalsOK(t) BY DEF IInv
<1>3. page[t] \in Page /\ n \in NumUnits
  BY <1>1, <1>2 DEF LocalsOK, TypeOK, Allocating, Holding
<1>4. bm \in SUBSET Unit /\ n \in Nat /\ n < max_data_units
  BY <1>2, <1>3, Layout DEF TypeOK, NumUnits
<1> HIDE DEF n, bm, o
<1>5. /\ o \in DataUnit \cup {0}
      /\ o # 0 => o \in DataUnit /\ o + n <= units_per_page /\ Run(o, n) \cap bm = {}
      /\ o = 0 => \A q \in DataUnit : count_zero_bits(bm, q) < n
  BY <1>4, FindFreeBlock DEF o
<1>6. o = 0 => find_longest_free_block(bm) < max_data_units
  <2> SUFFICES ASSUME o = 0 PROVE find_longest_free_block(bm) < max_data_units OBVIOUS
  <2>1. PICK q \in DataUnit : find_longest_free_block(bm) = count_zero_bits(bm, q)
    BY <1>4, LongestFreeBlock
  <2>2. find_longest_free_block(bm) < n BY <1>5, <2>1
  <2> QED BY <2>2, <1>4, LongestFreeBlock, Layout
<1>7. label \in Labels \ {"munmap"} BY DEF Labels
<1>8. TypeOK' BY <1>1, <1>2, <1>5, <1>7 DEF TypeOK
<1>9. /\ ListsOK(links)' /\ HandsOK' /\ BlocksOK' /\ SuperblockClassified'
      /\ \A u \in Thread \ {t} : LocalsOK(u)'
  <2>1. \A u \in Thread \ {t} : offset'[u] = offset[u] BY <1>1, <1>2 DEF TypeOK
  <2> HIDE DEF label
  <2> QED BY <2>1, <1>1, <1>7, QuietStep
<1>10. LocalsOK(t)'
  <2>1. pc'[t] = label /\ offset'[t] = o BY <1>1, <1>2 DEF TypeOK
  <2>2. /\ call[t].op \in {"allocate", "move"}
        /\ call[t].op = "allocate" <=> call[t].blk = NoBlock
        /\ call[t].n \in NumUnits
        /\ new[t] = NoBlock
        /\ page[t] # NULL
    BY <1>1, <1>2 DEF LocalsOK, Allocating, Holding
  <2>3. CASE o # 0
    <3>1. pc'[t] = "set" BY <2>1, <2>3
    <3>2. offset'[t] \in DataUnit /\ Free(page[t], offset[t], call[t].n)'
      BY <2>1, <2>3, <1>1, <1>5 DEF Free, bm, n
    <3> QED BY <3>1, <3>2, <2>2, <1>1 DEF LocalsOK, Allocating, Holding
  <2>4. CASE o = 0
    <3>1. pc'[t] = "put_back" BY <2>1, <2>4
    <3>2. find_longest_free_block(bitmap'[page'[t]]) < max_data_units
      BY <2>4, <1>1, <1>6 DEF bm
    <3> QED BY <3>1, <3>2, <2>2, <1>1 DEF LocalsOK, Allocating, Holding
  <2> QED BY <2>3, <2>4
<1> QED BY <1>8, <1>9, <1>10 DEF IInv

LEMMA PutBackInv ==
  ASSUME IInv, NEW t \in Thread, PutBack(t)
  PROVE  IInv'
<1> DEFINE p == page[t]
           lfb == find_longest_free_block(bitmap[p])
<1>1. /\ pc[t] = "put_back" /\ pc' = [pc EXCEPT ![t] = "search"]
      /\ links' = add_to_list(links, lfb, p)
      /\ page' = [page EXCEPT ![t] = NULL]
      /\ UNCHANGED <<mapped, bitmap, held, call, new, offset, fresh,
                     blocks_allocated, num_bm_pages>>
  BY DEF PutBack, Goto, counts
<1>2. TypeOK /\ LocalsOK(t) BY DEF IInv
<1>3. p \in Page /\ lfb < max_data_units
  BY <1>1, <1>2 DEF LocalsOK, TypeOK, Holding
<1>4. lfb \in 0 .. max_data_units BY <1>2, <1>3, LongestFreeBlock DEF TypeOK
<1>5. lfb \in ListId \ {LRU} BY <1>4, Layout, ListsAssumption DEF ListId
<1>6. links.list[p] = NULL /\ p \in mapped /\ \A u \in Thread \ {t} : page[u] # p
  BY <1>1, <1>3, NullDistinct DEF IInv, HandsOK, PagesExclusive
<1> HIDE DEF p
<1>7. ListsOK(links') BY <1>1, <1>3, <1>5, <1>6, AddOK DEF IInv
<1>8. /\ links'.list = [links.list EXCEPT ![p] = lfb]
      /\ \A k \in ListId : k # lfb => links'.head[k] = links.head[k]
  <2>1. links \in Links BY DEF IInv, ListsOK
  <2> QED BY <2>1, <1>1, <1>5 DEF add_to_list, Links
<1> HIDE DEF lfb
<1>9. /\ links'.list[p] = lfb
      /\ \A q \in Page : q # p => links'.list[q] = links.list[q]
      /\ links'.head[LRU] = links.head[LRU]
      /\ links'.head[max_data_units] = links.head[max_data_units]
  <2>1. links \in Links BY DEF IInv, ListsOK
  <2>2. max_data_units \in ListId /\ max_data_units # lfb
    BY <1>3, <1>4, Layout DEF ListId
  <2> QED BY <2>1, <2>2, <1>3, <1>5, <1>8, NullDistinct DEF Links
<1>10. TypeOK' BY <1>1, <1>2, <1>7 DEF TypeOK, ListsOK, Labels
<1>11. BlocksOK' /\ allocated' = allocated BY <1>1, BlocksFrame DEF IInv
<1>12. SuperblockClassified'
  BY <1>1, <1>9, NullDistinct DEF IInv, SuperblockClassified, lfb
<1>13. HandsOK'
  <2>1. \A q \in Page : links'.list[q] # NULL => q \in mapped'
    BY <1>1, <1>6, <1>9 DEF IInv, HandsOK
  <2>2. \A u \in Thread : page'[u] # NULL =>
          u # t /\ page'[u] = page[u] /\ page[u] \in Page /\ page[u] # p /\ pc'[u] = pc[u]
    BY <1>1, <1>2, <1>6 DEF TypeOK
  <2>3. \A u \in Thread : pc'[u] = "munmap" => page'[u] # NULL /\ pc[u] = "munmap"
    BY <1>1, <1>2 DEF TypeOK, IInv, LocalsOK, Holding
  <2>4. PagesExclusive'
    BY <2>2, <1>1, <1>9 DEF IInv, HandsOK, PagesExclusive
  <2> QED BY <2>1, <2>2, <2>3, <2>4, <1>9, <1>11 DEF IInv, HandsOK
<1>14. ASSUME NEW u \in Thread PROVE LocalsOK(u)'
  <2>1. CASE u = t
    <3>1. pc'[t] = "search" /\ page'[t] = NULL BY <1>1, <1>2 DEF TypeOK
    <3> QED BY <2>1, <3>1, <1>1, <1>2 DEF LocalsOK, Allocating, Holding
  <2>2. CASE u # t BY <2>2, <1>1, <1>2, LocalsFrame DEF IInv, TypeOK
  <2> QED BY <2>1, <2>2
<1> QED BY <1>7, <1>10, <1>11, <1>12, <1>13, <1>14 DEF IInv

LEMMA TakeFromSuperblockInv ==
  ASSUME IInv, NEW t \in Thread, TakeFromSuperblock(t)
  PROVE  IInv'
<1> DEFINE k == Min(Candidates(t))
           p == links.head[k]
<1>1. /\ Searching(t) /\ Candidates(t) # {}
      /\ pc' = [pc EXCEPT ![t] = "scan_superblock"]
      /\ page' = [page EXCEPT ![t] = p]
      /\ links' = delete_from_list(links, p)
      /\ UNCHANGED <<mapped, bitmap, held, call, new, offset, fresh,
                     blocks_allocated, num_bm_pages>>
  BY DEF TakeFromSuperblock, Goto, counts
<1>2. TypeOK /\ LocalsOK(t) BY DEF IInv
<1>3. pc[t] \in {"find", "search"} BY <1>1 DEF Searching
<1>4. call[t].n \in NumUnits /\ page[t] = NULL
  BY <1>2, <1>3 DEF LocalsOK, Allocating, Holding
<1>5. k \in call[t].n .. max_data_units /\ p # NULL
  <2>1. Candidates(t) \in SUBSET Nat BY <1>4, Layout DEF Candidates, NumUnits
  <2>2. k \in Candidates(t) BY <2>1, <1>1, MinOfNat
  <2> QED BY <2>2 DEF Candidates
<1> HIDE DEF k
<1>6. k \in ListId /\ k # LRU /\ k \in Nat /\ k >= call[t].n
  BY <1>4, <1>5, Layout, ListsAssumption DEF ListId, NumUnits
<1>7. p \in Page /\ links.list[p] = k
  BY <1>5, <1>6 DEF IInv, ListsOK, HeadsListed, Links
<1>8. \A u \in Thread : page[u] # p
  BY <1>6, <1>7, NullDistinct DEF IInv, HandsOK, PagesExclusive
<1>9. find_longest_free_block(bitmap[p]) = k
  BY <1>6, <1>7, NullDistinct DEF IInv, SuperblockClassified
<1> HIDE DEF p
<1>10. "scan_superblock" \in Holding \ {"munmap"} BY DEF Holding
<1>11. ListsOK(links)' /\ HandsOK' /\ BlocksOK' /\ SuperblockClassified'
  BY <1>1, <1>4, <1>6, <1>7, <1>8, <1>10, NullDistinct, TakePage
<1>12. TypeOK' BY <1>1, <1>2, <1>7, <1>11 DEF TypeOK, Labels, ListsOK
<1>13. ASSUME NEW u \in Thread PROVE LocalsOK(u)'
  <2>1. CASE u = t
    <3>1. pc'[t] = "scan_superblock" /\ page'[t] = p BY <1>1, <1>2 DEF TypeOK
    <3> QED BY <2>1, <3>1, <1>1, <1>2, <1>3, <1>6, <1>7, <1>9, NullDistinct
            DEF LocalsOK, Allocating, Holding
  <2>2. CASE u # t BY <2>2, <1>1, <1>2, LocalsFrame DEF IInv, TypeOK
  <2> QED BY <2>1, <2>2
<1> QED BY <1>11, <1>12, <1>13 DEF IInv

LEMMA SuperblockMissInv ==
  ASSUME IInv, NEW t \in Thread, SuperblockMiss(t)
  PROVE  IInv'
<1>1. /\ Searching(t) /\ pc' = [pc EXCEPT ![t] = "map"]
      /\ UNCHANGED <<mapped, bitmap, links, held, call, new, page, offset, fresh,
                     blocks_allocated, num_bm_pages>>
  BY DEF SuperblockMiss, Goto, pages, counts
<1>2. TypeOK /\ LocalsOK(t) BY DEF IInv
<1>3. pc[t] \in {"find", "search"} BY <1>1 DEF Searching
<1>4. TypeOK' BY <1>1, <1>2 DEF TypeOK, Labels
<1>5. "map" \in Labels \ {"munmap"} BY DEF Labels
<1>6. /\ ListsOK(links)' /\ HandsOK' /\ BlocksOK' /\ SuperblockClassified'
      /\ \A u \in Thread \ {t} : LocalsOK(u)'
  BY <1>1, <1>3, <1>5, QuietStep
<1>7. LocalsOK(t)'
  <2>1. pc'[t] = "map" BY <1>1, <1>2 DEF TypeOK
  <2> QED BY <2>1, <1>1, <1>2, <1>3 DEF LocalsOK, Allocating, Holding
<1> QED BY <1>4, <1>6, <1>7 DEF IInv

(* Here the abort of the code is ruled out. *)
LEMMA ScanSuperblockInv ==
  ASSUME IInv, NEW t \in Thread, ScanSuperblock(t)
  PROVE  IInv' /\ pc'[t] = "set"
<1> DEFINE bm == bitmap[page[t]]
           n == call[t].n
           o == find_free_block(bm, n)
<1>1. /\ pc[t] = "scan_superblock"
      /\ pc' = [pc EXCEPT ![t] = IF o # 0 THEN "set" ELSE "abort"]
      /\ offset' = [offset EXCEPT ![t] = o]
      /\ UNCHANGED <<mapped, bitmap, links, held, call, new, page, fresh,
                     blocks_allocated, num_bm_pages>>
  BY DEF ScanSuperblock, Goto, pages, counts
<1>2. TypeOK /\ LocalsOK(t) BY DEF IInv
<1>3. page[t] \in Page /\ n \in NumUnits /\ find_longest_free_block(bm) >= n
  BY <1>1, <1>2 DEF LocalsOK, TypeOK, Allocating, Holding
<1>4. bm \in SUBSET Unit /\ n \in Nat BY <1>2, <1>3, Layout DEF TypeOK, NumUnits
<1> HIDE DEF n, bm, o
<1>5. o # 0 BY <1>3, <1>4, LongestFits DEF o
<1>6. o \in DataUnit /\ o + n <= units_per_page /\ Run(o, n) \cap bm = {}
  BY <1>4, <1>5, FindFreeBlock DEF o
<1>7. "set" \in Labels \ {"munmap"} BY DEF Labels
<1>8. pc' = [pc EXCEPT ![t] = "set"] /\ pc'[t] = "set" BY <1>1, <1>2, <1>5 DEF TypeOK
<1>9. TypeOK' BY <1>1, <1>2, <1>6, <1>7, <1>8 DEF TypeOK
<1>10. /\ ListsOK(links)' /\ HandsOK' /\ BlocksOK' /\ SuperblockClassified'
       /\ \A u \in Thread \ {t} : LocalsOK(u)'
  <2>1. \A u \in Thread \ {t} : offset'[u] = offset[u] BY <1>1, <1>2 DEF TypeOK
  <2> QED BY <2>1, <1>1, <1>7, <1>8, QuietStep
<1>11. LocalsOK(t)'
  <2>1. offset'[t] \in DataUnit /\ Free(page[t], offset[t], call[t].n)'
    <3>1. offset'[t] = o BY <1>1, <1>2 DEF TypeOK
    <3> QED BY <3>1, <1>1, <1>6 DEF Free, bm, n
  <2> QED BY <2>1, <1>1, <1>2, <1>8 DEF LocalsOK, Allocating, Holding
<1> QED BY <1>8, <1>9, <1>10, <1>11 DEF IInv

-----------------------------------------------------------------------------
(* Steps that change bits. *)

(* Thread t replaces its blocks OD on page p by those of N, one at most,   *)
(* and makes B the bitmap of the page.                                     *)
Changes(t, p, OD, N, B) ==
  /\ mapped' = mapped \cup {p} /\ held' = held
  /\ bitmap' = [bitmap EXCEPT ![p] = B]
  /\ OD \in SUBSET Claimed(t)
  /\ N \in SUBSET Block
  /\ \A c, d \in N : c = d
  /\ \A b \in OD \cup N : b.page = p
  /\ \A c \in N, b \in allocated \ OD : ~Overlap(b, c)
  /\ Claimed(t)' = (Claimed(t) \ OD) \cup N
  /\ call'[t].blk = new'[t] => new'[t] = NoBlock
  /\ \A u \in Thread \ {t} : call'[u] = call[u] /\ new'[u] = new[u]
  /\ \A x : x \in B <=> \/ x \in HeaderUnits
                        \/ \E b \in N : x \in Units(b)
                        \/ \E b \in allocated \ OD : b.page = p /\ x \in Units(b)

LEMMA ChangeBlocks ==
  ASSUME IInv, NEW t \in Thread, NEW p \in Page, NEW OD, NEW N, NEW B,
         Changes(t, p, OD, N, B)
  PROVE  BlocksOK' /\ allocated' = (allocated \ OD) \cup N
<1> USE DEF Changes
<1>1. TypeOK /\ BlocksDisjoint /\ BlocksMapped /\ BitmapExact BY DEF IInv, BlocksOK
<1>2. allocated \subseteq Block BY <1>1, AllocatedType
<1>3. \A u \in Thread \ {t} : Claimed(u)' = Claimed(u) BY DEF Claimed
<1>4. OD \cap held = {} /\ \A u \in Thread \ {t} : OD \cap Claimed(u) = {}
  BY <1>1 DEF BlocksDisjoint
<1>5. allocated' = (allocated \ OD) \cup N
  <2>1. allocated = held \cup Claimed(t) \cup UNION {Claimed(u) : u \in Thread \ {t}}
    BY DEF allocated
  <2>2. allocated' = held \cup Claimed(t)' \cup UNION {Claimed(u)' : u \in Thread \ {t}}
    BY DEF allocated
  <2>3. UNION {Claimed(u)' : u \in Thread \ {t}} = UNION {Claimed(u) : u \in Thread \ {t}}
    BY <1>3
  <2>4. OD \cap UNION {Claimed(u) : u \in Thread \ {t}} = {} BY <1>4
  <2> QED BY <2>1, <2>2, <2>3, <2>4, <1>4
<1>6. N \cap (allocated \ OD) = {}
  <2> SUFFICES ASSUME NEW b \in N, b \in allocated \ OD PROVE FALSE OBVIOUS
  <2>1. Units(b) # {} BY BlockFacts
  <2> QED BY <2>1 DEF Overlap
<1>7. ASSUME NEW u \in Thread
      PROVE  /\ Claimed(u)' \cap held' = {}
             /\ call'[u].blk = new'[u] => new'[u] = NoBlock
             /\ \A v \in Thread \ {u} : Claimed(u)' \cap Claimed(v)' = {}
  <2>1. /\ Claimed(u) \cap held = {}
        /\ \A v \in Thread \ {u} : Claimed(u) \cap Claimed(v) = {}
        /\ call[u].blk = new[u] => new[u] = NoBlock
    BY <1>1 DEF BlocksDisjoint
  <2>2. held \subseteq allocated \ OD /\ \A v \in Thread \ {t} : Claimed(v) \subseteq allocated \ OD
    BY <1>4 DEF allocated
  <2>3. CASE u = t
    <3>1. Claimed(t)' \cap held = {} BY <2>1, <2>2, <2>3, <1>6
    <3>2. \A v \in Thread \ {t} : Claimed(t)' \cap Claimed(v) = {}
      BY <2>1, <2>2, <2>3, <1>6
    <3> QED BY <2>3, <3>1, <3>2, <1>3
  <2>4. CASE u # t
    <3>1. Claimed(u)' = Claimed(u) BY <2>4, <1>3
    <3>2. Claimed(u) \cap Claimed(t)' = {} BY <2>1, <2>2, <2>4, <1>6
    <3>3. \A v \in Thread \ {u} : Claimed(u)' \cap Claimed(v)' = {}
      BY <2>1, <3>1, <3>2, <1>3
    <3> QED BY <2>1, <2>4, <3>1, <3>3
  <2> QED BY <2>3, <2>4
<1>8. ASSUME NEW b \in allocated', NEW c \in allocated', b # c
      PROVE  ~Overlap(b, c)
  <2>1. \A d, e : Overlap(d, e) <=> Overlap(e, d) BY DEF Overlap
  <2> QED BY <1>1, <1>5, <1>8, <2>1 DEF BlocksDisjoint
<1>9. BlocksDisjoint'
  <2>1. \A b, c \in allocated' : b # c => ~Overlap(b, c) BY <1>8
  <2> HIDE DEF allocated
  <2> QED BY <2>1, <1>7 DEF BlocksDisjoint, Overlap
<1>10. BlocksMapped' BY <1>1, <1>5 DEF BlocksMapped
<1>11. BitmapExact'
  <2> SUFFICES ASSUME NEW q \in mapped'
               PROVE  bitmap'[q] = HeaderUnits \cup
                        UNION {Units(b) : b \in {c \in allocated' : c.page = q}}
    BY DEF BitmapExact
  <2>1. q \in Page /\ bitmap \in [Page -> SUBSET Unit] BY <1>1 DEF TypeOK
  <2>2. CASE q = p
    <3>1. bitmap'[q] = B BY <2>1, <2>2
    <3>2. \A x : x \in B <=> x \in HeaderUnits \/ \E b \in allocated' : b.page = p /\ x \in Units(b)
      BY <1>5
    <3> QED BY <2>2, <3>1, <3>2
  <2>3. CASE q # p
    <3>1. bitmap'[q] = bitmap[q] /\ q \in mapped BY <2>1, <2>3
    <3>2. {c \in allocated' : c.page = q} = {c \in allocated : c.page = q}
      BY <2>3, <1>5
    <3> QED BY <3>1, <3>2, <1>1 DEF BitmapExact
  <2> QED BY <2>2, <2>3
<1> QED BY <1>5, <1>9, <1>10, <1>11 DEF BlocksOK

(* Lists, hands and classifications when thread t changes the bitmap of    *)
(* the page p it has, or makes the page.                                   *)
LEMMA ChangeBitmap ==
  ASSUME IInv, NEW t \in Thread, NEW p \in Page, links.list[p] = NULL,
         pc[t] # "munmap", \A u \in Thread \ {t} : page[u] # p,
         page' = [page EXCEPT ![t] = p], mapped' = mapped \cup {p}, links' = links,
         \A b \in allocated' : b \in allocated \/ b.page = p,
         NEW B, bitmap' = [bitmap EXCEPT ![p] = B],
         pc' = [pc EXCEPT ![t] = "unhand"],
         \A u \in Thread \ {t} :
           call'[u] = call[u] /\ new'[u] = new[u] /\ offset'[u] = offset[u]
  PROVE  /\ ListsOK(links)' /\ HandsOK' /\ SuperblockClassified'
         /\ \A u \in Thread \ {t} : LocalsOK(u)'
<1>1. TypeOK BY DEF IInv
<1>2. ListsOK(links)' BY DEF IInv
<1>3. SuperblockClassified'
  <2>1. \A q \in Page : links'.list[q] \notin {NULL, LRU} => bitmap'[q] = bitmap[q]
    BY <1>1 DEF TypeOK
  <2> QED BY <2>1, ClassifiedFrame DEF IInv, SuperblockClassified
<1>4. \A u \in Thread \ {t} :
        /\ page'[u] = page[u] /\ pc'[u] = pc[u]
        /\ page[u] # NULL => bitmap'[page[u]] = bitmap[page[u]]
  BY <1>1 DEF TypeOK
<1>5. \A u \in Thread \ {t} : LocalsOK(u)' BY <1>4, LocalsFrame DEF IInv
<1>6. page'[t] = p /\ pc'[t] = "unhand" BY <1>1 DEF TypeOK
<1>7. PagesExclusive'
  <2> SUFFICES ASSUME NEW u \in Thread, page'[u] # NULL
               PROVE  /\ page'[u] \in mapped'
                      /\ pc'[u] # "munmap" => links'.list[page'[u]] = NULL
                      /\ \A v \in Thread \ {u} : page'[v] # page'[u]
    BY DEF PagesExclusive
  <2>1. CASE u = t BY <2>1, <1>4, <1>6
  <2>2. CASE u # t BY <2>2, <1>4, <1>6 DEF IInv, HandsOK, PagesExclusive
  <2> QED BY <2>1, <2>2
<1>8. \A q \in Page : links'.list[q] # NULL => q \in mapped' BY DEF IInv, HandsOK
<1>9. ASSUME NEW u \in Thread, pc'[u] = "munmap"
      PROVE  /\ links'.list[page'[u]] = LRU
             /\ links'.head[LRU] # page'[u]
             /\ \A b \in allocated' : b.page # page'[u]
  <2>1. u # t BY <1>6, <1>9
  <2> QED BY <2>1, <1>4, <1>9 DEF IInv, HandsOK
<1> QED BY <1>2, <1>3, <1>5, <1>7, <1>8, <1>9 DEF HandsOK

(* The bits of a page, one by one. *)
LEMMA BitsOf ==
  ASSUME BitmapExact, NEW p \in mapped
  PROVE  \A x : x \in bitmap[p] <=>
           \/ x \in HeaderUnits
           \/ \E b \in allocated : b.page = p /\ x \in Units(b)
BY DEF BitmapExact

LEMMA SetBitsInv ==
  ASSUME IInv, NEW t \in Thread, SetBits(t)
  PROVE  IInv'
<1> DEFINE p == page[t]
           o == offset[t]
           n == call[t].n
           b == block(p, o, n)
           B == set_bits(bitmap[p], b.off, b.len)
<1>1. /\ pc[t] = "set" /\ pc' = [pc EXCEPT ![t] = "unhand"]
      /\ bitmap' = [bitmap EXCEPT ![p] = B]
      /\ new' = [new EXCEPT ![t] = b]
      /\ offset' = [offset EXCEPT ![t] = 0]
      /\ UNCHANGED <<mapped, links, held, call, page, fresh,
                     blocks_allocated, num_bm_pages>>
  BY DEF SetBits, Goto, counts
<1>2. TypeOK /\ LocalsOK(t) BY DEF IInv
<1>3. /\ p \in Page /\ o \in DataUnit /\ n \in NumUnits
      /\ o + n <= units_per_page /\ Run(o, n) \cap bitmap[p] = {}
      /\ new[t] = NoBlock
      /\ call[t].op \in {"allocate", "move"}
      /\ call[t].op = "allocate" <=> call[t].blk = NoBlock
  BY <1>1, <1>2 DEF LocalsOK, TypeOK, Allocating, Holding, Free
<1>4. /\ b \in Block /\ b # NoBlock
      /\ b.page = p /\ b.off = o /\ b.len = n
  BY <1>3, BlockMade
<1>5. /\ p \in mapped /\ links.list[p] = NULL
      /\ \A u \in Thread \ {t} : page[u] # p
  BY <1>1, <1>3, NullDistinct DEF IInv, HandsOK, PagesExclusive
<1> HIDE DEF p, o, n, b
<1>6. Units(b) = Run(o, n) /\ B = bitmap[p] \cup Units(b)
  BY <1>4 DEF Units, set_bits
<1>7. BlocksOK' /\ allocated' = allocated \cup {b}
  <2>1. \A c \in allocated : ~Overlap(c, b)
    <3> SUFFICES ASSUME NEW c \in allocated, c.page = p
                 PROVE  Units(c) \cap Units(b) = {}
      BY <1>4 DEF Overlap
    <3>1. Units(c) \subseteq bitmap[p] BY <1>5, BitsOf DEF IInv, BlocksOK
    <3> QED BY <3>1, <1>3, <1>6
  <2>2. b \notin allocated BY <2>1, <1>4, BlockFacts DEF Overlap
  <2>3. call[t].blk # b BY <2>2, <1>4 DEF allocated, Claimed
  <2>4. new'[t] = b BY <1>1, <1>2 DEF TypeOK
  <2> DEFINE OD == {}
             N  == {b}
  <2>5. Claimed(t)' = (Claimed(t) \ OD) \cup N BY <2>4, <1>1, <1>3, <1>4 DEF Claimed
  <2>6. \A u \in Thread \ {t} : call'[u] = call[u] /\ new'[u] = new[u]
    BY <1>1, <1>2 DEF TypeOK
  <2>7. \A x : x \in B <=> \/ x \in HeaderUnits
                           \/ \E c \in N : x \in Units(c)
                           \/ \E c \in allocated \ OD : c.page = p /\ x \in Units(c)
    BY <1>5, <1>6, BitsOf DEF IInv, BlocksOK
  <2>8. /\ OD \in SUBSET Claimed(t)
        /\ N \in SUBSET Block
        /\ \A c, d \in N : c = d
        /\ \A c \in OD \cup N : c.page = p
        /\ \A c \in N, d \in allocated \ OD : ~Overlap(d, c)
    BY <1>4, <2>1
  <2>9. call'[t].blk = new'[t] => new'[t] = NoBlock BY <2>3, <2>4, <1>1
  <2>10. mapped' = mapped \cup {p} /\ held' = held /\ p \in Page
         /\ bitmap' = [bitmap EXCEPT ![p] = B]
    BY <1>1, <1>3, <1>5
  <2>11. (allocated \ OD) \cup N = allocated \cup {b} OBVIOUS
  <2> HIDE DEF B, OD, N
  <2>12. BlocksOK' /\ allocated' = (allocated \ OD) \cup N
    <3>1. Changes(t, p, OD, N, B) /\ p \in Page
      BY <2>5, <2>6, <2>7, <2>8, <2>9, <2>10 DEF Changes
    <3> QED BY <3>1, ChangeBlocks
  <2> QED BY <2>11, <2>12
<1>8. /\ ListsOK(links)' /\ HandsOK' /\ SuperblockClassified'
      /\ \A u \in Thread \ {t} : LocalsOK(u)'
  <2>1. page' = [page EXCEPT ![t] = p] BY <1>1, <1>2 DEF TypeOK, p
  <2>2. mapped' = mapped \cup {p} BY <1>1, <1>5
  <2>3. \A u \in Thread \ {t} :
          call'[u] = call[u] /\ new'[u] = new[u] /\ offset'[u] = offset[u]
    BY <1>1, <1>2 DEF TypeOK
  <2>4. \A c \in allocated' : c \in allocated \/ c.page = p BY <1>4, <1>7
  <2> HIDE DEF B
  <2> QED BY <1>1, <1>3, <1>5, <2>1, <2>2, <2>3, <2>4, ChangeBitmap
<1>9. TypeOK'
  <2>1. B \in SUBSET Unit
    BY <1>2, <1>3, <1>4, <1>6, BlockFacts, UnitArith DEF TypeOK
  <2> HIDE DEF B
  <2> QED BY <2>1, <1>1, <1>2, <1>3, <1>4 DEF TypeOK, Labels
<1>10. LocalsOK(t)'
  <2>1. pc'[t] = "unhand" BY <1>1, <1>2 DEF TypeOK
  <2> QED BY <2>1, <1>1, <1>3, NullDistinct DEF LocalsOK, Allocating, Holding, p
<1> QED BY <1>7, <1>8, <1>9, <1>10 DEF IInv

(* bm_allocate on a new page. *)
LEMMA MapPageInv ==
  ASSUME IInv, NEW t \in Thread, NEW p \in Page, MapPage(t, p)
  PROVE  IInv'
<1> DEFINE h == bm_page_header_size_in_units
           n == call[t].n
           b == block(p, h, n)
           B == set_bits({}, 0, h + b.len)
<1>1. /\ pc[t] = "map" /\ pc' = [pc EXCEPT ![t] = "unhand"]
      /\ p \notin mapped /\ mapped' = mapped \cup {p}
      /\ bitmap' = [bitmap EXCEPT ![p] = B]
      /\ new' = [new EXCEPT ![t] = b]
      /\ page' = [page EXCEPT ![t] = p]
      /\ fresh' = [fresh EXCEPT ![t] = TRUE]
      /\ UNCHANGED <<links, held, call, offset, blocks_allocated, num_bm_pages>>
  BY DEF MapPage, Goto, counts
<1>2. TypeOK /\ LocalsOK(t) BY DEF IInv
<1>3. /\ n \in NumUnits /\ new[t] = NoBlock /\ page[t] = NULL
      /\ call[t].op \in {"allocate", "move"}
      /\ call[t].op = "allocate" <=> call[t].blk = NoBlock
  BY <1>1, <1>2 DEF LocalsOK, Allocating, Holding
<1>4. h \in DataUnit /\ n \in Nat /\ h \in Nat /\ h >= 1 /\ h + n <= units_per_page
  BY <1>3, Layout DEF DataUnit, NumUnits
<1>5. b \in Block /\ b # NoBlock /\ b.page = p /\ b.off = h /\ b.len = n
  BY <1>3, <1>4, BlockMade
<1>6. B = HeaderUnits \cup Units(b)
  <2>1. Run(0, h + n) = Run(0, h) \cup Run(h, n) BY <1>4 DEF Run
  <2> QED BY <2>1, <1>5 DEF set_bits, HeaderUnits, Units
<1>7. links.list[p] = NULL /\ \A u \in Thread : page[u] # p
  BY <1>1, NullDistinct DEF IInv, HandsOK, PagesExclusive
<1>8. \A c \in allocated : c.page # p BY <1>1 DEF IInv, BlocksOK, BlocksMapped
<1> HIDE DEF h, n, b, B
<1>9. BlocksOK' /\ allocated' = allocated \cup {b}
  <2> DEFINE OD == {}
             N  == {b}
  <2>1. new'[t] = b BY <1>1, <1>2 DEF TypeOK
  <2>2. call[t].blk # b BY <1>5, <1>8 DEF allocated, Claimed
  <2>3. Claimed(t)' = (Claimed(t) \ OD) \cup N BY <2>1, <1>1, <1>3, <1>5 DEF Claimed
  <2>4. \A u \in Thread \ {t} : call'[u] = call[u] /\ new'[u] = new[u]
    BY <1>1, <1>2 DEF TypeOK
  <2>5. \A x : x \in B <=> \/ x \in HeaderUnits
                           \/ \E c \in N : x \in Units(c)
                           \/ \E c \in allocated \ OD : c.page = p /\ x \in Units(c)
    BY <1>6, <1>8
  <2>6. /\ OD \in SUBSET Claimed(t)
        /\ N \in SUBSET Block
        /\ \A c, d \in N : c = d
        /\ \A c \in OD \cup N : c.page = p
        /\ \A c \in N, d \in allocated \ OD : ~Overlap(d, c)
    BY <1>5, <1>8 DEF Overlap
  <2>7. call'[t].blk = new'[t] => new'[t] = NoBlock BY <2>1, <2>2, <1>1
  <2>8. (allocated \ OD) \cup N = allocated \cup {b} OBVIOUS
  <2>9. mapped' = mapped \cup {p} /\ held' = held /\ bitmap' = [bitmap EXCEPT ![p] = B]
    BY <1>1
  <2> HIDE DEF OD, N
  <2>10. BlocksOK' /\ allocated' = (allocated \ OD) \cup N
    <3>1. Changes(t, p, OD, N, B) /\ p \in Page
      BY <2>3, <2>4, <2>5, <2>6, <2>7, <2>9, <1>1 DEF Changes
    <3> QED BY <3>1, ChangeBlocks
  <2> QED BY <2>8, <2>10
<1>10. /\ ListsOK(links)' /\ HandsOK' /\ SuperblockClassified'
       /\ \A u \in Thread \ {t} : LocalsOK(u)'
  <2>1. \A u \in Thread \ {t} :
          call'[u] = call[u] /\ new'[u] = new[u] /\ offset'[u] = offset[u]
    BY <1>1, <1>2 DEF TypeOK
  <2>2. \A c \in allocated' : c \in allocated \/ c.page = p BY <1>5, <1>9
  <2>3. pc[t] # "munmap" BY <1>1
  <2> QED BY <1>1, <1>7, <2>1, <2>2, <2>3, ChangeBitmap
<1>11. TypeOK'
  <2>1. B \in SUBSET Unit
    <3>1. Units(b) \subseteq Unit BY <1>5, BlockFacts, UnitArith
    <3>2. HeaderUnits \subseteq Unit BY Layout DEF HeaderUnits, Run, Unit
    <3> QED BY <3>1, <3>2, <1>6
  <2> QED BY <2>1, <1>1, <1>2, <1>5 DEF TypeOK, Labels
<1>12. LocalsOK(t)'
  <2>1. pc'[t] = "unhand" /\ page'[t] = p BY <1>1, <1>2 DEF TypeOK
  <2> QED BY <2>1, <1>1, <1>3, NullDistinct DEF LocalsOK, Allocating, Holding
<1> QED BY <1>9, <1>10, <1>11, <1>12 DEF IInv

(* Thread t, at work on the page of its block, replaces the block by those *)
(* of N, one at most, whose units were the block's own or free.            *)
Replaces(t, N, B) ==
  /\ pc[t] = "update" /\ pc' = [pc EXCEPT ![t] = "unhand"]
  /\ N \in SUBSET Block
  /\ \A c, d \in N : c = d
  /\ \A c \in N : c.page = page[t]
  /\ \A c \in N : Units(c) \cap bitmap[page[t]] \subseteq Units(call[t].blk)
  /\ Claimed(t)' = (Claimed(t) \ {call[t].blk}) \cup N
  /\ call'[t].blk = new'[t] => new'[t] = NoBlock
  /\ \A u \in Thread \ {t} : call'[u] = call[u]
  /\ B = (bitmap[page[t]] \ Units(call[t].blk)) \cup UNION {Units(c) : c \in N}
  /\ bitmap' = [bitmap EXCEPT ![page[t]] = B]
  /\ mapped' = mapped /\ links' = links /\ held' = held
  /\ new' = new /\ page' = page /\ offset' = offset

LEMMA ReplaceBlock ==
  ASSUME IInv, NEW t \in Thread, NEW N, NEW B, Replaces(t, N, B)
  PROVE  /\ ListsOK(links)' /\ HandsOK' /\ BlocksOK' /\ SuperblockClassified'
         /\ \A u \in Thread \ {t} : LocalsOK(u)'
<1> DEFINE p  == page[t]
           b  == call[t].blk
           OD == {b}
<1>1. TypeOK /\ LocalsOK(t) BY DEF IInv
<1>2. p \in Page /\ b \in Block /\ b # NoBlock /\ b.page = p
  BY <1>1 DEF LocalsOK, TypeOK, Holding, Replaces
<1>3. /\ p \in mapped /\ links.list[p] = NULL
      /\ \A u \in Thread \ {t} : page[u] # p
  BY <1>2, NullDistinct DEF IInv, HandsOK, PagesExclusive, Replaces
<1>4. b \in Claimed(t) /\ b \in allocated BY <1>2 DEF Claimed, allocated
<1>5. \A c \in allocated \ OD : c.page = p => Units(c) \cap Units(b) = {}
  BY <1>2, <1>4 DEF IInv, BlocksOK, BlocksDisjoint, Overlap
<1>6. \A c \in allocated : c.page = p => Units(c) \subseteq bitmap[p]
  BY <1>3, BitsOf DEF IInv, BlocksOK
<1>7. Units(b) \cap HeaderUnits = {}
  <2>1. Units(b) \subseteq DataUnit BY <1>2, BlockFacts
  <2> QED BY <2>1, Layout DEF DataUnit, HeaderUnits, Run
<1>8. /\ N \in SUBSET Block
      /\ \A c, d \in N : c = d
      /\ OD \in SUBSET Claimed(t)
      /\ \A c \in OD \cup N : c.page = p
  BY <1>2, <1>4 DEF Replaces
<1>9. \A x : x \in B <=> \/ x \in HeaderUnits
                         \/ \E c \in N : x \in Units(c)
                         \/ \E c \in allocated \ OD : c.page = p /\ x \in Units(c)
  <2>1. \A x : x \in bitmap[p] <=> \/ x \in HeaderUnits
                                   \/ \E c \in allocated : c.page = p /\ x \in Units(c)
    BY <1>3, BitsOf DEF IInv, BlocksOK
  <2>2. \A x : x \in bitmap[p] /\ x \notin Units(b) <=>
                 \/ x \in HeaderUnits
                 \/ \E c \in allocated \ OD : c.page = p /\ x \in Units(c)
    BY <2>1, <1>2, <1>4, <1>5, <1>7
  <2>3. \A x : x \in B <=> \/ x \in bitmap[p] /\ x \notin Units(b)
                           \/ \E c \in N : x \in Units(c)
    BY DEF Replaces
  <2> QED BY <2>2, <2>3
<1>10. \A c \in N, d \in allocated \ OD : ~Overlap(d, c)
  <2>1. ASSUME NEW c \in N, NEW d \in allocated \ OD, d.page = p
        PROVE  Units(d) \cap Units(c) = {}
    <3>1. Units(c) \cap bitmap[p] \subseteq Units(b) BY DEF Replaces
    <3> QED BY <3>1, <2>1, <1>5, <1>6
  <2> QED BY <2>1, <1>8 DEF Overlap
<1>11. /\ Claimed(t)' = (Claimed(t) \ OD) \cup N
       /\ call'[t].blk = new'[t] => new'[t] = NoBlock
       /\ \A u \in Thread \ {t} :
            call'[u] = call[u] /\ new'[u] = new[u] /\ offset'[u] = offset[u]
       /\ bitmap' = [bitmap EXCEPT ![p] = B]
       /\ mapped' = mapped \cup {p} /\ links' = links /\ held' = held
       /\ page' = [page EXCEPT ![t] = p]
       /\ pc[t] # "munmap" /\ pc' = [pc EXCEPT ![t] = "unhand"]
  BY <1>1, <1>3 DEF Replaces, TypeOK
<1> HIDE DEF p, b, OD
<1>12. BlocksOK' /\ allocated' = (allocated \ OD) \cup N
  <2>1. \A u \in Thread \ {t} : call'[u] = call[u] /\ new'[u] = new[u] BY <1>11
  <2>2. /\ Claimed(t)' = (Claimed(t) \ OD) \cup N
        /\ call'[t].blk = new'[t] => new'[t] = NoBlock
        /\ bitmap' = [bitmap EXCEPT ![p] = B]
        /\ mapped' = mapped \cup {p} /\ held' = held /\ p \in Page
    BY <1>2, <1>11
  <2>3. Changes(t, p, OD, N, B)
    BY <1>8, <1>9, <1>10, <2>1, <2>2 DEF Changes
  <2> QED BY <2>2, <2>3, ChangeBlocks
<1>13. /\ ListsOK(links)' /\ HandsOK' /\ SuperblockClassified'
       /\ \A u \in Thread \ {t} : LocalsOK(u)'
  <2>1. \A c \in allocated' : c \in allocated \/ c.page = p BY <1>8, <1>12
  <2> QED BY <1>2, <1>3, <1>11, <2>1, ChangeBitmap
<1> QED BY <1>12, <1>13

LEMMA ClearBlockInv ==
  ASSUME IInv, NEW t \in Thread, ClearBlock(t)
  PROVE  IInv'
<1> DEFINE p == page[t]
           b == call[t].blk
           B == clear_bits(bitmap[p], b.off, b.len)
           N == {}
<1>1. /\ pc[t] = "update" /\ pc' = [pc EXCEPT ![t] = "unhand"]
      /\ call[t].op \in {"release", "move"}
      /\ bitmap' = [bitmap EXCEPT ![p] = B]
      /\ call' = [call EXCEPT ![t].blk = NoBlock]
      /\ UNCHANGED <<mapped, links, held, new, page, offset, fresh,
                     blocks_allocated, num_bm_pages>>
  BY DEF ClearBlock, Goto, counts
<1>2. TypeOK /\ LocalsOK(t) BY DEF IInv
<1>3. /\ p \in Page /\ b # NoBlock /\ b \in Block
      /\ call[t].op = "release" => new[t] = NoBlock
  BY <1>1, <1>2 DEF LocalsOK, TypeOK, Holding
<1>4. B = bitmap[p] \ Units(b) BY DEF clear_bits, Units
<1>5. call'[t] = [op |-> call[t].op, blk |-> NoBlock, n |-> call[t].n]
  BY <1>1, <1>2 DEF TypeOK
<1>6. b # new[t] BY <1>3 DEF IInv, BlocksOK, BlocksDisjoint
<1> HIDE DEF p, B, N
<1>7. Replaces(t, N, B)
  <2>1. Claimed(t)' = (Claimed(t) \ {call[t].blk}) \cup N
    BY <1>1, <1>3, <1>5, <1>6 DEF Claimed, N
  <2>2. call'[t].blk = new'[t] => new'[t] = NoBlock BY <1>5
  <2>3. \A u \in Thread \ {t} : call'[u] = call[u] BY <1>1, <1>2 DEF TypeOK
  <2>4. B = (bitmap[page[t]] \ Units(call[t].blk)) \cup UNION {Units(c) : c \in N}
    BY <1>4 DEF N, p
  <2> QED BY <1>1, <2>1, <2>2, <2>3, <2>4 DEF Replaces, N, p
<1>8. TypeOK' BY <1>1, <1>2, <1>3, <1>4 DEF TypeOK, Labels
<1>9. LocalsOK(t)'
  <2>1. pc'[t] = "unhand" BY <1>1, <1>2 DEF TypeOK
  <2> QED BY <2>1, <1>1, <1>2, <1>3, <1>5 DEF LocalsOK, Allocating, Holding
<1> QED BY <1>7, <1>8, <1>9, ReplaceBlock DEF IInv

LEMMA ClearTailInv ==
  ASSUME IInv, NEW t \in Thread, ClearTail(t)
  PROVE  IInv'
<1> DEFINE p == page[t]
           b == call[t].blk
           n == call[t].n
           c == block(p, b.off, n)
           B == clear_bits(bitmap[p], b.off + n, b.len - n)
           N == {c}
<1>1. /\ pc[t] = "update" /\ pc' = [pc EXCEPT ![t] = "unhand"]
      /\ call[t].op = "shrink"
      /\ bitmap' = [bitmap EXCEPT ![p] = B]
      /\ call' = [call EXCEPT ![t].blk.len = n]
      /\ UNCHANGED <<mapped, links, held, new, page, offset, fresh,
                     blocks_allocated, num_bm_pages>>
  BY DEF ClearTail, Goto, counts
<1>2. TypeOK /\ LocalsOK(t) BY DEF IInv
<1>3. p \in Page /\ b \in Block /\ b # NoBlock /\ b.page = p /\ new[t] = NoBlock
  BY <1>1, <1>2 DEF LocalsOK, TypeOK, Holding
<1>4. /\ b.off \in DataUnit /\ b.len \in NumUnits /\ b.off + b.len <= units_per_page
      /\ b = [page |-> p, off |-> b.off, len |-> b.len]
  BY <1>3, BlockFacts DEF Block
<1>5. /\ n \in NumUnits /\ b.off + n <= units_per_page /\ n < b.len
      /\ n \in Nat /\ b.off \in Nat /\ b.len \in Nat
  <2>1. n \in 1 .. (b.len - 1) BY <1>1, <1>2 DEF LocalsOK
  <2>2. b.len \in Nat /\ b.len < max_data_units BY <1>4, Layout DEF NumUnits
  <2>3. n \in Nat /\ n < b.len /\ n >= 1 BY <2>1, <2>2
  <2>4. b.off \in Nat BY <1>4, UnitArith
  <2>5. n \in NumUnits BY <2>2, <2>3, Layout DEF NumUnits
  <2> QED BY <2>2, <2>3, <2>4, <2>5, <1>4, Layout
<1>7. c \in Block /\ c.page = p /\ c.off = b.off /\ c.len = n /\ c # NoBlock
  BY <1>3, <1>4, <1>5, BlockMade
<1>8. call'[t] = [op |-> call[t].op, blk |-> c, n |-> n]
  <2>1. call'[t] = [call[t] EXCEPT !.blk = [b EXCEPT !.len = n]]
    BY <1>1, <1>2 DEF TypeOK
  <2>2. call[t] = [op |-> call[t].op, blk |-> b, n |-> n] BY <1>2, CallType
  <2>3. [b EXCEPT !.len = n] = c BY <1>4 DEF block
  <2> QED BY <2>1, <2>2, <2>3
<1>9. Units(b) = Run(b.off, b.len) /\ Units(c) = Run(b.off, n) BY <1>7 DEF Units
<1>10. /\ Units(c) \subseteq Units(b)
       /\ B = (bitmap[p] \ Units(b)) \cup Units(c)
  <2>1. Units(b) = Units(c) \cup Run(b.off + n, b.len - n) BY <1>5, <1>9, RunSplit
  <2>2. Units(c) \cap Run(b.off + n, b.len - n) = {} BY <1>5, <1>9, RunSplit
  <2>3. Units(b) \subseteq bitmap[p]
    <3>1. p \in mapped /\ b \in allocated
      BY <1>3, NullDistinct DEF IInv, HandsOK, PagesExclusive, allocated, Claimed
    <3> QED BY <3>1, <1>3, BitsOf DEF IInv, BlocksOK
  <2> QED BY <2>1, <2>2, <2>3 DEF clear_bits
<1> HIDE DEF p, n, c, B, N
<1>11. Replaces(t, N, B)
  <2>1. Claimed(t)' = (Claimed(t) \ {b}) \cup N
    BY <1>1, <1>3, <1>7, <1>8 DEF Claimed, N
  <2>2. call'[t].blk = new'[t] => new'[t] = NoBlock BY <1>1, <1>3, <1>7, <1>8
  <2>3. \A u \in Thread \ {t} : call'[u] = call[u] BY <1>1, <1>2 DEF TypeOK
  <2> QED BY <1>1, <1>7, <1>10, <2>1, <2>2, <2>3 DEF Replaces, N, p
<1>12. TypeOK'
  <2>1. B \in SUBSET Unit
    BY <1>2, <1>3, <1>7, <1>10, BlockFacts, UnitArith DEF TypeOK
  <2>2. bitmap' \in [Page -> SUBSET Unit] BY <2>1, <1>1, <1>2 DEF TypeOK
  <2>3. pc' \in [Thread -> Labels] BY <1>1, <1>2 DEF TypeOK, Labels
  <2> DEFINE Calls == [op : Operation, blk : Block \cup {NoBlock}, n : NumUnits \cup {0}]
  <2>4. call \in [Thread -> Calls] BY <1>2 DEF TypeOK
  <2>5. call[t].op \in Operation BY <2>4
  <2>6. call'[t] \in Calls BY <1>5, <1>7, <1>8, <2>5
  <2> HIDE DEF Calls
  <2>7. call' \in [Thread -> Calls]
    <3>1. call' = [call EXCEPT ![t] = call'[t]] BY <1>1, <2>4
    <3> QED BY <2>4, <2>6, <3>1
  <2> QED BY <2>2, <2>3, <2>7, <1>1, <1>2 DEF TypeOK, Calls
<1>13. LocalsOK(t)'
  <2>1. pc'[t] = "unhand" BY <1>1, <1>2 DEF TypeOK
  <2> QED BY <2>1, <1>1, <1>2, <1>3, <1>5, <1>7, <1>8, UnitArith
          DEF LocalsOK, Allocating, Holding
<1> QED BY <1>11, <1>12, <1>13, ReplaceBlock DEF IInv

LEMMA GrowInPlaceInv ==
  ASSUME IInv, NEW t \in Thread, GrowInPlace(t)
  PROVE  IInv'
<1> DEFINE p == page[t]
           b == call[t].blk
           n == call[t].n
           c == block(p, b.off, n)
           B == set_bits(bitmap[p], b.off + b.len, n - b.len)
           N == {c}
<1>1. /\ pc[t] = "update" /\ pc' = [pc EXCEPT ![t] = "unhand"]
      /\ call[t].op = "grow"
      /\ bitmap' = [bitmap EXCEPT ![p] = B]
      /\ call' = [call EXCEPT ![t].blk.len = n]
      /\ UNCHANGED <<mapped, links, held, new, page, offset, fresh,
                     blocks_allocated, num_bm_pages>>
  BY DEF GrowInPlace, Goto, counts
<1>2. TypeOK /\ LocalsOK(t) BY DEF IInv
<1>3. p \in Page /\ b \in Block /\ b # NoBlock /\ b.page = p /\ new[t] = NoBlock
  BY <1>1, <1>2 DEF LocalsOK, TypeOK, Holding
<1>4. /\ b.off \in DataUnit /\ b.len \in NumUnits /\ b.off + b.len <= units_per_page
      /\ b = [page |-> p, off |-> b.off, len |-> b.len]
  BY <1>3, BlockFacts DEF Block
<1>5. /\ n \in NumUnits /\ b.off + n <= units_per_page /\ n > b.len
      /\ n \in Nat /\ b.off \in Nat /\ b.len \in Nat
      /\ Run(b.off + b.len, n - b.len) \cap bitmap[p] = {}
  <2>1. n \in NumUnits /\ n > b.len BY <1>1, <1>2 DEF LocalsOK
  <2>2. n \in Nat /\ b.off \in Nat /\ b.len \in Nat BY <2>1, <1>4, UnitArith
  <2> DEFINE e == b.off + b.len
             z == count_zero_bits(bitmap[p], e)
  <2>3. z >= n - b.len BY DEF GrowInPlace, HasRoom
  <2>4. bitmap[p] \in SUBSET Unit BY <1>2, <1>3 DEF TypeOK
  <2>5. e \in Nat /\ e <= units_per_page BY <2>2, <1>4
  <2> HIDE DEF e, z
  <2>6. z \in Nat /\ e + z <= units_per_page /\ Run(e, z) \cap bitmap[p] = {}
    BY <2>4, <2>5, CountZeroBits DEF z
  <2>7. Run(e, n - b.len) \subseteq Run(e, z) BY <2>1, <2>2, <2>3, <2>5, <2>6 DEF Run
  <2>8. b.off + n <= units_per_page BY <2>1, <2>2, <2>3, <2>6, Layout DEF e
  <2> QED BY <2>1, <2>2, <2>6, <2>7, <2>8 DEF e
<1>7. c \in Block /\ c.page = p /\ c.off = b.off /\ c.len = n /\ c # NoBlock
  BY <1>3, <1>4, <1>5, BlockMade
<1>8. call'[t] = [op |-> call[t].op, blk |-> c, n |-> n]
  <2>1. call'[t] = [call[t] EXCEPT !.blk = [b EXCEPT !.len = n]]
    BY <1>1, <1>2 DEF TypeOK
  <2>2. call[t] = [op |-> call[t].op, blk |-> b, n |-> n] BY <1>2, CallType
  <2>3. [b EXCEPT !.len = n] = c BY <1>4 DEF block
  <2> QED BY <2>1, <2>2, <2>3
<1>9. Units(b) = Run(b.off, b.len) /\ Units(c) = Run(b.off, n) BY <1>7 DEF Units
<1>10. /\ Units(c) \cap bitmap[p] \subseteq Units(b)
       /\ B = (bitmap[p] \ Units(b)) \cup Units(c)
  <2>1. Units(c) = Units(b) \cup Run(b.off + b.len, n - b.len) BY <1>5, <1>9, RunSplit
  <2>2. Units(b) \subseteq bitmap[p]
    <3>1. p \in mapped /\ b \in allocated
      BY <1>3, NullDistinct DEF IInv, HandsOK, PagesExclusive, allocated, Claimed
    <3> QED BY <3>1, <1>3, BitsOf DEF IInv, BlocksOK
  <2> QED BY <2>1, <2>2, <1>5 DEF set_bits
<1> HIDE DEF p, n, c, B, N
<1>11. Replaces(t, N, B)
  <2>1. Claimed(t)' = (Claimed(t) \ {b}) \cup N
    BY <1>1, <1>3, <1>7, <1>8 DEF Claimed, N
  <2>2. call'[t].blk = new'[t] => new'[t] = NoBlock BY <1>1, <1>3, <1>7, <1>8
  <2>3. \A u \in Thread \ {t} : call'[u] = call[u] BY <1>1, <1>2 DEF TypeOK
  <2> QED BY <1>1, <1>7, <1>10, <2>1, <2>2, <2>3 DEF Replaces, N, p
<1>12. TypeOK'
  <2>1. B \in SUBSET Unit
    BY <1>2, <1>3, <1>7, <1>10, BlockFacts, UnitArith DEF TypeOK
  <2>2. bitmap' \in [Page -> SUBSET Unit] BY <2>1, <1>1, <1>2 DEF TypeOK
  <2>3. pc' \in [Thread -> Labels] BY <1>1, <1>2 DEF TypeOK, Labels
  <2> DEFINE Calls == [op : Operation, blk : Block \cup {NoBlock}, n : NumUnits \cup {0}]
  <2>4. call \in [Thread -> Calls] BY <1>2 DEF TypeOK
  <2>5. call[t].op \in Operation BY <2>4
  <2>6. call'[t] \in Calls BY <1>5, <1>7, <1>8, <2>5
  <2> HIDE DEF Calls
  <2>7. call' \in [Thread -> Calls]
    <3>1. call' = [call EXCEPT ![t] = call'[t]] BY <1>1, <2>4
    <3> QED BY <2>4, <2>6, <3>1
  <2> QED BY <2>2, <2>3, <2>7, <1>1, <1>2 DEF TypeOK, Calls
<1>13. LocalsOK(t)'
  <2>1. pc'[t] = "unhand" BY <1>1, <1>2 DEF TypeOK
  <2> QED BY <2>1, <1>1, <1>2, <1>3, <1>5, <1>7, <1>8, UnitArith
          DEF LocalsOK, Allocating, Holding
<1> QED BY <1>11, <1>12, <1>13, ReplaceBlock DEF IInv

-----------------------------------------------------------------------------
(* The other steps of a call that touch no list and no bitmap. *)

LEMMA GrowBlockedInv ==
  ASSUME IInv, NEW t \in Thread, GrowBlocked(t)
  PROVE  IInv'
<1>1. /\ pc[t] = "update" /\ call[t].op = "grow"
      /\ pc' = [pc EXCEPT ![t] = "unhand"]
      /\ UNCHANGED <<mapped, bitmap, links, held, call, new, page, offset, fresh,
                     blocks_allocated, num_bm_pages>>
  BY DEF GrowBlocked, Goto, pages, counts
<1>2. TypeOK /\ LocalsOK(t) BY DEF IInv
<1>3. TypeOK' BY <1>1, <1>2 DEF TypeOK, Labels
<1>4. "unhand" \in Labels \ {"munmap"} BY DEF Labels
<1>5. /\ ListsOK(links)' /\ HandsOK' /\ BlocksOK' /\ SuperblockClassified'
      /\ \A u \in Thread \ {t} : LocalsOK(u)'
  BY <1>1, <1>4, QuietStep
<1>6. LocalsOK(t)'
  <2>1. pc'[t] = "unhand" BY <1>1, <1>2 DEF TypeOK
  <2>2. call[t].blk \in Block BY <1>1, <1>2 DEF LocalsOK, TypeOK
  <2>3. call[t].n \in Nat /\ call[t].blk.len \in Nat
    BY <2>2, <1>1, <1>2, UnitArith, BlockFacts DEF LocalsOK
  <2> QED BY <2>1, <2>3, <1>1, <1>2 DEF LocalsOK, Allocating, Holding
<1> QED BY <1>3, <1>5, <1>6 DEF IInv

LEMMA StartMoveInv ==
  ASSUME IInv, NEW t \in Thread, StartMove(t)
  PROVE  IInv'
<1>1. /\ pc[t] = "return" /\ call[t].op = "grow"
      /\ call' = [call EXCEPT ![t].op = "move"]
      /\ pc' = [pc EXCEPT ![t] = "find"]
      /\ UNCHANGED <<mapped, bitmap, links, held, new, page, offset, fresh,
                     blocks_allocated, num_bm_pages>>
  BY DEF StartMove, Goto, pages, counts
<1>2. TypeOK /\ LocalsOK(t) BY DEF IInv
<1>3. call'[t] = [op |-> "move", blk |-> call[t].blk, n |-> call[t].n]
  BY <1>1, <1>2 DEF TypeOK
<1>4. TypeOK' BY <1>1, <1>2 DEF TypeOK, Labels, Operation
<1>5. "find" \in Labels \ {"munmap"} BY DEF Labels
<1>6. /\ ListsOK(links)' /\ HandsOK' /\ BlocksOK' /\ SuperblockClassified'
      /\ \A u \in Thread \ {t} : LocalsOK(u)'
  <2>1. \A u \in Thread \ {t} : call'[u] = call[u] /\ offset'[u] = offset[u]
    BY <1>1, <1>2 DEF TypeOK
  <2>2. call'[t].blk = call[t].blk /\ pc[t] # "munmap" BY <1>1, <1>3
  <2>3. UNCHANGED <<mapped, bitmap, links, held, new, page>> BY <1>1
  <2>4. pc' = [pc EXCEPT ![t] = "find"] BY <1>1
  <2> QED BY <2>1, <2>2, <2>3, <2>4, <1>5, QuietStep
<1>7. LocalsOK(t)'
  <2>1. pc'[t] = "find" BY <1>1, <1>2 DEF TypeOK
  <2> QED BY <2>1, <1>1, <1>2, <1>3 DEF LocalsOK, Allocating, Holding
<1> QED BY <1>4, <1>6, <1>7 DEF IInv

LEMMA ReleaseMovedInv ==
  ASSUME IInv, NEW t \in Thread, ReleaseMoved(t)
  PROVE  IInv'
<1>1. /\ pc[t] = "return" /\ call[t].op = "move" /\ call[t].blk # NoBlock
      /\ blocks_allocated' = blocks_allocated + 1
      /\ num_bm_pages' = num_bm_pages + IF fresh[t] THEN 1 ELSE 0
      /\ fresh' = [fresh EXCEPT ![t] = FALSE]
      /\ pc' = [pc EXCEPT ![t] = "grab"]
      /\ UNCHANGED <<mapped, bitmap, links, held, call, new, page, offset>>
  BY DEF ReleaseMoved, CountBlock, Goto, pages
<1>2. TypeOK /\ LocalsOK(t) BY DEF IInv
<1>3. TypeOK'
  <2>1. blocks_allocated' \in Int /\ num_bm_pages' \in Int BY <1>1, <1>2 DEF TypeOK
  <2> QED BY <2>1, <1>1, <1>2 DEF TypeOK, Labels
<1>4. "grab" \in Labels \ {"munmap"} BY DEF Labels
<1>5. /\ ListsOK(links)' /\ HandsOK' /\ BlocksOK' /\ SuperblockClassified'
      /\ \A u \in Thread \ {t} : LocalsOK(u)'
  BY <1>1, <1>4, QuietStep
<1>6. LocalsOK(t)'
  <2>1. pc'[t] = "grab" BY <1>1, <1>2 DEF TypeOK
  <2> QED BY <2>1, <1>1, <1>2 DEF LocalsOK, Allocating, Holding
<1> QED BY <1>3, <1>5, <1>6 DEF IInv

(* The return to the client, whatever is counted. *)
LEMMA FinishInv ==
  ASSUME IInv, NEW t \in Thread, Finish(t), pc[t] \in {"map", "return"},
         blocks_allocated' \in Int, num_bm_pages' \in Int
  PROVE  IInv'
<1>1. /\ held' = held \cup ({call[t].blk, new[t]} \ {NoBlock})
      /\ call' = [call EXCEPT ![t] = NoCall]
      /\ new' = [new EXCEPT ![t] = NoBlock]
      /\ fresh' = [fresh EXCEPT ![t] = FALSE]
      /\ pc' = [pc EXCEPT ![t] = "idle"]
      /\ UNCHANGED <<mapped, bitmap, links, page, offset>>
  BY DEF Finish, Goto, pages
<1>2. TypeOK /\ LocalsOK(t) BY DEF IInv
<1>3. TypeOK'
  <2>1. held' \subseteq Block BY <1>1, <1>2 DEF TypeOK
  <2>2. call' \in [Thread -> [op : Operation, blk : Block \cup {NoBlock},
                              n : NumUnits \cup {0}]]
    BY <1>1, <1>2 DEF TypeOK, NoCall, Operation
  <2> QED BY <2>1, <2>2, <1>1, <1>2 DEF TypeOK, Labels
<1>4. ListsOK(links)' /\ SuperblockClassified' BY <1>1 DEF IInv, SuperblockClassified
<1>5. BlocksOK' /\ allocated' = allocated BY GiveBlocks
<1>6. HandsOK'
  <2>1. \A u \in Thread : pc'[u] = "munmap" <=> pc[u] = "munmap"
    BY <1>1, <1>2 DEF TypeOK
  <2> QED BY <2>1, <1>1, <1>5, HandsFrame DEF IInv
<1>7. ASSUME NEW u \in Thread PROVE LocalsOK(u)'
  <2>1. CASE u = t
    <3>1. pc'[t] = "idle" /\ call'[t] = NoCall /\ new'[t] = NoBlock /\ page'[t] = NULL
      BY <1>1, <1>2 DEF TypeOK, LocalsOK, Holding
    <3> QED BY <2>1, <3>1 DEF LocalsOK, Allocating, Holding
  <2>2. CASE u # t
    <3>1. /\ pc'[u] = pc[u] /\ call'[u] = call[u] /\ new'[u] = new[u]
          /\ page'[u] = page[u] /\ offset'[u] = offset[u]
          /\ page[u] # NULL => bitmap'[page[u]] = bitmap[page[u]]
      BY <2>2, <1>1, <1>2 DEF TypeOK
    <3> QED BY <3>1, LocalsFrame DEF IInv
  <2> QED BY <2>1, <2>2
<1> QED BY <1>3, <1>4, <1>5, <1>6, <1>7 DEF IInv

LEMMA ReturnsInv ==
  ASSUME IInv, NEW t \in Thread,
         MapFails(t) \/ ReturnAllocated(t) \/ ReturnReleased(t) \/ ReturnResized(t)
  PROVE  IInv'
<1>1. Finish(t) /\ pc[t] \in {"map", "return"}
  BY DEF MapFails, ReturnAllocated, ReturnReleased, ReturnResized
<1>2. blocks_allocated \in Int /\ num_bm_pages \in Int BY DEF IInv, TypeOK
<1>3. blocks_allocated' \in Int /\ num_bm_pages' \in Int
  BY <1>2 DEF MapFails, ReturnAllocated, ReturnReleased, ReturnResized, CountBlock, counts
<1> QED BY <1>1, <1>3, FinishInv

-----------------------------------------------------------------------------
(* unhand_page and grab_page *)

(* What the three ways through unhand_page have in common: the page of     *)
(* thread t becomes lru_page, and the page that was, if any, stays where   *)
(* it is or is filed under its longest free block.                         *)
NewLru(t, prior) ==
  /\ pc[t] = "unhand"
  /\ prior = links.head[LRU]
  /\ ListsOK(links)'
  /\ links'.head[LRU] = page[t]
  /\ links'.head[max_data_units] = NULL
  /\ links'.list[page[t]] = LRU
  /\ \A q \in Page : q # page[t] /\ q # prior => links'.list[q] = links.list[q]
  /\ prior # NULL => links'.list[prior] \in {LRU, find_longest_free_block(bitmap[prior])}
  /\ mapped' = mapped /\ bitmap' = bitmap /\ held' = held
  /\ call' = call /\ new' = new /\ offset' = offset

(* Thread t lets go of its page, or has taken the reclaimed page instead. *)
LetsGo(t, prior) ==
  \/ page' = [page EXCEPT ![t] = NULL] /\ pc' = [pc EXCEPT ![t] = "return"]
  \/ /\ prior # NULL
     /\ page' = [page EXCEPT ![t] = prior] /\ pc' = [pc EXCEPT ![t] = "munmap"]
     /\ links'.list[prior] = LRU
     /\ \A b \in allocated : b.page # prior

LEMMA UnhandPage ==
  ASSUME IInv, NEW t \in Thread, NEW prior, NewLru(t, prior), LetsGo(t, prior)
  PROVE  /\ ListsOK(links)' /\ HandsOK' /\ BlocksOK' /\ SuperblockClassified'
         /\ \A u \in Thread : LocalsOK(u)'
<1> DEFINE p == page[t]
<1>1. TypeOK /\ LocalsOK(t) BY DEF IInv
<1>2. p \in Page BY <1>1 DEF LocalsOK, TypeOK, Holding, NewLru
<1>3. /\ p \in mapped /\ links.list[p] = NULL
      /\ \A u \in Thread \ {t} : page[u] # p
  BY <1>2, NullDistinct DEF IInv, HandsOK, PagesExclusive, NewLru
<1>4. prior # NULL =>
        /\ prior \in Page /\ prior # p /\ prior \in mapped
        /\ \A u \in Thread : page[u] # prior
  BY <1>3, LruUnheld, NullDistinct DEF NewLru
<1>5. \A u \in Thread \ {t} : page'[u] = page[u] /\ pc'[u] = pc[u]
  BY <1>1 DEF LetsGo, TypeOK
<1>6. \/ page'[t] = NULL /\ pc'[t] = "return"
      \/ /\ prior # NULL /\ page'[t] = prior /\ pc'[t] = "munmap"
         /\ links'.list[prior] = LRU
         /\ \A b \in allocated : b.page # prior
  BY <1>1 DEF LetsGo, TypeOK
<1> HIDE DEF p
<1>7. BlocksOK' /\ allocated' = allocated BY BlocksFrame DEF IInv, NewLru
<1>8. SuperblockClassified'
  <2> SUFFICES ASSUME NEW q \in Page, links'.list[q] \notin {NULL, LRU}
               PROVE  links'.list[q] = find_longest_free_block(bitmap[q])
    BY DEF SuperblockClassified, NewLru
  <2>1. q # p BY DEF NewLru, p
  <2>2. CASE q = prior BY <2>2, <1>4, NullDistinct DEF NewLru
  <2>3. CASE q # prior
    BY <2>1, <2>3 DEF NewLru, p, IInv, SuperblockClassified
  <2> QED BY <2>2, <2>3
<1>9. \A q \in Page : links'.list[q] # NULL => q \in mapped'
  <2> SUFFICES ASSUME NEW q \in Page, links'.list[q] # NULL PROVE q \in mapped
    BY DEF NewLru
  <2> QED BY <1>3, <1>4, NullDistinct DEF NewLru, p, IInv, HandsOK
<1>10. \A u \in Thread \ {t} : page[u] # NULL =>
         /\ page[u] \in Page
         /\ links'.list[page[u]] = links.list[page[u]]
         /\ links'.head[LRU] # page[u]
  BY <1>1, <1>3, <1>4 DEF NewLru, p, TypeOK
<1>11. PagesExclusive'
  <2> SUFFICES ASSUME NEW u \in Thread, page'[u] # NULL
               PROVE  /\ page'[u] \in mapped'
                      /\ pc'[u] # "munmap" => links'.list[page'[u]] = NULL
                      /\ \A v \in Thread \ {u} : page'[v] # page'[u]
    BY DEF PagesExclusive
  <2>1. mapped' = mapped BY DEF NewLru
  <2>2. CASE u = t BY <2>1, <2>2, <1>4, <1>5, <1>6
  <2>3. CASE u # t
    <3>1. page'[u] = page[u] /\ pc'[u] = pc[u] BY <2>3, <1>5
    <3>2. /\ page[u] \in mapped
          /\ pc[u] # "munmap" => links.list[page[u]] = NULL
          /\ \A v \in Thread \ {u} : page[v] # page[u]
      BY <3>1 DEF IInv, HandsOK, PagesExclusive
    <3>3. page'[t] # page[u] BY <2>3, <3>1, <1>4, <1>6
    <3> QED BY <2>1, <2>3, <3>1, <3>2, <3>3, <1>5, <1>10
  <2> QED BY <2>2, <2>3
<1>12. ASSUME NEW u \in Thread, pc'[u] = "munmap"
       PROVE  /\ links'.list[page'[u]] = LRU
              /\ links'.head[LRU] # page'[u]
              /\ \A b \in allocated' : b.page # page'[u]
  <2>1. CASE u = t BY <2>1, <1>4, <1>6, <1>7, <1>12 DEF NewLru, p
  <2>2. CASE u # t
    <3>1. page'[u] = page[u] /\ pc[u] = "munmap" BY <2>2, <1>5, <1>12
    <3>2. page[u] # NULL BY <3>1 DEF IInv, LocalsOK, Holding
    <3>3. /\ links.list[page[u]] = LRU
          /\ \A b \in allocated : b.page # page[u]
      BY <3>1 DEF IInv, HandsOK
    <3> QED BY <2>2, <3>1, <3>2, <3>3, <1>7, <1>10
  <2> QED BY <2>1, <2>2
<1>13. ASSUME NEW u \in Thread PROVE LocalsOK(u)'
  <2>1. CASE u = t
    <3>1. page'[t] # NULL <=> pc'[t] = "munmap" BY <1>6
    <3>2. pc'[t] \in {"return", "munmap"} BY <1>6
    <3>3. pc[t] = "unhand" /\ call' = call /\ new' = new BY DEF NewLru
    <3> QED BY <2>1, <3>1, <3>2, <3>3, <1>1 DEF LocalsOK, Allocating, Holding
  <2>2. CASE u # t
    <3>1. /\ call'[u] = call[u] /\ new'[u] = new[u] /\ offset'[u] = offset[u]
          /\ page[u] # NULL => bitmap'[page[u]] = bitmap[page[u]]
      BY DEF NewLru
    <3> QED BY <2>2, <3>1, <1>5, LocalsFrame DEF IInv
  <2> QED BY <2>1, <2>2
<1>14. ListsOK(links)' BY DEF NewLru
<1> QED BY <1>7, <1>8, <1>9, <1>11, <1>12, <1>13, <1>14 DEF HandsOK

(* What set_lru does to the lists. *)
LEMMA SetLruEffect ==
  ASSUME NEW L, NEW p \in Page,
         L.head \in [ListId -> Page \cup {NULL}],
         L.list \in [Page -> ListId \cup {NULL}]
  PROVE  /\ set_lru(L, p).head[LRU] = p
         /\ \A k \in ListId : k # LRU => set_lru(L, p).head[k] = L.head[k]
         /\ set_lru(L, p).list[p] = LRU
         /\ \A q \in Page : q # p => set_lru(L, p).list[q] = L.list[q]
<1>1. /\ set_lru(L, p).head = [L.head EXCEPT ![LRU] = p]
      /\ set_lru(L, p).list = [L.list EXCEPT ![p] = LRU]
  BY DEF set_lru
<1> QED BY <1>1, NullDistinct

(* The thread's page in unhand_page, and the lists there. *)
LEMMA UnhandFacts ==
  ASSUME IInv, NEW t \in Thread, pc[t] = "unhand"
  PROVE  /\ page[t] \in Page /\ links.list[page[t]] = NULL
         /\ ListsOK(links)
         /\ links.head \in [ListId -> Page \cup {NULL}]
         /\ links.list \in [Page -> ListId \cup {NULL}]
         /\ max_data_units \in ListId /\ max_data_units # LRU
         /\ links.head[max_data_units] = NULL
<1>1. page[t] \in Page BY DEF IInv, LocalsOK, TypeOK, Holding
<1>2. links.list[page[t]] = NULL
  BY <1>1, NullDistinct DEF IInv, HandsOK, PagesExclusive
<1>3. max_data_units \in ListId /\ max_data_units # LRU
  BY Layout, ListsAssumption DEF ListId
<1>4. /\ links.head \in [ListId -> Page \cup {NULL}]
      /\ links.list \in [Page -> ListId \cup {NULL}]
  BY DEF IInv, ListsOK, Links
<1> QED BY <1>1, <1>2, <1>3, <1>4 DEF IInv, SuperblockClassified

LEMMA UnhandInv ==
  ASSUME IInv, NEW t \in Thread, Unhand(t)
  PROVE  IInv'
<1>1. /\ pc[t] = "unhand" /\ links.head[LRU] = NULL
      /\ links' = set_lru(links, page[t])
      /\ page' = [page EXCEPT ![t] = NULL] /\ pc' = [pc EXCEPT ![t] = "return"]
      /\ UNCHANGED <<mapped, bitmap, held, call, new, offset, fresh,
                     blocks_allocated, num_bm_pages>>
  BY DEF Unhand, Goto, counts
<1>2. TypeOK BY DEF IInv
<1>3. ListsOK(links)' BY <1>1, UnhandFacts, SetLruOK
<1>4. NewLru(t, NULL)
  <2>1. /\ links'.head[LRU] = page[t]
        /\ links'.head[max_data_units] = NULL
        /\ links'.list[page[t]] = LRU
        /\ \A q \in Page : q # page[t] => links'.list[q] = links.list[q]
    BY <1>1, UnhandFacts, SetLruEffect
  <2> QED BY <2>1, <1>1, <1>3 DEF NewLru
<1>5. LetsGo(t, NULL) BY <1>1 DEF LetsGo
<1>6. TypeOK' BY <1>1, <1>2, <1>3 DEF TypeOK, Labels, ListsOK
<1> QED BY <1>4, <1>5, <1>6, UnhandPage DEF IInv

LEMMA UnhandToSuperblockInv ==
  ASSUME IInv, NEW t \in Thread, UnhandToSuperblock(t)
  PROVE  IInv'
<1> DEFINE prior == links.head[LRU]
           lfb   == find_longest_free_block(bitmap[prior])
           L     == add_to_list(links, lfb, prior)
<1>1. /\ pc[t] = "unhand" /\ prior # NULL /\ lfb < max_data_units
      /\ links' = set_lru(L, page[t])
      /\ page' = [page EXCEPT ![t] = NULL] /\ pc' = [pc EXCEPT ![t] = "return"]
      /\ UNCHANGED <<mapped, bitmap, held, call, new, offset, fresh,
                     blocks_allocated, num_bm_pages>>
  BY DEF UnhandToSuperblock, Goto, counts
<1>2. TypeOK BY DEF IInv
<1>3. prior \in Page /\ links.list[prior] = LRU BY <1>1, LruUnheld
<1>4. lfb \in 0 .. max_data_units BY <1>2, <1>3, LongestFreeBlock DEF TypeOK
<1>5. lfb \in ListId \ {LRU} /\ lfb # max_data_units
  BY <1>1, <1>4, Layout, ListsAssumption DEF ListId
<1>6. ListsOK(links)'
  <2>1. prior = links.head[LRU] OBVIOUS
  <2> HIDE DEF prior, lfb
  <2> QED BY <2>1, <1>1, <1>3, <1>5, UnhandFacts, MoveLruOK
<1>7. /\ L.list = [links.list EXCEPT ![prior] = lfb]
      /\ L.head \in {links.head, [links.head EXCEPT ![lfb] = prior]}
  <2> HIDE DEF prior, lfb
  <2> QED BY DEF add_to_list
<1>8. /\ L.head \in [ListId -> Page \cup {NULL}]
      /\ L.list \in [Page -> ListId \cup {NULL}]
  <2> HIDE DEF prior, lfb, L
  <2> QED BY <1>1, <1>3, <1>5, <1>7, UnhandFacts
<1>9. page[t] # prior BY <1>3, <1>1, UnhandFacts, NullDistinct
<1>10. NewLru(t, prior)
  <2> HIDE DEF L
  <2>1. /\ links'.head[LRU] = page[t]
        /\ links'.head[max_data_units] = L.head[max_data_units]
        /\ links'.list[page[t]] = LRU
        /\ \A q \in Page : q # page[t] => links'.list[q] = L.list[q]
    BY <1>1, <1>8, UnhandFacts, SetLruEffect
  <2>2. L.head[max_data_units] = NULL
    <3> HIDE DEF lfb, prior
    <3> QED BY <1>1, <1>5, <1>7, UnhandFacts
  <2>3. L.list[prior] = lfb /\ \A q \in Page : q # prior => L.list[q] = links.list[q]
    <3> HIDE DEF lfb
    <3> QED BY <1>1, <1>3, <1>7, UnhandFacts
  <2>4. links'.list[prior] = lfb BY <2>1, <2>3, <1>3, <1>9
  <2>5. \A q \in Page : q # page[t] /\ q # prior => links'.list[q] = links.list[q]
    BY <2>1, <2>3
  <2> QED BY <2>1, <2>2, <2>4, <2>5, <1>1, <1>6 DEF NewLru
<1>11. LetsGo(t, prior) BY <1>1 DEF LetsGo
<1>12. TypeOK'
  <2> HIDE DEF L
  <2> QED BY <1>1, <1>2, <1>6 DEF TypeOK, Labels, ListsOK
<1> QED BY <1>10, <1>11, <1>12, UnhandPage DEF IInv

(* A page whose data units are all free carries no block. *)
LEMMA FreePageHasNoBlock ==
  ASSUME IInv, NEW p \in mapped, find_longest_free_block(bitmap[p]) >= max_data_units
  PROVE  \A b \in allocated : b.page # p
<1> SUFFICES ASSUME NEW b \in allocated, b.page = p PROVE FALSE OBVIOUS
<1>1. p \in Page /\ bitmap[p] \in SUBSET Unit BY DEF IInv, TypeOK
<1>2. bitmap[p] \cap DataUnit = {} BY <1>1, LongestOfFreePage
<1>3. b \in Block BY AllocatedType DEF IInv
<1>4. Units(b) \subseteq bitmap[p] BY <1>1, BitsOf DEF IInv, BlocksOK
<1> QED BY <1>2, <1>3, <1>4, BlockFacts

LEMMA UnhandAndReclaimInv ==
  ASSUME IInv, NEW t \in Thread, UnhandAndReclaim(t)
  PROVE  IInv'
<1> DEFINE prior == links.head[LRU]
<1>1. /\ pc[t] = "unhand" /\ prior # NULL
      /\ find_longest_free_block(bitmap[prior]) >= max_data_units
      /\ links' = set_lru(links, page[t])
      /\ page' = [page EXCEPT ![t] = prior] /\ pc' = [pc EXCEPT ![t] = "munmap"]
      /\ UNCHANGED <<mapped, bitmap, held, call, new, offset, fresh,
                     blocks_allocated, num_bm_pages>>
  BY DEF UnhandAndReclaim, Goto, counts
<1>2. TypeOK BY DEF IInv
<1>3. prior \in Page /\ links.list[prior] = LRU /\ prior \in mapped
  BY <1>1, LruUnheld
<1>4. page[t] # prior BY <1>3, <1>1, UnhandFacts, NullDistinct
<1>5. \A b \in allocated : b.page # prior BY <1>1, <1>3, FreePageHasNoBlock
<1>6. ListsOK(links)' BY <1>1, UnhandFacts, SetLruOK
<1>7. /\ links'.head[LRU] = page[t]
      /\ links'.head[max_data_units] = NULL
      /\ links'.list[page[t]] = LRU
      /\ \A q \in Page : q # page[t] => links'.list[q] = links.list[q]
  BY <1>1, UnhandFacts, SetLruEffect
<1>8. links'.list[prior] = LRU BY <1>3, <1>4, <1>7
<1>9. NewLru(t, prior) BY <1>1, <1>6, <1>7, <1>8 DEF NewLru
<1>10. LetsGo(t, prior) BY <1>1, <1>5, <1>8 DEF LetsGo
<1>11. TypeOK'
  <2> HIDE DEF prior
  <2> QED BY <1>1, <1>2, <1>3, <1>6 DEF TypeOK, Labels, ListsOK
<1> QED BY <1>9, <1>10, <1>11, UnhandPage DEF IInv

LEMMA MunmapInv ==
  ASSUME IInv, NEW t \in Thread, Munmap(t)
  PROVE  IInv'
<1> DEFINE p == page[t]
<1>1. /\ pc[t] = "munmap" /\ pc' = [pc EXCEPT ![t] = "return"]
      /\ mapped' = mapped \ {p}
      /\ bitmap' = [bitmap EXCEPT ![p] = {}]
      /\ links' = forget(links, p)
      /\ page' = [page EXCEPT ![t] = NULL]
      /\ num_bm_pages' = num_bm_pages - 1
      /\ UNCHANGED <<held, call, new, offset, fresh, blocks_allocated>>
  BY DEF Munmap, Goto
<1>2. TypeOK /\ LocalsOK(t) BY DEF IInv
<1>3. p \in Page BY <1>1, <1>2 DEF LocalsOK, TypeOK, Holding
<1>4. /\ links.list[p] = LRU /\ links.head[LRU] # p
      /\ \A b \in allocated : b.page # p
      /\ \A u \in Thread \ {t} : page[u] # p
  BY <1>1, <1>3, NullDistinct DEF IInv, HandsOK, PagesExclusive
<1> HIDE DEF p
<1>5. ListsOK(links)' BY <1>1, <1>3, <1>4, ForgetOK DEF IInv
<1>6. /\ links'.head = links.head
      /\ links'.list = [links.list EXCEPT ![p] = NULL]
  <2>1. links \in Links BY DEF IInv, ListsOK
  <2> QED BY <2>1, <1>1 DEF forget, Links
<1>7. /\ links'.list[p] = NULL
      /\ \A q \in Page : q # p => links'.list[q] = links.list[q] /\ bitmap'[q] = bitmap[q]
  <2>1. links.list \in [Page -> ListId \cup {NULL}] BY DEF IInv, ListsOK, Links
  <2> QED BY <2>1, <1>1, <1>2, <1>3, <1>6 DEF TypeOK
<1>8. allocated' = allocated /\ \A u \in Thread : Claimed(u)' = Claimed(u)
  BY <1>1 DEF allocated, Claimed
<1>9. BlocksOK'
  <2>1. BlocksDisjoint'
    BY <1>1, <1>8 DEF IInv, BlocksOK, BlocksDisjoint, Overlap, Units
  <2>2. BlocksMapped' BY <1>1, <1>4, <1>8 DEF IInv, BlocksOK, BlocksMapped
  <2>3. BitmapExact'
    BY <1>1, <1>2, <1>7, <1>8 DEF IInv, BlocksOK, BitmapExact, TypeOK
  <2> QED BY <2>1, <2>2, <2>3 DEF BlocksOK
<1>10. SuperblockClassified'
  BY <1>6, <1>7, NullDistinct DEF IInv, SuperblockClassified
<1>11. page'[t] = NULL /\ pc'[t] = "return"
       /\ \A u \in Thread \ {t} : page'[u] = page[u] /\ pc'[u] = pc[u]
  BY <1>1, <1>2 DEF TypeOK
<1>12. \A u \in Thread \ {t} : page[u] # NULL => page[u] \in Page /\ page[u] # p
  BY <1>2, <1>4 DEF TypeOK
<1>13. PagesExclusive'
  <2> SUFFICES ASSUME NEW u \in Thread, page'[u] # NULL
               PROVE  /\ page'[u] \in mapped'
                      /\ pc'[u] # "munmap" => links'.list[page'[u]] = NULL
                      /\ \A v \in Thread \ {u} : page'[v] # page'[u]
    BY DEF PagesExclusive
  <2>1. u # t /\ page'[u] = page[u] /\ pc'[u] = pc[u] BY <1>11
  <2>2. /\ page[u] \in mapped
        /\ pc[u] # "munmap" => links.list[page[u]] = NULL
        /\ \A v \in Thread \ {u} : page[v] # page[u]
    BY <2>1 DEF IInv, HandsOK, PagesExclusive
  <2> QED BY <2>1, <2>2, <1>1, <1>7, <1>11, <1>12
<1>14. \A q \in Page : links'.list[q] # NULL => q \in mapped'
  BY <1>1, <1>7 DEF IInv, HandsOK
<1>15. ASSUME NEW u \in Thread, pc'[u] = "munmap"
       PROVE  /\ links'.list[page'[u]] = LRU
              /\ links'.head[LRU] # page'[u]
              /\ \A b \in allocated' : b.page # page'[u]
  <2>1. u # t /\ page'[u] = page[u] /\ pc[u] = "munmap" BY <1>11, <1>15
  <2>2. page[u] # NULL BY <2>1 DEF IInv, LocalsOK, Holding
  <2> QED BY <2>1, <2>2, <1>6, <1>7, <1>8, <1>12 DEF IInv, HandsOK
<1>16. ASSUME NEW u \in Thread PROVE LocalsOK(u)'
  <2>1. CASE u = t BY <2>1, <1>1, <1>2, <1>11 DEF LocalsOK, Allocating, Holding
  <2>2. CASE u # t
    <3>1. page[u] # NULL => bitmap'[page[u]] = bitmap[page[u]] BY <2>2, <1>7, <1>12
    <3> QED BY <2>2, <3>1, <1>1, <1>11, LocalsFrame DEF IInv
  <2> QED BY <2>1, <2>2
<1>17. TypeOK'
  <2>1. num_bm_pages' \in Int BY <1>1, <1>2 DEF TypeOK
  <2> QED BY <2>1, <1>1, <1>2, <1>3, <1>5 DEF TypeOK, Labels, ListsOK
<1> QED BY <1>5, <1>9, <1>10, <1>13, <1>14, <1>15, <1>16, <1>17 DEF IInv, HandsOK

LEMMA GrabInv ==
  ASSUME IInv, NEW t \in Thread, Grab(t)
  PROVE  IInv'
<1> DEFINE p == call[t].blk.page
<1>1. /\ pc[t] = "grab" /\ pc' = [pc EXCEPT ![t] = "update"]
      /\ links.list[p] # NULL
      /\ page' = [page EXCEPT ![t] = p]
      /\ links' = delete_from_list(links, p)
      /\ UNCHANGED <<mapped, bitmap, held, call, new, offset, fresh,
                     blocks_allocated, num_bm_pages>>
  BY DEF Grab, Goto, counts
<1>2. TypeOK /\ LocalsOK(t) BY DEF IInv
<1>3. call[t].blk # NoBlock /\ page[t] = NULL BY <1>1, <1>2 DEF LocalsOK, Holding
<1>4. call[t].blk \in allocated BY <1>3 DEF allocated, Claimed
<1>5. p \in Page
  <2>1. call[t].blk \in Block BY <1>2, <1>4, AllocatedType
  <2> QED BY <2>1, BlockFacts
<1>6. \A u \in Thread : page[u] # p
  <2> SUFFICES ASSUME NEW u \in Thread, page[u] = p PROVE FALSE OBVIOUS
  <2>1. pc[u] = "munmap" BY <1>1, <1>5, NullDistinct DEF IInv, HandsOK, PagesExclusive
  <2> QED BY <2>1, <1>4 DEF IInv, HandsOK
<1> HIDE DEF p
<1>7. "update" \in Holding \ {"munmap"} BY DEF Holding
<1>8. ListsOK(links)' /\ HandsOK' /\ BlocksOK' /\ SuperblockClassified'
  <2>1. UNCHANGED <<mapped, bitmap, held, call, new>> BY <1>1
  <2> QED BY <2>1, <1>1, <1>3, <1>5, <1>6, <1>7, TakePage
<1>9. TypeOK' BY <1>1, <1>2, <1>5, <1>8 DEF TypeOK, Labels, ListsOK
<1>10. ASSUME NEW u \in Thread PROVE LocalsOK(u)'
  <2>1. CASE u = t
    <3>1. pc'[t] = "update" /\ page'[t] = p BY <1>1, <1>2 DEF TypeOK
    <3> QED BY <2>1, <3>1, <1>1, <1>2, <1>5, NullDistinct
            DEF LocalsOK, Allocating, Holding, p
  <2>2. CASE u # t BY <2>2, <1>1, <1>2, LocalsFrame DEF IInv, TypeOK
  <2> QED BY <2>1, <2>2
<1> QED BY <1>8, <1>9, <1>10 DEF IInv

-----------------------------------------------------------------------------
(* The invariant. *)

LEMMA InitInv == Init => IInv
<1> SUFFICES ASSUME Init PROVE IInv OBVIOUS
<1>1. links \in Links BY DEF Init, NoPages, Links
<1>2. ListsOK(links)
  BY <1>1, NullDistinct DEF Init, NoPages, ListsOK, HeadsListed, RingOrStale,
                            RingsClosed, LruSingle
<1>3. TypeOK BY <1>1 DEF Init, TypeOK, Labels, Operation, NoCall
<1>4. \A t \in Thread : LocalsOK(t)
  BY DEF Init, LocalsOK, Allocating, Holding
<1>5. allocated = {} /\ \A t \in Thread : Claimed(t) = {}
  BY DEF Init, allocated, Claimed, NoCall
<1>6. HandsOK BY DEF Init, HandsOK, PagesExclusive, NoPages
<1>7. BlocksOK
  BY <1>5 DEF Init, BlocksOK, BlocksDisjoint, BlocksMapped, BitmapExact
<1>8. SuperblockClassified
  <2>1. max_data_units \in ListId BY Layout DEF ListId
  <2> QED BY <2>1 DEF Init, SuperblockClassified, NoPages
<1> QED BY <1>2, <1>3, <1>4, <1>6, <1>7, <1>8 DEF IInv

LEMMA StutterInv == IInv /\ UNCHANGED vars => IInv'
<1> SUFFICES ASSUME IInv, UNCHANGED vars PROVE IInv' OBVIOUS
<1>1. UNCHANGED <<mapped, bitmap, links, held, pc, call, new, page, offset, fresh,
                  blocks_allocated, num_bm_pages>>
  BY DEF vars
<1>2. TypeOK' BY <1>1 DEF IInv, TypeOK
<1>3. ListsOK(links)' /\ SuperblockClassified'
  BY <1>1 DEF IInv, SuperblockClassified
<1>4. BlocksOK' /\ allocated' = allocated BY <1>1, BlocksFrame DEF IInv
<1>5. HandsOK' BY <1>1, <1>4, HandsFrame DEF IInv
<1>6. \A t \in Thread : LocalsOK(t)' BY <1>1, LocalsFrame DEF IInv
<1> QED BY <1>2, <1>3, <1>4, <1>5, <1>6 DEF IInv

LEMMA CallInv ==
  ASSUME IInv, NEW t \in Thread, Call(t)
  PROVE  IInv'
BY CallAllocateInv, CallReleaseInv, CallReallocateInv DEF Call

LEMMA StepInv ==
  ASSUME IInv, NEW t \in Thread, Step(t)
  PROVE  IInv'
BY TakeLruInv, ScanLruInv, PutBackInv, TakeFromSuperblockInv, SuperblockMissInv,
   ScanSuperblockInv, SetBitsInv, MapPageInv, UnhandInv, UnhandToSuperblockInv,
   UnhandAndReclaimInv, MunmapInv, GrabInv, ClearBlockInv, ClearTailInv,
   GrowInPlaceInv, GrowBlockedInv, ReturnsInv, StartMoveInv, ReleaseMovedInv
   DEF Step

(* Every reachable state of the allocator satisfies the inductive          *)
(* invariant: no step of any thread, in any order, leaves it.              *)
THEOREM InvariantHolds == Spec => []IInv
<1>1. IInv /\ [Next]_vars => IInv' BY StutterInv, CallInv, StepInv DEF Next
<1> QED BY <1>1, InitInv, PTL DEF Spec

(* Every variable keeps its type; page lists link pages and nothing else.  *)
THEOREM TypeCorrect == Spec => []TypeOK
<1>1. IInv => TypeOK BY DEF IInv
<1> QED BY <1>1, InvariantHolds, PTL

(* A page find_available_page, grab_page or unhand_page has taken out of   *)
(* the lists is in one thread's hands, mapped and on no list, so the work  *)
(* on it outside the lock is safe.                                         *)
THEOREM PagesAreExclusive == Spec => []PagesExclusive
<1>1. IInv => PagesExclusive BY DEF IInv, HandsOK
<1> QED BY <1>1, InvariantHolds, PTL

(* No two blocks overlap and no block has two owners, through every        *)
(* interleaving of allocate, release, shrink, grow and move.               *)
THEOREM BlocksAreDisjoint == Spec => []BlocksDisjoint
<1>1. IInv => BlocksDisjoint BY DEF IInv, BlocksOK
<1> QED BY <1>1, InvariantHolds, PTL

(* munmap never takes away a page with a block on it. *)
THEOREM BlocksAreMapped == Spec => []BlocksMapped
<1>1. IInv => BlocksMapped BY DEF IInv, BlocksOK
<1> QED BY <1>1, InvariantHolds, PTL

(* The bitmap of a page is its header and its blocks at every step, so no  *)
(* unit is leaked or freed twice.                                          *)
THEOREM BitmapIsExact == Spec => []BitmapExact
<1>1. IInv => BitmapExact BY DEF IInv, BlocksOK
<1> QED BY <1>1, InvariantHolds, PTL

(* The superblock files every page under its longest free block. *)
THEOREM SuperblockIsClassified == Spec => []SuperblockClassified
<1>1. IInv => SuperblockClassified BY DEF IInv
<1> QED BY <1>1, InvariantHolds, PTL

(* find_available_page never calls abort: a page taken from the superblock *)
(* has room for the block.                                                 *)
THEOREM NeverAborts == Spec => []NoAbort
<1>1. IInv => NoAbort BY DEF IInv, LocalsOK, NoAbort
<1> QED BY <1>1, InvariantHolds, PTL

(* add_to_list and delete_from_list follow no pointer to an unmapped page, *)
(* although delete_from_list may lose pages.                               *)
THEOREM LinksAreSafe == Spec => []LinksSafe
<1>1. IInv => LinksSafe
  BY DEF IInv, HandsOK, ListsOK, RingOrStale, LinksSafe
<1> QED BY <1>1, InvariantHolds, PTL
-----------------------------------------------------------------------------
(* The promises to clients.  Seen by the cells of its blocks, every step   *)
(* of every thread allocates, releases, shrinks or grows one block, or     *)
(* changes nothing.  And at each point of a call it is known which blocks  *)
(* and pages are counted.                                                  *)


CellSets(B) == {Cells(b) : b \in B}

Others(t) == UNION {Claimed(u) : u \in Thread \ {t}}

-----------------------------------------------------------------------------
(* Who has the blocks. *)

LEMMA AllocatedSplit ==
  ASSUME NEW t \in Thread
  PROVE  allocated = held \cup Claimed(t) \cup Others(t)
BY DEF allocated, Others

(* The other threads keep their blocks. *)
LEMMA OthersKeep ==
  ASSUME NEW t \in Thread,
         \A u \in Thread \ {t} : call'[u].blk = call[u].blk /\ new'[u] = new[u]
  PROVE  allocated' = held' \cup Claimed(t)' \cup Others(t)
<1>1. \A u \in Thread \ {t} : Claimed(u)' = Claimed(u) BY DEF Claimed
<1>2. Others(t)' = Others(t) BY <1>1 DEF Others
<1>3. allocated' = held' \cup Claimed(t)' \cup Others(t)' BY DEF allocated, Others
<1> QED BY <1>2, <1>3

LEMMA OneOwner ==
  ASSUME IInv, NEW t \in Thread
  PROVE  Claimed(t) \cap (held \cup Others(t)) = {}
BY DEF IInv, BlocksOK, BlocksDisjoint, Others

(* The steps that neither make nor change a block. *)
LEMMA BlocksStay ==
  ASSUME held' = held, new' = new, \A u \in Thread : call'[u].blk = call[u].blk
  PROVE  allocated' = allocated
<1>1. \A u \in Thread : Claimed(u)' = Claimed(u) BY DEF Claimed
<1> QED BY <1>1 DEF allocated

-----------------------------------------------------------------------------
(* The cells. *)

LEMMA CellsOf ==
  ASSUME NEW b \in Block
  PROVE  /\ \A x, y : <<x, y>> \in Cells(b) <=> x = b.page /\ y \in Units(b)
         /\ \A z \in Cells(b) : z = <<b.page, z[2]>> /\ z[2] \in Units(b)
         /\ <<b.page, b.off>> \in Cells(b)
BY BlockFacts DEF Cells

(* Blocks apart are apart in their cells. *)
LEMMA CellsApart ==
  ASSUME NEW b \in Block, NEW c \in Block, ~Overlap(b, c)
  PROVE  Cells(b) \cap Cells(c) = {} /\ Cells(b) # Cells(c)
<1>1. Cells(b) \cap Cells(c) = {}
  <2> SUFFICES ASSUME NEW z \in Cells(b), z \in Cells(c) PROVE FALSE
    OBVIOUS
  <2>1. z = <<b.page, z[2]>> /\ z[2] \in Units(b) BY CellsOf
  <2>2. z = <<c.page, z[2]>> /\ z[2] \in Units(c) BY CellsOf
  <2>3. b.page = c.page BY <2>1, <2>2
  <2> QED BY <2>1, <2>2, <2>3 DEF Overlap
<1> QED BY <1>1, CellsOf

LEMMA CellsWithin ==
  ASSUME NEW b \in Block, NEW c \in Block, b.page = c.page, Units(b) \subseteq Units(c)
  PROVE  Cells(b) \subseteq Cells(c)
BY DEF Cells

(* Without a block, the store is without its cells. *)
LEMMA CellsWithout ==
  ASSUME NEW A \in SUBSET Block, \A b, c \in A : b # c => ~Overlap(b, c), NEW b \in A
  PROVE  /\ CellSets(A \ {b}) = CellSets(A) \ {Cells(b)}
         /\ Cells(b) \cap UNION CellSets(A \ {b}) = {}
<1>1. \A c \in A \ {b} : Cells(b) \cap Cells(c) = {} /\ Cells(b) # Cells(c)
  BY CellsApart
<1> HIDE DEF Cells
<1> QED BY <1>1 DEF CellSets

-----------------------------------------------------------------------------
(* The four steps of a store, from what they do to the allocated blocks.   *)

StoreStep == Store!Next \/ UNCHANGED CellSets(allocated)

LEMMA StoreAllocates ==
  ASSUME IInv, IInv', NEW b \in Block, allocated' = allocated \cup {b}
  PROVE  StoreStep
<1>1. CASE b \in allocated
  <2>1. allocated' = allocated BY <1>1
  <2> QED BY <2>1 DEF StoreStep, CellSets
<1>2. CASE b \notin allocated
  <2> DEFINE A == allocated \cup {b}
  <2>1. /\ A \in SUBSET Block /\ b \in A /\ A \ {b} = allocated
        /\ \A c, d \in A : c # d => ~Overlap(c, d)
    <3>1. allocated \subseteq Block BY AllocatedType DEF IInv
    <3>2. \A c, d \in allocated' : c # d => ~Overlap(c, d)'
      BY DEF IInv, BlocksOK, BlocksDisjoint
    <3>3. \A c, d : Overlap(c, d)' <=> Overlap(c, d) BY DEF Overlap
    <3> QED BY <1>2, <3>1, <3>2, <3>3
  <2> HIDE DEF A
  <2>2. Cells(b) \cap UNION CellSets(A \ {b}) = {} BY <2>1, CellsWithout
  <2>3. Cells(b) \cap UNION CellSets(allocated) = {} BY <2>1, <2>2
  <2>4. CellSets(allocated)' = CellSets(allocated) \cup {Cells(b)} BY DEF CellSets
  <2>5. Store!Allocate BY <2>3, <2>4 DEF Store!Allocate, CellSets
  <2> QED BY <2>5 DEF StoreStep, Store!Next
<1> QED BY <1>1, <1>2

LEMMA StoreReleases ==
  ASSUME IInv, NEW b \in allocated, allocated' = allocated \ {b}
  PROVE  StoreStep
<1>1. /\ allocated \in SUBSET Block
      /\ \A c, d \in allocated : c # d => ~Overlap(c, d)
  BY AllocatedType DEF IInv, BlocksOK, BlocksDisjoint
<1>2. CellSets(allocated)' = CellSets(allocated) \ {Cells(b)}
  <2>1. CellSets(allocated \ {b}) = CellSets(allocated) \ {Cells(b)}
    BY <1>1, CellsWithout
  <2>2. CellSets(allocated)' = CellSets(allocated \ {b}) BY DEF CellSets
  <2> QED BY <2>1, <2>2
<1>3. Cells(b) \in CellSets(allocated) BY DEF CellSets
<1>4. Store!Release BY <1>2, <1>3 DEF Store!Release, CellSets
<1> QED BY <1>4 DEF StoreStep, Store!Next

LEMMA StoreResizes ==
  ASSUME IInv, IInv', NEW b \in allocated, NEW c \in Block, c.page = b.page,
         allocated' = (allocated \ {b}) \cup {c},
         Units(c) \subseteq Units(b) \/ Units(b) \subseteq Units(c),
         c \notin allocated \ {b}
  PROVE  StoreStep
<1> DEFINE R == allocated \ {b}
           e == Cells(b)
           f == Cells(c)
<1>1. /\ allocated \in SUBSET Block /\ b \in Block
      /\ \A d, g \in allocated : d # g => ~Overlap(d, g)
  BY AllocatedType DEF IInv, BlocksOK, BlocksDisjoint
<1>2. CellSets(R) = CellSets(allocated) \ {e} /\ e \in CellSets(allocated)
  BY <1>1, CellsWithout DEF CellSets
<1>3. CellSets(allocated)' = CellSets(R) \cup {f}
  BY DEF CellSets
<1>4. f \cap UNION CellSets(R) = {}
  <2> DEFINE A == R \cup {c}
  <2>1. /\ A \in SUBSET Block /\ c \in A /\ A \ {c} = R
        /\ \A d, g \in A : d # g => ~Overlap(d, g)
    <3>1. \A d, g \in allocated' : d # g => ~Overlap(d, g)'
      BY DEF IInv, BlocksOK, BlocksDisjoint
    <3>2. \A d, g : Overlap(d, g)' <=> Overlap(d, g) BY DEF Overlap
    <3> QED BY <1>1, <3>1, <3>2
  <2> HIDE DEF A, R
  <2>2. Cells(c) \cap UNION CellSets(A \ {c}) = {} BY <2>1, CellsWithout
  <2> QED BY <2>1, <2>2
<1>5. f \in {Cells(d) : d \in Block} OBVIOUS
<1>6. CASE Units(c) \subseteq Units(b)
  <2>1. f \subseteq e BY <1>1, <1>6, CellsWithin
  <2> HIDE DEF e, f
  <2>2. Store!Shrink BY <1>2, <1>3, <1>5, <2>1 DEF Store!Shrink, CellSets
  <2> QED BY <2>2 DEF StoreStep, Store!Next
<1>7. CASE Units(b) \subseteq Units(c)
  <2>1. e \subseteq f BY <1>1, <1>7, CellsWithin
  <2> HIDE DEF e, f, R
  <2>2. (f \ e) \cap UNION CellSets(allocated) = {} BY <1>2, <1>4
  <2>3. Store!Grow BY <1>2, <1>3, <1>5, <2>1, <2>2 DEF Store!Grow, CellSets
  <2> QED BY <2>3 DEF StoreStep, Store!Next
<1> QED BY <1>6, <1>7

LEMMA StoreRests ==
  ASSUME allocated' = allocated
  PROVE  StoreStep
BY DEF StoreStep, CellSets

-----------------------------------------------------------------------------
(* The steps of the threads.  Blocks that only change hands: *)

LEMMA HandedOver ==
  ASSUME IInv, NEW t \in Thread, held' \cup Claimed(t)' = held \cup Claimed(t),
         \A u \in Thread \ {t} : call'[u].blk = call[u].blk /\ new'[u] = new[u]
  PROVE  StoreStep
BY AllocatedSplit, OthersKeep, StoreRests, Zenon

LEMMA CallStores ==
  ASSUME IInv, NEW t \in Thread, Call(t)
  PROVE  StoreStep
<1>1. TypeOK /\ LocalsOK(t) BY DEF IInv
<1>2. ASSUME pc[t] = "idle" PROVE call[t].blk = NoBlock /\ new[t] = NoBlock
  BY <1>1, <1>2 DEF LocalsOK, NoCall
<1>3. ASSUME NEW n \in NumUnits, CallAllocate(t, n) PROVE StoreStep
  <2>1. /\ pc[t] = "idle" /\ held' = held /\ new' = new
        /\ call' = [call EXCEPT ![t] = [op |-> "allocate", blk |-> NoBlock, n |-> n]]
    BY <1>3 DEF CallAllocate
  <2>2. \A u \in Thread : call'[u].blk = call[u].blk BY <2>1, <1>1, <1>2 DEF TypeOK
  <2> QED BY <2>1, <2>2, BlocksStay, StoreRests
<1>4. ASSUME NEW b \in held, NEW n, NEW o, pc[t] = "idle", held' = held \ {b}, new' = new,
             call' = [call EXCEPT ![t] = [op |-> o, blk |-> b, n |-> n]]
      PROVE StoreStep
  <2>1. b # NoBlock BY <1>1, BlockFacts DEF TypeOK
  <2>2. call'[t].blk = b /\ \A u \in Thread \ {t} : call'[u].blk = call[u].blk
    BY <1>1, <1>4 DEF TypeOK
  <2>3. Claimed(t) = {} BY <1>2, <1>4 DEF Claimed
  <2>4. Claimed(t)' = {b} BY <1>2, <1>4, <2>1, <2>2 DEF Claimed
  <2>5. held' \cup Claimed(t)' = held \cup Claimed(t) BY <1>4, <2>3, <2>4
  <2> QED BY <1>4, <2>2, <2>5, HandedOver
<1>5. ASSUME NEW b \in held, CallRelease(t, b) PROVE StoreStep
  BY <1>4, <1>5 DEF CallRelease
<1>6. ASSUME NEW b \in held, NEW n \in NumUnits, CallReallocate(t, b, n) PROVE StoreStep
  <2> DEFINE o == IF n < b.len THEN "shrink" ELSE "grow"
  <2>1. /\ pc[t] = "idle" /\ held' = held \ {b} /\ new' = new
        /\ call' = [call EXCEPT ![t] = [op |-> o, blk |-> b, n |-> n]]
    BY <1>6 DEF CallReallocate
  <2> HIDE DEF o
  <2> QED BY <1>4, <2>1
<1> QED BY <1>3, <1>5, <1>6 DEF Call

LEMMA FinishStores ==
  ASSUME IInv, NEW t \in Thread, Finish(t)
  PROVE  StoreStep
BY GiveBlocks, StoreRests

(* A block is born when its bits are set, *)
LEMMA BornStores ==
  ASSUME IInv, IInv', NEW t \in Thread, NEW b \in Block, new[t] = NoBlock,
         new' = [new EXCEPT ![t] = b], call' = call, held' = held
  PROVE  StoreStep
<1>1. new'[t] = b /\ \A u \in Thread \ {t} : new'[u] = new[u] BY DEF IInv, TypeOK
<1>2. b # NoBlock BY BlockFacts
<1>3. Claimed(t)' = Claimed(t) \cup {b} BY <1>1, <1>2 DEF Claimed
<1>4. allocated' = held \cup Claimed(t)' \cup Others(t) BY <1>1, OthersKeep
<1>5. allocated' = allocated \cup {b} BY <1>3, <1>4, AllocatedSplit
<1> QED BY <1>5, StoreAllocates

LEMMA SetBitsStores ==
  ASSUME IInv, IInv', NEW t \in Thread, SetBits(t)
  PROVE  StoreStep
<1> DEFINE b == block(page[t], offset[t], call[t].n)
<1>1. TypeOK /\ LocalsOK(t) /\ pc[t] = "set" BY DEF IInv, SetBits
<1>2. /\ page[t] \in Page /\ offset[t] \in DataUnit /\ call[t].n \in NumUnits
      /\ offset[t] + call[t].n <= units_per_page /\ new[t] = NoBlock
  BY <1>1 DEF LocalsOK, TypeOK, Allocating, Holding, Free
<1>3. b \in Block BY <1>2, BlockMade
<1>4. new' = [new EXCEPT ![t] = b] /\ call' = call /\ held' = held BY DEF SetBits
<1> HIDE DEF b
<1> QED BY <1>2, <1>3, <1>4, BornStores

LEMMA MapPageStores ==
  ASSUME IInv, IInv', NEW t \in Thread, NEW p \in Page, MapPage(t, p)
  PROVE  StoreStep
<1> DEFINE h == bm_page_header_size_in_units
           b == block(p, h, call[t].n)
<1>1. TypeOK /\ LocalsOK(t) /\ pc[t] = "map" BY DEF IInv, MapPage
<1>2. call[t].n \in NumUnits /\ new[t] = NoBlock BY <1>1 DEF LocalsOK, Allocating
<1>3. h \in DataUnit /\ h + call[t].n <= units_per_page
  BY <1>2, Layout DEF DataUnit, NumUnits
<1> HIDE DEF h
<1>4. b \in Block BY <1>2, <1>3, BlockMade
<1>5. new' = [new EXCEPT ![t] = b] /\ call' = call /\ held' = held BY DEF MapPage, h
<1> HIDE DEF b
<1> QED BY <1>2, <1>4, <1>5, BornStores

(* and dies when they are cleared. *)
LEMMA ClearBlockStores ==
  ASSUME IInv, NEW t \in Thread, ClearBlock(t)
  PROVE  StoreStep
<1> DEFINE b == call[t].blk
<1>1. /\ TypeOK /\ LocalsOK(t) /\ pc[t] = "update"
      /\ call' = [call EXCEPT ![t].blk = NoBlock] /\ new' = new /\ held' = held
  BY DEF IInv, ClearBlock
<1>2. b # NoBlock BY <1>1 DEF LocalsOK
<1>3. call'[t].blk = NoBlock /\ \A u \in Thread \ {t} : call'[u].blk = call[u].blk
  BY <1>1 DEF TypeOK
<1>4. b # new[t] BY <1>2 DEF IInv, BlocksOK, BlocksDisjoint
<1>5. b \in Claimed(t) /\ Claimed(t)' = Claimed(t) \ {b}
  BY <1>1, <1>2, <1>3, <1>4 DEF Claimed
<1>6. allocated = held \cup Claimed(t) \cup Others(t) BY AllocatedSplit
<1>7. allocated' = held \cup Claimed(t)' \cup Others(t) BY <1>1, <1>3, OthersKeep
<1>8. b \in allocated /\ allocated' = allocated \ {b} BY <1>5, <1>6, <1>7, OneOwner
<1> HIDE DEF b
<1> QED BY <1>8, StoreReleases

(* A block changes its length in its bits and in the thread's hands at     *)
(* once.                                                                   *)
LEMMA LengthStores ==
  ASSUME IInv, IInv', NEW t \in Thread, pc[t] = "update",
         call[t].op \in {"shrink", "grow"}, NEW n \in NumUnits,
         call' = [call EXCEPT ![t].blk.len = n], new' = new, held' = held
  PROVE  StoreStep
<1> DEFINE b == call[t].blk
           c == call'[t].blk
<1>1. TypeOK /\ TypeOK' /\ LocalsOK(t) BY DEF IInv
<1>2. b # NoBlock /\ b \in Block /\ new[t] = NoBlock BY <1>1 DEF LocalsOK, TypeOK
<1>3. /\ c = [b EXCEPT !.len = n] /\ c \in Block \cup {NoBlock}
      /\ \A u \in Thread \ {t} : call'[u].blk = call[u].blk
  BY <1>1 DEF TypeOK
<1>4. /\ b = [page |-> b.page, off |-> b.off, len |-> b.len]
      /\ b.page \in Page /\ b.off \in Nat /\ b.len \in Nat /\ n \in Nat
  BY <1>2, BlockFacts, UnitArith DEF Block
<1>5. c.page = b.page /\ c.off = b.off /\ c.len = n /\ c \in Block
  BY <1>3, <1>4, NullDistinct DEF NoBlock
<1>6. Units(c) \subseteq Units(b) \/ Units(b) \subseteq Units(c)
  <2>1. Units(b) = b.off .. (b.off + b.len - 1) /\ Units(c) = b.off .. (b.off + n - 1)
    BY <1>5 DEF Units, Run
  <2>2. b.len <= n \/ n <= b.len BY <1>4
  <2> HIDE DEF b, c
  <2> QED BY <1>4, <2>1, <2>2
<1>7. Claimed(t) = {b} BY <1>2 DEF Claimed
<1>8. Claimed(t)' = {c} BY <1>2, <1>5, BlockFacts DEF Claimed
<1>9. allocated = held \cup {b} \cup Others(t) BY <1>7, AllocatedSplit
<1>10. allocated' = held \cup {c} \cup Others(t) BY <1>3, <1>8, OthersKeep
<1>11. b \notin held \cup Others(t) BY <1>7, OneOwner
<1>12. c \notin held \cup Others(t)
  <2>1. \A u \in Thread \ {t} : Claimed(u)' = Claimed(u) BY <1>3 DEF Claimed
  <2>2. Others(t)' = Others(t) BY <2>1 DEF Others
  <2>3. Claimed(t)' \cap (held' \cup Others(t)') = {}
    BY DEF IInv, BlocksOK, BlocksDisjoint, Others
  <2> QED BY <1>8, <2>2, <2>3
<1> HIDE DEF b, c
<1>13. /\ b \in allocated /\ allocated' = (allocated \ {b}) \cup {c}
       /\ c \notin allocated \ {b}
  BY <1>9, <1>10, <1>11, <1>12
<1> QED BY <1>5, <1>6, <1>13, StoreResizes

LEMMA StepStores ==
  ASSUME IInv, IInv', NEW t \in Thread, Step(t)
  PROVE  StoreStep
<1>1. TypeOK /\ LocalsOK(t) BY DEF IInv
<1>2. ASSUME held' = held, new' = new, call' = call PROVE StoreStep
  BY <1>2, BlocksStay, StoreRests
<1>3. CASE \/ TakeLru(t) \/ ScanLru(t) \/ PutBack(t)
           \/ TakeFromSuperblock(t) \/ SuperblockMiss(t) \/ ScanSuperblock(t)
  BY <1>2, <1>3 DEF TakeLru, ScanLru, PutBack, TakeFromSuperblock, SuperblockMiss,
                    ScanSuperblock
<1>4. CASE \/ Unhand(t) \/ UnhandToSuperblock(t) \/ UnhandAndReclaim(t) \/ Munmap(t)
           \/ Grab(t) \/ GrowBlocked(t) \/ ReleaseMoved(t)
  BY <1>2, <1>4 DEF Unhand, UnhandToSuperblock, UnhandAndReclaim, Munmap, Grab,
                    GrowBlocked, ReleaseMoved
<1>5. CASE StartMove(t)
  <2>1. \A u \in Thread : call'[u].blk = call[u].blk BY <1>1, <1>5 DEF StartMove, TypeOK
  <2>2. held' = held /\ new' = new BY <1>5 DEF StartMove
  <2> QED BY <2>1, <2>2, BlocksStay, StoreRests
<1>6. CASE MapFails(t) \/ ReturnAllocated(t) \/ ReturnReleased(t) \/ ReturnResized(t)
  BY <1>6, FinishStores DEF MapFails, ReturnAllocated, ReturnReleased, ReturnResized
<1>7. CASE SetBits(t) \/ \E p \in Page : MapPage(t, p)
  BY <1>7, SetBitsStores, MapPageStores
<1>8. CASE ClearBlock(t) BY <1>8, ClearBlockStores
<1>9. CASE ClearTail(t)
  <2> DEFINE n == call[t].n
  <2>1. /\ pc[t] = "update" /\ call[t].op = "shrink" /\ new' = new /\ held' = held
        /\ call' = [call EXCEPT ![t].blk.len = n]
    BY <1>9 DEF ClearTail
  <2>2. n \in 1 .. (call[t].blk.len - 1) /\ call[t].blk \in Block
    BY <1>1, <2>1 DEF LocalsOK, TypeOK
  <2>3. call[t].blk.len \in 1 .. (max_data_units - 1) BY <2>2, BlockFacts DEF NumUnits
  <2>4. n \in NumUnits BY <2>2, <2>3, Layout DEF NumUnits
  <2> HIDE DEF n
  <2> QED BY <2>1, <2>4, LengthStores
<1>10. CASE GrowInPlace(t)
  <2> DEFINE n == call[t].n
  <2>1. /\ pc[t] = "update" /\ call[t].op = "grow" /\ new' = new /\ held' = held
        /\ call' = [call EXCEPT ![t].blk.len = n]
    BY <1>10 DEF GrowInPlace
  <2>2. n \in NumUnits BY <1>1, <2>1 DEF LocalsOK
  <2> HIDE DEF n
  <2> QED BY <2>1, <2>2, LengthStores
<1> QED BY <1>3, <1>4, <1>5, <1>6, <1>7, <1>8, <1>9, <1>10 DEF Step

-----------------------------------------------------------------------------
(* Whatever the threads do, the sub-allocator does what BlockStore allows: *)
(* it starts without blocks, a block it hands out takes cells nobody has,  *)
(* and a block is released, shrunk or grown as a whole.                    *)
THEOREM KeepsBlockStore == Spec => ImplementsBlockStore
<1>1. Init => Store!Init
  <2> SUFFICES ASSUME Init PROVE Store!Init
    OBVIOUS
  <2>1. allocated = {} BY DEF Init, allocated, Claimed, NoCall
  <2> QED BY <2>1 DEF Store!Init
<1>2. IInv /\ IInv' /\ [Next]_vars => [Store!Next]_({Cells(b) : b \in allocated})
  <2> SUFFICES ASSUME IInv, IInv', [Next]_vars PROVE StoreStep
    BY DEF StoreStep, CellSets
  <2>1. CASE Next BY <2>1, CallStores, StepStores DEF Next
  <2>2. CASE UNCHANGED vars
    <3>1. held' = held /\ new' = new /\ call' = call BY <2>2 DEF vars
    <3> QED BY <3>1, BlocksStay, StoreRests
  <2> QED BY <2>1, <2>2
<1> QED BY <1>1, <1>2, InvariantHolds, PTL DEF Spec, ImplementsBlockStore, Store!Spec

-----------------------------------------------------------------------------
(* The counters. *)

(* The threads that have a counted block in hand, or have just freed it,   *)
(* and those that have two: a block is moved, and the new one is counted   *)
(* before the old one is released.                                         *)
HasBlock(t) == call[t].op \notin {"none", "allocate"}
HasBoth(t)  == /\ call[t].op = "move"
               /\ pc[t] \in {"grab", "update"} \/ call[t].blk = NoBlock

Busy  == {t \in Thread : HasBlock(t)}
Moved == {t \in Thread : HasBoth(t)}

(* The pages that bm_allocate has mapped and not yet counted. *)
Fresh     == {t \in Thread : fresh[t]}
Uncounted == {new[t].page : t \in Fresh}

NewOK(t) ==
  /\ /\ call[t].op \in {"allocate", "move"}
     /\ pc[t] \in {"unhand", "munmap", "return", "grab", "update"}
     => new[t] # NoBlock
  /\ fresh[t] =>
       /\ pc[t] \in {"unhand", "munmap", "return"}
       /\ call[t].op = "allocate" \/ (call[t].op = "move" /\ call[t].blk # NoBlock)

BlocksCounted ==
  /\ IsFiniteSet(held) /\ IsFiniteSet(Busy) /\ IsFiniteSet(Moved)
  /\ blocks_allocated = Cardinality(held) + Cardinality(Busy) + Cardinality(Moved)

PagesCounted ==
  /\ IsFiniteSet(mapped)
  /\ num_bm_pages = Cardinality(mapped \ Uncounted)
  /\ \A t, u \in Fresh : t # u => new[t].page # new[u].page

CountInv ==
  /\ \A t \in Thread : NewOK(t)
  /\ BlocksCounted
  /\ PagesCounted

(* One element more or less. *)
LEMMA OneMore ==
  ASSUME NEW S, IsFiniteSet(S), NEW x, x \notin S
  PROVE  IsFiniteSet(S \cup {x}) /\ Cardinality(S \cup {x}) = Cardinality(S) + 1
BY FS_AddElement

LEMMA OneLess ==
  ASSUME NEW S, IsFiniteSet(S), NEW x, x \in S
  PROVE  IsFiniteSet(S \ {x}) /\ Cardinality(S \ {x}) = Cardinality(S) - 1
BY FS_RemoveElement

LEMMA CardNat == \A S : IsFiniteSet(S) => Cardinality(S) \in Nat
BY FS_CardinalityType

(* When only thread t moves. *)
OnlyMoves(t) ==
  \A u \in Thread \ {t} :
    pc'[u] = pc[u] /\ call'[u] = call[u] /\ new'[u] = new[u] /\ fresh'[u] = fresh[u]

LEMMA OthersCounted ==
  ASSUME CountInv, NEW t \in Thread, OnlyMoves(t)
  PROVE  /\ \A u \in Thread \ {t} : NewOK(u)'
         /\ Busy' = IF HasBlock(t)' THEN Busy \cup {t} ELSE Busy \ {t}
         /\ Moved' = IF HasBoth(t)' THEN Moved \cup {t} ELSE Moved \ {t}
         /\ t \in Busy <=> HasBlock(t)
         /\ t \in Moved <=> HasBoth(t)
         /\ t \in Fresh <=> fresh[t]
<1>1. \A u \in Thread \ {t} : NewOK(u)' BY DEF CountInv, OnlyMoves, NewOK
<1>2. \A u \in Thread \ {t} : HasBlock(u)' <=> HasBlock(u) BY DEF OnlyMoves, HasBlock
<1>3. \A u \in Thread \ {t} : HasBoth(u)' <=> HasBoth(u) BY DEF OnlyMoves, HasBoth
<1>4. Busy' = IF HasBlock(t)' THEN Busy \cup {t} ELSE Busy \ {t} BY <1>2 DEF Busy
<1>5. Moved' = IF HasBoth(t)' THEN Moved \cup {t} ELSE Moved \ {t} BY <1>3 DEF Moved
<1> QED BY <1>1, <1>4, <1>5 DEF Busy, Moved, Fresh

(* The step of a thread that keeps its blocks and counts nothing. *)
LEMMA SameBlocks ==
  ASSUME CountInv, NEW t \in Thread, OnlyMoves(t),
         HasBlock(t)' <=> HasBlock(t), HasBoth(t)' <=> HasBoth(t),
         held' = held, blocks_allocated' = blocks_allocated
  PROVE  BlocksCounted'
<1>1. Busy' = Busy /\ Moved' = Moved BY OthersCounted, Zenon
<1> QED BY <1>1 DEF CountInv, BlocksCounted

LEMMA SamePages ==
  ASSUME CountInv, NEW t \in Thread, OnlyMoves(t),
         fresh'[t] <=> fresh[t], fresh[t] => new'[t] = new[t],
         mapped' = mapped, num_bm_pages' = num_bm_pages
  PROVE  PagesCounted'
<1>1. Fresh' = Fresh BY DEF Fresh, OnlyMoves
<1>2. \A u \in Fresh : new'[u] = new[u] BY DEF Fresh, OnlyMoves
<1>3. Uncounted' = Uncounted BY <1>1, <1>2 DEF Uncounted
<1> QED BY <1>1, <1>2, <1>3 DEF CountInv, PagesCounted

(* A step that changes no block, no counter and nothing of the call. *)
LEMMA CalmCounts ==
  ASSUME IInv, CountInv, NEW t \in Thread, NEW label \in Labels,
         pc' = [pc EXCEPT ![t] = label],
         \/ pc[t] \notin {"unhand", "munmap", "return", "grab", "update"}
            /\ label \notin {"unhand", "munmap", "return", "grab", "update"}
         \/ pc[t] \in {"unhand", "munmap"} /\ label \in {"munmap", "return"}
         \/ pc[t] = "grab" /\ label = "update"
         \/ pc[t] = "update" /\ label = "unhand" /\ call[t].op = "grow",
         UNCHANGED <<mapped, held, call, new, fresh, counts>>
  PROVE  CountInv'
<1>1. pc'[t] = label /\ OnlyMoves(t)
      /\ call'[t] = call[t] /\ new'[t] = new[t] /\ fresh'[t] = fresh[t]
  BY DEF IInv, TypeOK, OnlyMoves
<1>2. NewOK(t) BY DEF CountInv
<1>3. NewOK(t)' BY <1>1, <1>2 DEF NewOK
<1>4. HasBlock(t)' <=> HasBlock(t) BY <1>1 DEF HasBlock
<1>5. HasBoth(t)' <=> HasBoth(t) BY <1>1 DEF HasBoth
<1>6. BlocksCounted' BY <1>1, <1>4, <1>5, SameBlocks DEF counts
<1>7. PagesCounted' BY <1>1, SamePages DEF counts
<1> QED BY <1>1, <1>3, <1>6, <1>7, OthersCounted DEF CountInv

(* Calls. *)
LEMMA CallCounts ==
  ASSUME IInv, CountInv, NEW t \in Thread, Call(t)
  PROVE  CountInv'
<1>1. /\ TypeOK /\ LocalsOK(t) /\ NewOK(t) BY DEF IInv, CountInv
<1>2. /\ pc[t] = "idle" /\ mapped' = mapped /\ new' = new /\ fresh' = fresh
      /\ blocks_allocated' = blocks_allocated /\ num_bm_pages' = num_bm_pages
  BY DEF Call, CallAllocate, CallRelease, CallReallocate, pages, counts
<1>3. call[t].op = "none" /\ fresh[t] = FALSE
  BY <1>1, <1>2 DEF LocalsOK, NoCall, NewOK, TypeOK
<1>4. ASSUME NEW n \in NumUnits, CallAllocate(t, n) PROVE CountInv'
  <2>1. /\ call' = [call EXCEPT ![t] = [op |-> "allocate", blk |-> NoBlock, n |-> n]]
        /\ pc' = [pc EXCEPT ![t] = "find"] /\ held' = held
    BY <1>4 DEF CallAllocate, Goto
  <2>2. call'[t].op = "allocate" /\ pc'[t] = "find" /\ OnlyMoves(t)
    BY <1>1, <1>2, <2>1 DEF TypeOK, OnlyMoves
  <2>3. NewOK(t)' BY <1>2, <1>3, <2>2 DEF NewOK
  <2>4. /\ HasBlock(t)' <=> HasBlock(t)
        /\ HasBoth(t)' <=> HasBoth(t)
    BY <1>3, <2>2 DEF HasBlock, HasBoth
  <2>5. BlocksCounted' BY <1>2, <2>1, <2>2, <2>4, SameBlocks
  <2>6. PagesCounted' BY <1>2, <2>2, SamePages
  <2> QED BY <2>2, <2>3, <2>5, <2>6, OthersCounted DEF CountInv
<1>5. ASSUME NEW b \in held, NEW n, NEW o \in {"release", "shrink", "grow"},
             call' = [call EXCEPT ![t] = [op |-> o, blk |-> b, n |-> n]],
             pc' = [pc EXCEPT ![t] = "grab"], held' = held \ {b}
      PROVE  CountInv'
  <2>1. call'[t].op = o /\ pc'[t] = "grab" /\ OnlyMoves(t)
    BY <1>1, <1>2, <1>5 DEF TypeOK, OnlyMoves
  <2>2. NewOK(t)' BY <1>2, <1>3, <2>1 DEF NewOK
  <2>3. ~HasBlock(t) /\ HasBlock(t)' /\ ~HasBoth(t) /\ ~HasBoth(t)'
    BY <1>3, <2>1 DEF HasBlock, HasBoth
  <2>4. t \notin Busy /\ Busy' = Busy \cup {t} /\ Moved' = Moved
    BY <2>1, <2>3, OthersCounted, Zenon
  <2>5. BlocksCounted'
    <3>1. /\ IsFiniteSet(held) /\ IsFiniteSet(Busy) /\ IsFiniteSet(Moved)
          /\ blocks_allocated = Cardinality(held) + Cardinality(Busy) + Cardinality(Moved)
      BY DEF CountInv, BlocksCounted
    <3>2. IsFiniteSet(held \ {b}) /\ Cardinality(held \ {b}) = Cardinality(held) - 1
      BY <3>1, OneLess
    <3>3. IsFiniteSet(Busy \cup {t}) /\ Cardinality(Busy \cup {t}) = Cardinality(Busy) + 1
      BY <2>4, <3>1, OneMore
    <3>4. Cardinality(held) \in Nat /\ Cardinality(Busy) \in Nat /\ Cardinality(Moved) \in Nat
      BY <3>1, CardNat
    <3> QED BY <1>2, <1>5, <2>4, <3>1, <3>2, <3>3, <3>4 DEF BlocksCounted
  <2>6. PagesCounted' BY <1>2, <2>1, SamePages
  <2> QED BY <2>1, <2>2, <2>5, <2>6, OthersCounted DEF CountInv
<1>6. ASSUME NEW b \in held, CallRelease(t, b) PROVE CountInv'
  BY <1>5, <1>6 DEF CallRelease, Goto
<1>7. ASSUME NEW b \in held, NEW n \in NumUnits, CallReallocate(t, b, n) PROVE CountInv'
  <2> DEFINE o == IF n < b.len THEN "shrink" ELSE "grow"
  <2>1. /\ o \in {"release", "shrink", "grow"}
        /\ call' = [call EXCEPT ![t] = [op |-> o, blk |-> b, n |-> n]]
        /\ pc' = [pc EXCEPT ![t] = "grab"] /\ held' = held \ {b}
    BY <1>7 DEF CallReallocate, Goto
  <2> HIDE DEF o
  <2> QED BY <1>5, <2>1
<1> QED BY <1>4, <1>6, <1>7 DEF Call

(* bm_allocate makes a block. *)
LEMMA SetBitsCounts ==
  ASSUME IInv, CountInv, NEW t \in Thread, SetBits(t)
  PROVE  CountInv'
<1> DEFINE b == block(page[t], offset[t], call[t].n)
<1>1. /\ TypeOK /\ LocalsOK(t) /\ NewOK(t) BY DEF IInv, CountInv
<1>2. /\ pc[t] = "set" /\ pc' = [pc EXCEPT ![t] = "unhand"] /\ new' = [new EXCEPT ![t] = b]
      /\ mapped' = mapped /\ held' = held /\ call' = call /\ fresh' = fresh
      /\ blocks_allocated' = blocks_allocated /\ num_bm_pages' = num_bm_pages
  BY DEF SetBits, Goto, counts
<1>3. b # NoBlock
  <2>1. page[t] \in Page BY <1>1, <1>2 DEF LocalsOK, Holding, TypeOK
  <2> QED BY <2>1, NullDistinct DEF block, NoBlock
<1> HIDE DEF b
<1>4. /\ pc'[t] = "unhand" /\ new'[t] = b /\ call'[t] = call[t] /\ fresh'[t] = fresh[t]
      /\ OnlyMoves(t)
  BY <1>1, <1>2 DEF TypeOK, OnlyMoves
<1>5. ~fresh[t] BY <1>1, <1>2 DEF NewOK
<1>6. NewOK(t)' BY <1>3, <1>4, <1>5 DEF NewOK
<1>7. /\ HasBlock(t)' <=> HasBlock(t)
      /\ HasBoth(t)' <=> HasBoth(t)
  BY <1>2, <1>4 DEF HasBlock, HasBoth
<1>8. BlocksCounted' BY <1>2, <1>4, <1>7, SameBlocks
<1>9. PagesCounted' BY <1>2, <1>4, <1>5, SamePages
<1> QED BY <1>4, <1>6, <1>8, <1>9, OthersCounted DEF CountInv

LEMMA MapPageCounts ==
  ASSUME IInv, CountInv, NEW t \in Thread, NEW p \in Page, MapPage(t, p)
  PROVE  CountInv'
<1> DEFINE b == block(p, bm_page_header_size_in_units, call[t].n)
<1>1. /\ TypeOK /\ LocalsOK(t) /\ NewOK(t) BY DEF IInv, CountInv
<1>2. /\ pc[t] = "map" /\ pc' = [pc EXCEPT ![t] = "unhand"] /\ new' = [new EXCEPT ![t] = b]
      /\ p \notin mapped /\ mapped' = mapped \cup {p} /\ held' = held /\ call' = call
      /\ fresh' = [fresh EXCEPT ![t] = TRUE]
      /\ blocks_allocated' = blocks_allocated /\ num_bm_pages' = num_bm_pages
  BY DEF MapPage, Goto, counts
<1>3. b # NoBlock /\ b.page = p BY NullDistinct DEF block, NoBlock
<1> HIDE DEF b
<1>4. /\ pc'[t] = "unhand" /\ new'[t] = b /\ call'[t] = call[t] /\ fresh'[t] = TRUE
      /\ OnlyMoves(t)
  BY <1>1, <1>2 DEF TypeOK, OnlyMoves
<1>5. /\ call[t].op \in {"allocate", "move"}
      /\ call[t].op = "allocate" <=> call[t].blk = NoBlock
      /\ ~fresh[t]
  BY <1>1, <1>2 DEF LocalsOK, Allocating, NewOK
<1>6. NewOK(t)' BY <1>3, <1>4, <1>5 DEF NewOK
<1>7. /\ HasBlock(t)' <=> HasBlock(t)
      /\ HasBoth(t)' <=> HasBoth(t)
  BY <1>2, <1>4 DEF HasBlock, HasBoth
<1>8. BlocksCounted' BY <1>2, <1>4, <1>7, SameBlocks
<1>9. PagesCounted'
  <2>1. t \notin Fresh /\ Fresh' = Fresh \cup {t} BY <1>4, <1>5 DEF Fresh, OnlyMoves
  <2>2. \A u \in Fresh : new'[u] = new[u] BY <2>1, <1>4 DEF Fresh, OnlyMoves
  <2>3. Uncounted' = Uncounted \cup {p} BY <1>3, <1>4, <2>1, <2>2 DEF Uncounted
  <2>4. \A u \in Fresh : new[u].page \in mapped
    <3> SUFFICES ASSUME NEW u \in Fresh PROVE new[u].page \in mapped
      OBVIOUS
    <3>1. new[u] # NoBlock /\ u \in Thread BY DEF Fresh, CountInv, NewOK
    <3>2. new[u] \in allocated BY <3>1, AllocatedDef
    <3> QED BY <3>2 DEF IInv, BlocksOK, BlocksMapped
  <2>5. mapped' \ Uncounted' = mapped \ Uncounted BY <1>2, <2>3
  <2>6. IsFiniteSet(mapped') BY <1>2, OneMore DEF CountInv, PagesCounted
  <2>7. \A u, v \in Fresh' : u # v => new'[u].page # new'[v].page
    BY <1>2, <1>3, <1>4, <2>1, <2>2, <2>4 DEF CountInv, PagesCounted
  <2> QED BY <1>2, <2>5, <2>6, <2>7 DEF CountInv, PagesCounted
<1> QED BY <1>4, <1>6, <1>8, <1>9, OthersCounted DEF CountInv

(* The block of a release or a move is cleared. *)
LEMMA ClearBlockCounts ==
  ASSUME IInv, CountInv, NEW t \in Thread, ClearBlock(t)
  PROVE  CountInv'
<1>1. /\ TypeOK /\ NewOK(t) BY DEF IInv, CountInv
<1>2. /\ pc[t] = "update" /\ pc' = [pc EXCEPT ![t] = "unhand"]
      /\ call[t].op \in {"release", "move"} /\ call' = [call EXCEPT ![t].blk = NoBlock]
      /\ mapped' = mapped /\ held' = held /\ new' = new /\ fresh' = fresh
      /\ blocks_allocated' = blocks_allocated /\ num_bm_pages' = num_bm_pages
  BY DEF ClearBlock, Goto, counts
<1>3. /\ pc'[t] = "unhand" /\ new'[t] = new[t] /\ fresh'[t] = fresh[t]
      /\ call'[t].op = call[t].op /\ call'[t].blk = NoBlock
      /\ OnlyMoves(t)
  BY <1>1, <1>2 DEF TypeOK, OnlyMoves
<1>4. NewOK(t)' BY <1>1, <1>2, <1>3 DEF NewOK
<1>5. /\ HasBlock(t)' <=> HasBlock(t)
      /\ HasBoth(t)' <=> HasBoth(t)
  BY <1>2, <1>3 DEF HasBlock, HasBoth
<1>6. BlocksCounted' BY <1>2, <1>3, <1>5, SameBlocks
<1>7. PagesCounted' BY <1>2, <1>3, SamePages
<1> QED BY <1>3, <1>4, <1>6, <1>7, OthersCounted DEF CountInv

LEMMA LengthCounts ==
  ASSUME IInv, CountInv, NEW t \in Thread, ClearTail(t) \/ GrowInPlace(t)
  PROVE  CountInv'
<1>1. /\ TypeOK /\ NewOK(t) BY DEF IInv, CountInv
<1>2. /\ pc[t] = "update" /\ pc' = [pc EXCEPT ![t] = "unhand"]
      /\ call[t].op \in {"shrink", "grow"} /\ call' = [call EXCEPT ![t].blk.len = call[t].n]
      /\ mapped' = mapped /\ held' = held /\ new' = new /\ fresh' = fresh
      /\ blocks_allocated' = blocks_allocated /\ num_bm_pages' = num_bm_pages
  BY DEF ClearTail, GrowInPlace, Goto, counts
<1>3. /\ pc'[t] = "unhand" /\ new'[t] = new[t] /\ fresh'[t] = fresh[t]
      /\ call'[t].op = call[t].op
      /\ OnlyMoves(t)
  BY <1>1, <1>2 DEF TypeOK, OnlyMoves
<1>4. NewOK(t)' BY <1>1, <1>2, <1>3 DEF NewOK
<1>5. /\ HasBlock(t)' <=> HasBlock(t)
      /\ HasBoth(t)' <=> HasBoth(t)
  BY <1>2, <1>3 DEF HasBlock, HasBoth
<1>6. BlocksCounted' BY <1>2, <1>3, <1>5, SameBlocks
<1>7. PagesCounted' BY <1>2, <1>3, SamePages
<1> QED BY <1>3, <1>4, <1>6, <1>7, OthersCounted DEF CountInv

(* A page goes and is counted at once.  It has no block and so is not one  *)
(* of those that wait to be counted.                                       *)
LEMMA MunmapCounts ==
  ASSUME IInv, CountInv, NEW t \in Thread, Munmap(t)
  PROVE  CountInv'
<1> DEFINE p == page[t]
<1>1. /\ TypeOK /\ LocalsOK(t) /\ NewOK(t) BY DEF IInv, CountInv
<1>2. /\ pc[t] = "munmap" /\ pc' = [pc EXCEPT ![t] = "return"]
      /\ mapped' = mapped \ {p} /\ held' = held /\ new' = new /\ fresh' = fresh
      /\ call' = call
      /\ blocks_allocated' = blocks_allocated /\ num_bm_pages' = num_bm_pages - 1
  BY DEF Munmap, Goto
<1>3. /\ pc'[t] = "return" /\ new'[t] = new[t] /\ fresh'[t] = fresh[t]
      /\ call'[t] = call[t] /\ OnlyMoves(t)
  BY <1>1, <1>2 DEF TypeOK, OnlyMoves
<1>4. NewOK(t)' BY <1>1, <1>2, <1>3 DEF NewOK
<1>5. /\ HasBlock(t)' <=> HasBlock(t)
      /\ HasBoth(t)' <=> HasBoth(t)
  BY <1>2, <1>3 DEF HasBlock, HasBoth
<1>6. BlocksCounted' BY <1>2, <1>3, <1>5, SameBlocks
<1>7. PagesCounted'
  <2>1. p \in mapped /\ \A b \in allocated : b.page # p
    BY <1>1, <1>2, NullDistinct DEF IInv, HandsOK, PagesExclusive, LocalsOK, Holding
  <2>2. p \notin Uncounted
    <3> SUFFICES ASSUME NEW u \in Fresh, new[u].page = p PROVE FALSE
      BY DEF Uncounted
    <3>1. new[u] # NoBlock /\ u \in Thread BY DEF Fresh, CountInv, NewOK
    <3>2. new[u] \in allocated BY <3>1, AllocatedDef
    <3> QED BY <2>1, <3>2
  <2>3. Fresh' = Fresh BY <1>2 DEF Fresh
  <2>4. Uncounted' = Uncounted BY <1>2, <2>3 DEF Uncounted
  <2> DEFINE C == mapped \ Uncounted
  <2>5. IsFiniteSet(mapped) /\ num_bm_pages = Cardinality(C)
    BY DEF CountInv, PagesCounted
  <2>6. IsFiniteSet(C) BY <2>5, FS_Subset
  <2>7. p \in C /\ mapped' \ Uncounted' = C \ {p} BY <1>2, <2>1, <2>2, <2>4
  <2>8. Cardinality(C \ {p}) = Cardinality(C) - 1
    <3> HIDE DEF C, p
    <3> QED BY <2>6, <2>7, OneLess
  <2>9. IsFiniteSet(mapped') BY <1>2, <2>5, FS_Subset
  <2>10. \A u, v \in Fresh' : u # v => new'[u].page # new'[v].page
    BY <1>2, <2>3 DEF CountInv, PagesCounted
  <2> HIDE DEF C
  <2> QED BY <1>2, <2>5, <2>7, <2>8, <2>9, <2>10 DEF PagesCounted
<1> QED BY <1>3, <1>4, <1>6, <1>7, OthersCounted DEF CountInv

(* A grow becomes a move. *)
LEMMA StartMoveCounts ==
  ASSUME IInv, CountInv, NEW t \in Thread, StartMove(t)
  PROVE  CountInv'
<1>1. /\ TypeOK /\ LocalsOK(t) /\ NewOK(t) BY DEF IInv, CountInv
<1>2. /\ pc[t] = "return" /\ pc' = [pc EXCEPT ![t] = "find"]
      /\ call[t].op = "grow" /\ call' = [call EXCEPT ![t].op = "move"]
      /\ mapped' = mapped /\ held' = held /\ new' = new /\ fresh' = fresh
      /\ blocks_allocated' = blocks_allocated /\ num_bm_pages' = num_bm_pages
  BY DEF StartMove, Goto, pages, counts
<1>3. /\ pc'[t] = "find" /\ new'[t] = new[t] /\ fresh'[t] = fresh[t]
      /\ call'[t].op = "move" /\ call'[t].blk = call[t].blk
      /\ OnlyMoves(t)
  BY <1>1, <1>2 DEF TypeOK, OnlyMoves
<1>4. call[t].blk # NoBlock /\ ~fresh[t] BY <1>1, <1>2 DEF LocalsOK, NewOK
<1>5. NewOK(t)' BY <1>3, <1>4 DEF NewOK
<1>6. /\ HasBlock(t)' <=> HasBlock(t)
      /\ HasBoth(t)' <=> HasBoth(t)
  BY <1>2, <1>3, <1>4 DEF HasBlock, HasBoth
<1>7. BlocksCounted' BY <1>2, <1>3, <1>6, SameBlocks
<1>8. PagesCounted' BY <1>2, <1>3, SamePages
<1> QED BY <1>3, <1>5, <1>7, <1>8, OthersCounted DEF CountInv

LEMMA CountedType ==
  ASSUME IInv
  PROVE  blocks_allocated \in Int /\ num_bm_pages \in Int
BY DEF IInv, TypeOK

(* CountBlock counts the page, if it is a new one. *)
LEMMA PageIsCounted ==
  ASSUME IInv, CountInv, NEW t \in Thread, OnlyMoves(t), fresh'[t] = FALSE, mapped' = mapped,
         fresh[t] => num_bm_pages' = num_bm_pages + 1,
         ~fresh[t] => num_bm_pages' = num_bm_pages
  PROVE  PagesCounted'
<1> DEFINE q == new[t].page
           C == mapped \ Uncounted
<1>1. /\ IsFiniteSet(mapped) /\ num_bm_pages = Cardinality(C)
      /\ \A u, v \in Fresh : u # v => new[u].page # new[v].page
  BY DEF CountInv, PagesCounted
<1>2. IsFiniteSet(C) BY <1>1, FS_Subset
<1>3. Fresh' = Fresh \ {t} BY DEF Fresh, OnlyMoves
<1>4. \A u \in Fresh' : new'[u] = new[u] BY <1>3 DEF Fresh, OnlyMoves
<1>5. \A u, v \in Fresh' : u # v => new'[u].page # new'[v].page BY <1>1, <1>3, <1>4
<1>6. CASE fresh[t]
  <2>1. t \in Fresh BY <1>6 DEF Fresh
  <2>2. new[t] # NoBlock BY <1>6 DEF CountInv, NewOK
  <2>3. new[t] \in allocated BY <2>2, AllocatedDef
  <2>4. q \in mapped BY <2>3 DEF IInv, BlocksOK, BlocksMapped
  <2>5. Uncounted' = Uncounted \ {q} BY <1>1, <1>3, <1>4, <2>1 DEF Uncounted
  <2>6. q \in Uncounted BY <2>1 DEF Uncounted
  <2> HIDE DEF q
  <2>7. q \notin C /\ mapped' \ Uncounted' = C \cup {q} BY <2>4, <2>5, <2>6
  <2> HIDE DEF C
  <2>8. Cardinality(C \cup {q}) = Cardinality(C) + 1 BY <1>2, <2>7, OneMore
  <2> QED BY <1>1, <1>5, <1>6, <2>7, <2>8 DEF PagesCounted
<1>7. CASE ~fresh[t]
  <2>1. Fresh' = Fresh BY <1>3, <1>7 DEF Fresh
  <2>2. Uncounted' = Uncounted BY <1>4, <2>1 DEF Uncounted
  <2>3. mapped' \ Uncounted' = C BY <2>2
  <2>4. Cardinality(C) \in Nat BY <1>2, CardNat
  <2> HIDE DEF C
  <2> QED BY <1>1, <1>5, <1>7, <2>3, <2>4 DEF PagesCounted
<1> QED BY <1>6, <1>7

(* The new block of a move is counted, the old one not yet released. *)
LEMMA ReleaseMovedCounts ==
  ASSUME IInv, CountInv, NEW t \in Thread, ReleaseMoved(t)
  PROVE  CountInv'
<1>1. /\ TypeOK /\ NewOK(t) BY DEF IInv, CountInv
<1>2. /\ pc[t] = "return" /\ pc' = [pc EXCEPT ![t] = "grab"]
      /\ call[t].op = "move" /\ call[t].blk # NoBlock /\ call' = call
      /\ mapped' = mapped /\ held' = held /\ new' = new
      /\ fresh' = [fresh EXCEPT ![t] = FALSE]
      /\ blocks_allocated' = blocks_allocated + 1
      /\ fresh[t] => num_bm_pages' = num_bm_pages + 1
      /\ ~fresh[t] => num_bm_pages' = num_bm_pages
  BY CountedType DEF ReleaseMoved, CountBlock, Goto, pages
<1>3. /\ pc'[t] = "grab" /\ new'[t] = new[t] /\ fresh'[t] = FALSE /\ call'[t] = call[t]
      /\ OnlyMoves(t)
  BY <1>1, <1>2 DEF TypeOK, OnlyMoves
<1>4. NewOK(t)' BY <1>1, <1>2, <1>3 DEF NewOK
<1>5. HasBlock(t) /\ HasBlock(t)' /\ ~HasBoth(t) /\ HasBoth(t)'
  BY <1>2, <1>3 DEF HasBlock, HasBoth
<1>6. t \in Busy /\ Busy' = Busy /\ t \notin Moved /\ Moved' = Moved \cup {t}
  <2>1. t \in Busy /\ t \notin Moved BY <1>3, <1>5, OthersCounted
  <2>2. Busy' = Busy \cup {t} /\ Moved' = Moved \cup {t} BY <1>3, <1>5, OthersCounted, Zenon
  <2> QED BY <2>1, <2>2
<1>7. BlocksCounted'
  <2>1. /\ IsFiniteSet(held) /\ IsFiniteSet(Busy) /\ IsFiniteSet(Moved)
        /\ blocks_allocated = Cardinality(held) + Cardinality(Busy) + Cardinality(Moved)
    BY DEF CountInv, BlocksCounted
  <2>2. IsFiniteSet(Moved \cup {t}) /\ Cardinality(Moved \cup {t}) = Cardinality(Moved) + 1
    BY <1>6, <2>1, OneMore
  <2>3. Cardinality(held) \in Nat /\ Cardinality(Busy) \in Nat /\ Cardinality(Moved) \in Nat
    BY <2>1, CardNat
  <2> QED BY <1>2, <1>6, <2>1, <2>2, <2>3 DEF BlocksCounted
<1>8. PagesCounted' BY <1>2, <1>3, PageIsCounted
<1> QED BY <1>3, <1>4, <1>7, <1>8, OthersCounted DEF CountInv

(* What a return does, whatever it counts. *)
LEMMA AfterFinish ==
  ASSUME IInv, CountInv, NEW t \in Thread, Finish(t)
  PROVE  /\ OnlyMoves(t) /\ NewOK(t)' /\ fresh'[t] = FALSE /\ mapped' = mapped
         /\ Busy' = Busy \ {t} /\ Moved' = Moved \ {t}
         /\ held' = held \cup Claimed(t) /\ Claimed(t) \cap held = {}
         /\ \A u \in Thread \ {t} : NewOK(u)'
<1>1. /\ pc' = [pc EXCEPT ![t] = "idle"]
      /\ call' = [call EXCEPT ![t] = NoCall] /\ new' = [new EXCEPT ![t] = NoBlock]
      /\ fresh' = [fresh EXCEPT ![t] = FALSE] /\ mapped' = mapped
      /\ held' = held \cup Claimed(t)
  BY DEF Finish, Goto, pages, Claimed
<1>2. /\ pc'[t] = "idle" /\ call'[t].op = "none" /\ fresh'[t] = FALSE /\ OnlyMoves(t)
  BY <1>1 DEF IInv, TypeOK, OnlyMoves, NoCall
<1>3. NewOK(t)' /\ ~HasBlock(t)' /\ ~HasBoth(t)' BY <1>2 DEF NewOK, HasBlock, HasBoth
<1>4. Busy' = Busy \ {t} /\ Moved' = Moved \ {t} BY <1>2, <1>3, OthersCounted, Zenon
<1>5. \A u \in Thread \ {t} : NewOK(u)' BY <1>2, OthersCounted
<1>6. Claimed(t) \cap held = {} BY DEF IInv, BlocksOK, BlocksDisjoint
<1> QED BY <1>1, <1>2, <1>3, <1>4, <1>5, <1>6

(* The numbers of blocks in all hands after a return. *)
LEMMA FinishCards ==
  ASSUME IInv, CountInv, NEW t \in Thread, Finish(t)
  PROVE  /\ IsFiniteSet(held') /\ IsFiniteSet(Busy') /\ IsFiniteSet(Moved')
         /\ blocks_allocated = Cardinality(held) + Cardinality(Busy) + Cardinality(Moved)
         /\ Cardinality(held) \in Nat /\ Cardinality(Busy) \in Nat /\ Cardinality(Moved) \in Nat
         /\ Claimed(t) = {} => Cardinality(held') = Cardinality(held)
         /\ Claimed(t) = {call[t].blk} => Cardinality(held') = Cardinality(held) + 1
         /\ Claimed(t) = {new[t]} => Cardinality(held') = Cardinality(held) + 1
         /\ HasBlock(t) => Cardinality(Busy') = Cardinality(Busy) - 1
         /\ ~HasBlock(t) => Cardinality(Busy') = Cardinality(Busy)
         /\ HasBoth(t) => Cardinality(Moved') = Cardinality(Moved) - 1
         /\ ~HasBoth(t) => Cardinality(Moved') = Cardinality(Moved)
<1>1. /\ IsFiniteSet(held) /\ IsFiniteSet(Busy) /\ IsFiniteSet(Moved)
      /\ blocks_allocated = Cardinality(held) + Cardinality(Busy) + Cardinality(Moved)
  BY DEF CountInv, BlocksCounted
<1>2. Cardinality(held) \in Nat /\ Cardinality(Busy) \in Nat /\ Cardinality(Moved) \in Nat
  BY <1>1, CardNat
<1>3. /\ Busy' = Busy \ {t} /\ Moved' = Moved \ {t}
      /\ held' = held \cup Claimed(t) /\ Claimed(t) \cap held = {} /\ OnlyMoves(t)
  BY AfterFinish
<1>4. (t \in Busy <=> HasBlock(t)) /\ (t \in Moved <=> HasBoth(t))
  BY <1>3, OthersCounted
<1>5. Claimed(t) = {} => held' = held BY <1>3
<1>6. ASSUME NEW b, Claimed(t) = {b}
      PROVE  Cardinality(held') = Cardinality(held) + 1
  <2>1. b \notin held /\ held' = held \cup {b} BY <1>3, <1>6
  <2> QED BY <1>1, <2>1, OneMore
<1>7. IsFiniteSet(held')
  <2>1. Claimed(t) = {call[t].blk, new[t]} \ {NoBlock} BY DEF Claimed
  <2>2. IsFiniteSet({call[t].blk, new[t]} \ {NoBlock})
    <3>1. IsFiniteSet({call[t].blk}) BY FS_Singleton
    <3>2. IsFiniteSet({call[t].blk} \cup {new[t]}) BY <3>1, FS_AddElement
    <3>3. {call[t].blk} \cup {new[t]} = {call[t].blk, new[t]} OBVIOUS
    <3> QED BY <3>2, <3>3, FS_Subset
  <2> QED BY <1>1, <1>3, <2>1, <2>2, FS_Union
<1>8. /\ IsFiniteSet(Busy')
      /\ HasBlock(t) => Cardinality(Busy') = Cardinality(Busy) - 1
      /\ ~HasBlock(t) => Busy' = Busy
  BY <1>1, <1>3, <1>4, OneLess
<1>9. /\ IsFiniteSet(Moved')
      /\ HasBoth(t) => Cardinality(Moved') = Cardinality(Moved) - 1
      /\ ~HasBoth(t) => Moved' = Moved
  BY <1>1, <1>3, <1>4, OneLess
<1> QED BY <1>1, <1>2, <1>5, <1>6, <1>7, <1>8, <1>9

LEMMA ReturnCounts ==
  ASSUME IInv, CountInv, NEW t \in Thread,
         ReturnAllocated(t) \/ MapFails(t) \/ ReturnReleased(t) \/ ReturnResized(t)
  PROVE  CountInv'
<1>1. /\ TypeOK /\ LocalsOK(t) /\ NewOK(t) BY DEF IInv, CountInv
<1>2. Finish(t) BY DEF ReturnAllocated, MapFails, ReturnReleased, ReturnResized
<1>3. /\ OnlyMoves(t) /\ NewOK(t)' /\ fresh'[t] = FALSE /\ mapped' = mapped
      /\ \A u \in Thread \ {t} : NewOK(u)'
  BY <1>2, AfterFinish
<1>4. blocks_allocated \in Int /\ num_bm_pages \in Int BY <1>1 DEF TypeOK
<1>5. /\ IsFiniteSet(held') /\ IsFiniteSet(Busy') /\ IsFiniteSet(Moved')
      /\ blocks_allocated = Cardinality(held) + Cardinality(Busy) + Cardinality(Moved)
      /\ Cardinality(held) \in Nat /\ Cardinality(Busy) \in Nat /\ Cardinality(Moved) \in Nat
  BY <1>2, FinishCards, Zenon
<1>6. Claimed(t) = {} => Cardinality(held') = Cardinality(held)
  BY <1>2, FinishCards, Zenon
<1>7. Claimed(t) = {call[t].blk} => Cardinality(held') = Cardinality(held) + 1
  BY <1>2, FinishCards, Zenon
<1>8. Claimed(t) = {new[t]} => Cardinality(held') = Cardinality(held) + 1
  BY <1>2, FinishCards, Zenon
<1>9. /\ HasBlock(t) => Cardinality(Busy') = Cardinality(Busy) - 1
      /\ ~HasBlock(t) => Cardinality(Busy') = Cardinality(Busy)
  BY <1>2, FinishCards, Zenon
<1>10. /\ HasBoth(t) => Cardinality(Moved') = Cardinality(Moved) - 1
       /\ ~HasBoth(t) => Cardinality(Moved') = Cardinality(Moved)
  BY <1>2, FinishCards, Zenon
<1>11. ASSUME ~fresh[t], num_bm_pages' = num_bm_pages PROVE PagesCounted'
  BY <1>3, <1>4, <1>11, PageIsCounted
<1>12. CASE ReturnAllocated(t)
  <2>1. /\ pc[t] = "return" /\ call[t].op = "allocate"
        /\ blocks_allocated' = blocks_allocated + 1
        /\ fresh[t] => num_bm_pages' = num_bm_pages + 1
        /\ ~fresh[t] => num_bm_pages' = num_bm_pages
    BY <1>12, CountedType DEF ReturnAllocated, CountBlock
  <2>2. call[t].blk = NoBlock /\ new[t] # NoBlock BY <1>1, <2>1 DEF LocalsOK, NewOK
  <2>3. Claimed(t) = {new[t]} BY <2>2 DEF Claimed
  <2>4. ~HasBlock(t) /\ ~HasBoth(t) BY <2>1 DEF HasBlock, HasBoth
  <2>5. Cardinality(held') = Cardinality(held) + 1 BY <1>8, <2>3, Zenon
  <2>6. Cardinality(Busy') = Cardinality(Busy) /\ Cardinality(Moved') = Cardinality(Moved)
    BY <1>9, <1>10, <2>4, Zenon
  <2>7. BlocksCounted' BY <1>5, <2>1, <2>5, <2>6 DEF BlocksCounted
  <2>8. PagesCounted' BY <1>3, <2>1, PageIsCounted
  <2> QED BY <1>3, <2>7, <2>8 DEF CountInv
<1>13. CASE MapFails(t)
  <2>1. pc[t] = "map" /\ blocks_allocated' = blocks_allocated /\ num_bm_pages' = num_bm_pages
    BY <1>13 DEF MapFails, counts
  <2>2. /\ call[t].op \in {"allocate", "move"} /\ new[t] = NoBlock
        /\ call[t].op = "allocate" <=> call[t].blk = NoBlock
        /\ ~fresh[t]
    BY <1>1, <2>1 DEF LocalsOK, Allocating, NewOK
  <2>3. PagesCounted' BY <1>11, <2>1, <2>2
  <2>4. ~HasBoth(t) BY <2>1, <2>2 DEF HasBoth
  <2>5. Cardinality(Moved') = Cardinality(Moved) BY <1>10, <2>4, Zenon
  <2>6. CASE call[t].op = "allocate"
    <3>1. Claimed(t) = {} /\ ~HasBlock(t) BY <2>2, <2>6 DEF Claimed, HasBlock
    <3>2. Cardinality(held') = Cardinality(held) BY <1>6, <3>1, Zenon
    <3>3. Cardinality(Busy') = Cardinality(Busy) BY <1>9, <3>1, Zenon
    <3>4. BlocksCounted' BY <1>5, <2>1, <2>5, <3>2, <3>3 DEF BlocksCounted
    <3> QED BY <1>3, <2>3, <3>4 DEF CountInv
  <2>7. CASE call[t].op = "move"
    <3>1. Claimed(t) = {call[t].blk} /\ HasBlock(t) BY <2>2, <2>7 DEF Claimed, HasBlock
    <3>2. Cardinality(held') = Cardinality(held) + 1 BY <1>7, <3>1, Zenon
    <3>3. Cardinality(Busy') = Cardinality(Busy) - 1 BY <1>9, <3>1, Zenon
    <3>4. BlocksCounted' BY <1>5, <2>1, <2>5, <3>2, <3>3 DEF BlocksCounted
    <3> QED BY <1>3, <2>3, <3>4 DEF CountInv
  <2> QED BY <2>2, <2>6, <2>7
<1>14. CASE ReturnReleased(t)
  <2>1. /\ pc[t] = "return" /\ blocks_allocated' = blocks_allocated - 1
        /\ num_bm_pages' = num_bm_pages
        /\ call[t].op = "release" \/ (call[t].op = "move" /\ call[t].blk = NoBlock)
    BY <1>14 DEF ReturnReleased
  <2>2. ~fresh[t] BY <1>1, <2>1 DEF NewOK
  <2>3. PagesCounted' BY <1>11, <2>1, <2>2
  <2>4. HasBlock(t) BY <2>1 DEF HasBlock
  <2>5. Cardinality(Busy') = Cardinality(Busy) - 1 BY <1>9, <2>4, Zenon
  <2>6. CASE call[t].op = "release"
    <3>1. Claimed(t) = {} /\ ~HasBoth(t)
      BY <1>1, <2>1, <2>6 DEF Claimed, HasBoth, LocalsOK
    <3>2. Cardinality(held') = Cardinality(held) BY <1>6, <3>1, Zenon
    <3>3. Cardinality(Moved') = Cardinality(Moved) BY <1>10, <3>1, Zenon
    <3>4. BlocksCounted' BY <1>5, <2>1, <2>5, <3>2, <3>3 DEF BlocksCounted
    <3> QED BY <1>3, <2>3, <3>4 DEF CountInv
  <2>7. CASE call[t].op = "move"
    <3>1. call[t].blk = NoBlock /\ new[t] # NoBlock BY <1>1, <2>1, <2>7 DEF NewOK
    <3>2. Claimed(t) = {new[t]} /\ HasBoth(t) BY <2>7, <3>1 DEF Claimed, HasBoth
    <3>3. Cardinality(held') = Cardinality(held) + 1 BY <1>8, <3>2, Zenon
    <3>4. Cardinality(Moved') = Cardinality(Moved) - 1 BY <1>10, <3>2, Zenon
    <3>5. BlocksCounted' BY <1>5, <2>1, <2>5, <3>3, <3>4 DEF BlocksCounted
    <3> QED BY <1>3, <2>3, <3>5 DEF CountInv
  <2> QED BY <2>1, <2>6, <2>7
<1>15. CASE ReturnResized(t)
  <2>1. /\ pc[t] = "return" /\ call[t].op \in {"shrink", "grow"}
        /\ blocks_allocated' = blocks_allocated /\ num_bm_pages' = num_bm_pages
    BY <1>15 DEF ReturnResized, counts
  <2>2. ~fresh[t] /\ call[t].blk # NoBlock /\ new[t] = NoBlock
    BY <1>1, <2>1 DEF NewOK, LocalsOK
  <2>3. PagesCounted' BY <1>11, <2>1, <2>2
  <2>4. HasBlock(t) /\ ~HasBoth(t) /\ Claimed(t) = {call[t].blk}
    BY <2>1, <2>2 DEF HasBlock, HasBoth, Claimed
  <2>5. Cardinality(held') = Cardinality(held) + 1 BY <1>7, <2>4, Zenon
  <2>6. Cardinality(Busy') = Cardinality(Busy) - 1 BY <1>9, <2>4, Zenon
  <2>7. Cardinality(Moved') = Cardinality(Moved) BY <1>10, <2>4, Zenon
  <2>8. BlocksCounted' BY <1>5, <2>1, <2>5, <2>6, <2>7 DEF BlocksCounted
  <2> QED BY <1>3, <2>3, <2>8 DEF CountInv
<1> QED BY <1>12, <1>13, <1>14, <1>15

LEMMA StepCounts ==
  ASSUME IInv, CountInv, NEW t \in Thread, Step(t)
  PROVE  CountInv'
<1>1. CASE \/ TakeLru(t) \/ PutBack(t) \/ TakeFromSuperblock(t) \/ SuperblockMiss(t)
  <2>1. PICK label \in {"scan_lru", "search", "scan_superblock", "map"} :
          pc' = [pc EXCEPT ![t] = label]
    BY <1>1 DEF TakeLru, PutBack, TakeFromSuperblock, SuperblockMiss, Goto
  <2>2. /\ pc[t] \in {"find", "put_back", "search"}
        /\ UNCHANGED <<mapped, held, call, new, fresh, counts>>
    BY <1>1 DEF TakeLru, PutBack, TakeFromSuperblock, SuperblockMiss, Searching, pages
  <2> QED BY <2>1, <2>2, CalmCounts DEF Labels
<1>2. CASE ScanLru(t) \/ ScanSuperblock(t)
  <2>1. PICK label \in {"set", "put_back", "abort"} : pc' = [pc EXCEPT ![t] = label]
    BY <1>2 DEF ScanLru, ScanSuperblock, Goto
  <2>2. /\ pc[t] \in {"scan_lru", "scan_superblock"}
        /\ UNCHANGED <<mapped, held, call, new, fresh, counts>>
    BY <1>2 DEF ScanLru, ScanSuperblock, pages
  <2> QED BY <2>1, <2>2, CalmCounts DEF Labels
<1>3. CASE \/ Unhand(t) \/ UnhandToSuperblock(t) \/ UnhandAndReclaim(t)
  <2>1. PICK label \in {"return", "munmap"} : pc' = [pc EXCEPT ![t] = label]
    BY <1>3 DEF Unhand, UnhandToSuperblock, UnhandAndReclaim, Goto
  <2>2. pc[t] = "unhand" /\ UNCHANGED <<mapped, held, call, new, fresh, counts>>
    BY <1>3 DEF Unhand, UnhandToSuperblock, UnhandAndReclaim
  <2> QED BY <2>1, <2>2, CalmCounts DEF Labels
<1>4. CASE Grab(t)
  <2>1. /\ pc[t] = "grab" /\ pc' = [pc EXCEPT ![t] = "update"]
        /\ UNCHANGED <<mapped, held, call, new, fresh, counts>>
    BY <1>4 DEF Grab, Goto
  <2> QED BY <2>1, CalmCounts DEF Labels
<1>5. CASE GrowBlocked(t)
  <2>1. /\ pc[t] = "update" /\ pc' = [pc EXCEPT ![t] = "unhand"] /\ call[t].op = "grow"
        /\ UNCHANGED <<mapped, held, call, new, fresh, counts>>
    BY <1>5 DEF GrowBlocked, Goto, pages
  <2> QED BY <2>1, CalmCounts DEF Labels
<1> QED BY <1>1, <1>2, <1>3, <1>4, <1>5, SetBitsCounts, MapPageCounts, ClearBlockCounts,
           LengthCounts, MunmapCounts, StartMoveCounts, ReleaseMovedCounts, ReturnCounts
        DEF Step

LEMMA InitCounts == Init => CountInv
<1> SUFFICES ASSUME Init PROVE CountInv
  OBVIOUS
<1>1. /\ mapped = {} /\ held = {} /\ blocks_allocated = 0 /\ num_bm_pages = 0
      /\ \A t \in Thread : call[t] = NoCall /\ fresh[t] = FALSE
  BY DEF Init
<1>2. Busy = {} /\ Moved = {} /\ Fresh = {}
  BY <1>1 DEF Busy, Moved, Fresh, HasBlock, HasBoth, NoCall
<1>3. \A t \in Thread : NewOK(t) BY <1>1 DEF NewOK, NoCall
<1>4. mapped \ Uncounted = {} BY <1>1
<1>5. IsFiniteSet({}) /\ Cardinality({}) = 0 BY FS_EmptySet
<1>6. BlocksCounted BY <1>1, <1>2, <1>5 DEF BlocksCounted
<1>7. PagesCounted BY <1>1, <1>2, <1>4, <1>5 DEF PagesCounted
<1> QED BY <1>3, <1>6, <1>7 DEF CountInv

LEMMA StutterCounts ==
  ASSUME CountInv, UNCHANGED vars
  PROVE  CountInv'
BY DEF vars, CountInv, NewOK, BlocksCounted, PagesCounted, Busy, Moved, HasBlock, HasBoth,
       Fresh, Uncounted

(* At every step it is known what is counted: the blocks of clients, those *)
(* of threads that resize or release one, and of a move both; and all      *)
(* pages but those just mapped.                                            *)
THEOREM CountInvHolds == Spec => []CountInv
<1>1. IInv /\ CountInv /\ [Next]_vars => CountInv'
  BY CallCounts, StepCounts, StutterCounts DEF Next
<1> QED BY <1>1, InitCounts, InvariantHolds, PTL DEF Spec

(* The counters never wrap, and when no call is in progress they are the   *)
(* numbers of blocks and of pages, although bm_allocate counts a block and *)
(* a page only after other threads can reach them.                         *)
THEOREM CountersSettle == Spec => []CountsSettle
<1>1. IInv /\ CountInv => CountsSettle
  <2> SUFFICES ASSUME IInv, CountInv PROVE CountsSettle
    OBVIOUS
  <2>1. blocks_allocated >= 0
    <3>1. /\ IsFiniteSet(held) /\ IsFiniteSet(Busy) /\ IsFiniteSet(Moved)
          /\ blocks_allocated = Cardinality(held) + Cardinality(Busy) + Cardinality(Moved)
      BY DEF CountInv, BlocksCounted
    <3>2. Cardinality(held) \in Nat /\ Cardinality(Busy) \in Nat /\ Cardinality(Moved) \in Nat
      BY <3>1, CardNat
    <3> QED BY <3>1, <3>2
  <2>2. num_bm_pages >= 0
    <3>1. IsFiniteSet(mapped \ Uncounted) /\ num_bm_pages = Cardinality(mapped \ Uncounted)
      BY FS_Subset DEF CountInv, PagesCounted
    <3>2. Cardinality(mapped \ Uncounted) \in Nat BY <3>1, CardNat
    <3> QED BY <3>1, <3>2
  <2>3. ASSUME \A t \in Thread : pc[t] = "idle"
        PROVE  blocks_allocated = Cardinality(held) /\ num_bm_pages = Cardinality(mapped)
    <3>1. \A t \in Thread : call[t] = NoCall /\ ~fresh[t]
      BY <2>3 DEF IInv, LocalsOK, CountInv, NewOK
    <3>2. Busy = {} /\ Moved = {} /\ Fresh = {}
      BY <3>1 DEF Busy, Moved, Fresh, HasBlock, HasBoth, NoCall
    <3>3. mapped \ Uncounted = mapped BY <3>2 DEF Uncounted
    <3>4. Cardinality({}) = 0 BY FS_EmptySet
    <3>5. Cardinality(held) \in Nat BY CardNat DEF CountInv, BlocksCounted
    <3>6. Cardinality(Busy) = 0 /\ Cardinality(Moved) = 0 BY <3>2, <3>4
    <3>7. blocks_allocated = Cardinality(held) + Cardinality(Busy) + Cardinality(Moved)
      BY DEF CountInv, BlocksCounted
    <3>8. num_bm_pages = Cardinality(mapped) BY <3>3 DEF CountInv, PagesCounted
    <3> QED BY <3>5, <3>6, <3>7, <3>8
  <2> QED BY <2>1, <2>2, <2>3 DEF CountsSettle
<1> QED BY <1>1, CountInvHolds, InvariantHolds, PTL
=============================================================================
