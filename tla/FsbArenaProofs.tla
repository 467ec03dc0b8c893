--------------------------- MODULE FsbArenaProofs ---------------------------
(***************************************************************************)
(* What FsbArena claims, for any number of frames and of blocks on a page. *)
(*                                                                         *)
(* delete_from_list empties a list when next = prev holds of the page that *)
(* leaves, which is so of both pages of a list of two, and of any page     *)
(* whose links are stale.  The pages it loses stay in use.  The invariant  *)
(* therefore says of every page in use that it is linked with pages of its *)
(* own kind, both ways, or has next = prev: what leaves a list is then     *)
(* either unlinked from two pages in use or touches no other page.         *)
(***************************************************************************)
EXTENDS FsbArena, FiniteSetTheorems, WellFoundedInduction, TLAPS

-----------------------------------------------------------------------------
(* The list a page belongs on, whether or not it is there. *)
KindOf(M, n) ==
  [p \in Page |-> IF p \notin M THEN "none"
                  ELSE IF n[p] = 0 THEN "full_pages" ELSE "avail_pages"]

Links == [head : [Lists -> Page \cup {NULL}],
          next : [Page -> Page \cup {NULL}], prev : [Page -> Page \cup {NULL}]]

(* Page p is in use, and linked both ways with pages of its kind. *)
Linked(L, K, p) ==
  /\ K[p] # "none"
  /\ L.next[p] \in Page /\ K[L.next[p]] = K[p] /\ L.prev[L.next[p]] = p
  /\ L.prev[p] \in Page /\ K[L.prev[p]] = K[p] /\ L.next[L.prev[p]] = p

HeadsLinked(L, K) ==
  \A l \in Lists : L.head[l] # NULL =>
    L.head[l] \in Page /\ K[L.head[l]] = l /\ Linked(L, K, L.head[l])

LinkedOrStale(L, K) ==
  \A p \in Page : K[p] # "none" => Linked(L, K, p) \/ L.next[p] = L.prev[p]

RingsClosed(L, K) ==
  \A p \in Page : Linked(L, K, p) =>
    Linked(L, K, L.next[p]) /\ Linked(L, K, L.prev[p])

ListsOK(L, K) ==
  L \in Links /\ HeadsLinked(L, K) /\ LinkedOrStale(L, K) /\ RingsClosed(L, K)

-----------------------------------------------------------------------------
(* The pages of one list: they are linked, and no part of them is closed.  *)
Closed(L, R) == \A p \in R : L.next[p] \in R /\ L.prev[p] \in R

Ring(L, K, R) ==
  /\ R \subseteq Page
  /\ \A p \in R : K[p] = "avail_pages" /\ Linked(L, K, p)
  /\ Closed(L, R)
  /\ \A S \in SUBSET R : S # {} /\ Closed(L, S) => S = R

WalkType ==
  [page : Page, first : Page, next : Page, todo : SUBSET Bit,
   seen : SUBSET (Page \X Bit), releases : BOOLEAN]

(* A walk goes around the ring of the available pages.  A page that still  *)
(* has blocks to visit is on it; afterwards only the next page is.         *)
OnRing(w, L, R) ==
  /\ L.head["avail_pages"] \in R
  /\ w.next \in R
  /\ w.todo # {} => w.page \in R /\ w.next = L.next[w.page]

(* Before the callback has released a block: U are the pages yet to come.  *)
Ahead(w, L, R, U) ==
  /\ U \subseteq R /\ w.page \in R \ U
  /\ w.next = L.next[w.page]
  /\ \A p \in U \cup {w.page} : L.next[p] \in U \cup {w.first}
  /\ \A b \in w.seen : b[1] \notin U
  /\ \A i \in w.todo : <<w.page, i>> \notin w.seen

WalkOK(w, L, K) ==
  w # NoWalk =>
    /\ w \in WalkType
    /\ \E R \in SUBSET Page :
         /\ Ring(L, K, R) /\ OnRing(w, L, R)
         /\ ~w.releases => \E U \in SUBSET R : Ahead(w, L, R, U)

-----------------------------------------------------------------------------
(* The inductive invariant. *)

Kind == KindOf(mapped, num_free)

Marked ==
  \A p \in mapped :
    /\ \A i \in 0 .. blocks_per_page - 1 : i \in bitmap[p] <=> <<p, i>> \in held
    /\ num_free[p] = blocks_per_page - Cardinality(bitmap[p])

(* With one block to a page every page in use is full. *)
SingleBlocksFull ==
  blocks_per_page = 1 => \A p \in mapped : num_free[p] = 0

PagesOK ==
  /\ TypeOK
  /\ Marked
  /\ BlocksMapped
  /\ LinksSafe
  /\ outcome = "running" => ListsOK(links, Kind) /\ SingleBlocksFull

FsbInv == PagesOK /\ (outcome = "running" => WalkOK(walk, links, Kind))

-----------------------------------------------------------------------------
(* The list operations keep ListsOK.  As in every such proof, the pages    *)
(* whose links an operation does not write are linked after it just when   *)
(* they were before; the rest of ListsOK follows.                          *)

Kinds == [Page -> Lists \cup {"none"}]

(* The type of a list state, spelled out. *)
LEMMA LinksType ==
  ASSUME NEW L \in Links
  PROVE  /\ \A l \in Lists : L.head[l] \in Page \cup {NULL}
         /\ \A p \in Page : /\ L.next[p] \in Page \cup {NULL}
                            /\ L.prev[p] \in Page \cup {NULL}
BY DEF Links

(* The first branch of add_to_list. *)
Alone(L, l, p) ==
  [head |-> [L.head EXCEPT ![l] = p],
   next |-> [L.next EXCEPT ![p] = p],
   prev |-> [L.prev EXCEPT ![p] = p]]

(* A page on no list can be made the only page of any list. *)
LEMMA AloneOK ==
  ASSUME NEW L, NEW K \in Kinds, ListsOK(L, K),
         NEW l \in Lists, NEW p \in Page, K[p] = "none"
  PROVE  ListsOK(Alone(L, l, p), [K EXCEPT ![p] = l])
<1> DEFINE M == Alone(L, l, p)
           J == [K EXCEPT ![p] = l]
<1>1. L \in Links BY DEF ListsOK
<1>2. M \in Links BY <1>1 DEF Alone, Links
<1>3. /\ M.head = [L.head EXCEPT ![l] = p]
      /\ M.next = [L.next EXCEPT ![p] = p]
      /\ M.prev = [L.prev EXCEPT ![p] = p]
  BY DEF Alone
<1>0. l # "none" BY DEF Lists
<1> HIDE DEF M
<1>4. /\ J[p] = l /\ M.next[p] = p /\ M.prev[p] = p
      /\ \A q \in Page : q # p => /\ J[q] = K[q]
                                  /\ M.next[q] = L.next[q]
                                  /\ M.prev[q] = L.prev[q]
      /\ M.head[l] = p
      /\ \A k \in Lists : k # l => M.head[k] = L.head[k]
  BY <1>1, <1>3 DEF Links, Kinds
<1> HIDE DEF J
<1>5. Linked(M, J, p) BY <1>0, <1>4 DEF Linked
<1>6. ASSUME NEW q \in Page, Linked(L, K, q)
      PROVE  Linked(M, J, q) /\ q # p
  BY <1>4, <1>6 DEF Linked
<1>7. ASSUME NEW q \in Page, q # p, Linked(M, J, q)
      PROVE  Linked(L, K, q) /\ M.next[q] # p /\ M.prev[q] # p
  BY <1>4, <1>7 DEF Linked
<1>8. HeadsLinked(M, J)
  <2> SUFFICES ASSUME NEW k \in Lists, M.head[k] # NULL
               PROVE  M.head[k] \in Page /\ J[M.head[k]] = k /\ Linked(M, J, M.head[k])
    BY DEF HeadsLinked
  <2>1. CASE k = l BY <2>1, <1>4, <1>5
  <2>2. CASE k # l
    <3>1. M.head[k] = L.head[k] BY <2>2, <1>4
    <3>2. L.head[k] \in Page /\ K[L.head[k]] = k /\ Linked(L, K, L.head[k])
      BY <3>1 DEF ListsOK, HeadsLinked
    <3> QED BY <3>1, <3>2, <1>4, <1>6
  <2> QED BY <2>1, <2>2
<1>9. LinkedOrStale(M, J)
  BY <1>4, <1>5, <1>6 DEF ListsOK, LinkedOrStale
<1>10. RingsClosed(M, J)
  <2> SUFFICES ASSUME NEW q \in Page, Linked(M, J, q)
               PROVE  Linked(M, J, M.next[q]) /\ Linked(M, J, M.prev[q])
    BY DEF RingsClosed
  <2>1. CASE q = p BY <2>1, <1>4, <1>5
  <2>2. CASE q # p
    <3>1. Linked(L, K, q) BY <2>2, <1>7
    <3>2. Linked(L, K, L.next[q]) /\ Linked(L, K, L.prev[q])
      BY <3>1 DEF ListsOK, RingsClosed
    <3>3. L.next[q] \in Page /\ L.prev[q] \in Page
      BY <3>1 DEF Linked
    <3> QED BY <3>2, <3>3, <2>2, <1>4, <1>6
  <2> QED BY <2>1, <2>2
<1> QED BY <1>2, <1>8, <1>9, <1>10 DEF ListsOK, M, J

(* add_to_list, for a page on no list. *)
LEMMA AddOK ==
  ASSUME NEW L, NEW K \in Kinds, ListsOK(L, K),
         NEW l \in Lists, NEW p \in Page, K[p] = "none"
  PROVE  ListsOK(add_to_list(L, l, p), [K EXCEPT ![p] = l])
<1> DEFINE M == add_to_list(L, l, p)
           J == [K EXCEPT ![p] = l]
           f == L.head[l]
           r == L.prev[f]
<1>0. l # "none" BY DEF Lists
<1>1. L \in Links BY DEF ListsOK
<1>2. CASE f = NULL
  <2>1. M = Alone(L, l, p)
    <3>1. M = [L EXCEPT !.head[l] = p, !.next[p] = p, !.prev[p] = p]
      BY <1>2 DEF add_to_list
    <3> QED BY <3>1, <1>1 DEF Alone, Links
  <2> QED BY <2>1, AloneOK
<1>3. CASE f # NULL
  <2>1. f \in Page /\ K[f] = l /\ Linked(L, K, f)
    BY <1>1, <1>3 DEF ListsOK, HeadsLinked, Links
  <2>2. r \in Page /\ K[r] = l /\ L.next[r] = f
    BY <2>1 DEF Linked
  <2>3. Linked(L, K, r) BY <2>1 DEF ListsOK, RingsClosed
  <2>4. f # p /\ r # p BY <2>1, <2>2, <1>0
  <2>4a. M = [L EXCEPT !.head[l] = p, !.next[p] = f, !.next[r] = p,
                       !.prev[p] = r, !.prev[f] = p]
    BY <1>3 DEF add_to_list
  <2>5. M = [head |-> [L.head EXCEPT ![l] = p],
             next |-> [L.next EXCEPT ![p] = f, ![r] = p],
             prev |-> [L.prev EXCEPT ![p] = r, ![f] = p]]
    BY <2>4a, <1>1 DEF Links
  <2>6. M \in Links BY <1>1, <2>5, <2>1, <2>2 DEF Links
  <2> HIDE DEF M, f, r
  <2>7. /\ J[p] = l /\ M.next[p] = f /\ M.prev[p] = r
        /\ M.next[r] = p /\ M.prev[f] = p
        /\ M.head[l] = p
        /\ \A k \in Lists : k # l => M.head[k] = L.head[k]
        /\ \A q \in Page : q # p => J[q] = K[q]
        /\ \A q \in Page : q # p /\ q # r => M.next[q] = L.next[q]
        /\ \A q \in Page : q # p /\ q # f => M.prev[q] = L.prev[q]
    BY <1>1, <2>1, <2>2, <2>4, <2>5 DEF Links, Kinds
  <2> HIDE DEF J
  <2>8. Linked(M, J, p) BY <2>1, <2>2, <2>4, <2>7, <1>0 DEF Linked
  <2>9. Linked(M, J, f)
    BY <2>1, <2>2, <2>4, <2>7, <1>0 DEF Linked, r
  <2>10. Linked(M, J, r)
    BY <2>1, <2>2, <2>3, <2>4, <2>7, <1>0 DEF Linked, r
  <2>11. ASSUME NEW q \in Page, Linked(L, K, q)
         PROVE  Linked(M, J, q) /\ q # p
    <3>0. q # p BY <2>11 DEF Linked
    <3>1. CASE q = f \/ q = r BY <3>0, <3>1, <2>9, <2>10
    <3>2. CASE q # f /\ q # r
      <4>2. M.next[q] = L.next[q] /\ M.prev[q] = L.prev[q] /\ J[q] = K[q]
        BY <3>2, <3>0, <2>7
      <4>3. L.next[q] # p /\ L.prev[q] # p BY <2>11 DEF Linked
      <4>4. L.next[q] # f /\ L.prev[q] # r
        BY <2>11, <3>2, <2>2 DEF Linked, r
      <4> QED BY <2>11, <3>0, <2>7, <4>2, <4>3, <4>4 DEF Linked
    <3> QED BY <3>1, <3>2
  <2>12. ASSUME NEW q \in Page, q # p, Linked(M, J, q)
         PROVE  Linked(L, K, q)
    <3>1. CASE q = f \/ q = r BY <3>1, <2>1, <2>3
    <3>2. CASE q # f /\ q # r
      <4>1. M.next[q] = L.next[q] /\ M.prev[q] = L.prev[q] /\ J[q] = K[q]
        BY <3>2, <2>12, <2>7
      <4>2. L.next[q] # p /\ L.prev[q] # p
        BY <2>12, <3>2, <4>1, <2>7 DEF Linked
      <4>3. L.next[q] # f /\ L.prev[q] # r
        BY <2>12, <4>1, <2>7 DEF Linked
      <4> QED BY <2>12, <2>7, <4>1, <4>2, <4>3 DEF Linked
    <3> QED BY <3>1, <3>2
  <2>13. HeadsLinked(M, J)
    <3> SUFFICES ASSUME NEW k \in Lists, M.head[k] # NULL
                 PROVE  M.head[k] \in Page /\ J[M.head[k]] = k /\ Linked(M, J, M.head[k])
      BY DEF HeadsLinked
    <3>0. CASE k = l BY <3>0, <2>7, <2>8
    <3>1. CASE k # l
      <4>1. M.head[k] = L.head[k] BY <3>1, <2>7
      <4>2. L.head[k] \in Page /\ K[L.head[k]] = k /\ Linked(L, K, L.head[k])
        BY <4>1 DEF ListsOK, HeadsLinked
      <4> QED BY <4>1, <4>2, <2>7, <2>11
    <3> QED BY <3>0, <3>1
  <2>14. LinkedOrStale(M, J)
    <3> SUFFICES ASSUME NEW q \in Page, J[q] # "none"
                 PROVE  Linked(M, J, q) \/ M.next[q] = M.prev[q]
      BY DEF LinkedOrStale
    <3>1. CASE q = p BY <3>1, <2>8
    <3>2. CASE q = f \/ q = r BY <3>2, <2>9, <2>10
    <3>3. CASE q # p /\ q # f /\ q # r
      <4>1. K[q] # "none" BY <3>3, <2>7
      <4>2. Linked(L, K, q) \/ L.next[q] = L.prev[q]
        BY <4>1 DEF ListsOK, LinkedOrStale
      <4> QED BY <3>3, <4>2, <2>7, <2>11
    <3> QED BY <3>1, <3>2, <3>3
  <2>15. RingsClosed(M, J)
    <3> SUFFICES ASSUME NEW q \in Page, Linked(M, J, q)
                 PROVE  Linked(M, J, M.next[q]) /\ Linked(M, J, M.prev[q])
      BY DEF RingsClosed
    <3>1. CASE q = p BY <3>1, <2>7, <2>9, <2>10
    <3>2. CASE q # p
      <4>1. Linked(L, K, q) BY <3>2, <2>12
      <4>2. Linked(L, K, L.next[q]) /\ Linked(L, K, L.prev[q])
        BY <4>1 DEF ListsOK, RingsClosed
      <4>3. L.next[q] \in Page /\ L.prev[q] \in Page BY <4>1 DEF Linked
      <4>4. Linked(M, J, L.next[q]) /\ Linked(M, J, L.prev[q])
        BY <4>2, <4>3, <2>11
      <4>5. M.next[q] \in {p, L.next[q]} /\ M.prev[q] \in {p, L.prev[q]}
        BY <3>2, <2>7
      <4> QED BY <4>4, <4>5, <2>8
    <3> QED BY <3>1, <3>2
  <2> QED BY <2>6, <2>13, <2>14, <2>15 DEF ListsOK, M, J
<1> QED BY <1>2, <1>3

(* What delete_from_list makes of a list state. *)
LEMMA DeleteFields ==
  ASSUME NEW L \in Links, NEW l \in Lists, NEW p \in Page
  PROVE  /\ L.next[p] = L.prev[p] =>
              delete_from_list(L, l, p) =
                [head |-> [L.head EXCEPT ![l] = NULL], next |-> L.next, prev |-> L.prev]
         /\ L.next[p] # L.prev[p] =>
              delete_from_list(L, l, p) =
                [head |-> [L.head EXCEPT ![l] = IF L.head[l] = p THEN L.next[p] ELSE L.head[l]],
                 next |-> [L.next EXCEPT ![L.prev[p]] = L.next[p]],
                 prev |-> [L.prev EXCEPT ![L.next[p]] = L.prev[p]]]
<1>1. L = [head |-> L.head, next |-> L.next, prev |-> L.prev] BY DEF Links
<1>2. L.head = [k \in Lists |-> L.head[k]] BY DEF Links
<1>3. CASE L.next[p] = L.prev[p]
  <2>1. delete_from_list(L, l, p) = [L EXCEPT !.head[l] = NULL]
    BY <1>3 DEF delete_from_list
  <2> QED BY <1>1, <1>3, <2>1
<1>4. CASE L.next[p] # L.prev[p]
  <2>1. delete_from_list(L, l, p) =
          [L EXCEPT !.head[l] = IF L.head[l] = p THEN L.next[p] ELSE L.head[l],
                    !.prev[L.next[p]] = L.prev[p], !.next[L.prev[p]] = L.next[p]]
    BY <1>4 DEF delete_from_list
  <2> QED BY <1>1, <1>4, <2>1
<1> QED BY <1>3, <1>4

(* delete_from_list of the last page of a list, or of a page of a list of  *)
(* two, or of one whose links are stale: the pages that the list loses are *)
(* left with next = prev.                                                  *)
LEMMA DeleteLastOK ==
  ASSUME NEW L, NEW K \in Kinds, ListsOK(L, K),
         NEW l \in Lists, NEW p \in Page, K[p] = l, L.next[p] = L.prev[p]
  PROVE  ListsOK(delete_from_list(L, l, p), [K EXCEPT ![p] = "none"])
<1> DEFINE M == delete_from_list(L, l, p)
           J == [K EXCEPT ![p] = "none"]
<1>0. l # "none" BY DEF Lists
<1>1. L \in Links BY DEF ListsOK
<1>3. M = [head |-> [L.head EXCEPT ![l] = NULL], next |-> L.next, prev |-> L.prev]
  BY <1>1, DeleteFields
<1> HIDE DEF M
<1>4. M \in Links BY <1>1, <1>3 DEF Links
<1>6. /\ M.head[l] = NULL
      /\ M.next = L.next
      /\ M.prev = L.prev
      /\ J[p] = "none"
      /\ \A k \in Lists : k # l => M.head[k] = L.head[k]
      /\ \A q \in Page : q # p => J[q] = K[q]
  BY <1>1, <1>3 DEF Links, Kinds
<1> HIDE DEF J
<1>7. ASSUME NEW q \in Page, Linked(M, J, q)
      PROVE  Linked(L, K, q) /\ q # p
  BY <1>6, <1>7 DEF Linked
<1>8. ASSUME NEW q \in Page, q # p, Linked(L, K, q)
      PROVE  Linked(M, J, q) \/ L.next[q] = L.prev[q]
  <2>1. CASE L.next[q] = p \/ L.prev[q] = p
    <3>1. Linked(L, K, p) BY <1>8, <2>1 DEF ListsOK, RingsClosed
    <3>2. q = L.next[p] BY <1>8, <2>1 DEF Linked
    <3> QED BY <3>1, <3>2 DEF Linked
  <2>2. CASE L.next[q] # p /\ L.prev[q] # p
    BY <1>6, <1>8, <2>2 DEF Linked
  <2> QED BY <2>1, <2>2
<1>9. HeadsLinked(M, J)
  <2> SUFFICES ASSUME NEW k \in Lists, M.head[k] # NULL
               PROVE  M.head[k] \in Page /\ J[M.head[k]] = k /\ Linked(M, J, M.head[k])
    BY DEF HeadsLinked
  <2>1. k # l BY <1>6
  <2>2. M.head[k] = L.head[k] BY <2>1, <1>6
  <2>3. L.head[k] \in Page /\ K[L.head[k]] = k /\ Linked(L, K, L.head[k])
    BY <2>2 DEF ListsOK, HeadsLinked
  <2>4. L.head[k] # p BY <2>1, <2>3
  <2>5. L.next[L.head[k]] # p /\ L.prev[L.head[k]] # p
    BY <2>1, <2>3 DEF Linked
  <2>6. Linked(M, J, L.head[k])
    BY <2>3, <2>4, <2>5, <1>6 DEF Linked
  <2> QED BY <2>2, <2>3, <2>4, <2>6, <1>6
<1>10. LinkedOrStale(M, J)
  BY <1>6, <1>8 DEF ListsOK, LinkedOrStale
<1>11. RingsClosed(M, J)
  <2> SUFFICES ASSUME NEW q \in Page, Linked(M, J, q)
               PROVE  Linked(M, J, M.next[q]) /\ Linked(M, J, M.prev[q])
    BY DEF RingsClosed
  <2>1. Linked(L, K, q) /\ q # p BY <1>7
  <2> DEFINE a == L.next[q]
             b == L.prev[q]
  <2>2. /\ a \in Page /\ a # p /\ L.prev[a] = q
        /\ b \in Page /\ b # p /\ L.next[b] = q
    BY <2>1, <1>6 DEF Linked
  <2>3. Linked(L, K, a) /\ Linked(L, K, b)
    BY <2>1 DEF ListsOK, RingsClosed
  <2>4. ASSUME NEW x \in Page, x # p, Linked(L, K, x),
               L.prev[x] # p \/ L.next[x] # p,
               L.prev[x] = p \/ L.next[x] = p
        PROVE  FALSE
    <3>1. Linked(L, K, p) BY <2>4 DEF ListsOK, RingsClosed
    <3>2. x = L.next[p] BY <2>4 DEF Linked
    <3> QED BY <2>4, <3>1, <3>2 DEF Linked
  <2>5. L.next[a] # p /\ L.prev[a] # p BY <2>1, <2>2, <2>3, <2>4
  <2>6. L.next[b] # p /\ L.prev[b] # p BY <2>1, <2>2, <2>3, <2>4
  <2> QED BY <2>2, <2>3, <2>5, <2>6, <1>6 DEF Linked
<1> QED BY <1>4, <1>9, <1>10, <1>11 DEF ListsOK, M, J

(* A page whose links differ is linked, and lies between two others. *)
LEMMA BetweenTwo ==
  ASSUME NEW L, NEW K \in Kinds, ListsOK(L, K),
         NEW p \in Page, K[p] # "none", L.next[p] # L.prev[p]
  PROVE  /\ Linked(L, K, p) /\ Linked(L, K, L.next[p]) /\ Linked(L, K, L.prev[p])
         /\ L.next[p] \in Page \ {p} /\ K[L.next[p]] = K[p] /\ L.prev[L.next[p]] = p
         /\ L.prev[p] \in Page \ {p} /\ K[L.prev[p]] = K[p] /\ L.next[L.prev[p]] = p
<1>1. Linked(L, K, p) BY DEF ListsOK, LinkedOrStale
<1>2. Linked(L, K, L.next[p]) /\ Linked(L, K, L.prev[p])
  BY <1>1 DEF ListsOK, RingsClosed
<1> QED BY <1>1, <1>2 DEF Linked

(* delete_from_list of a page between two others: all pages that are       *)
(* linked stay linked.                                                     *)
LEMMA DeleteInnerOK ==
  ASSUME NEW L, NEW K \in Kinds, ListsOK(L, K),
         NEW l \in Lists, NEW p \in Page, K[p] = l, L.next[p] # L.prev[p]
  PROVE  /\ ListsOK(delete_from_list(L, l, p), [K EXCEPT ![p] = "none"])
         /\ \A q \in Page \ {p} : Linked(L, K, q) =>
              Linked(delete_from_list(L, l, p), [K EXCEPT ![p] = "none"], q)
<1> DEFINE M == delete_from_list(L, l, p)
           J == [K EXCEPT ![p] = "none"]
           n == L.next[p]
           r == L.prev[p]
<1>0. l # "none" BY DEF Lists
<1>1. L \in Links BY DEF ListsOK
<1>3. Linked(L, K, p) /\ Linked(L, K, n) /\ Linked(L, K, r)
  BY <1>0, BetweenTwo
<1>4. /\ n \in Page /\ K[n] = l /\ L.prev[n] = p
      /\ r \in Page /\ K[r] = l /\ L.next[r] = p
  BY <1>0, BetweenTwo
<1>5. n # p /\ r # p /\ n # r BY <1>4
<1>8. M = [head |-> [L.head EXCEPT ![l] = IF L.head[l] = p THEN n ELSE L.head[l]],
           next |-> [L.next EXCEPT ![r] = n],
           prev |-> [L.prev EXCEPT ![n] = r]]
  BY <1>1, DeleteFields
<1> HIDE DEF M, n, r
<1>9. M \in Links BY <1>1, <1>4, <1>8 DEF Links
<1>10. /\ J[p] = "none"
       /\ M.next[r] = n
       /\ M.prev[n] = r
       /\ M.head[l] = (IF L.head[l] = p THEN n ELSE L.head[l])
       /\ \A k \in Lists : k # l => M.head[k] = L.head[k]
       /\ \A q \in Page : q # p => J[q] = K[q]
       /\ \A q \in Page : q # r => M.next[q] = L.next[q]
       /\ \A q \in Page : q # n => M.prev[q] = L.prev[q]
  BY <1>1, <1>4, <1>8 DEF Links, Kinds
<1> HIDE DEF J
<1>11. Linked(M, J, n)
  <2>1. L.next[n] # p BY <1>3, <1>4, <1>5 DEF Linked, r
  <2>2. L.next[n] # n BY <1>3, <1>4, <1>5 DEF Linked
  <2> QED BY <2>1, <2>2, <1>3, <1>4, <1>5, <1>10 DEF Linked
<1>12. Linked(M, J, r)
  <2>1. L.prev[r] # p BY <1>3, <1>4, <1>5 DEF Linked, n
  <2>2. L.prev[r] # r BY <1>3, <1>4, <1>5 DEF Linked
  <2> QED BY <2>1, <2>2, <1>3, <1>4, <1>5, <1>10 DEF Linked
<1>13. ASSUME NEW q \in Page, q # p, Linked(L, K, q)
       PROVE  Linked(M, J, q)
  <2>1. CASE q = n \/ q = r BY <2>1, <1>11, <1>12
  <2>2. CASE q # n /\ q # r
    <3>1. L.next[q] # p /\ L.prev[q] # p
      BY <1>13, <2>2 DEF Linked, n, r
    <3>2. L.next[q] # n /\ L.prev[q] # r
      BY <1>4, <1>13, <2>2 DEF Linked
    <3> QED BY <3>1, <3>2, <2>2, <1>10, <1>13 DEF Linked
  <2> QED BY <2>1, <2>2
<1>14. ASSUME NEW q \in Page, Linked(M, J, q)
       PROVE  q # p /\ Linked(L, K, q)
  <2>1. q # p BY <1>10, <1>14 DEF Linked
  <2>2. CASE q = n \/ q = r BY <2>1, <2>2, <1>3
  <2>3. CASE q # n /\ q # r
    <3>1. M.next[q] = L.next[q] /\ M.prev[q] = L.prev[q] BY <2>3, <1>10
    <3>2. L.next[q] # p /\ L.prev[q] # p
      BY <3>1, <1>10, <1>14 DEF Linked
    <3>3. L.next[q] # n /\ L.prev[q] # r
      BY <3>1, <2>3, <1>10, <1>14 DEF Linked
    <3> QED BY <2>1, <3>1, <3>2, <3>3, <1>10, <1>14 DEF Linked
  <2> QED BY <2>1, <2>2, <2>3
<1>15. HeadsLinked(M, J)
  <2> SUFFICES ASSUME NEW k \in Lists, M.head[k] # NULL
               PROVE  M.head[k] \in Page /\ J[M.head[k]] = k /\ Linked(M, J, M.head[k])
    BY DEF HeadsLinked
  <2>1. CASE k = l /\ L.head[l] = p BY <2>1, <1>4, <1>5, <1>10, <1>11
  <2>2. CASE ~ (k = l /\ L.head[l] = p)
    <3>1. M.head[k] = L.head[k] BY <2>2, <1>10
    <3>2. L.head[k] \in Page /\ K[L.head[k]] = k /\ Linked(L, K, L.head[k])
      BY <3>1 DEF ListsOK, HeadsLinked
    <3>3. L.head[k] # p BY <2>2, <3>2
    <3> QED BY <3>1, <3>2, <3>3, <1>10, <1>13
  <2> QED BY <2>1, <2>2
<1>16. LinkedOrStale(M, J)
  <2> SUFFICES ASSUME NEW q \in Page, J[q] # "none"
               PROVE  Linked(M, J, q) \/ M.next[q] = M.prev[q]
    BY DEF LinkedOrStale
  <2>1. q # p /\ K[q] # "none" BY <1>10
  <2>2. CASE q = n \/ q = r BY <2>2, <1>11, <1>12
  <2>3. CASE q # n /\ q # r
    BY <2>1, <2>3, <1>10, <1>13 DEF ListsOK, LinkedOrStale
  <2> QED BY <2>2, <2>3
<1>17. RingsClosed(M, J)
  <2> SUFFICES ASSUME NEW q \in Page, Linked(M, J, q)
               PROVE  Linked(M, J, M.next[q]) /\ Linked(M, J, M.prev[q])
    BY DEF RingsClosed
  <2>1. q # p /\ Linked(L, K, q) BY <1>14
  <2>2. Linked(L, K, L.next[q]) /\ Linked(L, K, L.prev[q])
    BY <2>1 DEF ListsOK, RingsClosed
  <2>3. M.next[q] \in Page /\ M.prev[q] \in Page /\ M.next[q] # p /\ M.prev[q] # p
    BY <1>10 DEF Linked
  <2>4. Linked(M, J, M.next[q])
    <3>1. CASE q = r BY <3>1, <1>10, <1>11
    <3>2. CASE q # r BY <3>2, <2>2, <2>3, <1>10, <1>13
    <3> QED BY <3>1, <3>2
  <2>5. Linked(M, J, M.prev[q])
    <3>1. CASE q = n BY <3>1, <1>10, <1>12
    <3>2. CASE q # n BY <3>2, <2>2, <2>3, <1>10, <1>13
    <3> QED BY <3>1, <3>2
  <2> QED BY <2>4, <2>5
<1> QED BY <1>9, <1>13, <1>15, <1>16, <1>17 DEF ListsOK, M, J

(* delete_from_list, of any page on its list. *)
LEMMA DeleteOK ==
  ASSUME NEW L, NEW K \in Kinds, ListsOK(L, K),
         NEW l \in Lists, NEW p \in Page, K[p] = l
  PROVE  ListsOK(delete_from_list(L, l, p), [K EXCEPT ![p] = "none"])
BY DeleteLastOK, DeleteInnerOK

(* It uses the headers of pages in use only, *)
LEMMA DeletedInUse ==
  ASSUME NEW L, NEW K \in Kinds, ListsOK(L, K),
         NEW p \in Page, K[p] # "none", NEW q \in Deleted(L, p)
  PROVE  q \in Page \ {p} /\ K[q] # "none"
<1>1. L.next[p] # L.prev[p] /\ q \in {L.next[p], L.prev[p]} BY DEF Deleted
<1> QED BY <1>1, BetweenTwo

(* and so does add_to_list. *)
LEMMA AddedInUse ==
  ASSUME NEW L, NEW K \in Kinds, ListsOK(L, K),
         NEW l \in Lists, NEW q \in Added(L, l)
  PROVE  q \in Page /\ K[q] # "none"
<1>1. L.head[l] # NULL /\ q \in {L.head[l], L.prev[L.head[l]]} BY DEF Added
<1>2. L.head[l] \in Page /\ Linked(L, K, L.head[l])
  BY <1>1 DEF ListsOK, HeadsLinked
<1> QED BY <1>1, <1>2 DEF Linked

(* A page that moves from one list to another follows links to pages in    *)
(* use only.                                                               *)
LEMMA MoveOK ==
  ASSUME NEW L, NEW K \in Kinds, ListsOK(L, K),
         NEW from \in Lists, NEW to \in Lists, NEW p \in Page, K[p] = from,
         NEW M, \A q \in Page \ {p} : K[q] # "none" => q \in M
  PROVE  LET without == delete_from_list(L, from, p)
         IN  /\ Deleted(L, p) \cup Added(without, to) \subseteq M
             /\ ListsOK(add_to_list(without, to, p), [K EXCEPT ![p] = to])
<1> DEFINE W == delete_from_list(L, from, p)
           J == [K EXCEPT ![p] = "none"]
<1>1. J \in Kinds /\ J[p] = "none" /\ \A q \in Page \ {p} : J[q] = K[q]
  BY DEF Kinds
<1>2. [J EXCEPT ![p] = to] = [K EXCEPT ![p] = to] BY DEF Kinds
<1>3. from # "none" BY DEF Lists
<1>4. ListsOK(W, J) BY DeleteOK
<1> HIDE DEF W, J
<1>5. \A q \in Deleted(L, p) : q \in M BY <1>3, DeletedInUse
<1>6. \A q \in Added(W, to) : q \in M
  <2> SUFFICES ASSUME NEW q \in Added(W, to) PROVE q \in M
    OBVIOUS
  <2>1. q \in Page /\ J[q] # "none" BY <1>1, <1>4, AddedInUse
  <2> QED BY <2>1, <1>1
<1>7. ListsOK(add_to_list(W, to, p), [J EXCEPT ![p] = to]) BY <1>1, <1>4, AddOK
<1> QED BY <1>2, <1>5, <1>6, <1>7 DEF W

-----------------------------------------------------------------------------
(* The blocks of a page. *)

Index == 0 .. blocks_per_page - 1

(* A non-empty set of naturals has a minimum, and Min returns it. *)
LEMMA LeastOfNat ==
  ASSUME NEW S \in SUBSET Nat, S # {}
  PROVE  /\ Min(S) \in S
         /\ \A y \in S : Min(S) <= y
<1> DEFINE R == {ss \in Nat \X Nat : ss[1] < ss[2]}
<1>1. IsWellFoundedOn(R, Nat)
  BY NatLessThanWellFounded, Zenon DEF OpToRel
<1>2. PICK x \in S : \A y \in S : ~ (<<y, x>> \in R)
  <2> HIDE DEF R
  <2> QED BY <1>1, WFMin
<1>3. ASSUME NEW y \in S PROVE x <= y
  <2>1. x \in Nat /\ y \in Nat OBVIOUS
  <2>2. <<y, x>> \in R <=> y < x BY <2>1
  <2> QED BY <2>1, <2>2, <1>2
<1> QED BY <1>3 DEF Min

(* A page's bits can be counted, and there are as many as blocks only when *)
(* all are set.                                                            *)
LEMMA BitsCounted ==
  ASSUME NEW bits \in SUBSET Index
  PROVE  /\ IsFiniteSet(bits)
         /\ Cardinality(bits) \in 0 .. blocks_per_page
         /\ Cardinality(bits) = blocks_per_page => bits = Index
         /\ \A i \in Index \ bits : Cardinality(bits \cup {i}) = Cardinality(bits) + 1
         /\ \A i \in bits : Cardinality(bits \ {i}) = Cardinality(bits) - 1
<1>1. blocks_per_page \in Nat /\ blocks_per_page >= 1 BY FsbAssumption
<1>2. IsFiniteSet(Index) /\ Cardinality(Index) = blocks_per_page
  <2>1. 0 \in Int /\ blocks_per_page - 1 \in Int BY <1>1
  <2> QED BY <1>1, <2>1, FS_Interval DEF Index
<1>3. /\ IsFiniteSet(bits)
      /\ Cardinality(bits) <= blocks_per_page
      /\ Cardinality(bits) = blocks_per_page => bits = Index
  BY <1>2, FS_Subset
<1>4. Cardinality(bits) \in Nat BY <1>3, FS_CardinalityType
<1> QED BY <1>1, <1>3, <1>4, FS_AddElement, FS_RemoveElement

(* On a page with a free block, fsb_arena_allocate finds the first one:    *)
(* not a bit past the last block, and never none.                          *)
LEMMA FreeBitFound ==
  ASSUME NEW bits \in SUBSET Index, Cardinality(bits) < blocks_per_page
  PROVE  bits # Bit /\ Min(Bit \ bits) \in Index \ bits
<1>1. /\ blocks_per_page \in Nat /\ blocks_per_page >= 1
      /\ bitmap_bits \in Nat /\ bitmap_bits >= blocks_per_page
  BY FsbAssumption
<1>2. PICK i \in Index : i \notin bits
  <2>1. bits # Index
    <3>1. Cardinality(Index) = blocks_per_page
      <4>1. 0 \in Int /\ blocks_per_page - 1 \in Int BY <1>1
      <4> QED BY <1>1, <4>1, FS_Interval DEF Index
    <3> QED BY <3>1, <1>1
  <2> QED BY <2>1
<1>3. i \in Bit \ bits BY <1>1, <1>2 DEF Index, Bit
<1>4. Bit \ bits \in SUBSET Nat BY DEF Bit
<1>5. Min(Bit \ bits) \in Bit \ bits /\ Min(Bit \ bits) <= i
  BY <1>3, <1>4, LeastOfNat
<1>6. Min(Bit \ bits) \in Nat BY <1>4, <1>5
<1> QED BY <1>1, <1>2, <1>3, <1>5, <1>6 DEF Index

(* The type invariant, spelled out. *)
LEMMA TypeFacts ==
  ASSUME TypeOK
  PROVE  /\ blocks_per_page \in Nat /\ blocks_per_page >= 1 /\ NULL \notin Page
         /\ mapped \subseteq Page
         /\ links \in Links
         /\ num_free \in [Page -> 0 .. blocks_per_page]
         /\ bitmap \in [Page -> SUBSET Index]
         /\ held \subseteq Page \X Index
         /\ \A p \in Page : num_free[p] \in Nat /\ num_free[p] <= blocks_per_page
BY FsbAssumption DEF TypeOK, Links, Index

(* The kind of every page. *)
LEMMA KindFacts ==
  ASSUME NEW M, NEW n
  PROVE  /\ KindOf(M, n) \in Kinds
         /\ \A p \in Page :
              /\ KindOf(M, n)[p] = "none" <=> p \notin M
              /\ KindOf(M, n)[p] = "full_pages" <=> p \in M /\ n[p] = 0
              /\ KindOf(M, n)[p] = "avail_pages" <=> p \in M /\ n[p] # 0
BY DEF KindOf, Kinds, Lists

-----------------------------------------------------------------------------
(* fsb_arena_allocate: the page it takes the block from is available, and  *)
(* what it has written to that page's header is given by bits and n.       *)
LEMMA TakeKeepsPages ==
  ASSUME PagesOK, outcome = "running",
         NEW p \in Page, NEW bits \in SUBSET Index, NEW n \in 1 .. blocks_per_page,
         n = blocks_per_page - Cardinality(bits),
         \A i \in Index : i \in bits <=> <<p, i>> \in held,
         NEW L, ListsOK(L, KindOf(mapped \cup {p}, [num_free EXCEPT ![p] = n])),
         mapped' = mapped \cup {p},
         TakeBlock(L, p, bits, n)
  PROVE  PagesOK' /\ outcome' = "running"
<1> DEFINE i == Min(Bit \ bits)
           m == [num_free EXCEPT ![p] = n]
           K == KindOf(mapped \cup {p}, m)
<1>1. TypeOK /\ Marked /\ SingleBlocksFull BY DEF PagesOK
<1>2. /\ blocks_per_page \in Nat /\ blocks_per_page >= 1 /\ NULL \notin Page
      /\ mapped \subseteq Page
      /\ num_free \in [Page -> 0 .. blocks_per_page]
      /\ bitmap \in [Page -> SUBSET Index]
      /\ held \subseteq Page \X Index
  BY <1>1, TypeFacts
<1>3. n \in Nat /\ n >= 1 /\ n <= blocks_per_page BY <1>2
<1>4. Cardinality(bits) < blocks_per_page /\ Cardinality(bits) \in Nat
  BY <1>2, <1>3, BitsCounted
<1>5. bits # Bit /\ i \in Index \ bits BY <1>4, FreeBitFound
<1> HIDE DEF i
<1>6. n - 1 = blocks_per_page - Cardinality(bits \cup {i})
  <2>1. Cardinality(bits \cup {i}) = Cardinality(bits) + 1 BY <1>5, BitsCounted
  <2> QED BY <2>1, <1>2, <1>3, <1>4
<1>7. /\ bitmap' = [bitmap EXCEPT ![p] = bits \cup {i}]
      /\ num_free' = [num_free EXCEPT ![p] = n - 1]
      /\ held' = held \cup {<<p, i>>}
      /\ n - 1 = 0 => Move(L, p, "avail_pages", "full_pages")
      /\ n - 1 # 0 => links' = L /\ UNCHANGED outcome
  BY <1>5 DEF TakeBlock, must_move, i
<1>8. /\ K \in Kinds /\ K[p] = "avail_pages"
      /\ \A q \in Page \ {p} : K[q] # "none" => q \in mapped
  <2>1. m[p] = n BY <1>2
  <2> HIDE DEF m
  <2> QED BY <2>1, <1>3, KindFacts
<1>9. Kind' = [K EXCEPT ![p] = IF n - 1 = 0 THEN "full_pages" ELSE "avail_pages"]
  <2>1. \A q \in Page \ {p} : /\ q \in mapped' <=> q \in mapped \cup {p}
                              /\ num_free'[q] = m[q]
    BY <1>2, <1>7
  <2>2. p \in mapped' /\ num_free'[p] = n - 1 BY <1>2, <1>7
  <2>3. Kind' = KindOf(mapped', num_free') BY DEF Kind
  <2> HIDE DEF m
  <2>4. KindOf(mapped', num_free') = [K EXCEPT ![p] =
          IF p \notin mapped' THEN "none"
          ELSE IF num_free'[p] = 0 THEN "full_pages" ELSE "avail_pages"]
    BY <2>1 DEF KindOf
  <2> QED BY <2>2, <2>3, <2>4
<1> HIDE DEF K
<1>10. outcome' = "running" /\ ListsOK(links', Kind')
  <2>1. CASE n - 1 # 0
    <3>1. Kind' = K BY <2>1, <1>8, <1>9 DEF Kinds
    <3> QED BY <2>1, <3>1, <1>7 DEF K
  <2>2. CASE n - 1 = 0
    <3>1. Kind' = [K EXCEPT ![p] = "full_pages"] BY <2>2, <1>9
    <3>2. ListsOK(L, K) BY DEF K
    <3>3. "avail_pages" \in Lists /\ "full_pages" \in Lists BY DEF Lists
    <3>4. LET without == delete_from_list(L, "avail_pages", p)
          IN  /\ Deleted(L, p) \cup Added(without, "full_pages") \subseteq mapped
              /\ ListsOK(add_to_list(without, "full_pages", p), [K EXCEPT ![p] = "full_pages"])
      BY <1>8, <3>2, <3>3, MoveOK
    <3> QED BY <2>2, <3>1, <3>4, <1>7 DEF Move
  <2> QED BY <2>1, <2>2
<1>11. TypeOK'
  <2>1. mapped' \subseteq Page BY <1>2
  <2>2. links' \in Links BY <1>10 DEF ListsOK
  <2>3. num_free' \in [Page -> 0 .. blocks_per_page]
    <3>1. n - 1 \in 0 .. blocks_per_page BY <1>2, <1>3
    <3> QED BY <3>1, <1>2, <1>7
  <2>4. bitmap' \in [Page -> SUBSET Index] BY <1>2, <1>5, <1>7
  <2>5. held' \subseteq Page \X Index BY <1>2, <1>5, <1>7
  <2> QED BY <2>1, <2>2, <2>3, <2>4, <2>5 DEF TypeOK, Links, Index
<1>12. Marked'
  <2> SUFFICES ASSUME NEW q \in mapped'
               PROVE  /\ \A j \in Index : j \in bitmap'[q] <=> <<q, j>> \in held'
                      /\ num_free'[q] = blocks_per_page - Cardinality(bitmap'[q])
    BY DEF Marked, Index
  <2>1. CASE q = p
    <3>1. bitmap'[q] = bits \cup {i} /\ num_free'[q] = n - 1 BY <2>1, <1>2, <1>7
    <3>2. \A j \in Index : <<q, j>> \in held' <=> <<p, j>> \in held \/ j = i
      BY <2>1, <1>7
    <3> QED BY <3>1, <3>2, <1>6
  <2>2. CASE q # p
    <3>1. q \in mapped BY <2>2
    <3>2. bitmap'[q] = bitmap[q] /\ num_free'[q] = num_free[q]
      BY <2>2, <3>1, <1>2, <1>7
    <3>3. \A j \in Index : <<q, j>> \in held' <=> <<q, j>> \in held
      BY <2>2, <1>7
    <3>4. /\ \A j \in Index : j \in bitmap[q] <=> <<q, j>> \in held
          /\ num_free[q] = blocks_per_page - Cardinality(bitmap[q])
      BY <3>1, <1>1 DEF Marked, Index
    <3> QED BY <3>2, <3>3, <3>4
  <2> QED BY <2>1, <2>2
<1>13. BlocksMapped'
  <2>1. \A b \in held : b[1] \in mapped BY DEF PagesOK, BlocksMapped
  <2> QED BY <2>1, <1>7 DEF BlocksMapped
<1>14. SingleBlocksFull'
  <2> SUFFICES ASSUME blocks_per_page = 1, NEW q \in mapped'
               PROVE  num_free'[q] = 0
    BY DEF SingleBlocksFull
  <2>1. CASE q = p BY <2>1, <1>2, <1>3, <1>7
  <2>2. CASE q # p BY <2>2, <1>1, <1>2, <1>7 DEF SingleBlocksFull
  <2> QED BY <2>1, <2>2
<1> QED BY <1>10, <1>11, <1>12, <1>13, <1>14 DEF PagesOK, LinksSafe

-----------------------------------------------------------------------------
(* fsb_arena_release. *)

Avail == links.head["avail_pages"]

(* What becomes of page p of the block, and of the lists: *)
ReleaseStuck(p) ==
  outcome' = "null_list" /\ mapped' = mapped /\ links' = links

ReleaseStays(p) ==
  outcome' = "running" /\ mapped' = mapped /\ links' = links /\ Kind' = Kind

ReleaseUnmaps(p) ==
  /\ outcome' = "running"
  /\ num_free[p] = blocks_per_page - 1
  /\ Kind[p] = "avail_pages"
  /\ Avail # NULL /\ links.next[Avail] # links.prev[Avail]
  /\ mapped' = mapped \ {p}
  /\ links' = delete_from_list(links, "avail_pages", p)
  /\ Kind' = [Kind EXCEPT ![p] = "none"]

ReleaseMoves(p) ==
  /\ outcome' = "running"
  /\ Kind[p] = "full_pages"
  /\ mapped' = mapped
  /\ links' = add_to_list(delete_from_list(links, "full_pages", p), "avail_pages", p)
  /\ Kind' = [Kind EXCEPT ![p] = "avail_pages"]

(* The bit and the count of the block's page. *)
LEMMA ReleaseClears ==
  ASSUME PagesOK, outcome = "running", NEW b \in held, Release(b)
  PROVE  /\ b = <<b[1], b[2]>> /\ b[1] \in mapped /\ b[2] \in bitmap[b[1]] /\ b[2] \in Index
         /\ held' = held \ {b}
         /\ bitmap' = [bitmap EXCEPT ![b[1]] = bitmap[b[1]] \ {b[2]}]
         /\ num_free' = [num_free EXCEPT ![b[1]] = num_free[b[1]] + 1]
         /\ num_free[b[1]] + 1 \in 1 .. blocks_per_page
         /\ num_free[b[1]] + 1 =
              blocks_per_page - Cardinality(bitmap[b[1]] \ {b[2]})
<1> DEFINE p == b[1]
           i == b[2]
<1>1. TypeOK /\ Marked BY DEF PagesOK
<1>2. b = <<p, i>> /\ p \in Page /\ i \in Index
  <2>1. held \subseteq Page \X Index BY <1>1, TypeFacts
  <2> QED BY <2>1
<1> HIDE DEF p, i
<1>3. p \in mapped BY DEF PagesOK, BlocksMapped, p
<1>4. /\ i \in bitmap[p]
      /\ num_free[p] = blocks_per_page - Cardinality(bitmap[p])
  BY <1>1, <1>2, <1>3 DEF Marked, Index
<1>5. /\ bitmap[p] \in SUBSET Index
      /\ num_free[p] \in Nat
      /\ blocks_per_page \in Nat
  BY <1>1, <1>2, TypeFacts
<1>6. /\ Cardinality(bitmap[p] \ {i}) = Cardinality(bitmap[p]) - 1
      /\ Cardinality(bitmap[p]) \in 0 .. blocks_per_page
      /\ Cardinality(bitmap[p] \ {i}) \in 0 .. blocks_per_page
  <2>1. bitmap[p] \ {i} \in SUBSET Index BY <1>5
  <2> QED BY <2>1, <1>4, <1>5, BitsCounted
<1>7. /\ num_free[p] + 1 \in 1 .. blocks_per_page
      /\ num_free[p] + 1 = blocks_per_page - Cardinality(bitmap[p] \ {i})
  BY <1>4, <1>5, <1>6
<1>8. /\ held' = held \ {b}
      /\ bitmap' = [bitmap EXCEPT ![p] = bitmap[p] \ {i}]
      /\ num_free' = [num_free EXCEPT ![p] = num_free[p] + 1]
  BY DEF Release, index, p, i
<1> QED BY <1>2, <1>3, <1>4, <1>7, <1>8 DEF p, i

(* There are no more cases, and each leaves the lists consistent: a page   *)
(* that becomes entirely free was on the available list, unless there is   *)
(* one block to a page.                                                    *)
LEMMA ReleaseCases ==
  ASSUME PagesOK, outcome = "running", NEW b \in held, Release(b)
  PROVE  /\ \/ ReleaseStuck(b[1]) \/ ReleaseStays(b[1])
            \/ ReleaseUnmaps(b[1]) \/ ReleaseMoves(b[1])
         /\ outcome' = "running" =>
              ListsOK(links', Kind') /\ blocks_per_page # 1
<1> DEFINE p == b[1]
           n == num_free[p] + 1
<1>1. /\ TypeOK /\ Marked /\ SingleBlocksFull /\ ListsOK(links, Kind)
  BY DEF PagesOK
<1>2. /\ p \in mapped /\ p \in Page
      /\ num_free' = [num_free EXCEPT ![p] = n]
      /\ n \in 1 .. blocks_per_page
  BY <1>1, ReleaseClears, TypeFacts
<1>3. /\ num_free \in [Page -> 0 .. blocks_per_page]
      /\ num_free[p] \in Nat
      /\ blocks_per_page \in Nat /\ blocks_per_page >= 1
      /\ NULL \notin Page
  BY <1>1, <1>2, TypeFacts
<1>4. num_free'[p] = n /\ \A q \in Page \ {p} : num_free'[q] = num_free[q]
  BY <1>2, <1>3
<1>5. Kind \in Kinds /\ Kind' = KindOf(mapped', num_free')
  BY KindFacts DEF Kind
<1>6. /\ Kind[p] = "full_pages" <=> num_free[p] = 0
      /\ Kind[p] = "avail_pages" <=> num_free[p] # 0
      /\ \A q \in Page : Kind[q] # "none" => q \in mapped
  BY <1>2, KindFacts DEF Kind
<1>7. Avail # NULL => blocks_per_page # 1
  <2> SUFFICES ASSUME Avail # NULL, blocks_per_page = 1 PROVE FALSE
    OBVIOUS
  <2>1. Avail \in Page /\ Kind[Avail] = "avail_pages"
    BY <1>1 DEF ListsOK, HeadsLinked, Lists, Avail
  <2>2. Avail \in mapped /\ num_free[Avail] # 0 BY <2>1, KindFacts DEF Kind
  <2> QED BY <2>2, <1>1 DEF SingleBlocksFull
<1>8. \A q \in Deleted(links, p) : q \in mapped \ {p}
  BY <1>1, <1>2, <1>5, <1>6, DeletedInUse
<1>9. "avail_pages" \in Lists /\ "full_pages" \in Lists BY DEF Lists
<1> HIDE DEF p
<1>10. CASE n = blocks_per_page /\ Avail = NULL
  BY <1>10 DEF Release, ReleaseStuck, entirely_free, Avail, p
<1>11. CASE n = blocks_per_page /\ Avail # NULL
  <2>1. num_free[p] # 0 /\ num_free[p] = blocks_per_page - 1
    BY <1>3, <1>7, <1>11
  <2>2. CASE links.next[Avail] = links.prev[Avail]
    <3>1. UNCHANGED <<mapped, links, outcome>>
      BY <1>11, <2>2 DEF Release, entirely_free, Avail, p
    <3>2. Kind' = Kind BY <1>3, <1>4, <1>11, <2>1, <3>1 DEF Kind, KindOf
    <3> QED BY <3>1, <3>2, <1>1, <1>7, <1>11 DEF ReleaseStays, p
  <2>3. CASE links.next[Avail] # links.prev[Avail]
    <3>1. /\ links' = delete_from_list(links, "avail_pages", p)
          /\ mapped' = mapped \ {p}
          /\ UNCHANGED outcome
      BY <1>11, <2>3, <1>8 DEF Release, entirely_free, Avail, p
    <3>2. Kind' = [Kind EXCEPT ![p] = "none"]
      BY <1>2, <1>4, <3>1 DEF Kind, KindOf
    <3>3. Kind[p] = "avail_pages" BY <1>6, <2>1
    <3>4. ListsOK(delete_from_list(links, "avail_pages", p), [Kind EXCEPT ![p] = "none"])
      BY <1>1, <1>2, <1>5, <1>9, <3>3, DeleteOK
    <3> QED BY <1>6, <1>7, <1>11, <2>1, <2>3, <3>1, <3>2, <3>3, <3>4 DEF ReleaseUnmaps, p
  <2> QED BY <2>2, <2>3
<1>12. CASE n # blocks_per_page /\ n = 1
  <2>1. Kind[p] = "full_pages" BY <1>3, <1>6, <1>12
  <2>2. Move(links, p, "full_pages", "avail_pages") /\ UNCHANGED mapped
    BY <1>12 DEF Release, entirely_free, p
  <2>3. LET without == delete_from_list(links, "full_pages", p)
        IN  /\ Deleted(links, p) \cup Added(without, "avail_pages") \subseteq mapped
            /\ ListsOK(add_to_list(without, "avail_pages", p),
                       [Kind EXCEPT ![p] = "avail_pages"])
    BY <1>1, <1>2, <1>5, <1>6, <1>9, <2>1, MoveOK
  <2>4. /\ links' = add_to_list(delete_from_list(links, "full_pages", p), "avail_pages", p)
        /\ UNCHANGED outcome
    BY <2>2, <2>3 DEF Move
  <2>5. Kind' = [Kind EXCEPT ![p] = "avail_pages"]
    <3>1. p \in mapped' /\ num_free'[p] # 0 BY <1>2, <1>4, <1>12, <2>2
    <3>2. mapped' = mapped BY <2>2
    <3> QED BY <3>1, <3>2, <1>4 DEF Kind, KindOf
  <2>6. blocks_per_page # 1 BY <1>12
  <2> QED BY <2>1, <2>2, <2>3, <2>4, <2>5, <2>6 DEF ReleaseMoves, p
<1>13. CASE n # blocks_per_page /\ n # 1
  <2>1. UNCHANGED <<mapped, links, outcome>>
    BY <1>13 DEF Release, entirely_free, p
  <2>2. num_free[p] # 0 BY <1>3, <1>13
  <2>3. Kind' = Kind BY <1>3, <1>4, <2>1, <2>2 DEF Kind, KindOf
  <2>4. blocks_per_page # 1 BY <1>2, <1>13
  <2> QED BY <2>1, <2>3, <2>4, <1>1 DEF ReleaseStays, p
<1> QED BY <1>10, <1>11, <1>12, <1>13

(* fsb_arena_release keeps the pages and the books. *)
LEMMA ReleaseKeepsPages ==
  ASSUME PagesOK, outcome = "running", NEW b \in held, Release(b)
  PROVE  PagesOK'
<1> DEFINE p == b[1]
           i == b[2]
           n == num_free[p] + 1
<1>1. TypeOK /\ Marked /\ SingleBlocksFull /\ BlocksMapped BY DEF PagesOK
<1>2. /\ b = <<p, i>> /\ p \in mapped /\ i \in bitmap[p] /\ i \in Index
      /\ held' = held \ {b}
      /\ bitmap' = [bitmap EXCEPT ![p] = bitmap[p] \ {i}]
      /\ num_free' = [num_free EXCEPT ![p] = n]
      /\ n \in 1 .. blocks_per_page
      /\ n = blocks_per_page - Cardinality(bitmap[p] \ {i})
  BY ReleaseClears
<1>3. /\ blocks_per_page \in Nat
      /\ mapped \subseteq Page
      /\ links \in Links
      /\ num_free \in [Page -> 0 .. blocks_per_page]
      /\ bitmap \in [Page -> SUBSET Index]
      /\ held \subseteq Page \X Index
  BY <1>1, TypeFacts
<1>4. /\ ReleaseStuck(p) \/ ReleaseStays(p) \/ ReleaseUnmaps(p) \/ ReleaseMoves(p)
      /\ outcome' = "running" => ListsOK(links', Kind')
  BY ReleaseCases
<1> HIDE DEF p, i, n
<1>5. /\ mapped' \subseteq mapped
      /\ mapped \ mapped' \subseteq {p}
      /\ outcome' \in {"null_list", "running"}
      /\ links' \in Links
      /\ mapped' # mapped => num_free[p] = blocks_per_page - 1
  BY <1>3, <1>4 DEF ReleaseStuck, ReleaseStays, ReleaseUnmaps, ReleaseMoves, ListsOK
<1>6. TypeOK'
  <2>1. num_free' \in [Page -> 0 .. blocks_per_page]
    <3>1. n \in 0 .. blocks_per_page BY <1>2, <1>3
    <3> QED BY <3>1, <1>2, <1>3
  <2>2. bitmap' \in [Page -> SUBSET Index] BY <1>2, <1>3
  <2> QED BY <2>1, <2>2, <1>2, <1>3, <1>5 DEF TypeOK, Links, Index
<1>7. Marked'
  <2> SUFFICES ASSUME NEW q \in mapped'
               PROVE  /\ \A j \in Index : j \in bitmap'[q] <=> <<q, j>> \in held'
                      /\ num_free'[q] = blocks_per_page - Cardinality(bitmap'[q])
    BY DEF Marked, Index
  <2>0. /\ q \in mapped
        /\ \A j \in Index : j \in bitmap[q] <=> <<q, j>> \in held
        /\ num_free[q] = blocks_per_page - Cardinality(bitmap[q])
    BY <1>1, <1>5 DEF Marked, Index
  <2>1. CASE q = p
    <3>1. bitmap'[q] = bitmap[q] \ {i} /\ num_free'[q] = n BY <2>0, <2>1, <1>2, <1>3
    <3>2. \A j \in Index : <<q, j>> \in held' <=> <<q, j>> \in held /\ j # i
      BY <2>1, <1>2
    <3> QED BY <2>0, <2>1, <3>1, <3>2, <1>2
  <2>2. CASE q # p
    <3>1. bitmap'[q] = bitmap[q] /\ num_free'[q] = num_free[q]
      BY <2>0, <2>2, <1>2, <1>3
    <3>2. \A j \in Index : <<q, j>> \in held' <=> <<q, j>> \in held
      BY <2>2, <1>2
    <3> QED BY <2>0, <3>1, <3>2
  <2> QED BY <2>1, <2>2
<1>8. BlocksMapped'
  <2> SUFFICES ASSUME NEW c \in held' PROVE c[1] \in mapped'
    BY DEF BlocksMapped
  <2>1. c \in held /\ c # b BY <1>2
  <2>2. c[1] \in mapped BY <2>1, <1>1 DEF PagesOK, BlocksMapped
  <2>3. CASE c[1] = p
    <3>1. c[2] \in Index /\ c = <<p, c[2]>> BY <2>1, <2>3, <1>3
    <3>2. c[2] \in bitmap[p] BY <3>1, <2>1, <1>1, <1>2 DEF Marked, Index
    <3>3. c[2] # i BY <3>1, <2>1, <1>2
    <3>4. bitmap[p] \ {i} \in SUBSET Index BY <1>2, <1>3
    <3>5. IsFiniteSet(bitmap[p] \ {i}) /\ Cardinality(bitmap[p] \ {i}) \in Nat
      BY <3>4, BitsCounted, FS_CardinalityType
    <3>6. Cardinality(bitmap[p] \ {i}) # 0 BY <3>2, <3>3, <3>5, FS_EmptySet
    <3>7. n # blocks_per_page BY <3>5, <3>6, <1>2, <1>3
    <3>8. num_free[p] \in Nat BY <1>2, <1>3
    <3>9. mapped' = mapped BY <3>7, <3>8, <1>3, <1>5 DEF n
    <3> QED BY <3>9, <2>2
  <2>4. CASE c[1] # p BY <2>2, <2>4, <1>5
  <2> QED BY <2>3, <2>4
<1>9. outcome' = "running" => SingleBlocksFull'
  BY ReleaseCases DEF SingleBlocksFull
<1> QED BY <1>4, <1>5, <1>6, <1>7, <1>8, <1>9 DEF PagesOK, LinksSafe

-----------------------------------------------------------------------------
(* fsb_arena_walk. *)

(* The head of the available pages is on a ring: the least closed set of   *)
(* pages around it.                                                        *)
LEMMA RingExists ==
  ASSUME NEW L, NEW K, ListsOK(L, K), NEW h, h = L.head["avail_pages"], h # NULL
  PROVE  \E R \in SUBSET Page : Ring(L, K, R) /\ h \in R
<1> DEFINE A == {q \in Page : K[q] = "avail_pages" /\ Linked(L, K, q)}
           Around(S) == h \in S /\ Closed(L, S)
           R == {q \in A : \A S \in SUBSET A : Around(S) => q \in S}
<1>1. h \in A BY DEF ListsOK, HeadsLinked, Lists
<1>2. Closed(L, A)
  <2> SUFFICES ASSUME NEW q \in A PROVE L.next[q] \in A /\ L.prev[q] \in A
    BY DEF Closed
  <2>1. Linked(L, K, L.next[q]) /\ Linked(L, K, L.prev[q])
    BY DEF ListsOK, RingsClosed
  <2>2. /\ L.next[q] \in Page /\ K[L.next[q]] = "avail_pages"
        /\ L.prev[q] \in Page /\ K[L.prev[q]] = "avail_pages"
    BY DEF Linked
  <2> QED BY <2>1, <2>2
<1>3. \A q \in A : /\ L.next[q] \in A /\ L.prev[L.next[q]] = q
                   /\ L.prev[q] \in A /\ L.next[L.prev[q]] = q
  BY <1>2 DEF Closed, Linked
<1>4. A \subseteq Page /\ \A q \in A : K[q] = "avail_pages" /\ Linked(L, K, q)
  OBVIOUS
<1> HIDE DEF A
<1>5. h \in R BY <1>1
<1>6. Closed(L, R)
  <2> SUFFICES ASSUME NEW q \in R PROVE L.next[q] \in R /\ L.prev[q] \in R
    BY DEF Closed
  <2>1. \A S \in SUBSET A : Around(S) => L.next[q] \in S /\ L.prev[q] \in S
    BY DEF Closed
  <2> QED BY <2>1, <1>3
<1>7. ASSUME NEW S \in SUBSET R, S # {}, Closed(L, S)
      PROVE  S = R
  <2>1. CASE h \in S
    <3>1. S \in SUBSET A /\ Around(S) BY <2>1, <1>7
    <3> QED BY <3>1
  <2>2. CASE h \notin S
    <3>1. h \in R \ S BY <2>2, <1>5
    <3>2. Closed(L, R \ S)
      <4> SUFFICES ASSUME NEW q \in R \ S
                   PROVE  L.next[q] \in R \ S /\ L.prev[q] \in R \ S
        BY DEF Closed
      <4>1. L.next[q] \in R /\ L.prev[q] \in R BY <1>6 DEF Closed
      <4>2. L.next[q] \notin S
        BY <1>3, <1>7 DEF Closed
      <4>3. L.prev[q] \notin S
        BY <1>3, <1>7 DEF Closed
      <4> QED BY <4>1, <4>2, <4>3
    <3>3. R \ S \in SUBSET A /\ Around(R \ S) BY <3>1, <3>2
    <3>4. \A q \in R : q \in R \ S BY <3>3
    <3> QED BY <3>4, <1>7
  <2> QED BY <2>1, <2>2
<1>8. R \subseteq Page /\ \A q \in R : K[q] = "avail_pages" /\ Linked(L, K, q)
  BY <1>4
<1> HIDE DEF R
<1>9. Ring(L, K, R) BY <1>6, <1>7, <1>8 DEF Ring
<1> QED BY <1>5, <1>8, <1>9

(* Two pages that are next to each other both ways are the whole ring.     *)
LEMMA RingOfTwo ==
  ASSUME NEW L, NEW K, NEW R, Ring(L, K, R), NEW p \in R, L.next[p] = L.prev[p]
  PROVE  \A q \in R : L.next[q] = L.prev[q]
<1> DEFINE n == L.next[p]
<1>1. n \in R /\ L.next[n] = p /\ L.prev[n] = p
  BY DEF Ring, Closed, Linked
<1>2. Closed(L, {p, n}) BY <1>1 DEF Closed
<1>3. {p, n} \in SUBSET R /\ {p, n} # {} BY <1>1
<1>4. R = {p, n} BY <1>2, <1>3 DEF Ring
<1> QED BY <1>1, <1>4

(* delete_from_list of a page of a ring of three pages or more leaves a    *)
(* ring, with the page behind on it.                                       *)
LEMMA RingShrinks ==
  ASSUME NEW L, NEW K \in Kinds, ListsOK(L, K),
         NEW R, Ring(L, K, R), L.head["avail_pages"] \in R,
         NEW p \in R, L.next[p] # L.prev[p]
  PROVE  LET M == delete_from_list(L, "avail_pages", p)
         IN  /\ Ring(M, [K EXCEPT ![p] = "none"], R \ {p})
             /\ M.head["avail_pages"] \in R \ {p}
             /\ L.next[p] \in R \ {p}
<1> DEFINE M == delete_from_list(L, "avail_pages", p)
           J == [K EXCEPT ![p] = "none"]
           n == L.next[p]
           r == L.prev[p]
<1>1. L \in Links /\ "avail_pages" \in Lists BY DEF ListsOK, Lists
<1>2. p \in Page /\ K[p] = "avail_pages" BY DEF Ring
<1>3. K[p] # "none" BY <1>2
<1>4. /\ n \in Page \ {p} /\ L.prev[n] = p
      /\ r \in Page \ {p} /\ L.next[r] = p
  BY <1>2, <1>3, BetweenTwo
<1>5. n \in R /\ r \in R BY DEF Ring, Closed
<1>6. M = [head |-> [L.head EXCEPT !["avail_pages"] =
                       IF L.head["avail_pages"] = p THEN n ELSE L.head["avail_pages"]],
           next |-> [L.next EXCEPT ![r] = n],
           prev |-> [L.prev EXCEPT ![n] = r]]
  BY <1>1, <1>2, DeleteFields
<1>7. \A q \in R \ {p} : Linked(M, J, q)
  <2>1. \A q \in R \ {p} : q \in Page \ {p} /\ Linked(L, K, q) BY DEF Ring
  <2> QED BY <1>1, <1>2, <2>1, DeleteInnerOK
<1> HIDE DEF M, n, r
<1>8. /\ M.next[r] = n /\ M.prev[n] = r
      /\ \A q \in Page : q # r => M.next[q] = L.next[q]
      /\ \A q \in Page : q # n => M.prev[q] = L.prev[q]
      /\ M.head["avail_pages"] = IF L.head["avail_pages"] = p THEN n
                                 ELSE L.head["avail_pages"]
  BY <1>1, <1>4, <1>6 DEF Links
<1>9. R \subseteq Page /\ Closed(L, R)
      /\ \A q \in R : L.prev[L.next[q]] = q /\ L.next[L.prev[q]] = q
  BY DEF Ring, Linked
<1>10. \A q \in R \ {p} : J[q] = "avail_pages"
  BY DEF Ring, Kinds
<1> HIDE DEF J
<1>11. Closed(M, R \ {p})
  <2> SUFFICES ASSUME NEW q \in R \ {p}
               PROVE  M.next[q] \in R \ {p} /\ M.prev[q] \in R \ {p}
    BY DEF Closed
  <2>1. M.next[q] \in R \ {p}
    <3>1. CASE q = r BY <3>1, <1>4, <1>5, <1>8
    <3>2. CASE q # r
      <4>1. M.next[q] = L.next[q] /\ L.next[q] \in R BY <3>2, <1>8, <1>9 DEF Closed
      <4>2. L.next[q] # p BY <3>2, <1>9 DEF r
      <4> QED BY <4>1, <4>2
    <3> QED BY <3>1, <3>2
  <2>2. M.prev[q] \in R \ {p}
    <3>1. CASE q = n BY <3>1, <1>4, <1>5, <1>8
    <3>2. CASE q # n
      <4>1. M.prev[q] = L.prev[q] /\ L.prev[q] \in R BY <3>2, <1>8, <1>9 DEF Closed
      <4>2. L.prev[q] # p BY <3>2, <1>9 DEF n
      <4> QED BY <4>1, <4>2
    <3> QED BY <3>1, <3>2
  <2> QED BY <2>1, <2>2
<1>12. ASSUME NEW S \in SUBSET (R \ {p}), S # {}, Closed(M, S)
       PROVE  S = R \ {p}
  <2>1. n \in S /\ r \in S
    <3>1. n \in S <=> r \in S BY <1>8, <1>12 DEF Closed
    <3>2. CASE n \notin S /\ r \notin S
      <4>1. \A q \in S : M.next[q] = L.next[q] /\ M.prev[q] = L.prev[q]
        BY <3>2, <1>8, <1>9
      <4>2. Closed(L, S) BY <4>1, <1>12 DEF Closed
      <4>3. S \in SUBSET R OBVIOUS
      <4>4. S = R BY <4>2, <4>3, <1>12 DEF Ring
      <4> QED BY <4>4
    <3> QED BY <3>1, <3>2
  <2>2. Closed(L, S \cup {p})
    <3> SUFFICES ASSUME NEW q \in S \cup {p}
                 PROVE  L.next[q] \in S \cup {p} /\ L.prev[q] \in S \cup {p}
      BY DEF Closed
    <3>1. CASE q = p BY <3>1, <2>1 DEF n, r
    <3>2. CASE q # p
      <4>1. M.next[q] \in S /\ M.prev[q] \in S BY <3>2, <1>12 DEF Closed
      <4>2. L.next[q] \in {p, M.next[q]} BY <3>2, <1>4, <1>8, <1>9
      <4>3. L.prev[q] \in {p, M.prev[q]} BY <3>2, <1>4, <1>8, <1>9
      <4> QED BY <4>1, <4>2, <4>3
    <3> QED BY <3>1, <3>2
  <2>3. S \cup {p} \in SUBSET R /\ S \cup {p} # {} OBVIOUS
  <2>4. S \cup {p} = R BY <2>2, <2>3 DEF Ring
  <2> QED BY <2>4
<1>13. Ring(M, J, R \ {p}) BY <1>7, <1>9, <1>10, <1>11, <1>12 DEF Ring
<1>14. M.head["avail_pages"] \in R \ {p} BY <1>4, <1>5, <1>8
<1> QED BY <1>4, <1>5, <1>13, <1>14 DEF M, J, n

(* A walk starts with the whole ring ahead. *)
LEMMA StartKeepsWalk ==
  ASSUME PagesOK, outcome = "running", StartWalk
  PROVE  WalkOK(walk', links, Kind)
<1> DEFINE p == links.head["avail_pages"]
<1>1. p # NULL /\ ListsOK(links, Kind) /\ TypeOK BY DEF PagesOK, StartWalk
<1>2. PICK R \in SUBSET Page : Ring(links, Kind, R) /\ p \in R
  BY <1>1, RingExists
<1>3. walk' = [page |-> p, first |-> p, next |-> links.next[p], todo |-> bitmap[p],
               seen |-> {}, releases |-> FALSE]
  BY DEF StartWalk, WalkFrom
<1>4. p \in Page /\ links.next[p] \in R BY <1>2 DEF Ring, Closed
<1>5. bitmap[p] \in SUBSET Bit
  <2>1. bitmap[p] \in SUBSET Index BY <1>1, <1>4, TypeFacts
  <2>2. Index \subseteq Bit BY FsbAssumption DEF Index, Bit
  <2> QED BY <2>1, <2>2
<1> HIDE DEF p
<1>6. walk' \in WalkType BY <1>2, <1>3, <1>4, <1>5 DEF WalkType
<1>7. OnRing(walk', links, R) BY <1>2, <1>3, <1>4 DEF OnRing, p
<1>8. Ahead(walk', links, R, R \ {p})
  <2>1. \A q \in R : links.next[q] \in R BY <1>2 DEF Ring, Closed
  <2>2. /\ walk'.page = p /\ walk'.first = p /\ walk'.next = links.next[p]
        /\ walk'.seen = {}
    BY <1>3
  <2> QED BY <1>2, <2>1, <2>2 DEF Ahead
<1>9. R \ {p} \in SUBSET R OBVIOUS
<1> QED BY <1>2, <1>6, <1>7, <1>8, <1>9 DEF WalkOK

(* The next page of a walk is in use, and has not been visited before as   *)
(* long as the callback releases nothing.                                  *)
LEMMA NextKeepsWalk ==
  ASSUME PagesOK, outcome = "running", walk # NoWalk, WalkOK(walk, links, Kind), NextPage
  PROVE  outcome' = "running" /\ WalkOK(walk', links, Kind)
<1> DEFINE q == walk.next
<1>1. PICK R \in SUBSET Page :
        /\ Ring(links, Kind, R) /\ OnRing(walk, links, R)
        /\ ~walk.releases => \E U \in SUBSET R : Ahead(walk, links, R, U)
  BY DEF WalkOK
<1>2. walk \in WalkType /\ TypeOK BY DEF WalkOK, PagesOK
<1>3. q \in R /\ q \in Page /\ q \in mapped
  <2>1. q \in R BY <1>1 DEF OnRing
  <2>2. Kind[q] = "avail_pages" BY <1>1, <2>1 DEF Ring
  <2> QED BY <2>1, <2>2, KindFacts DEF Kind
<1>4. CASE walk_ends(q)
  BY <1>4 DEF NextPage, WalkOK
<1>5. CASE ~walk_ends(q)
  <2>1. /\ UNCHANGED outcome
        /\ walk' = [walk EXCEPT !.page = q, !.next = links.next[q], !.todo = bitmap[q]]
    BY <1>3, <1>5 DEF NextPage, WalkFrom
  <2>2. /\ walk'.page = q /\ walk'.next = links.next[q] /\ walk'.todo = bitmap[q]
        /\ walk'.first = walk.first /\ walk'.seen = walk.seen
        /\ walk'.releases = walk.releases
    BY <1>2, <2>1 DEF WalkType
  <2>3. links.next[q] \in R BY <1>1, <1>3 DEF Ring, Closed
  <2>4. walk' \in WalkType
    <3>1. bitmap[q] \in SUBSET Index BY <1>2, <1>3, TypeFacts
    <3>2. Index \subseteq Bit BY FsbAssumption DEF Index, Bit
    <3> QED BY <1>2, <1>3, <2>1, <2>3, <3>1, <3>2 DEF WalkType
  <2>5. OnRing(walk', links, R) BY <1>1, <1>3, <2>2, <2>3 DEF OnRing
  <2>6. ASSUME ~walk.releases
        PROVE  \E U \in SUBSET R : Ahead(walk', links, R, U)
    <3>1. PICK U \in SUBSET R : Ahead(walk, links, R, U) BY <1>1, <2>6
    <3>2. /\ walk.page \in R \ U /\ q = links.next[walk.page]
          /\ \A p \in U \cup {walk.page} : links.next[p] \in U \cup {walk.first}
          /\ \A b \in walk.seen : b[1] \notin U
      BY <3>1 DEF Ahead
    <3>3. q # walk.first BY <1>5 DEF walk_ends
    <3>4. q \in U BY <3>2, <3>3
    <3>5. \A p \in U : links.next[p] # q
      <4>1. \A p \in R : links.prev[links.next[p]] = p BY <1>1 DEF Ring, Linked
      <4> QED BY <4>1, <3>2
    <3>6. \A p \in (U \ {q}) \cup {q} : links.next[p] \in (U \ {q}) \cup {walk.first}
      BY <3>2, <3>4, <3>5
    <3>7. \A i \in bitmap[q] : <<q, i>> \notin walk.seen
      <4> SUFFICES ASSUME NEW i, <<q, i>> \in walk.seen PROVE FALSE
        OBVIOUS
      <4>1. <<q, i>>[1] = q OBVIOUS
      <4> QED BY <4>1, <3>2, <3>4
    <3>8. Ahead(walk', links, R, U \ {q})
      BY <1>3, <2>2, <3>2, <3>6, <3>7 DEF Ahead
    <3>9. U \ {q} \in SUBSET R OBVIOUS
    <3> QED BY <3>8, <3>9
  <2> QED BY <1>1, <2>1, <2>2, <2>4, <2>5, <2>6 DEF WalkOK
<1> QED BY <1>4, <1>5

(* What a visit does to the walk, whether or not the callback releases the *)
(* block. *)
LEMMA VisitMoves ==
  ASSUME walk \in WalkType, NEW releases \in BOOLEAN, Visit(releases)
  PROVE  LET b == <<walk.page, Min(walk.todo)>>
         IN  /\ walk.todo # {} /\ Min(walk.todo) \in walk.todo
             /\ walk' \in WalkType
             /\ walk'.page = walk.page /\ walk'.next = walk.next
             /\ walk'.first = walk.first
             /\ walk'.todo \subseteq walk.todo \ {Min(walk.todo)}
             /\ num_free[walk.page] >= blocks_per_page - 1 => walk'.todo = {}
             /\ walk'.seen = walk.seen \cup {b}
             /\ walk'.releases = (walk.releases \/ releases)
<1> DEFINE i == Min(walk.todo)
           b == <<walk.page, i>>
           t == IF num_free[walk.page] >= blocks_per_page - 1 THEN {} ELSE walk.todo \ {i}
<1>1. walk.todo # {} /\ walk.todo \in SUBSET Bit /\ walk.page \in Page
  BY DEF Visit, WalkType
<1>2. i \in walk.todo
  <2>1. walk.todo \in SUBSET Nat BY <1>1 DEF Bit
  <2> QED BY <1>1, <2>1, LeastOfNat
<1>3. walk' = [walk EXCEPT !.todo = t, !.seen = walk.seen \cup {b},
                           !.releases = walk.releases \/ releases]
  BY DEF Visit
<1>4. t \subseteq walk.todo \ {i} OBVIOUS
<1>5. num_free[walk.page] >= blocks_per_page - 1 => t = {} OBVIOUS
<1> HIDE DEF i, t
<1>6. b \in Page \X Bit BY <1>1, <1>2
<1> HIDE DEF b
<1>7. walk = [page |-> walk.page, first |-> walk.first, next |-> walk.next,
              todo |-> walk.todo, seen |-> walk.seen, releases |-> walk.releases]
  BY DEF WalkType
<1>8. walk' = [page |-> walk.page, first |-> walk.first, next |-> walk.next,
               todo |-> t, seen |-> walk.seen \cup {b},
               releases |-> walk.releases \/ releases]
  BY <1>3, <1>7
<1>9. walk'.releases = (walk.releases \/ releases) BY <1>8, Zenon
<1>10. walk' \in WalkType
  <2>1. (walk.releases \/ releases) \in BOOLEAN OBVIOUS
  <2>2. t \in SUBSET Bit BY <1>1, <1>4
  <2>3. walk.seen \cup {b} \in SUBSET (Page \X Bit) BY <1>6 DEF WalkType
  <2>4. walk.page \in Page /\ walk.first \in Page /\ walk.next \in Page BY DEF WalkType
  <2> QED BY <1>8, <2>1, <2>2, <2>3, <2>4, Zenon DEF WalkType
<1>11. /\ walk'.page = walk.page /\ walk'.first = walk.first /\ walk'.next = walk.next
       /\ walk'.todo = t /\ walk'.seen = walk.seen \cup {b}
  BY <1>8, Zenon
<1>12. num_free[walk.page] >= blocks_per_page - 1 => walk'.todo = {} BY <1>5, <1>11
<1> QED BY <1>1, <1>2, <1>4, <1>9, <1>10, <1>11, <1>12 DEF i, b

(* A visit keeps the walk on its ring, although the callback may have the  *)
(* page unmapped: the walk has taken the next page before, and leaves the  *)
(* page at once, because it read the count before the call.                *)
LEMMA VisitKeepsWalk ==
  ASSUME PagesOK, outcome = "running", walk # NoWalk, WalkOK(walk, links, Kind),
         NEW releases \in BOOLEAN, Visit(releases)
  PROVE  PagesOK' /\ (outcome' = "running" => WalkOK(walk', links', Kind'))
<1> DEFINE p == walk.page
           b == <<p, Min(walk.todo)>>
<1>1. PICK R \in SUBSET Page :
        /\ Ring(links, Kind, R) /\ OnRing(walk, links, R)
        /\ ~walk.releases => \E U \in SUBSET R : Ahead(walk, links, R, U)
  BY DEF WalkOK
<1>2. walk \in WalkType BY DEF WalkOK
<1>3. /\ walk.todo # {} /\ Min(walk.todo) \in walk.todo
      /\ walk' \in WalkType
      /\ walk'.page = p /\ walk'.next = walk.next
      /\ walk'.first = walk.first
      /\ walk'.todo \subseteq walk.todo \ {Min(walk.todo)}
      /\ num_free[p] >= blocks_per_page - 1 => walk'.todo = {}
      /\ walk'.seen = walk.seen \cup {b}
      /\ walk'.releases = (walk.releases \/ releases)
  BY <1>2, VisitMoves
<1>4. p \in R /\ walk.next = links.next[p] /\ walk.next \in R
  BY <1>1, <1>3 DEF OnRing
<1>5. CASE ~releases
  <2>1. UNCHANGED <<pages, outcome>> BY <1>5 DEF Visit
  <2>2. PagesOK' /\ Kind' = Kind /\ links' = links
    BY <2>1 DEF pages, PagesOK, TypeOK, Marked, BlocksMapped, LinksSafe, Kind, KindOf,
                SingleBlocksFull
  <2>3. OnRing(walk', links, R) BY <1>1, <1>3, <1>4 DEF OnRing
  <2>4. ASSUME ~walk'.releases
        PROVE  \E U \in SUBSET R : Ahead(walk', links, R, U)
    <3>1. PICK U \in SUBSET R : Ahead(walk, links, R, U) BY <1>1, <1>3, <2>4
    <3>2. b[1] = p /\ p \notin U BY <3>1 DEF Ahead
    <3>3. \A i \in walk'.todo : i \in walk.todo /\ <<p, i>> # b BY <1>3
    <3>4. Ahead(walk', links, R, U)
      <4>1. /\ U \subseteq R /\ walk'.page \in R \ U
            /\ walk'.next = links.next[walk'.page]
            /\ \A q \in U \cup {walk'.page} : links.next[q] \in U \cup {walk'.first}
        BY <1>3, <3>1 DEF Ahead
      <4>2. \A c \in walk'.seen : c[1] \notin U BY <1>3, <3>1, <3>2 DEF Ahead
      <4>3. \A i \in walk'.todo : <<walk'.page, i>> \notin walk'.seen
        BY <1>3, <3>1, <3>3 DEF Ahead
      <4> QED BY <4>1, <4>2, <4>3 DEF Ahead
    <3> QED BY <3>4
  <2> QED BY <1>1, <1>3, <2>2, <2>3, <2>4 DEF WalkOK
<1>6. CASE releases
  <2>1. Release(b) /\ b \in held BY <1>6 DEF Visit, Release
  <2>2. PagesOK' BY <2>1, ReleaseKeepsPages
  <2>3. b[1] = p OBVIOUS
  <2>4. ReleaseStuck(p) \/ ReleaseStays(p) \/ ReleaseUnmaps(p) \/ ReleaseMoves(p)
    BY <2>1, <2>3, ReleaseCases
  <2>5. walk'.releases BY <1>3, <1>6
  <2>6. ~ReleaseMoves(p) BY <1>1, <1>4 DEF ReleaseMoves, Ring
  <2>7. CASE ReleaseStuck(p) BY <2>2, <2>7 DEF ReleaseStuck
  <2>8. CASE ReleaseStays(p)
    <3>1. links' = links /\ Kind' = Kind BY <2>8 DEF ReleaseStays
    <3>2. OnRing(walk', links, R) BY <1>1, <1>3, <1>4 DEF OnRing
    <3> QED BY <1>1, <1>3, <2>2, <2>5, <3>1, <3>2 DEF WalkOK
  <2>9. CASE ReleaseUnmaps(p)
    <3>1. /\ num_free[p] = blocks_per_page - 1
          /\ links.next[Avail] # links.prev[Avail]
          /\ links' = delete_from_list(links, "avail_pages", p)
          /\ Kind' = [Kind EXCEPT ![p] = "none"]
      BY <2>9 DEF ReleaseUnmaps
    <3>2. Avail \in R BY <1>1 DEF OnRing, Avail
    <3>3. links.next[p] # links.prev[p] BY <1>1, <1>4, <3>1, <3>2, RingOfTwo
    <3>4. ListsOK(links, Kind) /\ Kind \in Kinds
      BY KindFacts DEF PagesOK, Kind
    <3>5. /\ Ring(links', Kind', R \ {p})
          /\ links'.head["avail_pages"] \in R \ {p}
          /\ links.next[p] \in R \ {p}
      BY <1>1, <1>4, <3>1, <3>2, <3>3, <3>4, RingShrinks DEF Avail
    <3>6. walk'.todo = {}
      <4>1. blocks_per_page \in Nat BY FsbAssumption
      <4> QED BY <4>1, <1>3, <3>1
    <3>7. OnRing(walk', links', R \ {p}) BY <1>3, <1>4, <3>5, <3>6 DEF OnRing
    <3>8. R \ {p} \in SUBSET Page OBVIOUS
    <3> QED BY <1>3, <2>2, <2>5, <3>5, <3>7, <3>8 DEF WalkOK
  <2> QED BY <2>4, <2>6, <2>7, <2>8, <2>9
<1> QED BY <1>5, <1>6

-----------------------------------------------------------------------------
(* The invariant is inductive. *)

LEMMA InitFsbInv == ASSUME Init PROVE FsbInv
<1>1. TypeOK BY FsbAssumption DEF Init, TypeOK, Lists
<1>2. Marked /\ BlocksMapped /\ LinksSafe /\ SingleBlocksFull
  BY DEF Init, Marked, BlocksMapped, LinksSafe, SingleBlocksFull
<1>3. ListsOK(links, Kind)
  <2>1. \A p \in Page : Kind[p] = "none" BY KindFacts DEF Init, Kind
  <2>2. links \in Links BY <1>1 DEF TypeOK, Links
  <2>3. \A l \in Lists : links.head[l] = NULL BY DEF Init
  <2> QED BY <2>1, <2>2, <2>3
      DEF ListsOK, HeadsLinked, LinkedOrStale, RingsClosed, Linked
<1>4. WalkOK(walk, links, Kind) BY DEF Init, WalkOK
<1> QED BY <1>1, <1>2, <1>3, <1>4 DEF FsbInv, PagesOK

LEMMA AllocateFromPageKeeps ==
  ASSUME PagesOK, outcome = "running", AllocateFromPage
  PROVE  PagesOK'
<1> DEFINE p == links.head["avail_pages"]
           bits == bitmap[p]
           n == num_free[p]
<1>1. TypeOK /\ Marked /\ ListsOK(links, Kind) BY DEF PagesOK
<1>2. /\ p # NULL /\ TakeBlock(links, p, bits, n) /\ mapped' = mapped
  BY DEF AllocateFromPage
<1>3. p \in Page /\ Kind[p] = "avail_pages"
  BY <1>1, <1>2 DEF ListsOK, HeadsLinked, Lists
<1>4. p \in mapped /\ n # 0 BY <1>3, KindFacts DEF Kind
<1>5. /\ bits \in SUBSET Index /\ n \in Nat /\ n <= blocks_per_page
      /\ blocks_per_page \in Nat
      /\ num_free \in [Page -> 0 .. blocks_per_page]
  BY <1>1, <1>3, TypeFacts
<1>6. /\ n = blocks_per_page - Cardinality(bits)
      /\ \A i \in Index : i \in bits <=> <<p, i>> \in held
  BY <1>1, <1>4 DEF Marked, Index
<1>7. mapped \cup {p} = mapped /\ [num_free EXCEPT ![p] = n] = num_free
  BY <1>3, <1>4, <1>5
<1>8. n \in 1 .. blocks_per_page BY <1>4, <1>5
<1>9. ListsOK(links, KindOf(mapped \cup {p}, [num_free EXCEPT ![p] = n]))
  BY <1>1, <1>7 DEF Kind
<1> HIDE DEF p, bits, n
<1> QED BY <1>2, <1>3, <1>5, <1>6, <1>7, <1>8, <1>9, TakeKeepsPages

LEMMA AllocateFromNewPageKeeps ==
  ASSUME PagesOK, outcome = "running", NEW p \in Page, AllocateFromNewPage(p)
  PROVE  PagesOK'
<1> DEFINE L == add_to_list(links, "avail_pages", p)
           m == [num_free EXCEPT ![p] = blocks_per_page]
<1>1. TypeOK /\ BlocksMapped /\ ListsOK(links, Kind) BY DEF PagesOK
<1>2. p \notin mapped /\ mapped' = mapped \cup {p}
      /\ TakeBlock(L, p, {}, blocks_per_page)
  BY DEF AllocateFromNewPage
<1>3. /\ blocks_per_page \in Nat /\ blocks_per_page >= 1
      /\ num_free \in [Page -> 0 .. blocks_per_page]
  BY <1>1, TypeFacts
<1>4. blocks_per_page = blocks_per_page - Cardinality({})
  BY <1>3, FS_EmptySet
<1>5. \A i \in Index : i \in {} <=> <<p, i>> \in held
  <2> SUFFICES ASSUME NEW i \in Index, <<p, i>> \in held PROVE FALSE
    OBVIOUS
  <2>1. <<p, i>>[1] = p OBVIOUS
  <2> QED BY <2>1, <1>1, <1>2 DEF BlocksMapped
<1>6. Kind \in Kinds /\ Kind[p] = "none" BY <1>2, KindFacts DEF Kind
<1>7. ListsOK(L, [Kind EXCEPT ![p] = "avail_pages"])
  BY <1>1, <1>6, AddOK DEF Lists
<1>8. KindOf(mapped \cup {p}, m) = [Kind EXCEPT ![p] = "avail_pages"]
  <2>1. m[p] # 0 /\ \A q \in Page \ {p} : m[q] = num_free[q] BY <1>3
  <2> HIDE DEF m
  <2> QED BY <2>1 DEF Kind, KindOf
<1>9. ListsOK(L, KindOf(mapped \cup {p}, m)) BY <1>7, <1>8
<1>10. {} \in SUBSET Index /\ blocks_per_page \in 1 .. blocks_per_page BY <1>3
<1> HIDE DEF L
<1> QED BY <1>2, <1>4, <1>5, <1>9, <1>10, TakeKeepsPages

LEMMA DestroyKeeps ==
  ASSUME PagesOK, outcome = "running", Destroy
  PROVE  PagesOK' /\ outcome' # "running"
<1>1. /\ mapped' \subseteq mapped
      /\ UNCHANGED <<links, num_free, bitmap, held>>
      /\ \/ outcome' = "destroyed"
         \/ outcome' = "bad_destroy" /\ mapped' = mapped
  BY DEF Destroy
<1>2. TypeOK' BY <1>1 DEF PagesOK, TypeOK
<1>3. Marked' BY <1>1 DEF PagesOK, Marked
<1>4. BlocksMapped' BY <1>1 DEF PagesOK, BlocksMapped
<1> QED BY <1>1, <1>2, <1>3, <1>4 DEF PagesOK, LinksSafe

LEMMA StepFsbInv == ASSUME FsbInv, [Next]_vars PROVE FsbInv'
<1>1. CASE UNCHANGED vars
  BY <1>1 DEF vars, pages, FsbInv, PagesOK, TypeOK, Marked, BlocksMapped, LinksSafe,
              Kind, KindOf, SingleBlocksFull
<1>2. CASE Next
  <2>1. outcome = "running" /\ PagesOK /\ WalkOK(walk, links, Kind)
    BY <1>2 DEF Next, FsbInv
  <2>2. CASE walk = NoWalk /\ Call /\ UNCHANGED walk
    <3>1. WalkOK(walk', links', Kind') BY <2>2 DEF WalkOK
    <3>2. PagesOK'
      BY <2>1, <2>2, AllocateFromPageKeeps, AllocateFromNewPageKeeps,
         ReleaseKeepsPages, DestroyKeeps DEF Call
    <3> QED BY <3>1, <3>2 DEF FsbInv
  <2>3. CASE walk = NoWalk /\ StartWalk
    <3>1. UNCHANGED <<pages, outcome>> BY <2>3 DEF StartWalk
    <3>2. PagesOK' /\ links' = links /\ Kind' = Kind
      BY <2>1, <3>1 DEF pages, PagesOK, TypeOK, Marked, BlocksMapped, LinksSafe, Kind,
                        KindOf, SingleBlocksFull
    <3> QED BY <2>1, <2>3, <3>2, StartKeepsWalk DEF FsbInv
  <2>4. ASSUME walk # NoWalk, NEW releases \in BOOLEAN, Visit(releases)
        PROVE  FsbInv'
    BY <2>1, <2>4, VisitKeepsWalk DEF FsbInv
  <2>5. CASE walk # NoWalk /\ NextPage
    <3>1. UNCHANGED pages BY <2>5 DEF NextPage
    <3>2. outcome' = "running" /\ WalkOK(walk', links, Kind)
      BY <2>1, <2>5, NextKeepsWalk
    <3>3. PagesOK' /\ links' = links /\ Kind' = Kind
      BY <2>1, <3>1, <3>2 DEF pages, PagesOK, TypeOK, Marked, BlocksMapped, LinksSafe, Kind,
                              KindOf, SingleBlocksFull
    <3> QED BY <3>2, <3>3 DEF FsbInv
  <2> QED BY <1>2, <2>2, <2>3, <2>4, <2>5 DEF Next
<1> QED BY <1>1, <1>2

(* FsbInv holds in every reachable state, whatever the callbacks release.  *)
THEOREM FsbInvHolds == Spec => []FsbInv
BY InitFsbInv, StepFsbInv, PTL DEF Spec

(* BooksKept: num_free and the bitmap of every page are exact, and the     *)
(* page that fsb_arena_allocate takes has a free block, through pages      *)
(* that drop out of their lists and frames that are mapped again.          *)
THEOREM BooksStayKept == Spec => []BooksKept
<1>1. ASSUME FsbInv PROVE BooksKept
  <2>1. TypeOK /\ Marked BY <1>1 DEF FsbInv, PagesOK
  <2>2. ASSUME NEW p \in mapped
        PROVE  /\ bitmap[p] = {b[2] : b \in {c \in held : c[1] = p}}
               /\ num_free[p] = blocks_per_page - Cardinality(bitmap[p])
    <3>1. held \subseteq Page \X Index /\ bitmap[p] \in SUBSET Index
      BY <2>1, TypeFacts
    <3>2. \A i \in Index : i \in bitmap[p] <=> <<p, i>> \in held
      BY <2>1 DEF Marked, Index
    <3>3. ASSUME NEW i \in bitmap[p]
          PROVE  i \in {b[2] : b \in {c \in held : c[1] = p}}
      <4>1. <<p, i>> \in {c \in held : c[1] = p} /\ <<p, i>>[2] = i
        BY <3>1, <3>2
      <4> QED BY <4>1
    <3>4. ASSUME NEW b \in held, b[1] = p PROVE b[2] \in bitmap[p]
      <4>1. b = <<p, b[2]>> /\ b[2] \in Index BY <3>1, <3>4
      <4> QED BY <4>1, <3>2
    <3> QED BY <3>3, <3>4, <2>1 DEF Marked
  <2>3. ASSUME outcome = "running", links.head["avail_pages"] # NULL
        PROVE  num_free[links.head["avail_pages"]] > 0
    <3> DEFINE p == links.head["avail_pages"]
    <3>1. p \in Page /\ Kind[p] = "avail_pages"
      BY <1>1, <2>3 DEF FsbInv, PagesOK, ListsOK, HeadsLinked, Lists
    <3>2. num_free[p] # 0 /\ num_free[p] \in Nat
      BY <3>1, <2>1, KindFacts, TypeFacts DEF Kind
    <3> QED BY <3>2
  <2> QED BY <2>1, <2>2, <2>3 DEF BooksKept, BooksExact, AvailHasRoom
<1> QED BY <1>1, FsbInvHolds, PTL

(* BlocksMapped: fsb_arena_release never unmaps a page under a block. *)
THEOREM BlocksStayMapped == Spec => []BlocksMapped
<1>1. ASSUME FsbInv PROVE BlocksMapped BY <1>1 DEF FsbInv, PagesOK
<1> QED BY <1>1, FsbInvHolds, PTL

(* LinksSafe: no list operation and no walk follows a link to a page that  *)
(* is gone, although delete_from_list loses pages, and the abort of        *)
(* fsb_arena_allocate is unreachable.                                      *)
THEOREM LinksStaySafe == Spec => []LinksSafe
<1>1. ASSUME FsbInv PROVE LinksSafe BY <1>1 DEF FsbInv, PagesOK
<1> QED BY <1>1, FsbInvHolds, PTL

(* VisitsOnce: a walk whose callback releases nothing comes to no block    *)
(* twice.                                                                  *)
THEOREM WalkVisitsOnce == Spec => VisitsOnce
<1>1. ASSUME FsbInv, [Next]_vars
      PROVE  [walk # NoWalk /\ walk' # NoWalk /\ ~walk'.releases /\ walk.todo # {}
                => <<walk.page, Min(walk.todo)>> \notin walk.seen]_vars
  <2> SUFFICES ASSUME ~ UNCHANGED vars, walk # NoWalk, walk' # NoWalk,
                      ~walk'.releases, walk.todo # {}
               PROVE  <<walk.page, Min(walk.todo)>> \notin walk.seen
    OBVIOUS
  <2>1. outcome = "running" /\ WalkOK(walk, links, Kind)
    BY <1>1 DEF Next, FsbInv
  <2>2. walk \in WalkType BY <2>1 DEF WalkOK
  <2>3. ~walk.releases
    <3>1. PICK releases \in BOOLEAN : Visit(releases) BY <1>1 DEF Next, NextPage
    <3> QED BY <3>1, <2>2, VisitMoves
  <2>4. PICK R \in SUBSET Page : \E U \in SUBSET R : Ahead(walk, links, R, U)
    BY <2>1, <2>3 DEF WalkOK
  <2>5. Min(walk.todo) \in walk.todo
    <3>1. walk.todo \in SUBSET Nat BY <2>2 DEF WalkType, Bit
    <3> QED BY <3>1, LeastOfNat
  <2> QED BY <2>4, <2>5 DEF Ahead
<1> QED BY <1>1, FsbInvHolds, PTL DEF Spec, VisitsOnce

=============================================================================
