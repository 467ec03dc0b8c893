----------------------------- MODULE PageLemmas -----------------------------
(***************************************************************************)
(* What the operators of PageBitmap return and what those of PageLists     *)
(* keep, for every page size, every bitmap and any lists.                  *)
(***************************************************************************)
EXTENDS PageBitmap, PageLists, TLAPS, WellFoundedInduction

-----------------------------------------------------------------------------
(* Bitmaps.  Min and Max are CHOOSE expressions; the first two lemmas say  *)
(* that what they choose exists.                                           *)

(* A non-empty set of naturals has a minimum, and Min returns it. *)
LEMMA MinOfNat ==
  ASSUME NEW S \in SUBSET Nat, S # {}
  PROVE  /\ Min(S) \in S
         /\ \A y \in S : Min(S) <= y
<1> DEFINE R == {ss \in Nat \X Nat : ss[1] < ss[2]}
<1>1. IsWellFoundedOn(R, Nat)
  BY NatLessThanWellFounded, Zenon DEF OpToRel
<1>2. PICK x \in S : \A y \in S : ~ (<<y, x>> \in R)
  <2> HIDE DEF R
  <2> QED BY <1>1, WFMin
<1>3. ASSUME NEW y \in S PROVE x <= y
  <2>1. x \in Nat /\ y \in Nat OBVIOUS
  <2>2. <<y, x>> \in R <=> y < x BY <2>1
  <2>3. ~ (y < x) BY <1>2, <2>2
  <2> QED BY <2>1, <2>3
<1> QED BY <1>3 DEF Min

(* So has a bounded one a maximum. *)
LEMMA MaxOfBounded ==
  ASSUME NEW S \in SUBSET Nat, S # {}, NEW n \in Nat, \A y \in S : y <= n
  PROVE  /\ Max(S) \in S
         /\ \A y \in S : y <= Max(S)
<1> DEFINE T == {n - y : y \in S}
<1>1. T \in SUBSET Nat /\ T # {}
  <2>1. \A y \in S : y \in Nat /\ n - y \in Nat OBVIOUS
  <2>2. T \subseteq Nat BY <2>1
  <2>3. T # {} OBVIOUS
  <2> QED BY <2>2, <2>3
<1>2. Min(T) \in T /\ \A z \in T : Min(T) <= z
  BY <1>1, MinOfNat
<1>3. PICK x \in S : Min(T) = n - x BY <1>2
<1>4. \A y \in S : y <= x BY <1>2, <1>3
<1> QED BY <1>4 DEF Max

(* The arithmetic of the page's layout. *)
LEMMA Layout ==
  /\ units_per_page \in Nat
  /\ bm_page_header_size_in_units \in Nat
  /\ bm_page_header_size_in_units >= 1
  /\ max_data_units \in Nat
  /\ max_data_units >= 2
  /\ units_per_page = max_data_units + bm_page_header_size_in_units
BY UnitsAssumption DEF max_data_units

(* count_zero_bits returns the length of the longest free run at o. *)
LEMMA CountZeroBits ==
  ASSUME NEW bm \in SUBSET Unit, NEW o \in Nat, o <= units_per_page
  PROVE  /\ count_zero_bits(bm, o) \in Nat
         /\ o + count_zero_bits(bm, o) <= units_per_page
         /\ Run(o, count_zero_bits(bm, o)) \cap bm = {}
         /\ \A n \in Nat : o + n <= units_per_page /\ Run(o, n) \cap bm = {}
                             => n <= count_zero_bits(bm, o)
<1> DEFINE S == {n \in 0 .. (units_per_page - o) : Run(o, n) \cap bm = {}}
<1>1. units_per_page - o \in Nat BY Layout
<1>2. S \in SUBSET Nat /\ \A n \in S : n <= units_per_page - o BY <1>1
<1>3. 0 \in S BY <1>1 DEF Run
<1>4. Max(S) \in S /\ \A y \in S : y <= Max(S)
  <2> HIDE DEF S
  <2> QED BY <1>1, <1>2, <1>3, MaxOfBounded
<1>5. count_zero_bits(bm, o) = Max(S) BY DEF count_zero_bits
<1>6. ASSUME NEW n \in Nat, o + n <= units_per_page, Run(o, n) \cap bm = {}
      PROVE  n \in S
  BY <1>6, Layout
<1> QED BY <1>1, <1>4, <1>5, <1>6, Layout

(* find_free_block returns 0 when no data unit starts a long enough free   *)
(* run, and otherwise the start of one.                                    *)
LEMMA FindFreeBlock ==
  ASSUME NEW bm \in SUBSET Unit, NEW n \in Nat
  PROVE  /\ find_free_block(bm, n) \in DataUnit \cup {0}
         /\ find_free_block(bm, n) # 0 =>
              /\ find_free_block(bm, n) \in DataUnit
              /\ find_free_block(bm, n) + n <= units_per_page
              /\ Run(find_free_block(bm, n), n) \cap bm = {}
         /\ find_free_block(bm, n) = 0 =>
              \A o \in DataUnit : count_zero_bits(bm, o) < n
<1> DEFINE fits == {o \in DataUnit : count_zero_bits(bm, o) >= n}
<1>1. \A o \in DataUnit : o \in Nat /\ o <= units_per_page /\ o # 0
  BY Layout DEF DataUnit
<1>2. CASE fits = {}
  <2>1. find_free_block(bm, n) = 0 BY <1>2 DEF find_free_block
  <2>2. ASSUME NEW o \in DataUnit PROVE count_zero_bits(bm, o) < n
    <3>1. count_zero_bits(bm, o) \in Nat BY <1>1, CountZeroBits
    <3>2. ~ (count_zero_bits(bm, o) >= n) BY <1>2
    <3> QED BY <3>1, <3>2
  <2> QED BY <2>1, <2>2
<1>3. CASE fits # {}
  <2>1. fits \in SUBSET Nat BY <1>1
  <2>2. Min(fits) \in fits
    <3> HIDE DEF fits
    <3> QED BY <1>3, <2>1, MinOfNat
  <2>3. find_free_block(bm, n) = Min(fits) BY <1>3 DEF find_free_block
  <2>4. PICK o \in DataUnit : o = Min(fits) /\ count_zero_bits(bm, o) >= n
    BY <2>2
  <2>5. o \in Nat /\ o <= units_per_page /\ o # 0 BY <1>1
  <2>6. /\ count_zero_bits(bm, o) \in Nat
        /\ o + count_zero_bits(bm, o) <= units_per_page
        /\ Run(o, count_zero_bits(bm, o)) \cap bm = {}
    BY <2>5, CountZeroBits
  <2>7. o + n <= units_per_page BY <2>4, <2>5, <2>6, Layout
  <2>8. Run(o, n) \subseteq Run(o, count_zero_bits(bm, o))
    BY <2>4, <2>5, <2>6 DEF Run
  <2> QED BY <2>3, <2>4, <2>5, <2>6, <2>7, <2>8
<1> QED BY <1>2, <1>3

(* find_longest_free_block returns the longest free run. *)
LEMMA LongestFreeBlock ==
  ASSUME NEW bm \in SUBSET Unit
  PROVE  /\ find_longest_free_block(bm) \in 0 .. max_data_units
         /\ \E o \in DataUnit : find_longest_free_block(bm) = count_zero_bits(bm, o)
         /\ \A o \in DataUnit : count_zero_bits(bm, o) <= find_longest_free_block(bm)
<1> DEFINE S == {count_zero_bits(bm, o) : o \in DataUnit}
<1>1. ASSUME NEW o \in DataUnit
      PROVE  count_zero_bits(bm, o) \in Nat /\ count_zero_bits(bm, o) <= max_data_units
  <2>1. o \in Nat /\ o <= units_per_page /\ o >= bm_page_header_size_in_units
    BY Layout DEF DataUnit
  <2>2. count_zero_bits(bm, o) \in Nat /\ o + count_zero_bits(bm, o) <= units_per_page
    BY <2>1, CountZeroBits
  <2> QED BY <2>1, <2>2, Layout
<1>2. S \in SUBSET Nat /\ \A y \in S : y <= max_data_units BY <1>1
<1>3. bm_page_header_size_in_units \in DataUnit BY Layout DEF DataUnit
<1>4. S # {} BY <1>3
<1>5. Max(S) \in S /\ \A y \in S : y <= Max(S)
  <2> HIDE DEF S
  <2> QED BY <1>2, <1>4, MaxOfBounded, Layout
<1>6. find_longest_free_block(bm) = Max(S) BY DEF find_longest_free_block
<1>7. PICK o \in DataUnit : Max(S) = count_zero_bits(bm, o) BY <1>5
<1>8. Max(S) \in 0 .. max_data_units BY <1>1, <1>7, Layout
<1>9. \A q \in DataUnit : count_zero_bits(bm, q) <= Max(S) BY <1>5
<1> QED
  <2> HIDE DEF S
  <2> QED BY <1>6, <1>7, <1>8, <1>9

(* A page filed under its longest free block has room for every block up   *)
(* to that length: the abort of find_available_page is unreachable.        *)
LEMMA LongestFits ==
  ASSUME NEW bm \in SUBSET Unit, NEW n \in Nat, find_longest_free_block(bm) >= n
  PROVE  find_free_block(bm, n) # 0
<1>1. PICK o \in DataUnit : find_longest_free_block(bm) = count_zero_bits(bm, o)
  BY LongestFreeBlock
<1>2. o \in Nat /\ o <= units_per_page BY Layout DEF DataUnit
<1>3. count_zero_bits(bm, o) \in Nat BY <1>2, CountZeroBits
<1>4. ~ (count_zero_bits(bm, o) < n) BY <1>1, <1>3
<1> QED BY <1>4, FindFreeBlock

(* A page whose longest free block is max_data_units has no unit in use    *)
(* but its header's.                                                       *)
LEMMA LongestOfFreePage ==
  ASSUME NEW bm \in SUBSET Unit, find_longest_free_block(bm) >= max_data_units
  PROVE  bm \cap DataUnit = {}
<1>1. PICK o \in DataUnit : find_longest_free_block(bm) = count_zero_bits(bm, o)
  BY LongestFreeBlock
<1>2. o \in Nat /\ o <= units_per_page /\ o >= bm_page_header_size_in_units
  BY Layout DEF DataUnit
<1>3. /\ count_zero_bits(bm, o) \in Nat
      /\ o + count_zero_bits(bm, o) <= units_per_page
      /\ Run(o, count_zero_bits(bm, o)) \cap bm = {}
  BY <1>2, CountZeroBits
<1>4. o = bm_page_header_size_in_units /\ count_zero_bits(bm, o) = max_data_units
  BY <1>1, <1>2, <1>3, Layout
<1>5. Run(o, count_zero_bits(bm, o)) = DataUnit
  BY <1>4, Layout DEF Run, DataUnit
<1> QED BY <1>3, <1>5

(* Conversely, a page with a unit in use is not reclaimed. *)
LEMMA LongestOfUsedPage ==
  ASSUME NEW bm \in SUBSET Unit, NEW u \in DataUnit, u \in bm
  PROVE  find_longest_free_block(bm) < max_data_units
BY LongestOfFreePage, LongestFreeBlock, Layout

-----------------------------------------------------------------------------
(* Lists.  The list operations of the pet allocator keep its lists         *)
(* consistent (ListsOK), although delete_from_list may lose a page.        *)
(*                                                                         *)
(* Every proof goes the same way.  WellLinked before the operation gives   *)
(* WellLinked after it for all pages but those whose links it writes, and  *)
(* conversely no page becomes WellLinked but the page added; the other     *)
(* parts of ListsOK follow from these two facts.                           *)

(* p becomes the only page of list l: the first branch of add_to_list, and *)
(* what unhand_page does to lru_page.                                      *)
Alone(L, l, p) ==
  [head |-> [L.head EXCEPT ![l] = p],
   list |-> [L.list EXCEPT ![p] = l],
   next |-> [L.next EXCEPT ![p] = p],
   prev |-> [L.prev EXCEPT ![p] = p]]

(* The type of a list state, spelled out. *)
LEMMA LinksType ==
  ASSUME NEW L \in Links
  PROVE  /\ \A l \in ListId : L.head[l] \in Page \cup {NULL}
         /\ \A p \in Page : /\ L.list[p] \in ListId \cup {NULL}
                            /\ L.next[p] \in Page \cup {NULL}
                            /\ L.prev[p] \in Page \cup {NULL}
BY DEF Links

(* NULL is neither a page nor a list. *)
LEMMA NullDistinct == NULL \notin Page /\ NULL \notin ListId /\ LRU \in ListId
BY ListsAssumption, UnitsAssumption DEF ListId, max_data_units

(* A page on no list can be made the only page of any list. *)
LEMMA AloneOK ==
  ASSUME NEW L, ListsOK(L), NEW l \in ListId, NEW p \in Page, L.list[p] = NULL
  PROVE  ListsOK(Alone(L, l, p))
<1> DEFINE M == Alone(L, l, p)
<1>1. L \in Links BY DEF ListsOK
<1>2. M \in Links BY <1>1 DEF Alone, Links
<1>3. /\ M.head = [L.head EXCEPT ![l] = p]
      /\ M.list = [L.list EXCEPT ![p] = l]
      /\ M.next = [L.next EXCEPT ![p] = p]
      /\ M.prev = [L.prev EXCEPT ![p] = p]
  BY DEF Alone
<1> HIDE DEF M
<1>4. /\ M.list[p] = l /\ M.next[p] = p /\ M.prev[p] = p
      /\ \A q \in Page : q # p => /\ M.list[q] = L.list[q]
                                  /\ M.next[q] = L.next[q]
                                  /\ M.prev[q] = L.prev[q]
      /\ M.head[l] = p
      /\ \A k \in ListId : k # l => M.head[k] = L.head[k]
  BY <1>1, <1>3 DEF Links
<1>5. WellLinked(M, p) BY <1>4 DEF WellLinked
<1>6. ASSUME NEW q \in Page, L.list[q] # NULL, WellLinked(L, q)
      PROVE  WellLinked(M, q)
  BY <1>4, <1>6 DEF WellLinked
<1>7. ASSUME NEW q \in Page, q # p, WellLinked(M, q)
      PROVE  WellLinked(L, q) /\ M.next[q] # p /\ M.prev[q] # p
  BY <1>4, <1>7 DEF WellLinked
<1>8. HeadsListed(M)
  <2> SUFFICES ASSUME NEW k \in ListId, M.head[k] # NULL
               PROVE  M.list[M.head[k]] = k /\ WellLinked(M, M.head[k])
    BY DEF HeadsListed
  <2>1. CASE k = l BY <2>1, <1>4, <1>5
  <2>2. CASE k # l
    <3>1. M.head[k] = L.head[k] /\ L.head[k] \in Page BY <2>2, <1>1, <1>4 DEF Links
    <3>2. L.list[L.head[k]] = k /\ WellLinked(L, L.head[k])
      BY <3>1, NullDistinct DEF ListsOK, HeadsListed
    <3>3. L.head[k] # p BY <3>2, NullDistinct
    <3> QED BY <3>1, <3>2, <3>3, <1>4, <1>6, NullDistinct
  <2> QED BY <2>1, <2>2
<1>9. RingOrStale(M)
  <2> SUFFICES ASSUME NEW q \in Page, M.list[q] # NULL
               PROVE  WellLinked(M, q) \/ M.next[q] = M.prev[q]
    BY DEF RingOrStale
  <2> QED BY <1>4, <1>6 DEF ListsOK, RingOrStale
<1>10. RingsClosed(M)
  <2> SUFFICES ASSUME NEW q \in Page, M.list[q] # NULL, WellLinked(M, q)
               PROVE  WellLinked(M, M.next[q]) /\ WellLinked(M, M.prev[q])
    BY DEF RingsClosed
  <2>1. CASE q = p BY <2>1, <1>4, <1>5
  <2>2. CASE q # p
    <3>1. WellLinked(L, q) /\ L.list[q] # NULL BY <2>2, <1>4, <1>7
    <3>2. WellLinked(L, L.next[q]) /\ WellLinked(L, L.prev[q])
      BY <3>1 DEF ListsOK, RingsClosed
    <3>3. /\ L.next[q] \in Page /\ L.list[L.next[q]] # NULL
          /\ L.prev[q] \in Page /\ L.list[L.prev[q]] # NULL
      BY <3>1 DEF WellLinked
    <3> QED BY <3>2, <3>3, <2>2, <1>4, <1>6
  <2> QED BY <2>1, <2>2
<1>11. LruSingle(M)
  BY <1>4 DEF ListsOK, LruSingle
<1> QED BY <1>2, <1>8, <1>9, <1>10, <1>11 DEF ListsOK, M

(* add_to_list, for a page on no list. *)
LEMMA AddOK ==
  ASSUME NEW L, ListsOK(L), NEW l \in ListId \ {LRU}, NEW p \in Page, L.list[p] = NULL
  PROVE  ListsOK(add_to_list(L, l, p))
<1> DEFINE M == add_to_list(L, l, p)
           f == L.head[l]
           r == L.prev[f]
<1>1. L \in Links BY DEF ListsOK
<1>2. CASE f = NULL
  <2>1. M = Alone(L, l, p) BY <1>2 DEF add_to_list, Alone
  <2> QED BY <2>1, AloneOK
<1>3. CASE f # NULL
  <2>1. f \in Page /\ L.list[f] = l /\ WellLinked(L, f)
    BY <1>1, <1>3 DEF ListsOK, HeadsListed, Links
  <2>2. r \in Page /\ L.list[r] = l /\ L.next[r] = f
    BY <2>1 DEF WellLinked
  <2>3. WellLinked(L, r) BY <2>1, NullDistinct DEF ListsOK, RingsClosed
  <2>4. f # p /\ r # p BY <2>1, <2>2, NullDistinct
  <2>5. /\ M.head = L.head
        /\ M.list = [L.list EXCEPT ![p] = l]
        /\ M.next = [L.next EXCEPT ![p] = f, ![r] = p]
        /\ M.prev = [L.prev EXCEPT ![p] = r, ![f] = p]
    BY <1>3 DEF add_to_list
  <2>6. M \in Links BY <1>1, <1>3, <2>1, <2>2 DEF add_to_list, Links
  <2> HIDE DEF M, f, r
  <2>7. /\ M.list[p] = l /\ M.next[p] = f /\ M.prev[p] = r
        /\ M.next[r] = p /\ M.prev[f] = p
        /\ \A q \in Page : q # p => M.list[q] = L.list[q]
        /\ \A q \in Page : q # p /\ q # r => M.next[q] = L.next[q]
        /\ \A q \in Page : q # p /\ q # f => M.prev[q] = L.prev[q]
    BY <1>1, <2>1, <2>2, <2>4, <2>5 DEF Links
  <2>8. WellLinked(M, p) BY <2>1, <2>2, <2>4, <2>7 DEF WellLinked
  <2>9. WellLinked(M, f)
    BY <2>1, <2>2, <2>4, <2>7, NullDistinct DEF WellLinked, r
  <2>10. WellLinked(M, r)
    BY <2>1, <2>2, <2>3, <2>4, <2>7, NullDistinct DEF WellLinked, r
  <2>11. ASSUME NEW q \in Page, L.list[q] # NULL, WellLinked(L, q)
         PROVE  WellLinked(M, q)
    <3>1. CASE q = f \/ q = r BY <3>1, <2>9, <2>10
    <3>2. CASE q # f /\ q # r
      <4>1. q # p BY <2>11
      <4>2. M.next[q] = L.next[q] /\ M.prev[q] = L.prev[q] /\ M.list[q] = L.list[q]
        BY <3>2, <4>1, <2>7
      <4>3. L.next[q] # p /\ L.prev[q] # p BY <2>11 DEF WellLinked
      <4>4. L.next[q] # f /\ L.prev[q] # r
        BY <2>11, <3>2, <2>2 DEF WellLinked, r
      <4> QED BY <2>11, <2>7, <4>2, <4>3, <4>4 DEF WellLinked
    <3> QED BY <3>1, <3>2
  <2>12. ASSUME NEW q \in Page, q # p, WellLinked(M, q)
         PROVE  WellLinked(L, q)
    <3>1. CASE q = f \/ q = r BY <3>1, <2>1, <2>3
    <3>2. CASE q # f /\ q # r
      <4>1. M.next[q] = L.next[q] /\ M.prev[q] = L.prev[q] /\ M.list[q] = L.list[q]
        BY <3>2, <2>12, <2>7
      <4>2. L.next[q] # p /\ L.prev[q] # p
        BY <2>12, <3>2, <4>1, <2>7 DEF WellLinked
      <4>3. L.next[q] # f /\ L.prev[q] # r
        BY <2>12, <4>1, <2>7 DEF WellLinked
      <4> QED BY <2>12, <2>7, <4>1, <4>2, <4>3 DEF WellLinked
    <3> QED BY <3>1, <3>2
  <2>13. HeadsListed(M)
    <3> SUFFICES ASSUME NEW k \in ListId, M.head[k] # NULL
                 PROVE  M.list[M.head[k]] = k /\ WellLinked(M, M.head[k])
      BY DEF HeadsListed
    <3>1. M.head[k] = L.head[k] /\ L.head[k] \in Page BY <1>1, <2>5 DEF Links
    <3>2. L.list[L.head[k]] = k /\ WellLinked(L, L.head[k])
      BY <3>1, NullDistinct DEF ListsOK, HeadsListed
    <3>3. L.head[k] # p BY <3>2, NullDistinct
    <3> QED BY <3>1, <3>2, <3>3, <2>7, <2>11, NullDistinct
  <2>14. RingOrStale(M)
    <3> SUFFICES ASSUME NEW q \in Page, M.list[q] # NULL
                 PROVE  WellLinked(M, q) \/ M.next[q] = M.prev[q]
      BY DEF RingOrStale
    <3>1. CASE q = p BY <3>1, <2>8
    <3>2. CASE q = f \/ q = r BY <3>2, <2>9, <2>10
    <3>3. CASE q # p /\ q # f /\ q # r
      <4>1. L.list[q] # NULL BY <3>3, <2>7
      <4>2. WellLinked(L, q) \/ L.next[q] = L.prev[q]
        BY <4>1 DEF ListsOK, RingOrStale
      <4> QED BY <3>3, <4>1, <4>2, <2>7, <2>11
    <3> QED BY <3>1, <3>2, <3>3
  <2>15. RingsClosed(M)
    <3> SUFFICES ASSUME NEW q \in Page, M.list[q] # NULL, WellLinked(M, q)
                 PROVE  WellLinked(M, M.next[q]) /\ WellLinked(M, M.prev[q])
      BY DEF RingsClosed
    <3>1. CASE q = p BY <3>1, <2>7, <2>9, <2>10
    <3>2. CASE q # p
      <4>1. WellLinked(L, q) /\ L.list[q] # NULL BY <3>2, <2>7, <2>12
      <4>2. WellLinked(L, L.next[q]) /\ WellLinked(L, L.prev[q])
        BY <4>1 DEF ListsOK, RingsClosed
      <4>3. /\ L.next[q] \in Page /\ L.list[L.next[q]] # NULL
            /\ L.prev[q] \in Page /\ L.list[L.prev[q]] # NULL
        BY <4>1 DEF WellLinked
      <4>4. WellLinked(M, L.next[q]) /\ WellLinked(M, L.prev[q])
        BY <4>2, <4>3, <2>11
      <4>5. M.next[q] \in {p, L.next[q]} /\ M.prev[q] \in {p, L.prev[q]}
        BY <3>2, <2>7
      <4> QED BY <4>4, <4>5, <2>8
    <3> QED BY <3>1, <3>2
  <2>16. LruSingle(M)
    <3> SUFFICES ASSUME NEW q \in Page, M.list[q] = LRU
                 PROVE  M.next[q] = q /\ M.prev[q] = q
      BY DEF LruSingle
    <3>1. q # p /\ q # f /\ q # r BY <2>1, <2>2, <2>7
    <3>2. L.next[q] = q /\ L.prev[q] = q BY <3>1, <2>7 DEF ListsOK, LruSingle
    <3> QED BY <3>1, <3>2, <2>7
  <2> QED BY <2>6, <2>13, <2>14, <2>15, <2>16 DEF ListsOK, M
<1> QED BY <1>2, <1>3

(* delete_from_list of the last page of a list, or of a page of a list of  *)
(* two: the other page, if any, is left with next = prev.                  *)
LEMMA DeleteLastOK ==
  ASSUME NEW L, ListsOK(L), NEW p \in Page, L.list[p] # NULL, L.next[p] = L.prev[p]
  PROVE  ListsOK(delete_from_list(L, p))
<1> DEFINE M == delete_from_list(L, p)
           l == L.list[p]
<1>1. L \in Links BY DEF ListsOK
<1>2. l \in ListId BY <1>1 DEF Links
<1>3. M = [L EXCEPT !.head[l] = NULL, !.list[p] = NULL] BY DEF delete_from_list
<1>4. M \in Links
  <2>1. M = [head |-> [L.head EXCEPT ![l] = NULL],
             list |-> [L.list EXCEPT ![p] = NULL],
             next |-> L.next,
             prev |-> L.prev]
    BY <1>1, <1>3 DEF Links
  <2> QED BY <2>1, <1>1, <1>2 DEF Links
<1>5. /\ M.head = [L.head EXCEPT ![l] = NULL]
      /\ M.list = [L.list EXCEPT ![p] = NULL]
      /\ M.next = L.next
      /\ M.prev = L.prev
  BY <1>1, <1>3 DEF Links
<1> HIDE DEF M
<1>6. /\ M.head[l] = NULL
      /\ M.list[p] = NULL
      /\ \A k \in ListId : k # l => M.head[k] = L.head[k]
      /\ \A q \in Page : q # p => M.list[q] = L.list[q]
  BY <1>1, <1>2, <1>5 DEF Links
<1>7. ASSUME NEW q \in Page, M.list[q] # NULL, WellLinked(M, q)
      PROVE  WellLinked(L, q) /\ q # p
  BY <1>5, <1>6, <1>7 DEF WellLinked
<1>8. ASSUME NEW q \in Page, q # p, L.list[q] # NULL, WellLinked(L, q)
      PROVE  WellLinked(M, q) \/ L.next[q] = L.prev[q]
  <2>1. CASE L.next[q] = p \/ L.prev[q] = p
    <3>1. WellLinked(L, p) BY <1>8, <2>1 DEF ListsOK, RingsClosed
    <3>2. q = L.next[p] BY <1>8, <2>1 DEF WellLinked
    <3> QED BY <3>1, <3>2 DEF WellLinked
  <2>2. CASE L.next[q] # p /\ L.prev[q] # p
    BY <1>5, <1>6, <1>8, <2>2 DEF WellLinked
  <2> QED BY <2>1, <2>2
<1>9. HeadsListed(M)
  <2> SUFFICES ASSUME NEW k \in ListId, M.head[k] # NULL
               PROVE  M.list[M.head[k]] = k /\ WellLinked(M, M.head[k])
    BY DEF HeadsListed
  <2>1. k # l BY <1>6
  <2>2. M.head[k] = L.head[k] /\ L.head[k] \in Page BY <2>1, <1>1, <1>6 DEF Links
  <2>3. L.list[L.head[k]] = k /\ WellLinked(L, L.head[k])
    BY <2>2, NullDistinct DEF ListsOK, HeadsListed
  <2>4. L.head[k] # p BY <2>1, <2>3
  <2>5. L.next[L.head[k]] # p /\ L.prev[L.head[k]] # p
    BY <2>1, <2>3 DEF WellLinked
  <2>6. WellLinked(M, L.head[k])
    BY <2>2, <2>3, <2>4, <2>5, <1>5, <1>6 DEF WellLinked
  <2> QED BY <2>2, <2>3, <2>4, <2>6, <1>6
<1>10. RingOrStale(M)
  <2> SUFFICES ASSUME NEW q \in Page, M.list[q] # NULL
               PROVE  WellLinked(M, q) \/ M.next[q] = M.prev[q]
    BY DEF RingOrStale
  <2> QED BY <1>5, <1>6, <1>8 DEF ListsOK, RingOrStale
<1>11. RingsClosed(M)
  <2> SUFFICES ASSUME NEW q \in Page, M.list[q] # NULL, WellLinked(M, q)
               PROVE  WellLinked(M, M.next[q]) /\ WellLinked(M, M.prev[q])
    BY DEF RingsClosed
  <2>1. WellLinked(L, q) /\ q # p /\ L.list[q] # NULL BY <1>6, <1>7
  <2> DEFINE a == L.next[q]
             b == L.prev[q]
  <2>2. /\ a \in Page /\ a # p /\ L.list[a] # NULL /\ L.prev[a] = q
        /\ b \in Page /\ b # p /\ L.list[b] # NULL /\ L.next[b] = q
    BY <2>1, <1>5, <1>6 DEF WellLinked
  <2>3. WellLinked(L, a) /\ WellLinked(L, b)
    BY <2>1 DEF ListsOK, RingsClosed
  <2>4. ASSUME NEW x \in Page, x # p, L.list[x] # NULL, WellLinked(L, x),
               L.prev[x] # p \/ L.next[x] # p,
               L.prev[x] = p \/ L.next[x] = p
        PROVE  FALSE
    <3>1. WellLinked(L, p) BY <2>4 DEF ListsOK, RingsClosed
    <3>2. x = L.next[p] BY <2>4 DEF WellLinked
    <3> QED BY <2>4, <3>1, <3>2 DEF WellLinked
  <2>5. L.next[a] # p /\ L.prev[a] # p BY <2>1, <2>2, <2>3, <2>4
  <2>6. L.next[b] # p /\ L.prev[b] # p BY <2>1, <2>2, <2>3, <2>4
  <2> QED BY <2>2, <2>3, <2>5, <2>6, <1>5, <1>6 DEF WellLinked
<1>12. LruSingle(M)
  BY <1>5, <1>6, NullDistinct DEF ListsOK, LruSingle
<1> QED BY <1>4, <1>9, <1>10, <1>11, <1>12 DEF ListsOK, M

(* delete_from_list of a page between two others. *)
LEMMA DeleteInnerOK ==
  ASSUME NEW L, ListsOK(L), NEW p \in Page, L.list[p] # NULL, L.next[p] # L.prev[p]
  PROVE  ListsOK(delete_from_list(L, p))
<1> DEFINE M == delete_from_list(L, p)
           l == L.list[p]
           n == L.next[p]
           r == L.prev[p]
<1>1. L \in Links BY DEF ListsOK
<1>2. l \in ListId BY <1>1 DEF Links
<1>3. WellLinked(L, p) BY DEF ListsOK, RingOrStale
<1>4. /\ n \in Page /\ L.list[n] = l /\ L.prev[n] = p
      /\ r \in Page /\ L.list[r] = l /\ L.next[r] = p
  BY <1>3 DEF WellLinked
<1>5. n # p /\ r # p /\ n # r BY <1>4
<1>6. WellLinked(L, n) /\ WellLinked(L, r)
  BY <1>3 DEF ListsOK, RingsClosed
<1>7. l # LRU BY <1>5 DEF ListsOK, LruSingle
<1>8. /\ M.head = [L.head EXCEPT ![l] = IF @ = p THEN n ELSE @]
      /\ M.list = [L.list EXCEPT ![p] = NULL]
      /\ M.next = [L.next EXCEPT ![r] = n]
      /\ M.prev = [L.prev EXCEPT ![n] = r]
  BY <1>5 DEF delete_from_list
<1>9. M \in Links
  <2>1. M = [head |-> [L.head EXCEPT ![l] = IF @ = p THEN n ELSE @],
             list |-> [L.list EXCEPT ![p] = NULL],
             next |-> [L.next EXCEPT ![r] = n],
             prev |-> [L.prev EXCEPT ![n] = r]]
    BY <1>5 DEF delete_from_list
  <2> QED BY <2>1, <1>1, <1>2, <1>4 DEF Links
<1> HIDE DEF M, l, n, r
<1>10. /\ M.list[p] = NULL
       /\ M.next[r] = n
       /\ M.prev[n] = r
       /\ M.head[l] = (IF L.head[l] = p THEN n ELSE L.head[l])
       /\ \A k \in ListId : k # l => M.head[k] = L.head[k]
       /\ \A q \in Page : q # p => M.list[q] = L.list[q]
       /\ \A q \in Page : q # r => M.next[q] = L.next[q]
       /\ \A q \in Page : q # n => M.prev[q] = L.prev[q]
  BY <1>1, <1>2, <1>4, <1>8 DEF Links
<1>11. WellLinked(M, n)
  <2>1. L.next[n] # p BY <1>4, <1>5, <1>6 DEF WellLinked, r
  <2>2. L.next[n] # n BY <1>4, <1>5, <1>6 DEF WellLinked
  <2> QED BY <2>1, <2>2, <1>4, <1>5, <1>6, <1>10 DEF WellLinked
<1>12. WellLinked(M, r)
  <2>1. L.prev[r] # p BY <1>4, <1>5, <1>6 DEF WellLinked, n
  <2>2. L.prev[r] # r BY <1>4, <1>5, <1>6 DEF WellLinked
  <2> QED BY <2>1, <2>2, <1>4, <1>5, <1>6, <1>10 DEF WellLinked
<1>13. ASSUME NEW q \in Page, q # p, WellLinked(L, q)
       PROVE  WellLinked(M, q)
  <2>1. CASE q = n \/ q = r BY <2>1, <1>11, <1>12
  <2>2. CASE q # n /\ q # r
    <3>1. L.next[q] # p /\ L.prev[q] # p
      BY <1>13, <2>2 DEF WellLinked, n, r
    <3>2. L.next[q] # n /\ L.prev[q] # r
      BY <1>4, <1>13, <2>2 DEF WellLinked
    <3> QED BY <3>1, <3>2, <2>2, <1>10, <1>13 DEF WellLinked
  <2> QED BY <2>1, <2>2
<1>14. ASSUME NEW q \in Page, M.list[q] # NULL, WellLinked(M, q)
       PROVE  q # p /\ L.list[q] # NULL /\ WellLinked(L, q)
  <2>1. q # p /\ L.list[q] # NULL BY <1>10, <1>14
  <2>2. CASE q = n \/ q = r BY <2>1, <2>2, <1>6
  <2>3. CASE q # n /\ q # r
    <3>1. M.next[q] = L.next[q] /\ M.prev[q] = L.prev[q] BY <2>3, <1>10
    <3>2. L.next[q] # p /\ L.prev[q] # p
      BY <3>1, <1>10, <1>14 DEF WellLinked
    <3>3. L.next[q] # n /\ L.prev[q] # r
      BY <3>1, <2>3, <1>10, <1>14 DEF WellLinked
    <3> QED BY <2>1, <3>1, <3>2, <3>3, <1>10, <1>14 DEF WellLinked
  <2> QED BY <2>1, <2>2, <2>3
<1>15. HeadsListed(M)
  <2> SUFFICES ASSUME NEW k \in ListId, M.head[k] # NULL
               PROVE  M.list[M.head[k]] = k /\ WellLinked(M, M.head[k])
    BY DEF HeadsListed
  <2>1. CASE k = l /\ L.head[l] = p BY <2>1, <1>4, <1>5, <1>10, <1>11
  <2>2. CASE ~ (k = l /\ L.head[l] = p)
    <3>1. M.head[k] = L.head[k] /\ L.head[k] \in Page
      BY <2>2, <1>1, <1>10 DEF Links
    <3>2. L.list[L.head[k]] = k /\ WellLinked(L, L.head[k])
      BY <3>1, NullDistinct DEF ListsOK, HeadsListed
    <3>3. L.head[k] # p BY <2>2, <3>2 DEF l
    <3> QED BY <3>1, <3>2, <3>3, <1>10, <1>13
  <2> QED BY <2>1, <2>2
<1>16. RingOrStale(M)
  <2> SUFFICES ASSUME NEW q \in Page, M.list[q] # NULL
               PROVE  WellLinked(M, q) \/ M.next[q] = M.prev[q]
    BY DEF RingOrStale
  <2>1. q # p /\ L.list[q] # NULL BY <1>10
  <2>2. CASE q = n \/ q = r BY <2>2, <1>11, <1>12
  <2>3. CASE q # n /\ q # r
    BY <2>1, <2>3, <1>10, <1>13 DEF ListsOK, RingOrStale
  <2> QED BY <2>2, <2>3
<1>17. RingsClosed(M)
  <2> SUFFICES ASSUME NEW q \in Page, M.list[q] # NULL, WellLinked(M, q)
               PROVE  WellLinked(M, M.next[q]) /\ WellLinked(M, M.prev[q])
    BY DEF RingsClosed
  <2>1. q # p /\ L.list[q] # NULL /\ WellLinked(L, q) BY <1>14
  <2>2. WellLinked(L, L.next[q]) /\ WellLinked(L, L.prev[q])
    BY <2>1 DEF ListsOK, RingsClosed
  <2>3. M.next[q] \in Page /\ M.prev[q] \in Page /\ M.next[q] # p /\ M.prev[q] # p
    BY <1>10 DEF WellLinked
  <2>4. WellLinked(M, M.next[q])
    <3>1. CASE q = r BY <3>1, <1>10, <1>11
    <3>2. CASE q # r BY <3>2, <2>2, <2>3, <1>10, <1>13
    <3> QED BY <3>1, <3>2
  <2>5. WellLinked(M, M.prev[q])
    <3>1. CASE q = n BY <3>1, <1>10, <1>12
    <3>2. CASE q # n BY <3>2, <2>2, <2>3, <1>10, <1>13
    <3> QED BY <3>1, <3>2
  <2> QED BY <2>4, <2>5
<1>18. LruSingle(M)
  <2> SUFFICES ASSUME NEW q \in Page, M.list[q] = LRU
               PROVE  M.next[q] = q /\ M.prev[q] = q
    BY DEF LruSingle
  <2>1. q # p BY <1>10, NullDistinct
  <2>2. L.list[q] = LRU BY <2>1, <1>10
  <2>3. q # n /\ q # r BY <2>2, <1>4, <1>7
  <2> QED BY <2>2, <2>3, <1>10 DEF ListsOK, LruSingle
<1> QED BY <1>9, <1>15, <1>16, <1>17, <1>18 DEF ListsOK, M

LEMMA DeleteOK ==
  ASSUME NEW L, ListsOK(L), NEW p \in Page, L.list[p] # NULL
  PROVE  ListsOK(delete_from_list(L, p))
BY DeleteLastOK, DeleteInnerOK

(* munmap of a page that was lru_page and no longer is. *)
LEMMA ForgetOK ==
  ASSUME NEW L, ListsOK(L), NEW p \in Page, L.list[p] = LRU, L.head[LRU] # p
  PROVE  ListsOK(forget(L, p))
<1> DEFINE M == forget(L, p)
<1>1. L \in Links BY DEF ListsOK
<1>2. M \in Links BY <1>1 DEF forget, Links
<1>3. /\ M.head = L.head
      /\ M.list = [L.list EXCEPT ![p] = NULL]
      /\ M.next = [L.next EXCEPT ![p] = NULL]
      /\ M.prev = [L.prev EXCEPT ![p] = NULL]
  BY <1>1 DEF forget, Links
<1> HIDE DEF M
<1>4. /\ M.list[p] = NULL /\ M.next[p] = NULL /\ M.prev[p] = NULL
      /\ \A q \in Page : q # p => /\ M.list[q] = L.list[q]
                                  /\ M.next[q] = L.next[q]
                                  /\ M.prev[q] = L.prev[q]
  BY <1>1, <1>3 DEF Links
<1>5. L.next[p] = p /\ L.prev[p] = p BY DEF ListsOK, LruSingle
<1>6. ASSUME NEW q \in Page, q # p, WellLinked(L, q)
      PROVE  WellLinked(M, q)
  <2>1. L.next[q] # p /\ L.prev[q] # p BY <1>5, <1>6 DEF WellLinked
  <2> QED BY <2>1, <1>4, <1>6 DEF WellLinked
<1>7. ASSUME NEW q \in Page, M.list[q] # NULL, WellLinked(M, q)
      PROVE  q # p /\ WellLinked(L, q)
  BY <1>4, <1>7 DEF WellLinked
<1>8. HeadsListed(M)
  <2> SUFFICES ASSUME NEW k \in ListId, M.head[k] # NULL
               PROVE  M.list[M.head[k]] = k /\ WellLinked(M, M.head[k])
    BY DEF HeadsListed
  <2>1. M.head[k] = L.head[k] /\ L.head[k] \in Page BY <1>1, <1>3 DEF Links
  <2>2. L.list[L.head[k]] = k /\ WellLinked(L, L.head[k])
    BY <2>1, NullDistinct DEF ListsOK, HeadsListed
  <2>3. L.head[k] # p BY <2>2
  <2> QED BY <2>1, <2>2, <2>3, <1>4, <1>6
<1>9. RingOrStale(M)
  BY <1>4, <1>6 DEF ListsOK, RingOrStale
<1>10. RingsClosed(M)
  <2> SUFFICES ASSUME NEW q \in Page, M.list[q] # NULL, WellLinked(M, q)
               PROVE  WellLinked(M, M.next[q]) /\ WellLinked(M, M.prev[q])
    BY DEF RingsClosed
  <2>1. q # p /\ WellLinked(L, q) BY <1>7
  <2>2. WellLinked(L, L.next[q]) /\ WellLinked(L, L.prev[q])
    BY <2>1, <1>4 DEF ListsOK, RingsClosed
  <2>3. M.next[q] # p /\ M.prev[q] # p BY <1>4 DEF WellLinked
  <2>4. L.next[q] \in Page /\ L.prev[q] \in Page BY <2>1 DEF WellLinked
  <2> QED BY <2>1, <2>2, <2>3, <2>4, <1>4, <1>6
<1>11. LruSingle(M)
  BY <1>4, NullDistinct DEF ListsOK, LruSingle
<1> QED BY <1>2, <1>8, <1>9, <1>10, <1>11 DEF ListsOK, M

(* The whole of unhand_page: the page p becomes lru_page, *)
LEMMA SetLruOK ==
  ASSUME NEW L, ListsOK(L), NEW p \in Page, L.list[p] = NULL
  PROVE  ListsOK(set_lru(L, p))
<1>1. set_lru(L, p) = Alone(L, LRU, p) BY DEF set_lru, Alone
<1> QED BY <1>1, AloneOK, NullDistinct

(* and the page that was lru_page before moves to list l.  That is as if   *)
(* it had first been deleted from the LRU list.                            *)
LEMMA MoveLruOK ==
  ASSUME NEW L, ListsOK(L), NEW l \in ListId \ {LRU}, NEW p \in Page, L.list[p] = NULL,
         NEW q \in Page, L.head[LRU] = q
  PROVE  ListsOK(set_lru(add_to_list(L, l, q), p))
<1> DEFINE K == delete_from_list(L, q)
<1>1. L \in Links BY DEF ListsOK
<1>2. L.list[q] = LRU BY NullDistinct DEF ListsOK, HeadsListed
<1>3. L.next[q] = q /\ L.prev[q] = q BY <1>2 DEF ListsOK, LruSingle
<1>4. K = [L EXCEPT !.head[LRU] = NULL, !.list[q] = NULL]
  BY <1>2, <1>3 DEF delete_from_list
<1>5. /\ K.head = [L.head EXCEPT ![LRU] = NULL]
      /\ K.list = [L.list EXCEPT ![q] = NULL]
      /\ K.next = L.next
      /\ K.prev = L.prev
      /\ K.list[q] = NULL
      /\ K.list[p] = NULL
  BY <1>1, <1>4 DEF Links
<1>6. ListsOK(K) BY <1>2, NullDistinct, DeleteOK
<1>7. ListsOK(add_to_list(K, l, q)) BY <1>5, <1>6, AddOK
<1>8. p # q BY <1>2, NullDistinct
<1>9. add_to_list(K, l, q).list[p] = NULL
  BY <1>1, <1>5, <1>8 DEF add_to_list, Links
<1>10. ListsOK(set_lru(add_to_list(K, l, q), p)) BY <1>7, <1>9, SetLruOK
<1>11. set_lru(add_to_list(K, l, q), p) = set_lru(add_to_list(L, l, q), p)
  <2>1. K.head[l] = L.head[l] BY <1>1, <1>5 DEF Links
  <2>2. [K.list EXCEPT ![q] = l] = [L.list EXCEPT ![q] = l] BY <1>1, <1>5 DEF Links
  <2>3. CASE L.head[l] = NULL
    <3>1. /\ add_to_list(K, l, q).list = add_to_list(L, l, q).list
          /\ add_to_list(K, l, q).next = add_to_list(L, l, q).next
          /\ add_to_list(K, l, q).prev = add_to_list(L, l, q).prev
      BY <2>1, <2>2, <2>3, <1>5 DEF add_to_list
    <3>2. [add_to_list(K, l, q).head EXCEPT ![LRU] = p]
            = [add_to_list(L, l, q).head EXCEPT ![LRU] = p]
      BY <2>1, <2>3, <1>1, <1>5 DEF add_to_list, Links
    <3> QED BY <3>1, <3>2 DEF set_lru
  <2>4. CASE L.head[l] # NULL
    <3>1. /\ add_to_list(K, l, q).list = add_to_list(L, l, q).list
          /\ add_to_list(K, l, q).next = add_to_list(L, l, q).next
          /\ add_to_list(K, l, q).prev = add_to_list(L, l, q).prev
      BY <2>1, <2>2, <2>4, <1>5 DEF add_to_list
    <3>2. [add_to_list(K, l, q).head EXCEPT ![LRU] = p]
            = [add_to_list(L, l, q).head EXCEPT ![LRU] = p]
      BY <2>1, <2>4, <1>1, <1>5 DEF add_to_list, Links
    <3> QED BY <3>1, <3>2 DEF set_lru
  <2> QED BY <2>3, <2>4
<1> QED BY <1>10, <1>11
=============================================================================
