-------------------------- MODULE WordBitmapProofs --------------------------
(***************************************************************************)
(* The scans and updates of a page's bitmap are exact for every width of a *)
(* word, every number of words and every header.                           *)
(*                                                                         *)
(* Units are compared by their word and their bit (UnitOrder): with that,  *)
(* no product is left in what follows.  A mask, and a count, is described  *)
(* by the units it covers (MasksExact, Counted), and a turn of a search by *)
(* the runs it passes (NoLongerRun).                                       *)
(***************************************************************************)
EXTENDS WordBitmap, WellFoundedInduction, TLAPS

-----------------------------------------------------------------------------
(* Words and units. *)

LEMMA Layout ==
  /\ WORD_WIDTH \in Nat /\ WORD_WIDTH >= 1 /\ WORD_WIDTH \in Nat \ {0}
  /\ NumWords \in Nat /\ NumWords >= 1
  /\ units_per_page \in Nat /\ units_per_page = unit_at(NumWords, 0)
  /\ bm_page_header_size_in_units \in Nat /\ bm_page_header_size_in_units >= 1
  /\ bm_page_header_size_in_units + 1 < units_per_page
  /\ UINT_MAX \in Nat /\ units_per_page <= UINT_MAX
<1>1. WORD_WIDTH * NumWords \in Nat /\ WORD_WIDTH * NumWords + 0 = WORD_WIDTH * NumWords
  BY WordsAssumption
<1> QED BY <1>1, WordsAssumption DEF units_per_page, unit_at

LEMMA Distributes ==
  ASSUME NEW p \in Int, NEW a \in Int, NEW b \in Int
  PROVE  p * (a - b) = p * a - p * b /\ p * (a + b) = p * a + p * b
BY Z3

LEMMA ProductMonotone ==
  ASSUME NEW p \in Nat, NEW a \in Int, NEW b \in Int, a <= b
  PROVE  p * a <= p * b
BY Z3

(* Every unit is a bit of a word. *)
LEMMA UnitSplits ==
  ASSUME NEW u \in Nat
  PROVE  /\ u \div WORD_WIDTH \in Nat /\ u % WORD_WIDTH \in Bits
         /\ u = unit_at(u \div WORD_WIDTH, u % WORD_WIDTH)
<1> DEFINE p == WORD_WIDTH
<1>1. p \in Nat \ {0} BY Layout
<1> HIDE DEF p
<1>2. /\ u \div p \in Nat /\ u % p \in 0 .. p - 1
      /\ u = p * (u \div p) + (u % p)
  BY <1>1, Z3
<1> QED BY <1>2 DEF p, Bits, unit_at

LEMMA UnitIs ==
  ASSUME NEW i \in Nat, NEW b \in Nat
  PROVE  /\ unit_at(i, b) \in Nat /\ unit_at(i, b) = unit_at(i, 0) + b
         /\ unit_at(i, WORD_WIDTH) = unit_at(i + 1, 0)
<1>1. WORD_WIDTH \in Nat BY Layout
<1>2. WORD_WIDTH * i \in Nat BY <1>1
<1>3. WORD_WIDTH * (i + 1) = WORD_WIDTH * i + WORD_WIDTH BY <1>1, Z3
<1> QED BY <1>1, <1>2, <1>3 DEF unit_at

(* The difference of two words' units. *)
LEMMA UnitsBetween ==
  ASSUME NEW i \in Nat, NEW j \in Nat
  PROVE  /\ (j - i) * WORD_WIDTH = unit_at(j, 0) - unit_at(i, 0)
         /\ unit_at(i + j, 0) = unit_at(i, 0) + WORD_WIDTH * j
<1>1. WORD_WIDTH \in Nat BY Layout
<1>2. WORD_WIDTH * i \in Nat /\ WORD_WIDTH * j \in Nat BY <1>1
<1>3. (j - i) * WORD_WIDTH = WORD_WIDTH * (j - i) BY <1>1, Z3
<1>4. WORD_WIDTH * (j - i) = WORD_WIDTH * j - WORD_WIDTH * i
      /\ WORD_WIDTH * (i + j) = WORD_WIDTH * i + WORD_WIDTH * j
  BY <1>1, Distributes
<1> QED BY <1>2, <1>3, <1>4 DEF unit_at

(* Units are in the order of their words, and in a word of their bits.     *)
LEMMA UnitOrder ==
  ASSUME NEW i \in Nat, NEW j \in Nat, NEW b \in Bits, NEW r \in 0 .. WORD_WIDTH
  PROVE  unit_at(i, b) < unit_at(j, r) <=> (i < j \/ (i = j /\ b < r))
<1>1. /\ WORD_WIDTH \in Nat /\ b \in Nat /\ b < WORD_WIDTH
      /\ r \in Nat /\ r <= WORD_WIDTH
  BY Layout DEF Bits
<1>2. /\ unit_at(i, 0) \in Nat /\ unit_at(j, 0) \in Nat
      /\ unit_at(i, b) = unit_at(i, 0) + b /\ unit_at(j, r) = unit_at(j, 0) + r
  BY <1>1, UnitIs
<1>3. CASE i < j
  <2>1. unit_at(i + 1, 0) <= unit_at(j, 0)
    <3>1. i + 1 <= j /\ i + 1 \in Int BY <1>3
    <3>2. WORD_WIDTH * (i + 1) <= WORD_WIDTH * j BY <1>1, <3>1, ProductMonotone
    <3>3. WORD_WIDTH * (i + 1) \in Nat /\ WORD_WIDTH * j \in Nat BY <1>1
    <3> QED BY <3>2, <3>3 DEF unit_at
  <2>2. unit_at(i + 1, 0) = unit_at(i, 0) + WORD_WIDTH BY <1>1, UnitIs
  <2> QED BY <1>1, <1>2, <1>3, <2>1, <2>2
<1>4. CASE i = j BY <1>1, <1>2, <1>4
<1>5. CASE j < i
  <2>1. unit_at(j + 1, 0) <= unit_at(i, 0)
    <3>1. j + 1 <= i /\ j + 1 \in Int BY <1>5
    <3>2. WORD_WIDTH * (j + 1) <= WORD_WIDTH * i BY <1>1, <3>1, ProductMonotone
    <3>3. WORD_WIDTH * (j + 1) \in Nat /\ WORD_WIDTH * i \in Nat BY <1>1
    <3> QED BY <3>2, <3>3 DEF unit_at
  <2>2. unit_at(j + 1, 0) = unit_at(j, 0) + WORD_WIDTH BY <1>1, UnitIs
  <2> QED BY <1>1, <1>2, <1>5, <2>1, <2>2
<1> QED BY <1>3, <1>4, <1>5

(* A page's units are its words' bits. *)
LEMMA UnitOfPage ==
  ASSUME NEW i \in Nat, NEW b \in Bits
  PROVE  unit_at(i, b) \in Ref!Unit <=> i \in Words
<1>1. unit_at(i, b) \in Nat
  <2>1. b \in Nat BY DEF Bits
  <2> QED BY <2>1, UnitIs
<1>2. unit_at(i, b) < unit_at(NumWords, 0) <=> i < NumWords
  <2>1. b \in Nat /\ ~(b < 0) BY DEF Bits
  <2>2. 0 \in 0 .. WORD_WIDTH /\ NumWords \in Nat BY Layout
  <2> DEFINE z == 0
  <2>3. z \in 0 .. WORD_WIDTH /\ ~(b < z) BY <2>1, <2>2
  <2>4. unit_at(i, b) < unit_at(NumWords, z) <=> i < NumWords
    <3> HIDE DEF z
    <3> QED BY <2>2, <2>3, UnitOrder
  <2> QED BY <2>4
<1> QED BY <1>1, <1>2, Layout DEF Ref!Unit, Words
-----------------------------------------------------------------------------
(* The masks of a run, from unit o to unit e. *)

(* Word i's mask in ms has the bits of the units from o to e. *)
MaskExact(ms, o, e, i) ==
  mask_of(ms, i) = {b \in Bits : o <= unit_at(i, b) /\ unit_at(i, b) < e}

(* No mask is for a word behind unit e. *)
MasksBefore(ms, e) ==
  \A m \in ms : m[1] \in Nat /\ unit_at(m[1], 0) < e

LEMMA MaskOf ==
  ASSUME NEW ms, NEW i
  PROVE  \A b : b \in mask_of(ms, i) <=> \E m \in ms : m[1] = i /\ b \in m[2]
BY DEF mask_of

LEMMA WholeWords ==
  ASSUME NEW i \in Nat, NEW length \in Nat
  PROVE  LET ms == whole_words(i, length)
             o  == unit_at(i, 0)
         IN  /\ \A j \in Nat : MaskExact(ms, o, o + length, j)
             /\ MasksBefore(ms, o + length)
<1> DEFINE ms == whole_words(i, length)
           o == unit_at(i, 0)
           q == length \div WORD_WIDTH
           r == length % WORD_WIDTH
           last == i + q
<1>1. /\ q \in Nat /\ r \in Bits /\ length = unit_at(q, r)
      /\ WORD_WIDTH \in Nat /\ WORD_WIDTH >= 1
  BY UnitSplits, Layout
<1>2. ms = {<<j, Bits>> : j \in i .. (last - 1)}
             \cup (IF r = 0 THEN {} ELSE {<<last, low_bits(r)>>})
  BY DEF whole_words
<1> HIDE DEF ms, q, r
<1>3. last \in Nat /\ r \in Nat /\ r \in 0 .. WORD_WIDTH /\ r < WORD_WIDTH
  BY <1>1 DEF Bits
<1>4. o + length = unit_at(last, r) /\ o \in Nat
  <2>1. unit_at(q, r) = WORD_WIDTH * q + r BY DEF unit_at
  <2>2. unit_at(last, 0) = o + WORD_WIDTH * q BY <1>1, UnitsBetween
  <2>3. unit_at(last, r) = unit_at(last, 0) + r BY <1>3, UnitIs
  <2>4. o \in Nat BY UnitIs
  <2>5. WORD_WIDTH * q \in Nat BY <1>1
  <2> HIDE DEF o
  <2> QED BY <1>1, <1>3, <2>1, <2>2, <2>3, <2>4, <2>5
<1>5. ASSUME NEW j \in Nat, NEW b \in Bits
      PROVE  /\ o <= unit_at(j, b) <=> i <= j
             /\ unit_at(j, b) < o + length <=> j < last \/ (j = last /\ b < r)
  <2>1. unit_at(j, b) < unit_at(last, r) <=> j < last \/ (j = last /\ b < r)
    BY <1>3, UnitOrder
  <2> DEFINE z == 0
  <2>2. z \in 0 .. WORD_WIDTH /\ ~(b < z) /\ b \in Nat BY <1>1 DEF Bits
  <2>3. unit_at(j, b) < unit_at(i, z) <=> j < i
    <3> HIDE DEF z
    <3> QED BY <2>2, UnitOrder
  <2>4. unit_at(j, b) \in Nat BY <2>2, UnitIs
  <2> HIDE DEF last
  <2> QED BY <1>4, <2>1, <2>3, <2>4
<1> HIDE DEF o
<1>6. ASSUME NEW j \in Nat PROVE MaskExact(ms, o, o + length, j)
  <2>1. ASSUME NEW b
        PROVE  b \in mask_of(ms, j) <=>
                 b \in Bits /\ i <= j /\ (j < last \/ (j = last /\ b < r))
    <3>1. b \in mask_of(ms, j) <=> \E m \in ms : m[1] = j /\ b \in m[2] BY MaskOf
    <3>2. CASE b \in mask_of(ms, j)
      <4>1. PICK m \in ms : m[1] = j /\ b \in m[2] BY <3>1, <3>2
      <4>2. CASE \E l \in i .. (last - 1) : m = <<l, Bits>>
        BY <1>3, <3>2, <4>1, <4>2
      <4>3. CASE r # 0 /\ m = <<last, low_bits(r)>>
        BY <1>1, <1>3, <3>2, <4>1, <4>3 DEF low_bits
      <4> QED BY <1>2, <4>1, <4>2, <4>3
    <3>3. ASSUME b \in Bits, i <= j, j < last PROVE b \in mask_of(ms, j)
      <4>1. j \in i .. (last - 1) BY <1>3, <3>3
      <4>2. <<j, Bits>> \in ms BY <1>2, <4>1
      <4> QED BY <3>1, <3>3, <4>2
    <3>4. ASSUME b \in Bits, j = last, b < r PROVE b \in mask_of(ms, j)
      <4>1. r # 0 BY <1>3, <3>4 DEF Bits
      <4>2. <<last, low_bits(r)>> \in ms BY <1>2, <4>1
      <4>3. b \in low_bits(r) BY <3>4 DEF low_bits
      <4> QED BY <3>1, <3>4, <4>2, <4>3
    <3> QED BY <3>2, <3>3, <3>4
  <2> QED BY <1>5, <2>1 DEF MaskExact
<1>7. MasksBefore(ms, o + length)
  <2> SUFFICES ASSUME NEW m \in ms
               PROVE  m[1] \in Nat /\ unit_at(m[1], 0) < o + length
    BY DEF MasksBefore
  <2>1. 0 \in Bits /\ 0 \in Nat BY <1>1 DEF Bits
  <2>2. CASE \E l \in i .. (last - 1) : m = <<l, Bits>>
    <3>1. PICK l \in i .. (last - 1) : m = <<l, Bits>> BY <2>2
    <3>2. l \in Nat /\ l < last BY <1>3, <3>1
    <3>3. unit_at(l, 0) < o + length BY <1>5, <2>1, <3>2
    <3> QED BY <3>1, <3>2, <3>3
  <2>3. CASE r # 0 /\ m = <<last, low_bits(r)>>
    <3>1. 0 < r BY <1>3, <2>3
    <3>2. unit_at(last, 0) < o + length BY <1>3, <1>5, <2>1, <3>1
    <3> QED BY <1>3, <2>3, <3>2
  <2> QED BY <1>2, <2>2, <2>3
<1> QED BY <1>6, <1>7 DEF o, ms

(* The part of a word from bit r on. *)
LEMMA Shifted ==
  ASSUME NEW w \in SUBSET Bits, NEW r \in Bits
  PROVE  \A b \in Bits : b \in shift_left(w, r) <=> b >= r /\ b - r \in w
<1>1. WORD_WIDTH \in Nat BY Layout
<1>2. \A b \in Bits : b \in Nat /\ b < WORD_WIDTH BY <1>1 DEF Bits
<1> SUFFICES ASSUME NEW b \in Bits
             PROVE  b \in shift_left(w, r) <=> b >= r /\ b - r \in w
  OBVIOUS
<1>3. CASE b \in shift_left(w, r)
  <2>1. PICK c \in w : c + r < WORD_WIDTH /\ b = c + r BY <1>3 DEF shift_left
  <2>2. c \in Nat /\ r \in Nat BY <1>2
  <2>3. b - r = c /\ b >= r BY <2>1, <2>2
  <2> QED BY <1>3, <2>3
<1>4. CASE b >= r /\ b - r \in w
  <2>1. (b - r) + r = b BY <1>2
  <2>2. (b - r) + r < WORD_WIDTH BY <1>2, <2>1
  <2> QED BY <1>4, <2>1, <2>2 DEF shift_left
<1> QED BY <1>3, <1>4

LEMMA ShiftedType ==
  ASSUME NEW w \in SUBSET Bits, NEW r \in Bits
  PROVE  shift_left(w, r) \subseteq Bits
<1>1. WORD_WIDTH \in Nat BY Layout
<1>2. \A b \in Bits : b \in Nat BY DEF Bits
<1> QED BY <1>1, <1>2 DEF shift_left, Bits

(* One more mask. *)
LEMMA MaskAndMore ==
  ASSUME NEW ms, NEW i, NEW w, NEW j, NEW b
  PROVE  b \in mask_of({<<i, w>>} \cup ms, j) <=> (j = i /\ b \in w) \/ b \in mask_of(ms, j)
<1> DEFINE p == <<i, w>>
           more == {p} \cup ms
<1>1. p[1] = i /\ p[2] = w OBVIOUS
<1>2. b \in mask_of(more, j) <=> \E m \in more : m[1] = j /\ b \in m[2]
  <2> HIDE DEF p, more
  <2> QED BY MaskOf
<1>3. b \in mask_of(ms, j) <=> \E m \in ms : m[1] = j /\ b \in m[2] BY MaskOf
<1>4. \A m : m \in more <=> m = p \/ m \in ms OBVIOUS
<1> HIDE DEF p, more
<1>5. b \in mask_of(more, j) <=> (j = i /\ b \in w) \/ b \in mask_of(ms, j)
  BY <1>1, <1>2, <1>3, <1>4, Zenon
<1> QED BY <1>5 DEF more, p

LEMMA OneMask ==
  ASSUME NEW i, NEW w, NEW j, NEW b
  PROVE  b \in mask_of({<<i, w>>}, j) <=> j = i /\ b \in w
<1> DEFINE p == <<i, w>>
           one == {p}
<1>1. p[1] = i /\ p[2] = w OBVIOUS
<1>2. b \in mask_of(one, j) <=> \E m \in one : m[1] = j /\ b \in m[2]
  <2> HIDE DEF p, one
  <2> QED BY MaskOf
<1>3. \A m : m \in one <=> m = p OBVIOUS
<1> HIDE DEF p, one
<1>4. b \in mask_of(one, j) <=> p[1] = j /\ b \in p[2] BY <1>2, <1>3, Zenon
<1>5. b \in mask_of(one, j) <=> j = i /\ b \in w BY <1>1, <1>4
<1> QED BY <1>5 DEF one, p

(* The masks of set_bits and clear_bits are those of the run's units. *)
LEMMA MasksExact ==
  ASSUME NEW o \in Nat, NEW k \in Nat \ {0}
  PROVE  /\ \A j \in Nat : MaskExact(masks(o, k), o, o + k, j)
         /\ MasksBefore(masks(o, k), o + k)
<1> DEFINE i == o \div WORD_WIDTH
           r == o % WORD_WIDTH
           d == WORD_WIDTH - r
           ms == masks(o, k)
<1>1. /\ i \in Nat /\ r \in Bits /\ r \in Nat /\ r < WORD_WIDTH /\ o = unit_at(i, r)
      /\ WORD_WIDTH \in Nat
  BY UnitSplits, Layout DEF Bits
<1>2. ms = IF r = 0 THEN whole_words(i, k)
           ELSE IF k <= d THEN {<<i, shift_left(low_bits(k), r)>>}
           ELSE {<<i, shift_left(Bits, r)>>} \cup whole_words(i + 1, k - d)
  BY DEF masks
<1> HIDE DEF i, r, ms
<1>3. CASE r = 0
  <2>1. ms = whole_words(i, k) /\ o = unit_at(i, 0) /\ k \in Nat BY <1>1, <1>2, <1>3
  <2> QED BY <1>1, <2>1, WholeWords DEF ms
<1>4. ASSUME NEW j \in Nat, NEW b \in Bits
      PROVE  /\ o <= unit_at(j, b) <=> i < j \/ (i = j /\ r <= b)
             /\ unit_at(j, b) \in Nat
  <2>1. b \in Nat /\ r \in 0 .. WORD_WIDTH BY <1>1 DEF Bits
  <2>2. unit_at(j, b) < unit_at(i, r) <=> j < i \/ (j = i /\ b < r)
    BY <1>1, <2>1, UnitOrder
  <2>3. unit_at(j, b) \in Nat BY <2>1, UnitIs
  <2> QED BY <1>1, <2>1, <2>2, <2>3
<1>5. CASE r # 0 /\ k <= d
  <2> DEFINE w == shift_left(low_bits(k), r)
             e == r + k
  <2>1. ms = {<<i, w>>} BY <1>2, <1>5
  <2>2. e \in 0 .. WORD_WIDTH /\ e \in Nat /\ r < e BY <1>1, <1>5
  <2>3. o + k = unit_at(i, e)
    <3>1. unit_at(i, r) = unit_at(i, 0) + r /\ unit_at(i, e) = unit_at(i, 0) + e
          /\ unit_at(i, 0) \in Nat
      BY <1>1, <2>2, UnitIs
    <3> QED BY <1>1, <3>1
  <2>4. \A b \in Bits : b \in w <=> r <= b /\ b < e
    <3> SUFFICES ASSUME NEW b \in Bits PROVE b \in w <=> r <= b /\ b < e
      OBVIOUS
    <3>1. low_bits(k) \in SUBSET Bits BY DEF low_bits
    <3>2. b \in w <=> b >= r /\ b - r \in low_bits(k) BY <1>1, <3>1, Shifted
    <3>3. b \in Nat /\ b < WORD_WIDTH BY <1>1 DEF Bits
    <3>4. b >= r => (b - r \in low_bits(k) <=> b - r < k)
      BY <1>1, <3>3 DEF low_bits, Bits
    <3>5. b - r < k <=> b < e BY <1>1, <3>3
    <3> HIDE DEF w, e
    <3> QED BY <1>1, <3>2, <3>3, <3>4, <3>5
  <2>5. w \subseteq Bits
    <3>1. low_bits(k) \in SUBSET Bits BY DEF low_bits
    <3> QED BY <1>1, <3>1, ShiftedType
  <2> HIDE DEF w, e
  <2>6. ASSUME NEW j \in Nat PROVE MaskExact(ms, o, o + k, j)
    <3>1. ASSUME NEW b PROVE b \in mask_of(ms, j) <=> j = i /\ b \in w
      BY <2>1, OneMask
    <3>2. ASSUME NEW b \in Bits
          PROVE  b \in mask_of(ms, j) <=> o <= unit_at(j, b) /\ unit_at(j, b) < o + k
      <4>1. unit_at(j, b) < o + k <=> j < i \/ (j = i /\ b < e)
        BY <1>1, <2>2, <2>3, UnitOrder
      <4>2. b \in Nat BY DEF Bits
      <4>3. b \in mask_of(ms, j) <=> j = i /\ r <= b /\ b < e BY <2>4, <3>1
      <4> QED BY <1>1, <1>4, <4>1, <4>3
    <3>3. mask_of(ms, j) \subseteq Bits BY <2>5, <3>1
    <3> QED BY <3>2, <3>3 DEF MaskExact
  <2>7. MasksBefore(ms, o + k)
    <3>1. unit_at(i, 0) < o + k
      <4>1. unit_at(i, r) = unit_at(i, 0) + r /\ unit_at(i, 0) \in Nat BY <1>1, UnitIs
      <4> QED BY <1>1, <4>1
    <3> QED BY <1>1, <2>1, <3>1 DEF MasksBefore
  <2> QED BY <2>6, <2>7 DEF ms
<1>6. CASE r # 0 /\ ~(k <= d)
  <2> DEFINE w == shift_left(Bits, r)
             ww == whole_words(i + 1, k - d)
  <2>1. ms = {<<i, w>>} \cup ww BY <1>2, <1>6
  <2>2. i + 1 \in Nat /\ k - d \in Nat /\ k \in Nat /\ d \in Nat BY <1>1, <1>6
  <2>3. unit_at(i + 1, 0) = o + d /\ unit_at(i + 1, 0) + (k - d) = o + k
        /\ unit_at(i, 0) < o + k
    <3>1. /\ unit_at(i, r) = unit_at(i, 0) + r
          /\ unit_at(i, WORD_WIDTH) = unit_at(i, 0) + WORD_WIDTH
          /\ unit_at(i, 0) \in Nat /\ unit_at(i, WORD_WIDTH) = unit_at(i + 1, 0)
      BY <1>1, UnitIs
    <3> QED BY <1>1, <2>2, <3>1
  <2>4. /\ \A j \in Nat : MaskExact(ww, unit_at(i + 1, 0), o + k, j)
        /\ MasksBefore(ww, o + k)
    <3> DEFINE u == i + 1
               l == k - d
    <3>1. u \in Nat /\ l \in Nat BY <2>2
    <3>2. ww = whole_words(u, l) /\ unit_at(u, 0) + l = o + k BY <2>3
    <3> HIDE DEF u, l, ww
    <3>3. /\ \A j \in Nat : MaskExact(ww, unit_at(u, 0), o + k, j)
          /\ MasksBefore(ww, o + k)
      BY <3>1, <3>2, WholeWords
    <3> QED BY <3>3 DEF u
  <2>5. \A b \in Bits : b \in w <=> r <= b
    <3> SUFFICES ASSUME NEW b \in Bits PROVE b \in w <=> r <= b
      OBVIOUS
    <3>1. b \in w <=> b >= r /\ b - r \in Bits BY <1>1, Shifted
    <3>2. b >= r => b - r \in Bits BY <1>1 DEF Bits
    <3>3. b \in Nat BY DEF Bits
    <3> HIDE DEF w
    <3> QED BY <1>1, <3>1, <3>2, <3>3
  <2>6. w \subseteq Bits BY <1>1, ShiftedType
  <2> HIDE DEF w, ww, d
  <2>7. ASSUME NEW j \in Nat PROVE MaskExact(ms, o, o + k, j)
    <3>1. ASSUME NEW b
          PROVE  b \in mask_of(ms, j) <=> (j = i /\ b \in w) \/ b \in mask_of(ww, j)
      BY <2>1, MaskAndMore
    <3>2. mask_of(ww, j) =
            {b \in Bits : unit_at(i + 1, 0) <= unit_at(j, b) /\ unit_at(j, b) < o + k}
      BY <2>4 DEF MaskExact
    <3>3. ASSUME NEW b \in Bits
          PROVE  b \in mask_of(ms, j) <=> o <= unit_at(j, b) /\ unit_at(j, b) < o + k
      <4>1. unit_at(i + 1, 0) <= unit_at(j, b) <=> i < j
        <5> DEFINE z == 0
                   u == i + 1
        <5>1. z \in 0 .. WORD_WIDTH /\ ~(b < z) /\ u \in Nat BY <1>1 DEF Bits
        <5>2. unit_at(j, b) < unit_at(u, z) <=> j < u
          <6> HIDE DEF z, u
          <6> QED BY <5>1, UnitOrder
        <5>3. unit_at(j, b) \in Nat /\ unit_at(u, 0) \in Nat BY <1>4, <5>1, UnitIs
        <5> QED BY <1>1, <5>2, <5>3
      <4>2. j = i => unit_at(j, b) < o + k
        <5>1. b \in Nat /\ b < WORD_WIDTH BY <1>1 DEF Bits
        <5>2. unit_at(i, b) = unit_at(i, 0) + b /\ unit_at(i, 0) \in Nat
              /\ unit_at(i, r) = unit_at(i, 0) + r
          BY <1>1, <5>1, UnitIs
        <5>3. unit_at(i, b) < o + k BY <1>1, <1>6, <2>2, <5>1, <5>2 DEF d
        <5> QED BY <5>3
      <4>3. b \in mask_of(ms, j) <=> (j = i /\ r <= b) \/ (i < j /\ unit_at(j, b) < o + k)
        BY <2>5, <3>1, <3>2, <4>1
      <4>4. o <= unit_at(j, b) <=> i < j \/ (i = j /\ r <= b) BY <1>4
      <4> QED BY <4>2, <4>3, <4>4
    <3>4. mask_of(ms, j) \subseteq Bits BY <2>6, <3>1, <3>2
    <3> QED BY <3>3, <3>4 DEF MaskExact
  <2>8. MasksBefore(ms, o + k) BY <1>1, <2>1, <2>3, <2>4 DEF MasksBefore
  <2> QED BY <2>7, <2>8 DEF ms
<1> QED BY <1>3, <1>5, <1>6

(* set_bits and clear_bits do to the words what they should do to the      *)
(* units, and touch no word behind the bitmap.                             *)
LEMMA UpdateShows ==
  ASSUME NEW bm \in [Words -> SUBSET Bits], NEW S, Shows(bm, S),
         NEW o \in Nat, NEW k \in Nat \ {0}
  PROVE  /\ set_bits(bm, o, k) \in [Words -> SUBSET Bits]
         /\ Shows(set_bits(bm, o, k), Ref!set_bits(S, o, k))
         /\ clear_bits(bm, o, k) \in [Words -> SUBSET Bits]
         /\ Shows(clear_bits(bm, o, k), Ref!clear_bits(S, o, k))
<1> DEFINE ms == masks(o, k)
           sb == set_bits(bm, o, k)
           cb == clear_bits(bm, o, k)
<1>1. \A i \in Words : i \in Nat BY DEF Words
<1>2. ASSUME NEW i \in Words
      PROVE  \A b \in Bits : b \in mask_of(ms, i) <=> unit_at(i, b) \in Ref!Run(o, k)
  <2>1. MaskExact(ms, o, o + k, i) BY <1>1, MasksExact
  <2> SUFFICES ASSUME NEW b \in Bits
               PROVE  b \in mask_of(ms, i) <=> unit_at(i, b) \in Ref!Run(o, k)
    OBVIOUS
  <2>2. b \in mask_of(ms, i) <=> o <= unit_at(i, b) /\ unit_at(i, b) < o + k
    BY <2>1 DEF MaskExact
  <2>3. unit_at(i, b) \in Nat
    <3>1. b \in Nat BY DEF Bits
    <3> QED BY <1>1, <3>1, UnitIs
  <2> QED BY <2>2, <2>3 DEF Ref!Run
<1>3. \A i \in Words : mask_of(ms, i) \subseteq Bits
  BY <1>1, MasksExact DEF MaskExact
<1>4. \A i \in Words : /\ sb[i] = bm[i] \cup mask_of(ms, i)
                       /\ cb[i] = bm[i] \ mask_of(ms, i)
  BY DEF set_bits, clear_bits
<1>5. sb \in [Words -> SUBSET Bits]
  <2>1. \A i \in Words : bm[i] \cup mask_of(ms, i) \in SUBSET Bits BY <1>3
  <2> HIDE DEF ms
  <2>2. sb = [i \in Words |-> bm[i] \cup mask_of(ms, i)] BY DEF set_bits, ms
  <2> HIDE DEF sb
  <2> QED BY <2>1, <2>2
<1>6. cb \in [Words -> SUBSET Bits]
  <2>1. \A i \in Words : bm[i] \ mask_of(ms, i) \in SUBSET Bits OBVIOUS
  <2> HIDE DEF ms
  <2>2. cb = [i \in Words |-> bm[i] \ mask_of(ms, i)] BY DEF clear_bits, ms
  <2> HIDE DEF cb
  <2> QED BY <2>1, <2>2
<1> HIDE DEF ms, sb, cb
<1>7. ASSUME NEW i \in Words
      PROVE  /\ sb[i] = {b \in Bits : unit_at(i, b) \in S \cup Ref!Run(o, k)}
             /\ cb[i] = {b \in Bits : unit_at(i, b) \in S \ Ref!Run(o, k)}
  <2>1. bm[i] = {b \in Bits : unit_at(i, b) \in S} BY DEF Shows
  <2> QED BY <1>2, <1>3, <1>4, <2>1
<1> QED BY <1>5, <1>6, <1>7 DEF Shows, sb, cb, Ref!set_bits, Ref!clear_bits

LEMMA MasksInside ==
  ASSUME NEW o \in Nat, NEW k \in Nat \ {0}, o + k <= units_per_page,
         NEW m \in masks(o, k)
  PROVE  m[1] \in Words
<1>1. m[1] \in Nat /\ unit_at(m[1], 0) < o + k BY MasksExact DEF MasksBefore
<1>2. 0 \in Bits /\ 0 \in Nat BY Layout DEF Bits
<1>3. unit_at(m[1], 0) \in Nat BY <1>1, <1>2, UnitIs
<1>4. unit_at(m[1], 0) \in Ref!Unit BY <1>1, <1>3, Layout DEF Ref!Unit
<1> QED BY <1>1, <1>2, <1>4, UnitOfPage
-----------------------------------------------------------------------------
(* Minima and maxima, and what the operators of PageBitmap return. *)

(* A non-empty set of naturals has a minimum, and Min returns it. *)
LEMMA LeastOfNat ==
  ASSUME NEW S \in SUBSET Nat, S # {}
  PROVE  Min(S) \in S /\ \A y \in S : Min(S) <= y
<1> DEFINE R == {ss \in Nat \X Nat : ss[1] < ss[2]}
<1>1. IsWellFoundedOn(R, Nat)
  BY NatLessThanWellFounded, Zenon DEF OpToRel
<1>2. PICK x \in S : \A y \in S : ~ (<<y, x>> \in R)
  <2> HIDE DEF R
  <2> QED BY <1>1, WFMin
<1>3. ASSUME NEW y \in S PROVE x <= y
  <2>1. x \in Nat /\ y \in Nat OBVIOUS
  <2>2. <<y, x>> \in R <=> y < x BY <2>1
  <2>3. ~ (y < x) BY <1>2, <2>2
  <2> QED BY <2>1, <2>3
<1> QED BY <1>3 DEF Min

(* So has a bounded one a maximum; what is proved of the minimum of the    *)
(* distances to the bound is proved of it.                                 *)
LEMMA GreatestOfBounded ==
  ASSUME NEW S \in SUBSET Nat, S # {}, NEW m \in Nat, \A y \in S : y <= m
  PROVE  Ref!Max(S) \in S /\ \A y \in S : y <= Ref!Max(S)
<1> DEFINE T == {m - y : y \in S}
<1>1. T \in SUBSET Nat /\ T # {}
  <2>1. \A y \in S : y \in Nat /\ m - y \in Nat OBVIOUS
  <2>2. T \subseteq Nat BY <2>1
  <2>3. T # {} OBVIOUS
  <2> QED BY <2>2, <2>3
<1>2. Min(T) \in T /\ \A z \in T : Min(T) <= z
  <2> HIDE DEF T
  <2> QED BY <1>1, LeastOfNat
<1>3. PICK x \in S : Min(T) = m - x BY <1>2
<1>4. ASSUME NEW y \in S PROVE y <= x
  <2>1. m - y \in T OBVIOUS
  <2>2. m - x <= m - y BY <1>2, <1>3, <2>1
  <2>3. x \in Nat /\ y \in Nat OBVIOUS
  <2> QED BY <2>2, <2>3
<1> QED BY <1>4 DEF Ref!Max

LEMMA RefMin ==
  ASSUME NEW S PROVE Ref!Min(S) = Min(S)
BY DEF Ref!Min, Min

(* c units from unit o on are not in S, and unless there are limit of them *)
(* the next is, or there is no next.                                       *)
Counted(c, S, o, limit) ==
  /\ c \in Nat /\ o + c <= units_per_page
  /\ \A u \in Nat : o <= u /\ u < o + c => u \notin S
  /\ c < limit => o + c = units_per_page \/ o + c \in S

(* count_zero_bits of PageBitmap counts without a limit. *)
LEMMA AllCounted ==
  ASSUME NEW S \in SUBSET Ref!Unit, NEW o \in Nat, o <= units_per_page
  PROVE  LET z == Ref!count_zero_bits(S, o)
         IN  /\ Counted(z, S, o, z + 1)
             /\ \A c \in Nat : o + c <= units_per_page
                  /\ (\A u \in Nat : o <= u /\ u < o + c => u \notin S) => c <= z
<1> DEFINE z == Ref!count_zero_bits(S, o)
           N == {c \in 0 .. (units_per_page - o) : Ref!Run(o, c) \cap S = {}}
<1>1. units_per_page - o \in Nat /\ units_per_page \in Nat BY Layout
<1>2. N \in SUBSET Nat /\ \A c \in N : c <= units_per_page - o BY <1>1
<1>3. 0 \in N BY <1>1 DEF Ref!Run
<1>4. Ref!Max(N) \in N /\ \A y \in N : y <= Ref!Max(N)
  <2> HIDE DEF N
  <2> QED BY <1>1, <1>2, <1>3, GreatestOfBounded
<1>5. z = Ref!Max(N) BY DEF Ref!count_zero_bits
<1> HIDE DEF z
<1>6. ASSUME NEW c \in Nat
      PROVE  (\A u \in Nat : o <= u /\ u < o + c => u \notin S) <=> Ref!Run(o, c) \cap S = {}
  BY DEF Ref!Run
<1>7. /\ z \in Nat /\ o + z <= units_per_page
      /\ \A u \in Nat : o <= u /\ u < o + z => u \notin S
  <2>1. z \in 0 .. (units_per_page - o) /\ Ref!Run(o, z) \cap S = {} BY <1>4, <1>5
  <2>2. z \in Nat /\ o + z <= units_per_page BY <1>1, <2>1
  <2> QED BY <1>6, <2>1, <2>2
<1>8. ASSUME NEW c \in Nat, o + c <= units_per_page,
             \A u \in Nat : o <= u /\ u < o + c => u \notin S
      PROVE  c <= z
  <2>1. c \in N BY <1>1, <1>6, <1>8
  <2> QED BY <1>4, <1>5, <2>1
<1>9. o + z = units_per_page \/ o + z \in S
  <2> SUFFICES ASSUME o + z # units_per_page, o + z \notin S PROVE FALSE
    OBVIOUS
  <2> DEFINE c == z + 1
  <2>1. c \in Nat /\ o + c <= units_per_page BY <1>1, <1>7
  <2>2. \A u \in Nat : o <= u /\ u < o + c => u \notin S
    <3> SUFFICES ASSUME NEW u \in Nat, o <= u, u < o + c PROVE u \notin S
      OBVIOUS
    <3>1. u < o + z \/ u = o + z BY <1>7
    <3> QED BY <1>7, <3>1
  <2>3. c <= z
    <3> HIDE DEF c
    <3> QED BY <1>8, <2>1, <2>2
  <2> QED BY <1>7, <2>3
<1> QED BY <1>7, <1>8, <1>9 DEF Counted, z

(* A count is never too long, and is exact below its limit. *)
LEMMA CountedExact ==
  ASSUME NEW S \in SUBSET Ref!Unit, NEW o \in Nat, o <= units_per_page,
         NEW c, NEW limit \in Nat, Counted(c, S, o, limit)
  PROVE  /\ c <= Ref!count_zero_bits(S, o)
         /\ c < limit => c = Ref!count_zero_bits(S, o)
<1> DEFINE z == Ref!count_zero_bits(S, o)
<1>1. /\ Counted(z, S, o, z + 1)
      /\ \A d \in Nat : o + d <= units_per_page
           /\ (\A u \in Nat : o <= u /\ u < o + d => u \notin S) => d <= z
  BY AllCounted
<1> HIDE DEF z
<1>2. c <= z BY <1>1 DEF Counted
<1>3. ASSUME c < limit PROVE z <= c
  <2> SUFFICES ASSUME ~(z <= c) PROVE FALSE
    OBVIOUS
  <2>1. c \in Nat /\ z \in Nat /\ o + z <= units_per_page BY <1>1 DEF Counted
  <2>2. o + c \in Nat /\ o <= o + c /\ o + c < o + z BY <2>1
  <2>3. o + c \notin S BY <1>1, <2>2 DEF Counted
  <2>4. o + c # units_per_page BY <2>1, <2>2, Layout
  <2> QED BY <1>3, <2>3, <2>4 DEF Counted
<1>4. c \in Nat /\ z \in Nat BY <1>1 DEF Counted
<1> QED BY <1>2, <1>3, <1>4 DEF z
-----------------------------------------------------------------------------
(* The counts of the scans. *)

(* What a word of a bitmap shows. *)
LEMMA WordShows ==
  ASSUME NEW ws \in [Words -> SUBSET Bits], NEW S, Shows(ws, S), NEW j \in Words
  PROVE  /\ ws[j] \subseteq Bits /\ ws[j] \subseteq Nat /\ j \in Nat
         /\ \A b \in Bits : b \in ws[j] <=> unit_at(j, b) \in S
<1>1. ws[j] \subseteq Bits /\ j \in Nat BY DEF Words
<1>2. Bits \subseteq Nat BY DEF Bits
<1> QED BY <1>1, <1>2 DEF Shows

(* count_words goes on with a count that reaches the word it starts at. *)
LEMMA CountWords ==
  ASSUME NEW ws \in [Words -> SUBSET Bits], NEW S, Shows(ws, S),
         NEW i \in 0 .. NumWords, NEW count \in Nat, NEW limit \in Nat,
         NEW o \in Nat, o + count = unit_at(i, 0),
         \A u \in Nat : o <= u /\ u < o + count => u \notin S
  PROVE  Counted(count_words(ws, i, count, limit), S, o, limit)
<1> DEFINE at(j) == count + (j - i) * WORD_WIDTH
           ends(j) == j = NumWords \/ at(j) >= limit \/ ws[j] # {}
           stops == {j \in i .. NumWords : ends(j)}
           last == Min(stops)
           c == count_words(ws, i, count, limit)
<1>1. /\ i \in Nat /\ i <= NumWords /\ NumWords \in Nat /\ units_per_page \in Nat
      /\ WORD_WIDTH \in Nat /\ WORD_WIDTH >= 1
      /\ units_per_page = unit_at(NumWords, 0)
  BY Layout
<1>2. ASSUME NEW j \in i .. NumWords
      PROVE  o + at(j) = unit_at(j, 0) /\ at(j) \in Nat /\ j \in Nat
  <2>1. j \in Nat /\ i <= j BY <1>1
  <2>2. (j - i) * WORD_WIDTH = unit_at(j, 0) - unit_at(i, 0) BY <1>1, <2>1, UnitsBetween
  <2>3. unit_at(j, 0) \in Nat /\ unit_at(i, 0) \in Nat BY <1>1, <2>1, UnitIs
  <2>4. j - i \in Nat BY <1>1, <2>1
  <2>5. (j - i) * WORD_WIDTH \in Nat BY <1>1, <2>4
  <2> QED BY <2>1, <2>2, <2>3, <2>5
<1>3. /\ last \in i .. NumWords /\ ends(last)
      /\ \A j \in i .. NumWords : j < last => ~ends(j)
  <2>1. stops \in SUBSET Nat BY <1>1
  <2>2. NumWords \in stops BY <1>1
  <2>3. last \in stops /\ \A y \in stops : last <= y
    <3> HIDE DEF stops
    <3> QED BY <2>1, <2>2, LeastOfNat
  <2>4. ASSUME NEW j \in i .. NumWords, j < last PROVE ~ends(j)
    <3> HIDE DEF at
    <3>1. last <= j => FALSE BY <1>1, <2>1, <2>3, <2>4
    <3> HIDE DEF last
    <3> QED BY <2>3, <3>1
  <2> HIDE DEF last, at
  <2> QED BY <2>3, <2>4
<1>4. c = IF last = NumWords \/ at(last) >= limit THEN at(last)
          ELSE at(last) + Min(ws[last])
  BY DEF count_words, count_trailing_zeros
<1> HIDE DEF last, c
<1>5. last \in Nat /\ i <= last /\ last <= NumWords BY <1>1, <1>3
<1>6. ASSUME NEW u \in Nat, o <= u, u < unit_at(last, 0)
      PROVE  u \notin S
  <2>1. CASE u < o + count BY <2>1, <1>6
  <2>2. CASE ~(u < o + count)
    <3> DEFINE j == u \div WORD_WIDTH
               b == u % WORD_WIDTH
    <3>1. j \in Nat /\ b \in Bits /\ u = unit_at(j, b) BY UnitSplits
    <3> HIDE DEF j, b
    <3> DEFINE z == 0
    <3>2. z \in 0 .. WORD_WIDTH /\ ~(b < z) BY <1>1, <3>1 DEF Bits
    <3>3. /\ unit_at(j, b) < unit_at(last, z) <=> j < last
          /\ unit_at(j, b) < unit_at(i, z) <=> j < i
      <4> HIDE DEF z, stops
      <4> QED BY <1>1, <1>5, <3>1, <3>2, UnitOrder
    <3>4. j < last BY <1>6, <3>1, <3>3
    <3>5. ~(j < i)
      <4>1. ~(unit_at(j, b) < unit_at(i, 0)) BY <2>2, <3>1
      <4> QED BY <3>3, <4>1
    <3>6. j \in i .. NumWords /\ j # NumWords /\ j \in Words
      BY <1>1, <1>5, <3>1, <3>4, <3>5 DEF Words
    <3>7. ws[j] = {} BY <1>3, <3>4, <3>6
    <3>8. b \notin ws[j] BY <3>7
    <3> QED BY <3>1, <3>6, <3>8, WordShows
  <2> QED BY <2>1, <2>2
<1>7. at(last) \in Nat /\ o + at(last) = unit_at(last, 0) BY <1>2, <1>3
<1> DEFINE a == at(last)
<1>8. unit_at(last, 0) <= units_per_page
  <2>1. WORD_WIDTH * last <= WORD_WIDTH * NumWords BY <1>1, <1>5, ProductMonotone
  <2>2. WORD_WIDTH * last \in Nat /\ WORD_WIDTH * NumWords \in Nat BY <1>1, <1>5
  <2> QED BY <1>1, <2>1, <2>2 DEF unit_at
<1>9. ASSUME last = NumWords \/ a >= limit PROVE Counted(c, S, o, limit)
  <2>1. c = a BY <1>4, <1>9
  <2>2. last = NumWords => o + a = units_per_page BY <1>1, <1>7
  <2> HIDE DEF a
  <2>3. a \in Nat /\ o + a = unit_at(last, 0) BY <1>7 DEF a
  <2>4. c < limit => last = NumWords BY <1>1, <1>9, <2>1, <2>3
  <2>5. c \in Nat /\ o + c = unit_at(last, 0) BY <2>1, <2>3
  <2>6. \A u \in Nat : o <= u /\ u < o + c => u \notin S BY <1>6, <2>5
  <2>7. c < limit => o + c = units_per_page BY <2>1, <2>2, <2>4 DEF a
  <2> QED BY <1>8, <2>5, <2>6, <2>7 DEF Counted
<1>10. ASSUME ~(last = NumWords \/ a >= limit) PROVE Counted(c, S, o, limit)
  <2> DEFINE m == Min(ws[last])
  <2>1. ws[last] # {}
    <3> HIDE DEF at
    <3> QED BY <1>3, <1>10
  <2>2. last \in Words BY <1>1, <1>5, <1>10 DEF Words
  <2>3. ws[last] \subseteq Nat /\ ws[last] \subseteq Bits BY <2>2, WordShows
  <2>4. m \in ws[last] /\ \A b \in ws[last] : m <= b BY <2>1, <2>3, LeastOfNat
  <2>5. c = a + m BY <1>4, <1>10
  <2> HIDE DEF m, a
  <2>6. a \in Nat /\ o + a = unit_at(last, 0) BY <1>7 DEF a
  <2>7. m \in Nat /\ m \in Bits /\ unit_at(last, m) \in S /\ m < WORD_WIDTH
    <3>1. m \in Nat /\ m \in Bits BY <2>3, <2>4
    <3>2. unit_at(last, m) \in S BY <2>2, <2>4, <3>1, WordShows
    <3> QED BY <1>1, <3>1, <3>2 DEF Bits
  <2>8. unit_at(last, m) = unit_at(last, 0) + m /\ unit_at(last, 0) \in Nat
    BY <1>5, <2>7, UnitIs
  <2>9. o + c = unit_at(last, m) /\ c \in Nat BY <2>5, <2>6, <2>7, <2>8
  <2>10. o + c <= units_per_page
    <3>1. unit_at(last, m) \in Ref!Unit BY <1>5, <2>2, <2>7, UnitOfPage
    <3> QED BY <1>1, <2>9, <3>1 DEF Ref!Unit
  <2>11. ASSUME NEW u \in Nat, o <= u, u < o + c PROVE u \notin S
    <3>1. CASE u < unit_at(last, 0) BY <1>6, <2>11, <3>1
    <3>2. CASE ~(u < unit_at(last, 0))
      <4> DEFINE b == u - unit_at(last, 0)
      <4>1. b \in Nat /\ b < m BY <2>7, <2>8, <2>9, <2>11, <3>2
      <4>2. b \in Bits BY <1>1, <2>7, <4>1 DEF Bits
      <4>3. u = unit_at(last, b)
        <5>1. u = unit_at(last, 0) + b BY <2>8
        <5> HIDE DEF b
        <5> QED BY <1>5, <4>1, <5>1, UnitIs
      <4> HIDE DEF b
      <4>4. b \notin ws[last] BY <2>3, <2>4, <2>7, <4>1
      <4> QED BY <2>2, <4>2, <4>3, <4>4, WordShows
    <3> QED BY <3>1, <3>2
  <2>12. o + c \in S BY <2>7, <2>9
  <2> QED BY <2>9, <2>10, <2>11, <2>12 DEF Counted
<1> QED BY <1>9, <1>10 DEF c

(* count_bits first counts the rest of the word it starts in. *)
LEMMA CountBits ==
  ASSUME NEW ws \in [Words -> SUBSET Bits], NEW S, Shows(ws, S),
         NEW o \in Nat, o <= units_per_page, NEW limit \in Nat
  PROVE  Counted(count_bits(ws, o, limit), S, o, limit)
<1> DEFINE i == o \div WORD_WIDTH
           r == o % WORD_WIDTH
           w == shift_right(ws[i], r)
           c == count_bits(ws, o, limit)
<1>1. /\ i \in Nat /\ r \in Bits /\ r \in Nat /\ r < WORD_WIDTH /\ o = unit_at(i, r)
      /\ WORD_WIDTH \in Nat /\ NumWords \in Nat /\ units_per_page \in Nat
      /\ units_per_page = unit_at(NumWords, 0)
  BY UnitSplits, Layout DEF Bits
<1>2. c = IF r = 0 THEN count_words(ws, i, 0, limit)
          ELSE IF w # {} THEN Min(w)
          ELSE count_words(ws, i + 1, WORD_WIDTH - r, limit)
  BY DEF count_bits, count_trailing_zeros
<1> HIDE DEF c, i, r
<1>3. o < units_per_page => i \in Words /\ i < NumWords
  <2> SUFFICES ASSUME o < units_per_page PROVE i \in Words /\ i < NumWords
    OBVIOUS
  <2>1. unit_at(i, r) \in Ref!Unit BY <1>1 DEF Ref!Unit
  <2>2. i \in Words BY <1>1, <2>1, UnitOfPage
  <2> QED BY <1>1, <2>2 DEF Words
<1>4. /\ o = unit_at(i, 0) + r /\ unit_at(i, 0) \in Nat
      /\ unit_at(i + 1, 0) = unit_at(i, 0) + WORD_WIDTH
  <2>1. unit_at(i, r) = unit_at(i, 0) + r /\ unit_at(i, WORD_WIDTH) = unit_at(i + 1, 0)
    BY <1>1, UnitIs
  <2>2. unit_at(i, WORD_WIDTH) = unit_at(i, 0) + WORD_WIDTH BY <1>1, UnitIs
  <2>3. unit_at(i, 0) \in Nat BY <1>1, UnitIs
  <2> QED BY <1>1, <2>1, <2>2, <2>3
<1>5. ASSUME r # 0 PROVE o < units_per_page /\ i \in Words
  <2>1. o # units_per_page
    <3> SUFFICES ASSUME o = units_per_page PROVE FALSE
      OBVIOUS
    <3> DEFINE z == 0
    <3>1. z \in Bits /\ z \in 0 .. WORD_WIDTH /\ r \in 0 .. WORD_WIDTH /\ z < r
      BY <1>1, <1>5 DEF Bits
    <3>2. unit_at(NumWords, z) < unit_at(i, r) <=> NumWords < i \/ (NumWords = i /\ z < r)
      <4> HIDE DEF z
      <4> QED BY <1>1, <3>1, UnitOrder
    <3>3. unit_at(i, r) < unit_at(NumWords, z) <=> i < NumWords \/ (i = NumWords /\ r < z)
      <4> HIDE DEF z
      <4> QED BY <1>1, <3>1, UnitOrder
    <3>4. unit_at(i, r) = unit_at(NumWords, z) /\ unit_at(i, r) \in Nat BY <1>1
    <3>5. ~(NumWords < i \/ NumWords = i) /\ ~(i < NumWords) BY <3>1, <3>2, <3>3, <3>4
    <3> QED BY <1>1, <3>5
  <2>2. o < units_per_page BY <1>1, <2>1
  <2> QED BY <1>3, <2>2
<1>6. ASSUME r = 0 PROVE Counted(c, S, o, limit)
  <2> DEFINE z == 0
  <2>1. c = count_words(ws, i, z, limit) BY <1>2, <1>6
  <2>2. i \in 0 .. NumWords
    <3>1. o < units_per_page => i \in 0 .. NumWords BY <1>1, <1>3
    <3>2. ASSUME o = units_per_page PROVE i = NumWords
      <4>1. z \in Bits /\ z \in 0 .. WORD_WIDTH /\ ~(z < z) BY <1>1, <1>6
      <4>2. unit_at(i, z) = unit_at(NumWords, z) /\ unit_at(i, z) \in Nat
        BY <1>1, <1>6, <3>2
      <4>3. /\ unit_at(i, z) < unit_at(NumWords, z) <=> i < NumWords
            /\ unit_at(NumWords, z) < unit_at(i, z) <=> NumWords < i
        <5> HIDE DEF z
        <5> QED BY <1>1, <4>1, UnitOrder
      <4>4. ~(i < NumWords) /\ ~(NumWords < i) BY <4>2, <4>3
      <4> QED BY <1>1, <4>4
    <3> QED BY <1>1, <3>1, <3>2
  <2>3. z \in Nat /\ o + z = unit_at(i, 0) /\ \A u \in Nat : o <= u /\ u < o + z => u \notin S
    BY <1>1, <1>6
  <2> HIDE DEF z
  <2> QED BY <2>1, <2>2, <2>3, CountWords
<1>7. ASSUME r # 0, w # {} PROVE Counted(c, S, o, limit)
  <2>1. i \in Words /\ o < units_per_page BY <1>5, <1>7
  <2>2. ws[i] \subseteq Nat BY <2>1, WordShows
  <2>3. w \in SUBSET Nat
    <3>1. \A j \in ws[i] : j >= r => j - r \in Nat BY <1>1, <2>2
    <3> QED BY <3>1 DEF shift_right
  <2> DEFINE m == Min(w)
  <2>4. m \in w /\ \A y \in w : m <= y
    <3> HIDE DEF w
    <3> QED BY <1>7, <2>3, LeastOfNat
  <2>5. PICK b \in ws[i] : b >= r /\ m = b - r
    <3> HIDE DEF m
    <3> QED BY <2>4 DEF shift_right
  <2>6. c = m BY <1>2, <1>7
  <2>7. ASSUME NEW d \in ws[i], d >= r PROVE m <= d - r
    <3>1. d - r \in w BY <2>7 DEF shift_right
    <3> HIDE DEF w, m
    <3> QED BY <2>4, <3>1
  <2> HIDE DEF w, m
  <2>8. b \in Nat /\ b \in Bits /\ unit_at(i, b) \in S BY <2>1, WordShows
  <2>9. o + c = unit_at(i, b) /\ c \in Nat
    <3>1. unit_at(i, b) = unit_at(i, 0) + b BY <1>1, <2>8, UnitIs
    <3> QED BY <1>1, <1>4, <2>5, <2>6, <2>8, <3>1
  <2>10. o + c <= units_per_page
    <3>1. unit_at(i, b) \in Ref!Unit BY <1>1, <2>1, <2>8, UnitOfPage
    <3> QED BY <1>1, <2>9, <3>1 DEF Ref!Unit
  <2>11. ASSUME NEW u \in Nat, o <= u, u < o + c PROVE u \notin S
    <3> DEFINE d == u - unit_at(i, 0)
    <3>1. d \in Nat /\ d >= r /\ d < b
      BY <1>1, <1>4, <2>5, <2>6, <2>8, <2>9, <2>11
    <3>2. d \in Bits BY <1>1, <2>8, <3>1 DEF Bits
    <3>3. u = unit_at(i, 0) + d BY <1>4
    <3> HIDE DEF d
    <3>4. u = unit_at(i, d) BY <1>1, <3>1, <3>3, UnitIs
    <3>5. d \notin ws[i]
      <4> SUFFICES ASSUME d \in ws[i] PROVE FALSE
        OBVIOUS
      <4>1. m <= d - r BY <2>7, <3>1
      <4> QED BY <1>1, <2>5, <2>8, <3>1, <4>1
    <3> QED BY <2>1, <3>2, <3>4, <3>5, WordShows
  <2> QED BY <2>8, <2>9, <2>10, <2>11 DEF Counted
<1>8. ASSUME r # 0, w = {} PROVE Counted(c, S, o, limit)
  <2> DEFINE count == WORD_WIDTH - r
             j == i + 1
  <2>1. i \in Words /\ o < units_per_page BY <1>5, <1>8
  <2>2. c = count_words(ws, j, count, limit) BY <1>2, <1>8
  <2>3. j \in 0 .. NumWords /\ count \in Nat BY <1>1, <1>3, <2>1
  <2>4. o + count = unit_at(j, 0) BY <1>1, <1>4
  <2>5. \A u \in Nat : o <= u /\ u < o + count => u \notin S
    <3> SUFFICES ASSUME NEW u \in Nat, o <= u, u < o + count PROVE u \notin S
      OBVIOUS
    <3> DEFINE d == u - unit_at(i, 0)
    <3>1. d \in Nat /\ d >= r /\ d < WORD_WIDTH BY <1>1, <1>4
    <3>2. d \in Bits BY <1>1, <3>1 DEF Bits
    <3>3. u = unit_at(i, 0) + d BY <1>4
    <3> HIDE DEF d
    <3>4. u = unit_at(i, d) BY <1>1, <3>1, <3>3, UnitIs
    <3>5. d \notin ws[i]
      <4> SUFFICES ASSUME d \in ws[i] PROVE FALSE
        OBVIOUS
      <4>1. d - r \in w BY <3>1 DEF shift_right
      <4> QED BY <1>8, <4>1
    <3> QED BY <2>1, <3>2, <3>4, <3>5, WordShows
  <2> HIDE DEF count, j
  <2> QED BY <2>2, <2>3, <2>4, <2>5, CountWords
<1> QED BY <1>6, <1>7, <1>8 DEF c

(* The two counts of a page's words. *)
LEMMA Counts ==
  ASSUME NEW bm \in [Words -> SUBSET Bits], NEW S \in SUBSET Ref!Unit, Shows(bm, S),
         NEW o \in Nat, o <= units_per_page, NEW limit \in Nat
  PROVE  /\ Counted(count_zero_bits(bm, o, limit), S, o, limit)
         /\ Counted(count_nonzero_bits(bm, o, limit), Ref!Unit \ S, o, limit)
<1>1. Counted(count_zero_bits(bm, o, limit), S, o, limit)
  BY CountBits DEF count_zero_bits
<1> DEFINE inverted == [i \in Words |-> complement(bm[i])]
<1>2. inverted \in [Words -> SUBSET Bits] BY DEF complement
<1>3. Shows(inverted, Ref!Unit \ S)
  <2> SUFFICES ASSUME NEW i \in Words
               PROVE  inverted[i] = {b \in Bits : unit_at(i, b) \in Ref!Unit \ S}
    BY DEF Shows
  <2>1. \A b \in Bits : b \in bm[i] <=> unit_at(i, b) \in S BY WordShows
  <2>2. i \in Nat BY DEF Words
  <2>3. \A b \in Bits : unit_at(i, b) \in Ref!Unit BY <2>2, UnitOfPage
  <2>4. inverted[i] = Bits \ bm[i] BY DEF complement
  <2> QED BY <2>1, <2>3, <2>4
<1>4. count_nonzero_bits(bm, o, limit) = count_bits(inverted, o, limit)
  BY DEF count_nonzero_bits
<1>5. Counted(count_bits(inverted, o, limit), Ref!Unit \ S, o, limit)
  <2> HIDE DEF inverted
  <2> QED BY <1>2, <1>3, CountBits
<1> QED BY <1>1, <1>4, <1>5

-----------------------------------------------------------------------------
(* Runs and what lies between them. *)

(* The bitmap of a state: words that show its units. *)
Exact == words \in [Words -> SUBSET Bits] /\ units \in SUBSET Ref!Unit
         /\ Shows(words, units)

(* The searches go from offset o over z empty and then over set units to a *)
(* later offset e, and pass no run longer than z.                          *)
Passes(o, z, e) ==
  /\ e \in Nat /\ o + z <= e /\ o < e /\ e <= units_per_page
  /\ \A p \in Nat : o <= p /\ p < e => Ref!count_zero_bits(units, p) <= z

LEMMA NoLongerRun ==
  ASSUME Exact, NEW o \in Nat, o < units_per_page,
         NEW z \in Nat, NEW limit \in Nat, Counted(z, units, o, limit),
         o + z = units_per_page \/ o + z \in units,
         NEW most \in Nat, z = 0 => most >= 1
  PROVE  Passes(o, z, after_runs(o, z, most))
<1> DEFINE s == o + z
           d == count_nonzero_bits(words, s, most)
           e == after_runs(o, z, most)
<1>1. s \in Nat /\ s <= units_per_page /\ units_per_page \in Nat
  BY Layout DEF Counted
<1>2. Counted(d, Ref!Unit \ units, s, most)
  <2> HIDE DEF s
  <2> QED BY <1>1, Counts DEF Exact
<1>3. e = s + d BY DEF after_runs
<1> HIDE DEF e, d
<1>4. d \in Nat /\ s + d <= units_per_page BY <1>2 DEF Counted
<1>5. z = 0 => d # 0
  <2> SUFFICES ASSUME z = 0, d = 0 PROVE FALSE
    OBVIOUS
  <2>1. s = o /\ s + d = o /\ d < most BY <1>1
  <2>2. o = units_per_page \/ o \in Ref!Unit \ units BY <1>2, <2>1 DEF Counted
  <2>3. o \in units BY <2>1
  <2> QED BY <1>1, <2>2, <2>3
<1>6. ASSUME NEW p \in Nat, o <= p, p < e
      PROVE  Ref!count_zero_bits(units, p) <= z
  <2> DEFINE y == Ref!count_zero_bits(units, p)
  <2>1. p <= units_per_page BY <1>1, <1>3, <1>4, <1>6
  <2>2. Counted(y, units, p, y + 1) BY <2>1, AllCounted DEF Exact
  <2> HIDE DEF y
  <2>3. y \in Nat /\ p + y <= units_per_page
        /\ \A u \in Nat : p <= u /\ u < p + y => u \notin units
    BY <2>2 DEF Counted
  <2>4. CASE p < s
    <3> SUFFICES ASSUME ~(y <= z) PROVE FALSE
      BY DEF y
    <3>1. p <= s /\ s < p + y BY <1>1, <1>6, <2>3, <2>4
    <3>2. s \notin units BY <1>1, <2>3, <3>1
    <3>3. s # units_per_page BY <1>1, <2>3, <3>1
    <3> QED BY <3>2, <3>3
  <2>5. CASE ~(p < s)
    <3>1. s <= p /\ p < s + d BY <1>1, <1>3, <1>6, <2>5
    <3>2. p \notin Ref!Unit \ units BY <1>2, <3>1 DEF Counted
    <3>3. p \in units BY <1>1, <1>4, <3>1, <3>2 DEF Ref!Unit
    <3>4. ~(p <= p /\ p < p + y) BY <2>3, <3>3
    <3>5. y = 0 BY <2>3, <3>4
    <3> QED BY <3>5 DEF y
  <2> QED BY <2>4, <2>5
<1>7. o < e BY <1>3, <1>4, <1>5
<1> QED BY <1>1, <1>3, <1>4, <1>6, <1>7 DEF Passes, e

(* A run of the searches' count is as long as PageBitmap says, or at least *)
(* as long as the limit.                                                   *)
LEMMA ZerosCounted ==
  ASSUME Exact, NEW o \in Nat, o <= units_per_page, NEW limit \in Nat
  PROVE  LET z == count_zero_bits(words, o, limit)
         IN  /\ Counted(z, units, o, limit) /\ z \in Nat /\ o + z <= units_per_page
             /\ z <= Ref!count_zero_bits(units, o)
             /\ z < limit => z = Ref!count_zero_bits(units, o)
             /\ Ref!count_zero_bits(units, o) \in Nat
             /\ o + Ref!count_zero_bits(units, o) <= units_per_page
<1> DEFINE z == count_zero_bits(words, o, limit)
           a == Ref!count_zero_bits(units, o)
<1>1. Counted(z, units, o, limit) BY Counts DEF Exact
<1>2. Counted(a, units, o, a + 1) BY AllCounted DEF Exact
<1> HIDE DEF z
<1>3. z <= a /\ (z < limit => z = a) BY <1>1, CountedExact DEF Exact
<1> HIDE DEF a
<1> QED BY <1>1, <1>2, <1>3 DEF Counted, z, a

-----------------------------------------------------------------------------
(* The invariant: words that show their units, and of a search what it has *)
(* passed so far.                                                          *)
Header == bm_page_header_size_in_units

Searched == scan_offset \in Nat /\ Header <= scan_offset /\ scan_offset <= units_per_page

FindInv ==
  scan = "find_free_block" =>
    /\ Searched
    /\ \A o \in Nat : Header <= o /\ o < scan_offset
         => Ref!count_zero_bits(units, o) < scan_size

LongestInv ==
  scan = "find_longest_free_block" =>
    /\ Searched /\ scan_left = units_per_page - scan_offset
    /\ \A o \in Nat : Header <= o /\ o < scan_offset => Ref!count_zero_bits(units, o) <= lfb
    /\ \/ scan_offset = Header /\ lfb = 0
       \/ \E o \in Nat : /\ Header <= o /\ o < scan_offset
                         /\ Ref!count_zero_bits(units, o) = lfb

WordInv ==
  /\ ScansTypeOK /\ Shows(words, units)
  /\ scan \in {"find_free_block", "found_block"} => scan_size >= 1
  /\ FindInv /\ LongestInv
  /\ SearchesExact

LEMMA Page ==
  /\ units_per_page \in Nat /\ Header \in Nat /\ Header >= 1 /\ Header + 1 < units_per_page
  /\ Ref!max_data_units \in Nat /\ Ref!max_data_units = units_per_page - Header
  /\ Ref!max_data_units >= 2
  /\ UINT_MAX \in Nat /\ UINT_MAX >= 1 /\ units_per_page <= UINT_MAX
<1>1. Ref!max_data_units = units_per_page - Header BY DEF Ref!max_data_units, Header
<1> QED BY <1>1, Layout DEF Header

(* What a type-correct state with exact words gives the searches. *)
LEMMA ExactWords ==
  ASSUME WordInv PROVE Exact
BY DEF WordInv, ScansTypeOK, Exact

LEMMA WordInit == ScansInit => WordInv
<1> SUFFICES ASSUME ScansInit PROVE WordInv OBVIOUS
<1>1. /\ words \in [Words -> SUBSET Bits] /\ units = {} /\ Shows(words, units)
      /\ scan = "new" /\ scan_offset = 0 /\ scan_size = 0 /\ scan_left = 0 /\ lfb = 0
  BY DEF ScansInit, Shows
<1>2. ScansTypeOK BY <1>1, Page DEF ScansTypeOK
<1> QED BY <1>1, <1>2 DEF WordInv, FindInv, LongestInv, SearchesExact

LEMMA NewPageKeeps ==
  ASSUME WordInv, NEW k \in 1 .. (Ref!max_data_units - 1), NewPage(k) PROVE WordInv'
<1> DEFINE z == 0
           l == Header + k
<1>1. /\ words' = set_bits(words, z, l) /\ units' = Ref!set_bits(units, z, l)
      /\ scan' = "none"
      /\ scan_offset' = 0 /\ scan_size' = 0 /\ scan_left' = 0 /\ lfb' = 0
  BY DEF NewPage, Idle, Header
<1>2. l \in Nat \ {0} /\ z \in Nat /\ l < units_per_page BY Page
<1>3. Exact BY ExactWords
<1>4. words' \in [Words -> SUBSET Bits] /\ Shows(words', units')
  <2> HIDE DEF z, l
  <2>1. /\ set_bits(words, z, l) \in [Words -> SUBSET Bits]
        /\ Shows(set_bits(words, z, l), Ref!set_bits(units, z, l))
    BY <1>2, <1>3, UpdateShows DEF Exact
  <2> QED BY <1>1, <2>1
<1>5. units' \in SUBSET Ref!Unit
  BY <1>1, <1>2, <1>3, Page DEF Exact, Ref!set_bits, Ref!Run, Ref!Unit
<1>6. ScansTypeOK' BY <1>1, <1>4, <1>5, Page DEF ScansTypeOK
<1>7. Shows(words, units)' BY <1>4 DEF Shows
<1> QED BY <1>1, <1>6, <1>7 DEF WordInv, FindInv, LongestInv, SearchesExact

LEMMA UpdateKeeps ==
  ASSUME WordInv, Update PROVE WordInv'
<1>1. scan = "none" /\ scan' = "none"
      /\ scan_offset' = scan_offset /\ scan_size' = scan_size /\ scan_left' = scan_left /\ lfb' = lfb
  BY DEF Update, search
<1>2. PICK o \in Ref!DataUnit :
        \E k \in 1 .. (units_per_page - o) : SetRun(o, k) \/ ClearRun(o, k)
  BY DEF Update
<1>2a. PICK k \in 1 .. (units_per_page - o) : SetRun(o, k) \/ ClearRun(o, k) BY <1>2
<1>3. o \in Nat /\ k \in Nat \ {0} /\ o + k <= units_per_page
  BY Page DEF Ref!DataUnit, Header
<1>4. Exact BY ExactWords
<1>5. /\ set_bits(words, o, k) \in [Words -> SUBSET Bits]
      /\ Shows(set_bits(words, o, k), Ref!set_bits(units, o, k))
      /\ clear_bits(words, o, k) \in [Words -> SUBSET Bits]
      /\ Shows(clear_bits(words, o, k), Ref!clear_bits(units, o, k))
  BY <1>3, <1>4, UpdateShows DEF Exact
<1>6. Ref!set_bits(units, o, k) \in SUBSET Ref!Unit
      /\ Ref!clear_bits(units, o, k) \in SUBSET Ref!Unit
  BY <1>3, <1>4, Page DEF Exact, Ref!set_bits, Ref!clear_bits, Ref!Run, Ref!Unit
<1>7. /\ words' \in [Words -> SUBSET Bits] /\ units' \in SUBSET Ref!Unit
      /\ Shows(words', units')
  BY <1>2a, <1>5, <1>6, Zenon DEF SetRun, ClearRun
<1>8. ScansTypeOK' BY <1>1, <1>7 DEF WordInv, ScansTypeOK
<1>9. Shows(words, units)' BY <1>7 DEF Shows
<1> QED BY <1>1, <1>8, <1>9 DEF WordInv, FindInv, LongestInv, SearchesExact

LEMMA StartFindKeeps ==
  ASSUME WordInv, NEW size \in 1 .. (Ref!max_data_units - 1), StartFind(size)
  PROVE  WordInv'
<1>1. /\ scan' = "find_free_block" /\ scan_offset' = Header /\ scan_size' = size
      /\ words' = words /\ units' = units /\ scan_left' = scan_left /\ lfb' = lfb
  BY DEF StartFind, Header
<1>2. ScansTypeOK' BY <1>1, Page DEF WordInv, ScansTypeOK
<1>3. Shows(words, units)' BY <1>1 DEF WordInv, Shows
<1>4. Searched' /\ scan_size' >= 1 BY <1>1, Page DEF Searched
<1>5. FindInv' BY <1>1, <1>4, Page DEF FindInv
<1> QED BY <1>1, <1>2, <1>3, <1>4, <1>5 DEF WordInv, LongestInv, SearchesExact

LEMMA StartLongestKeeps ==
  ASSUME WordInv, StartLongest PROVE WordInv'
<1>1. /\ scan' = "find_longest_free_block" /\ scan_offset' = Header /\ lfb' = 0
      /\ scan_left' = Ref!max_data_units
      /\ words' = words /\ units' = units /\ scan_size' = scan_size
  BY DEF StartLongest, Header
<1>2. ScansTypeOK' BY <1>1, Page DEF WordInv, ScansTypeOK
<1>3. Shows(words, units)' BY <1>1 DEF WordInv, Shows
<1>4. Searched' BY <1>1, Page DEF Searched
<1>5. LongestInv' BY <1>1, <1>4, Page DEF LongestInv
<1> QED BY <1>1, <1>2, <1>3, <1>5 DEF WordInv, FindInv, SearchesExact

LEMMA ReturnKeeps ==
  ASSUME WordInv, Return PROVE WordInv'
<1>1. /\ scan' = "none" /\ scan_offset' = 0 /\ scan_size' = 0 /\ scan_left' = 0 /\ lfb' = 0
      /\ words' = words /\ units' = units
  BY DEF Return, Idle
<1>2. ScansTypeOK' BY <1>1, Page DEF WordInv, ScansTypeOK
<1>3. Shows(words, units)' BY <1>1 DEF WordInv, Shows
<1> QED BY <1>1, <1>2, <1>3 DEF WordInv, FindInv, LongestInv, SearchesExact

LEMMA StutterKeeps ==
  ASSUME WordInv, UNCHANGED scans_vars PROVE WordInv'
<1>1. /\ scan' = scan /\ scan_offset' = scan_offset
      /\ scan_size' = scan_size /\ scan_left' = scan_left /\ lfb' = lfb
      /\ words' = words /\ units' = units
  BY DEF scans_vars, search
<1> QED BY <1>1 DEF WordInv, ScansTypeOK, Shows, FindInv, LongestInv, Searched, SearchesExact

-----------------------------------------------------------------------------
(* The turns of the searches' loops. *)

(* A turn of find_free_block that finds nothing. *)
LEMMA FindTurn ==
  ASSUME WordInv, scan = "find_free_block", scan_offset < units_per_page
  PROVE  LET z == count_zero_bits(words, scan_offset, scan_size)
         IN  /\ z \in Nat /\ z <= Ref!count_zero_bits(units, scan_offset)
             /\ ~long_enough(z, scan_size) =>
                  z < scan_size /\ Passes(scan_offset, z, after_runs(scan_offset, z, UINT_MAX))
<1> DEFINE z == count_zero_bits(words, scan_offset, scan_size)
<1>1. /\ Exact /\ scan_offset \in Nat /\ scan_offset <= units_per_page
      /\ scan_size \in Nat /\ scan_size >= 1
  BY ExactWords, Page DEF WordInv, ScansTypeOK
<1>2. /\ Counted(z, units, scan_offset, scan_size) /\ z \in Nat
      /\ z <= Ref!count_zero_bits(units, scan_offset)
  BY <1>1, ZerosCounted
<1> HIDE DEF z
<1>3. ASSUME ~long_enough(z, scan_size)
      PROVE  z < scan_size /\ Passes(scan_offset, z, after_runs(scan_offset, z, UINT_MAX))
  <2>1. z < scan_size BY <1>1, <1>2, <1>3 DEF long_enough
  <2>2. scan_offset + z = units_per_page \/ scan_offset + z \in units
    BY <1>2, <2>1 DEF Counted
  <2> QED BY <1>1, <1>2, <2>1, <2>2, Page, NoLongerRun
<1> QED BY <1>2, <1>3 DEF z

LEMMA FindNextKeeps ==
  ASSUME WordInv, FindNext PROVE WordInv'
<1> DEFINE z == count_zero_bits(words, scan_offset, scan_size)
           e == after_runs(scan_offset, z, UINT_MAX)
<1>1. /\ scan = "find_free_block"
      /\ words' = words /\ units' = units /\ scan_size' = scan_size
      /\ scan_left' = scan_left /\ lfb' = lfb
  BY DEF FindNext
<1>2. \/ scan_offset >= units_per_page /\ Found(0)
      \/ scan_offset < units_per_page /\ long_enough(z, scan_size) /\ Found(scan_offset)
      \/ /\ scan_offset < units_per_page /\ ~long_enough(z, scan_size)
         /\ scan_offset' = e /\ scan' = scan
  BY DEF FindNext
<1>3. /\ Exact /\ scan_offset \in Nat /\ scan_size \in Nat /\ scan_size >= 1
      /\ Header <= scan_offset /\ scan_offset <= units_per_page
      /\ \A o \in Nat : Header <= o /\ o < scan_offset
           => Ref!count_zero_bits(units, o) < scan_size
  BY <1>1, ExactWords DEF WordInv, ScansTypeOK, FindInv, Searched
<1>4. scan_offset < units_per_page =>
        /\ z \in Nat /\ z <= Ref!count_zero_bits(units, scan_offset)
        /\ ~long_enough(z, scan_size) => z < scan_size /\ Passes(scan_offset, z, e)
  BY <1>1, FindTurn
<1> HIDE DEF z, e
<1>5. Shows(words, units)' BY <1>1 DEF WordInv, Shows
<1> DEFINE fits == {o \in Ref!DataUnit : Ref!count_zero_bits(units, o) >= scan_size}
<1>6. Ref!find_free_block(units, scan_size) = IF fits = {} THEN 0 ELSE Min(fits)
  BY RefMin DEF Ref!find_free_block
<1>7. ASSUME NEW o \in Ref!DataUnit
      PROVE  /\ o \in Nat /\ Header <= o /\ o < units_per_page
             /\ Ref!count_zero_bits(units, o) \in Nat
  <2>1. o \in Nat /\ Header <= o /\ o < units_per_page BY Page DEF Ref!DataUnit, Header
  <2>2. o <= units_per_page /\ 0 \in Nat BY <2>1, Page
  <2> QED BY <1>3, <2>1, <2>2, ZerosCounted
<1>8. CASE scan_offset >= units_per_page /\ Found(0)
  <2>1. scan' = "found_block" /\ scan_offset' = 0 BY <1>8 DEF Found
  <2>2. ScansTypeOK' BY <1>1, <2>1, Page DEF WordInv, ScansTypeOK
  <2>3. fits = {}
    <3> SUFFICES ASSUME NEW o \in Ref!DataUnit,
                        Ref!count_zero_bits(units, o) >= scan_size
                 PROVE  FALSE
      OBVIOUS
    <3>1. o < scan_offset BY <1>3, <1>7, <1>8, Page
    <3>2. Ref!count_zero_bits(units, o) < scan_size BY <1>3, <1>7, <3>1
    <3> QED BY <1>3, <1>7, <3>2
  <2>4. Ref!find_free_block(units, scan_size) = 0 BY <1>6, <2>3
  <2>5. SearchesExact' BY <1>1, <2>1, <2>4 DEF SearchesExact
  <2> QED BY <1>1, <1>3, <1>5, <2>1, <2>2, <2>5 DEF WordInv, FindInv, LongestInv
<1>9. CASE scan_offset < units_per_page /\ long_enough(z, scan_size) /\ Found(scan_offset)
  <2>1. scan' = "found_block" /\ scan_offset' = scan_offset BY <1>9 DEF Found
  <2>2. ScansTypeOK' BY <1>1, <2>1, Page DEF WordInv, ScansTypeOK
  <2>3. scan_offset \in Ref!DataUnit BY <1>3, <1>9, Page DEF Ref!DataUnit, Header
  <2>4. scan_offset \in fits
    <3>1. z >= scan_size BY <1>9 DEF long_enough
    <3>2. Ref!count_zero_bits(units, scan_offset) >= scan_size
      BY <1>3, <1>4, <1>7, <1>9, <2>3, <3>1
    <3> QED BY <2>3, <3>2
  <2>5. ASSUME NEW o \in fits PROVE scan_offset <= o /\ o \in Nat
    <3>1. o \in Nat /\ Header <= o /\ Ref!count_zero_bits(units, o) \in Nat
          /\ Ref!count_zero_bits(units, o) >= scan_size
      BY <1>7
    <3>2. ~(Ref!count_zero_bits(units, o) < scan_size) BY <1>3, <3>1
    <3>3. ~(o < scan_offset) BY <1>3, <3>1, <3>2
    <3> HIDE DEF fits
    <3> QED BY <1>3, <3>1, <3>3
  <2>6. Min(fits) = scan_offset
    <3> HIDE DEF fits
    <3>1. fits \in SUBSET Nat BY <2>5
    <3>2. Min(fits) \in fits /\ Min(fits) <= scan_offset BY <2>4, <3>1, LeastOfNat
    <3>3. scan_offset <= Min(fits) /\ Min(fits) \in Nat BY <2>5, <3>2
    <3> QED BY <1>3, <3>2, <3>3
  <2>7. Ref!find_free_block(units, scan_size) = scan_offset BY <1>6, <2>4, <2>6
  <2>8. SearchesExact' BY <1>1, <2>1, <2>7 DEF SearchesExact
  <2> QED BY <1>1, <1>3, <1>5, <2>1, <2>2, <2>8 DEF WordInv, FindInv, LongestInv
<1>10. CASE /\ scan_offset < units_per_page /\ ~long_enough(z, scan_size)
            /\ scan_offset' = e /\ scan' = scan
  <2>1. z \in Nat /\ z < scan_size /\ Passes(scan_offset, z, e) BY <1>4, <1>10
  <2>2. e \in Nat /\ scan_offset < e /\ e <= units_per_page
        /\ \A p \in Nat : scan_offset <= p /\ p < e => Ref!count_zero_bits(units, p) <= z
    BY <2>1 DEF Passes
  <2>3. Searched' BY <1>3, <1>10, <2>2, Page DEF Searched, Header
  <2>4. ASSUME NEW o \in Nat, Header <= o, o < e
        PROVE  Ref!count_zero_bits(units, o) < scan_size
    <3>1. CASE o < scan_offset BY <1>3, <2>4, <3>1
    <3>2. CASE ~(o < scan_offset)
      <4>1. Ref!count_zero_bits(units, o) <= z BY <1>3, <2>2, <2>4, <3>2
      <4>2. Ref!count_zero_bits(units, o) \in Nat
        <5>1. o <= units_per_page /\ 0 \in Nat BY <2>2, <2>4, Page
        <5> QED BY <1>3, <5>1, ZerosCounted
      <4> QED BY <1>3, <2>1, <4>1, <4>2
    <3> QED BY <3>1, <3>2
  <2>5. FindInv' BY <1>1, <1>10, <2>3, <2>4 DEF FindInv, Header
  <2>6. ScansTypeOK' BY <1>1, <1>10, <2>2, Page DEF WordInv, ScansTypeOK
  <2> QED BY <1>1, <1>3, <1>5, <1>10, <2>5, <2>6 DEF WordInv, LongestInv, SearchesExact
<1> QED BY <1>2, <1>8, <1>9, <1>10

(* A turn of find_longest_free_block: scan_left is what is left of the     *)
(* page, so that the count is exact, limited by it or not.                 *)
LEMMA LongestTurn ==
  ASSUME WordInv, scan = "find_longest_free_block", scan_left # 0
  PROVE  LET z == count_zero_bits(words, scan_offset, scan_left)
         IN  /\ z \in Nat /\ z <= scan_left /\ scan_offset + z <= units_per_page
             /\ z = Ref!count_zero_bits(units, scan_offset)
             /\ Passes(scan_offset, z, after_runs(scan_offset, z, scan_left - z))
<1> DEFINE z == count_zero_bits(words, scan_offset, scan_left)
           a == Ref!count_zero_bits(units, scan_offset)
<1>1. /\ Exact /\ scan_offset \in Nat
      /\ scan_left \in Nat /\ scan_left = units_per_page - scan_offset
      /\ scan_offset < units_per_page /\ scan_offset <= units_per_page /\ units_per_page \in Nat
  BY ExactWords, Page DEF WordInv, ScansTypeOK, LongestInv, Searched
<1>2. /\ Counted(z, units, scan_offset, scan_left) /\ z \in Nat
      /\ scan_offset + z <= units_per_page /\ z <= a /\ (z < scan_left => z = a) /\ a \in Nat /\ scan_offset + a <= units_per_page
  BY <1>1, ZerosCounted
<1> HIDE DEF z, a
<1>3. z <= scan_left /\ z = a BY <1>1, <1>2
<1>4. scan_offset + z = units_per_page \/ scan_offset + z \in units
  BY <1>1, <1>2 DEF Counted
<1>5. scan_left - z \in Nat /\ (z = 0 => scan_left - z >= 1) BY <1>1, <1>2, <1>3
<1>6. Passes(scan_offset, z, after_runs(scan_offset, z, scan_left - z))
  <2> DEFINE most == scan_left - z
  <2>1. most \in Nat /\ (z = 0 => most >= 1) BY <1>5
  <2> HIDE DEF most
  <2>2. Passes(scan_offset, z, after_runs(scan_offset, z, most))
    BY <1>1, <1>2, <1>4, <2>1, NoLongerRun
  <2> QED BY <2>2 DEF most
<1> QED BY <1>2, <1>3, <1>6 DEF z, a

LEMMA LongestNextKeeps ==
  ASSUME WordInv, LongestNext PROVE WordInv'
<1> DEFINE z == count_zero_bits(words, scan_offset, scan_left)
           e == after_runs(scan_offset, z, scan_left - z)
<1>1. /\ scan = "find_longest_free_block" /\ scan_left # 0 /\ scan' = scan
      /\ words' = words /\ units' = units /\ scan_size' = scan_size
      /\ lfb' = (IF z > lfb THEN z ELSE lfb)
      /\ scan_offset' = e /\ scan_left' = scan_left - (scan_offset' - scan_offset)
  BY DEF LongestNext
<1>2. /\ Exact /\ scan_offset \in Nat
      /\ scan_left \in Nat /\ scan_left = units_per_page - scan_offset
      /\ lfb \in Nat /\ lfb <= units_per_page
      /\ Header <= scan_offset /\ scan_offset <= units_per_page
      /\ \A o \in Nat : Header <= o /\ o < scan_offset => Ref!count_zero_bits(units, o) <= lfb
      /\ \/ scan_offset = Header /\ lfb = 0
         \/ \E o \in Nat : /\ Header <= o /\ o < scan_offset
                           /\ Ref!count_zero_bits(units, o) = lfb
  BY <1>1, ExactWords, Page DEF WordInv, ScansTypeOK, LongestInv, Searched
<1>3. /\ z \in Nat /\ z <= scan_left /\ scan_offset + z <= units_per_page
      /\ z = Ref!count_zero_bits(units, scan_offset) /\ Passes(scan_offset, z, e)
  BY <1>1, LongestTurn
<1> HIDE DEF z, e
<1>4. e \in Nat /\ scan_offset < e /\ e <= units_per_page
      /\ \A p \in Nat : scan_offset <= p /\ p < e => Ref!count_zero_bits(units, p) <= z
  BY <1>3 DEF Passes
<1>5. /\ lfb' \in Nat /\ lfb' <= units_per_page /\ z <= lfb' /\ lfb <= lfb'
      /\ lfb' = z \/ lfb' = lfb
  BY <1>1, <1>2, <1>3, Page
<1>6. scan_left' = units_per_page - scan_offset' /\ scan_left' \in Nat
  BY <1>1, <1>2, <1>4, Page
<1>7. ScansTypeOK' BY <1>1, <1>4, <1>5, <1>6, Page DEF WordInv, ScansTypeOK
<1>8. Searched' BY <1>1, <1>2, <1>4, Page DEF Searched, Header
<1>9. ASSUME NEW o \in Nat, Header <= o, o < e
      PROVE  Ref!count_zero_bits(units, o) <= lfb'
  <2>1. Ref!count_zero_bits(units, o) \in Nat
    <3>1. o <= units_per_page /\ 0 \in Nat BY <1>4, <1>9, Page
    <3> QED BY <1>2, <3>1, ZerosCounted
  <2>2. CASE o < scan_offset
    <3>1. Ref!count_zero_bits(units, o) <= lfb BY <1>2, <1>9, <2>2
    <3> QED BY <1>2, <1>5, <2>1, <3>1
  <2>3. CASE ~(o < scan_offset)
    <3>1. Ref!count_zero_bits(units, o) <= z BY <1>2, <1>4, <1>9, <2>3
    <3> QED BY <1>3, <1>5, <2>1, <3>1
  <2> QED BY <2>2, <2>3
<1>10. \E o \in Nat : Header <= o /\ o < e /\ Ref!count_zero_bits(units, o) = lfb'
  <2>1. CASE lfb' = z
    <3>1. Header <= scan_offset /\ scan_offset < e /\ Ref!count_zero_bits(units, scan_offset) = lfb'
      BY <1>2, <1>3, <1>4, <2>1
    <3> QED BY <1>2, <3>1
  <2>2. CASE lfb' = lfb /\ lfb' # z
    <3>1. ~(scan_offset = Header /\ lfb = 0) BY <1>2, <1>3, <1>5, <2>2
    <3>2. PICK o \in Nat : Header <= o /\ o < scan_offset /\ Ref!count_zero_bits(units, o) = lfb
      BY <1>2, <3>1
    <3>3. o < e BY <1>2, <1>4, <3>2
    <3> QED BY <2>2, <3>2, <3>3
  <2> QED BY <1>5, <2>1, <2>2
<1>11. LongestInv'
  <2>1. \A o \in Nat : Header <= o /\ o < scan_offset' => Ref!count_zero_bits(units', o) <= lfb'
    BY <1>1, <1>9
  <2>2. \E o \in Nat : Header <= o /\ o < scan_offset' /\ Ref!count_zero_bits(units', o) = lfb'
    BY <1>1, <1>10
  <2> QED BY <1>6, <1>8, <2>1, <2>2 DEF LongestInv, Header
<1>12. Shows(words, units)' BY <1>1 DEF WordInv, Shows
<1> QED BY <1>1, <1>7, <1>11, <1>12 DEF WordInv, FindInv, SearchesExact

LEMMA LongestFoundKeeps ==
  ASSUME WordInv, LongestFound PROVE WordInv'
<1>1. /\ scan = "find_longest_free_block" /\ scan_left = 0 /\ scan' = "found_longest"
      /\ words' = words /\ units' = units /\ scan_offset' = scan_offset
      /\ scan_size' = scan_size /\ scan_left' = scan_left /\ lfb' = lfb
  BY DEF LongestFound
<1>2. /\ Exact /\ scan_offset = units_per_page /\ lfb \in Nat
      /\ \A o \in Nat : Header <= o /\ o < scan_offset => Ref!count_zero_bits(units, o) <= lfb
      /\ \/ scan_offset = Header /\ lfb = 0
         \/ \E o \in Nat : /\ Header <= o /\ o < scan_offset
                           /\ Ref!count_zero_bits(units, o) = lfb
  BY <1>1, ExactWords, Page DEF WordInv, ScansTypeOK, LongestInv, Searched
<1> DEFINE counts == {Ref!count_zero_bits(units, o) : o \in Ref!DataUnit}
<1>3. ASSUME NEW o
      PROVE  o \in Ref!DataUnit <=> o \in Nat /\ Header <= o /\ o < scan_offset
  BY <1>2, Page DEF Ref!DataUnit, Header
<1>4. lfb \in counts
  <2>1. PICK o \in Nat : Header <= o /\ o < scan_offset /\ Ref!count_zero_bits(units, o) = lfb
    BY <1>2, Page
  <2>2. o \in Ref!DataUnit BY <1>3, <2>1
  <2> QED BY <2>1, <2>2
<1>5. ASSUME NEW c \in counts PROVE c \in Nat /\ c <= lfb
  <2>1. PICK o \in Ref!DataUnit : c = Ref!count_zero_bits(units, o) OBVIOUS
  <2>2. o \in Nat /\ Header <= o /\ o < scan_offset BY <1>3
  <2>3. o <= units_per_page /\ 0 \in Nat BY <1>2, <2>2, Page
  <2>4. c \in Nat BY <1>2, <2>1, <2>2, <2>3, ZerosCounted
  <2> QED BY <1>2, <2>1, <2>2, <2>4
<1>6. Ref!find_longest_free_block(units) = Ref!Max(counts)
  BY DEF Ref!find_longest_free_block
<1> HIDE DEF counts
<1>7. Ref!Max(counts) \in counts /\ lfb <= Ref!Max(counts)
  <2>1. counts \in SUBSET Nat /\ counts # {} BY <1>4, <1>5
  <2> QED BY <1>2, <1>4, <1>5, <2>1, GreatestOfBounded
<1>8. Ref!Max(counts) = lfb
  <2>1. Ref!Max(counts) \in Nat /\ Ref!Max(counts) <= lfb BY <1>5, <1>7
  <2> QED BY <1>2, <1>7, <2>1
<1>9. SearchesExact' BY <1>1, <1>6, <1>8 DEF SearchesExact
<1>10. ScansTypeOK' BY <1>1 DEF WordInv, ScansTypeOK
<1>11. Shows(words, units)' BY <1>1 DEF WordInv, Shows
<1> QED BY <1>1, <1>9, <1>10, <1>11 DEF WordInv, FindInv, LongestInv

LEMMA WordStep == WordInv /\ [ScansNext]_scans_vars => WordInv'
<1> SUFFICES ASSUME WordInv, [ScansNext]_scans_vars PROVE WordInv'
  OBVIOUS
<1>0. CASE \E k \in 1 .. (Ref!max_data_units - 1) : NewPage(k) BY <1>0, NewPageKeeps
<1>1. CASE Update BY <1>1, UpdateKeeps
<1>2. CASE \E size \in 1 .. (Ref!max_data_units - 1) : StartFind(size)
  BY <1>2, StartFindKeeps
<1>3. CASE FindNext BY <1>3, FindNextKeeps
<1>4. CASE StartLongest BY <1>4, StartLongestKeeps
<1>5. CASE LongestNext BY <1>5, LongestNextKeeps
<1>6. CASE LongestFound BY <1>6, LongestFoundKeeps
<1>7. CASE Return BY <1>7, ReturnKeeps
<1>8. CASE UNCHANGED scans_vars BY <1>8, StutterKeeps
<1> QED BY <1>0, <1>1, <1>2, <1>3, <1>4, <1>5, <1>6, <1>7, <1>8 DEF ScansNext

LEMMA WordInvariant == ScansSpec => []WordInv
BY WordInit, WordStep, PTL DEF ScansSpec

-----------------------------------------------------------------------------
(* What the invariant says of the updates, the counts and the searches. *)

LEMMA UpdatesAre == WordInv => UpdatesExact
<1> SUFFICES ASSUME WordInv,
                    NEW o \in Ref!Unit, NEW k \in 1 .. (units_per_page - o),
                    NEW m \in masks(o, k)
             PROVE  m[1] \in Words
  BY DEF WordInv, UpdatesExact
<1>1. o \in Nat /\ k \in Nat \ {0} /\ o + k <= units_per_page BY Page DEF Ref!Unit
<1> QED BY <1>1, MasksInside

LEMMA CountsAre == WordInv => CountsExact
<1> SUFFICES ASSUME WordInv,
                    NEW o \in 0 .. (units_per_page - 1), NEW limit \in 1 .. units_per_page
             PROVE  LET zeros == count_zero_bits(words, o, limit)
                        ones  == count_nonzero_bits(words, o, limit)
                        all_zeros == Ref!count_zero_bits(units, o)
                        all_ones  == Ref!count_zero_bits(Ref!Unit \ units, o)
                    IN  /\ zeros <= all_zeros /\ (zeros < limit => zeros = all_zeros)
                        /\ ones <= all_ones /\ (ones < limit => ones = all_ones)
  BY DEF CountsExact
<1> DEFINE rest == Ref!Unit \ units
<1>1. Exact /\ o \in Nat /\ o <= units_per_page /\ limit \in Nat BY ExactWords, Page
<1>2. /\ Counted(count_zero_bits(words, o, limit), units, o, limit)
      /\ Counted(count_nonzero_bits(words, o, limit), rest, o, limit)
  BY <1>1, Counts DEF Exact
<1>3. units \in SUBSET Ref!Unit /\ rest \in SUBSET Ref!Unit BY <1>1 DEF Exact
<1> HIDE DEF rest
<1>4. /\ count_zero_bits(words, o, limit) <= Ref!count_zero_bits(units, o)
      /\ count_zero_bits(words, o, limit) < limit
           => count_zero_bits(words, o, limit) = Ref!count_zero_bits(units, o)
  BY <1>1, <1>2, <1>3, CountedExact
<1>5. /\ count_nonzero_bits(words, o, limit) <= Ref!count_zero_bits(rest, o)
      /\ count_nonzero_bits(words, o, limit) < limit
           => count_nonzero_bits(words, o, limit) = Ref!count_zero_bits(rest, o)
  BY <1>1, <1>2, <1>3, CountedExact
<1> QED BY <1>4, <1>5 DEF rest

LEMMA SearchesMove == WordInv => SearchMovesOn
<1> SUFFICES ASSUME WordInv PROVE SearchMovesOn OBVIOUS
<1> DEFINE zeros == count_zero_bits(words, scan_offset, scan_size)
           rest  == count_zero_bits(words, scan_offset, scan_left)
           ahead == (scan_offset + 1) .. units_per_page
<1>1. scan_offset \in Nat /\ units_per_page \in Nat BY Page DEF WordInv, ScansTypeOK
<1>2. ASSUME scan = "find_free_block", scan_offset < units_per_page
      PROVE  \/ long_enough(zeros, scan_size)
             \/ after_runs(scan_offset, zeros, UINT_MAX) \in ahead
  <2> DEFINE e == after_runs(scan_offset, zeros, UINT_MAX)
  <2>1. ~long_enough(zeros, scan_size) => Passes(scan_offset, zeros, e)
    BY <1>2, FindTurn
  <2> HIDE DEF zeros, e
  <2>2. ASSUME Passes(scan_offset, zeros, e) PROVE e \in ahead BY <1>1, <2>2 DEF Passes
  <2> QED BY <2>1, <2>2 DEF e
<1>3. ASSUME scan = "find_longest_free_block"
      PROVE  /\ scan_left = units_per_page - scan_offset
             /\ scan_left # 0 =>
                  /\ rest <= scan_left
                  /\ after_runs(scan_offset, rest, scan_left - rest) \in ahead
  <2> DEFINE e == after_runs(scan_offset, rest, scan_left - rest)
  <2>1. scan_left = units_per_page - scan_offset BY <1>3 DEF WordInv, LongestInv
  <2>2. scan_left # 0 => rest <= scan_left /\ Passes(scan_offset, rest, e)
    BY <1>3, LongestTurn
  <2> HIDE DEF rest, e
  <2>3. ASSUME Passes(scan_offset, rest, e) PROVE e \in ahead BY <1>1, <2>3 DEF Passes
  <2> QED BY <2>1, <2>2, <2>3 DEF e
<1> QED BY <1>2, <1>3 DEF SearchMovesOn

(* From the making of a page on, for words of any width and pages of any   *)
(* number of them: set_bits and clear_bits change the run's bits and no    *)
(* others, and no word behind the bitmap; counts are exact below their     *)
(* limit and never too long; find_free_block finds the lowest offset with  *)
(* room, or that there is none, and find_longest_free_block the longest    *)
(* run; and every turn of a search moves it on, within the page.           *)
THEOREM ExactScans == ScansSpec => []ScansExact
<1>1. WordInv => SearchesExact BY DEF WordInv
<1>2. WordInv => ScansExact
  BY <1>1, UpdatesAre, CountsAre, SearchesMove DEF ScansExact
<1> QED BY <1>2, WordInvariant, PTL
=============================================================================
