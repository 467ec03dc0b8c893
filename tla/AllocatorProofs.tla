-------------------------- MODULE AllocatorProofs ---------------------------
(***************************************************************************)
(* What a client may rely on whichever allocator the program has, for all  *)
(* sizes of unit and page, all addresses and all sizes: each block is      *)
(* counted once and covered, nobody is aborted or alarmed for nothing, and *)
(* the pet, stdlib and debug allocators implement AllocatorContract.       *)
(*                                                                         *)
(* The invariant says, per allocator, how the tables go together.  For the *)
(* pet allocator it has to be stronger than PetCovered: a block in pages   *)
(* is covered by whole pages, for a reallocation to as many units leaves   *)
(* reserved alone, and a careful client's block is in the sub-allocator    *)
(* its size says, for _reallocate goes by sizes alone.                     *)
(***************************************************************************)
EXTENDS Allocators, TLAPS, FiniteSetTheorems

(* A page is a whole number of units and unsigned a whole number of pages. *)
LEMMA Sizing ==
  /\ UNIT_SIZE \in Nat \ {0} /\ sys_page_size \in Nat \ {0} /\ UNSIGNED \in Nat \ {0}
  /\ Sizes \subseteq 0 .. UNSIGNED - 1
  /\ \E p \in Nat \ {0} : sys_page_size = UNIT_SIZE * p
  /\ \E w \in Nat \ {0} : UNSIGNED = sys_page_size * w
  /\ \E w \in Nat \ {0} : UNSIGNED = UNIT_SIZE * w
<1>1. /\ UNIT_SIZE \in Nat \ {0} /\ sys_page_size \in Nat \ {0} /\ UNSIGNED \in Nat \ {0}
      /\ Sizes \subseteq 0 .. UNSIGNED - 1
      /\ sys_page_size % UNIT_SIZE = 0 /\ UNSIGNED % sys_page_size = 0
  BY InterfaceAssumption, AllocatorsAssumption
     DEF InterfaceAssumption, AllocatorsAssumption, Debug!DebugAssumption
<1>2. ASSUME NEW x \in Nat \ {0}, NEW a \in Nat \ {0}, x % a = 0
      PROVE  \E q \in Nat \ {0} : x = a * q
  <2>1. x = (a * (x \div a)) + (x % a) /\ x \div a \in Int
    BY <1>2
  <2>2. x \div a > 0
    BY <1>2, <2>1, Z3
  <2>3. x = a * (x \div a) /\ x \div a \in Nat \ {0}
    BY <2>1, <2>2, <1>2
  <2> QED
    BY <2>3
<1>3. PICK p \in Nat \ {0} : sys_page_size = UNIT_SIZE * p
  BY <1>1, <1>2
<1>4. PICK w \in Nat \ {0} : UNSIGNED = sys_page_size * w
  BY <1>1, <1>2
<1>5. p * w \in Nat \ {0} /\ UNSIGNED = UNIT_SIZE * (p * w)
  BY <1>1, <1>3, <1>4
<1> QED
  BY <1>1, <1>3, <1>4, <1>5

(* Multiples of a that are less than a apart are equal. *)
LEMMA NearMultiples ==
  ASSUME NEW a \in Nat \ {0}, NEW i \in Int, NEW j \in Int,
         a * i < a * j + a
  PROVE  i <= j /\ a * i <= a * j
<1>1. i < j + 1
  BY Z3
<1>2. i <= j
  BY <1>1
<1> QED
  BY <1>2, Z3

(* Rounding up, when it does not wrap and when it does. *)
LEMMA Rounded ==
  ASSUME NEW a \in Nat \ {0}, NEW w \in Nat \ {0}, UNSIGNED = a * w,
         NEW n \in 0 .. UNSIGNED - 1
  PROVE  \E i \in Nat :
           /\ align_unsigned(n, a) = a * i
           /\ n <= UNSIGNED - a => n <= a * i /\ a * i < n + a /\ a * i <= UNSIGNED
           /\ n > UNSIGNED - a => i = 0
<1> DEFINE up == (n + a - 1) % UNSIGNED
<1>1. UNSIGNED \in Nat \ {0} /\ UNSIGNED >= a
  BY Z3
<1>2. up \in Nat /\ up = (a * (up \div a)) + (up % a) /\ up % a \in 0 .. a - 1 /\ up \div a \in Int
  BY <1>1
<1>3. up \div a >= 0
  BY <1>2, Z3
<1>4. align_unsigned(n, a) = a * (up \div a)
  BY <1>2 DEF align_unsigned
<1>5. CASE n <= UNSIGNED - a
  <2>1. up = n + a - 1
    BY <1>5, <1>1
  <2> QED
    BY <2>1, <1>2, <1>3, <1>4, <1>5
<1>6. CASE n > UNSIGNED - a
  <2>1. up = n + a - 1 - UNSIGNED
    BY <1>6, <1>1
  <2>2. up < a
    BY <2>1
  <2>3. up \div a = 0
    BY <2>2, <1>2, <1>3, Z3
  <2> QED
    BY <2>3, <1>4, <1>6, <1>1
<1> QED
  BY <1>5, <1>6, <1>1

(* What the properties need of the sizes: rounding is no less than what it *)
(* rounds, and sizes of as many units are of as many pages.                *)
LEMMA UnitsUp ==
  ASSUME NEW n \in Sizes
  PROVE  /\ bytes_to_units(n) \in Nat /\ align_unsigned_to_page(n) \in Nat
         /\ align_unsigned(n, UNIT_SIZE) = UNIT_SIZE * bytes_to_units(n)
         /\ \E j \in Nat : align_unsigned_to_page(n) = sys_page_size * j
         /\ ~Huge(n) => /\ UNIT_SIZE * bytes_to_units(n) \in n .. n + UNIT_SIZE - 1
                        /\ align_unsigned_to_page(n) \in n .. n + sys_page_size - 1
         /\ Huge(n) => bytes_to_units(n) = 0 \/ UNIT_SIZE * bytes_to_units(n) >= n
         /\ n = 0 => align_unsigned_to_page(n) = 0
         /\ Huge(n) => align_unsigned_to_page(n) = 0
<1> DEFINE U == UNIT_SIZE
           P == sys_page_size
<1>1. /\ U \in Nat \ {0} /\ P \in Nat \ {0} /\ UNSIGNED \in Nat \ {0}
      /\ n \in 0 .. UNSIGNED - 1
  BY Sizing
<1>2. PICK w \in Nat \ {0} : UNSIGNED = P * w
  BY Sizing
<1>3. PICK v \in Nat \ {0} : UNSIGNED = U * v
  BY Sizing
<1>4. PICK p \in Nat \ {0} : P = U * p
  BY Sizing
<1>5. U <= P
  BY <1>4, <1>1, Z3
<1>6. PICK i \in Nat :
        /\ align_unsigned(n, U) = U * i
        /\ n <= UNSIGNED - U => n <= U * i /\ U * i < n + U /\ U * i <= UNSIGNED
        /\ n > UNSIGNED - U => i = 0
  BY <1>1, <1>3, Rounded
<1>7. PICK j \in Nat :
        /\ align_unsigned(n, P) = P * j
        /\ n <= UNSIGNED - P => n <= P * j /\ P * j < n + P /\ P * j <= UNSIGNED
        /\ n > UNSIGNED - P => j = 0
  BY <1>1, <1>2, Rounded
<1>8. (U * i) \div U = i
  BY <1>1, <1>6, Z3
<1>9. bytes_to_units(n) = i
  BY <1>6, <1>8 DEF bytes_to_units
<1>10. align_unsigned_to_page(n) = P * j /\ P * j \in Nat
  BY <1>1, <1>7 DEF align_unsigned_to_page
<1>11. ~Huge(n) => n <= UNSIGNED - P
  BY <1>1 DEF Huge
<1>12. ~Huge(n) => n <= UNSIGNED - U
  BY <1>11, <1>5, <1>1
<1>13. Huge(n) => P * j = 0
  BY <1>7, <1>1 DEF Huge
<1>14. n = 0 => P * j = 0
  <2>1. n = 0 /\ n <= UNSIGNED - P => P * j < P * 0 + P
    BY <1>7, <1>1
  <2>2. n = 0 /\ n <= UNSIGNED - P => j <= 0
    BY <2>1, <1>1, NearMultiples
  <2>3. n = 0 => j = 0
    BY <2>2, <1>7, <1>1
  <2> QED
    BY <2>3, <1>1
<1>15. U * i \in Nat
  BY <1>1, <1>6
<1>16. ~Huge(n) => U * i \in n .. n + U - 1 /\ P * j \in n .. n + P - 1
  BY <1>6, <1>7, <1>10, <1>11, <1>12, <1>15, <1>1
<1>17. i = 0 \/ U * i >= n
  BY <1>6, <1>15, <1>1
<1> QED
  BY <1>6, <1>7, <1>9, <1>10, <1>13, <1>14, <1>16, <1>17

(* Sizes of as many units are of as many pages, but for sizes that wrap.   *)
LEMMA SameUnits ==
  ASSUME NEW m \in Sizes, NEW n \in Sizes, bytes_to_units(m) = bytes_to_units(n),
         ~Huge(n)
  PROVE  \/ ~Huge(m) /\ align_unsigned_to_page(m) = align_unsigned_to_page(n)
         \/ n = 0
<1> DEFINE U == UNIT_SIZE
           P == sys_page_size
           i == bytes_to_units(n)
<1>1. /\ U \in Nat \ {0} /\ P \in Nat \ {0} /\ UNSIGNED \in Nat \ {0} /\ i \in Nat
      /\ m \in 0 .. UNSIGNED - 1 /\ n \in 0 .. UNSIGNED - 1
  BY Sizing, UnitsUp
<1>2. PICK p \in Nat \ {0} : P = U * p
  BY Sizing
<1>3. PICK v \in Nat \ {0} : UNSIGNED = U * v
  BY Sizing
<1>4. U * i \in n .. n + U - 1
  BY UnitsUp
<1>5. ASSUME NEW k \in Sizes, NEW l \in Sizes, ~Huge(k), ~Huge(l),
             bytes_to_units(k) = i, bytes_to_units(l) = i
      PROVE  align_unsigned_to_page(k) <= align_unsigned_to_page(l)
  <2>1. PICK j \in Nat : align_unsigned_to_page(k) = P * j
    BY UnitsUp
  <2>2. PICK h \in Nat : align_unsigned_to_page(l) = P * h
    BY UnitsUp
  <2>3. /\ k \in Nat /\ l \in Nat
        /\ U * i \in k .. k + U - 1 /\ U * i \in l .. l + U - 1
        /\ P * j \in k .. k + P - 1 /\ P * h \in l .. l + P - 1
    BY <1>5, <2>1, <2>2, UnitsUp, Sizing
  <2>4. p * h \in Nat /\ P * h = U * (p * h)
    BY <1>1, <1>2, <2>2
  <2>5. U * i < U * (p * h) + U
    BY <2>3, <2>4, <1>1
  <2>6. U * i <= P * h
    BY <2>4, <2>5, <1>1, NearMultiples
  <2>7. P * j < P * h + P
    BY <2>3, <2>6, <1>1
  <2>8. P * j <= P * h
    BY <2>7, <1>1, <2>1, <2>2, NearMultiples
  <2> QED
    BY <2>1, <2>2, <2>8
<1>6. CASE ~Huge(m)
  <2>1. /\ align_unsigned_to_page(m) <= align_unsigned_to_page(n)
        /\ align_unsigned_to_page(n) <= align_unsigned_to_page(m)
    BY <1>5, <1>6
  <2>2. align_unsigned_to_page(m) \in Nat /\ align_unsigned_to_page(n) \in Nat
    BY UnitsUp
  <2> QED
    BY <1>6, <2>1, <2>2
<1>7. CASE Huge(m) /\ i = 0
  BY <1>4, <1>7, <1>1
<1>8. CASE Huge(m) /\ i # 0
  <2>1. U * i >= m
    BY UnitsUp, <1>8
  <2>2. m > UNSIGNED - P /\ n <= UNSIGNED - P
    BY <1>8, <1>1 DEF Huge
  <2>3. v - p \in Int /\ UNSIGNED - P = U * (v - p)
    BY <1>1, <1>2, <1>3
  <2>4. U * i < U * (v - p) + U
    BY <1>4, <2>2, <2>3, <1>1
  <2>5. U * i <= U * (v - p)
    BY <2>3, <2>4, <1>1, NearMultiples
  <2> QED
    BY <2>1, <2>2, <2>3, <2>5, <1>1, <1>4
<1> QED
  BY <1>6, <1>7, <1>8

(* More bytes are no fewer pages.                                          *)
LEMMA PagesMonotone ==
  ASSUME NEW m \in Sizes, NEW n \in Sizes, m <= n, ~Huge(n)
  PROVE  align_unsigned_to_page(m) <= align_unsigned_to_page(n)
<1> DEFINE P == sys_page_size
<1>1. /\ P \in Nat \ {0} /\ UNSIGNED \in Nat \ {0}
      /\ m \in 0 .. UNSIGNED - 1 /\ n \in 0 .. UNSIGNED - 1
  BY Sizing
<1>2. ~Huge(m)
  BY <1>1 DEF Huge
<1>3. PICK j \in Nat : align_unsigned_to_page(m) = P * j
  BY UnitsUp
<1>4. PICK h \in Nat : align_unsigned_to_page(n) = P * h
  BY UnitsUp
<1>5. P * j \in m .. m + P - 1 /\ P * h \in n .. n + P - 1
  BY <1>2, <1>3, <1>4, UnitsUp
<1>6. P * j < P * h + P
  BY <1>1, <1>5
<1> QED
  BY <1>1, <1>3, <1>4, <1>6, NearMultiples

-----------------------------------------------------------------------------
(* The inductive invariant.                                                *)

Books ==
  /\ DOMAIN held \subseteq Address /\ IsFiniteSet(DOMAIN held)
  /\ held \in [DOMAIN held -> Sizes]
  /\ outcome = "running" => blocks_allocated = Cardinality(DOMAIN held)

PetInv ==
  /\ outcome = "running" => DOMAIN reserved = DOMAIN held
  /\ \A a \in DOMAIN held :
       /\ a \in DOMAIN reserved /\ reserved[a] \in Nat
       /\ a \in UnitAddr => /\ is_small(bytes_to_units(held[a]))
                            /\ reserved[a] = UNIT_SIZE * bytes_to_units(held[a])
       /\ a \in PageAddr /\ ~Huge(held[a]) =>
            reserved[a] >= align_unsigned_to_page(held[a])
       /\ careful => /\ ~Huge(held[a]) /\ held[a] # 0
                     /\ a \in PageAddr => ~is_small(bytes_to_units(held[a]))
  /\ outcome \in {"running", "abort", "bad_header"}
  /\ careful => outcome # "abort"

StdlibInv == heap = DOMAIN held

DebugInv ==
  /\ outcome = "running" =>
       /\ DOMAIN damage = DOMAIN held /\ strayed \subseteq DOMAIN held
       /\ \A a \in strayed : damage[a] \cap Debug!Guard(held[a]) # {}
  /\ outcome # "abort"

AllocatorsInv ==
  /\ Books
  /\ default_allocator = "pet" => PetInv /\ strayed = {}
  /\ default_allocator = "stdlib" => StdlibInv /\ outcome = "running" /\ strayed = {}
  /\ default_allocator = "debug" => DebugInv
  /\ default_allocator \in {"pet", "stdlib", "debug"}

(* The steps a client sees. *)
Adds(b, n) ==
  /\ outcome' = outcome
  /\ b \in Address \ DOMAIN held /\ n \in Sizes
  /\ held' = Contract!With(held, b, n)
  /\ blocks_allocated' = blocks_allocated + 1

Drops(a) ==
  /\ outcome' = outcome
  /\ a \in DOMAIN held
  /\ held' = Contract!Without(held, a)
  /\ blocks_allocated' = blocks_allocated - 1

Changes(a, b, n) ==
  /\ outcome' = outcome
  /\ a \in DOMAIN held /\ n \in Sizes
  /\ b = a \/ b \in Address \ DOMAIN held
  /\ held' = Contract!With(Contract!Without(held, a), b, n)
  /\ blocks_allocated' = blocks_allocated

Promised == careful => Contract!Next \/ UNCHANGED Contract!vars

(* A block that is added to a table.                                       *)
LEMMA With ==
  ASSUME NEW f, NEW b, NEW v, NEW g, g = Contract!With(f, b, v)
  PROVE  /\ \A x : x \in DOMAIN g <=> x \in DOMAIN f \/ x = b
         /\ g[b] = v
         /\ \A x \in DOMAIN f : x # b => g[x] = f[x]
         /\ g = [x \in DOMAIN g |-> g[x]]
  BY DEF Contract!With

(* A block that is taken from a table.                                     *)
LEMMA Without ==
  ASSUME NEW f, NEW a, NEW g, g = Contract!Without(f, a)
  PROVE  /\ \A x : x \in DOMAIN g <=> x \in DOMAIN f /\ x # a
         /\ \A x \in DOMAIN g : g[x] = f[x]
         /\ g = [x \in DOMAIN g |-> g[x]]
  BY DEF Contract!Without, Contract!Restrict

(* A block that changes its size and perhaps its address. *)
LEMMA Moved ==
  ASSUME NEW f, NEW a, NEW b, NEW v, NEW g,
         g = Contract!With(Contract!Without(f, a), b, v)
  PROVE  /\ \A x : x \in DOMAIN g <=> (x \in DOMAIN f /\ x # a) \/ x = b
         /\ g[b] = v
         /\ \A x \in DOMAIN f : x # a /\ x # b => g[x] = f[x]
         /\ g = [x \in DOMAIN g |-> g[x]]
  BY DEF Contract!With, Contract!Without, Contract!Restrict

(* The sizes are natural numbers. *)
LEMMA SizesNat == Sizes \subseteq Nat
  BY Sizing

(* The client's blocks are counted as they come and go. *)
LEMMA BooksStep ==
  ASSUME Books, outcome = "running",
         \/ /\ held' = held
            /\ outcome' = "running" => blocks_allocated' = blocks_allocated
         \/ \E b, n : Adds(b, n)
         \/ \E a : Drops(a)
         \/ \E a, b, n : Changes(a, b, n)
  PROVE  Books'
<1> DEFINE D == DOMAIN held
<1>1. D \subseteq Address /\ IsFiniteSet(D) /\ held \in [D -> Sizes]
      /\ blocks_allocated = Cardinality(D) /\ Cardinality(D) \in Nat
  BY FS_CardinalityType DEF Books
<1>2. CASE /\ held' = held
           /\ outcome' = "running" => blocks_allocated' = blocks_allocated
  <2>1. held' = held /\ (outcome' = "running" => blocks_allocated' = Cardinality(DOMAIN held'))
    BY <1>1, <1>2
  <2> QED
    BY <1>1, <2>1 DEF Books
<1>3. ASSUME NEW b, NEW n, Adds(b, n)
      PROVE  Books'
  <2>1. b \notin D /\ b \in Address /\ n \in Sizes /\ held' = Contract!With(held, b, n)
        /\ blocks_allocated' = blocks_allocated + 1
    BY <1>3 DEF Adds
  <2>2. DOMAIN held' = D \cup {b} /\ held' \in [DOMAIN held' -> Sizes]
    <3>1. \A x : x \in DOMAIN held' <=> x \in D \/ x = b
      BY <2>1, With
    <3>2. held' = [x \in DOMAIN held' |-> held'[x]] /\ \A x \in DOMAIN held' : held'[x] \in Sizes
      BY <1>1, <2>1, <3>1, With
    <3> QED
      BY <3>1, <3>2
  <2>3. IsFiniteSet(D \cup {b}) /\ Cardinality(D \cup {b}) = Cardinality(D) + 1
    BY <1>1, <2>1, FS_AddElement
  <2> QED
    BY <1>1, <2>1, <2>2, <2>3 DEF Books
<1>4. ASSUME NEW a, Drops(a)
      PROVE  Books'
  <2>1. a \in D /\ held' = Contract!Without(held, a)
        /\ blocks_allocated' = blocks_allocated - 1
    BY <1>4 DEF Drops
  <2>2. DOMAIN held' = D \ {a} /\ held' \in [DOMAIN held' -> Sizes]
    <3>1. \A x : x \in DOMAIN held' <=> x \in D /\ x # a
      BY <2>1, Without
    <3>2. held' = [x \in DOMAIN held' |-> held'[x]] /\ \A x \in DOMAIN held' : held'[x] \in Sizes
      BY <1>1, <2>1, <3>1, Without
    <3> QED
      BY <3>1, <3>2
  <2>3. IsFiniteSet(D \ {a}) /\ Cardinality(D \ {a}) = Cardinality(D) - 1
    BY <1>1, <2>1, FS_RemoveElement
  <2> QED
    BY <1>1, <2>1, <2>2, <2>3 DEF Books
<1>5. ASSUME NEW a, NEW b, NEW n, Changes(a, b, n)
      PROVE  Books'
  <2>1. /\ a \in D /\ n \in Sizes /\ (b = a \/ b \in Address \ D)
        /\ held' = Contract!With(Contract!Without(held, a), b, n)
        /\ blocks_allocated' = blocks_allocated
    BY <1>5 DEF Changes
  <2>2. DOMAIN held' = (D \ {a}) \cup {b} /\ held' \in [DOMAIN held' -> Sizes]
    <3>1. \A x : x \in DOMAIN held' <=> (x \in D /\ x # a) \/ x = b
      BY <2>1, Moved
    <3>2. held' = [x \in DOMAIN held' |-> held'[x]] /\ \A x \in DOMAIN held' : held'[x] \in Sizes
      BY <1>1, <2>1, <3>1, Moved
    <3> QED
      BY <3>1, <3>2
  <2>3. IsFiniteSet(D \ {a}) /\ Cardinality(D \ {a}) = Cardinality(D) - 1
    BY <1>1, <2>1, FS_RemoveElement
  <2>4. b \notin D \ {a}
    BY <2>1
  <2>5. /\ IsFiniteSet((D \ {a}) \cup {b})
        /\ Cardinality((D \ {a}) \cup {b}) = Cardinality(D \ {a}) + 1
    BY <2>3, <2>4, FS_AddElement
  <2>6. Cardinality((D \ {a}) \cup {b}) = Cardinality(D)
    BY <1>1, <2>3, <2>5
  <2>7. (D \ {a}) \cup {b} \subseteq Address
    BY <1>1, <2>1
  <2> QED
    BY <1>1, <2>1, <2>2, <2>5, <2>6, <2>7 DEF Books
<1> QED
  BY <1>2, <1>3, <1>4, <1>5

-----------------------------------------------------------------------------
(* The pet allocator, branch by branch.                                    *)

(* What every step of the pet allocator has to keep. *)
PetKept == Books' /\ PetInv' /\ Promised

(* Memory for n bytes is in the sub-allocator that n says, and enough. *)
LEMMA RoomOK ==
  ASSUME Books, PetInv, outcome = "running", NEW n \in Sizes, NEW b \in Room(n), b # NULL
  PROVE  /\ b \in Address \ DOMAIN held
         /\ Extent(n) \in Nat
         /\ b \in UnitAddr <=> is_small(bytes_to_units(n))
         /\ b \in PageAddr <=> ~is_small(bytes_to_units(n))
         /\ b \in UnitAddr => Extent(n) = UNIT_SIZE * bytes_to_units(n)
         /\ b \in PageAddr => Extent(n) = align_unsigned_to_page(n)
<1>1. DOMAIN reserved = DOMAIN held
  BY DEF PetInv
<1>2. UnitAddr \cap PageAddr = {} /\ UNIT_SIZE \in Nat
  BY InterfaceAssumption DEF InterfaceAssumption
<1>3. bytes_to_units(n) \in Nat /\ align_unsigned_to_page(n) \in Nat
  BY UnitsUp
<1>4. UNIT_SIZE * bytes_to_units(n) \in Nat
  BY <1>2, <1>3
<1>5. IF is_small(bytes_to_units(n)) THEN b \in UnitAddr \ DOMAIN held
                                     ELSE b \in PageAddr \ DOMAIN held
  BY <1>1 DEF Room
<1> QED
  BY <1>2, <1>3, <1>4, <1>5 DEF Extent, Address

(* A call fails and changes nothing. *)
LEMMA PetFails ==
  ASSUME Books, PetInv, outcome = "running", Fail
  PROVE  PetKept
<1>1. /\ held' = held /\ blocks_allocated' = blocks_allocated /\ reserved' = reserved
      /\ outcome' = outcome /\ careful' = careful
  BY DEF Fail, Keep, ledger, Contract!Fail
<1>2. Books'
  BY <1>1, BooksStep
<1>3. PetInv'
  BY <1>1 DEF PetInv
<1>4. Promised
  BY DEF Promised, Fail, Contract!Next
<1> QED
  BY <1>2, <1>3, <1>4 DEF PetKept

(* The program ends, with a ledger l that still has the client's blocks.   *)
LEMMA PetEnds ==
  ASSUME Books, PetInv, outcome = "running",
         NEW how \in {"abort", "bad_header"}, careful => how # "abort",
         NEW l,
         \A x \in DOMAIN held : x \in DOMAIN l.reserved /\ l.reserved[x] = reserved[x],
         Abort(how, l)
  PROVE  PetKept
<1>1. /\ held' = held /\ call' = call /\ careful' = careful /\ outcome' = how
      /\ reserved' = l.reserved
  BY DEF Abort, Keep
<1>2. how # "running"
  OBVIOUS
<1>3. Books'
  BY <1>1, <1>2, BooksStep
<1>4. PetInv'
  BY <1>1, <1>2 DEF PetInv
<1>5. Promised
  BY <1>1 DEF Promised, Contract!vars
<1> QED
  BY <1>3, <1>4, <1>5 DEF PetKept

(* It ends for the size or the address of a client that is not careful.    *)
LEMMA PetAborts ==
  ASSUME Books, PetInv, outcome = "running", ~careful, Abort("abort", ledger)
  PROVE  PetKept
<1>1. \A x \in DOMAIN held :
        x \in DOMAIN ledger.reserved /\ ledger.reserved[x] = reserved[x]
  BY DEF PetInv, ledger
<1> QED
  BY <1>1, PetEnds

(* A block taken is one more in the ledger.                                *)
LEMMA LedgerTakes ==
  ASSUME Books, PetInv, outcome = "running",
         NEW n \in Sizes, NEW b \in Room(n), b # NULL,
         NEW l, l = Taken(ledger, b, n)
  PROVE  /\ \A x : x \in DOMAIN l.reserved <=> x \in DOMAIN held \/ x = b
         /\ l.reserved[b] = Extent(n)
         /\ \A x \in DOMAIN held : l.reserved[x] = reserved[x]
         /\ l.blocks = blocks_allocated + 1
<1>1. l.reserved = Contract!With(reserved, b, Extent(n)) /\ l.blocks = blocks_allocated + 1
  BY DEF Taken, ledger
<1>2. DOMAIN reserved = DOMAIN held
  BY DEF PetInv
<1>3. b \notin DOMAIN held
  BY RoomOK
<1> QED
  BY <1>1, <1>2, <1>3, With

(* What a new or changed block has to be. *)
Fits(b, n, bytes) ==
  /\ bytes \in Nat
  /\ b \in UnitAddr => /\ is_small(bytes_to_units(n))
                       /\ bytes = UNIT_SIZE * bytes_to_units(n)
  /\ b \in PageAddr /\ ~Huge(n) => bytes >= align_unsigned_to_page(n)
  /\ careful => /\ ~Huge(n) /\ n # 0
                /\ b \in PageAddr => ~is_small(bytes_to_units(n))

(* Where a careful client asks for it, the bytes past the old are zero.    *)
Clears(a, n, clean, zero_from) ==
  careful /\ clean /\ n > held[a] => zero_from <= held[a]

(* A block that becomes another one keeps what is said of all of them, if  *)
(* its memory does and the count comes to the same.                        *)
LEMMA ReplaceStep ==
  ASSUME Books, PetInv, outcome = "running",
         NEW a \in DOMAIN held, NEW b, NEW n \in Sizes,
         NEW bytes, NEW clean \in BOOLEAN, NEW zero_from,
         b = a \/ b \in Address \ DOMAIN held,
         Fits(b, n, bytes),
         Clears(a, n, clean, zero_from),
         Replace(a, b, n, clean, zero_from),
         \A x : x \in DOMAIN reserved' <=> (x \in DOMAIN held /\ x # a) \/ x = b,
         reserved'[b] = bytes,
         \A x \in DOMAIN reserved' : x # b => reserved'[x] = reserved[x],
         blocks_allocated' = blocks_allocated
  PROVE  PetKept
<1>1. /\ held' = Contract!With(Contract!Without(held, a), b, n)
      /\ call' = Contract!Report(TRUE, b # a, clean, Smaller(held[a], n), zero_from)
      /\ UNCHANGED <<outcome, careful>>
  BY DEF Replace
<1>2. Changes(a, b, n)
  BY <1>1 DEF Changes
<1>3. Books'
  BY <1>2, BooksStep
<1>4. bytes \in Nat
  BY DEF Fits
<1>5. /\ \A x : x \in DOMAIN held' <=> (x \in DOMAIN held /\ x # a) \/ x = b
      /\ held'[b] = n
      /\ \A x \in DOMAIN held' : x # b => held'[x] = held[x]
  BY <1>1, Moved
<1>6. /\ \A x : x \in DOMAIN reserved' <=> (x \in DOMAIN held /\ x # a) \/ x = b
      /\ reserved'[b] = bytes
      /\ \A x \in DOMAIN reserved' : x # b => reserved'[x] = reserved[x]
  OBVIOUS
<1>7. ASSUME NEW x \in DOMAIN held'
      PROVE  /\ x \in DOMAIN reserved' /\ reserved'[x] \in Nat
             /\ x \in UnitAddr => /\ is_small(bytes_to_units(held'[x]))
                                  /\ reserved'[x] = UNIT_SIZE * bytes_to_units(held'[x])
             /\ x \in PageAddr /\ ~Huge(held'[x]) =>
                  reserved'[x] >= align_unsigned_to_page(held'[x])
             /\ careful' => /\ ~Huge(held'[x]) /\ held'[x] # 0
                            /\ x \in PageAddr => ~is_small(bytes_to_units(held'[x]))
  <2>1. CASE x = b
    BY <2>1, <1>1, <1>4, <1>5, <1>6 DEF Fits
  <2>2. CASE x # b
    <3>1. x \in DOMAIN held /\ held'[x] = held[x] /\ reserved'[x] = reserved[x]
          /\ x \in DOMAIN reserved' /\ careful' = careful
      BY <2>2, <1>1, <1>5, <1>6
    <3> QED
      BY <3>1 DEF PetInv
  <2> QED
    BY <2>1, <2>2
<1>8. PetInv'
  <2>1. DOMAIN reserved' = DOMAIN held'
    BY <1>5, <1>6
  <2>2. outcome' \in {"running", "abort", "bad_header"} /\ (careful' => outcome' # "abort")
    BY <1>1 DEF PetInv
  <2> QED
    BY <1>7, <2>1, <2>2 DEF PetInv
<1>9. Promised
  <2> SUFFICES ASSUME careful
               PROVE  Contract!Next
    BY DEF Promised
  <2>1. a \in Address /\ b \in Address /\ held[a] \in Sizes
    BY DEF Books
  <2>2. n \in Nat /\ held[a] \in Nat
    BY <2>1, SizesNat, Zenon
  <2>3. call' = [ok |-> TRUE, changed |-> b # a, clean |-> clean,
                 kept |-> Smaller(held[a], n), zero_from |-> zero_from]
    BY <1>1 DEF Contract!Report
  <2>4. call'.ok /\ (call'.changed <=> b # a)
    BY <2>3
  <2>5. call'.kept >= (IF n < held[a] THEN n ELSE held[a])
    BY <2>2, <2>3 DEF Smaller
  <2>6. call'.clean /\ n > held[a] => call'.zero_from <= held[a]
    BY <2>3 DEF Clears
  <2>7. Contract!Reallocate(a, b, n)
    BY <1>1, <2>4, <2>5, <2>6 DEF Contract!Reallocate
  <2> QED
    BY <2>1, <2>7 DEF Contract!Next
<1> QED
  BY <1>3, <1>8, <1>9 DEF PetKept

(* So does a block that its sub-allocator keeps or makes anew.             *)
LEMMA BecomeStep ==
  ASSUME Books, PetInv, outcome = "running",
         NEW a \in DOMAIN held, NEW b, NEW n \in Sizes,
         NEW bytes, NEW clean \in BOOLEAN, NEW zero_from,
         b = a \/ b \in Address \ DOMAIN held,
         Fits(b, n, bytes),
         Clears(a, n, clean, zero_from),
         Become(a, b, n, bytes, clean, zero_from)
  PROVE  PetKept
<1>1. /\ Replace(a, b, n, clean, zero_from)
      /\ reserved' = Contract!With(Contract!Without(reserved, a), b, bytes)
      /\ blocks_allocated' = blocks_allocated
  BY DEF Become
<1>2. DOMAIN reserved = DOMAIN held
  BY DEF PetInv
<1>3. /\ \A x : x \in DOMAIN reserved' <=> (x \in DOMAIN held /\ x # a) \/ x = b
      /\ reserved'[b] = bytes
      /\ \A x \in DOMAIN reserved' : x # b => reserved'[x] = reserved[x]
  BY <1>1, <1>2, Moved
<1> QED
  BY <1>1, <1>3, ReplaceStep

(* A block made where there is room fits.                                  *)
LEMMA RoomFits ==
  ASSUME Books, PetInv, outcome = "running", NEW n \in Sizes, NEW b \in Room(n), b # NULL,
         careful => ~Huge(n) /\ n # 0
  PROVE  b \in Address \ DOMAIN held /\ Fits(b, n, Extent(n))
<1>1. align_unsigned_to_page(n) \in Nat
  BY UnitsUp
<1> QED
  BY <1>1, RoomOK DEF Fits

(* _allocate() of the pet allocator.                                       *)
LEMMA PetAllocates ==
  ASSUME Books, PetInv, outcome = "running", NEW n \in Sizes, NEW clean \in BOOLEAN, _allocate(n, clean)
  PROVE  PetKept
<1>1. CASE Fail
  BY <1>1, PetFails
<1>2. CASE n # 0 /\ (careful => ~Huge(n)) /\ ~Fail
  <2> DEFINE zero_from == IF is_small(bytes_to_units(n)) THEN bm_allocate_cleans(clean, n)
                                                         ELSE call_mmap_cleans(clean, n)
  <2>1. PICK a \in Room(n) :
          /\ a # NULL
          /\ held' = Contract!With(held, a, n)
          /\ Keep(Taken(ledger, a, n))
          /\ call' = Contract!Report(TRUE, TRUE, clean, 0, zero_from)
          /\ UNCHANGED <<outcome, careful>>
    BY <1>2 DEF _allocate
  <2> DEFINE l == Taken(ledger, a, n)
  <2>a. /\ \A x : x \in DOMAIN l.reserved <=> x \in DOMAIN held \/ x = a
        /\ l.reserved[a] = Extent(n)
        /\ \A x \in DOMAIN held : l.reserved[x] = reserved[x]
        /\ l.blocks = blocks_allocated + 1
    BY <2>1, LedgerTakes
  <2>b. reserved' = l.reserved /\ blocks_allocated' = blocks_allocated + 1
    BY <2>1, <2>a DEF Keep
  <2> HIDE DEF l
  <2>2. a \in Address \ DOMAIN held /\ Fits(a, n, Extent(n))
    BY <1>2, <2>1, RoomFits
  <2>3. Adds(a, n)
    BY <2>1, <2>2, <2>b DEF Adds
  <2>4. Books'
    BY <2>3, BooksStep
  <2>5. DOMAIN reserved = DOMAIN held /\ \A x \in DOMAIN held : reserved[x] \in Nat
    BY DEF PetInv
  <2>6. /\ \A x : x \in DOMAIN held' <=> x \in DOMAIN held \/ x = a
        /\ held'[a] = n
        /\ \A x \in DOMAIN held' : x # a => held'[x] = held[x]
    BY <2>1, With
  <2>7. /\ \A x : x \in DOMAIN reserved' <=> x \in DOMAIN held \/ x = a
        /\ reserved'[a] = Extent(n)
        /\ \A x \in DOMAIN reserved' : x # a => reserved'[x] = reserved[x]
    BY <2>a, <2>b
  <2>8. ASSUME NEW x \in DOMAIN held'
        PROVE  /\ x \in DOMAIN reserved' /\ reserved'[x] \in Nat
               /\ x \in UnitAddr => /\ is_small(bytes_to_units(held'[x]))
                                    /\ reserved'[x] = UNIT_SIZE * bytes_to_units(held'[x])
               /\ x \in PageAddr /\ ~Huge(held'[x]) =>
                    reserved'[x] >= align_unsigned_to_page(held'[x])
               /\ careful' => /\ ~Huge(held'[x]) /\ held'[x] # 0
                              /\ x \in PageAddr => ~is_small(bytes_to_units(held'[x]))
    <3>1. CASE x = a
      BY <3>1, <2>1, <2>2, <2>6, <2>7 DEF Fits
    <3>2. CASE x # a
      <4>1. x \in DOMAIN held /\ held'[x] = held[x] /\ reserved'[x] = reserved[x]
            /\ x \in DOMAIN reserved' /\ careful' = careful
        BY <3>2, <2>1, <2>6, <2>7
      <4> QED
        BY <4>1 DEF PetInv
    <3> QED
      BY <3>1, <3>2
  <2>9. PetInv'
    <3>1. DOMAIN reserved' = DOMAIN held'
      BY <2>6, <2>7
    <3>2. outcome' \in {"running", "abort", "bad_header"} /\ (careful' => outcome' # "abort")
      BY <2>1 DEF PetInv
    <3> QED
      BY <2>8, <3>1, <3>2 DEF PetInv
  <2>10. Promised
    <3>1. call' = [ok |-> TRUE, changed |-> TRUE, clean |-> clean, kept |-> 0,
                   zero_from |-> zero_from]
      BY <2>1 DEF Contract!Report
    <3>2. clean => zero_from = 0
      BY DEF bm_allocate_cleans, call_mmap_cleans
    <3>3. call'.clean => call'.zero_from = 0
      BY <3>1, <3>2
    <3>4. call'.ok /\ call'.changed
      BY <3>1
    <3>5. Contract!Allocate(a, n)
      BY <2>1, <2>2, <3>3, <3>4 DEF Contract!Allocate
    <3> QED
      BY <2>2, <3>5 DEF Promised, Contract!Next
  <2> QED
    BY <2>4, <2>9, <2>10 DEF PetKept
<1> QED
  BY <1>1, <1>2 DEF _allocate

(* _release(): a careful client has no block of no bytes to abort for.     *)
LEMMA PetReleases ==
  ASSUME Books, PetInv, outcome = "running", NEW a \in DOMAIN held, _release(a)
  PROVE  PetKept
<1>1. CASE held[a] = 0
  <2>1. Abort("abort", ledger)
    BY <1>1 DEF _release
  <2>2. ~careful
    BY <1>1 DEF PetInv
  <2> QED
    BY <2>1, <2>2, PetAborts
<1>2. CASE held[a] # 0
  <2>1. /\ held' = Contract!Without(held, a)
        /\ reserved' = Contract!Without(reserved, a)
        /\ blocks_allocated' = blocks_allocated - 1
        /\ call' = Contract!Report(TRUE, FALSE, FALSE, 0, 0)
        /\ UNCHANGED <<outcome, careful>>
    BY <1>2 DEF _release, Keep, Given, ledger
  <2>2. Drops(a)
    BY <2>1 DEF Drops
  <2>3. Books'
    BY <2>2, BooksStep
  <2>4. DOMAIN reserved = DOMAIN held /\ \A x \in DOMAIN held : reserved[x] \in Nat
    BY DEF PetInv
  <2>5. /\ \A x : x \in DOMAIN held' <=> x \in DOMAIN held /\ x # a
        /\ \A x \in DOMAIN held' : held'[x] = held[x]
    BY <2>1, Without
  <2>6. /\ \A x : x \in DOMAIN reserved' <=> x \in DOMAIN held /\ x # a
        /\ \A x \in DOMAIN reserved' : reserved'[x] = reserved[x]
        /\ reserved' = [x \in DOMAIN reserved' |-> reserved'[x]]
    BY <2>1, <2>4, Without
  <2>7. PetInv'
    <3>1. DOMAIN reserved' = DOMAIN held'
      BY <2>5, <2>6
    <3>2. \A x \in DOMAIN held' :
            x \in DOMAIN held /\ held'[x] = held[x] /\ reserved'[x] = reserved[x]
      BY <2>5, <2>6
    <3> QED
      BY <2>1, <3>1, <3>2 DEF PetInv
  <2>8. Promised
    <3>1. a \in Address /\ call'.ok
      BY <2>1 DEF Books, Contract!Report
    <3>2. Contract!Release(a)
      BY <2>1, <3>1 DEF Contract!Release
    <3> QED
      BY <3>1, <3>2 DEF Promised, Contract!Next
  <2> QED
    BY <2>3, <2>7, <2>8 DEF PetKept
<1> QED
  BY <1>1, <1>2

(* A block left where it is with what is reserved for it. *)
LEMMA StaysFit ==
  ASSUME Books, PetInv, outcome = "running", NEW a \in DOMAIN held, NEW n \in Sizes,
         bytes_to_units(n) = bytes_to_units(held[a]),
         careful => ~Huge(n) /\ n # 0
  PROVE  Fits(a, n, reserved[a])
<1>1. held[a] \in Sizes /\ reserved[a] \in Nat
  BY DEF Books, PetInv
<1>2. a \in UnitAddr => /\ is_small(bytes_to_units(n))
                        /\ reserved[a] = UNIT_SIZE * bytes_to_units(n)
  BY DEF PetInv
<1>3. ASSUME a \in PageAddr, ~Huge(n)
      PROVE  reserved[a] >= align_unsigned_to_page(n)
  <2>1. CASE n = 0
    <3>1. align_unsigned_to_page(n) = 0
      BY <2>1, UnitsUp
    <3> QED
      BY <1>1, <3>1
  <2>2. CASE n # 0
    <3>1. ~Huge(held[a]) /\ align_unsigned_to_page(held[a]) = align_unsigned_to_page(n)
      BY <1>1, <1>3, <2>2, SameUnits
    <3>2. reserved[a] >= align_unsigned_to_page(held[a])
      BY <1>3, <3>1 DEF PetInv
    <3> QED
      BY <3>1, <3>2
  <2> QED
    BY <2>1, <2>2
<1>4. careful => (a \in PageAddr => ~is_small(bytes_to_units(n)))
  BY DEF PetInv
<1> QED
  BY <1>1, <1>2, <1>3, <1>4 DEF Fits

(* Where each branch clears from, for a client that asks for it.           *)
LEMMA BranchesClear ==
  ASSUME Books, NEW a \in DOMAIN held, NEW n \in Sizes, NEW clean \in BOOLEAN
  PROVE  /\ n = held[a] => Clears(a, n, clean, n)
         /\ Clears(a, n, clean, same_units_cleans(clean, held[a], n))
         /\ Clears(a, n, clean, call_mremap_cleans(clean, held[a], n))
         /\ Clears(a, n, clean, bm_grow_cleans(clean, held[a], n))
         /\ Clears(a, n, clean, move_cleans(clean, held[a], n))
<1>1. held[a] \in Sizes
  BY DEF Books
<1>2. held[a] \in Nat /\ n \in Nat
  BY <1>1, SizesNat, Zenon
<1> QED
  BY <1>2 DEF Clears, same_units_cleans, call_mremap_cleans, bm_grow_cleans, move_cleans

(* The arguments a client may give, with what a careful one avoids. *)
May(a, n) == a \in DOMAIN held /\ n \in Sizes /\ (careful => ~Avoided(a, n))

(* What follows for the sizes of a careful client.                         *)
LEMMA MayFits ==
  ASSUME NEW a, NEW n, May(a, n)
  PROVE  /\ a \in DOMAIN held /\ n \in Sizes
         /\ careful => ~Huge(n) /\ n # 0
         /\ careful => ~(is_small(bytes_to_units(n)) /\ ~is_small(bytes_to_units(held[a])))
  BY DEF May, Avoided

(* A reallocation to as many units.                                        *)
LEMMA SameStep ==
  ASSUME Books, PetInv, outcome = "running", NEW a, NEW n, NEW clean \in BOOLEAN, May(a, n),
         \/ n = held[a] /\ Become(a, a, n, reserved[a], clean, n)
         \/ Same(a, n, clean)
  PROVE  PetKept
<1>1. a \in DOMAIN held /\ n \in Sizes /\ (careful => ~Huge(n) /\ n # 0)
  BY MayFits
<1>2. PICK zero_from :
        /\ bytes_to_units(n) = bytes_to_units(held[a])
        /\ Become(a, a, n, reserved[a], clean, zero_from)
        /\ Clears(a, n, clean, zero_from)
  BY <1>1, BranchesClear DEF Same
<1>3. Fits(a, n, reserved[a])
  BY <1>1, <1>2, StaysFit
<1> QED
  BY <1>1, <1>2, <1>3, BecomeStep

(* call_mremap(), which keeps a page where shrinking it fails.             *)
LEMMA MremapStep ==
  ASSUME Books, PetInv, outcome = "running", NEW a, NEW n, NEW clean \in BOOLEAN, May(a, n),
         a \in PageAddr,
         careful => ~is_small(bytes_to_units(n)),
         call_mremap(a, n, clean)
  PROVE  PetKept
<1> DEFINE old_size == align_unsigned_to_page(held[a])
           new_size == align_unsigned_to_page(n)
           zero_from == call_mremap_cleans(clean, held[a], n)
<1>1. /\ a \in DOMAIN held /\ n \in Sizes /\ held[a] \in Sizes /\ reserved[a] \in Nat
      /\ careful => ~Huge(n) /\ n # 0
  BY MayFits DEF Books, PetInv
<1>2. old_size \in Nat /\ new_size \in Nat /\ n \in Nat /\ held[a] \in Nat
  <2>1. n \in Nat /\ held[a] \in Nat
    BY <1>1, SizesNat, Zenon
  <2> QED
    BY <1>1, <2>1, UnitsUp
<1>3. UnitAddr \cap PageAddr = {} /\ PageAddr \subseteq Address
  BY InterfaceAssumption DEF InterfaceAssumption, Address
<1>4. ~Huge(held[a]) => reserved[a] >= old_size
  BY <1>1 DEF PetInv
<1>5. ASSUME NEW b \in PageAddr, NEW bytes \in Nat, ~Huge(n) => bytes >= new_size
      PROVE  Fits(b, n, bytes)
  BY <1>1, <1>3, <1>5 DEF Fits
<1>c. Clears(a, n, clean, zero_from)
  BY <1>1, BranchesClear
<1>6. CASE Fail
  BY <1>6, PetFails
<1>7. CASE new_size = old_size /\ Become(a, a, n, reserved[a], clean, zero_from)
  <2>1. ~Huge(n) => reserved[a] >= new_size
    <3>1. CASE Huge(held[a])
      <4>1. new_size = 0
        BY <1>1, <1>7, <3>1, UnitsUp
      <4> QED
        BY <1>1, <4>1
    <3>2. CASE ~Huge(held[a])
      BY <1>4, <1>7, <3>2
    <3> QED
      BY <3>1, <3>2
  <2>2. Fits(a, n, reserved[a])
    BY <1>1, <1>5, <2>1
  <2> QED
    BY <1>1, <1>7, <1>c, <2>2, BecomeStep
<1>8. ASSUME new_size > old_size, NEW b \in {a} \cup (PageAddr \ DOMAIN reserved),
             Become(a, b, n, new_size, clean, zero_from)
      PROVE  PetKept
  <2>1. b \in PageAddr /\ (b = a \/ b \in Address \ DOMAIN held)
    BY <1>3 DEF PetInv
  <2>2. Fits(b, n, new_size)
    BY <1>2, <1>5, <2>1
  <2> QED
    BY <1>1, <1>8, <1>c, <2>1, <2>2, BecomeStep
<1>9. ASSUME new_size < old_size, NEW bytes \in {old_size} \cup ({new_size} \ {0}),
             Become(a, a, n, bytes, clean, n)
      PROVE  PetKept
  <2>1. bytes \in Nat /\ bytes >= new_size
    BY <1>2, <1>9
  <2>2. Fits(a, n, bytes)
    BY <1>5, <2>1
  <2>3. careful => n <= held[a]
    <3>1. CASE careful /\ held[a] <= n
      BY <1>1, <1>2, <1>9, <3>1, PagesMonotone
    <3> QED
      BY <1>2, <3>1
  <2>4. Clears(a, n, clean, n)
    BY <1>2, <2>3 DEF Clears
  <2> QED
    BY <1>1, <1>9, <2>2, <2>4, BecomeStep
<1> QED
  BY <1>6, <1>7, <1>8, <1>9 DEF call_mremap

(* A block that stays in its bitmap page with another number of units.     *)
LEMMA UnitsFit ==
  ASSUME NEW a \in UnitAddr, NEW n \in Sizes, is_small(bytes_to_units(n)),
         careful => ~Huge(n) /\ n # 0
  PROVE  Fits(a, n, Extent(n))
<1>1. UnitAddr \cap PageAddr = {} /\ UNIT_SIZE \in Nat
  BY InterfaceAssumption DEF InterfaceAssumption
<1>2. bytes_to_units(n) \in Nat
  BY UnitsUp
<1>3. Extent(n) = UNIT_SIZE * bytes_to_units(n) /\ Extent(n) \in Nat
  BY <1>1, <1>2 DEF Extent
<1> QED
  BY <1>1, <1>3 DEF Fits

(* Fewer units of the same bitmap page.                                    *)
LEMMA ShrinkInBitmapStep ==
  ASSUME Books, PetInv, outcome = "running", NEW a, NEW n, May(a, n),
         bytes_to_units(n) < bytes_to_units(held[a]), is_small(bytes_to_units(held[a])),
         ShrinkInBitmap(a, n)
  PROVE  PetKept
<1>1. a \in DOMAIN held /\ n \in Sizes /\ held[a] \in Sizes /\ (careful => ~Huge(n) /\ n # 0)
  BY MayFits DEF Books
<1>2. CASE a \in PageAddr
  <2>1. Abort("abort", ledger) /\ ~careful
    BY <1>1, <1>2 DEF ShrinkInBitmap, PetInv
  <2> QED
    BY <2>1, PetAborts
<1>3. CASE a \notin PageAddr
  <2>1. a \in UnitAddr /\ Become(a, a, n, Extent(n), FALSE, n)
    BY <1>1, <1>3 DEF ShrinkInBitmap, Books, Address
  <2>2. is_small(bytes_to_units(n))
    <3>1. bytes_to_units(n) \in Nat /\ bytes_to_units(held[a]) \in Nat /\ max_data_units \in Nat
      BY <1>1, UnitsUp, InterfaceAssumption DEF InterfaceAssumption
    <3> QED
      BY <3>1 DEF is_small
  <2>3. Fits(a, n, Extent(n))
    BY <1>1, <2>1, <2>2, UnitsFit
  <2>4. Clears(a, n, FALSE, n)
    BY DEF Clears
  <2> QED
    BY <1>1, <2>1, <2>3, <2>4, BecomeStep
<1> QED
  BY <1>2, <1>3

(* From pages to units, which a careful client does not ask for.           *)
LEMMA ShrinkToBitmapStep ==
  ASSUME Books, PetInv, outcome = "running", NEW a, NEW n, May(a, n),
         is_small(bytes_to_units(n)), ~is_small(bytes_to_units(held[a])),
         ShrinkToBitmap(a, n)
  PROVE  PetKept
<1>1. a \in DOMAIN held /\ n \in Sizes /\ ~careful
  BY MayFits
<1>2. CASE Abort("abort", ledger)
  BY <1>1, <1>2, PetAborts
<1>4. ASSUME NEW b \in Room(n), b # NULL, Abort("bad_header", Taken(ledger, b, n))
      PROVE  PetKept
  BY <1>1, <1>4, LedgerTakes, PetEnds
<1>3. CASE a \notin UnitAddr /\ call_mremap(a, n, FALSE)
  <2>1. a \in PageAddr
    BY <1>1, <1>3 DEF Books, Address
  <2> QED
    BY <1>1, <1>3, <2>1, MremapStep
<1> QED
  BY <1>2, <1>3, <1>4 DEF ShrinkToBitmap

(* Pages before and after.                                                 *)
LEMMA OnPagesStep ==
  ASSUME Books, PetInv, outcome = "running", NEW a, NEW n, NEW clean \in BOOLEAN, May(a, n),
         on_pages(bytes_to_units(held[a]), bytes_to_units(n)),
         OnPages(a, n, clean)
  PROVE  PetKept
<1>1. /\ a \in DOMAIN held
      /\ ~is_small(bytes_to_units(n)) /\ ~is_small(bytes_to_units(held[a]))
  BY MayFits DEF on_pages
<1>2. a \notin UnitAddr
  BY <1>1 DEF PetInv
<1>3. a \in PageAddr /\ call_mremap(a, n, clean)
  BY <1>1, <1>2 DEF OnPages, Books, Address
<1> QED
  BY <1>1, <1>3, MremapStep

(* bm_grow() finds the next units free.                                    *)
LEMMA GrowInBitmapStep ==
  ASSUME Books, PetInv, outcome = "running", NEW a, NEW n, NEW clean \in BOOLEAN, May(a, n),
         bytes_to_units(n) > bytes_to_units(held[a]), is_small(bytes_to_units(n)),
         GrowInBitmap(a, n, clean)
  PROVE  PetKept
<1>1. a \in DOMAIN held /\ n \in Sizes /\ held[a] \in Sizes /\ (careful => ~Huge(n) /\ n # 0)
  BY MayFits DEF Books
<1>2. CASE a \in PageAddr
  <2>1. bytes_to_units(n) \in Nat /\ bytes_to_units(held[a]) \in Nat /\ max_data_units \in Nat
    BY <1>1, UnitsUp, InterfaceAssumption DEF InterfaceAssumption
  <2>2. is_small(bytes_to_units(held[a]))
    BY <2>1 DEF is_small
  <2>3. Abort("abort", ledger) /\ ~careful
    BY <1>1, <1>2, <2>2 DEF GrowInBitmap, PetInv
  <2> QED
    BY <2>3, PetAborts
<1>3. CASE a \notin PageAddr
  <2> DEFINE zero_from == bm_grow_cleans(clean, held[a], n)
  <2>1. a \in UnitAddr /\ Become(a, a, n, Extent(n), clean, zero_from)
    BY <1>1, <1>3 DEF GrowInBitmap, Books, Address
  <2>2. Fits(a, n, Extent(n))
    BY <1>1, <2>1, UnitsFit
  <2>3. Clears(a, n, clean, zero_from)
    BY <1>1, BranchesClear
  <2> QED
    BY <1>1, <2>1, <2>2, <2>3, BecomeStep
<1> QED
  BY <1>2, <1>3

(* Units that have to move, to other units or to pages.                    *)
LEMMA MoveStep ==
  ASSUME Books, PetInv, outcome = "running", NEW a, NEW n, NEW clean \in BOOLEAN, May(a, n),
         Move(a, n, clean)
  PROVE  PetKept
<1>1. a \in DOMAIN held /\ n \in Sizes /\ (careful => ~Huge(n) /\ n # 0)
  BY MayFits
<1>2. CASE Fail
  BY <1>2, PetFails
<1>3. ASSUME NEW b \in Room(n), b # NULL, held[a] = 0, Abort("abort", Taken(ledger, b, n))
      PROVE  PetKept
  <2>1. ~careful
    BY <1>1, <1>3 DEF PetInv
  <2> QED
    BY <1>1, <1>3, <2>1, LedgerTakes, PetEnds
<1>4. ASSUME NEW b \in Room(n), b # NULL,
             Replace(a, b, n, clean, move_cleans(clean, held[a], n)),
             Keep(moved(ledger, a, b, n))
      PROVE  PetKept
  <2> DEFINE l == Taken(ledger, b, n)
  <2>1. b \in Address \ DOMAIN held /\ Fits(b, n, Extent(n))
    BY <1>1, <1>4, RoomFits
  <2>2. Clears(a, n, clean, move_cleans(clean, held[a], n))
    BY <1>1, BranchesClear
  <2>3. /\ \A x : x \in DOMAIN l.reserved <=> x \in DOMAIN held \/ x = b
        /\ l.reserved[b] = Extent(n)
        /\ \A x \in DOMAIN held : l.reserved[x] = reserved[x]
        /\ l.blocks = blocks_allocated + 1
    BY <1>1, <1>4, LedgerTakes
  <2>4. reserved' = Contract!Without(l.reserved, a) /\ blocks_allocated' = l.blocks - 1
    BY <1>4 DEF Keep, moved, Given
  <2> HIDE DEF l
  <2>5. /\ \A x : x \in DOMAIN reserved' <=> x \in DOMAIN l.reserved /\ x # a
        /\ \A x \in DOMAIN reserved' : reserved'[x] = l.reserved[x]
    BY <2>4, Without
  <2>6. a # b
    BY <1>1, <2>1
  <2>7. /\ \A x : x \in DOMAIN reserved' <=> (x \in DOMAIN held /\ x # a) \/ x = b
        /\ reserved'[b] = Extent(n)
        /\ \A x \in DOMAIN reserved' : x # b => reserved'[x] = reserved[x]
    BY <2>3, <2>5, <2>6
  <2>8. blocks_allocated' = blocks_allocated
    <3>1. blocks_allocated \in Nat
      BY FS_CardinalityType DEF Books
    <3> QED
      BY <2>3, <2>4, <3>1
  <2> QED
    BY <1>1, <1>4, <2>1, <2>2, <2>7, <2>8, ReplaceStep
<1> QED
  BY <1>2, <1>3, <1>4 DEF Move

(* _reallocate(), by the branch it takes.                                  *)
LEMMA PetReallocates ==
  ASSUME Books, PetInv, outcome = "running", NEW a \in DOMAIN held, NEW n \in Sizes, NEW clean \in BOOLEAN,
         _reallocate(a, n, clean)
  PROVE  PetKept
<1> DEFINE old == bytes_to_units(held[a])
           new == bytes_to_units(n)
<1>1. May(a, n)
  BY DEF _reallocate, May
<1>2. CASE n = held[a] /\ Become(a, a, n, reserved[a], clean, n)
  BY <1>1, <1>2, SameStep
<1>3. CASE Same(a, n, clean)
  BY <1>1, <1>3, SameStep
<1>4. CASE new < old /\ is_small(old) /\ ShrinkInBitmap(a, n)
  BY <1>1, <1>4, ShrinkInBitmapStep
<1>5. CASE new < old /\ is_small(new) /\ ~is_small(old) /\ ShrinkToBitmap(a, n)
  BY <1>1, <1>5, ShrinkToBitmapStep
<1>6. CASE on_pages(old, new) /\ OnPages(a, n, clean /\ new > old)
  <2>1. (clean /\ new > old) \in BOOLEAN
    OBVIOUS
  <2> QED
    BY <1>1, <1>6, <2>1, OnPagesStep
<1>7. CASE new > old /\ is_small(new) /\ GrowInBitmap(a, n, clean)
  BY <1>1, <1>7, GrowInBitmapStep
<1>8. CASE new > old /\ is_small(old) /\ Move(a, n, clean)
  BY <1>1, <1>8, MoveStep
<1> QED
  BY <1>2, <1>3, <1>4, <1>5, <1>6, <1>7, <1>8 DEF _reallocate, Resize

(* Every step of the pet allocator. *)
LEMMA PetStep ==
  ASSUME Books, PetInv, Next
  PROVE  PetKept
<1>0. outcome = "running"
  BY DEF Next
<1>1. ASSUME NEW n \in Sizes, NEW clean \in BOOLEAN, _allocate(n, clean)
      PROVE  PetKept
  BY <1>0, <1>1, PetAllocates
<1>2. ASSUME NEW a \in DOMAIN held, _release(a)
      PROVE  PetKept
  BY <1>0, <1>2, PetReleases
<1>3. ASSUME NEW a \in DOMAIN held, NEW n \in Sizes, NEW clean \in BOOLEAN,
             _reallocate(a, n, clean)
      PROVE  PetKept
  BY <1>0, <1>3, PetReallocates
<1>4. ASSUME NEW old \in Sizes, NEW n \in Sizes, NEW clean \in BOOLEAN,
             ReallocateNull(old, n, clean)
      PROVE  PetKept
  BY <1>0, <1>4, PetAllocates, PetFails DEF ReallocateNull
<1> QED
  BY <1>1, <1>2, <1>3, <1>4 DEF Next

-----------------------------------------------------------------------------
(* The stdlib allocator.                                                   *)

(* The tables of the stdlib allocator are written in the same way.         *)
LEMMA StdlibWrites ==
  /\ \A f, b, v : Stdlib!Contract!With(f, b, v) = Contract!With(f, b, v)
  /\ \A f, a : Stdlib!Contract!Without(f, a) = Contract!Without(f, a)
  BY DEF Contract!With, Stdlib!Contract!With, Contract!Without, Stdlib!Contract!Without,
         Contract!Restrict, Stdlib!Contract!Restrict

(* What malloc returns and is asked for.                                   *)
LEMMA HeapTypes ==
  HeapAddr \subseteq Address /\ HeapSizes \subseteq Sizes /\ NULL \notin HeapAddr
  BY AllocatorsAssumption DEF AllocatorsAssumption, Stdlib!StdlibAssumption

(* Every step of the stdlib allocator.                                     *)
LEMMA StdlibStep ==
  ASSUME Books, StdlibInv, outcome = "running", Stdlib!Next, outcome' = outcome
  PROVE  Books' /\ StdlibInv' /\ Promised
<1>1. CASE Stdlib!Fail
  <2>1. held' = held /\ blocks_allocated' = blocks_allocated /\ heap' = heap /\ Contract!Fail
    BY <1>1 DEF Stdlib!Fail, Stdlib!Contract!Fail, Contract!Fail, Stdlib!Contract!Failure,
                Contract!Failure, Stdlib!Contract!Report, Contract!Report
  <2>2. Books'
    BY <2>1, BooksStep
  <2> QED
    BY <2>1, <2>2 DEF StdlibInv, Promised, Contract!Next
<1>2. ASSUME NEW n \in HeapSizes, NEW clean \in BOOLEAN, NEW a \in HeapAddr \ heap,
             heap' = heap \cup {a},
             blocks_allocated' = blocks_allocated + 1,
             held' = Stdlib!Contract!With(held, a, n),
             call' = Stdlib!Contract!Report(TRUE, TRUE, clean, 0, IF clean THEN 0 ELSE n)
      PROVE  Books' /\ StdlibInv' /\ Promised
  <2>1. n \in Sizes /\ a \in Address \ DOMAIN held /\ held' = Contract!With(held, a, n)
    BY <1>2, HeapTypes, StdlibWrites DEF StdlibInv
  <2>2. Adds(a, n)
    BY <1>2, <2>1 DEF Adds
  <2>3. Books'
    BY <2>2, BooksStep
  <2>4. \A x : x \in DOMAIN held' <=> x \in DOMAIN held \/ x = a
    BY <2>1, With
  <2>5. StdlibInv'
    BY <1>2, <2>4 DEF StdlibInv
  <2>6. call'.ok /\ call'.changed /\ (call'.clean => call'.zero_from = 0)
    BY <1>2 DEF Stdlib!Contract!Report
  <2>7. Contract!Allocate(a, n)
    BY <2>1, <2>6 DEF Contract!Allocate
  <2> QED
    BY <2>1, <2>3, <2>5, <2>7 DEF Promised, Contract!Next
<1>3. ASSUME NEW a \in DOMAIN held, Stdlib!_release(a)
      PROVE  Books' /\ StdlibInv' /\ Promised
  <2>1. /\ held' = Contract!Without(held, a) /\ heap' = heap \ {a}
        /\ blocks_allocated' = blocks_allocated - 1
        /\ call'.ok
    BY <1>3, StdlibWrites DEF Stdlib!_release, Stdlib!Contract!Report
  <2>2. Drops(a)
    BY <2>1 DEF Drops
  <2>3. Books'
    BY <2>2, BooksStep
  <2>4. \A x : x \in DOMAIN held' <=> x \in DOMAIN held /\ x # a
    BY <2>1, Without
  <2>5. StdlibInv'
    BY <2>1, <2>4 DEF StdlibInv
  <2>6. a \in Address /\ Contract!Release(a)
    BY <2>1 DEF Books, Contract!Release
  <2> QED
    BY <2>3, <2>5, <2>6 DEF Promised, Contract!Next
<1>4. ASSUME NEW a \in DOMAIN held, NEW b \in {a} \cup (HeapAddr \ heap), NEW n \in HeapSizes,
             NEW clean \in BOOLEAN, Stdlib!Resized(a, b, n, clean)
      PROVE  Books' /\ StdlibInv' /\ Promised
  <2>1. /\ n \in Sizes /\ a \in Address /\ b \in Address /\ held[a] \in Sizes
        /\ b = a \/ b \notin DOMAIN held
    BY <1>4, HeapTypes DEF StdlibInv, Books
  <2>2. n \in Nat /\ held[a] \in Nat
    BY <2>1, SizesNat, Zenon
  <2>3. /\ held' = Contract!With(Contract!Without(held, a), b, n)
        /\ heap' = (heap \ {a}) \cup {b}
        /\ blocks_allocated' = blocks_allocated
    BY <1>4, StdlibWrites DEF Stdlib!Resized
  <2>4. call' = [ok |-> TRUE, changed |-> b # a, clean |-> clean,
                 kept |-> IF n < held[a] THEN n ELSE held[a],
                 zero_from |-> Stdlib!clears_from(clean, held[a], n)]
    BY <1>4 DEF Stdlib!Resized, Stdlib!Contract!Report
  <2>5. Changes(a, b, n)
    BY <2>1, <2>3 DEF Changes
  <2>6. Books'
    BY <2>5, BooksStep
  <2>7. \A x : x \in DOMAIN held' <=> (x \in DOMAIN held /\ x # a) \/ x = b
    BY <2>3, Moved
  <2>8. StdlibInv'
    BY <2>3, <2>7 DEF StdlibInv
  <2>9. call'.ok /\ (call'.changed <=> b # a)
    BY <2>4
  <2>10. call'.kept >= (IF n < held[a] THEN n ELSE held[a])
    BY <2>2, <2>4
  <2>11. call'.clean /\ n > held[a] => call'.zero_from <= held[a]
    BY <2>2, <2>4 DEF Stdlib!clears_from
  <2>12. Contract!Reallocate(a, b, n)
    BY <2>1, <2>3, <2>9, <2>10, <2>11 DEF Contract!Reallocate
  <2> QED
    BY <2>1, <2>6, <2>8, <2>12 DEF Promised, Contract!Next
<1>5. ASSUME NEW n \in HeapSizes, NEW clean \in BOOLEAN, Stdlib!_allocate(n, clean)
      PROVE  Books' /\ StdlibInv' /\ Promised
  BY <1>1, <1>2, <1>5, HeapTypes DEF Stdlib!_allocate
<1>6. ASSUME NEW a \in DOMAIN held, NEW n \in HeapSizes, NEW clean \in BOOLEAN,
             Stdlib!_reallocate(a, n, clean)
      PROVE  Books' /\ StdlibInv' /\ Promised
  BY <1>1, <1>4, <1>6 DEF Stdlib!_reallocate
<1> QED
  BY <1>3, <1>5, <1>6 DEF Stdlib!Next

-----------------------------------------------------------------------------
(* The debug allocator.                                                    *)

DamageStep == \A a \in strayed : a \in strayed' \/ outcome' = "damaged"

DebugKept == Books' /\ DebugInv' /\ Promised /\ DamageStep

(* So are those of the debug allocator.                                    *)
LEMMA DebugWrites ==
  /\ \A f, b, v : Debug!Contract!With(f, b, v) = Contract!With(f, b, v)
  /\ \A f, a : Debug!Contract!Without(f, a) = Contract!Without(f, a)
  BY DEF Contract!With, Debug!Contract!With, Contract!Without, Debug!Contract!Without,
         Contract!Restrict, Debug!Contract!Restrict

(* A call fails and changes nothing.                                       *)
LEMMA DebugFails ==
  ASSUME Books, DebugInv, outcome = "running", Debug!Fail
  PROVE  DebugKept
<1>1. /\ held' = held /\ blocks_allocated' = blocks_allocated /\ outcome' = outcome
      /\ damage' = damage /\ strayed' = strayed
  BY DEF Debug!Fail, Debug!Keep, Debug!ledger, Debug!Contract!Fail
<1>2. Books'
  BY <1>1, BooksStep
<1>3. DebugInv'
  BY <1>1 DEF DebugInv
<1>4. Contract!Fail
  BY DEF Debug!Fail, Debug!Contract!Fail, Contract!Fail, Debug!Contract!Failure,
         Contract!Failure, Debug!Contract!Report, Contract!Report
<1> QED
  BY <1>1, <1>2, <1>3, <1>4 DEF DebugKept, DamageStep, Promised, Contract!Next

(* The program ends: no block is given up after that.                      *)
LEMMA DebugEnds ==
  ASSUME Books, DebugInv, outcome = "running",
         NEW how \in {"too_large", "overflow", "damaged"}, NEW l, Debug!Exit(how, l)
  PROVE  DebugKept
<1>1. held' = held /\ strayed' = strayed /\ call' = call /\ outcome' = how
  BY DEF Debug!Exit
<1>2. how # "running" /\ how # "abort"
  OBVIOUS
<1>3. Books'
  BY <1>1, <1>2, BooksStep
<1>4. DebugInv'
  BY <1>1, <1>2 DEF DebugInv
<1> QED
  BY <1>1, <1>3, <1>4 DEF DebugKept, DamageStep, Promised, Contract!vars

(* A new block's guards are whole.                                         *)
LEMMA DebugAllocates ==
  ASSUME Books, DebugInv, outcome = "running",
         NEW n \in HeapSizes, NEW clean \in BOOLEAN, Debug!_allocate(n, clean)
  PROVE  DebugKept
<1>1. CASE Debug!Fail \/ Debug!Exit("too_large", Debug!ledger)
  BY <1>1, DebugFails, DebugEnds
<1>2. CASE ~(Debug!Fail \/ Debug!Exit("too_large", Debug!ledger))
  <2>1. PICK a \in Debug!Room :
          /\ a # NULL
          /\ held' = Debug!Contract!With(held, a, n)
          /\ damage' = Debug!Contract!With(damage, a, {})
          /\ blocks_allocated' = blocks_allocated + 1
          /\ call' = Debug!Contract!Report(TRUE, TRUE, clean, 0, IF clean THEN 0 ELSE n)
          /\ UNCHANGED <<strayed, outcome>>
    BY <1>2 DEF Debug!_allocate, Debug!Keep, Debug!Taken, Debug!ledger
  <2>2. /\ n \in Sizes /\ a \in Address \ DOMAIN held
        /\ held' = Contract!With(held, a, n) /\ damage' = Contract!With(damage, a, {})
    BY <2>1, HeapTypes, DebugWrites DEF Debug!Room
  <2>3. Adds(a, n)
    BY <2>1, <2>2 DEF Adds
  <2>4. Books'
    BY <2>3, BooksStep
  <2>5. /\ \A x : x \in DOMAIN held' <=> x \in DOMAIN held \/ x = a
        /\ \A x \in DOMAIN held : x # a => held'[x] = held[x]
    BY <2>2, With
  <2>6. /\ \A x : x \in DOMAIN damage' <=> x \in DOMAIN damage \/ x = a
        /\ damage'[a] = {}
        /\ \A x \in DOMAIN damage : x # a => damage'[x] = damage[x]
    BY <2>2, With
  <2>7. DebugInv'
    <3>1. DOMAIN damage = DOMAIN held /\ strayed \subseteq DOMAIN held
      BY DEF DebugInv
    <3>2. DOMAIN damage' = DOMAIN held' /\ strayed' \subseteq DOMAIN held'
      BY <2>1, <2>5, <2>6, <3>1
    <3>3. ASSUME NEW x \in strayed'
          PROVE  damage'[x] \cap Debug!Guard(held'[x]) # {}
      <4>1. x \in strayed /\ x \in DOMAIN held /\ x # a
        BY <2>1, <2>2, <3>1, <3>3
      <4>2. held'[x] = held[x] /\ damage'[x] = damage[x]
        BY <2>5, <2>6, <3>1, <4>1
      <4> QED
        BY <4>1, <4>2 DEF DebugInv
    <3> QED
      BY <2>1, <3>2, <3>3 DEF DebugInv
  <2>8. call'.ok /\ call'.changed /\ (call'.clean => call'.zero_from = 0)
    BY <2>1 DEF Debug!Contract!Report
  <2>9. Contract!Allocate(a, n)
    BY <2>2, <2>8 DEF Contract!Allocate
  <2> QED
    BY <2>1, <2>2, <2>4, <2>7, <2>9 DEF DebugKept, DamageStep, Promised, Contract!Next
<1> QED
  BY <1>1, <1>2

(* A block is given up only if its guards are whole.                       *)
LEMMA DebugReleases ==
  ASSUME Books, DebugInv, outcome = "running", NEW a \in DOMAIN held, Debug!_release(a)
  PROVE  DebugKept
<1>1. CASE ~Debug!check_region_passes(a)
  BY <1>1, DebugEnds DEF Debug!_release
<1>2. CASE Debug!check_region_passes(a)
  <2>1. /\ held' = Contract!Without(held, a) /\ damage' = Contract!Without(damage, a)
        /\ strayed' = strayed \ {a}
        /\ blocks_allocated' = blocks_allocated - 1
        /\ call'.ok
        /\ UNCHANGED outcome
    BY <1>2, DebugWrites DEF Debug!_release, Debug!Keep, Debug!Given, Debug!ledger,
                             Debug!Contract!Report
  <2>2. Drops(a)
    BY <2>1 DEF Drops
  <2>3. Books'
    BY <2>2, BooksStep
  <2>4. DOMAIN damage = DOMAIN held /\ strayed \subseteq DOMAIN held
    BY DEF DebugInv
  <2>5. a \notin strayed /\ strayed' = strayed
    BY <1>2, <2>1 DEF DebugInv, Debug!check_region_passes, Debug!checked
  <2>6. /\ \A x : x \in DOMAIN held' <=> x \in DOMAIN held /\ x # a
        /\ \A x \in DOMAIN held' : held'[x] = held[x]
    BY <2>1, Without
  <2>7. /\ \A x : x \in DOMAIN damage' <=> x \in DOMAIN damage /\ x # a
        /\ \A x \in DOMAIN damage' : damage'[x] = damage[x]
    BY <2>1, Without
  <2>8. DebugInv'
    <3>1. DOMAIN damage' = DOMAIN held' /\ strayed' \subseteq DOMAIN held'
      BY <2>4, <2>5, <2>6, <2>7
    <3>2. \A x \in DOMAIN held' : held'[x] = held[x] /\ damage'[x] = damage[x]
      BY <2>6, <2>7, <3>1
    <3>3. ASSUME NEW x \in strayed'
          PROVE  damage'[x] \cap Debug!Guard(held'[x]) # {}
      <4>1. x \in strayed /\ held'[x] = held[x] /\ damage'[x] = damage[x]
        BY <2>5, <3>1, <3>2
      <4> QED
        BY <4>1 DEF DebugInv
    <3> QED
      BY <2>1, <3>1, <3>3 DEF DebugInv
  <2>9. a \in Address /\ Contract!Release(a)
    BY <2>1 DEF Books, Contract!Release
  <2> QED
    BY <2>3, <2>5, <2>8, <2>9 DEF DebugKept, DamageStep, Promised, Contract!Next
<1> QED
  BY <1>1, <1>2

(* A block that moves; what is spilled is in the guard of the new block.   *)
LEMMA DebugMoves ==
  ASSUME Books, DebugInv, outcome = "running",
         NEW a \in DOMAIN held, NEW n \in HeapSizes, NEW clean \in BOOLEAN,
         NEW b \in Debug!Room, b # NULL,
         Debug!Move(a, b, n, clean)
  PROVE  DebugKept
<1> DEFINE spilled == n .. held[a] - 1
           after_copy == Debug!Taken(Debug!ledger, b, spilled)
           after_release == Debug!Given(after_copy, a)
<1>1. CASE Debug!Exit("overflow", after_copy)
  BY <1>1, DebugEnds
<1>2. CASE Debug!Exit("damaged", after_copy)
  BY <1>2, DebugEnds
<1>3. CASE Debug!Exit("overflow", after_release)
  BY <1>3, DebugEnds
<1>4. CASE /\ Debug!check_region_passes(a)
           /\ held' = Debug!Contract!With(Debug!Contract!Without(held, a), b, n)
           /\ Debug!Keep(after_release)
           /\ strayed' = strayed \ {a}
           /\ call' = Debug!Contract!Report(TRUE, TRUE, clean,
                                            IF n < held[a] THEN n ELSE held[a],
                                            Debug!cleared_from(clean, held[a], n))
           /\ UNCHANGED outcome
  <2>1. /\ held' = Contract!With(Contract!Without(held, a), b, n)
        /\ damage' = Contract!Without(Contract!With(damage, b, spilled), a)
        /\ blocks_allocated' = blocks_allocated
        /\ strayed' = strayed \ {a}
        /\ call' = [ok |-> TRUE, changed |-> TRUE, clean |-> clean,
                    kept |-> IF n < held[a] THEN n ELSE held[a],
                    zero_from |-> Debug!cleared_from(clean, held[a], n)]
        /\ UNCHANGED outcome
    <3>1. PICK l : l = after_copy
      OBVIOUS
    <3>2. l.damage = Contract!With(damage, b, spilled) /\ l.blocks = blocks_allocated + 1
      BY <3>1, DebugWrites DEF Debug!Taken, Debug!ledger
    <3>3. damage' = Contract!Without(l.damage, a) /\ blocks_allocated' = l.blocks - 1
      BY <1>4, <3>1, DebugWrites DEF Debug!Keep, Debug!Given
    <3>4. held' = Contract!With(Contract!Without(held, a), b, n)
      BY <1>4, DebugWrites
    <3>5. call' = [ok |-> TRUE, changed |-> TRUE, clean |-> clean,
                   kept |-> IF n < held[a] THEN n ELSE held[a],
                   zero_from |-> Debug!cleared_from(clean, held[a], n)]
      BY <1>4 DEF Debug!Contract!Report
    <3>6. damage' = Contract!Without(Contract!With(damage, b, spilled), a)
      BY <3>2, <3>3, Zenon
    <3>7. blocks_allocated \in Nat
      BY FS_CardinalityType DEF Books
    <3>8. blocks_allocated' = blocks_allocated
      BY <3>2, <3>3, <3>7
    <3> QED
      BY <1>4, <3>4, <3>5, <3>6, <3>8, Zenon
  <2>2. n \in Sizes /\ held[a] \in Sizes /\ a \in Address /\ b \in Address \ DOMAIN held
    BY HeapTypes DEF Debug!Room, Books
  <2>3. n \in Nat /\ held[a] \in Nat
    BY <2>2, SizesNat, Zenon
  <2>4. Changes(a, b, n)
    BY <2>1, <2>2 DEF Changes
  <2>5. Books'
    BY <2>4, BooksStep
  <2>6. DOMAIN damage = DOMAIN held /\ strayed \subseteq DOMAIN held
    BY DEF DebugInv
  <2>7. a \notin strayed /\ strayed' = strayed
    BY <1>4, <2>1 DEF DebugInv, Debug!check_region_passes, Debug!checked
  <2>8. /\ \A x : x \in DOMAIN held' <=> (x \in DOMAIN held /\ x # a) \/ x = b
        /\ \A x \in DOMAIN held : x # a /\ x # b => held'[x] = held[x]
    BY <2>1, Moved
  <2>9. /\ \A x : x \in DOMAIN damage' <=> (x \in DOMAIN damage /\ x # a) \/ x = b
        /\ \A x \in DOMAIN damage : x # a /\ x # b => damage'[x] = damage[x]
    <3>1. PICK g : g = Contract!With(damage, b, spilled)
      OBVIOUS
    <3>2. /\ \A x : x \in DOMAIN g <=> x \in DOMAIN damage \/ x = b
          /\ \A x \in DOMAIN damage : x # b => g[x] = damage[x]
      BY <3>1, With
    <3>3. damage' = Contract!Without(g, a)
      BY <2>1, <3>1
    <3>4. /\ \A x : x \in DOMAIN damage' <=> x \in DOMAIN g /\ x # a
          /\ \A x \in DOMAIN damage' : damage'[x] = g[x]
      BY <3>3, Without
    <3> QED
      BY <2>2, <3>2, <3>4
  <2>11. DebugInv'
    <3>1. DOMAIN damage' = DOMAIN held' /\ strayed' \subseteq DOMAIN held'
      BY <2>6, <2>7, <2>8, <2>9
    <3>2. ASSUME NEW x \in strayed'
          PROVE  damage'[x] \cap Debug!Guard(held'[x]) # {}
      <4>1. x \in strayed /\ x \in DOMAIN held /\ x # a /\ x # b
        BY <2>2, <2>6, <2>7
      <4>2. held'[x] = held[x] /\ damage'[x] = damage[x]
        BY <2>6, <2>8, <2>9, <4>1
      <4> QED
        BY <4>1, <4>2 DEF DebugInv
    <3> QED
      BY <2>1, <3>1, <3>2 DEF DebugInv
  <2>12. call'.ok /\ (call'.changed <=> b # a)
    BY <2>1, <2>2
  <2>13. call'.kept >= (IF n < held[a] THEN n ELSE held[a])
    BY <2>1, <2>3
  <2>14. call'.clean /\ n > held[a] => call'.zero_from <= held[a]
    BY <2>1, <2>3 DEF Debug!cleared_from
  <2>15. Contract!Reallocate(a, b, n)
    BY <2>1, <2>2, <2>12, <2>13, <2>14 DEF Contract!Reallocate
  <2> QED
    BY <2>2, <2>5, <2>7, <2>11, <2>15 DEF DebugKept, DamageStep, Promised, Contract!Next
<1> QED
  BY <1>1, <1>2, <1>3, <1>4 DEF Debug!Move

(* reallocate() to the same size does nothing.                             *)
LEMMA DebugKeepsSize ==
  ASSUME Books, DebugInv, outcome = "running",
         NEW a \in DOMAIN held, NEW n \in HeapSizes, NEW clean \in BOOLEAN,
         n = held[a],
         call' = Debug!Contract!Report(TRUE, FALSE, clean, n, n),
         UNCHANGED <<held, damage, strayed, blocks_allocated, outcome>>
  PROVE  DebugKept
<1>1. Books'
  BY BooksStep
<1>2. DebugInv'
  BY DEF DebugInv
<1>3. PICK g : g = Contract!With(Contract!Without(held, a), a, n)
  OBVIOUS
<1>4. /\ \A x : x \in DOMAIN g <=> x \in DOMAIN held
      /\ \A x \in DOMAIN held : g[x] = held[x]
      /\ g = [x \in DOMAIN g |-> g[x]]
  BY <1>3, Moved
<1>5. held = [x \in DOMAIN held |-> held[x]]
  BY DEF Books
<1>6. DOMAIN g = DOMAIN held
  BY <1>4
<1>7. held' = Contract!With(Contract!Without(held, a), a, n)
  BY <1>3, <1>4, <1>5, <1>6
<1>8. n \in Sizes /\ a \in Address /\ n \in Nat
  <2>1. n \in Sizes /\ a \in Address
    BY HeapTypes DEF Books
  <2> QED
    BY <2>1, SizesNat, Zenon
<1>9. call'.ok /\ ~call'.changed /\ call'.kept = n
  BY DEF Debug!Contract!Report
<1>10. n <= n /\ ~(n > n)
  BY <1>8
<1>11. Contract!Reallocate(a, a, n)
  BY <1>7, <1>9, <1>10 DEF Contract!Reallocate
<1> QED
  BY <1>1, <1>2, <1>8, <1>11 DEF DebugKept, DamageStep, Promised, Contract!Next

(* The client writes into a guard.                                         *)
LEMMA DebugStrays ==
  ASSUME Books, DebugInv, outcome = "running",
         NEW a \in DOMAIN held, NEW i \in Debug!Guard(held[a]), Debug!Stray(a, i)
  PROVE  DebugKept
<1>1. /\ damage' = [damage EXCEPT ![a] = @ \cup {i}] /\ strayed' = strayed \cup {a}
      /\ UNCHANGED <<held, blocks_allocated, call, outcome>>
  BY DEF Debug!Stray
<1>2. Books'
  BY <1>1, BooksStep
<1>3. DOMAIN damage = DOMAIN held /\ strayed \subseteq DOMAIN held
  BY DEF DebugInv
<1>4. /\ DOMAIN damage' = DOMAIN held' /\ i \in damage'[a]
      /\ \A x \in DOMAIN held : x # a => damage'[x] = damage[x]
  BY <1>1, <1>3
<1>5. ASSUME NEW x \in strayed'
      PROVE  damage'[x] \cap Debug!Guard(held'[x]) # {}
  <2>1. CASE x = a
    BY <1>1, <1>4, <2>1
  <2>2. CASE x # a
    <3>1. x \in strayed /\ x \in DOMAIN held /\ damage'[x] = damage[x]
      BY <1>1, <1>3, <1>4, <1>5, <2>2
    <3> QED
      BY <1>1, <3>1 DEF DebugInv
  <2> QED
    BY <2>1, <2>2
<1>6. DebugInv'
  <2>1. outcome' # "abort"
    BY <1>1
  <2>2. strayed' \subseteq DOMAIN held'
    BY <1>1, <1>3
  <2> QED
    BY <1>4, <1>5, <2>1, <2>2 DEF DebugInv
<1> QED
  BY <1>1, <1>2, <1>6 DEF DebugKept, DamageStep, Promised, Contract!vars

(* Every step of the debug allocator.                                      *)
LEMMA DebugStep ==
  ASSUME Books, DebugInv, Debug!Next
  PROVE  DebugKept
<1>1. outcome = "running"
  BY DEF Debug!Next
<1>2. ASSUME NEW n \in HeapSizes, NEW clean \in BOOLEAN, Debug!_allocate(n, clean)
      PROVE  DebugKept
  BY <1>1, <1>2, DebugAllocates
<1>3. ASSUME NEW a \in DOMAIN held, Debug!_release(a)
      PROVE  DebugKept
  BY <1>1, <1>3, DebugReleases
<1>4. ASSUME NEW a \in DOMAIN held, NEW n \in HeapSizes, NEW clean \in BOOLEAN,
             Debug!_reallocate(a, n, clean)
      PROVE  DebugKept
  <2>2. CASE Debug!Fail \/ Debug!Exit("too_large", Debug!ledger)
    BY <1>1, <2>2, DebugFails, DebugEnds
  <2>3. ASSUME NEW b \in Debug!Room, b # NULL, Debug!Move(a, b, n, clean)
        PROVE  DebugKept
    BY <1>1, <2>3, DebugMoves
  <2>4. CASE /\ n = held[a]
             /\ call' = Debug!Contract!Report(TRUE, FALSE, clean, n, n)
             /\ UNCHANGED <<held, damage, strayed, blocks_allocated, outcome>>
    BY <1>1, <2>4, DebugKeepsSize
  <2> QED
    BY <1>4, <2>2, <2>3, <2>4 DEF Debug!_reallocate
<1>5. ASSUME NEW a \in DOMAIN held, NEW i \in Debug!Guard(held[a]), Debug!Stray(a, i)
      PROVE  DebugKept
  BY <1>1, <1>5, DebugStrays
<1> QED
  BY <1>2, <1>3, <1>4, <1>5 DEF Debug!Next

-----------------------------------------------------------------------------
(* Whichever allocator the program has.                                    *)

(* The invariant holds when the program starts. *)
LEMMA InitInv ==
  ASSUME init_allocator
  PROVE  AllocatorsInv
<1>1. /\ held = <<>> /\ reserved = <<>> /\ damage = <<>> /\ strayed = {} /\ heap = {}
      /\ blocks_allocated = 0 /\ outcome = "running"
      /\ default_allocator \in {"pet", "stdlib", "debug"}
  BY DEF init_allocator, Init, Contract!Init, Stdlib!Init, Debug!Init
<1>2. Books
  <2>1. IsFiniteSet({}) /\ Cardinality({}) = 0
    BY FS_EmptySet
  <2> QED
    BY <1>1, <2>1 DEF Books
<1> QED
  BY <1>1, <1>2 DEF AllocatorsInv, PetInv, StdlibInv, DebugInv

(* Every step keeps the invariant and what the client was promised. *)
LEMMA CallStep ==
  ASSUME AllocatorsInv, default_call, UNCHANGED default_allocator
  PROVE  AllocatorsInv' /\ Promised /\ DamageStep
<1>1. CASE default_allocator = "pet"
  <2>1. PetKept /\ strayed' = strayed
    BY <1>1, PetStep DEF AllocatorsInv, default_call
  <2> QED
    BY <1>1, <2>1 DEF AllocatorsInv, PetKept, DamageStep
<1>2. CASE default_allocator = "stdlib"
  <2>1. Books' /\ StdlibInv' /\ Promised /\ strayed' = strayed /\ outcome' = outcome
    BY <1>2, StdlibStep DEF AllocatorsInv, default_call
  <2> QED
    BY <1>2, <2>1 DEF AllocatorsInv, DamageStep
<1>3. CASE default_allocator = "debug"
  <2>1. DebugKept
    BY <1>3, DebugStep DEF AllocatorsInv, default_call
  <2> QED
    BY <1>3, <2>1 DEF AllocatorsInv, DebugKept
<1> QED
  BY <1>1, <1>2, <1>3 DEF AllocatorsInv

(* So does a step that changes nothing.                                    *)
LEMMA StutterStep ==
  ASSUME AllocatorsInv, UNCHANGED all_vars
  PROVE  AllocatorsInv' /\ Promised /\ DamageStep
  BY DEF AllocatorsInv, Books, PetInv, StdlibInv, DebugInv,
         Promised, DamageStep, Contract!vars, all_vars, vars

(* The invariant holds whenever the program runs.                          *)
LEMMA InvHolds == AllocatorsSpec => []AllocatorsInv
<1>1. AllocatorsInv /\ [default_call /\ UNCHANGED default_allocator]_all_vars => AllocatorsInv'
  BY CallStep, StutterStep
<1> QED
  BY InitInv, <1>1, PTL DEF AllocatorsSpec

(* The properties of one state follow from it.                             *)
LEMMA InvGives ==
  ASSUME AllocatorsInv
  PROVE  PetCovered /\ LedgerBalances /\ NoAbort
<1>1. LedgerBalances
  BY DEF AllocatorsInv, Books, PetInv, StdlibInv, DebugInv, LedgerBalances
<1>2. NoAbort
  BY DEF AllocatorsInv, PetInv, DebugInv, NoAbort
<1>4. ASSUME default_allocator = "pet", NEW a \in DOMAIN held, ~Huge(held[a])
      PROVE  /\ a \in DOMAIN reserved /\ reserved[a] >= held[a]
             /\ a \in UnitAddr => reserved[a] = UNIT_SIZE * bytes_to_units(held[a])
  <2>1. PetInv /\ Books
    BY <1>4 DEF AllocatorsInv
  <2>2. held[a] \in Sizes /\ a \in Address /\ a \in DOMAIN reserved /\ reserved[a] \in Nat
    BY <2>1 DEF PetInv, Books
  <2>3. held[a] \in Nat
    BY <2>2, SizesNat, Zenon
  <2>4. /\ align_unsigned_to_page(held[a]) \in held[a] .. held[a] + sys_page_size - 1
        /\ UNIT_SIZE * bytes_to_units(held[a]) \in held[a] .. held[a] + UNIT_SIZE - 1
    BY <1>4, <2>2, UnitsUp
  <2>5. CASE a \in UnitAddr
    <3>1. reserved[a] = UNIT_SIZE * bytes_to_units(held[a])
      BY <2>1, <2>5 DEF PetInv
    <3> QED
      BY <2>2, <2>3, <2>4, <3>1
  <2>6. CASE a \in PageAddr
    <3>1. reserved[a] >= align_unsigned_to_page(held[a]) /\ a \notin UnitAddr
      BY <1>4, <2>1, <2>6, InterfaceAssumption DEF PetInv, InterfaceAssumption
    <3> QED
      BY <2>2, <2>3, <2>4, <3>1
  <2> QED
    BY <2>2, <2>5, <2>6 DEF Address
<1>5. PetCovered
  BY <1>4 DEF PetCovered, Covered
<1> QED
  BY <1>1, <1>2, <1>5

(* Whatever a client does with sizes that do not wrap, the sub-allocators  *)
(* of the pet allocator have reserved its bytes, and for units exactly the *)
(* number that the size given back with the block says.                    *)
THEOREM PetCoversBlocks == AllocatorsSpec => []PetCovered
  BY InvHolds, InvGives, PTL

(* As long as the program runs, the memory of whichever allocator it has   *)
(* is the client's blocks and no other, and blocks_allocated is their      *)
(* number, also after moves, which count a block up and one down, and      *)
(* after moves that fail.                                                  *)
THEOREM NothingIsLost == AllocatorsSpec => []LedgerBalances
  BY InvHolds, InvGives, PTL

(* A client that avoids the calls the code gets wrong is never aborted for *)
(* a size of no units or an address of the wrong sub-allocator.            *)
THEOREM CarefulClientNeverAborts == AllocatorsSpec => []NoAbort
  BY InvHolds, InvGives, PTL

(* No block with a written guard is given up by _release or _reallocate of *)
(* the debug allocator without the program ending over it.                 *)
THEOREM DamageIsFound == AllocatorsSpec => DamageFound
<1>1. AllocatorsInv /\ [default_call /\ UNCHANGED default_allocator]_all_vars
        => [\A a \in strayed : a \in strayed' \/ outcome' = "damaged"]_(Debug!vars)
  BY CallStep, StutterStep DEF DamageStep
<1> QED
  BY <1>1, InvHolds, PTL DEF AllocatorsSpec, DamageFound, Debug!DamageFound

(* All three allocators implement AllocatorContract for a careful client:  *)
(* the initial states are its initial states, and every step of any of     *)
(* them is one of its steps or changes nothing the client sees.            *)
THEOREM AllocatorsKeepContract == AllocatorsSpec => ImplementsContract
<1>1. init_allocator => Contract!Init
  BY DEF init_allocator, Init
<1>2. AllocatorsInv /\ [default_call /\ UNCHANGED default_allocator]_all_vars
        => [careful => Contract!Next]_(Contract!vars)
  BY CallStep, StutterStep DEF Promised
<1> QED
  BY <1>1, <1>2, InvHolds, PTL DEF AllocatorsSpec, ImplementsContract
=============================================================================
