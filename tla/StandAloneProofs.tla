-------------------------- MODULE StandAloneProofs --------------------------
(***************************************************************************)
(* What the parts that stand alone claim, for every size they are given.   *)
(* Each has an invariant of its own, which speaks of its behaviours only.  *)
(***************************************************************************)
EXTENDS StandAlone, SequenceTheorems, FiniteSetTheorems, TLAPS

-----------------------------------------------------------------------------
(* Arithmetic the provers do not find by themselves. *)

LEMMA DivisionIs ==
  ASSUME NEW p \in Nat \ {0}, NEW a \in Nat
  PROVE  /\ a \div p \in Nat /\ a % p \in 0 .. p - 1
         /\ a = p * (a \div p) + (a % p)
BY Z3

LEMMA ProductInt ==
  ASSUME NEW a \in Int, NEW b \in Int
  PROVE  a * b \in Int /\ a * b = b * a
OBVIOUS

LEMMA ProductNat ==
  ASSUME NEW a \in Nat, NEW b \in Nat
  PROVE  a * b \in Nat
OBVIOUS

LEMMA Distributes ==
  ASSUME NEW p \in Int, NEW a \in Int, NEW b \in Int
  PROVE  /\ p * (a + b) = p * a + p * b
         /\ p * (a - b) = p * a - p * b
         /\ (a + b) * p = a * p + b * p
         /\ (a - b) * p = a * p - b * p
BY Z3

LEMMA ProductMonotone ==
  ASSUME NEW p \in Nat, NEW a \in Int, NEW b \in Int, a <= b
  PROVE  p * a <= p * b
BY Z3

LEMMA DivisionUnique ==
  ASSUME NEW p \in Nat \ {0}, NEW q \in Int, NEW v \in Int,
         NEW r \in 0 .. p - 1, NEW w \in 0 .. p - 1, p * q + r = p * v + w
  PROVE  q = v /\ r = w
<1>1. p * q \in Int /\ p * v \in Int OBVIOUS
<1>2. CASE q > v
  <2>1. v + 1 <= q BY <1>2
  <2>2. p * (v + 1) <= p * q BY <2>1, ProductMonotone
  <2>3. p * (v + 1) = p * v + p BY Z3
  <2> QED BY <1>1, <2>2, <2>3
<1>3. CASE q < v
  <2>1. q + 1 <= v BY <1>3
  <2>2. p * (q + 1) <= p * v BY <2>1, ProductMonotone
  <2>3. p * (q + 1) = p * q + p BY Z3
  <2> QED BY <1>1, <2>2, <2>3
<1>4. CASE q = v
  <2>1. p * q = p * v BY <1>4
  <2> QED BY <1>1, <1>4, <2>1
<1> QED BY <1>2, <1>3, <1>4

(* A product that is less than the next one. *)
LEMMA QuotientBelow ==
  ASSUME NEW p \in Nat \ {0}, NEW a \in Int, NEW b \in Int, p * a < p * b
  PROVE  a < b
<1> SUFFICES ASSUME b <= a PROVE FALSE
  OBVIOUS
<1>1. p * b <= p * a BY ProductMonotone
<1>2. p * a \in Int /\ p * b \in Int OBVIOUS
<1> QED BY <1>1, <1>2

-----------------------------------------------------------------------------
(* Timespec. *)

TimeInv ==
  part = "timespec" =>
    /\ ts \in [tv_sec : Int, tv_nsec : 0 .. NSEC - 1]
    /\ exact \in Int
    /\ exact - Time!InParts(ts) \in 0 .. SUB - 1

(* The nanoseconds of a sum, before the carry: less than two seconds, and  *)
(* less than one too few.                                                  *)
LEMMA SumOfNanos ==
  ASSUME NEW n \in 0 .. NSEC - 1, NEW f \in Fractions
  PROVE  LET d == (n * SUB + f) \div SUB
         IN  /\ d \in 0 .. 2 * NSEC - 1
             /\ (n * SUB + f) - d * SUB \in 0 .. SUB - 1
<1>1. /\ NSEC \in Nat \ {0} /\ SUB \in Nat \ {0} /\ f \in 0 .. NSEC * SUB
  BY StandAloneAssumption DEF Time!TimespecAssumption
<1> DEFINE a == n * SUB + f
           d == a \div SUB
           r == a % SUB
<1>2. n \in Nat /\ n * SUB \in Nat /\ NSEC * SUB \in Nat BY <1>1, ProductNat
<1>3. a \in Nat BY <1>1, <1>2
<1>4. d \in Nat /\ r \in 0 .. SUB - 1 /\ a = SUB * d + r
  <2> HIDE DEF a
  <2> QED BY <1>1, <1>3, DivisionIs
<1> HIDE DEF d, r
<1>5. d < 2 * NSEC
  <2>1. SUB * (n + 1) <= SUB * NSEC BY <1>1, ProductMonotone
  <2>2. SUB * (n + 1) = n * SUB + SUB BY <1>1, <1>2, Z3
  <2>3. SUB * NSEC = NSEC * SUB /\ SUB * (2 * NSEC) = 2 * (NSEC * SUB) BY <1>1, Z3
  <2>4. SUB * d \in Int /\ SUB * d <= a BY <1>1, <1>4
  <2>5. SUB * d < SUB * (2 * NSEC) BY <1>1, <1>2, <1>3, <2>1, <2>2, <2>3, <2>4
  <2> QED BY <1>1, <1>4, <2>5, QuotientBelow
<1>6. a - d * SUB = r
  <2>1. SUB * d = d * SUB /\ SUB * d \in Int BY <1>1, <1>4
  <2> QED BY <1>4, <2>1
<1> QED BY <1>1, <1>4, <1>5, <1>6 DEF d

(* A time in parts of a nanosecond. *)
LEMMA InPartsIs ==
  ASSUME NEW s \in Int, NEW n \in Int
  PROVE  /\ (s * NSEC + n) * SUB = s * (NSEC * SUB) + n * SUB
         /\ (s * NSEC + n) * SUB \in Int /\ s * (NSEC * SUB) \in Int /\ n * SUB \in Int
         /\ NSEC * SUB \in Int
<1>1. NSEC \in Int /\ SUB \in Int
  BY StandAloneAssumption DEF Time!TimespecAssumption
<1>2. s * NSEC \in Int /\ NSEC * SUB \in Int /\ n * SUB \in Int BY <1>1
<1>3. (s * NSEC + n) * SUB = (s * NSEC) * SUB + n * SUB BY <1>1, <1>2, Distributes
<1>4. (s * NSEC) * SUB = s * (NSEC * SUB) BY <1>1, Z3
<1>5. s * (NSEC * SUB) \in Int BY <1>2
<1> QED BY <1>2, <1>3, <1>4, <1>5

LEMMA AddStep ==
  ASSUME TimeInv, part = "timespec", part' = part,
         NEW i0 \in Wholes, NEW f \in Fractions, Time!timespec_add(i0, f)
  PROVE  TimeInv'
<1> DEFINE s == ts.tv_sec
           n == ts.tv_nsec
           d == (n * SUB + f) \div SUB
           z == NSEC * SUB
<1>1. /\ NSEC \in Nat \ {0} /\ SUB \in Nat \ {0} /\ f \in 0 .. NSEC * SUB /\ i0 \in Nat
  BY StandAloneAssumption DEF Time!TimespecAssumption
<1>2. s \in Int /\ n \in 0 .. NSEC - 1 BY DEF TimeInv
<1>3. d \in 0 .. 2 * NSEC - 1 /\ (n * SUB + f) - d * SUB \in 0 .. SUB - 1
  <2> HIDE DEF n
  <2> QED BY <1>2, SumOfNanos
<1>4. /\ ts' = IF d >= NSEC THEN [tv_sec |-> s + i0 + 1, tv_nsec |-> d - NSEC]
                            ELSE [tv_sec |-> s + i0, tv_nsec |-> d]
      /\ exact' = (s * NSEC + n) * SUB + i0 * NSEC * SUB + f
  BY DEF Time!timespec_add, Time!carry, Time!InParts
<1> HIDE DEF s, n, d
<1>5. /\ (s * NSEC + n) * SUB = s * z + n * SUB /\ z \in Int
      /\ s * z \in Int /\ n * SUB \in Int
  <2>1. s \in Int /\ n \in Int BY <1>2
  <2> QED BY <2>1, InPartsIs
<1>6. i0 * NSEC * SUB = i0 * z /\ i0 * z \in Int BY <1>1, <1>5, Z3
<1>7. f \in Int /\ d * SUB \in Int BY <1>1, <1>3
<1>8. exact' = s * z + n * SUB + i0 * z + f BY <1>4, <1>5, <1>6
<1>9. (s + i0) * z = s * z + i0 * z BY <1>1, <1>2, <1>5, Distributes
<1>10. CASE d >= NSEC
  <2>1. /\ ts' = [tv_sec |-> s + i0 + 1, tv_nsec |-> d - NSEC]
        /\ ts'.tv_sec = s + i0 + 1 /\ ts'.tv_nsec = d - NSEC
    BY <1>4, <1>10
  <2>2. Time!InParts(ts') = (s + i0 + 1) * z + (d - NSEC) * SUB
    BY <1>1, <1>2, <1>3, <2>1, InPartsIs DEF Time!InParts
  <2>3. (s + i0 + 1) * z = s * z + i0 * z + z
    <3>1. s + i0 \in Int /\ 1 * z = z BY <1>1, <1>2, <1>5
    <3>2. (s + i0 + 1) * z = (s + i0) * z + 1 * z BY <1>5, <3>1, Distributes
    <3> QED BY <1>9, <3>1, <3>2
  <2>4. (d - NSEC) * SUB = d * SUB - z BY <1>1, <1>3, Distributes
  <2>5. exact' - Time!InParts(ts') = (n * SUB + f) - d * SUB
    <3> HIDE DEF z
    <3> QED BY <1>5, <1>6, <1>7, <1>8, <2>2, <2>3, <2>4
  <2>6. ts' \in [tv_sec : Int, tv_nsec : 0 .. NSEC - 1]
    <3>1. s + i0 + 1 \in Int /\ d - NSEC \in 0 .. NSEC - 1 BY <1>1, <1>2, <1>3, <1>10
    <3> QED BY <2>1, <3>1
  <2>7. exact' \in Int
    <3> HIDE DEF z
    <3> QED BY <1>5, <1>6, <1>7, <1>8
  <2> QED BY <1>3, <2>5, <2>6, <2>7 DEF TimeInv, Time!InParts
<1>11. CASE ~(d >= NSEC)
  <2>1. /\ ts' = [tv_sec |-> s + i0, tv_nsec |-> d]
        /\ ts'.tv_sec = s + i0 /\ ts'.tv_nsec = d
    BY <1>4, <1>11
  <2>2. Time!InParts(ts') = (s + i0) * z + d * SUB
    BY <1>1, <1>2, <1>3, <2>1, InPartsIs DEF Time!InParts
  <2>3. exact' - Time!InParts(ts') = (n * SUB + f) - d * SUB
    <3> HIDE DEF z
    <3> QED BY <1>5, <1>6, <1>7, <1>8, <1>9, <2>2
  <2>4. ts' \in [tv_sec : Int, tv_nsec : 0 .. NSEC - 1]
    <3>1. s + i0 \in Int /\ d \in 0 .. NSEC - 1 BY <1>1, <1>2, <1>3, <1>11
    <3> QED BY <2>1, <3>1
  <2>5. exact' \in Int
    <3> HIDE DEF z
    <3> QED BY <1>5, <1>6, <1>7, <1>8
  <2> QED BY <1>3, <2>3, <2>4, <2>5 DEF TimeInv, Time!InParts
<1> QED BY <1>10, <1>11
(* One field of a time changed. *)
LEMMA NewSeconds ==
  ASSUME NEW t, NEW s, NEW n, t = [tv_sec |-> s, tv_nsec |-> n], NEW u
  PROVE  [t EXCEPT !.tv_sec = @ - u] = [tv_sec |-> s - u, tv_nsec |-> n]
OBVIOUS

LEMMA NewNanos ==
  ASSUME NEW s, NEW n, NEW u
  PROVE  [[tv_sec |-> s, tv_nsec |-> n] EXCEPT !.tv_nsec = @ - u]
           = [tv_sec |-> s, tv_nsec |-> n - u]
OBVIOUS

(* A difference is exact: what is borrowed from the seconds is what the    *)
(* nanoseconds get.                                                        *)
LEMMA SubStep ==
  ASSUME TimeInv, part = "timespec", part' = part,
         NEW b \in Time!Times, Time!timespec_sub(b)
  PROVE  TimeInv'
<1> DEFINE s == ts.tv_sec
           n == ts.tv_nsec
           s2 == b.tv_sec
           n2 == b.tv_nsec
           z == NSEC * SUB
<1>1. NSEC \in Nat \ {0} /\ SUB \in Nat \ {0} /\ Seconds \subseteq Nat
  BY StandAloneAssumption DEF Time!TimespecAssumption
<1>2. /\ ts = [tv_sec |-> s, tv_nsec |-> n]
      /\ s \in Int /\ n \in 0 .. NSEC - 1 /\ s2 \in Nat /\ n2 \in 0 .. NSEC - 1
  BY <1>1 DEF TimeInv, Time!Times
<1>3. ts' = IF n < n2 THEN [tv_sec |-> s - s2 - 1, tv_nsec |-> (n + NSEC) - n2]
                      ELSE [tv_sec |-> s - s2, tv_nsec |-> n - n2]
  <2>1. [ts EXCEPT !.tv_sec = @ - s2] = [tv_sec |-> s - s2, tv_nsec |-> n]
    BY <1>2, NewSeconds
  <2>2. Time!borrow([tv_sec |-> s - s2, tv_nsec |-> n], n2) =
          IF n < n2 THEN [tv_sec |-> s - s2 - 1, tv_nsec |-> n + NSEC]
                    ELSE [tv_sec |-> s - s2, tv_nsec |-> n]
    BY DEF Time!borrow
  <2>3. ts' = [Time!borrow([tv_sec |-> s - s2, tv_nsec |-> n], n2)
                 EXCEPT !.tv_nsec = @ - n2]
    BY <2>1 DEF Time!timespec_sub
  <2> HIDE DEF s, n, s2, n2
  <2>4. CASE n < n2
    <3>1. ts' = [[tv_sec |-> s - s2 - 1, tv_nsec |-> n + NSEC] EXCEPT !.tv_nsec = @ - n2]
      BY <2>2, <2>3, <2>4
    <3>2. ts' = [tv_sec |-> s - s2 - 1, tv_nsec |-> (n + NSEC) - n2] BY <3>1, NewNanos
    <3> QED BY <2>4, <3>2
  <2>5. CASE ~(n < n2)
    <3>1. ts' = [[tv_sec |-> s - s2, tv_nsec |-> n] EXCEPT !.tv_nsec = @ - n2]
      BY <2>2, <2>3, <2>5
    <3>2. ts' = [tv_sec |-> s - s2, tv_nsec |-> n - n2] BY <3>1, NewNanos
    <3> QED BY <2>5, <3>2
  <2> QED BY <2>4, <2>5
<1>4. exact' = (s * NSEC + n) * SUB - (s2 * NSEC + n2) * SUB
  BY DEF Time!timespec_sub, Time!InParts
<1> HIDE DEF s, n, s2, n2
<1>5. /\ (s * NSEC + n) * SUB = s * z + n * SUB
      /\ (s2 * NSEC + n2) * SUB = s2 * z + n2 * SUB
      /\ z \in Int /\ s * z \in Int /\ n * SUB \in Int
      /\ s2 * z \in Int /\ n2 * SUB \in Int
  <2>1. s \in Int /\ n \in Int /\ s2 \in Int /\ n2 \in Int BY <1>2
  <2> QED BY <2>1, InPartsIs
<1>6. (s - s2) * z = s * z - s2 * z BY <1>2, <1>5, Distributes
<1>7. exact' \in Int
  <2> HIDE DEF z
  <2> QED BY <1>4, <1>5
<1>8. CASE n < n2
  <2>1. /\ ts' = [tv_sec |-> s - s2 - 1, tv_nsec |-> (n + NSEC) - n2]
        /\ ts'.tv_sec = s - s2 - 1 /\ ts'.tv_nsec = (n + NSEC) - n2
    BY <1>3, <1>8
  <2>2. s - s2 - 1 \in Int /\ (n + NSEC) - n2 \in 0 .. NSEC - 1 BY <1>1, <1>2, <1>8
  <2>3. Time!InParts(ts') = (s - s2 - 1) * z + ((n + NSEC) - n2) * SUB
    <3>1. (n + NSEC) - n2 \in Int BY <2>2
    <3> QED BY <2>1, <2>2, <3>1, InPartsIs DEF Time!InParts
  <2>4. (s - s2 - 1) * z = (s - s2) * z - z
    <3>1. s - s2 \in Int /\ 1 * z = z BY <1>2, <1>5
    <3>2. (s - s2 - 1) * z = (s - s2) * z - 1 * z BY <1>5, <3>1, Distributes
    <3> QED BY <3>1, <3>2
  <2>5. ((n + NSEC) - n2) * SUB = n * SUB + z - n2 * SUB
    <3>1. n + NSEC \in Int /\ n \in Int /\ n2 \in Int BY <1>1, <1>2
    <3>2. ((n + NSEC) - n2) * SUB = (n + NSEC) * SUB - n2 * SUB BY <1>1, <3>1, Distributes
    <3>3. NSEC \in Int /\ SUB \in Int BY <1>1
    <3>4. (n + NSEC) * SUB = n * SUB + z BY <3>1, <3>3, Distributes
    <3> HIDE DEF z
    <3> QED BY <1>5, <3>2, <3>4
  <2>6. exact' - Time!InParts(ts') = 0
    <3> HIDE DEF z
    <3> QED BY <1>4, <1>5, <1>6, <2>3, <2>4, <2>5
  <2> QED BY <1>1, <1>7, <2>1, <2>2, <2>6 DEF TimeInv
<1>9. CASE ~(n < n2)
  <2>1. /\ ts' = [tv_sec |-> s - s2, tv_nsec |-> n - n2]
        /\ ts'.tv_sec = s - s2 /\ ts'.tv_nsec = n - n2
    BY <1>3, <1>9
  <2>2. s - s2 \in Int /\ n - n2 \in 0 .. NSEC - 1 BY <1>1, <1>2, <1>9
  <2>3. Time!InParts(ts') = (s - s2) * z + (n - n2) * SUB
    <3>1. n - n2 \in Int BY <2>2
    <3> QED BY <2>1, <2>2, <3>1, InPartsIs DEF Time!InParts
  <2>4. (n - n2) * SUB = n * SUB - n2 * SUB
    <3>1. n \in Int /\ n2 \in Int BY <1>2
    <3> QED BY <1>1, <3>1, Distributes
  <2>5. exact' - Time!InParts(ts') = 0
    <3> HIDE DEF z
    <3> QED BY <1>4, <1>5, <1>6, <2>3, <2>4
  <2> QED BY <1>1, <1>7, <2>1, <2>2, <2>5 DEF TimeInv
<1> QED BY <1>8, <1>9

(* Whatever is added and subtracted, in whatever order: timespec_add and   *)
(* timespec_sub keep tv_nsec below a second and not negative, a sum is     *)
(* less than a nanosecond early and never late, and a difference is exact. *)
THEOREM TimeStaysRight == AloneSpec => []TimeRight
<1>1. AloneInit => TimeInv
  <2> SUFFICES ASSUME AloneInit, part = "timespec" PROVE TimeInv
    BY DEF TimeInv
  <2>1. ts \in Time!Times /\ exact = Time!InParts(ts)
    BY DEF AloneInit, Time!Init
  <2>2. NSEC \in Nat \ {0} /\ SUB \in Nat \ {0} /\ Seconds \subseteq Nat
    BY StandAloneAssumption DEF Time!TimespecAssumption
  <2>3. /\ ts \in [tv_sec : Int, tv_nsec : 0 .. NSEC - 1]
        /\ ts.tv_sec \in Int /\ ts.tv_nsec \in Int
    <3>1. ts \in [tv_sec : Seconds, tv_nsec : 0 .. NSEC - 1] BY <2>1 DEF Time!Times
    <3>2. ts.tv_sec \in Seconds /\ ts.tv_nsec \in 0 .. NSEC - 1 BY <3>1
    <3>3. ts = [tv_sec |-> ts.tv_sec, tv_nsec |-> ts.tv_nsec] BY <3>1, Zenon
    <3> QED BY <2>2, <3>2, <3>3
  <2>4. Time!InParts(ts) \in Int BY <2>3, InPartsIs DEF Time!InParts
  <2>5. exact - Time!InParts(ts) = 0 BY <2>1, <2>4
  <2> QED BY <2>1, <2>2, <2>3, <2>4, <2>5 DEF TimeInv
<1>2. TimeInv /\ [AloneNext]_alone_vars => TimeInv'
  <2> SUFFICES ASSUME TimeInv, [AloneNext]_alone_vars PROVE TimeInv'
    OBVIOUS
  <2>1. CASE part = "timespec" /\ AloneNext
    <3>1. part' = part /\ Time!Next BY <2>1 DEF AloneNext
    <3>2. CASE \E i0 \in Wholes, f \in Fractions : Time!timespec_add(i0, f)
      BY <2>1, <3>1, <3>2, AddStep
    <3>3. CASE \E b \in Time!Times : Time!timespec_sub(b)
      BY <2>1, <3>1, <3>3, SubStep
    <3> QED BY <3>1, <3>2, <3>3 DEF Time!Next
  <2>2. CASE part # "timespec"
    <3>1. part' = part BY DEF AloneNext, alone_vars
    <3> QED BY <2>2, <3>1 DEF TimeInv
  <2>3. CASE UNCHANGED alone_vars
    <3>1. part' = part /\ ts' = ts /\ exact' = exact
      BY <2>3 DEF alone_vars, timespec
    <3> QED BY <3>1 DEF TimeInv, Time!InParts
  <2> QED BY <2>1, <2>2, <2>3
<1>3. TimeInv => TimeRight
  BY DEF TimeInv, TimeRight, Time!Normalised, Time!TimeExact
<1> QED BY <1>1, <1>2, <1>3, PTL DEF AloneSpec

-----------------------------------------------------------------------------
(* Cleanse. *)

(* a divided by p is q, and r remains. *)
IsDivided(a, p, q, r) == q \in Int /\ r \in 0 .. p - 1 /\ a = p * q + r

LEMMA OneDivision ==
  ASSUME NEW p \in Nat \ {0}, NEW a, NEW q, NEW r, NEW v, NEW w,
         IsDivided(a, p, q, r), IsDivided(a, p, v, w)
  PROVE  r = w
<1>1. /\ q \in Int /\ r \in 0 .. p - 1
      /\ v \in Int /\ w \in 0 .. p - 1
  BY DEF IsDivided
<1>2. p * q + r = p * v + w BY Zenon DEF IsDivided
<1> QED BY <1>1, <1>2, DivisionUnique

LEMMA Divided ==
  ASSUME NEW p \in Nat \ {0}, NEW a \in Nat
  PROVE  IsDivided(a, p, a \div p, a % p)
BY DivisionIs DEF IsDivided

LEMMA SmallRemainder ==
  ASSUME NEW p \in Nat \ {0}, NEW a \in 0 .. p - 1
  PROVE  a % p = a
<1>1. a \in Nat OBVIOUS
<1>2. IsDivided(a, p, a \div p, a % p) BY <1>1, Divided
<1>3. IsDivided(a, p, 0, a)
  <2>1. a = p * 0 + a BY <1>1, Z3
  <2> QED BY <2>1 DEF IsDivided
<1> QED BY <1>2, <1>3, OneDivision

LEMMA NextMultiple ==
  ASSUME NEW p \in Nat \ {0}, NEW a \in Nat, a % p = 0
  PROVE  (a + p) % p = 0
<1> DEFINE b == a + p
           q == a \div p
           u == q + 1
<1>1. b \in Nat OBVIOUS
<1>2. q \in Int /\ a = p * q + 0 BY DivisionIs
<1>3. IsDivided(b, p, u, 0)
  <2> HIDE DEF q
  <2>1. p * (q + 1) = p * q + p /\ p * q \in Int BY <1>2, Z3
  <2>2. b = p * u + 0 /\ u \in Int BY <1>2, <2>1
  <2>3. 0 \in 0 .. p - 1 OBVIOUS
  <2> QED BY <2>2, <2>3 DEF IsDivided
<1> HIDE DEF b, u
<1>4. IsDivided(b, p, b \div p, b % p) BY <1>1, Divided
<1>5. b % p = 0 BY <1>3, <1>4, OneDivision
<1> QED BY <1>5 DEF b

(* Up to the next multiple. *)
LEMMA ToMultiple ==
  ASSUME NEW p \in Nat \ {0}, NEW a \in Nat
  PROVE  LET n == (p - (a % p)) % p
         IN  n \in 0 .. p - 1 /\ (a + n) % p = 0
<1> DEFINE r == a % p
           q == a \div p
<1>1. q \in Nat /\ r \in 0 .. p - 1 /\ a = p * q + r BY DivisionIs
<1> HIDE DEF q, r
<1>2. CASE r = 0
  <2>1. p - r = 0 + p /\ 0 \in Nat BY <1>2
  <2>2. 0 \in 0 .. p - 1 OBVIOUS
  <2>3. 0 % p = 0 BY <2>2, SmallRemainder
  <2>4. (0 + p) % p = 0 BY <2>3, NextMultiple
  <2>5. (p - r) % p = 0 BY <2>1, <2>4
  <2>6. a + 0 = a OBVIOUS
  <2> QED BY <1>2, <2>2, <2>5, <2>6 DEF r
<1>3. CASE r # 0
  <2>1. p - r \in 0 .. p - 1 BY <1>1, <1>3
  <2>2. (p - r) % p = p - r BY <2>1, SmallRemainder
  <2> DEFINE e == p * q
  <2>3. e \in Nat /\ a = e + r BY <1>1, ProductNat
  <2>4. e % p = 0
    <3>1. 0 \in 0 .. p - 1 /\ e = p * q + 0 BY <2>3
    <3>2. IsDivided(e, p, q, 0) BY <1>1, <3>1 DEF IsDivided
    <3> HIDE DEF e
    <3>3. IsDivided(e, p, e \div p, e % p) BY <2>3, Divided
    <3> QED BY <3>2, <3>3, OneDivision
  <2> HIDE DEF e
  <2>5. (e + p) % p = 0 BY <2>3, <2>4, NextMultiple
  <2>6. a + (p - r) = e + p BY <1>1, <2>3
  <2> QED BY <2>1, <2>2, <2>5, <2>6 DEF r
<1> QED BY <1>2, <1>3

(* What is written lies before `at', and nothing else does.  Either the    *)
(* leading bytes end on a word, or no word follows them.                   *)
CleanseInv ==
  part = "cleanse" =>
    /\ start \in Nat /\ at \in Nat /\ left \in 0 .. UNSIGNED - 1 /\ nbytes \in 0 .. left
    /\ start <= at /\ at + left = end
    /\ cleared = start .. at - 1
    /\ (at + nbytes) % SizeofWord = 0 \/ left - nbytes < SizeofWord

(* cleanse writes nothing outside of its range, all of it when it is done, *)
(* and words only at addresses of words, wherever the range lies.          *)
THEOREM CleanseClearsRange == AloneSpec => []ClearsRange
<1>0. /\ SizeofWord \in Nat \ {0} /\ MaxBytes \in Nat /\ MaxBytes < UNSIGNED
      /\ UNSIGNED \in Nat \ {0}
  BY StandAloneAssumption DEF Cleanse!CleanseAssumption, Array!ArrayAssumption
<1>1. AloneInit => CleanseInv
  <2> SUFFICES ASSUME AloneInit, part = "cleanse" PROVE CleanseInv
    BY DEF CleanseInv
  <2>1. /\ start \in 0 .. MaxBytes /\ end \in start .. MaxBytes
        /\ left = (end - start) % UNSIGNED /\ at = start
        /\ nbytes = Cleanse!leading(start, left) /\ cleared = {}
    BY DEF AloneInit, Cleanse!Init
  <2>2. end - start \in 0 .. UNSIGNED - 1 /\ start \in Nat BY <1>0, <2>1
  <2>3. left = end - start
    <3> DEFINE e == end - start
    <3>1. e \in 0 .. UNSIGNED - 1 /\ left = e % UNSIGNED BY <2>1, <2>2
    <3> HIDE DEF e
    <3>2. left = e BY <1>0, <3>1, SmallRemainder
    <3> QED BY <3>2 DEF e
  <2> DEFINE n == (SizeofWord - (start % SizeofWord)) % SizeofWord
  <2>4. n \in 0 .. SizeofWord - 1 /\ (start + n) % SizeofWord = 0
    BY <1>0, <2>2, ToMultiple
  <2>5. nbytes = IF n < left THEN n ELSE left
    BY <2>1 DEF Cleanse!leading, Cleanse!Smaller, Cleanse!to_word
  <2> HIDE DEF n
  <2>6. start .. at - 1 = {} BY <2>1, <2>2
  <2>7. nbytes \in 0 .. left /\ ((at + nbytes) % SizeofWord = 0 \/ left - nbytes < SizeofWord)
    <3>1. CASE n < left BY <2>1, <2>2, <2>3, <2>4, <2>5, <3>1
    <3>2. CASE ~(n < left) BY <1>0, <2>1, <2>2, <2>3, <2>4, <2>5, <3>2
    <3> QED BY <3>1, <3>2
  <2> QED BY <2>1, <2>2, <2>3, <2>6, <2>7 DEF CleanseInv
<1>2. CleanseInv /\ [AloneNext]_alone_vars => CleanseInv'
  <2> SUFFICES ASSUME CleanseInv, [AloneNext]_alone_vars PROVE CleanseInv'
    OBVIOUS
  <2>0. part' = part BY DEF AloneNext, alone_vars
  <2>1. CASE part = "cleanse" /\ AloneNext
    <3>0. /\ start \in Nat /\ at \in Nat /\ left \in 0 .. UNSIGNED - 1 /\ nbytes \in 0 .. left
          /\ start <= at /\ at + left = end /\ cleared = start .. at - 1
      BY <2>1 DEF CleanseInv
    <3>1. ASSUME NEW n \in Nat, n <= left, Cleanse!Clear(n)
          PROVE  /\ start' = start /\ end' = end /\ at' = at + n /\ left' = left - n
                 /\ left' \in 0 .. UNSIGNED - 1 /\ at' \in Nat /\ start' <= at'
                 /\ at' + left' = end' /\ cleared' = start' .. at' - 1
      <4>1. left - n \in 0 .. UNSIGNED - 1 BY <1>0, <3>0, <3>1
      <4>2. /\ start' = start /\ end' = end /\ at' = at + n
            /\ left' = (left - n) % UNSIGNED
            /\ cleared' = cleared \cup (at .. at + n - 1)
        BY <3>1 DEF Cleanse!Clear
      <4>3. left' = left - n
        <5> DEFINE e == left - n
        <5>1. e \in 0 .. UNSIGNED - 1 /\ left' = e % UNSIGNED BY <4>1, <4>2
        <5> HIDE DEF e
        <5>2. left' = e BY <1>0, <5>1, SmallRemainder
        <5> QED BY <5>2 DEF e
      <4>4. cleared' = start .. at + n - 1 BY <3>0, <3>1, <4>2
      <4> QED BY <3>0, <4>1, <4>2, <4>3, <4>4
    <3>2. CASE Cleanse!LeadingByte
      <4>1. nbytes > 0 /\ nbytes' = nbytes - 1 /\ Cleanse!Clear(1)
        BY <3>2 DEF Cleanse!LeadingByte
      <4>2. 1 <= left BY <3>0, <4>1
      <4>a. at' = at + 1 /\ left' = left - 1 BY <3>1, <4>1, <4>2
      <4>3. at' + nbytes' = at + nbytes /\ left' - nbytes' = left - nbytes
        BY <3>0, <4>1, <4>a
      <4>4. (at' + nbytes') % SizeofWord = 0 \/ left' - nbytes' < SizeofWord
        BY <2>1, <4>3 DEF CleanseInv
      <4>5. nbytes' \in 0 .. left' BY <3>0, <4>1, <4>2, <4>a
      <4> QED BY <3>0, <3>1, <4>1, <4>2, <4>4, <4>5 DEF CleanseInv
    <3>3. CASE Cleanse!ClearWord
      <4>1. nbytes = 0 /\ left >= SizeofWord /\ nbytes' = nbytes /\ Cleanse!Clear(SizeofWord)
        BY <3>3 DEF Cleanse!ClearWord, Cleanse!words_left
      <4>2. at % SizeofWord = 0
        <5>1. at + nbytes = at /\ ~(left - nbytes < SizeofWord) BY <1>0, <3>0, <4>1
        <5> QED BY <2>1, <5>1 DEF CleanseInv
      <4>3. (at + SizeofWord) % SizeofWord = 0 BY <1>0, <3>0, <4>2, NextMultiple
      <4>4. at' + nbytes' = at + SizeofWord BY <1>0, <3>0, <3>1, <4>1
      <4>5. (at' + nbytes') % SizeofWord = 0 BY <4>3, <4>4
      <4>6. nbytes' \in 0 .. left' BY <1>0, <3>0, <3>1, <4>1
      <4> QED BY <1>0, <3>0, <3>1, <4>1, <4>5, <4>6 DEF CleanseInv
    <3>4. CASE Cleanse!RemainingByte
      <4>1. /\ nbytes = 0 /\ ~(left >= SizeofWord) /\ left > 0
            /\ nbytes' = nbytes /\ Cleanse!Clear(1)
        BY <3>4 DEF Cleanse!RemainingByte, Cleanse!words_left
      <4>2. left' - nbytes' < SizeofWord BY <1>0, <3>0, <3>1, <4>1
      <4>3. nbytes' \in 0 .. left' BY <3>0, <3>1, <4>1
      <4> QED BY <3>0, <3>1, <4>1, <4>2, <4>3 DEF CleanseInv
    <3> QED BY <2>1, <3>2, <3>3, <3>4 DEF AloneNext, Cleanse!Next
  <2>2. CASE part # "cleanse" BY <2>0, <2>2 DEF CleanseInv
  <2>3. CASE UNCHANGED alone_vars
    <3>1. /\ start' = start /\ end' = end /\ at' = at /\ left' = left
          /\ nbytes' = nbytes /\ cleared' = cleared
      BY <2>3 DEF alone_vars, cleanse
    <3> QED BY <2>0, <3>1 DEF CleanseInv
  <2> QED BY <2>1, <2>2, <2>3
<1>3. CleanseInv => ClearsRange
  <2> SUFFICES ASSUME CleanseInv, part = "cleanse"
               PROVE  Cleanse!ClearsInside /\ Cleanse!ClearsAll
    BY DEF ClearsRange
  <2>1. /\ start \in Nat /\ at \in Nat /\ left \in Nat /\ nbytes \in Nat
        /\ at + left = end /\ cleared = start .. at - 1
    BY DEF CleanseInv
  <2>2. Cleanse!ClearsInside BY <2>1 DEF Cleanse!ClearsInside
  <2>3. left = 0 => start .. end - 1 \subseteq cleared BY <2>1
  <2>4. nbytes = 0 /\ Cleanse!words_left => at % SizeofWord = 0
    <3> SUFFICES ASSUME nbytes = 0, left >= SizeofWord PROVE at % SizeofWord = 0
      BY DEF Cleanse!words_left
    <3>1. at + nbytes = at /\ ~(left - nbytes < SizeofWord) BY <1>0, <2>1
    <3> QED BY <3>1 DEF CleanseInv
  <2> QED BY <2>2, <2>3, <2>4 DEF Cleanse!ClearsAll
<1> QED BY <1>1, <1>2, <1>3, PTL DEF AloneSpec

-----------------------------------------------------------------------------
(* The life of a synchronised ring buffer. *)

(* Where srb_init is says which of its parts there are.  Only the pointers *)
(* of a buffer that is there, or is being made, name events: those of one  *)
(* that is not may dangle.                                                 *)
SrbShape ==
  /\ ~wrong
  /\ ringbufs = IF ringbuf = "mapped" THEN 1 ELSE 0
  /\ ringbuf \in {"null", "mapped", "MAP_FAILED"}
  /\ structure \in {"embedded", "allocated", "none"}
  /\ srb_pc \in {"idle", "init_ringbuffer", "mtx_init", "more", "less", "check", "release"}
  /\ srb_pc = "idle" =>
       IF ringbuf = "mapped"
       THEN lock /\ events = {more, less} /\ nullptr \notin events /\ structure # "none"
       ELSE events = {} /\ structure # "allocated"
  /\ srb_pc # "idle" => structure # "none"
  /\ srb_pc \in {"init_ringbuffer", "release"} => ringbuf # "mapped" /\ events = {}
  /\ srb_pc = "release" => structure = "allocated"
  /\ srb_pc \in {"mtx_init", "more", "less", "check"} => ringbuf = "mapped"
  /\ srb_pc \in {"more", "less", "check"} => lock
  /\ srb_pc \in {"mtx_init", "more"} => events = {}
  /\ srb_pc = "less" => events = {more} \ {nullptr}
  /\ srb_pc = "check" => events = {more, less} \ {nullptr}

(* As long as every event could be made there is a mutex just where there  *)
(* is a buffer, and both events come about.                                *)
SrbClean ==
  ~refused =>
    /\ undestroyed = {}
    /\ srb_pc \in {"idle", "init_ringbuffer", "mtx_init", "release"} =>
         (lock => ringbuf = "mapped" /\ srb_pc = "idle")
    /\ srb_pc \in {"less", "check"} => more # nullptr
    /\ srb_pc = "check" => less # nullptr

SrbInv == part = "srb" => SrbShape /\ SrbClean

(* The ways a step of srb_init goes on after giving up. *)
LEMMA GivenUp ==
  ASSUME Srb!GiveUp
  PROVE  IF structure = "allocated" THEN srb_pc' = "release" ELSE srb_pc' = "idle"
BY DEF Srb!GiveUp

(* From a step in which an event is made, or not. *)
LEMMA EventMade ==
  ASSUME NEW p, Srb!create_event(p), nullptr \notin Address
  PROVE  /\ events' = events \cup ({p} \ {nullptr})
         /\ ~refused' => ~refused /\ p # nullptr /\ undestroyed' = undestroyed
BY DEF Srb!create_event

LEMMA SrbStep ==
  ASSUME SrbShape, SrbClean, Srb!Next
  PROVE  SrbShape' /\ SrbClean'
<1>1. nullptr \notin Address BY StandAloneAssumption DEF Srb!LifecycleAssumption
<1>2. CASE Srb!srb_create
  <2>1. SrbShape' BY <1>2 DEF Srb!srb_create, SrbShape
  <2>2. SrbClean' BY <1>2 DEF Srb!srb_create, SrbClean
  <2> QED BY <2>1, <2>2
<1>3. CASE Srb!srb_init
  <2>1. SrbShape' BY <1>3 DEF Srb!srb_init, Srb!fields, SrbShape
  <2>2. SrbClean' BY <1>3 DEF Srb!srb_init, Srb!fields, SrbClean
  <2> QED BY <2>1, <2>2
<1>4. CASE Srb!init_ringbuffer
  <2>1. /\ srb_pc = "init_ringbuffer" /\ lock' = lock /\ more' = more /\ less' = less
        /\ structure' = structure /\ events' = events /\ undestroyed' = undestroyed
        /\ refused' = refused /\ wrong' = wrong
    BY <1>4 DEF Srb!init_ringbuffer
  <2>2. CASE ringbuf' = "mapped" /\ ringbufs' = ringbufs + 1 /\ srb_pc' = "mtx_init"
    BY <2>1, <2>2 DEF SrbShape, SrbClean
  <2>3. CASE ringbuf' = "MAP_FAILED" /\ Srb!GiveUp /\ UNCHANGED ringbufs
    BY <2>1, <2>3, GivenUp DEF SrbShape, SrbClean
  <2> QED BY <1>4, <2>2, <2>3 DEF Srb!init_ringbuffer
<1>5. CASE Srb!InitLock
  <2>1. /\ srb_pc = "mtx_init" /\ more' = more /\ less' = less
        /\ structure' = structure /\ events' = events /\ undestroyed' = undestroyed
        /\ refused' = refused /\ wrong' = wrong
    BY <1>5 DEF Srb!InitLock
  <2>2. CASE lock' = TRUE /\ srb_pc' = "more" /\ UNCHANGED <<ringbuf, ringbufs>>
    BY <2>1, <2>2 DEF SrbShape, SrbClean
  <2>3. CASE Srb!fini_ringbuffer /\ Srb!GiveUp /\ UNCHANGED lock
    BY <2>1, <2>3, GivenUp DEF SrbShape, SrbClean, Srb!fini_ringbuffer
  <2> QED BY <1>5, <2>2, <2>3 DEF Srb!InitLock
<1>6. CASE Srb!CreateMore
  <2>1. /\ srb_pc = "more" /\ srb_pc' = "less" /\ lock' = lock /\ less' = less
        /\ structure' = structure /\ ringbuf' = ringbuf /\ ringbufs' = ringbufs
        /\ wrong' = wrong /\ Srb!create_event(more')
    BY <1>6 DEF Srb!CreateMore
  <2>2. /\ events' = events \cup ({more'} \ {nullptr})
        /\ ~refused' => ~refused /\ more' # nullptr /\ undestroyed' = undestroyed
    BY <1>1, <2>1, EventMade
  <2>3. SrbShape' BY <2>1, <2>2 DEF SrbShape
  <2>4. SrbClean' BY <2>1, <2>2 DEF SrbClean
  <2> QED BY <2>3, <2>4
<1>7. CASE Srb!CreateLess
  <2>1. /\ srb_pc = "less" /\ srb_pc' = "check" /\ lock' = lock /\ more' = more
        /\ structure' = structure /\ ringbuf' = ringbuf /\ ringbufs' = ringbufs
        /\ wrong' = wrong /\ Srb!create_event(less')
    BY <1>7 DEF Srb!CreateLess
  <2>2. /\ events' = events \cup ({less'} \ {nullptr})
        /\ ~refused' => ~refused /\ less' # nullptr /\ undestroyed' = undestroyed
    BY <1>1, <2>1, EventMade
  <2>3. events' = {more', less'} \ {nullptr} BY <2>1, <2>2 DEF SrbShape
  <2>4. SrbShape' BY <2>1, <2>3 DEF SrbShape
  <2>5. SrbClean' BY <2>1, <2>2 DEF SrbClean
  <2> QED BY <2>4, <2>5
<1>8. CASE Srb!Check
  <2>1. /\ srb_pc = "check" /\ lock' = lock /\ more' = more /\ less' = less
        /\ structure' = structure /\ undestroyed' = undestroyed /\ refused' = refused
    BY <1>8 DEF Srb!Check
  <2>2. /\ events = {more, less} \ {nullptr} /\ ringbuf = "mapped" /\ lock
        /\ structure \in {"embedded", "allocated"}
    BY <2>1 DEF SrbShape
  <2>3. CASE more # nullptr /\ less # nullptr
    <3>1. srb_pc' = "idle" /\ UNCHANGED <<ringbuf, ringbufs, events, wrong>>
      BY <1>8, <2>3 DEF Srb!Check
    <3>2. SrbShape' BY <2>1, <2>2, <2>3, <3>1 DEF SrbShape
    <3>3. SrbClean' BY <2>1, <2>2, <3>1 DEF SrbClean
    <3> QED BY <3>2, <3>3
  <2>4. CASE ~(more # nullptr /\ less # nullptr)
    <3>1. Srb!Deleted({more, less}) /\ Srb!fini_ringbuffer /\ Srb!GiveUp
      BY <1>8, <2>4 DEF Srb!Check, Srb!undo
    <3>2. events' = {} /\ ~wrong'
      BY <2>2, <3>1 DEF SrbShape, Srb!Deleted
    <3>3. SrbShape' BY <2>1, <2>2, <3>1, <3>2, GivenUp DEF SrbShape, Srb!fini_ringbuffer
    <3>4. refused' BY <2>1, <2>4 DEF SrbClean
    <3>5. SrbClean' BY <3>4 DEF SrbClean
    <3> QED BY <3>3, <3>5
  <2> QED BY <2>3, <2>4
<1>9. CASE Srb!Release
  <2>1. /\ srb_pc = "release" /\ srb_pc' = "idle" /\ structure' = "none"
        /\ undestroyed' = IF lock THEN undestroyed \cup {"lock"} ELSE undestroyed
        /\ UNCHANGED <<ringbufs, ringbuf, lock, more, less, events, refused, wrong>>
    BY <1>9 DEF Srb!Release, Srb!fields
  <2>2. SrbShape' BY <2>1 DEF SrbShape
  <2>3. SrbClean' BY <2>1 DEF SrbClean
  <2> QED BY <2>2, <2>3
<1>10. CASE Srb!Undo /\ srb_pc = "idle" /\ ringbuf # "MAP_FAILED"
            /\ structure' = IF structure = "allocated" THEN "none" ELSE structure
  <2>1. /\ srb_pc' = srb_pc /\ more' = more /\ less' = less
        /\ undestroyed' = undestroyed /\ refused' = refused
    BY <1>10 DEF Srb!Undo
  <2>2. CASE ringbuf = "mapped"
    <3>1. /\ events' = events \ {more, less}
          /\ wrong' = (wrong \/ ~lock \/ ~({more, less} \subseteq events))
          /\ lock' = FALSE
          /\ Srb!fini_ringbuffer
      BY <1>10, <2>2 DEF Srb!Undo, Srb!initialised
    <3>2. events' = {} /\ ~wrong' BY <1>10, <2>2, <3>1 DEF SrbShape
    <3>3. SrbShape' BY <1>10, <2>1, <2>2, <3>1, <3>2 DEF SrbShape, Srb!fini_ringbuffer
    <3>4. SrbClean' BY <1>10, <2>1, <3>1 DEF SrbClean
    <3> QED BY <3>3, <3>4
  <2>3. CASE ringbuf # "mapped"
    <3>1. UNCHANGED <<events, wrong, lock, ringbuf, ringbufs>>
      BY <1>10, <2>3 DEF Srb!Undo, Srb!initialised, SrbShape
    <3>2. SrbShape' BY <1>10, <2>1, <2>3, <3>1 DEF SrbShape
    <3>3. SrbClean' BY <1>10, <2>1, <3>1 DEF SrbClean
    <3> QED BY <3>2, <3>3
  <2> QED BY <2>2, <2>3
<1>11. CASE Srb!srb_fini
  BY <1>10, <1>11 DEF Srb!srb_fini
<1>12. CASE Srb!srb_delete
  <2>1. ringbuf # "MAP_FAILED" BY <1>12 DEF Srb!srb_delete, SrbShape
  <2> QED BY <1>10, <1>12, <2>1 DEF Srb!srb_delete
<1> QED BY <1>2, <1>3, <1>4, <1>5, <1>6, <1>7, <1>8, <1>9, <1>11, <1>12 DEF Srb!Next

(* Whichever step of srb_init fails, and however often srb_fini follows,   *)
(* nothing is undone that is not there, a buffer has all its parts, and of *)
(* one that is not there no memory is left.  Nor is a mutex or a condition *)
(* variable, as long as create_event has not failed.                       *)
THEOREM SrbMadeOrUndone == AloneSpec => []MadeOrUndone
<1>1. AloneInit => SrbInv
  <2> SUFFICES ASSUME AloneInit, part = "srb" PROVE SrbShape /\ SrbClean
    BY DEF SrbInv
  <2>1. Srb!Init BY DEF AloneInit
  <2> QED BY <2>1 DEF Srb!Init, SrbShape, SrbClean
<1>2. SrbInv /\ [AloneNext]_alone_vars => SrbInv'
  <2> SUFFICES ASSUME SrbInv, [AloneNext]_alone_vars, part' = "srb"
               PROVE  SrbShape' /\ SrbClean'
    BY DEF SrbInv
  <2>1. part = "srb" /\ SrbShape /\ SrbClean BY DEF AloneNext, alone_vars, SrbInv
  <2>2. CASE AloneNext
    <3>1. Srb!Next BY <2>1, <2>2 DEF AloneNext
    <3> QED BY <2>1, <3>1, SrbStep
  <2>3. CASE UNCHANGED alone_vars
    <3>1. UNCHANGED srb BY <2>3 DEF alone_vars
    <3>2. SrbShape' BY <2>1, <3>1 DEF SrbShape, srb
    <3>3. SrbClean' BY <2>1, <3>1 DEF SrbClean, srb
    <3> QED BY <3>2, <3>3
  <2> QED BY <2>2, <2>3
<1>3. SrbInv => MadeOrUndone
  <2> SUFFICES ASSUME SrbInv, part = "srb"
               PROVE  Srb!UndoneOnce /\ Srb!AllOrNothing /\ Srb!LeavesOnRefusal
    BY DEF MadeOrUndone
  <2>1. SrbShape /\ SrbClean BY DEF SrbInv
  <2>2. Srb!UndoneOnce /\ Srb!AllOrNothing
    BY <2>1 DEF SrbShape, Srb!UndoneOnce, Srb!AllOrNothing
  <2>3. Srb!LeavesOnRefusal BY <2>1 DEF SrbClean, Srb!LeavesOnRefusal
  <2> QED BY <2>2, <2>3
<1> QED BY <1>1, <1>2, <1>3, PTL DEF AloneSpec

-----------------------------------------------------------------------------
(* The memory-mapped array. *)

(* Rounded up to pages: the least number of pages that is not too small.   *)
LEMMA RoundUp ==
  ASSUME NEW p \in Nat \ {0}, NEW a \in Nat
  PROVE  LET q == (a + p - 1) \div p
         IN  /\ q \in Nat /\ p * q \in Nat
             /\ a <= p * q /\ p * q <= a + p - 1
             /\ \A k \in Nat : a <= p * k /\ p * k <= a + p - 1 => k = q
<1> DEFINE e == a + p - 1
           q == e \div p
           r == e % p
<1>1. e \in Nat OBVIOUS
<1>2. e = a + p - 1 OBVIOUS
<1> HIDE DEF e
<1>3. q \in Nat /\ r \in 0 .. p - 1 /\ e = p * q + r BY <1>1, DivisionIs
<1> HIDE DEF q, r
<1>4. p * q \in Nat BY <1>3, ProductNat
<1>5. a <= p * q /\ p * q <= a + p - 1 BY <1>2, <1>3, <1>4
<1>6. ASSUME NEW k \in Nat, a <= p * k, p * k <= a + p - 1
      PROVE  k = q
  <2> DEFINE w == e - p * k
  <2>1. p * k \in Nat BY ProductNat
  <2>2. w \in 0 .. p - 1 /\ p * k + w = e BY <1>1, <1>2, <1>6, <2>1
  <2> HIDE DEF w
  <2>3. p * k + w = p * q + r BY <1>3, <2>2
  <2> QED BY <1>3, <2>2, <2>3, DivisionUnique
<1>7. q = (a + p - 1) \div p BY <1>2 DEF q
<1> QED BY <1>3, <1>4, <1>5, <1>6, <1>7

(* The items that fit in a number of bytes. *)
LEMMA ItemsThatFit ==
  ASSUME NEW s \in Nat \ {0}, NEW e \in Nat
  PROVE  LET c == e \div s
         IN  /\ c \in Nat /\ c * s \in Nat /\ c * s <= e /\ e < c * s + s
             /\ \A n \in Nat : n * s <= e => n <= c
<1> DEFINE c == e \div s
           r == e % s
<1>1. c \in Nat /\ r \in 0 .. s - 1 /\ e = s * c + r BY DivisionIs
<1> HIDE DEF c, r
<1>2. c * s = s * c /\ c * s \in Nat BY <1>1, ProductNat
<1>3. c * s <= e /\ e < c * s + s BY <1>1, <1>2
<1>4. ASSUME NEW n \in Nat, n * s <= e
      PROVE  n <= c
  <2>1. n * s = s * n /\ n * s \in Int OBVIOUS
  <2>2. s * (c + 1) = s * c + s BY <1>1, Z3
  <2>3. s * n < s * (c + 1) BY <1>1, <1>2, <1>3, <1>4, <2>1, <2>2
  <2>4. c + 1 \in Int BY <1>1
  <2>5. n < c + 1 BY <2>3, <2>4, QuotientBelow
  <2> QED BY <1>1, <2>5
<1> QED BY <1>1, <1>2, <1>3, <1>4 DEF c

ArrayIs(length_, capacity_, mapped_) ==
  /\ length_ \in 0 .. MaxLength /\ capacity_ \in Nat
  /\ capacity_ * item_size \in Nat /\ mapped_ \in Nat
  /\ length_ <= capacity_
  /\ SizeofHeader + capacity_ * item_size <= mapped_
  /\ Array!calc_memsize(capacity_) = mapped_

(* The size that is mapped is the one computed from the capacity, though   *)
(* the capacity is what remained of it after rounding to whole items.      *)
ArrayInv ==
  part = "mmarray" =>
    /\ item_size \in Nat \ {0}
    /\ array_mapped = 0 \/ ArrayIs(length, capacity, array_mapped)
    /\ Array!AppendsAtEnd

(* However many items there shall be room for, what is mapped for them is  *)
(* found again from the capacity that results.                             *)
LEMMA RoomFor ==
  ASSUME NEW n \in 0 .. MaxLength, item_size \in Nat \ {0}
  PROVE  LET m == Array!calc_memsize(n)
         IN  ArrayIs(n, Array!capacity_of(m), m)
<1>0. /\ sys_page_size \in Nat \ {0} /\ SizeofHeader \in 1 .. sys_page_size
      /\ UNSIGNED \in Nat \ {0} /\ MaxLength \in Nat
      /\ MaxLength + sys_page_size < UNSIGNED
  BY StandAloneAssumption DEF Array!ArrayAssumption
<1> DEFINE p == sys_page_size
           s == item_size
           a == SizeofHeader + n * s
           q == (a + p - 1) \div p
           m == p * q
           e == m - SizeofHeader
           c == e \div s
           b == SizeofHeader + c * s
<1>1. n * s \in Nat /\ a \in Nat /\ a = SizeofHeader + n * s BY <1>0, ProductNat
<1>2. Array!calc_memsize(n) = m BY DEF Array!calc_memsize
<1>3. Array!capacity_of(m) = c % UNSIGNED BY DEF Array!capacity_of
<1>4. /\ q \in Nat /\ m \in Nat /\ m = p * q /\ a <= m /\ m <= a + p - 1
  <2> HIDE DEF a
  <2> QED BY <1>0, <1>1, RoundUp
<1> HIDE DEF a, q, m
<1>5. e \in Nat /\ e = m - SizeofHeader /\ n * s <= e BY <1>0, <1>1, <1>4
<1>6. c \in Nat /\ c * s \in Nat /\ c * s <= e /\ e < c * s + s /\ n <= c
  <2>1. s \in Nat \ {0} /\ n \in Nat BY <1>0
  <2> HIDE DEF e, s
  <2>2. c \in Nat /\ c * s \in Nat /\ c * s <= e /\ e < c * s + s
    BY <1>5, <2>1, ItemsThatFit
  <2>3. n <= c BY <1>5, <2>1, ItemsThatFit
  <2> QED BY <2>2, <2>3
<1> HIDE DEF e, c
<1>7. c <= n + p - 1
  <2> SUFFICES ASSUME n + p <= c PROVE FALSE
    BY <1>0, <1>6
  <2>1. s * (n + p) <= s * c
    <3>1. n + p \in Int /\ c \in Int BY <1>0, <1>6
    <3> QED BY <3>1, ProductMonotone
  <2>2. s * (n + p) = s * n + s * p /\ s * n = n * s /\ s * c = c * s
    BY <1>0, <1>6, Z3
  <2>3. p <= s * p
    <3>1. p * 1 <= p * s BY <1>0, ProductMonotone
    <3> QED BY <1>0, <3>1, Z3
  <2>4. s * p \in Int BY <1>0
  <2> QED BY <1>0, <1>1, <1>4, <1>5, <1>6, <2>1, <2>2, <2>3, <2>4
<1>8. c % UNSIGNED = c
  <2>1. c \in 0 .. UNSIGNED - 1 BY <1>0, <1>6, <1>7
  <2> QED BY <1>0, <2>1, SmallRemainder
<1>9. b \in Nat /\ b = SizeofHeader + c * s BY <1>0, <1>6
<1>10. Array!calc_memsize(c) = p * ((b + p - 1) \div p) BY DEF Array!calc_memsize
<1> HIDE DEF b
<1>11. b <= p * q /\ p * q <= b + p - 1
  <2>1. n * s <= c * s
    <3>1. s * n <= s * c BY <1>6, ProductMonotone
    <3> QED BY <1>6, <3>1
  <2> QED BY <1>0, <1>1, <1>4, <1>5, <1>6, <1>9, <2>1
<1>12. q = (b + p - 1) \div p BY <1>0, <1>4, <1>9, <1>11, RoundUp
<1>13. Array!calc_memsize(c) = m BY <1>4, <1>10, <1>12
<1>14. ArrayIs(n, c, m) BY <1>4, <1>6, <1>9, <1>11, <1>13 DEF ArrayIs
<1> QED BY <1>2, <1>3, <1>8, <1>14

(* Every item lies inside the mapping, mremap is told the size that is     *)
(* mapped, and an item is appended behind all others, for items and pages  *)
(* of any size.                                                            *)
THEOREM ArrayKeepsItems == AloneSpec => []ItemsKept
<1>0. /\ sys_page_size \in Nat \ {0} /\ SizeofHeader \in 1 .. sys_page_size
      /\ UNSIGNED \in Nat \ {0} /\ MaxLength \in Nat
      /\ MaxLength + sys_page_size < UNSIGNED
      /\ Lengths \subseteq 0 .. MaxLength /\ Increments \subseteq 0 .. UNSIGNED - 1
      /\ ItemSizes \subseteq 1 .. UNSIGNED - 1
  BY StandAloneAssumption DEF Array!ArrayAssumption
<1>1. AloneInit => ArrayInv
  <2> SUFFICES ASSUME AloneInit, part = "mmarray" PROVE ArrayInv
    BY DEF ArrayInv
  <2>1. item_size \in ItemSizes /\ array_mapped = 0 /\ wrote = -1
    BY DEF AloneInit, Array!Init
  <2> QED BY <1>0, <2>1 DEF ArrayInv, Array!AppendsAtEnd
<1>2. ArrayInv /\ [AloneNext]_alone_vars => ArrayInv'
  <2> SUFFICES ASSUME ArrayInv, [AloneNext]_alone_vars PROVE ArrayInv'
    OBVIOUS
  <2>0. part' = part BY DEF AloneNext, alone_vars
  <2>1. CASE part = "mmarray" /\ AloneNext
    <3>0. /\ item_size \in Nat \ {0}
          /\ array_mapped # 0 => ArrayIs(length, capacity, array_mapped)
      BY <2>1 DEF ArrayInv
    <3>1. Array!Next BY <2>1 DEF AloneNext
    <3>2. ASSUME NEW n \in 0 .. MaxLength, item_size' = item_size,
                 array_mapped' = Array!calc_memsize(n),
                 capacity' = Array!capacity_of(array_mapped'), length' = n
          PROVE  ArrayIs(length, capacity, array_mapped)'
      <4>1. ArrayIs(n, capacity', array_mapped')
        BY <3>0, <3>2, RoomFor
      <4> QED BY <3>2, <4>1 DEF ArrayIs, Array!calc_memsize
    <3>3. ASSUME NEW n \in Lengths, Array!mmarray_allocate(n)
          PROVE  ArrayInv'
      <4>1. /\ item_size' = item_size /\ array_mapped' = Array!calc_memsize(n)
            /\ capacity' = Array!capacity_of(array_mapped') /\ length' = n /\ wrote' = -1
        BY <3>3 DEF Array!mmarray_allocate
      <4>2. n \in 0 .. MaxLength BY <1>0
      <4>3. ArrayIs(length, capacity, array_mapped)' BY <3>2, <4>1, <4>2
      <4>4. Array!AppendsAtEnd' BY <4>1 DEF Array!AppendsAtEnd
      <4> QED BY <3>0, <4>1, <4>3, <4>4 DEF ArrayInv
    <3>4. ASSUME NEW u \in 0 .. UNSIGNED - 1, Array!Grown(u)
          PROVE  /\ item_size' = item_size
                 /\ length' = (length + u) % UNSIGNED
                 /\ ArrayIs(length, capacity, array_mapped)
                 /\ ArrayIs(length, capacity, array_mapped)'
      <4> DEFINE n == (length + u) % UNSIGNED
      <4>1. /\ array_mapped > 0 /\ n <= MaxLength
            /\ item_size' = item_size /\ length' = n
        BY <3>4 DEF Array!Grown
      <4>2. ArrayIs(length, capacity, array_mapped) BY <3>0, <4>1
      <4>3. length + u \in Nat BY <4>2 DEF ArrayIs
      <4>4. n \in 0 .. MaxLength
        <5>1. n \in Nat
          <6> DEFINE e == length + u
          <6>1. e \in Nat BY <4>3
          <6> HIDE DEF e
          <6>2. e % UNSIGNED \in Nat BY <1>0, <6>1, DivisionIs
          <6> QED BY <6>2 DEF e
        <5> HIDE DEF n
        <5> QED BY <4>1, <5>1, <1>0
      <4> HIDE DEF n
      <4>5. CASE n > capacity
        <5>1. /\ array_mapped' = Array!calc_memsize(n)
              /\ capacity' = Array!capacity_of(array_mapped')
          BY <3>4, <4>5 DEF Array!Grown, Array!needs_room, n
        <5> QED BY <3>2, <4>1, <4>2, <4>4, <5>1 DEF n
      <4>6. CASE ~(n > capacity)
        <5>1. array_mapped' = array_mapped /\ capacity' = capacity
          BY <3>4, <4>6 DEF Array!Grown, Array!needs_room, n
        <5>2. ArrayIs(length, capacity, array_mapped)'
          BY <4>1, <4>2, <4>4, <4>6, <5>1 DEF ArrayIs, Array!calc_memsize
        <5> QED BY <4>1, <4>2, <5>2 DEF n
      <4> QED BY <4>5, <4>6
    <3>5. ASSUME NEW u \in Increments, Array!mmarray_grow(u)
          PROVE  ArrayInv'
      <4>1. Array!Grown(u) /\ wrote' = -1 BY <3>5 DEF Array!mmarray_grow
      <4>2. u \in 0 .. UNSIGNED - 1 BY <1>0
      <4>3. item_size' = item_size /\ ArrayIs(length, capacity, array_mapped)'
        BY <3>4, <4>1, <4>2
      <4>4. Array!AppendsAtEnd' BY <4>1 DEF Array!AppendsAtEnd
      <4> QED BY <3>0, <4>3, <4>4 DEF ArrayInv
    <3>6. CASE Array!mmarray_append_item
      <4>1. Array!Grown(1) /\ wrote' = (length * item_size) % UNSIGNED
        BY <3>6 DEF Array!mmarray_append_item, Array!index
      <4>2. 1 \in 0 .. UNSIGNED - 1 BY <1>0
      <4>3. /\ item_size' = item_size /\ length' = (length + 1) % UNSIGNED
            /\ ArrayIs(length, capacity, array_mapped)
            /\ ArrayIs(length, capacity, array_mapped)'
        BY <3>4, <4>1, <4>2
      <4>4. length \in 0 .. MaxLength BY <4>3 DEF ArrayIs
      <4>5. length' \in Int /\ length' \in 0 .. MaxLength BY <4>3 DEF ArrayIs
      <4>6. Array!AppendsAtEnd'
        <5> SUFFICES ASSUME length' * item_size <= UNSIGNED
                     PROVE  wrote' = (length' - 1) * item_size
          BY <4>3 DEF Array!AppendsAtEnd
        <5>1. length' = length + 1
          <6>1. length + 1 \in 0 .. UNSIGNED - 1
            <7>1. length < UNSIGNED - 1 BY <1>0, <4>4
            <7> QED BY <1>0, <4>4, <7>1
          <6> DEFINE e == length + 1
          <6>2. e \in 0 .. UNSIGNED - 1 /\ length' = e % UNSIGNED BY <4>3, <6>1
          <6> HIDE DEF e
          <6>3. length' = e BY <1>0, <6>2, SmallRemainder
          <6> QED BY <6>3 DEF e
        <5> DEFINE w == length * item_size
        <5>2. w \in Nat BY <3>0, <4>4, ProductNat
        <5>3. length' * item_size = w + item_size
          <6>1. (length + 1) * item_size = length * item_size + 1 * item_size
            BY <3>0, <4>4, Distributes
          <6> QED BY <3>0, <5>1, <6>1
        <5>4. length' - 1 = length BY <4>4, <5>1
        <5>5. wrote' = w % UNSIGNED BY <4>1
        <5>6. (length' - 1) * item_size = w BY <5>4
        <5> HIDE DEF w
        <5>7. w \in 0 .. UNSIGNED - 1 BY <1>0, <3>0, <5>2, <5>3
        <5> QED BY <1>0, <5>5, <5>6, <5>7, SmallRemainder
      <4> QED BY <3>0, <4>3, <4>6 DEF ArrayInv
    <3> QED BY <3>1, <3>3, <3>5, <3>6 DEF Array!Next
  <2>2. CASE part # "mmarray" BY <2>0, <2>2 DEF ArrayInv
  <2>3. CASE UNCHANGED alone_vars
    <3>1. /\ capacity' = capacity /\ length' = length /\ item_size' = item_size
          /\ array_mapped' = array_mapped /\ wrote' = wrote
      BY <2>3 DEF alone_vars, mmarray
    <3> QED BY <2>0, <3>1
          DEF ArrayInv, ArrayIs, Array!calc_memsize, Array!AppendsAtEnd
  <2> QED BY <2>1, <2>2, <2>3
<1>3. ArrayInv => ItemsKept
  BY DEF ArrayInv, ArrayIs, ItemsKept,
         Array!ItemsMapped, Array!OldSizeExact
<1> QED BY <1>1, <1>2, <1>3, PTL DEF AloneSpec

-----------------------------------------------------------------------------
(* The arena. *)

LEMMA MultipleIs ==
  ASSUME NEW p \in Nat \ {0}, NEW q \in Nat
  PROVE  (p * q) % p = 0 /\ (p * q) \div p = q
<1> DEFINE e == p * q
           v == e \div p
           w == e % p
<1>1. e \in Nat BY ProductNat
<1>2. e = p * q OBVIOUS
<1> HIDE DEF e
<1>3. v \in Int /\ w \in 0 .. p - 1 /\ e = p * v + w BY <1>1, DivisionIs
<1> HIDE DEF v, w
<1>4. p * q + 0 = p * v + w /\ 0 \in 0 .. p - 1 BY <1>1, <1>2, <1>3
<1>5. q \in Int OBVIOUS
<1>6. q = v /\ 0 = w BY <1>3, <1>4, <1>5, DivisionUnique
<1> QED BY <1>2, <1>6 DEF v, w

LEMMA SumOfMultiples ==
  ASSUME NEW p \in Nat \ {0}, NEW a \in Nat, NEW b \in Nat, a % p = 0, b % p = 0
  PROVE  /\ (a + b) % p = 0
         /\ a >= b => (a - b) % p = 0
<1> DEFINE q == a \div p
           v == b \div p
<1>1. q \in Nat /\ a = p * q + 0 BY DivisionIs
<1>2. v \in Nat /\ b = p * v + 0 BY DivisionIs
<1> HIDE DEF q, v
<1>3. p * q \in Nat /\ p * v \in Nat BY <1>1, <1>2, ProductNat
<1>4. p * (q + v) = p * q + p * v /\ p * (q - v) = p * q - p * v
  BY <1>1, <1>2, Distributes
<1>5. (a + b) % p = 0
  <2>1. a + b = p * (q + v) BY <1>1, <1>2, <1>3, <1>4
  <2>2. q + v \in Nat BY <1>1, <1>2
  <2>3. (p * (q + v)) % p = 0 BY <2>2, MultipleIs
  <2> QED BY <2>1, <2>3
<1>6. ASSUME a >= b PROVE (a - b) % p = 0
  <2>1. a - b = p * (q - v) BY <1>1, <1>2, <1>3, <1>4
  <2>2. q - v \in Nat
    <3> SUFFICES ASSUME q < v PROVE FALSE
      BY <1>1, <1>2
    <3>1. q + 1 <= v /\ q + 1 \in Int BY <1>1, <1>2
    <3>2. p * (q + 1) <= p * v BY <1>2, <3>1, ProductMonotone
    <3>3. p * (q + 1) = p * q + p BY <1>1, Z3
    <3> QED BY <1>1, <1>2, <1>3, <1>6, <3>2, <3>3
  <2>3. (p * (q - v)) % p = 0 BY <2>2, MultipleIs
  <2> QED BY <2>1, <2>3
<1> QED BY <1>5, <1>6

(* Rounded down by taking off the remainder. *)
LEMMA TakeOffRemainder ==
  ASSUME NEW p \in Nat \ {0}, NEW a \in Nat
  PROVE  /\ a - (a % p) \in Nat /\ a - (a % p) <= a /\ a - (a % p) > a - p
         /\ (a - (a % p)) % p = 0
<1> DEFINE q == a \div p
           r == a % p
<1>1. q \in Nat /\ r \in 0 .. p - 1 /\ a = p * q + r BY DivisionIs
<1> HIDE DEF q, r
<1>2. p * q \in Nat BY <1>1, ProductNat
<1>3. a - r = p * q BY <1>1, <1>2
<1>4. (p * q) % p = 0 BY <1>1, MultipleIs
<1>5. a - r \in Nat /\ a - r <= a /\ a - r > a - p BY <1>1, <1>2, <1>3
<1> QED BY <1>3, <1>4, <1>5 DEF r

LEMMA ArenaNumbers ==
  /\ UNSIGNED \in Nat \ {0} /\ sys_page_size \in Nat \ {0} /\ UNSIGNED % sys_page_size = 0
  /\ ARENA_HEADER_SIZE \in 1 .. sys_page_size - 1
  /\ REGION_HEADER_SIZE \in 1 .. sys_page_size - 1
  /\ \A i0 : Arena!header_size(i0) \in 1 .. sys_page_size - 1
  /\ \A a \in Alignments : /\ a \in 1 .. sys_page_size
                           /\ REGION_HEADER_SIZE % a = 0
                           /\ \A i0 : Arena!header_size(i0) % a = 0
BY StandAloneAssumption DEF Arena!ArenaAssumption, Arena!header_size

(* Whatever wraps, a mapping is whole pages and leaves a page below the    *)
(* range of unsigned; it is no less than what was to be rounded, unless    *)
(* that wraps.                                                             *)
LEMMA AlignedToPage ==
  ASSUME NEW x \in 0 .. UNSIGNED - 1
  PROVE  LET m == Arena!align_unsigned(x, sys_page_size)
         IN  /\ m \in 0 .. UNSIGNED - sys_page_size /\ m % sys_page_size = 0
             /\ m = 0 \/ m >= sys_page_size
             /\ m = 0 \/ m >= x
             /\ x % sys_page_size = 0 /\ x <= UNSIGNED - sys_page_size => m = x
<1> DEFINE p == sys_page_size
           a == x + p - 1
           up == a % UNSIGNED
           m == up - (up % p)
           u == UNSIGNED
<1>1. p \in Nat \ {0} /\ u \in Nat \ {0} /\ u % p = 0 BY ArenaNumbers
<1>2. Arena!align_unsigned(x, p) = m BY DEF Arena!align_unsigned
<1>3. a \in Nat /\ a = x + p - 1 BY <1>1
<1>4. up \in 0 .. u - 1 /\ (a < u => up = a)
  <2> HIDE DEF a
  <2>1. up \in 0 .. u - 1 BY <1>1, <1>3, DivisionIs
  <2>2. a < u => up = a
    <3> SUFFICES ASSUME a < u PROVE up = a
      OBVIOUS
    <3>1. a \in 0 .. u - 1 BY <1>1, <1>3
    <3> QED BY <1>1, <3>1, SmallRemainder
  <2> QED BY <2>1, <2>2
<1>5. p <= u
  <2> SUFFICES ASSUME u < p PROVE FALSE
    BY <1>1
  <2>1. u \in 0 .. p - 1 BY <1>1
  <2>2. u % p = u BY <1>1, <2>1, SmallRemainder
  <2> QED BY <1>1, <2>2
<1> HIDE DEF a
<1>6. a >= u => up = a - u /\ up < p
  <2> SUFFICES ASSUME a >= u PROVE up = a - u /\ up < p
    OBVIOUS
  <2> DEFINE e == a - u
             v == a \div u
  <2>1. e \in 0 .. u - 1 /\ e < p BY <1>1, <1>3, <1>5
  <2>2. v \in Int /\ a = u * v + up BY <1>1, <1>3, DivisionIs
  <2>3. u * 1 + e = a BY <1>1, <1>3, Z3
  <2> HIDE DEF e, up, v, u
  <2>4. e = up
    <3>1. u * 1 + e = u * v + up /\ 1 \in Int BY <2>2, <2>3
    <3> QED BY <1>1, <1>4, <2>1, <2>2, <3>1, DivisionUnique
  <2> QED BY <2>1, <2>4 DEF e
<1> HIDE DEF up
<1>7. m \in Nat /\ m <= up /\ m > up - p /\ m % p = 0
  <2>1. up \in Nat BY <1>1, <1>4
  <2> HIDE DEF p
  <2> QED BY <1>1, <2>1, TakeOffRemainder
<1>8. m >= p \/ m = 0
  <2> SUFFICES ASSUME m < p PROVE m = 0
    BY <1>1, <1>7
  <2>1. m \in 0 .. p - 1 BY <1>1, <1>7
  <2> HIDE DEF m
  <2> QED BY <1>1, <1>7, <2>1, SmallRemainder
<1>9. m <= u - p
  <2>1. u \in Nat /\ u >= m /\ (u - m) % p = 0
    <3>1. u >= m /\ u \in Nat BY <1>1, <1>4, <1>7
    <3> HIDE DEF m
    <3> QED BY <1>1, <1>7, <3>1, SumOfMultiples
  <2>2. u - m # 0 BY <1>1, <1>4, <1>7
  <2>3. u - m >= p
    <3> SUFFICES ASSUME u - m < p PROVE FALSE
      BY <1>1, <1>7
    <3> DEFINE e == u - m
    <3>1. e \in 0 .. p - 1 /\ e % p = 0 /\ e # 0 BY <1>1, <1>7, <2>1, <2>2
    <3> HIDE DEF e
    <3> QED BY <1>1, <3>1, SmallRemainder
  <2> QED BY <1>1, <1>7, <2>3
<1>10. m = 0 \/ m >= x
  <2>1. CASE a < u
    <3>1. m > up - p /\ up = x + p - 1 BY <1>3, <1>4, <1>7, <2>1
    <3> QED BY <1>1, <1>4, <1>7, <3>1
  <2>2. CASE ~(a < u)
    <3>1. up < p BY <1>1, <1>3, <1>6, <2>2
    <3>2. m < p BY <1>1, <1>4, <1>7, <3>1
    <3> QED BY <1>1, <1>7, <1>8, <3>2
  <2> QED BY <2>1, <2>2
<1>11. ASSUME x % p = 0, x <= u - p PROVE m = x
  <2>1. a < u BY <1>1, <1>3, <1>11
  <2>2. up = x + p - 1 BY <1>3, <1>4, <2>1
  <2>3. m >= x /\ m < x + p
    BY <1>1, <1>4, <1>7, <2>2
  <2>4. (m - x) % p = 0
    <3>1. x \in Nat BY <1>1
    <3> HIDE DEF m
    <3> QED BY <1>1, <1>7, <1>11, <2>3, <3>1, SumOfMultiples
  <2> DEFINE e == m - x
  <2>5. e \in 0 .. p - 1 /\ e % p = 0 BY <1>1, <1>7, <2>3, <2>4
  <2>6. e = m - x OBVIOUS
  <2> HIDE DEF e
  <2>7. e = 0 BY <1>1, <2>5, SmallRemainder
  <2> QED BY <1>1, <1>7, <2>6, <2>7
<1> HIDE DEF m
<1>12. m \in 0 .. u - p BY <1>1, <1>7, <1>9
<1> QED BY <1>2, <1>7, <1>8, <1>10, <1>11, <1>12

(* Where a block would start: not before the tail, and where its address   *)
(* is aligned.  The sum wraps only if there is no room.                    *)
LEMMA StartsAligned ==
  ASSUME NEW tail, NEW cap, NEW a \in Alignments, NEW h \in 1 .. sys_page_size - 1,
         NEW m \in 0 .. UNSIGNED - sys_page_size, cap = m - h, tail \in 0 .. cap,
         h % a = 0, Arena!start(tail, a) < cap
  PROVE  LET from == Arena!start(tail, a)
         IN  from \in Nat /\ tail <= from /\ (h + from) % a = 0
<1> DEFINE u == UNSIGNED
           p == sys_page_size
           g == REGION_HEADER_SIZE
           y == (tail + g) % u
           b == y + a - 1
           up == b % u
           v == up - (up % a)
<1>1. /\ p \in Nat \ {0} /\ u \in Nat \ {0} /\ g \in 1 .. p - 1
      /\ a \in 1 .. p /\ g % a = 0
  BY ArenaNumbers
<1>2. Arena!start(tail, a) = (v - g) % u
  BY DEF Arena!start, Arena!align_unsigned
<1>3. y = tail + g /\ y \in 0 .. u - 1
  <2> DEFINE e == tail + g
  <2>1. e \in 0 .. u - 1 BY <1>1
  <2> HIDE DEF e
  <2>2. e % u = e BY <1>1, <2>1, SmallRemainder
  <2> QED BY <2>1, <2>2 DEF e
<1> HIDE DEF y
<1>4. b \in Nat /\ b = y + a - 1 BY <1>1, <1>3
<1>5. m - h = cap /\ cap < u - g BY <1>1
<1> HIDE DEF b
<1>6. CASE b < u
  <2>1. up = b
    <3>1. b \in 0 .. u - 1 BY <1>1, <1>4, <1>6
    <3> QED BY <1>1, <3>1, SmallRemainder
  <2>2. v \in Nat /\ v <= b /\ v > b - a /\ v % a = 0
    <3>1. a \in Nat \ {0} BY <1>1
    <3> HIDE DEF up
    <3>2. up \in Nat BY <1>4, <2>1
    <3> QED BY <2>1, <3>1, <3>2, TakeOffRemainder
  <2> HIDE DEF v
  <2>3. v >= tail + g /\ v - g \in 0 .. u - 1 BY <1>1, <1>3, <1>4, <1>6, <2>2
  <2> DEFINE e == v - g
  <2>4. e \in 0 .. u - 1 /\ e = v - g BY <2>3
  <2> HIDE DEF e
  <2>5. e % u = e BY <1>1, <2>4, SmallRemainder
  <2>6. Arena!start(tail, a) = e BY <1>2, <2>5 DEF e
  <2>7. e % a = 0
    <3>1. g \in Nat /\ a \in Nat \ {0} /\ v >= g BY <1>1, <2>2, <2>3
    <3> HIDE DEF g
    <3> QED BY <1>1, <2>2, <2>4, <3>1, SumOfMultiples
  <2>8. (h + e) % a = 0
    <3>1. e \in Nat /\ h \in Nat /\ a \in Nat \ {0} BY <1>1, <2>4
    <3> QED BY <2>7, <3>1, SumOfMultiples
  <2>9. e \in Nat /\ tail <= e BY <1>1, <2>2, <2>3, <2>4
  <2> QED BY <2>6, <2>8, <2>9
<1>7. CASE ~(b < u)
  <2>1. b - u \in 0 .. a - 1 BY <1>1, <1>3, <1>4, <1>7
  <2>2. up = b - u
    <3> DEFINE e == b - u
               w == b \div u
    <3>1. w \in Int /\ up \in 0 .. u - 1 /\ b = u * w + up
      <4> HIDE DEF u
      <4>1. b \in Nat /\ u \in Nat \ {0} BY <1>1, <1>4
      <4> QED BY <4>1, DivisionIs
    <3>2. e \in 0 .. u - 1 /\ u * 1 + e = b BY <1>1, <1>4, <2>1, <1>3, Z3
    <3> HIDE DEF e, up, w, u
    <3>3. u * 1 + e = u * w + up /\ 1 \in Int BY <3>1, <3>2
    <3>4. e = up BY <1>1, <3>1, <3>2, <3>3, DivisionUnique
    <3> QED BY <3>4 DEF e
  <2> HIDE DEF up
  <2>3. v = 0
    <3>1. a \in Nat \ {0} /\ up \in 0 .. a - 1 BY <1>1, <2>1, <2>2
    <3>2. up % a = up BY <3>1, SmallRemainder
    <3> QED BY <3>1, <3>2
  <2> HIDE DEF v
  <2>4. (v - g) % u = u - g
    <3>1. u - g \in 0 .. u - 1 BY <1>1
    <3> DEFINE e == u - g
    <3>2. e \in 0 .. u - 1 /\ v - g = e - u BY <1>1, <2>3, <3>1
    <3> HIDE DEF e, u
    <3>3. (e - u) % u = e BY <1>1, <3>2, Z3
    <3> QED BY <3>2, <3>3 DEF e
  <2>5. FALSE BY <1>1, <1>2, <1>5, <2>4
  <2> QED BY <2>5
<1> QED BY <1>6, <1>7

Regions == [tail : Nat, capacity : Nat, mapped : Nat]

RegionOK(i0, r) ==
  /\ r \in Regions
  /\ r.mapped \in sys_page_size .. UNSIGNED - sys_page_size
  /\ r.mapped % sys_page_size = 0
  /\ r.capacity = r.mapped - Arena!header_size(i0)
  /\ r.tail <= r.capacity

RegionsOK(rs) == rs \in Seq(Regions) /\ \A i0 \in DOMAIN rs : RegionOK(i0, rs[i0])

(* Blocks lie below the tails of their regions.                            *)
BlocksIn(rs, bs) ==
  /\ \A b \in bs :
       /\ b.region \in DOMAIN rs /\ b.start \in Nat /\ b.size \in Nat \ {0}
       /\ b.start + b.size <= rs[b.region].tail
       /\ (Arena!header_size(b.region) + b.start) % b.alignment = 0
  /\ \A b, c \in bs : b # c /\ b.region = c.region =>
       b.start + b.size <= c.start \/ c.start + c.size <= b.start

ArenaInv ==
  RegionsOK(regions) /\ BlocksIn(regions, in_use) /\ new_region_capacity \in Capacities \cup {0}

(* A region that has been mapped, with the capacity that was asked for     *)
(* unless that wraps.                                                      *)
LEMMA RegionMade ==
  ASSUME NEW cap \in 0 .. UNSIGNED - 1, NEW i0,
         Arena!Mapping(cap, Arena!header_size(i0)) > 0
  PROVE  LET r == Arena!Region(cap, Arena!header_size(i0))
         IN  /\ RegionOK(i0, r) /\ r.tail = 0
             /\ cap + Arena!header_size(i0) < UNSIGNED => r.capacity >= cap
<1> DEFINE h == Arena!header_size(i0)
           p == sys_page_size
           u == UNSIGNED
           x == (cap + h) % u
           m == Arena!align_unsigned(x, p)
           c == (m - h) % u
<1>1. p \in Nat \ {0} /\ u \in Nat \ {0} /\ h \in 1 .. p - 1 BY ArenaNumbers
<1>2. Arena!Mapping(cap, h) = m
  BY DEF Arena!Mapping
<1>3. Arena!Region(cap, h) = [tail |-> 0, capacity |-> c, mapped |-> m]
  BY <1>2 DEF Arena!Region
<1> HIDE DEF h
<1>4. x \in 0 .. u - 1 /\ (cap + h < u => x = cap + h)
  <2> DEFINE e == cap + h
  <2>1. e \in Nat BY <1>1
  <2> HIDE DEF e
  <2>2. e % u \in 0 .. u - 1
    <3> HIDE DEF u
    <3> QED BY <1>1, <2>1, DivisionIs
  <2>3. e < u => e % u = e
    <3> SUFFICES ASSUME e < u PROVE e % u = e
      OBVIOUS
    <3>1. e \in 0 .. u - 1 BY <1>1, <2>1
    <3> QED BY <1>1, <3>1, SmallRemainder
  <2> QED BY <2>2, <2>3 DEF e
<1> HIDE DEF x
<1>5. /\ m \in 0 .. u - p /\ m % p = 0 /\ (m = 0 \/ m >= p) /\ (m = 0 \/ m >= x)
  BY <1>4, AlignedToPage
<1> HIDE DEF m
<1>6. m > 0 BY <1>2 DEF h
<1>7. m \in p .. u - p /\ m >= x BY <1>1, <1>4, <1>5, <1>6
<1>8. c = m - h
  <2> DEFINE e == m - h
  <2>1. e \in 0 .. u - 1 BY <1>1, <1>7
  <2> HIDE DEF e
  <2>2. e % u = e BY <1>1, <2>1, SmallRemainder
  <2> QED BY <2>2 DEF e
<1>9. c \in Nat /\ m \in Nat BY <1>1, <1>7, <1>8
<1> HIDE DEF c
<1> DEFINE r == Arena!Region(cap, h)
<1>10. r \in Regions /\ r.tail = 0 /\ r.capacity = c /\ r.mapped = m
  BY <1>3, <1>9 DEF Regions
<1> HIDE DEF r
<1>11. RegionOK(i0, r) BY <1>1, <1>5, <1>7, <1>8, <1>9, <1>10 DEF RegionOK, h
<1>12. cap + h < u => r.capacity >= cap BY <1>1, <1>4, <1>7, <1>8, <1>10
<1> QED BY <1>10, <1>11, <1>12 DEF r, h

(* A block that fits a region goes behind all others of that region.       *)
LEMMA AllocInRegion ==
  ASSUME NEW rs, RegionsOK(rs), BlocksIn(rs, in_use), NEW i0 \in DOMAIN rs,
         NEW size \in Sizes, NEW a \in Alignments,
         Arena!fits(rs[i0], size, a), Arena!region_alloc(rs, i0, size, a)
  PROVE  RegionsOK(regions') /\ BlocksIn(regions', in_use') /\ in_use' # in_use
         /\ Len(regions') = Len(rs)
<1> DEFINE from == Arena!start(rs[i0].tail, a)
           r == rs[i0]
           h == Arena!header_size(i0)
           b0 == [region |-> i0, start |-> from, size |-> size, alignment |-> a]
           s == [r EXCEPT !.tail = (from + size) % UNSIGNED]
<1>1. /\ UNSIGNED \in Nat \ {0} /\ h \in 1 .. sys_page_size - 1 /\ h % a = 0
      /\ sys_page_size \in Nat \ {0}
  BY ArenaNumbers
<1>2. size \in Nat \ {0}
  BY StandAloneAssumption DEF Arena!ArenaAssumption
<1>3. /\ rs \in Seq(Regions) /\ i0 \in 1 .. Len(rs) /\ Len(rs) \in Nat
      /\ RegionOK(i0, r) /\ DOMAIN rs = 1 .. Len(rs)
  BY DEF RegionsOK
<1>4. from < r.capacity /\ size <= r.capacity - from
  BY DEF Arena!fits
<1>5. /\ regions' = [rs EXCEPT ![i0] = s]
      /\ in_use' = in_use \cup {b0}
  BY DEF Arena!region_alloc
<1> HIDE DEF r
<1>6. /\ r \in Regions /\ r.capacity = r.mapped - h /\ r.tail \in 0 .. r.capacity
      /\ r.mapped \in 0 .. UNSIGNED - sys_page_size
      /\ r.capacity \in Nat
  BY <1>1, <1>3 DEF RegionOK, Regions
<1>7. from \in Nat /\ r.tail <= from /\ (h + from) % a = 0
  <2> HIDE DEF h
  <2>1. Arena!start(r.tail, a) < r.capacity BY <1>4 DEF r
  <2> QED BY <1>1, <1>6, <2>1, StartsAligned DEF r
<1> HIDE DEF from
<1>8. (from + size) % UNSIGNED = from + size /\ from + size <= r.capacity
  <2> DEFINE e == from + size
  <2>1. e \in 0 .. UNSIGNED - 1 /\ e <= r.capacity BY <1>1, <1>2, <1>4, <1>6, <1>7
  <2> HIDE DEF e
  <2>2. e % UNSIGNED = e BY <1>1, <2>1, SmallRemainder
  <2> QED BY <2>1, <2>2 DEF e
<1>9. /\ s \in Regions /\ s.tail = from + size
      /\ s.capacity = r.capacity /\ s.mapped = r.mapped
  BY <1>2, <1>6, <1>7, <1>8 DEF Regions
<1>10. RegionOK(i0, s) BY <1>3, <1>8, <1>9 DEF RegionOK
<1> HIDE DEF s
<1>11. /\ regions' \in Seq(Regions) /\ Len(regions') = Len(rs)
       /\ DOMAIN regions' = DOMAIN rs
       /\ regions'[i0] = s
       /\ \A k \in DOMAIN rs : k # i0 => regions'[k] = rs[k]
  BY <1>3, <1>5, <1>9
<1>12. RegionsOK(regions')
  <2>1. \A k \in DOMAIN rs : RegionOK(k, rs[k]) BY DEF RegionsOK
  <2>2. ASSUME NEW k \in DOMAIN regions' PROVE RegionOK(k, regions'[k])
    BY <1>10, <1>11, <2>1, <2>2
  <2> QED BY <1>11, <2>2 DEF RegionsOK
<1>13. /\ b0.region = i0 /\ b0.start = from /\ b0.size = size /\ b0.alignment = a
  OBVIOUS
<1> HIDE DEF b0
<1>14. ASSUME NEW b \in in_use
       PROVE  /\ b.region \in DOMAIN rs /\ b.start \in Nat /\ b.size \in Nat \ {0}
              /\ b.start + b.size <= rs[b.region].tail
              /\ (Arena!header_size(b.region) + b.start) % b.alignment = 0
              /\ b.region = i0 => b.start + b.size <= from
  <2>1. /\ b.region \in DOMAIN rs /\ b.start \in Nat /\ b.size \in Nat \ {0}
        /\ b.start + b.size <= rs[b.region].tail
        /\ (Arena!header_size(b.region) + b.start) % b.alignment = 0
    BY DEF BlocksIn
  <2>2. ASSUME b.region = i0 PROVE b.start + b.size <= from
    <3>1. b.start + b.size <= r.tail BY <2>1, <2>2 DEF r
    <3> QED BY <1>6, <1>7, <2>1, <3>1
  <2> QED BY <2>1, <2>2
<1>15. \A b \in in_use : b.start + b.size <= regions'[b.region].tail
  <2> SUFFICES ASSUME NEW b \in in_use PROVE b.start + b.size <= regions'[b.region].tail
    OBVIOUS
  <2>1. CASE b.region = i0
    <3>1. b.start + b.size <= from /\ b.start + b.size \in Nat BY <1>14, <2>1
    <3> QED BY <1>2, <1>7, <1>9, <1>11, <2>1, <3>1
  <2>2. CASE b.region # i0 BY <1>11, <1>14, <2>2
  <2> QED BY <2>1, <2>2
<1>16. /\ b0.region \in DOMAIN regions' /\ b0.start \in Nat /\ b0.size \in Nat \ {0}
       /\ b0.start + b0.size <= regions'[b0.region].tail
       /\ (Arena!header_size(b0.region) + b0.start) % b0.alignment = 0
  BY <1>2, <1>7, <1>9, <1>11, <1>13
<1>17. b0 \notin in_use
  <2> SUFFICES ASSUME b0 \in in_use PROVE FALSE
    OBVIOUS
  <2>1. b0.region = i0 => b0.start + b0.size <= from BY <1>14
  <2> QED BY <1>2, <1>7, <1>13, <2>1
<1>18. BlocksIn(regions', in_use')
  <2>1. ASSUME NEW b \in in_use'
        PROVE  /\ b.region \in DOMAIN regions' /\ b.start \in Nat /\ b.size \in Nat \ {0}
               /\ b.start + b.size <= regions'[b.region].tail
               /\ (Arena!header_size(b.region) + b.start) % b.alignment = 0
    <3>1. CASE b = b0 BY <1>16, <3>1
    <3>2. CASE b \in in_use BY <1>11, <1>14, <1>15, <3>2
    <3> QED BY <1>5, <3>1, <3>2
  <2>2. ASSUME NEW b \in in_use', NEW c \in in_use', b # c, b.region = c.region
        PROVE  b.start + b.size <= c.start \/ c.start + c.size <= b.start
    <3>1. CASE b \in in_use /\ c \in in_use BY <2>2, <3>1 DEF BlocksIn
    <3>2. CASE b = b0 /\ c \in in_use BY <1>13, <1>14, <2>2, <3>2
    <3>3. CASE c = b0 /\ b \in in_use BY <1>13, <1>14, <2>2, <3>3
    <3> QED BY <1>5, <2>2, <3>1, <3>2, <3>3
  <2> QED BY <2>1, <2>2 DEF BlocksIn
<1> QED BY <1>5, <1>11, <1>12, <1>17, <1>18

(* With a new region behind the others.                                    *)
LEMMA WithRegion ==
  ASSUME ArenaInv, NEW r, RegionOK(Len(regions) + 1, r)
  PROVE  LET grown == Append(regions, r)
         IN  /\ RegionsOK(grown) /\ BlocksIn(grown, in_use)
             /\ Len(grown) = Len(regions) + 1 /\ Len(grown) \in DOMAIN grown
             /\ grown[Len(grown)] = r
<1> DEFINE grown == Append(regions, r)
<1>1. regions \in Seq(Regions) /\ r \in Regions
  BY DEF ArenaInv, RegionsOK, RegionOK
<1>2. /\ grown \in Seq(Regions) /\ Len(grown) = Len(regions) + 1
      /\ Len(regions) \in Nat /\ DOMAIN regions = 1 .. Len(regions)
      /\ DOMAIN grown = 1 .. Len(grown)
      /\ grown[Len(grown)] = r
      /\ \A k \in DOMAIN regions : grown[k] = regions[k]
  BY <1>1, AppendProperties
<1> HIDE DEF grown
<1>3. RegionsOK(grown)
  <2>1. \A k \in DOMAIN regions : RegionOK(k, regions[k]) BY DEF ArenaInv, RegionsOK
  <2>2. ASSUME NEW k \in DOMAIN grown PROVE RegionOK(k, grown[k])
    <3>1. CASE k \in DOMAIN regions BY <1>2, <2>1, <3>1
    <3>2. CASE k = Len(regions) + 1 BY <1>2, <3>2
    <3> QED BY <1>2, <2>2, <3>1, <3>2
  <2> QED BY <1>2, <2>2 DEF RegionsOK
<1>4. BlocksIn(grown, in_use)
  BY <1>2 DEF ArenaInv, BlocksIn
<1>5. Len(grown) \in DOMAIN grown BY <1>2
<1> QED BY <1>2, <1>3, <1>4, <1>5 DEF grown

LEMMA ArenaArguments ==
  /\ \A size \in Sizes : size \in 0 .. UNSIGNED - 1 /\ size \in Nat \ {0}
  /\ \A cap \in Capacities : cap \in 0 .. UNSIGNED - 1
BY StandAloneAssumption DEF Arena!ArenaAssumption

(* An empty region is filled from its start: its header is aligned for     *)
(* everything.                                                             *)
LEMMA StartsEmpty ==
  ASSUME NEW a \in Alignments, UNSIGNED >= sys_page_size + sys_page_size
  PROVE  Arena!start(0, a) = 0
<1> DEFINE u == UNSIGNED
           g == REGION_HEADER_SIZE
           up == (g + a - 1) % u
           v == up - (up % a)
<1>1. /\ sys_page_size \in Nat \ {0} /\ u \in Nat \ {0} /\ g \in 1 .. sys_page_size - 1
      /\ a \in 1 .. sys_page_size /\ a \in Nat \ {0} /\ g % a = 0
  BY ArenaNumbers
<1>2. (0 + g) % u = g
  <2>1. g \in 0 .. u - 1 /\ 0 + g = g BY <1>1
  <2> HIDE DEF g
  <2> QED BY <1>1, <2>1, SmallRemainder
<1>3. Arena!start(0, a) = (v - g) % u
  BY <1>2 DEF Arena!start, Arena!align_unsigned
<1>4. up = g + a - 1
  <2> DEFINE e == g + a - 1
  <2>1. e \in 0 .. u - 1 BY <1>1
  <2> HIDE DEF e
  <2>2. e % u = e BY <1>1, <2>1, SmallRemainder
  <2> QED BY <2>2 DEF e
<1> HIDE DEF up
<1>5. v \in Nat /\ v <= up /\ v > up - a /\ v % a = 0
  <2>1. up \in Nat BY <1>1, <1>4
  <2> QED BY <1>1, <2>1, TakeOffRemainder
<1> HIDE DEF v
<1>6. v - g = 0
  <2> DEFINE e == v - g
  <2>1. v >= g /\ g \in Nat BY <1>1, <1>4, <1>5
  <2> HIDE DEF g
  <2>2. e % a = 0 BY <1>1, <1>5, <2>1, SumOfMultiples
  <2>3. e \in 0 .. a - 1 BY <1>1, <1>4, <1>5, <2>1
  <2> HIDE DEF e
  <2>4. e = 0 BY <1>1, <2>2, <2>3, SmallRemainder
  <2> QED BY <2>4 DEF e
<1>7. 0 % u = 0
  <2>1. 0 \in 0 .. u - 1 BY <1>1
  <2> QED BY <1>1, <2>1, SmallRemainder
<1> QED BY <1>3, <1>6, <1>7

LEMMA NewRegionStep ==
  ASSUME ArenaInv, regions # <<>>, NEW size \in Sizes, NEW a \in Alignments,
         Arena!new_region_alloc(size, a), UNCHANGED new_region_capacity
  PROVE  /\ ArenaInv'
         /\ (\A n \in Sizes \cup {new_region_capacity} : n + REGION_HEADER_SIZE < UNSIGNED)
              => in_use' # in_use
<1> DEFINE cap == Arena!capacity_for(size)
           i0 == Len(regions) + 1
           r == Arena!Region(cap, REGION_HEADER_SIZE)
           grown == Append(regions, r)
<1>1. cap \in 0 .. UNSIGNED - 1 /\ cap \in Sizes \cup {new_region_capacity} /\ size <= cap
  <2>1. size \in 0 .. UNSIGNED - 1 /\ new_region_capacity \in 0 .. UNSIGNED - 1
    BY ArenaArguments, ArenaNumbers DEF ArenaInv
  <2> QED BY <2>1 DEF Arena!capacity_for
<1>2. Arena!header_size(i0) = REGION_HEADER_SIZE
  <2>1. Len(regions) # 0 /\ Len(regions) \in Nat BY DEF ArenaInv, RegionsOK
  <2> QED BY <2>1 DEF Arena!header_size
<1>3. /\ Arena!Mapping(cap, REGION_HEADER_SIZE) > 0
      /\ IF Arena!fits(grown[Len(grown)], size, a)
           THEN Arena!region_alloc(grown, Len(grown), size, a)
           ELSE regions' = grown /\ in_use' = in_use
  BY DEF Arena!new_region_alloc
<1> HIDE DEF cap
<1>4. /\ RegionOK(i0, r) /\ r.tail = 0
      /\ cap + REGION_HEADER_SIZE < UNSIGNED => r.capacity >= cap
  <2> HIDE DEF i0
  <2> QED BY <1>1, <1>2, <1>3, RegionMade
<1> HIDE DEF r
<1>5. /\ RegionsOK(grown) /\ BlocksIn(grown, in_use)
      /\ Len(grown) \in DOMAIN grown /\ grown[Len(grown)] = r
  BY <1>4, WithRegion
<1> HIDE DEF grown
<1>6. CASE Arena!fits(grown[Len(grown)], size, a)
  <2>1. Arena!region_alloc(grown, Len(grown), size, a) BY <1>3, <1>6
  <2>2. RegionsOK(regions') /\ BlocksIn(regions', in_use') /\ in_use' # in_use
    BY <1>5, <1>6, <2>1, AllocInRegion
  <2> QED BY <2>2 DEF ArenaInv
<1>7. CASE ~Arena!fits(grown[Len(grown)], size, a)
  <2>1. regions' = grown /\ in_use' = in_use BY <1>3, <1>7
  <2>2. ArenaInv' BY <1>5, <2>1 DEF ArenaInv
  <2>3. ASSUME \A n \in Sizes \cup {new_region_capacity} : n + REGION_HEADER_SIZE < UNSIGNED
        PROVE  FALSE
    <3>1. r.capacity >= cap BY <1>1, <1>4, <2>3
    <3>2. Arena!start(r.tail, a) = 0
      <4>1. UNSIGNED >= sys_page_size + sys_page_size
        BY <1>4, ArenaNumbers DEF RegionOK
      <4> QED BY <1>4, <4>1, StartsEmpty
    <3>3. size > 0 /\ size \in Int /\ cap \in Int /\ r.capacity \in Int
      BY <1>1, <1>4, ArenaArguments DEF RegionOK, Regions
    <3>4. Arena!fits(r, size, a)
      BY <1>1, <3>1, <3>2, <3>3 DEF Arena!fits
    <3> QED BY <1>5, <1>7, <3>4
  <2> QED BY <2>2, <2>3
<1> QED BY <1>6, <1>7

LEMMA ArenaStep ==
  ASSUME ArenaInv, Arena!Next
  PROVE  /\ ArenaInv'
         /\ (\A n \in Sizes \cup {new_region_capacity} : n + REGION_HEADER_SIZE < UNSIGNED)
              /\ regions # <<>> /\ Len(regions') > Len(regions)
              => in_use' # in_use
<1>0. /\ regions \in Seq(Regions) /\ Len(regions) \in Nat
      /\ DOMAIN regions = 1 .. Len(regions)
      /\ RegionsOK(regions) /\ BlocksIn(regions, in_use)
  BY DEF ArenaInv, RegionsOK
<1>1. ASSUME NEW cap \in Capacities, Arena!create_arena(cap)
      PROVE  ArenaInv' /\ regions = <<>>
  <2> DEFINE r == Arena!Region(cap, ARENA_HEADER_SIZE)
  <2>1. /\ regions = <<>> /\ Arena!Mapping(cap, ARENA_HEADER_SIZE) > 0
        /\ regions' = <<r>> /\ new_region_capacity' = cap /\ in_use' = {}
    BY <1>1 DEF Arena!create_arena
  <2>2. Arena!header_size(1) = ARENA_HEADER_SIZE BY DEF Arena!header_size
  <2>3. cap \in 0 .. UNSIGNED - 1 BY ArenaArguments
  <2>4. RegionOK(1, r) BY <2>1, <2>2, <2>3, RegionMade
  <2> HIDE DEF r
  <2>5. RegionsOK(regions') BY <2>1, <2>4 DEF RegionsOK, RegionOK
  <2>6. BlocksIn(regions', in_use') BY <2>1 DEF BlocksIn
  <2> QED BY <2>1, <2>3, <2>5, <2>6 DEF ArenaInv
<1>2. ASSUME NEW cap \in Capacities, Arena!set_region_capacity(cap)
      PROVE  ArenaInv' /\ regions' = regions
  BY <1>2, ArenaArguments DEF Arena!set_region_capacity, ArenaInv
<1>3. ASSUME NEW size \in Sizes, NEW a \in Alignments, Arena!_arena_alloc(size, a)
      PROVE  /\ ArenaInv'
             /\ Len(regions') = Len(regions)
                \/ ((\A n \in Sizes \cup {new_region_capacity} :
                       n + REGION_HEADER_SIZE < UNSIGNED) => in_use' # in_use)
  <2> DEFINE n0 == Len(regions)
  <2>1. /\ regions # <<>> /\ UNCHANGED new_region_capacity
        /\ IF Arena!fits(regions[n0], size, a)
             THEN Arena!region_alloc(regions, n0, size, a)
             ELSE Arena!new_region_alloc(size, a)
    BY <1>3 DEF Arena!_arena_alloc
  <2>2. CASE Arena!fits(regions[n0], size, a)
    <3>1. n0 \in DOMAIN regions BY <1>0, <2>1
    <3>2. Arena!region_alloc(regions, n0, size, a) BY <2>1, <2>2
    <3> HIDE DEF n0
    <3>3. /\ RegionsOK(regions') /\ BlocksIn(regions', in_use')
          /\ Len(regions') = Len(regions)
      BY <1>0, <2>2, <3>1, <3>2, AllocInRegion
    <3> QED BY <2>1, <3>3 DEF ArenaInv
  <2>3. CASE ~Arena!fits(regions[n0], size, a)
    <3>1. Arena!new_region_alloc(size, a) BY <2>1, <2>3
    <3> QED BY <2>1, <3>1, NewRegionStep
  <2> QED BY <2>2, <2>3
<1>4. ASSUME NEW size \in Sizes, NEW a \in Alignments, Arena!_arena_fit(size, a)
      PROVE  /\ ArenaInv'
             /\ Len(regions') = Len(regions)
                \/ ((\A n \in Sizes \cup {new_region_capacity} :
                       n + REGION_HEADER_SIZE < UNSIGNED) => in_use' # in_use)
  <2>1. regions # <<>> /\ UNCHANGED new_region_capacity
    BY <1>4 DEF Arena!_arena_fit
  <2>2. ASSUME NEW k \in DOMAIN regions, Arena!fits(regions[k], size, a),
               Arena!region_alloc(regions, k, size, a)
        PROVE  ArenaInv' /\ Len(regions') = Len(regions)
    <3>1. /\ RegionsOK(regions') /\ BlocksIn(regions', in_use')
          /\ Len(regions') = Len(regions)
      BY <1>0, <2>2, AllocInRegion
    <3> QED BY <2>1, <3>1 DEF ArenaInv
  <2>3. CASE Arena!new_region_alloc(size, a)
    BY <2>1, <2>3, NewRegionStep
  <2> QED BY <1>4, <2>2, <2>3 DEF Arena!_arena_fit
<1>5. CASE Arena!delete_arena
  <2>1. /\ regions' = <<>> /\ in_use' = {} /\ UNCHANGED new_region_capacity
    BY <1>5 DEF Arena!delete_arena
  <2>2. Len(regions') = 0 BY <2>1
  <2>3. ArenaInv' BY <2>1 DEF ArenaInv, RegionsOK, BlocksIn
  <2> QED BY <1>0, <2>2, <2>3
<1>6. CASE \E cap \in Capacities : Arena!create_arena(cap) \/ Arena!set_region_capacity(cap)
  BY <1>0, <1>1, <1>2, <1>6
<1>7. CASE \E size \in Sizes, a \in Alignments :
             Arena!_arena_alloc(size, a) \/ Arena!_arena_fit(size, a)
  BY <1>0, <1>3, <1>4, <1>7
<1> QED BY <1>5, <1>6, <1>7 DEF Arena!Next

LEMMA ArenaInvStays == AloneSpec => []ArenaInv
<1>1. AloneInit => ArenaInv
  BY ArenaNumbers DEF AloneInit, Arena!Init, ArenaInv, RegionsOK, BlocksIn
<1>2. ArenaInv /\ [AloneNext]_alone_vars => ArenaInv'
  <2> SUFFICES ASSUME ArenaInv, [AloneNext]_alone_vars PROVE ArenaInv'
    OBVIOUS
  <2>1. CASE UNCHANGED arena
    BY <2>1 DEF arena, ArenaInv
  <2>2. CASE Arena!Next BY <2>2, ArenaStep
  <2> QED BY <2>1, <2>2 DEF AloneNext, alone_vars
<1> QED BY <1>1, <1>2, PTL DEF AloneSpec

(* Blocks of an arena are apart, aligned, and inside of their region,      *)
(* whichever of _arena_alloc and _arena_fit they come from; delete_arena   *)
(* unmaps what was mapped.                                                 *)
THEOREM ArenaKeepsBlocks == AloneSpec => []RegionsSound
<1>1. ArenaInv => RegionsSound
  <2> SUFFICES ASSUME ArenaInv PROVE Arena!BlocksApart /\ Arena!DeletesWhole
    BY DEF RegionsSound
  <2>1. \A k \in DOMAIN regions : RegionOK(k, regions[k])
    BY DEF ArenaInv, RegionsOK
  <2>2. ASSUME NEW b \in in_use
        PROVE  Arena!header_size(b.region) + Arena!End(b) <= regions[b.region].mapped
    <3> DEFINE h == Arena!header_size(b.region)
               r == regions[b.region]
    <3>1. /\ b.region \in DOMAIN regions /\ b.start \in Nat /\ b.size \in Nat
          /\ b.start + b.size <= r.tail
      BY DEF ArenaInv, BlocksIn
    <3>2. RegionOK(b.region, r) BY <2>1, <3>1
    <3>3. h \in 1 .. sys_page_size - 1 /\ sys_page_size \in Nat BY ArenaNumbers
    <3> HIDE DEF h, r
    <3>4. /\ r.tail \in Nat /\ r.capacity \in Nat /\ r.mapped \in Nat
          /\ r.capacity = r.mapped - h /\ r.tail <= r.capacity
      BY <3>2 DEF RegionOK, Regions, h
    <3> QED BY <3>1, <3>3, <3>4 DEF Arena!End, h, r
  <2>3. Arena!BlocksApart
    BY <2>2 DEF ArenaInv, BlocksIn, Arena!BlocksApart, Arena!End
  <2>4. ASSUME NEW k \in DOMAIN regions
        PROVE  /\ regions[k].tail <= regions[k].capacity
               /\ Arena!align_unsigned((regions[k].capacity + Arena!header_size(k)) % UNSIGNED,
                                       sys_page_size) = regions[k].mapped
    <3> DEFINE h == Arena!header_size(k)
               r == regions[k]
               m == r.mapped
    <3>1. RegionOK(k, r) BY <2>1
    <3>2. /\ h \in 1 .. sys_page_size - 1 /\ sys_page_size \in Nat \ {0}
          /\ UNSIGNED \in Nat \ {0}
      BY ArenaNumbers
    <3> HIDE DEF h, r
    <3>3. /\ r.capacity \in Nat /\ m \in sys_page_size .. UNSIGNED - sys_page_size
          /\ m % sys_page_size = 0
          /\ r.capacity = m - h /\ r.tail <= r.capacity
      BY <3>1 DEF RegionOK, Regions, h
    <3> HIDE DEF m
    <3>4. r.capacity + h = m /\ m \in 0 .. UNSIGNED - 1 /\ m <= UNSIGNED - sys_page_size
      BY <3>2, <3>3
    <3>5. m % UNSIGNED = m BY <3>2, <3>4, SmallRemainder
    <3>6. Arena!align_unsigned(m, sys_page_size) = m BY <3>3, <3>4, AlignedToPage
    <3> QED BY <3>3, <3>4, <3>5, <3>6 DEF h, r, m
  <2>5. Arena!DeletesWhole BY <2>4 DEF Arena!DeletesWhole
  <2> QED BY <2>3, <2>5
<1> QED BY <1>1, ArenaInvStays, PTL

(* A region made for a block takes the block, whatever the capacity of     *)
(* regions is set to and however the block is aligned, as long as nothing  *)
(* that is asked for wraps when the region's header is added to it.        *)
THEOREM NewRegionsServe ==
  ASSUME \A n \in Sizes \cup Capacities : n + REGION_HEADER_SIZE < UNSIGNED
  PROVE  AloneSpec => NewRegionServes
<1>1. ArenaInv /\ [AloneNext]_alone_vars =>
        [regions # <<>> /\ Len(regions') > Len(regions) => in_use' # in_use]_(Arena!vars)
  <2> SUFFICES ASSUME ArenaInv, [AloneNext]_alone_vars, regions # <<>>,
                      Len(regions') > Len(regions)
               PROVE  in_use' # in_use
    OBVIOUS
  <2>1. Len(regions) \in Nat BY DEF ArenaInv, RegionsOK
  <2>2. CASE UNCHANGED arena
    <3>1. regions' = regions BY <2>2 DEF arena
    <3> QED BY <2>1, <3>1
  <2>3. CASE Arena!Next
    <3>1. \A n \in Sizes \cup {new_region_capacity} : n + REGION_HEADER_SIZE < UNSIGNED
      <4>1. 0 + REGION_HEADER_SIZE < UNSIGNED
        <5>1. sys_page_size <= UNSIGNED
          <6> SUFFICES ASSUME UNSIGNED < sys_page_size PROVE FALSE
            BY ArenaNumbers
          <6>1. UNSIGNED \in 0 .. sys_page_size - 1 BY ArenaNumbers
          <6>2. UNSIGNED % sys_page_size = UNSIGNED BY <6>1, ArenaNumbers, SmallRemainder
          <6> QED BY <6>2, ArenaNumbers
        <5> QED BY <5>1, ArenaNumbers
      <4> QED BY <4>1 DEF ArenaInv
    <3> QED BY <2>3, <3>1, ArenaStep
  <2> QED BY <2>2, <2>3 DEF AloneNext, alone_vars
<1> QED BY <1>1, ArenaInvStays, PTL DEF AloneSpec, NewRegionServes, Arena!NewRegionServes

-----------------------------------------------------------------------------
(* The hex dump. *)

Lines == [row : Rows, at : Int, same : Nat]

(* Line l says what row k holds: it prints it, or it is a count among      *)
(* whose rows this one is.                                                 *)
Shows(m, o, l, k) ==
  IF o[l].same = 0 THEN o[l] = Hex!row_line(m[k], k)
  ELSE /\ l > 1
       /\ k - o[l - 1].at \in 1 .. o[l].same
       /\ o[l - 1].row = m[k]

AllShown(m, o, n) == \A k \in 1 .. n : \E l \in 1 .. Len(o) : Shows(m, o, l, k)

(* A count stands between the lines whose addresses it bridges.            *)
GapAt(o, l) ==
  o[l].same > 0 => /\ l > 1 /\ l < Len(o)
                   /\ o[l + 1].at = o[l - 1].at + o[l].same + 1

Told(m, o, n) ==
  o \in Seq(Lines) /\ AllShown(m, o, n) /\ \A l \in 1 .. Len(o) : GapAt(o, l)

(* The rows held back are those between the last line and the loop, and    *)
(* are what that line says.                                                *)
HexInv ==
  part = "dump_hex" =>
    /\ memory \in Seq(Rows) /\ prev_row \in Rows
    /\ offset \in BOOLEAN /\ remainder \in BOOLEAN
    /\ (offset \/ remainder) => Len(memory) >= 1
    /\ (offset /\ remainder) => Len(memory) >= 2
    /\ num_rows \in Nat /\ num_same_rows \in Nat
    /\ num_same_rows > 0 => num_rows > 0
    /\ pc = "first" => row = 1 /\ out = <<>> /\ num_rows = 0
    /\ pc \in {"first", "rows", "done"}
    /\ pc \in {"first", "rows"} =>
         /\ row \in 1 .. Hex!full_rows + 1
         /\ num_same_rows <= row - 1
         /\ Told(memory, out, row - 1 - num_same_rows)
         /\ num_rows > 0 =>
              /\ out # <<>>
              /\ out[Len(out)] = Hex!row_line(prev_row, row - 1 - num_same_rows)
              /\ \A k \in row - num_same_rows .. row - 1 : memory[k] = prev_row
    /\ pc = "done" => Told(memory, out, Len(memory))

(* What more is printed takes nothing back.                                *)
LEMMA MoreLines ==
  ASSUME NEW o \in Seq(Lines), NEW p \in Seq(Lines), NEW n \in Nat, Told(memory, o, n)
  PROVE  /\ o \o p \in Seq(Lines) /\ Len(o \o p) = Len(o) + Len(p)
         /\ \A l \in 1 .. Len(o) : (o \o p)[l] = o[l]
         /\ \A l \in 1 .. Len(p) : (o \o p)[Len(o) + l] = p[l]
         /\ AllShown(memory, o \o p, n)
         /\ \A l \in 1 .. Len(o) : GapAt(o \o p, l)
<1> DEFINE q == o \o p
<1>1. /\ q \in Seq(Lines) /\ Len(q) = Len(o) + Len(p)
      /\ \A l \in 1 .. Len(o) : q[l] = o[l]
  BY ConcatProperties
<1>2. \A l \in 1 .. Len(p) : q[Len(o) + l] = p[l]
  OBVIOUS
<1>3. Len(o) \in Nat /\ Len(p) \in Nat OBVIOUS
<1> HIDE DEF q
<1>4. ASSUME NEW k \in 1 .. n PROVE \E l \in 1 .. Len(q) : Shows(memory, q, l, k)
  <2>1. PICK l \in 1 .. Len(o) : Shows(memory, o, l, k) BY DEF Told, AllShown
  <2>2. l \in 1 .. Len(q) /\ q[l] = o[l] BY <1>1, <1>3
  <2>3. l > 1 => q[l - 1] = o[l - 1]
    <3> SUFFICES ASSUME l > 1 PROVE q[l - 1] = o[l - 1] OBVIOUS
    <3>1. l - 1 \in 1 .. Len(o) BY <1>3
    <3> QED BY <1>1, <3>1
  <2>4. Shows(memory, q, l, k) BY <2>1, <2>2, <2>3 DEF Shows
  <2> QED BY <2>2, <2>4
<1>5. ASSUME NEW l \in 1 .. Len(o) PROVE GapAt(q, l)
  <2> SUFFICES ASSUME q[l].same > 0
               PROVE  l > 1 /\ l < Len(q) /\ q[l + 1].at = q[l - 1].at + q[l].same + 1
    BY DEF GapAt
  <2>1. q[l] = o[l] /\ o[l].same > 0 BY <1>1
  <2>2. l > 1 /\ l < Len(o) /\ o[l + 1].at = o[l - 1].at + o[l].same + 1
    BY <2>1 DEF Told, GapAt
  <2>3. q[l + 1] = o[l + 1] /\ q[l - 1] = o[l - 1]
    <3>1. l + 1 \in 1 .. Len(o) /\ l - 1 \in 1 .. Len(o) BY <1>3, <2>2
    <3> QED BY <1>1, <3>1
  <2> QED BY <1>1, <1>3, <2>1, <2>2, <2>3
<1> QED BY <1>1, <1>2, <1>4, <1>5 DEF AllShown, q

(* One more line, for the row after those that have been told of or any.   *)
LEMMA OneLine ==
  ASSUME NEW o \in Seq(Lines), NEW n \in Nat, Told(memory, o, n), NEW c \in Rows, NEW k0 \in Int
  PROVE  LET q == o \o <<Hex!row_line(c, k0)>>
         IN  /\ Told(memory, q, n)
             /\ k0 = n + 1 /\ c = memory[k0] => Told(memory, q, n + 1)
             /\ q # <<>> /\ q[Len(q)] = Hex!row_line(c, k0)
<1> DEFINE b == Hex!row_line(c, k0)
           p == <<b>>
           q == o \o p
<1>1. b \in Lines /\ b.same = 0 /\ b = [row |-> c, at |-> k0, same |-> 0]
  BY DEF Hex!row_line, Lines
<1> HIDE DEF b
<1>2. p \in Seq(Lines) /\ Len(p) = 1 /\ p[1] = b BY <1>1
<1> HIDE DEF p
<1>3. /\ q \in Seq(Lines) /\ Len(q) = Len(o) + Len(p)
      /\ \A l \in 1 .. Len(p) : q[Len(o) + l] = p[l]
      /\ AllShown(memory, q, n)
      /\ \A l \in 1 .. Len(o) : GapAt(q, l)
  BY <1>2, MoreLines
<1> HIDE DEF q
<1>4. Len(o) \in Nat /\ Len(q) = Len(o) + 1 /\ q[Len(q)] = b BY <1>2, <1>3
<1>5. GapAt(q, Len(q)) BY <1>1, <1>4 DEF GapAt
<1>6. \A l \in 1 .. Len(q) : GapAt(q, l)
  <2> TAKE l \in 1 .. Len(q)
  <2>1. l \in 1 .. Len(o) \/ l = Len(q) BY <1>4
  <2> QED BY <1>3, <1>5, <2>1
<1>7. Told(memory, q, n) BY <1>3, <1>6 DEF Told
<1>8. ASSUME k0 = n + 1, c = memory[k0] PROVE Told(memory, q, n + 1)
  <2>1. Shows(memory, q, Len(q), n + 1) BY <1>1, <1>4, <1>8 DEF Shows, b
  <2>2. ASSUME NEW k \in 1 .. n + 1 PROVE \E l \in 1 .. Len(q) : Shows(memory, q, l, k)
    <3>1. CASE k = n + 1 BY <1>4, <2>1, <3>1
    <3>2. CASE k \in 1 .. n BY <1>3, <3>2 DEF AllShown
    <3> QED BY <3>1, <3>2
  <2> QED BY <1>3, <1>6, <2>2 DEF Told, AllShown
<1>9. q # <<>> BY <1>4
<1> QED BY <1>4, <1>7, <1>8, <1>9 DEF b, p, q

(* The rows held back are told of when they are printed.                   *)
LEMMA PendingTold ==
  ASSUME NEW o \in Seq(Lines), NEW n \in Nat, NEW a \in Nat, n <= a - 1,
         Told(memory, o, a - 1 - n), prev_row \in Rows,
         n > 0 => /\ o # <<>> /\ o[Len(o)] = Hex!row_line(prev_row, a - 1 - n)
                  /\ \A k \in a - n .. a - 1 : memory[k] = prev_row
  PROVE  Told(memory, o \o Hex!print_same_rows(n, a), a - 1)
<1> DEFINE p == Hex!print_same_rows(n, a)
           q == o \o p
<1>0. a - 1 - n \in Nat /\ Len(o) \in Nat OBVIOUS
<1>1. CASE n > 3
  <2> DEFINE b == Hex!same_line(n - 1)
             c == Hex!row_line(prev_row, a - 1)
  <2>1. p = <<b, c>>
    BY <1>1 DEF Hex!print_same_rows, Hex!coalesced
  <2>2. /\ b \in Lines /\ b.same = n - 1 /\ b.same > 0
        /\ c \in Lines /\ c.same = 0 /\ c.at = a - 1 /\ c.row = prev_row
    BY <1>1 DEF Hex!same_line, Hex!row_line, Lines
  <2>3. o # <<>> /\ Len(o) >= 1 /\ o[Len(o)].at = a - 1 - n /\ o[Len(o)].row = prev_row
    BY <1>1 DEF Hex!row_line
  <2> HIDE DEF b, c
  <2>4. p \in Seq(Lines) /\ Len(p) = 2 /\ p[1] = b /\ p[2] = c BY <2>1, <2>2
  <2> HIDE DEF p
  <2>5. /\ q \in Seq(Lines) /\ Len(q) = Len(o) + Len(p)
        /\ \A l \in 1 .. Len(o) : q[l] = o[l]
        /\ \A l \in 1 .. Len(p) : q[Len(o) + l] = p[l]
        /\ AllShown(memory, q, a - 1 - n)
        /\ \A l \in 1 .. Len(o) : GapAt(q, l)
    BY <1>0, <2>4, MoreLines
  <2> HIDE DEF q
  <2>6. /\ Len(q) = Len(o) + 2 /\ q[Len(o) + 1] = b /\ q[Len(o) + 2] = c
        /\ q[Len(o)] = o[Len(o)]
    BY <1>0, <2>3, <2>4, <2>5
  <2>7. GapAt(q, Len(o) + 1)
    <3>1. Len(o) + 1 > 1 /\ Len(o) + 1 < Len(q) BY <1>0, <2>3, <2>6
    <3>2. Len(o) + 1 + 1 = Len(o) + 2 /\ Len(o) + 1 - 1 = Len(o) BY <1>0
    <3>3. c.at = o[Len(o)].at + b.same + 1 BY <1>0, <2>2, <2>3
    <3> QED BY <2>6, <3>1, <3>2, <3>3 DEF GapAt
  <2>8. GapAt(q, Len(o) + 2) BY <2>2, <2>6 DEF GapAt
  <2>9. \A l \in 1 .. Len(q) : GapAt(q, l)
    <3> TAKE l \in 1 .. Len(q)
    <3>1. l \in 1 .. Len(o) \/ l = Len(o) + 1 \/ l = Len(o) + 2 BY <1>0, <2>6
    <3> QED BY <2>5, <2>7, <2>8, <3>1
  <2>10. ASSUME NEW k \in 1 .. a - 1 PROVE \E l \in 1 .. Len(q) : Shows(memory, q, l, k)
    <3>1. CASE k \in 1 .. a - 1 - n BY <2>5, <3>1 DEF AllShown
    <3>2. CASE k = a - 1
      <4>1. memory[k] = prev_row BY <1>1, <3>2
      <4>2. Shows(memory, q, Len(o) + 2, k)
        BY <2>2, <2>6, <3>2, <4>1 DEF Shows, c, Hex!row_line
      <4> QED BY <1>0, <2>6, <4>2
    <3>3. CASE k \in a - n .. a - 2
      <4>1. memory[k] = prev_row BY <1>1, <3>3
      <4>2. k - o[Len(o)].at \in 1 .. b.same BY <1>0, <2>2, <2>3, <3>3
      <4>3. Len(o) + 1 > 1 /\ Len(o) + 1 - 1 = Len(o) BY <1>0, <2>3
      <4>4. Shows(memory, q, Len(o) + 1, k)
        BY <2>2, <2>3, <2>6, <4>1, <4>2, <4>3 DEF Shows
      <4> QED BY <1>0, <2>6, <4>4
    <3> QED BY <1>0, <3>1, <3>2, <3>3
  <2> QED BY <2>5, <2>9, <2>10 DEF Told, AllShown, q, p
<1>2. CASE ~(n > 3)
  <2> DEFINE m == IF n > 0 THEN n + 1 ELSE 0
             b(j) == Hex!row_line(prev_row, a - (n + 1 - j))
  <2>1. p = [j \in 1 .. m |-> b(j)]
    BY <1>2 DEF Hex!print_same_rows
  <2>2. m \in Nat /\ (n > 0 => m = n + 1) /\ (n = 0 => m = 0) OBVIOUS
  <2> HIDE DEF m
  <2>3. \A j \in 1 .. m : /\ b(j) \in Lines /\ b(j).same = 0
                          /\ b(j) = [row |-> prev_row, at |-> a - (n + 1 - j), same |-> 0]
    BY <2>2 DEF Hex!row_line, Lines
  <2> HIDE DEF b
  <2>4. p \in Seq(Lines) /\ Len(p) = m /\ \A j \in 1 .. m : p[j] = b(j)
    BY <2>1, <2>2, <2>3
  <2> HIDE DEF p
  <2>5. /\ q \in Seq(Lines) /\ Len(q) = Len(o) + Len(p)
        /\ \A l \in 1 .. Len(p) : q[Len(o) + l] = p[l]
        /\ AllShown(memory, q, a - 1 - n)
        /\ \A l \in 1 .. Len(o) : GapAt(q, l)
    BY <1>0, <2>4, MoreLines
  <2> HIDE DEF q
  <2>6. Len(q) = Len(o) + m /\ \A j \in 1 .. m : q[Len(o) + j] = b(j)
    BY <2>4, <2>5
  <2>7. \A l \in 1 .. Len(q) : GapAt(q, l)
    <3> TAKE l \in 1 .. Len(q)
    <3>1. CASE l \in 1 .. Len(o) BY <2>5, <3>1
    <3>2. CASE l > Len(o)
      <4>1. l - Len(o) \in 1 .. m /\ Len(o) + (l - Len(o)) = l BY <1>0, <2>2, <2>6, <3>2
      <4>2. q[l].same = 0 BY <2>3, <2>6, <4>1
      <4> QED BY <4>2 DEF GapAt
    <3> QED BY <1>0, <3>1, <3>2
  <2>8. ASSUME NEW k \in 1 .. a - 1 PROVE \E l \in 1 .. Len(q) : Shows(memory, q, l, k)
    <3>1. CASE k \in 1 .. a - 1 - n BY <2>5, <3>1 DEF AllShown
    <3>2. CASE k \in a - n .. a - 1
      <4> DEFINE j == k - (a - n) + 1
      <4>1. n > 0 /\ memory[k] = prev_row BY <3>2
      <4>2. j \in 1 .. m /\ a - (n + 1 - j) = k BY <2>2, <3>2, <4>1
      <4> HIDE DEF j
      <4>3. q[Len(o) + j] = [row |-> prev_row, at |-> k, same |-> 0]
        BY <2>3, <2>6, <4>2
      <4>4. q[Len(o) + j].same = 0 BY <4>3
      <4>5. Shows(memory, q, Len(o) + j, k)
        BY <4>1, <4>3, <4>4 DEF Shows, Hex!row_line
      <4>6. Len(o) + j \in 1 .. Len(q) BY <1>0, <2>2, <2>6, <4>2
      <4> QED BY <4>5, <4>6
    <3> QED BY <1>0, <3>1, <3>2
  <2> QED BY <2>5, <2>7, <2>8 DEF Told, AllShown, q, p
<1> QED BY <1>1, <1>2

LEMMA HexInitTold == AloneInit => HexInv
<1> SUFFICES ASSUME AloneInit, part = "dump_hex" PROVE HexInv
  BY DEF HexInv
<1>1. Hex!Init BY DEF AloneInit
<1>2. PICK n \in 0 .. MaxRows : memory \in [1 .. n -> Rows]
  BY <1>1 DEF Hex!Init
<1>3. n \in Nat BY StandAloneAssumption DEF Hex!DumpHexAssumption
<1>4. memory \in Seq(Rows) /\ Len(memory) \in Nat BY <1>2, <1>3
<1>5. (offset \/ remainder) => Len(memory) >= 1 BY <1>1, <1>4 DEF Hex!Init
<1>6. (offset /\ remainder) => Len(memory) >= 2
  <2> SUFFICES ASSUME offset, remainder PROVE Len(memory) >= 2
    OBVIOUS
  <2>1. Len(memory) # 1 BY <1>1 DEF Hex!Init
  <2>2. Len(memory) >= 1 BY <1>5, Zenon
  <2>3. Len(memory) \in Nat BY <1>4
  <2> QED BY <2>1, <2>2, <2>3
<1>7. row \in 1 .. Hex!full_rows + 1 BY <1>1, <1>4, <1>5 DEF Hex!Init, Hex!full_rows
<1>8. Told(memory, <<>>, 0) BY DEF Told, AllShown
<1>9. /\ row = 1 /\ num_rows = 0 /\ num_same_rows = 0 /\ out = <<>> /\ pc = "first"
      /\ prev_row \in Rows /\ offset \in BOOLEAN /\ remainder \in BOOLEAN
  BY <1>1 DEF Hex!Init
<1>10. Told(memory, out, row - 1 - num_same_rows) /\ num_same_rows <= row - 1 BY <1>8, <1>9
<1> QED BY <1>4, <1>5, <1>6, <1>7, <1>9, <1>10 DEF HexInv

(* In the loop, whatever is held back.                                     *)
LEMMA HexStep ==
  ASSUME HexInv, part = "dump_hex", part' = part, Hex!Next
  PROVE  HexInv'
<1> DEFINE n == num_same_rows
           told == row - 1 - n
<1>0. /\ memory \in Seq(Rows) /\ prev_row \in Rows /\ Len(memory) \in Nat
      /\ offset \in BOOLEAN /\ remainder \in BOOLEAN
      /\ (offset \/ remainder) => Len(memory) >= 1
      /\ (offset /\ remainder) => Len(memory) >= 2
      /\ num_rows \in Nat /\ n \in Nat /\ (n > 0 => num_rows > 0)
  BY DEF HexInv
<1>1. Hex!full_rows \in Nat /\ Hex!full_rows <= Len(memory)
      /\ Hex!full_rows = IF remainder THEN Len(memory) - 1 ELSE Len(memory)
  BY <1>0 DEF Hex!full_rows
<1>2. pc \in {"first", "rows"} =>
        /\ row \in 1 .. Hex!full_rows + 1 /\ row \in Nat /\ n <= row - 1
        /\ told \in Nat /\ Told(memory, out, told) /\ out \in Seq(Lines)
  BY <1>0, <1>1 DEF HexInv, Told
<1>3. pc = "rows" /\ num_rows > 0 =>
        /\ out # <<>> /\ out[Len(out)] = Hex!row_line(prev_row, told)
        /\ \A k \in row - n .. row - 1 : memory[k] = prev_row
  BY DEF HexInv
<1>4. CASE Hex!first_row
  <2>1. /\ pc = "first" /\ pc' = "rows" /\ row = 1 /\ out = <<>>
        /\ num_rows = 0 /\ n = 0 /\ num_rows' = 0 /\ num_same_rows' = 0
        /\ memory' = memory /\ offset' = offset /\ remainder' = remainder
        /\ prev_row' = prev_row
    BY <1>0, <1>4 DEF HexInv, Hex!first_row, Hex!input
  <2>2. Hex!full_rows' = Hex!full_rows BY <2>1 DEF Hex!full_rows
  <2>3. /\ row' \in 1 .. Hex!full_rows' + 1
        /\ Told(memory, out', row' - 1)
    <3>1. CASE offset
      <4>1. out' = <<Hex!row_line(memory[1], 1)>> /\ row' = 2
        BY <1>4, <3>1 DEF Hex!first_row
      <4>2. 1 \in 1 .. Len(memory) /\ memory[1] \in Rows BY <1>0, <3>1
      <4>3. Told(memory, <<>>, 0) /\ <<>> \in Seq(Lines) /\ 1 = 0 + 1
        BY DEF Told, AllShown
      <4>4. Told(memory, <<>> \o <<Hex!row_line(memory[1], 1)>>, 0 + 1)
        <5> DEFINE o == <<>>
                   c == memory[1]
        <5>1. o \in Seq(Lines) /\ Told(memory, o, 0) /\ c \in Rows /\ c = memory[1]
          BY <4>2, <4>3
        <5> HIDE DEF o, c
        <5>2. Told(memory, o \o <<Hex!row_line(c, 1)>>, 0 + 1) BY <5>1, OneLine
        <5> QED BY <5>2 DEF o, c
      <4>5. <<>> \o <<Hex!row_line(memory[1], 1)>> = out'
        <5> DEFINE b == Hex!row_line(memory[1], 1)
        <5> HIDE DEF b
        <5>1. <<>> \o <<b>> = <<b>> OBVIOUS
        <5> QED BY <4>1, <5>1 DEF b
      <4>6. Told(memory, out', row' - 1)
        <5>1. 0 + 1 = row' - 1 BY <4>1
        <5> QED BY <4>4, <4>5, <5>1
      <4>7. 2 \in 1 .. Hex!full_rows + 1 BY <1>0, <1>1, <3>1
      <4> QED BY <2>2, <4>1, <4>6, <4>7
    <3>2. CASE ~offset
      <4>1. out' = out /\ row' = row BY <1>4, <3>2 DEF Hex!first_row
      <4>2. told = row' - 1 BY <2>1, <4>1
      <4> QED BY <1>2, <2>1, <2>2, <4>1, <4>2
    <3> QED BY <3>1, <3>2
  <2>4. /\ row' - 1 - num_same_rows' = row' - 1 /\ num_same_rows' <= row' - 1
    <3>1. row' \in 1 .. Hex!full_rows + 1 BY <2>2, <2>3
    <3>2. num_same_rows' = 0 BY <2>1
    <3>3. \A k \in 1 .. Hex!full_rows + 1 : k - 1 - 0 = k - 1 /\ 0 <= k - 1 BY <1>1
    <3> QED BY <3>1, <3>2, <3>3, Zenon
  <2>5. Told(memory, out, row - 1 - num_same_rows)'
    BY <2>1, <2>3, <2>4
  <2> QED BY <1>0, <2>1, <2>3, <2>4, <2>5 DEF HexInv
<1>5. CASE Hex!same_row
  <2>1. /\ pc = "rows" /\ row <= Hex!full_rows /\ num_rows > 0 /\ memory[row] = prev_row
        /\ num_same_rows' = n + 1 /\ row' = row + 1 /\ num_rows' = num_rows + 1
        /\ memory' = memory /\ offset' = offset /\ remainder' = remainder
        /\ prev_row' = prev_row /\ out' = out /\ pc' = pc
    BY <1>5 DEF Hex!same_row, Hex!input
  <2>2. Hex!full_rows' = Hex!full_rows BY <2>1 DEF Hex!full_rows
  <2>3. /\ row \in Nat /\ n \in Nat /\ n <= row - 1 /\ row \in 1 .. Hex!full_rows + 1
        /\ Told(memory, out, told)
    BY <1>0, <1>2, <2>1
  <2>4. row' = row + 1 /\ num_same_rows' = n + 1 BY <2>1
  <2>5. row' - 1 - num_same_rows' = told /\ num_same_rows' <= row' - 1
    <3> HIDE DEF n
    <3> QED BY <2>3, <2>4 DEF told
  <2>6. row' \in 1 .. Hex!full_rows' + 1
    <3>1. Hex!full_rows \in Nat /\ row <= Hex!full_rows BY <1>1, <2>1
    <3> QED BY <2>2, <2>3, <2>4, <3>1
  <2>7. \A k \in row' - num_same_rows' .. row' - 1 : memory[k] = prev_row
    <3> TAKE k \in row' - num_same_rows' .. row' - 1
    <3> HIDE DEF n
    <3>1. k \in row - n .. row - 1 \/ k = row BY <2>3, <2>4
    <3> QED BY <1>3, <2>1, <3>1
  <2>8. Told(memory, out, row - 1 - num_same_rows)'
    BY <2>1, <2>3, <2>5
  <2>9. out'[Len(out')] = Hex!row_line(prev_row', row' - 1 - num_same_rows')
    BY <1>3, <2>1, <2>5
  <2> QED BY <1>0, <1>3, <2>1, <2>5, <2>6, <2>7, <2>8, <2>9 DEF HexInv
<1>6. ASSUME pc = "rows"
      PROVE  Told(memory, out \o Hex!print_same_rows(n, row), row - 1)
  <2>1. n > 0 => /\ out # <<>> /\ out[Len(out)] = Hex!row_line(prev_row, row - 1 - n)
                 /\ \A k \in row - n .. row - 1 : memory[k] = prev_row
    BY <1>0, <1>3, <1>6
  <2> HIDE DEF n
  <2> QED BY <1>0, <1>2, <1>6, <2>1, PendingTold
<1>7. CASE Hex!other_row
  <2> DEFINE q == out \o Hex!print_same_rows(n, row)
             c == memory[row]
  <2>1. /\ pc = "rows" /\ row <= Hex!full_rows
        /\ out' = q \o <<Hex!row_line(c, row)>>
        /\ num_same_rows' = 0 /\ prev_row' = c
        /\ row' = row + 1 /\ num_rows' = num_rows + 1
        /\ memory' = memory /\ offset' = offset /\ remainder' = remainder /\ pc' = pc
    BY <1>7 DEF Hex!other_row, Hex!input
  <2>2. Hex!full_rows' = Hex!full_rows BY <2>1 DEF Hex!full_rows
  <2>3. row \in 1 .. Len(memory) /\ c \in Rows
    <3>1. row \in Nat /\ row >= 1 BY <1>1, <1>2, <2>1
    <3>2. row <= Hex!full_rows /\ Hex!full_rows <= Len(memory) BY <1>1, <2>1
    <3>3. row \in 1 .. Len(memory) BY <1>0, <1>1, <3>1, <3>2
    <3> QED BY <1>0, <3>3
  <2>4. Told(memory, q, row - 1) /\ q \in Seq(Lines) BY <1>6, <2>1 DEF Told
  <2> HIDE DEF q
  <2>5. row - 1 \in Nat /\ row = row - 1 + 1 /\ row \in Int BY <2>3
  <2>6. /\ Told(memory, out', row)
        /\ out' # <<>> /\ out'[Len(out')] = Hex!row_line(c, row)
    BY <2>1, <2>3, <2>4, <2>5, OneLine
  <2>7. row' - 1 - num_same_rows' = row /\ row' \in 1 .. Hex!full_rows' + 1
        /\ num_same_rows' <= row' - 1
    BY <1>1, <2>1, <2>2, <2>3
  <2>8. Told(memory, out, row - 1 - num_same_rows)'
    BY <2>1, <2>6, <2>7
  <2>9. \A k \in row' - num_same_rows' .. row' - 1 : memory[k] = prev_row'
    BY <2>1, <2>3
  <2>10. num_rows' \in Nat /\ num_same_rows' \in Nat /\ ~(num_same_rows' > 0)
    BY <1>0, <2>1
  <2> HIDE DEF c
  <2>11. out'[Len(out')] = Hex!row_line(prev_row', row' - 1 - num_same_rows')
    BY <2>1, <2>6, <2>7
  <2> QED BY <1>0, <2>1, <2>3, <2>6, <2>7, <2>8, <2>9, <2>10, <2>11 DEF HexInv
<1>8. CASE Hex!last_row
  <2> DEFINE q == out \o Hex!print_same_rows(n, row)
  <2>1. /\ pc = "rows" /\ row > Hex!full_rows /\ pc' = "done"
        /\ out' = q \o IF remainder THEN <<Hex!row_line(memory[row], row)>> ELSE <<>>
        /\ num_same_rows' = n /\ prev_row' = prev_row
        /\ row' = row /\ num_rows' = num_rows
        /\ memory' = memory /\ offset' = offset /\ remainder' = remainder
    BY <1>8 DEF Hex!last_row, Hex!input, Hex!pending
  <2>2. Told(memory, q, row - 1) /\ q \in Seq(Lines) BY <1>6, <2>1 DEF Told
  <2> HIDE DEF q
  <2>3. row = Hex!full_rows + 1 BY <1>1, <1>2, <2>1
  <2>4. Told(memory, out', Len(memory))
    <3>1. CASE remainder
      <4>1. row = Len(memory) /\ row \in 1 .. Len(memory) /\ memory[row] \in Rows
        BY <1>0, <1>1, <2>3, <3>1
      <4>2. row - 1 \in Nat /\ row = row - 1 + 1 /\ row \in Int BY <4>1
      <4>3. Told(memory, q \o <<Hex!row_line(memory[row], row)>>, row)
        BY <2>2, <4>1, <4>2, OneLine
      <4> QED BY <2>1, <3>1, <4>1, <4>3
    <3>2. CASE ~remainder
      <4>1. row - 1 = Len(memory) BY <1>1, <2>3, <3>2
      <4>2. q \o <<>> = q BY <2>2
      <4> QED BY <2>1, <2>2, <3>2, <4>1, <4>2
    <3> QED BY <3>1, <3>2
  <2>5. Told(memory, out, Len(memory))' BY <2>1, <2>4
  <2> QED BY <1>0, <2>1, <2>5 DEF HexInv
<1> QED BY <1>4, <1>5, <1>7, <1>8 DEF Hex!Next

(* _dump_hex hides no row of the memory, whatever it holds and wherever it *)
(* begins and ends, and a count is the distance between the addresses      *)
(* around it.                                                              *)
THEOREM HexTellsRows == AloneSpec => []RowsTold
<1>1. HexInv /\ [AloneNext]_alone_vars => HexInv'
  <2> SUFFICES ASSUME HexInv, [AloneNext]_alone_vars PROVE HexInv'
    OBVIOUS
  <2>0. part' = part BY DEF AloneNext, alone_vars
  <2>1. CASE part = "dump_hex" /\ AloneNext
    BY <2>0, <2>1, HexStep DEF AloneNext
  <2>2. CASE part # "dump_hex" BY <2>0, <2>2 DEF HexInv
  <2>3. CASE UNCHANGED alone_vars
    BY <2>0, <2>3
       DEF HexInv, alone_vars, dump_hex, Hex!full_rows
  <2> QED BY <2>1, <2>2, <2>3
<1>2. HexInv => RowsTold
  <2> SUFFICES ASSUME HexInv, part = "dump_hex" PROVE Hex!RowsShown /\ Hex!GapsExact
    BY DEF RowsTold
  <2>1. \E n \in Int : Told(memory, out, n)
    <3>1. CASE pc = "done"
      <4>1. Len(memory) \in Int BY DEF HexInv
      <4> QED BY <3>1, <4>1 DEF HexInv
    <3>2. CASE pc \in {"first", "rows"}
      <4>1. row - 1 - num_same_rows \in Int BY <3>2 DEF HexInv
      <4> QED BY <3>2, <4>1 DEF HexInv
    <3> QED BY <3>1, <3>2 DEF HexInv
  <2>2. out \in Seq(Lines) /\ DOMAIN out = 1 .. Len(out) BY <2>1 DEF Told
  <2>3. Hex!GapsExact
    BY <2>1, <2>2 DEF Told, GapAt, Hex!GapsExact
  <2>4. Hex!RowsShown
    <3> SUFFICES ASSUME pc = "done", NEW k \in DOMAIN memory
                 PROVE  \E l \in DOMAIN out :
                          IF out[l].same = 0 THEN out[l] = Hex!row_line(memory[k], k)
                          ELSE /\ k - out[l - 1].at \in 1 .. out[l].same
                               /\ out[l - 1].row = memory[k]
      BY DEF Hex!RowsShown
    <3>1. k \in 1 .. Len(memory) BY DEF HexInv
    <3>2. PICK l \in 1 .. Len(out) : Shows(memory, out, l, k)
      BY <3>1 DEF HexInv, Told, AllShown
    <3> QED BY <2>2, <3>2 DEF Shows
  <2> QED BY <2>3, <2>4
<1> QED BY <1>1, <1>2, HexInitTold, PTL DEF AloneSpec

-----------------------------------------------------------------------------
(* The bitmap dump. *)

StarLines == [at : Int, row : Seq(Bytes)]

(* Line l is the last at or below byte k, and says what the byte is.       *)
Back(bytes, o, l, k) ==
  /\ o[l].at \in 0 .. k
  /\ \A m \in 1 .. Len(o) : o[m].at \in 0 .. k => m <= l
  /\ IF k - o[l].at < Len(o[l].row) THEN o[l].row[k - o[l].at + 1] = bytes[k + 1]
     ELSE Len(o[l].row) = ROW /\ \A c \in 1 .. ROW : o[l].row[c] = bytes[k + 1]

LastRow == IF skipping THEN Len(lines) - 1 ELSE Len(lines)

(* The last row printed is whole when the next one begins, and is made of  *)
(* one character if prev_row_same_char says so: what is skipped can be     *)
(* read from it.  Rows are not skipped to the end.                         *)
StarsInv ==
  part = "dump_bitmap" =>
    /\ data \in Seq(Bytes) /\ i \in 0 .. Len(data) /\ column \in 0 .. ROW - 1
    /\ prev_row_same_char \in BOOLEAN /\ skipping \in BOOLEAN
    /\ lines \in Seq(StarLines)
    /\ i = 0 => column = 0 /\ lines = <<>> /\ skipping = FALSE /\ prev_row_same_char = FALSE
    /\ skipping = TRUE => column = 0 /\ i < Len(data)
    /\ i > 0 =>
         /\ LastRow \in 1 .. Len(lines)
         /\ lines[LastRow].at \in Nat
         /\ lines[LastRow].at + Len(lines[LastRow].row) <= i
         /\ \A m \in 1 .. Len(lines) : m > LastRow => lines[m].at = -1
         /\ prev_row_same_char = TRUE =>
              \A c \in 1 .. Len(lines[LastRow].row) : lines[LastRow].row[c] = prev_row_char
         /\ Len(lines[LastRow].row) = IF column = 0 THEN ROW ELSE column
         /\ skipping = FALSE => lines[LastRow].at + Len(lines[LastRow].row) = i
    /\ \A l \in 1 .. Len(lines) : lines[l].at = -1 \/ lines[l].at \in 0 .. i - 1
    /\ \A k \in 0 .. i - 1 : \E l \in 1 .. Len(lines) : Back(data, lines, l, k)

LEMMA StarsInitTold == AloneInit => StarsInv
<1> SUFFICES ASSUME AloneInit, part = "dump_bitmap" PROVE StarsInv
  BY DEF StarsInv
<1>1. Stars!Init BY DEF AloneInit
<1>2. PICK n \in 0 .. MaxBitmap : data \in [1 .. n -> Bytes]
  BY <1>1 DEF Stars!Init
<1>3. n \in Nat /\ ROW \in Nat \ {0}
  BY StandAloneAssumption DEF Stars!DumpBitmapAssumption
<1>4. data \in Seq(Bytes) /\ Len(data) \in Nat BY <1>2, <1>3
<1>5. /\ i = 0 /\ column = 0 /\ lines = <<>>
      /\ skipping = FALSE /\ prev_row_same_char = FALSE
  BY <1>1 DEF Stars!Init
<1>6. lines \in Seq(StarLines) /\ Len(lines) = 0 BY <1>5
<1>7. i \in 0 .. Len(data) /\ column \in 0 .. ROW - 1 BY <1>3, <1>4, <1>5
<1>8. prev_row_same_char \in BOOLEAN /\ skipping \in BOOLEAN BY <1>5
<1>9. 0 .. i - 1 = {} /\ 1 .. Len(lines) = {} /\ ~(i > 0) BY <1>5, <1>6
<1>10. skipping # TRUE BY <1>5
<1> QED BY <1>4, <1>5, <1>6, <1>7, <1>8, <1>9, <1>10 DEF StarsInv

LEMMA SkipStep ==
  ASSUME StarsInv, part = "dump_bitmap", part' = part, Stars!skip_row
  PROVE  StarsInv'
<1> DEFINE r == LastRow
           row0 == lines[r].row
<1>0. /\ data \in Seq(Bytes) /\ i \in 0 .. Len(data) /\ Len(data) \in Nat
      /\ ROW \in Nat \ {0} /\ lines \in Seq(StarLines) /\ Len(lines) \in Nat
  BY StandAloneAssumption DEF StarsInv, Stars!DumpBitmapAssumption
<1>1. /\ column = 0 /\ prev_row_same_char /\ Len(data) - i > ROW
      /\ \A k \in i + 1 .. i + ROW : data[k] = prev_row_char
      /\ i' = i + ROW /\ skipping' = TRUE
      /\ lines' = IF skipping THEN lines ELSE Append(lines, [at |-> -1, row |-> <<>>])
      /\ data' = data /\ column' = column
      /\ prev_row_same_char' = prev_row_same_char /\ prev_row_char' = prev_row_char
  BY DEF Stars!skip_row, Stars!skipped, Stars!more_follow, Stars!size, Stars!same_16_chars
<1>2. prev_row_same_char = TRUE /\ i > 0
  <2>1. prev_row_same_char = TRUE BY <1>1 DEF StarsInv
  <2>2. i # 0 BY <2>1 DEF StarsInv
  <2> QED BY <1>0, <2>1, <2>2
<1>3. /\ r \in 1 .. Len(lines) /\ lines[r].at \in Nat /\ lines[r].at + Len(row0) <= i
      /\ \A m \in 1 .. Len(lines) : m > r => lines[m].at = -1
      /\ \A c \in 1 .. Len(row0) : row0[c] = prev_row_char
      /\ Len(row0) = ROW
  BY <1>1, <1>2 DEF StarsInv
<1>4. /\ lines' \in Seq(StarLines) /\ Len(lines') \in Nat /\ Len(lines') = r + 1
      /\ Len(lines) <= Len(lines')
      /\ \A l \in 1 .. Len(lines) : lines'[l] = lines[l]
      /\ \A l \in 1 .. Len(lines') : l \notin 1 .. Len(lines) => lines'[l].at = -1
  <2>1. CASE skipping
    <3>1. lines' = lines /\ r = Len(lines) - 1 BY <1>1, <2>1 DEF LastRow
    <3> QED BY <1>0, <3>1
  <2>2. CASE ~skipping
    <3> DEFINE b == [at |-> -1, row |-> <<>>]
    <3>1. lines' = Append(lines, b) /\ r = Len(lines) BY <1>1, <2>2 DEF LastRow
    <3>2. b \in StarLines /\ b.at = -1 BY DEF StarLines
    <3> HIDE DEF b
    <3>3. /\ lines' \in Seq(StarLines) /\ Len(lines') = Len(lines) + 1
          /\ \A l \in 1 .. Len(lines) : lines'[l] = lines[l]
          /\ lines'[Len(lines) + 1] = b
      BY <1>0, <3>1, <3>2, AppendProperties
    <3>4. \A l \in 1 .. Len(lines') : l \notin 1 .. Len(lines) => l = Len(lines) + 1
      BY <1>0, <3>3
    <3> QED BY <1>0, <3>1, <3>2, <3>3, <3>4
  <2> QED BY <2>1, <2>2
<1> HIDE DEF r
<1>5. LastRow' = r /\ lines'[r] = lines[r]
  <2>1. Len(lines') - 1 = r BY <1>3, <1>4
  <2> QED BY <1>1, <1>3, <1>4, <2>1 DEF LastRow
<1>6. \A m \in 1 .. Len(lines') : m > r => lines'[m].at = -1
  BY <1>3, <1>4
<1>7. \A l \in 1 .. Len(lines') : lines'[l].at = -1 \/ lines'[l].at \in 0 .. i' - 1
  <2> TAKE l \in 1 .. Len(lines')
  <2>1. CASE l \notin 1 .. Len(lines) BY <1>4, <2>1
  <2>2. CASE l \in 1 .. Len(lines)
    <3>1. lines[l].at = -1 \/ lines[l].at \in 0 .. i - 1 BY <2>2 DEF StarsInv
    <3> QED BY <1>0, <1>1, <1>4, <2>2, <3>1
  <2> QED BY <2>1, <2>2
<1>8. ASSUME NEW k \in 0 .. i - 1 PROVE \E l \in 1 .. Len(lines') : Back(data, lines', l, k)
  <2>1. PICK l \in 1 .. Len(lines) : Back(data, lines, l, k) BY DEF StarsInv
  <2>2. l \in 1 .. Len(lines') /\ lines'[l] = lines[l] BY <1>0, <1>4
  <2>3. \A m \in 1 .. Len(lines') : lines'[m].at \in 0 .. k => m <= l
    <3> SUFFICES ASSUME NEW m \in 1 .. Len(lines'), lines'[m].at \in 0 .. k PROVE m <= l
      OBVIOUS
    <3>1. m \in 1 .. Len(lines) BY <1>4
    <3> QED BY <1>4, <2>1, <3>1 DEF Back
  <2> QED BY <2>1, <2>2, <2>3 DEF Back
<1>9. ASSUME NEW k \in i .. i + ROW - 1 PROVE Back(data, lines', r, k)
  <2>1. k \in Int /\ lines[r].at \in 0 .. k /\ ~(k - lines[r].at < Len(row0))
    BY <1>0, <1>3
  <2>2. data[k + 1] = prev_row_char BY <1>0, <1>1
  <2>3. \A m \in 1 .. Len(lines') : lines'[m].at \in 0 .. k => m <= r
    BY <1>3, <1>4, <1>6
  <2> QED BY <1>3, <1>5, <2>1, <2>2, <2>3 DEF Back
<1>10. \A k \in 0 .. i' - 1 : \E l \in 1 .. Len(lines') : Back(data, lines', l, k)
  <2> TAKE k \in 0 .. i' - 1
  <2>1. k \in 0 .. i - 1 \/ k \in i .. i + ROW - 1 BY <1>0, <1>1
  <2>2. r \in 1 .. Len(lines') BY <1>3, <1>4
  <2> QED BY <1>8, <1>9, <2>1, <2>2
<1>11. /\ i' \in 0 .. Len(data') /\ i' < Len(data') /\ i' # 0
       /\ lines'[r].at + Len(lines'[r].row) <= i'
  <2>1. Len(lines'[r].row) = ROW /\ lines'[r].at = lines[r].at BY <1>3, <1>5
  <2>2. i \in Nat /\ ROW \in Nat /\ ROW # 0 BY <1>0
  <2>3. i' = i + ROW /\ Len(data) - i > ROW /\ data' = data BY <1>1
  <2>4. lines[r].at + ROW <= i /\ lines[r].at \in Nat BY <1>3
  <2>5. i' \in 0 .. Len(data') /\ i' < Len(data') /\ i' # 0 BY <1>0, <2>2, <2>3
  <2>6. lines[r].at + ROW <= i' BY <2>2, <2>3, <2>4
  <2> QED BY <2>1, <2>5, <2>6
<1>12. (\A k \in 0 .. i - 1 : \E l \in 1 .. Len(lines) : Back(data, lines, l, k))'
  BY <1>1, <1>10
<1>13. column' \in 0 .. ROW - 1 /\ prev_row_same_char' \in BOOLEAN
  BY <1>0, <1>1, <1>2
<1>14. LastRow' \in 1 .. Len(lines') BY <1>3, <1>4, <1>5
<1> QED BY <1>0, <1>1, <1>3, <1>4, <1>5, <1>6, <1>7, <1>11, <1>12, <1>13, <1>14 DEF StarsInv

(* A byte that begins a row. *)
LEMMA FirstByteStep ==
  ASSUME StarsInv, part = "dump_bitmap", part' = part, Stars!print_byte, column = 0
  PROVE  StarsInv'
<1> DEFINE n == Len(lines)
           b == data[i + 1]
           new == [at |-> i, row |-> <<b>>]
<1>0. /\ data \in Seq(Bytes) /\ i \in 0 .. Len(data) /\ Len(data) \in Nat
      /\ ROW \in Nat \ {0} /\ lines \in Seq(StarLines) /\ n \in Nat
  BY StandAloneAssumption DEF StarsInv, Stars!DumpBitmapAssumption
<1>1. /\ i < Len(data) /\ i' = i + 1 /\ data' = data /\ column' = (column + 1) % ROW
      /\ prev_row_char' = b /\ prev_row_same_char' = TRUE /\ skipping' = FALSE
      /\ lines' = Append(lines, new)
  BY DEF Stars!print_byte, Stars!size
<1>2. b \in Bytes BY <1>0, <1>1
<1>3. /\ new \in StarLines /\ new.at = i /\ Len(new.row) = 1 /\ new.row[1] = b
  <2>1. <<b>> \in Seq(Bytes) /\ i \in Int BY <1>0, <1>2
  <2> QED BY <2>1 DEF StarLines
<1> HIDE DEF new
<1>4. /\ lines' \in Seq(StarLines) /\ Len(lines') = n + 1
      /\ \A l \in 1 .. n : lines'[l] = lines[l]
      /\ lines'[n + 1] = new
  BY <1>0, <1>1, <1>3, AppendProperties
<1> HIDE DEF n, b
<1>5. LastRow' = n + 1 BY <1>1, <1>4 DEF LastRow
<1>6. \A l \in 1 .. Len(lines') : l \in 1 .. n \/ l = n + 1
  BY <1>0, <1>4
<1>7. column' \in 0 .. ROW - 1 /\ 1 = IF column' = 0 THEN ROW ELSE column'
  <2>1. column' = 1 % ROW BY <1>1
  <2>2. CASE ROW = 1
    <3>1. 0 % ROW = 0 BY <1>0, SmallRemainder
    <3>2. (0 + ROW) % ROW = 0 BY <1>0, <3>1, NextMultiple
    <3>3. 0 + ROW = 1 BY <2>2
    <3> QED BY <2>1, <2>2, <3>2, <3>3
  <2>3. CASE ROW # 1
    <3>1. 1 \in 0 .. ROW - 1 BY <1>0, <2>3
    <3>2. 1 % ROW = 1 BY <1>0, <3>1, SmallRemainder
    <3> QED BY <2>1, <3>1, <3>2
  <2> QED BY <2>2, <2>3
<1>8. \A l \in 1 .. Len(lines') : lines'[l].at = -1 \/ lines'[l].at \in 0 .. i' - 1
  <2> TAKE l \in 1 .. Len(lines')
  <2>1. CASE l \in 1 .. n
    <3>1. lines[l].at = -1 \/ lines[l].at \in 0 .. i - 1 BY <2>1 DEF StarsInv, n
    <3> QED BY <1>0, <1>1, <1>4, <2>1, <3>1
  <2>2. CASE l = n + 1
    <3>1. lines'[l].at = i BY <1>3, <1>4, <2>2
    <3> QED BY <1>0, <1>1, <3>1
  <2> QED BY <1>6, <2>1, <2>2
<1>9. ASSUME NEW k \in 0 .. i - 1 PROVE \E l \in 1 .. Len(lines') : Back(data, lines', l, k)
  <2>1. PICK l \in 1 .. n : Back(data, lines, l, k) BY DEF StarsInv, n
  <2>2. l \in 1 .. Len(lines') /\ lines'[l] = lines[l] BY <1>0, <1>4
  <2>3. \A m \in 1 .. Len(lines') : lines'[m].at \in 0 .. k => m <= l
    <3> SUFFICES ASSUME NEW m \in 1 .. Len(lines'), lines'[m].at \in 0 .. k PROVE m <= l
      OBVIOUS
    <3>1. CASE m \in 1 .. n BY <1>4, <2>1, <3>1 DEF Back, n
    <3>2. CASE m = n + 1
      <4>1. i \in 0 .. k BY <1>3, <1>4, <3>2
      <4> QED BY <1>0, <4>1
    <3> QED BY <1>6, <3>1, <3>2
  <2> QED BY <2>1, <2>2, <2>3 DEF Back
<1>10. n + 1 \in 1 .. Len(lines') /\ Back(data, lines', n + 1, i)
  <2>1. i \in 0 .. i /\ i - i = 0 BY <1>0
  <2>2. \A m \in 1 .. Len(lines') : m <= n + 1 BY <1>0, <1>6
  <2>3. n + 1 \in 1 .. Len(lines') BY <1>0, <1>4
  <2> QED BY <1>3, <1>4, <2>1, <2>2, <2>3 DEF Back, b
<1>11. \A k \in 0 .. i' - 1 : \E l \in 1 .. Len(lines') : Back(data, lines', l, k)
  <2> TAKE k \in 0 .. i' - 1
  <2>1. k \in 0 .. i - 1 \/ k = i BY <1>0, <1>1
  <2> QED BY <1>9, <1>10, <2>1
<1>12. (\A k \in 0 .. i - 1 : \E l \in 1 .. Len(lines) : Back(data, lines, l, k))'
  BY <1>1, <1>11
<1>13. i' \in 0 .. Len(data') /\ i' # 0 /\ i' > 0 BY <1>0, <1>1
<1>14. /\ lines'[LastRow'].at \in Nat
       /\ lines'[LastRow'].at + Len(lines'[LastRow'].row) = i'
       /\ lines'[LastRow'].at + Len(lines'[LastRow'].row) <= i'
       /\ Len(lines'[LastRow'].row) = 1
       /\ \A c \in 1 .. Len(lines'[LastRow'].row) : lines'[LastRow'].row[c] = b
  <2>1. lines'[LastRow'] = new BY <1>4, <1>5
  <2>2. i \in Nat /\ i + 1 <= i + 1 BY <1>0
  <2>3. \A c \in 1 .. 1 : c = 1 OBVIOUS
  <2> HIDE DEF new
  <2>4. new.at \in Nat /\ new.at + Len(new.row) = i' /\ new.at + Len(new.row) <= i'
    BY <1>1, <1>3, <2>2
  <2>5. Len(new.row) = 1 /\ \A c \in 1 .. Len(new.row) : new.row[c] = b
    BY <1>3, <2>3
  <2> QED BY <2>1, <2>4, <2>5
<1>15. LastRow' \in 1 .. Len(lines') /\ \A m \in 1 .. Len(lines') : ~(m > LastRow')
  BY <1>0, <1>4, <1>5
<1> DEFINE r == LastRow'
<1> HIDE DEF r
<1>16. skipping' # TRUE BY <1>1
<1>17. /\ data' \in Seq(Bytes) /\ prev_row_same_char' \in BOOLEAN /\ skipping' \in BOOLEAN
  BY <1>0, <1>1
<1> QED
  BY <1>1, <1>4, <1>7, <1>8, <1>12, <1>13, <1>14, <1>15, <1>16, <1>17 DEF StarsInv

(* A byte of a row that has begun. *)
LEMMA NextByteStep ==
  ASSUME StarsInv, part = "dump_bitmap", part' = part, Stars!print_byte, column # 0
  PROVE  StarsInv'
<1> DEFINE n == Len(lines)
           b == data[i + 1]
           last == lines[n]
           new == [last EXCEPT !.row = Append(last.row, b)]
<1>0. /\ data \in Seq(Bytes) /\ i \in 0 .. Len(data) /\ Len(data) \in Nat
      /\ ROW \in Nat \ {0} /\ lines \in Seq(StarLines) /\ n \in Nat
      /\ column \in 0 .. ROW - 1
  BY StandAloneAssumption DEF StarsInv, Stars!DumpBitmapAssumption
<1>1. /\ i < Len(data) /\ i' = i + 1 /\ data' = data /\ column' = (column + 1) % ROW
      /\ prev_row_same_char' = (prev_row_same_char /\ b = prev_row_char)
      /\ prev_row_char' = prev_row_char /\ skipping' = skipping
      /\ lines' = [lines EXCEPT ![n].row = Append(@, b)]
  BY DEF Stars!print_byte, Stars!size, Stars!still_same
<1>2. skipping = FALSE /\ i > 0
  <2>1. skipping # TRUE /\ i # 0 /\ skipping \in BOOLEAN BY DEF StarsInv
  <2>2. skipping = FALSE BY <2>1, Zenon
  <2>3. i > 0 BY <1>0, <2>1
  <2> QED BY <2>2, <2>3
<1>3. LastRow = n BY <1>2 DEF LastRow
<1>4. /\ n \in 1 .. n /\ last.at \in Nat /\ last.at + Len(last.row) = i
      /\ Len(last.row) = column
      /\ prev_row_same_char = TRUE =>
           \A c \in 1 .. Len(last.row) : last.row[c] = prev_row_char
  BY <1>2, <1>3 DEF StarsInv
<1>5. b \in Bytes /\ last \in StarLines /\ last.row \in Seq(Bytes)
  <2>1. b \in Bytes BY <1>0, <1>1
  <2>2. last \in StarLines BY <1>0, <1>4
  <2> HIDE DEF last
  <2> QED BY <2>1, <2>2 DEF StarLines
<1>6. /\ new \in StarLines /\ new.at = last.at /\ Len(new.row) = column + 1
      /\ \A c \in 1 .. column : new.row[c] = last.row[c]
      /\ new.row[column + 1] = b
  <2> DEFINE rw == Append(last.row, b)
  <2>1. /\ rw \in Seq(Bytes) /\ Len(rw) = column + 1
        /\ \A c \in 1 .. column : rw[c] = last.row[c]
        /\ rw[column + 1] = b
    BY <1>4, <1>5, AppendProperties
  <2>2. new = [last EXCEPT !.row = rw] OBVIOUS
  <2> HIDE DEF rw, b, last, new
  <2>3. new \in StarLines /\ new.at = last.at /\ new.row = rw
    BY <1>5, <2>1, <2>2 DEF StarLines
  <2> QED BY <2>1, <2>3
<1>7. /\ lines' \in Seq(StarLines) /\ Len(lines') = n
      /\ \A l \in 1 .. n : l # n => lines'[l] = lines[l]
      /\ lines'[n] = new
  <2>1. lines' = [lines EXCEPT ![n] = new] BY <1>1
  <2> HIDE DEF new
  <2> QED BY <1>0, <1>4, <1>6, <2>1
<1> HIDE DEF new
<1>8. \A l \in 1 .. n : lines'[l].at = lines[l].at BY <1>6, <1>7
<1> HIDE DEF b
<1>9. LastRow' = n BY <1>1, <1>2, <1>7 DEF LastRow
<1>10. column' \in 0 .. ROW - 1 /\ column + 1 = IF column' = 0 THEN ROW ELSE column'
  <2>1. CASE column + 1 = ROW
    <3>1. 0 % ROW = 0 BY <1>0, SmallRemainder
    <3>2. (0 + ROW) % ROW = 0 BY <1>0, <3>1, NextMultiple
    <3>3. 0 + ROW = column + 1 BY <1>0, <2>1
    <3>4. column' = 0 BY <1>1, <3>2, <3>3
    <3> QED BY <1>0, <2>1, <3>4
  <2>2. CASE column + 1 # ROW
    <3>1. column + 1 \in 0 .. ROW - 1 BY <1>0, <2>2
    <3>2. column' = column + 1 BY <1>0, <1>1, <3>1, SmallRemainder
    <3> QED BY <1>0, <3>1, <3>2
  <2> QED BY <2>1, <2>2
<1>11. \A l \in 1 .. Len(lines') : lines'[l].at = -1 \/ lines'[l].at \in 0 .. i' - 1
  <2> TAKE l \in 1 .. Len(lines')
  <2>1. lines[l].at = -1 \/ lines[l].at \in 0 .. i - 1 BY <1>7 DEF StarsInv
  <2>2. i \in Nat /\ i' = i + 1 BY <1>0, <1>1
  <2>3. lines'[l].at = lines[l].at BY <1>7, <1>8
  <2> QED BY <2>1, <2>2, <2>3
<1>12. ASSUME NEW k \in 0 .. i - 1 PROVE \E l \in 1 .. Len(lines') : Back(data, lines', l, k)
  <2>1. PICK l \in 1 .. n : Back(data, lines, l, k) BY DEF StarsInv
  <2>2. \A m \in 1 .. Len(lines') : lines'[m].at \in 0 .. k => m <= l
    BY <1>7, <1>8, <2>1 DEF Back
  <2>3. lines'[l].at \in 0 .. k BY <1>8, <2>1 DEF Back
  <2>4. CASE l # n
    <3>1. lines'[l] = lines[l] BY <1>7, <2>4
    <3> QED BY <1>7, <2>1, <2>2, <3>1 DEF Back
  <2>5. CASE l = n
    <3> DEFINE c == k - last.at + 1
    <3>1. /\ last.at \in 0 .. k /\ k - last.at < Len(last.row)
          /\ last.row[c] = data[k + 1]
      <4>1. last.at + Len(last.row) = i /\ last.at \in Nat /\ Len(last.row) \in Nat
        BY <1>0, <1>4
      <4>2. k - last.at < Len(last.row) BY <4>1
      <4>3. lines[l] = last BY <2>5
      <4> HIDE DEF last
      <4> QED BY <2>1, <4>2, <4>3 DEF Back
    <3>2. c \in 1 .. column /\ k - last.at < column + 1
      <4>1. last.at \in Nat /\ column \in Nat /\ Len(last.row) = column BY <1>0, <1>4
      <4>2. k \in Nat /\ last.at <= k /\ k - last.at < column BY <3>1, <4>1
      <4> DEFINE t == last.at
      <4>3. t \in Nat /\ t <= k /\ k - t < column BY <4>1, <4>2
      <4> HIDE DEF t
      <4>4. k - t + 1 \in 1 .. column /\ k - t < column + 1 BY <4>1, <4>2, <4>3
      <4> QED BY <4>4 DEF t
    <3>3. new.row[c] = data[k + 1] BY <1>6, <3>1, <3>2
    <3>4. /\ lines'[l].row[k - lines'[l].at + 1] = data[k + 1]
          /\ k - lines'[l].at < Len(lines'[l].row)
      BY <1>6, <1>7, <2>5, <3>2, <3>3
    <3> QED BY <1>7, <2>2, <2>3, <3>4 DEF Back
  <2> QED BY <2>4, <2>5
<1>13. Back(data, lines', n, i) /\ n \in 1 .. Len(lines')
  <2>1. /\ last.at \in 0 .. i /\ i - last.at = column /\ column < column + 1
    BY <1>0, <1>4
  <2>2. \A m \in 1 .. Len(lines') : m <= n BY <1>0, <1>7
  <2>3. new.row[column + 1] = data[i + 1] BY <1>6 DEF b
  <2>4. /\ lines'[n].at \in 0 .. i /\ i - lines'[n].at < Len(lines'[n].row)
        /\ lines'[n].row[i - lines'[n].at + 1] = data[i + 1]
    BY <1>6, <1>7, <2>1, <2>3
  <2> QED BY <1>4, <1>7, <2>2, <2>4 DEF Back
<1>14. \A k \in 0 .. i' - 1 : \E l \in 1 .. Len(lines') : Back(data, lines', l, k)
  <2> TAKE k \in 0 .. i' - 1
  <2>1. k \in 0 .. i - 1 \/ k = i BY <1>0, <1>1
  <2> QED BY <1>12, <1>13, <2>1
<1>15. (\A k \in 0 .. i - 1 : \E l \in 1 .. Len(lines) : Back(data, lines, l, k))'
  BY <1>1, <1>14
<1>16. i' \in 0 .. Len(data') /\ i' # 0
  <2>1. i < Len(data) /\ i' = i + 1 /\ data' = data BY <1>1
  <2> QED BY <1>0, <2>1
<1>17. prev_row_same_char' = TRUE => \A c \in 1 .. Len(new.row) : new.row[c] = prev_row_char'
  <2> SUFFICES ASSUME prev_row_same_char' = TRUE, NEW c \in 1 .. Len(new.row)
               PROVE  new.row[c] = prev_row_char
    BY <1>1
  <2>0. prev_row_same_char \in BOOLEAN BY DEF StarsInv
  <2>1. prev_row_same_char = TRUE /\ b = prev_row_char BY <1>1, <2>0, Zenon
  <2>2. c \in 1 .. column \/ c = column + 1 BY <1>0, <1>6
  <2> QED BY <1>4, <1>6, <2>1, <2>2
<1>18. /\ lines'[LastRow'] = new /\ new.at \in Nat /\ new.at + Len(new.row) = i'
       /\ new.at + Len(new.row) <= i' /\ Len(new.row) = column + 1
  <2> DEFINE a == last.at
             w == Len(last.row)
  <2>1. a \in Nat /\ w = column /\ a + w = i BY <1>4
  <2>2. new.at = a /\ Len(new.row) = column + 1 BY <1>6
  <2> HIDE DEF a, w, last
  <2>3. a + (column + 1) = i + 1 /\ a + (column + 1) <= i + 1 BY <1>0, <2>1
  <2> QED BY <1>1, <1>7, <1>9, <2>1, <2>2, <2>3
<1>19. LastRow' \in 1 .. Len(lines') /\ \A m \in 1 .. Len(lines') : ~(m > LastRow')
  BY <1>0, <1>4, <1>7, <1>9
<1>20. /\ data' \in Seq(Bytes) /\ prev_row_same_char' \in BOOLEAN /\ skipping' \in BOOLEAN
  <2>1. (prev_row_same_char /\ b = prev_row_char) \in BOOLEAN OBVIOUS
  <2>2. prev_row_same_char' \in BOOLEAN BY <1>1, <2>1, Zenon
  <2> QED BY <1>0, <1>1, <1>2, <2>2
<1>21. skipping' # TRUE BY <1>1, <1>2
<1> QED
  BY <1>7, <1>10, <1>11, <1>15, <1>16, <1>17, <1>18, <1>19, <1>20, <1>21 DEF StarsInv

(* The last line at or below a byte is the only one there is. *)
LEMMA ReadAt ==
  ASSUME lines \in Seq(StarLines), NEW k \in Nat,
         NEW l \in 1 .. Len(lines), Back(data, lines, l, k)
  PROVE  Stars!RowBefore(k) = lines[l]
<1> DEFINE S == Stars!PrintedBelow(k)
           P(m) == m \in S /\ \A x \in S : x <= m
           c == CHOOSE m \in S : \A x \in S : x <= m
<1>1. DOMAIN lines = 1 .. Len(lines) /\ Len(lines) \in Nat OBVIOUS
<1>2. l \in S /\ \A m \in S : m <= l
  BY <1>1 DEF Back, Stars!PrintedBelow
<1>3. S \subseteq Int BY <1>1 DEF Stars!PrintedBelow
<1>4. Stars!RowBefore(k) = lines[c] BY DEF Stars!RowBefore
<1> HIDE DEF S
<1>5. c \in S /\ \A x \in S : x <= c BY <1>2
<1> HIDE DEF c
<1>6. c <= l /\ l <= c /\ c \in Int /\ l \in Int BY <1>2, <1>3, <1>5
<1>7. c = l BY <1>6
<1> QED BY <1>4, <1>7

(* The dump of a bitmap can be read back byte by byte, whatever it holds   *)
(* and however much of it is printed, and shows where the bitmap ends.     *)
THEOREM StarsReadBack == AloneSpec => []StarsTold
<1>1. StarsInv /\ [AloneNext]_alone_vars => StarsInv'
  <2> SUFFICES ASSUME StarsInv, [AloneNext]_alone_vars PROVE StarsInv'
    OBVIOUS
  <2>0. part' = part BY DEF AloneNext, alone_vars
  <2>1. CASE part = "dump_bitmap" /\ AloneNext
    <3>1. Stars!Next BY <2>1 DEF AloneNext
    <3> QED BY <2>0, <2>1, <3>1, SkipStep, FirstByteStep, NextByteStep DEF Stars!Next
  <2>2. CASE part # "dump_bitmap" BY <2>0, <2>2 DEF StarsInv
  <2>3. CASE UNCHANGED alone_vars
    BY <2>0, <2>3 DEF StarsInv, alone_vars, dump_bitmap, LastRow
  <2> QED BY <2>1, <2>2, <2>3
<1>2. StarsInv => StarsTold
  <2> SUFFICES ASSUME StarsInv, part = "dump_bitmap" PROVE Stars!ReadsBack /\ Stars!EndShown
    BY DEF StarsTold
  <2>0. lines \in Seq(StarLines) /\ i \in Nat /\ Len(data) \in Nat BY DEF StarsInv
  <2>1. Stars!ReadsBack
    <3> SUFFICES ASSUME NEW k \in 0 .. i - 1
                 PROVE  LET line == Stars!RowBefore(k)
                        IN  IF k - line.at < Len(line.row)
                              THEN line.row[k - line.at + 1] = data[k + 1]
                            ELSE /\ Len(line.row) = ROW
                                 /\ \A c \in 1 .. ROW : line.row[c] = data[k + 1]
      BY DEF Stars!ReadsBack
    <3>1. PICK l \in 1 .. Len(lines) : Back(data, lines, l, k) BY DEF StarsInv
    <3>2. Stars!RowBefore(k) = lines[l] BY <2>0, <3>1, ReadAt
    <3> QED BY <3>1, <3>2 DEF Back
  <2>2. Stars!EndShown
    <3> SUFFICES ASSUME i = Len(data), Len(data) > 0
                 PROVE  /\ lines[Len(lines)].at >= 0
                        /\ lines[Len(lines)].at + Len(lines[Len(lines)].row) = Len(data)
      BY DEF Stars!EndShown, Stars!size
    <3>0. /\ skipping = TRUE => i < Len(data)
          /\ skipping \in BOOLEAN
      BY DEF StarsInv
    <3>1. ~(i < Len(data)) BY <2>0
    <3>2. skipping = FALSE BY <3>0, <3>1, Zenon
    <3>3. LastRow = Len(lines) BY <3>2 DEF LastRow
    <3>4. lines[LastRow].at \in Nat /\ lines[LastRow].at + Len(lines[LastRow].row) = i
      BY <3>2 DEF StarsInv
    <3> QED BY <3>3, <3>4
  <2> QED BY <2>1, <2>2
<1> QED BY <1>1, <1>2, StarsInitTold, PTL DEF AloneSpec
=============================================================================
