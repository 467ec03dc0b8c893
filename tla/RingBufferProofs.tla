-------------------------- MODULE RingBufferProofs --------------------------
(* The ring buffer, for every size of page, buffer and request: head and   *)
(* tail stay inside it, it is a queue of bytes to a careful client, and a  *)
(* shrink gives back all that the bytes do not need.                       *)
EXTENDS RingBuffer, SequenceTheorems, TLAPS

(* What the inductive step needs to know of the fields. *)
BoundsInv ==
  /\ size \in Nat \ {0}
  /\ head \in Nat /\ tail \in Nat
  /\ InBounds

(* Masking rounds a number down and stays in the naturals. *)
LEMMA PageFloor ==
  ASSUME NEW n \in Nat
  PROVE  page_floor(n) \in 0 .. n
<1>1. PageSize \in Nat \ {0}
  BY SizesAssumption DEF SizesAssumption
<1>2. n % PageSize \in 0 .. PageSize - 1
  BY <1>1
<1>3. n % PageSize <= n
  BY <1>1
<1> QED
  BY <1>1, <1>2, <1>3 DEF page_floor

(* A buffer is never asked to have no bytes, although sizes wrap. *)
LEMMA PositiveSize ==
  ASSUME NEW n \in Sizes
  PROVE  page_size_for(n) \in Nat \ {0}
<1>1. PageSize \in Nat \ {0} /\ UNSIGNED \in Nat \ {0} /\ n \in Nat
  BY SizesAssumption DEF SizesAssumption
<1>2. (n + PageSize - 1) % UNSIGNED \in Nat
  BY <1>1
<1>3. align_unsigned(n) \in Nat
  BY <1>2, PageFloor DEF align_unsigned
<1> QED
  BY <1>1, <1>3 DEF page_size_for

LEMMA WriteLengths ==
  ASSUME NEW s \in Writes
  PROVE  Len(s) \in Nat
<1>1. s \in Seq(Byte)
  BY SizesAssumption DEF SizesAssumption
<1> QED
  BY <1>1

(* Growing moves head and the end of the buffer by the same distance. *)
LEMMA GrowStep ==
  ASSUME BoundsInv, NEW n \in Sizes, Grow(n)
  PROVE  BoundsInv'
<1>1. page_size_for(n) \in Nat \ {0}
  BY PositiveSize
<1>2. data # nullptr /\ head < size /\ tail < size
  BY DEF Grow, Usable
<1>3. /\ size' = page_size_for(n) /\ page_size_for(n) > size
      /\ head' = IF Wrapped THEN head + (page_size_for(n) - size) ELSE head
      /\ tail' = tail
  BY DEF Grow
<1>4. head' \in Nat /\ head' < size'
  BY <1>1, <1>2, <1>3 DEF BoundsInv
<1> QED
  BY <1>1, <1>2, <1>3, <1>4 DEF BoundsInv, InBounds

(* Shrinking leaves more bytes than the contents, which are at one end or *)
(* at both.                                                               *)
LEMMA ShrinkStep ==
  ASSUME BoundsInv, NEW n \in Sizes, Shrink(n)
  PROVE  BoundsInv'
<1> DEFINE spare == shrinkable_bytes
           free == IF Wrapped THEN head - tail - 1 ELSE head + size - tail - 1
<1>1. page_size_for(n) \in Nat \ {0}
  BY PositiveSize
<1>2. data # nullptr /\ head < size /\ tail < size
  BY DEF Shrink, Usable
<1>3. free \in Nat
  BY <1>2 DEF BoundsInv, Wrapped
<1>4. spare \in 0 .. free
  BY <1>3, PageFloor DEF shrinkable_bytes
<1>5. /\ size' = IF page_size_for(n) < size - spare
                   THEN size - spare ELSE page_size_for(n)
      /\ IF Wrapped THEN head' = head - spare /\ tail' = tail
                    ELSE head' = 0 /\ tail' = tail - head
  BY DEF Shrink
<1> HIDE DEF spare
<1>6. size' \in Nat \ {0} /\ size' >= size - spare
  BY <1>1, <1>2, <1>3, <1>4, <1>5 DEF BoundsInv, Wrapped
<1>7. CASE Wrapped
  BY <1>2, <1>4, <1>5, <1>6, <1>7 DEF BoundsInv, InBounds, Wrapped
<1>8. CASE ~Wrapped
  BY <1>2, <1>4, <1>5, <1>6, <1>8 DEF BoundsInv, InBounds, Wrapped
<1> QED
  BY <1>7, <1>8

(* A write that fits wraps the tail exactly when it reaches the end. *)
LEMMA WriteStep ==
  ASSUME BoundsInv, NEW s \in Writes, Write(s)
  PROVE  BoundsInv'
<1>1. Len(s) \in Nat
  BY WriteLengths
<1>2. data # nullptr /\ head < size /\ tail < size
  BY DEF Write, Usable
<1>3. /\ Len(s) < bytes_avail
      /\ tail' = IF Len(s) >= tail_len THEN Len(s) - tail_len ELSE tail + Len(s)
      /\ size' = size /\ head' = head
  BY DEF Write, fits, tail_wraps
<1>4. tail' \in Nat /\ tail' < size
  BY <1>1, <1>2, <1>3 DEF BoundsInv, bytes_avail, tail_len, Wrapped
<1> QED
  BY <1>2, <1>3, <1>4 DEF BoundsInv, InBounds

(* A read that does not wrap moves head to the tail at most. *)
LEMMA ReadStep ==
  ASSUME BoundsInv, NEW n \in Counts, ReadStraight(n)
  PROVE  BoundsInv'
<1>1. n \in Nat
  BY SizesAssumption DEF SizesAssumption
<1>2. head < size /\ tail < size /\ ~Wrapped
  BY DEF ReadStraight, Usable
<1>3. /\ head' = head + (IF tail - head < n THEN tail - head ELSE n)
      /\ size' = size /\ tail' = tail
  BY DEF ReadStraight, Smaller
<1>4. head' \in Nat /\ head' <= tail
  BY <1>1, <1>2, <1>3 DEF BoundsInv, Wrapped
<1> QED
  BY <1>2, <1>3, <1>4 DEF BoundsInv, InBounds

(* Empty buffers may be reset when there is nothing to give back. *)
LEMMA ShrinkReturnsStep ==
  ASSUME BoundsInv, NEW n \in Sizes, ShrinkReturns(n)
  PROVE  BoundsInv'
<1>1. head < size /\ tail < size /\ size' = size
  BY DEF ShrinkReturns, Usable
<1>2. (head' = 0 /\ tail' = 0) \/ (head' = head /\ tail' = tail)
  BY DEF ShrinkReturns
<1> QED
  BY <1>1, <1>2 DEF BoundsInv, InBounds

LEMMA CreateStep ==
  ASSUME BoundsInv, NEW n \in Sizes, create_ringbuffer(n)
  PROVE  BoundsInv'
<1>1. size' \in Nat \ {0}
  BY PositiveSize DEF create_ringbuffer, init_ringbuffer, bounds, BoundsInv
<1>2. (head' = 0 /\ tail' = 0)
      \/ (data' = nullptr /\ head' = head /\ tail' = tail)
  BY DEF create_ringbuffer, init_ringbuffer, bounds
<1> QED
  BY <1>1, <1>2 DEF BoundsInv, InBounds

(* Calls that are refused, or end the program, move nothing. *)
LEMMA FrameStep ==
  ASSUME BoundsInv, UNCHANGED <<bounds, careful>>, data' = data \/ data' = nullptr
  PROVE  BoundsInv'
BY DEF BoundsInv, InBounds, bounds

(* A read of a wrapped buffer leaves the client's care behind, and numbers. *)
LEMMA WrappedReadStep ==
  ASSUME BoundsInv, NEW n \in Counts, ReadUpper(n) \/ ReadBoth(n)
  PROVE  BoundsInv'
<1>1. n \in Nat
  BY SizesAssumption DEF SizesAssumption
<1>2. head < size /\ tail < size /\ size' = size /\ tail' = tail /\ careful' = FALSE
  BY DEF ReadUpper, ReadBoth, Usable
<1>3. CASE ReadUpper(n)
  <2>1. head' = IF n = size - tail THEN 0 ELSE head + (size - tail)
    BY <1>3 DEF ReadUpper
  <2> QED
    BY <1>2, <2>1 DEF BoundsInv, InBounds
<1>4. CASE ReadBoth(n)
  <2>1. /\ n > size - tail
        /\ head' = IF tail < n - (size - tail) THEN tail ELSE n - (size - tail)
    BY <1>4 DEF ReadBoth, Smaller
  <2> QED
    BY <1>1, <1>2, <2>1 DEF BoundsInv, InBounds
<1> QED
  BY <1>3, <1>4

LEMMA BoundsStep ==
  ASSUME BoundsInv, [Next]_vars
  PROVE  BoundsInv'
<1>1. CASE UNCHANGED vars
  BY <1>1, FrameStep DEF vars, bounds
<1>2. ASSUME NEW n \in Sizes,
             create_ringbuffer(n) \/ Grow(n) \/ ShrinkReturns(n) \/ Shrink(n)
      PROVE  BoundsInv'
  BY <1>2, CreateStep, GrowStep, ShrinkReturnsStep, ShrinkStep
<1>3. ASSUME NEW n \in Sizes, GrowRefused(n) \/ ShrinkAborts(n)
      PROVE  BoundsInv'
  BY <1>3, FrameStep DEF GrowRefused, ShrinkAborts
<1>4. ASSUME NEW s \in Writes, Write(s) \/ WriteRefused(s)
      PROVE  BoundsInv'
  BY <1>4, WriteStep, FrameStep DEF WriteRefused
<1>5. ASSUME NEW n \in Counts, ReadStraight(n) \/ ReadUpper(n) \/ ReadBoth(n)
      PROVE  BoundsInv'
  BY <1>5, ReadStep, WrappedReadStep
<1>6. CASE delete_ringbuffer
  BY <1>6, FrameStep DEF delete_ringbuffer, fini_ringbuffer
<1> QED
  BY <1>1, <1>2, <1>3, <1>4, <1>5, <1>6 DEF Next

(* A careful client never leaves the buffer: see InBounds. *)
THEOREM StaysInBounds == Spec => []InBounds
<1>1. Init => BoundsInv
  BY SizesAssumption DEF Init, BoundsInv, InBounds, SizesAssumption
<1>2. BoundsInv /\ [Next]_vars => BoundsInv'
  BY BoundsStep
<1>3. BoundsInv => InBounds
  BY DEF BoundsInv
<1> QED
  BY <1>1, <1>2, <1>3, PTL DEF Spec

-----------------------------------------------------------------------------
(* The bytes in the buffer.  They are read off by place, so that what a    *)
(* call does to them is said byte by byte; nothing here is about a state.  *)

Cell == Byte \cup {Junk}

(* A buffer of n bytes. *)
Buf(n) == [0 .. n - 1 -> Cell]

Ring(d, n, h, t) ==
  n \in Nat /\ d \in Buf(n) /\ h \in 0 .. n - 1 /\ t \in 0 .. n - 1

(* The bytes from place i of d. *)
From(d, i, n) ==
  [k \in 1 .. n |-> IF (i + k - 1) \in DOMAIN d THEN d[i + k - 1] ELSE Junk]

(* How many bytes a ring has, and where the k-th is. *)
Used(n, h, t) == IF h > t THEN (n - h) + t ELSE t - h
Place(n, h, k) == IF h + k - 1 < n THEN h + k - 1 ELSE (h + k - 1) - n

(* The contents of a ring, as the code sees them. *)
Queued(d, n, h, t) ==
  IF h > t THEN From(d, h, n - h) \o From(d, 0, t) ELSE From(d, h, t - h)

(* s is m bytes from place i of a buffer of n. *)
IsFrom(s, d, n, i, m) ==
  /\ s \in Seq(Cell) /\ Len(s) = m
  /\ \A k \in 1 .. m : i + k - 1 < n => s[k] = d[i + k - 1]

LEMMA FromIs ==
  ASSUME NEW n \in Nat, NEW d \in Buf(n), NEW i \in Nat, NEW m \in Nat
  PROVE  IsFrom(From(d, i, m), d, n, i, m)
<1> USE DEF Buf, IsFrom
<1>1. Junk \in Cell BY DEF Cell
<1>2. \A k \in 1 .. m :
        (IF (i + k - 1) \in DOMAIN d THEN d[i + k - 1] ELSE Junk) \in Cell
  BY <1>1
<1>3. From(d, i, m) \in [1 .. m -> Cell] BY <1>2 DEF From
<1>4. From(d, i, m) \in Seq(Cell) BY <1>3, SeqDef
<1>5. Len(From(d, i, m)) = m BY <1>3, <1>4, LenProperties
<1>6. \A k \in 1 .. m : i + k - 1 < n => From(d, i, m)[k] = d[i + k - 1] BY DEF From
<1> QED BY <1>4, <1>5, <1>6

(* A ring byte by byte. *)
LEMMA QueuedIs ==
  ASSUME NEW n, NEW d, NEW h, NEW t, Ring(d, n, h, t)
  PROVE  /\ Queued(d, n, h, t) \in Seq(Cell)
         /\ Len(Queued(d, n, h, t)) = Used(n, h, t)
         /\ Used(n, h, t) \in 0 .. n - 1
         /\ \A k \in 1 .. Used(n, h, t) :
              /\ Place(n, h, k) \in 0 .. n - 1
              /\ Queued(d, n, h, t)[k] = d[Place(n, h, k)]
<1>1. n \in Nat /\ d \in Buf(n) /\ h \in 0 .. n - 1 /\ t \in 0 .. n - 1
  BY DEF Ring
<1>2. Used(n, h, t) \in 0 .. n - 1 BY <1>1 DEF Used
<1>3. CASE h > t
  <2> DEFINE up == From(d, h, n - h)
             low == From(d, 0, t)
  <2>1. /\ up \in Seq(Cell) /\ Len(up) = n - h
        /\ \A k \in 1 .. (n - h) : (h + k - 1) < n => up[k] = d[h + k - 1]
    <3>1. n - h \in Nat /\ h \in Nat BY <1>1
    <3>2. IsFrom(up, d, n, h, n - h) BY <1>1, <3>1, FromIs
    <3> QED BY <3>2 DEF IsFrom
  <2>2. /\ low \in Seq(Cell) /\ Len(low) = t
        /\ \A k \in 1 .. t : k - 1 < n => low[k] = d[k - 1]
    <3>1. t \in Nat /\ 0 \in Nat BY <1>1
    <3>2. IsFrom(low, d, n, 0, t) BY <1>1, <3>1, FromIs
    <3>3. \A k \in 1 .. t : 0 + k - 1 = k - 1 BY <3>1
    <3> HIDE DEF low
    <3> QED BY <3>2, <3>3 DEF IsFrom
  <2>3. Queued(d, n, h, t) = up \o low BY <1>3 DEF Queued
  <2> HIDE DEF up, low
  <2>4. /\ up \o low \in Seq(Cell) /\ Len(up \o low) = (n - h) + t
        /\ \A k \in 1 .. ((n - h) + t) :
             (up \o low)[k] = IF k <= n - h THEN up[k] ELSE low[k - (n - h)]
    <3>1. /\ up \o low \in Seq(Cell) /\ Len(up \o low) = Len(up) + Len(low)
          /\ \A k \in 1 .. Len(up) + Len(low) :
               (up \o low)[k] = IF k <= Len(up) THEN up[k] ELSE low[k - Len(up)]
      BY <2>1, <2>2, ConcatProperties, Zenon
    <3> QED BY <2>1, <2>2, <3>1
  <2>5. ASSUME NEW k \in 1 .. ((n - h) + t)
        PROVE  /\ Place(n, h, k) \in 0 .. n - 1
               /\ (up \o low)[k] = d[Place(n, h, k)]
    <3>1. CASE k <= n - h
      <4>1. h + k - 1 < n /\ k \in 1 .. (n - h) BY <1>1, <2>5, <3>1
      <4>2. Place(n, h, k) = h + k - 1 BY <4>1 DEF Place
      <4> QED BY <1>1, <2>1, <2>4, <3>1, <4>1, <4>2
    <3>2. CASE ~(k <= n - h)
      <4>1. ~(h + k - 1 < n) /\ k - (n - h) \in 1 .. t BY <1>1, <2>5, <3>2
      <4>2. Place(n, h, k) = (h + k - 1) - n BY <4>1 DEF Place
      <4>3. (k - (n - h)) - 1 = (h + k - 1) - n BY <1>1, <2>5
      <4>4. (k - (n - h)) - 1 < n BY <1>1, <4>1
      <4>5. low[k - (n - h)] = d[(h + k - 1) - n] BY <2>2, <4>1, <4>3, <4>4
      <4>6. (h + k - 1) - n \in 0 .. n - 1 BY <1>1, <2>5, <3>2
      <4> QED BY <2>4, <3>2, <4>2, <4>5, <4>6
    <3> QED BY <3>1, <3>2
  <2>6. Used(n, h, t) = (n - h) + t BY <1>3 DEF Used
  <2> QED BY <1>2, <2>3, <2>4, <2>5, <2>6
<1>4. CASE ~(h > t)
  <2>1. t - h \in Nat /\ h \in Nat BY <1>1, <1>4
  <2>2. /\ From(d, h, t - h) \in Seq(Cell) /\ Len(From(d, h, t - h)) = t - h
        /\ \A k \in 1 .. (t - h) : h + k - 1 < n => From(d, h, t - h)[k] = d[h + k - 1]
    <3>1. IsFrom(From(d, h, t - h), d, n, h, t - h) BY <1>1, <2>1, FromIs
    <3> QED BY <3>1 DEF IsFrom
  <2>3. Queued(d, n, h, t) = From(d, h, t - h) BY <1>4 DEF Queued
  <2>4. \A k \in 1 .. (t - h) : /\ h + k - 1 < n /\ Place(n, h, k) = h + k - 1
                                /\ h + k - 1 \in 0 .. n - 1
    BY <1>1, <1>4 DEF Place
  <2>5. Used(n, h, t) = t - h BY <1>4 DEF Used
  <2> QED BY <1>2, <2>2, <2>3, <2>4, <2>5
<1> QED BY <1>3, <1>4

(* A buffer with room for a byte is not the null pointer. *)
LEMMA NotNull ==
  ASSUME NEW n \in Nat \ {0}, NEW d \in Buf(n)
  PROVE  d # nullptr
<1> USE DEF Buf
<1>1. 0 \in DOMAIN d BY DEF Cell
<1>2. 0 \notin DOMAIN nullptr BY DEF nullptr
<1> QED BY <1>1, <1>2

(* What memcpy and mremap do to memory. *)
IsCopied(c, d, n, i, s) ==
  /\ c \in Buf(n)
  /\ \A k \in 0 .. n - 1 :
       c[k] = IF k >= i /\ k < i + Len(s) THEN s[(k - i) + 1] ELSE d[k]

IsRemapped(e, d, n, m) ==
  /\ e \in Buf(m)
  /\ \A k \in 0 .. m - 1 : k < n => e[k] = d[k]

LEMMA CopiedIs ==
  ASSUME NEW n \in Nat, NEW d \in Buf(n), NEW i \in Nat, NEW s \in Seq(Cell)
  PROVE  IsCopied(copied(d, i, s), d, n, i, s)
<1> USE DEF Buf, IsCopied
<1>1. Len(s) \in Nat /\ s \in [1 .. Len(s) -> Cell] BY LenProperties
<1>2. \A k \in 0 .. n - 1 : k \in i .. i + Len(s) - 1 <=> k >= i /\ k < i + Len(s)
  BY <1>1
<1>3. \A k \in 0 .. n - 1 : k >= i /\ k < i + Len(s) => s[(k - i) + 1] \in Cell
  BY <1>1
<1>4. copied(d, i, s) = [k \in 0 .. n - 1 |->
        IF k >= i /\ k < i + Len(s) THEN s[(k - i) + 1] ELSE d[k]]
  BY <1>2 DEF copied
<1> QED BY <1>3, <1>4

IsCopiedToStart(c, d, n, s) ==
  /\ c \in Buf(n)
  /\ \A k \in 0 .. n - 1 : c[k] = IF k < Len(s) THEN s[k + 1] ELSE d[k]

LEMMA CopiedToStart ==
  ASSUME NEW n \in Nat, NEW d \in Buf(n), NEW s \in Seq(Cell)
  PROVE  IsCopiedToStart(copied(d, 0, s), d, n, s)
<1> USE DEF Buf, IsCopiedToStart
<1>1. Len(s) \in Nat /\ s \in [1 .. Len(s) -> Cell] BY LenProperties
<1>2. \A k \in 0 .. n - 1 : /\ k \in 0 .. 0 + Len(s) - 1 <=> k < Len(s)
                            /\ s[k - 0 + 1] = s[k + 1]
  BY <1>1
<1>3. \A k \in 0 .. n - 1 : k < Len(s) => s[k + 1] \in Cell
  BY <1>1
<1>4. copied(d, 0, s) = [k \in 0 .. n - 1 |-> IF k < Len(s) THEN s[k + 1] ELSE d[k]]
  BY <1>2 DEF copied
<1> QED BY <1>3, <1>4

LEMMA RemappedIs ==
  ASSUME NEW n \in Nat, NEW d \in Buf(n), NEW m \in Nat
  PROVE  IsRemapped(remapped(d, m), d, n, m)
<1> USE DEF Buf, IsRemapped
<1>1. Junk \in Cell BY DEF Cell
<1>2. \A k \in 0 .. m - 1 : k \in DOMAIN d <=> k < n BY DEF Cell
<1>3. remapped(d, m) = [k \in 0 .. m - 1 |-> IF k < n THEN d[k] ELSE Junk]
  BY <1>2 DEF remapped
<1> QED BY <1>1, <1>3

LEMMA FreshMemory ==
  ASSUME NEW m \in Nat
  PROVE  remapped(nullptr, m) \in Buf(m)
<1> USE DEF Buf
<1>1. Junk \in Cell BY DEF Cell
<1>2. DOMAIN nullptr = {} BY DEF nullptr
<1> QED BY <1>1, <1>2 DEF remapped

(* The first w bytes of a ring from place h of d are those from g of e. *)
Alike(d, n, h, w, e, m, g) ==
  \A k \in 1 .. w : e[Place(m, g, k)] = d[Place(n, h, k)]

(* The bytes of s come behind the first w. *)
Behind(n, h, w, e, s) ==
  \A k \in 1 .. Len(s) : e[Place(n, h, w + k)] = s[k]

(* Two rings with the same bytes in the same order have the same contents. *)
LEMMA SameBytes ==
  ASSUME NEW n, NEW d, NEW h, NEW t, Ring(d, n, h, t),
         NEW m, NEW e, NEW g, NEW u, Ring(e, m, g, u),
         Used(m, g, u) = Used(n, h, t),
         Alike(d, n, h, Used(n, h, t), e, m, g)
  PROVE  Queued(e, m, g, u) = Queued(d, n, h, t)
<1> USE DEF Alike
<1> DEFINE p == Queued(d, n, h, t)
           q == Queued(e, m, g, u)
<1>1. /\ p \in Seq(Cell) /\ Len(p) = Used(n, h, t)
      /\ \A k \in 1 .. Used(n, h, t) : p[k] = d[Place(n, h, k)]
  BY QueuedIs
<1>2. /\ q \in Seq(Cell) /\ Len(q) = Used(m, g, u)
      /\ \A k \in 1 .. Used(m, g, u) : q[k] = e[Place(m, g, k)]
  BY QueuedIs
<1> HIDE DEF p, q
<1>3. Len(q) = Len(p) /\ \A k \in 1 .. Len(q) : q[k] = p[k] BY <1>1, <1>2
<1>4. q = p BY <1>1, <1>2, <1>3, SeqEqual
<1> QED BY <1>4 DEF p, q

(* A ring with bytes added behind the others. *)
LEMMA BytesAdded ==
  ASSUME NEW n, NEW d, NEW h, NEW t, Ring(d, n, h, t),
         NEW e, NEW u, Ring(e, n, h, u), NEW s \in Seq(Cell),
         Used(n, h, u) = Used(n, h, t) + Len(s),
         Alike(d, n, h, Used(n, h, t), e, n, h), Behind(n, h, Used(n, h, t), e, s)
  PROVE  Queued(e, n, h, u) = Queued(d, n, h, t) \o s
<1> USE DEF Alike, Behind
<1> DEFINE p == Queued(d, n, h, t)
           q == Queued(e, n, h, u)
           w == Used(n, h, t)
<1>1. /\ p \in Seq(Cell) /\ Len(p) = w /\ w \in Nat
      /\ \A k \in 1 .. w : p[k] = d[Place(n, h, k)]
  BY QueuedIs
<1>2. /\ q \in Seq(Cell) /\ Len(q) = Used(n, h, u)
      /\ \A k \in 1 .. Used(n, h, u) : q[k] = e[Place(n, h, k)]
  BY QueuedIs
<1>3. Len(s) \in Nat BY LenProperties
<1> HIDE DEF p, q, w
<1>4. /\ p \o s \in Seq(Cell) /\ Len(p \o s) = Len(p) + Len(s)
      /\ \A k \in 1 .. Len(p) + Len(s) :
           (p \o s)[k] = IF k <= Len(p) THEN p[k] ELSE s[k - Len(p)]
  BY <1>1, ConcatProperties, Zenon
<1>5. Used(n, h, u) = w + Len(s) BY DEF w
<1>6. Len(q) = Len(p \o s) BY <1>1, <1>2, <1>4, <1>5
<1>7. ASSUME NEW k \in 1 .. Len(q)
      PROVE  q[k] = (p \o s)[k]
  <2>1. k \in 1 .. w + Len(s) /\ q[k] = e[Place(n, h, k)] BY <1>2, <1>5
  <2>2. CASE k <= w
    <3>1. k \in 1 .. w BY <1>1, <2>1, <2>2
    <3>2. e[Place(n, h, k)] = d[Place(n, h, k)] BY <3>1 DEF w
    <3> QED BY <1>1, <1>4, <2>1, <2>2, <3>1, <3>2
  <2>3. CASE ~(k <= w)
    <3> DEFINE j == k - w
    <3>1. j \in 1 .. Len(s) /\ w + j = k BY <1>1, <1>3, <2>1, <2>3
    <3> HIDE DEF j
    <3>2. e[Place(n, h, w + j)] = s[j] BY <3>1 DEF w
    <3>3. q[k] = s[j] BY <2>1, <3>1, <3>2
    <3>4. (p \o s)[k] = s[j] BY <1>1, <1>4, <2>1, <2>3 DEF j
    <3> QED BY <3>3, <3>4
  <2> QED BY <2>2, <2>3
<1>8. q = p \o s BY <1>2, <1>4, <1>6, <1>7, SeqEqual
<1> QED BY <1>8 DEF p, q

(* The buffer grows: if it is wrapped, its upper part moves to the new end. *)
LEMMA GrowingKeeps ==
  ASSUME NEW n, NEW d, NEW h, NEW t, Ring(d, n, h, t), NEW m \in Nat, m > n
  PROVE  /\ h > t =>
              LET e == copied(remapped(d, m), h + (m - n), From(d, h, n - h))
              IN  /\ Ring(e, m, h + (m - n), t)
                  /\ Queued(e, m, h + (m - n), t) = Queued(d, n, h, t)
         /\ ~(h > t) =>
              /\ Ring(remapped(d, m), m, h, t)
              /\ Queued(remapped(d, m), m, h, t) = Queued(d, n, h, t)
<1>1. n \in Nat /\ d \in Buf(n) /\ h \in 0 .. n - 1 /\ t \in 0 .. n - 1
  BY DEF Ring
<1> DEFINE r == remapped(d, m)
<1>2. /\ r \in Buf(m)
      /\ \A k \in 0 .. m - 1 : k < n => r[k] = d[k]
  <2>1. IsRemapped(r, d, n, m) BY <1>1, RemappedIs
  <2> HIDE DEF r
  <2> QED BY <2>1 DEF IsRemapped
<1>3. Used(n, h, t) \in 0 .. n - 1
      /\ \A k \in 1 .. Used(n, h, t) : Place(n, h, k) \in 0 .. n - 1
  BY QueuedIs
<1> HIDE DEF r
<1>4. CASE h > t
  <2> DEFINE g == h + (m - n)
             s == From(d, h, n - h)
             e == copied(r, g, s)
  <2>1. /\ g \in Nat /\ g \in 0 .. m - 1 /\ n - h \in Nat /\ h \in Nat
        /\ t \in 0 .. m - 1 /\ g > t
    BY <1>1, <1>4
  <2>2. /\ s \in Seq(Cell) /\ Len(s) = n - h
        /\ \A k \in 1 .. (n - h) : h + k - 1 < n => s[k] = d[h + k - 1]
    <3>1. n \in Nat /\ d \in Buf(n) /\ h \in Nat /\ n - h \in Nat BY <1>1, <2>1
    <3>2. IsFrom(s, d, n, h, n - h) BY <3>1, FromIs
    <3> HIDE DEF s
    <3> QED BY <3>2 DEF IsFrom
  <2> HIDE DEF s, g
  <2>3. /\ e \in Buf(m)
        /\ \A k \in 0 .. m - 1 :
             e[k] = IF k >= g /\ k < g + Len(s) THEN s[(k - g) + 1] ELSE r[k]
    <3>1. m \in Nat /\ r \in Buf(m) /\ g \in Nat /\ s \in Seq(Cell) BY <1>2, <2>1, <2>2
    <3>2. IsCopied(e, r, m, g, s) BY <3>1, CopiedIs
    <3> HIDE DEF e
    <3> QED BY <3>2 DEF IsCopied
  <2> HIDE DEF e
  <2>4. Ring(e, m, g, t) BY <2>1, <2>3 DEF Ring
  <2>5. Used(m, g, t) = Used(n, h, t) BY <1>1, <1>4, <2>1 DEF Used, g
  <2>6. ASSUME NEW k \in 1 .. Used(n, h, t)
        PROVE  e[Place(m, g, k)] = d[Place(n, h, k)]
    <3>1. k \in 1 .. ((n - h) + t) BY <1>4 DEF Used
    <3>2. CASE k <= n - h
      <4>1. Place(n, h, k) = h + k - 1 /\ h + k - 1 < n /\ k \in 1 .. (n - h)
        BY <1>1, <3>1, <3>2 DEF Place
      <4>2. Place(m, g, k) = g + k - 1 /\ g + k - 1 < m BY <1>1, <3>1, <3>2 DEF Place, g
      <4>3. g + k - 1 \in 0 .. m - 1 /\ g + k - 1 >= g /\ g + k - 1 < g + Len(s)
        BY <2>1, <2>2, <3>1, <3>2, <4>2
      <4>4. ((g + k - 1) - g) + 1 = k BY <2>1, <3>1
      <4> QED BY <2>2, <2>3, <4>1, <4>2, <4>3, <4>4
    <3>3. CASE ~(k <= n - h)
      <4> DEFINE j == (h + k - 1) - n
      <4>1. Place(n, h, k) = j /\ j \in 0 .. t - 1 BY <1>1, <3>1, <3>3 DEF Place
      <4>2. Place(m, g, k) = j BY <1>1, <3>1, <3>3 DEF Place, g
      <4> HIDE DEF j
      <4>3. j \in 0 .. m - 1 /\ j < n /\ j < g BY <1>1, <2>1, <4>1
      <4> QED BY <1>2, <2>1, <2>3, <4>1, <4>2, <4>3
    <3> QED BY <3>2, <3>3, <3>1, <1>1
  <2>7. Queued(e, m, g, t) = Queued(d, n, h, t)
    <3>1. Alike(d, n, h, Used(n, h, t), e, m, g) BY <2>6 DEF Alike
    <3> QED BY <2>4, <2>5, <3>1, SameBytes
  <2> QED BY <1>4, <2>4, <2>7 DEF e, g, s, r
<1>5. CASE ~(h > t)
  <2>1. Ring(r, m, h, t) BY <1>1, <1>2 DEF Ring
  <2>2. Used(m, h, t) = Used(n, h, t) BY <1>5 DEF Used
  <2>3. \A k \in 1 .. Used(n, h, t) : r[Place(m, h, k)] = d[Place(n, h, k)]
    <3>1. \A k \in 1 .. (t - h) : /\ Place(n, h, k) = h + k - 1 /\ Place(m, h, k) = h + k - 1
                                  /\ h + k - 1 < n /\ h + k - 1 \in 0 .. m - 1
      BY <1>1, <1>5 DEF Place
    <3>2. Used(n, h, t) = t - h BY <1>5 DEF Used
    <3> QED BY <1>2, <3>1, <3>2
  <2>4. Queued(r, m, h, t) = Queued(d, n, h, t)
    <3>1. Alike(d, n, h, Used(n, h, t), r, m, h) BY <2>3 DEF Alike
    <3> QED BY <2>1, <2>2, <3>1, SameBytes
  <2> QED BY <1>5, <2>1, <2>4 DEF r
<1> QED BY <1>4, <1>5

(* A wrapped buffer gives up bytes between its parts: the upper part moves *)
(* down by as many, and what mremap keeps reaches to its end.              *)
LEMMA ClosingKeeps ==
  ASSUME NEW n, NEW d, NEW h, NEW t, Ring(d, n, h, t), h > t,
         NEW x \in Nat, h - x > t
  PROVE  LET e == remapped(copied(d, h - x, From(d, h, n - h)), n - x)
         IN  /\ Ring(e, n - x, h - x, t)
             /\ Queued(e, n - x, h - x, t) = Queued(d, n, h, t)
<1> DEFINE g == h - x
           m == n - x
           s == From(d, h, n - h)
           c == copied(d, g, s)
           e == remapped(c, m)
<1>1. n \in Nat /\ d \in Buf(n) /\ h \in 0 .. n - 1 /\ t \in 0 .. n - 1
  BY DEF Ring
<1>2. /\ g \in Nat /\ m \in Nat /\ g \in 0 .. m - 1 /\ t \in 0 .. m - 1 /\ g > t /\ m <= n
      /\ n - h \in Nat /\ h \in Nat /\ g + (n - h) = m
  <2> USE <1>1
  <2> HIDE DEF s, c, e
  <2>1. n \in Int /\ h \in Int /\ t \in Int /\ 0 <= t /\ h <= n - 1 OBVIOUS
  <2> HIDE <1>1
  <2>2. g \in Int /\ m \in Int /\ g > t /\ g <= m - 1 /\ m <= n BY <2>1
  <2>3. n - h \in Nat BY <2>1
  <2>4. h \in Nat BY <1>1
  <2>5. g + (n - h) = m BY <2>1
  <2> HIDE DEF g, m
  <2> QED BY <2>1, <2>2, <2>3, <2>4, <2>5
<1> HIDE DEF g, m
<1>3. /\ s \in Seq(Cell) /\ Len(s) = n - h
      /\ \A k \in 1 .. (n - h) : h + k - 1 < n => s[k] = d[h + k - 1]
  <2>1. n \in Nat /\ d \in Buf(n) /\ h \in Nat /\ n - h \in Nat BY <1>1, <1>2
  <2>2. IsFrom(s, d, n, h, n - h) BY <2>1, FromIs
  <2> HIDE DEF s
  <2> QED BY <2>2 DEF IsFrom
<1> HIDE DEF s
<1>4. /\ c \in Buf(n)
      /\ \A k \in 0 .. n - 1 :
           c[k] = IF k >= g /\ k < g + Len(s) THEN s[(k - g) + 1] ELSE d[k]
  <2>1. n \in Nat /\ d \in Buf(n) /\ g \in Nat /\ s \in Seq(Cell) BY <1>1, <1>2, <1>3
  <2>2. IsCopied(c, d, n, g, s) BY <2>1, CopiedIs
  <2> HIDE DEF c
  <2> QED BY <2>2 DEF IsCopied
<1> HIDE DEF c
<1>5. /\ e \in Buf(m)
      /\ \A k \in 0 .. m - 1 : k < n => e[k] = c[k]
  <2>1. n \in Nat /\ m \in Nat /\ c \in Buf(n) BY <1>1, <1>2, <1>4
  <2>2. IsRemapped(e, c, n, m) BY <2>1, RemappedIs
  <2> HIDE DEF e
  <2> QED BY <2>2 DEF IsRemapped
<1> HIDE DEF e
<1>6. Ring(e, m, g, t) BY <1>2, <1>5 DEF Ring
<1>7. Used(m, g, t) = Used(n, h, t) BY <1>1, <1>2 DEF Used
<1>8. ASSUME NEW k \in 1 .. Used(n, h, t)
      PROVE  e[Place(m, g, k)] = d[Place(n, h, k)]
  <2>1. k \in 1 .. ((n - h) + t) BY DEF Used
  <2>2. CASE k <= n - h
    <3>1. Place(n, h, k) = h + k - 1 /\ h + k - 1 < n /\ k \in 1 .. (n - h)
      BY <1>1, <2>1, <2>2 DEF Place
    <3>2. Place(m, g, k) = g + k - 1 /\ g + k - 1 < m BY <1>1, <1>2, <2>1, <2>2 DEF Place
    <3>3. g + k - 1 \in 0 .. m - 1 /\ g + k - 1 \in 0 .. n - 1
          /\ g + k - 1 >= g /\ g + k - 1 < g + Len(s)
      <4>1. Len(s) = n - h BY <1>3
      <4> QED BY <1>1, <1>2, <2>1, <2>2, <3>2, <4>1
    <3>4. ((g + k - 1) - g) + 1 = k BY <1>2, <2>1
    <3>5. e[g + k - 1] = c[g + k - 1]
      <4> DEFINE j == g + k - 1
      <4>1. j \in 0 .. m - 1 /\ j < n BY <1>1, <3>3
      <4> HIDE DEF j
      <4>2. e[j] = c[j] BY <1>5, <4>1
      <4> QED BY <4>2 DEF j
    <3> QED BY <1>3, <1>4, <3>1, <3>2, <3>3, <3>4, <3>5
  <2>3. CASE ~(k <= n - h)
    <3> DEFINE j == (h + k - 1) - n
    <3>1. Place(n, h, k) = j /\ j \in 0 .. t - 1 BY <1>1, <2>1, <2>3 DEF Place
    <3>2. Place(m, g, k) = j BY <1>1, <1>2, <2>1, <2>3 DEF Place
    <3> HIDE DEF j
    <3>3. j \in 0 .. m - 1 /\ j \in 0 .. n - 1 /\ j < n /\ j < g BY <1>1, <1>2, <3>1
    <3>4. e[j] = c[j] BY <1>5, <3>3
    <3>5. c[j] = d[j] BY <1>2, <1>4, <3>3
    <3> QED BY <3>1, <3>2, <3>4, <3>5
  <2> QED BY <2>2, <2>3, <2>1, <1>1
<1>9. Queued(e, m, g, t) = Queued(d, n, h, t)
  <2>1. Alike(d, n, h, Used(n, h, t), e, m, g) BY <1>8 DEF Alike
  <2> QED BY <1>6, <1>7, <2>1, SameBytes
<1> QED BY <1>6, <1>9 DEF e, m, g, s, c

(* The bytes of another buffer move to its start. *)
LEMMA CompactingKeeps ==
  ASSUME NEW n, NEW d, NEW h, NEW t, Ring(d, n, h, t), ~(h > t),
         NEW m \in Nat, t - h < m
  PROVE  LET e == remapped(copied(d, 0, From(d, h, t - h)), m)
         IN  /\ Ring(e, m, 0, t - h)
             /\ Queued(e, m, 0, t - h) = Queued(d, n, h, t)
<1> DEFINE u == t - h
           s == From(d, h, u)
           c == copied(d, 0, s)
           e == remapped(c, m)
<1>1. n \in Nat /\ d \in Buf(n) /\ h \in 0 .. n - 1 /\ t \in 0 .. n - 1
  BY DEF Ring
<1>2. u \in Nat /\ h \in Nat /\ u \in 0 .. m - 1 /\ 0 \in 0 .. m - 1 /\ u < n /\ h + u = t
  BY <1>1
<1> HIDE DEF u
<1>3. /\ s \in Seq(Cell) /\ Len(s) = u
      /\ \A k \in 1 .. u : h + k - 1 < n => s[k] = d[h + k - 1]
  <2>1. n \in Nat /\ d \in Buf(n) /\ h \in Nat /\ u \in Nat BY <1>1, <1>2
  <2>2. IsFrom(s, d, n, h, u) BY <2>1, FromIs
  <2> HIDE DEF s
  <2> QED BY <2>2 DEF IsFrom
<1> HIDE DEF s
<1>4. /\ c \in Buf(n)
      /\ \A k \in 0 .. n - 1 :
           c[k] = IF k < Len(s) THEN s[k + 1] ELSE d[k]
  <2>1. n \in Nat /\ d \in Buf(n) /\ s \in Seq(Cell) BY <1>1, <1>3
  <2>2. IsCopiedToStart(c, d, n, s) BY <2>1, CopiedToStart
  <2> HIDE DEF c
  <2> QED BY <2>2 DEF IsCopiedToStart
<1> HIDE DEF c
<1>5. /\ e \in Buf(m)
      /\ \A k \in 0 .. m - 1 : k < n => e[k] = c[k]
  <2>1. n \in Nat /\ c \in Buf(n) BY <1>1, <1>4
  <2>2. IsRemapped(e, c, n, m) BY <2>1, RemappedIs
  <2> HIDE DEF e
  <2> QED BY <2>2 DEF IsRemapped
<1> HIDE DEF e
<1>6. Ring(e, m, 0, u) BY <1>2, <1>5 DEF Ring
<1>7. Used(m, 0, u) = u /\ Used(n, h, t) = u BY <1>1, <1>2 DEF Used
<1>8. ASSUME NEW k \in 1 .. u
      PROVE  e[Place(m, 0, k)] = d[Place(n, h, k)]
  <2>1. Place(n, h, k) = h + k - 1 /\ h + k - 1 < n BY <1>1, <1>2 DEF Place
  <2>2. Place(m, 0, k) = k - 1 BY <1>2 DEF Place
  <2>3. k - 1 \in 0 .. m - 1 /\ k - 1 \in 0 .. n - 1 /\ k - 1 < n /\ k - 1 < Len(s)
    BY <1>1, <1>2, <1>3
  <2>4. e[k - 1] = c[k - 1] BY <1>5, <2>3
  <2>5. c[k - 1] = s[k]
    <3>1. c[k - 1] = s[(k - 1) + 1] BY <1>4, <2>3
    <3>2. (k - 1) + 1 = k BY <1>2
    <3> QED BY <3>1, <3>2
  <2>6. s[k] = d[h + k - 1] BY <1>3, <2>1
  <2> QED BY <2>1, <2>2, <2>4, <2>5, <2>6
<1>9. Queued(e, m, 0, u) = Queued(d, n, h, t)
  <2>1. Alike(d, n, h, Used(n, h, t), e, m, 0) BY <1>7, <1>8 DEF Alike
  <2> QED BY <1>6, <1>7, <2>1, SameBytes
<1> QED BY <1>6, <1>9 DEF e, u, s, c

(* A write that does not reach the end of the buffer. *)
Wrote(e, n, h, u, d, t, s) ==
  Ring(e, n, h, u) /\ Queued(e, n, h, u) = Queued(d, n, h, t) \o s

LEMMA WritingBehind ==
  ASSUME NEW n, NEW d, NEW h, NEW t, Ring(d, n, h, t), NEW s \in Seq(Cell),
         h > t => Len(s) < h - t, ~(h > t) => Len(s) < n - t,
         NEW v, v = t + Len(s)
  PROVE  Wrote(copied(d, t, s), n, h, v, d, t, s)
<1> DEFINE e == copied(d, t, s)
           u == t + Len(s)
           w == Used(n, h, t)
<1>1. n \in Nat /\ d \in Buf(n) /\ h \in 0 .. n - 1 /\ t \in 0 .. n - 1
  BY DEF Ring
<1>2. Len(s) \in Nat BY LenProperties
<1>3. t \in Nat /\ u \in 0 .. n - 1 /\ (h > t => h > u) BY <1>1, <1>2
<1>4. /\ e \in Buf(n)
      /\ \A k \in 0 .. n - 1 :
           e[k] = IF k >= t /\ k < t + Len(s) THEN s[(k - t) + 1] ELSE d[k]
  <2>1. n \in Nat /\ d \in Buf(n) /\ t \in Nat BY <1>1, <1>3
  <2>2. IsCopied(e, d, n, t, s) BY <2>1, CopiedIs
  <2> HIDE DEF e
  <2> QED BY <2>2 DEF IsCopied
<1> HIDE DEF e, u
<1>5. Ring(e, n, h, u) BY <1>1, <1>3, <1>4 DEF Ring
<1>6. Used(n, h, u) = w + Len(s) BY <1>1, <1>2, <1>3 DEF Used, u
<1>7. ASSUME NEW k \in 1 .. w
      PROVE  e[Place(n, h, k)] = d[Place(n, h, k)]
  <2> DEFINE j == Place(n, h, k)
  <2>1. j \in 0 .. n - 1 /\ (j < t \/ (h > t /\ j >= h)) BY <1>1 DEF Used, Place
  <2> HIDE DEF j
  <2>2. ~(j >= t /\ j < t + Len(s)) BY <1>1, <1>2, <2>1
  <2>3. e[j] = d[j] BY <1>4, <2>1, <2>2
  <2> QED BY <2>3 DEF j
<1>8. ASSUME NEW k \in 1 .. Len(s)
      PROVE  e[Place(n, h, w + k)] = s[k]
  <2>1. Place(n, h, w + k) = t + k - 1 BY <1>1, <1>2 DEF Used, Place
  <2>2. t + k - 1 \in 0 .. n - 1 /\ t + k - 1 >= t /\ t + k - 1 < t + Len(s)
    BY <1>1, <1>2
  <2>3. ((t + k - 1) - t) + 1 = k BY <1>1, <1>2
  <2> QED BY <1>4, <2>1, <2>2, <2>3
<1>9. Queued(e, n, h, u) = Queued(d, n, h, t) \o s
  <2>1. Alike(d, n, h, Used(n, h, t), e, n, h) BY <1>7 DEF Alike
  <2>2. Behind(n, h, Used(n, h, t), e, s) BY <1>8 DEF Behind
  <2> QED BY <1>5, <1>6, <2>1, <2>2, BytesAdded
<1> QED BY <1>5, <1>9 DEF Wrote, e, u

(* p is m of the bytes of s, from the i-th. *)
IsPart(p, s, i, m) ==
  /\ p \in Seq(Cell) /\ Len(p) = m
  /\ \A k \in 1 .. m : p[k] = s[i + k - 1]

LEMMA PartOf ==
  ASSUME NEW s \in Seq(Cell), NEW i \in Nat \ {0}, NEW j \in Nat, j <= Len(s), i <= j + 1,
         NEW m, m = (j - i) + 1
  PROVE  IsPart(SubSeq(s, i, j), s, i, m)
<1>1. Len(s) \in Nat /\ s \in [1 .. Len(s) -> Cell] BY LenProperties
<1>2. i \in Int /\ j \in Int /\ \A k \in i .. j : s[k] \in Cell BY <1>1
<1>3. /\ SubSeq(s, i, j) \in Seq(Cell)
      /\ Len(SubSeq(s, i, j)) = IF i <= j THEN j - i + 1 ELSE 0
      /\ \A k \in 1 .. j - i + 1 : SubSeq(s, i, j)[k] = s[i + k - 1]
  BY <1>2, SubSeqProperties
<1> QED BY <1>2, <1>3 DEF IsPart

(* A write that reaches the end goes on at the start. *)
LEMMA WritingAround ==
  ASSUME NEW n, NEW d, NEW h, NEW t, Ring(d, n, h, t), NEW s \in Seq(Cell),
         ~(h > t), NEW x, x = n - t, Len(s) >= x, Len(s) < h + x,
         NEW y, y = x + 1, NEW v, v = Len(s) - x
  PROVE  Wrote(copied(copied(d, t, SubSeq(s, 1, x)), 0, SubSeq(s, y, Len(s))), n, h, v, d, t, s)
<1> DEFINE up == SubSeq(s, 1, x)
           low == SubSeq(s, y, Len(s))
           c == copied(d, t, up)
           e == copied(c, 0, low)
           u == Len(s) - x
           w == Used(n, h, t)
<1>1. n \in Nat /\ d \in Buf(n) /\ h \in 0 .. n - 1 /\ t \in 0 .. n - 1
  BY DEF Ring
<1>2. Len(s) \in Nat BY LenProperties
<1>3. /\ x \in Nat /\ x + 1 \in Nat \ {0} /\ x <= Len(s) /\ t \in Nat /\ t + x = n
      /\ u \in 0 .. n - 1 /\ u < h
  BY <1>1, <1>2
<1>4. /\ up \in Seq(Cell) /\ Len(up) = x
      /\ \A k \in 1 .. x : up[k] = s[k]
  <2>1. x = (x - 1) + 1 /\ 1 \in Nat \ {0} /\ 1 <= x + 1 BY <1>3
  <2>2. IsPart(up, s, 1, x) BY <1>2, <1>3, <2>1, PartOf
  <2>3. \A k \in 1 .. x : 1 + k - 1 = k BY <1>3
  <2> HIDE DEF up
  <2> QED BY <2>2, <2>3 DEF IsPart
<1>5. /\ low \in Seq(Cell) /\ Len(low) = u
      /\ \A k \in 1 .. u : low[k] = s[x + k]
  <2>1. /\ y \in Nat \ {0} /\ Len(s) <= Len(s) /\ y <= Len(s) + 1
        /\ u = (Len(s) - y) + 1
    BY <1>1, <1>2, <1>3
  <2>2. \A k \in 1 .. u : y + k - 1 = x + k BY <1>2, <1>3
  <2> HIDE DEF u
  <2>3. IsPart(low, s, y, u) BY <1>2, <2>1, PartOf
  <2> HIDE DEF low
  <2> QED BY <2>2, <2>3 DEF IsPart
<1> HIDE DEF up, low
<1>6. /\ c \in Buf(n)
      /\ \A k \in 0 .. n - 1 :
           c[k] = IF k >= t /\ k < t + Len(up) THEN up[(k - t) + 1] ELSE d[k]
  <2>1. n \in Nat /\ d \in Buf(n) /\ t \in Nat /\ up \in Seq(Cell) BY <1>1, <1>3, <1>4
  <2>2. IsCopied(c, d, n, t, up) BY <2>1, CopiedIs
  <2> HIDE DEF c
  <2> QED BY <2>2 DEF IsCopied
<1> HIDE DEF c
<1>7. /\ e \in Buf(n)
      /\ \A k \in 0 .. n - 1 : e[k] = IF k < Len(low) THEN low[k + 1] ELSE c[k]
  <2>1. n \in Nat /\ c \in Buf(n) /\ low \in Seq(Cell) BY <1>1, <1>5, <1>6
  <2>2. IsCopiedToStart(e, c, n, low) BY <2>1, CopiedToStart
  <2> HIDE DEF e
  <2> QED BY <2>2 DEF IsCopiedToStart
<1> HIDE DEF e, u
<1>8. Ring(e, n, h, u) BY <1>1, <1>3, <1>7 DEF Ring
<1>9. Used(n, h, u) = w + Len(s) BY <1>1, <1>2, <1>3 DEF Used, u
<1>10. ASSUME NEW k \in 1 .. w
       PROVE  e[Place(n, h, k)] = d[Place(n, h, k)]
  <2> DEFINE j == Place(n, h, k)
  <2>1. j \in 0 .. n - 1 /\ j >= h /\ j < t BY <1>1 DEF Used, Place
  <2> HIDE DEF j
  <2>2. ~(j >= t) /\ ~(j < Len(low))
    <3>1. Len(low) = u BY <1>5
    <3> QED BY <1>1, <1>3, <2>1, <3>1
  <2>3. e[j] = c[j] BY <1>7, <2>1, <2>2
  <2>4. c[j] = d[j] BY <1>6, <2>1, <2>2
  <2> QED BY <2>3, <2>4 DEF j
<1>11. ASSUME NEW k \in 1 .. Len(s)
       PROVE  e[Place(n, h, w + k)] = s[k]
  <2>1. CASE k <= x
    <3>1. Place(n, h, w + k) = t + k - 1 /\ t + k - 1 \in 0 .. n - 1
      BY <1>1, <1>2, <2>1 DEF Used, Place
    <3>2. /\ t + k - 1 >= t /\ t + k - 1 < t + Len(up) /\ ~(t + k - 1 < Len(low))
          /\ k \in 1 .. x
      BY <1>1, <1>2, <1>3, <1>4, <1>5, <2>1
    <3>3. ((t + k - 1) - t) + 1 = k BY <1>1
    <3>4. e[t + k - 1] = c[t + k - 1] BY <1>7, <3>1, <3>2
    <3>5. c[t + k - 1] = up[k] BY <1>6, <3>1, <3>2, <3>3
    <3>6. up[k] = s[k] BY <1>4, <3>2
    <3> QED BY <3>1, <3>4, <3>5, <3>6
  <2>2. CASE ~(k <= x)
    <3> DEFINE j == k - x
    <3>1. Place(n, h, w + k) = j - 1
      BY <1>1, <1>2, <2>2 DEF Used, Place
    <3>2. j \in 1 .. u /\ j - 1 \in 0 .. n - 1 /\ j - 1 < Len(low) /\ x + j = k
          /\ (j - 1) + 1 = j
      BY <1>1, <1>2, <1>3, <1>5, <2>2 DEF u
    <3> HIDE DEF j
    <3>3. e[j - 1] = low[j] BY <1>7, <3>2
    <3>4. low[j] = s[k] BY <1>5, <3>2
    <3> QED BY <3>1, <3>3, <3>4
  <2> QED BY <2>1, <2>2
<1>12. Queued(e, n, h, u) = Queued(d, n, h, t) \o s
  <2>1. Alike(d, n, h, Used(n, h, t), e, n, h) BY <1>10 DEF Alike
  <2>2. Behind(n, h, Used(n, h, t), e, s) BY <1>11 DEF Behind
  <2> QED BY <1>8, <1>9, <2>1, <2>2, BytesAdded
<1> QED BY <1>8, <1>12 DEF Wrote, e, c, up, low, u

(* A read of a buffer that is not wrapped takes the first bytes. *)
LEMMA ReadingTakes ==
  ASSUME NEW n, NEW d, NEW h, NEW t, Ring(d, n, h, t), ~(h > t), NEW m \in 0 .. (t - h)
  PROVE  /\ Ring(d, n, h + m, t)
         /\ From(d, h, m) = SubSeq(Queued(d, n, h, t), 1, m)
         /\ Queued(d, n, h + m, t) = SubSeq(Queued(d, n, h, t), m + 1, t - h)
<1> DEFINE q == Queued(d, n, h, t)
           r == Queued(d, n, h + m, t)
           f == From(d, h, m)
           one == SubSeq(q, 1, m)
           two == SubSeq(q, m + 1, t - h)
<1>1. n \in Nat /\ d \in Buf(n) /\ h \in 0 .. n - 1 /\ t \in 0 .. n - 1
  BY DEF Ring
<1>2. /\ m \in Nat /\ m + 1 \in Nat \ {0} /\ h \in Nat /\ t - h \in Nat /\ m <= t - h
      /\ h + m <= t /\ h + m \in 0 .. n - 1
  BY <1>1
<1>3. Ring(d, n, h + m, t) BY <1>1, <1>2 DEF Ring
<1>4. /\ q \in Seq(Cell) /\ Len(q) = t - h
      /\ \A k \in 1 .. (t - h) : q[k] = d[h + k - 1]
  <2>1. Used(n, h, t) = t - h BY DEF Used
  <2>2. \A k \in 1 .. (t - h) : Place(n, h, k) = h + k - 1 BY <1>1, <1>2 DEF Place
  <2> QED BY <2>1, <2>2, QueuedIs
<1>5. /\ r \in Seq(Cell) /\ Len(r) = t - (h + m)
      /\ \A k \in 1 .. (t - (h + m)) : r[k] = d[(h + m) + k - 1]
  <2>1. /\ r \in Seq(Cell) /\ Len(r) = Used(n, h + m, t)
        /\ \A k \in 1 .. Used(n, h + m, t) : r[k] = d[Place(n, h + m, k)]
    BY <1>3, QueuedIs
  <2> HIDE DEF r
  <2>2. Used(n, h + m, t) = t - (h + m) BY <1>1, <1>2 DEF Used
  <2>3. \A k \in 1 .. (t - (h + m)) : Place(n, h + m, k) = (h + m) + k - 1
    BY <1>1, <1>2 DEF Place
  <2> QED BY <2>1, <2>2, <2>3
<1>6. /\ f \in Seq(Cell) /\ Len(f) = m
      /\ \A k \in 1 .. m : h + k - 1 < n => f[k] = d[h + k - 1]
  <2>1. n \in Nat /\ d \in Buf(n) /\ h \in Nat /\ m \in Nat BY <1>1, <1>2
  <2>2. IsFrom(f, d, n, h, m) BY <2>1, FromIs
  <2> HIDE DEF f
  <2> QED BY <2>2 DEF IsFrom
<1> HIDE DEF q, r, f
<1>7. /\ one \in Seq(Cell) /\ Len(one) = m
      /\ \A k \in 1 .. m : one[k] = q[k]
  <2>1. 1 \in Nat \ {0} /\ m <= Len(q) /\ 1 <= m + 1 /\ m = (m - 1) + 1 BY <1>2, <1>4
  <2>2. IsPart(one, q, 1, m) BY <1>2, <1>4, <2>1, PartOf
  <2>3. \A k \in 1 .. m : 1 + k - 1 = k BY <1>2
  <2> HIDE DEF one
  <2> QED BY <2>2, <2>3 DEF IsPart
<1>8. /\ two \in Seq(Cell) /\ Len(two) = t - (h + m)
      /\ \A k \in 1 .. (t - (h + m)) : two[k] = q[m + k]
  <2> DEFINE i == m + 1
             j == t - h
             v == t - (h + m)
  <2>1. /\ i \in Nat \ {0} /\ j \in Nat /\ j <= Len(q) /\ i <= j + 1 /\ v = (j - i) + 1
    BY <1>1, <1>2, <1>4
  <2>2. \A k \in 1 .. v : i + k - 1 = m + k BY <1>2
  <2> HIDE DEF i, j, v
  <2>3. IsPart(SubSeq(q, i, j), q, i, v) BY <1>4, <2>1, PartOf
  <2>4. two = SubSeq(q, i, j) BY DEF i, j
  <2> HIDE DEF two
  <2>5. two \in Seq(Cell) /\ Len(two) = v /\ \A k \in 1 .. v : two[k] = q[m + k]
    BY <2>2, <2>3, <2>4 DEF IsPart
  <2> QED BY <2>5 DEF v
<1> HIDE DEF one, two
<1>9. f = one
  <2>1. \A k \in 1 .. m : h + k - 1 < n /\ k \in 1 .. (t - h) BY <1>1, <1>2
  <2>2. Len(f) = Len(one) /\ \A k \in 1 .. Len(f) : f[k] = one[k]
    BY <1>4, <1>6, <1>7, <2>1
  <2> QED BY <1>6, <1>7, <2>2, SeqEqual
<1>10. r = two
  <2>1. ASSUME NEW k \in 1 .. (t - (h + m)) PROVE r[k] = two[k]
    <3>1. (h + m) + k - 1 = h + (m + k) - 1 /\ m + k \in 1 .. (t - h) BY <1>1, <1>2
    <3>2. r[k] = d[(h + m) + k - 1] BY <1>5
    <3>3. two[k] = q[m + k] BY <1>8
    <3>4. q[m + k] = d[h + (m + k) - 1] BY <1>4, <3>1
    <3> QED BY <3>1, <3>2, <3>3, <3>4
  <2>2. Len(r) = Len(two) /\ \A k \in 1 .. Len(r) : r[k] = two[k]
    <3>1. Len(r) = t - (h + m) /\ Len(two) = t - (h + m) BY <1>5, <1>8
    <3> QED BY <2>1, <3>1
  <2> QED BY <1>5, <1>8, <2>2, SeqEqual
<1> QED BY <1>3, <1>9, <1>10 DEF f, r, one, two, q

-----------------------------------------------------------------------------
(* The buffer's own bytes. *)

Shape == data # nullptr => data \in Buf(size)

QueueInv == BoundsInv /\ Shape

LEMMA ContentsNow ==
  /\ data # nullptr => contents = Queued(data, size, head, tail)
  /\ data' # nullptr => contents' = Queued(data', size', head', tail')
  /\ data = nullptr => contents = <<>>
  /\ data' = nullptr => contents' = <<>>
<1>1. data # nullptr => contents = Queued(data, size, head, tail)
  BY DEF contents, Queued, From, bytes_at, peek, Wrapped
<1>2. data' # nullptr => contents' = Queued(data', size', head', tail')
  BY DEF contents, Queued, From, bytes_at, peek, Wrapped
<1>3. /\ data = nullptr => contents = <<>>
      /\ data' = nullptr => contents' = <<>>
  BY DEF contents
<1> QED BY <1>1, <1>2, <1>3

LEMMA RingNow ==
  ASSUME QueueInv, Usable
  PROVE  /\ Ring(data, size, head, tail) /\ data # nullptr
         /\ contents = Queued(data, size, head, tail)
         /\ contents \in Seq(Cell) /\ Len(contents) = Used(size, head, tail)
         /\ Len(contents) \in 0 .. size - 1
<1>1. data # nullptr /\ head < size /\ tail < size BY DEF Usable
<1>2. Ring(data, size, head, tail) BY <1>1 DEF QueueInv, BoundsInv, Shape, Ring
<1>3. contents = Queued(data, size, head, tail) BY <1>1, ContentsNow
<1> QED BY <1>1, <1>2, <1>3, QueuedIs

LEMMA WritesAreSequences ==
  ASSUME NEW s \in Writes
  PROVE  s \in Seq(Cell) /\ Len(s) \in Nat
<1>1. s \in Seq(Byte) BY SizesAssumption DEF SizesAssumption
<1>2. Byte \subseteq Cell BY DEF Cell
<1>3. s \in Seq(Cell) BY <1>1, <1>2, SeqMonotonic
<1> QED BY <1>3, LenProperties

(* A call that leaves a ring with the same bytes. *)
LEMMA RingAfter ==
  ASSUME NEW n \in Nat \ {0}, size' = n, Ring(data', n, head', tail')
  PROVE  /\ Shape' /\ data' # nullptr
         /\ contents' = Queued(data', n, head', tail')
<1>1. data' \in Buf(n) BY DEF Ring
<1>2. data' # nullptr BY <1>1, NotNull
<1> QED BY <1>1, <1>2, ContentsNow DEF Shape

LEMMA GrowQueue ==
  ASSUME QueueInv, NEW n \in Sizes, Grow(n)
  PROVE  Shape' /\ data' # nullptr /\ contents' = contents
<1>1. /\ Ring(data, size, head, tail) /\ contents = Queued(data, size, head, tail)
      /\ size \in Nat
  BY RingNow DEF Grow, QueueInv, BoundsInv
<1> DEFINE m == page_size_for(n)
<1>2. m \in Nat \ {0} BY PositiveSize
<1>3. /\ m > size /\ size' = m /\ tail' = tail
      /\ head > tail =>
           /\ data' = copied(remapped(data, m), head + (m - size), From(data, head, size - head))
           /\ head' = head + (m - size)
      /\ ~(head > tail) => data' = remapped(data, m) /\ head' = head
  BY DEF Grow, Wrapped, bytes_at, peek, From
<1> HIDE DEF m
<1>4. Ring(data', m, head', tail') /\ Queued(data', m, head', tail') = contents
  BY <1>1, <1>2, <1>3, GrowingKeeps
<1> QED BY <1>2, <1>3, <1>4, RingAfter

(* What shrink_ringbuffer finds it can do without. *)
LEMMA SpareIs ==
  ASSUME QueueInv, Usable
  PROVE  /\ shrinkable_bytes \in 0 .. (size - Len(contents)) - 1
         /\ shrinkable_bytes = page_floor((size - Len(contents)) - 1)
<1>1. /\ size \in Nat /\ head \in 0 .. size - 1 /\ tail \in 0 .. size - 1
      /\ Len(contents) = Used(size, head, tail)
  BY RingNow DEF Ring
<1>2. (IF Wrapped THEN head - tail - 1 ELSE head + size - tail - 1)
      = (size - Len(contents)) - 1
  BY <1>1 DEF Used, Wrapped
<1>3. shrinkable_bytes = page_floor((size - Len(contents)) - 1)
  BY <1>2 DEF shrinkable_bytes
<1>4. (size - Len(contents)) - 1 \in Nat BY <1>1 DEF Used
<1> QED BY <1>3, <1>4, PageFloor

LEMMA ShrinkQueue ==
  ASSUME QueueInv, NEW n \in Sizes, Shrink(n)
  PROVE  /\ Shape' /\ data' # nullptr
         /\ size' \in Nat /\ size' > Len(contents)
         /\ careful' => contents' = contents
<1>1. /\ Ring(data, size, head, tail) /\ contents = Queued(data, size, head, tail)
      /\ Usable /\ Len(contents) = Used(size, head, tail) /\ Len(contents) \in 0 .. size - 1
  BY RingNow DEF Shrink
<1>2. /\ size \in Nat /\ data \in Buf(size)
      /\ head \in 0 .. size - 1 /\ tail \in 0 .. size - 1
  BY <1>1 DEF Ring
<1> DEFINE x == shrinkable_bytes
           m == size'
<1>3. x \in 0 .. (size - Len(contents)) - 1 BY <1>1, SpareIs
<1>4. page_size_for(n) \in Nat \ {0} BY PositiveSize
<1>5. /\ m = IF page_size_for(n) < size - x THEN size - x ELSE page_size_for(n)
      /\ head > tail =>
           /\ data' = remapped(copied(data, head - x, From(data, head, size - head)), m)
           /\ head' = head - x /\ tail' = tail
           /\ careful' => m = size - x
      /\ ~(head > tail) =>
           /\ data' = remapped(copied(data, 0, contents), m)
           /\ head' = 0 /\ tail' = tail - head
  BY DEF Shrink, Wrapped, bytes_at, peek, From
<1> HIDE DEF x, m
<1>6. m \in Nat \ {0} /\ m >= size - x /\ m > Len(contents) BY <1>1, <1>2, <1>3, <1>4, <1>5
<1>7. CASE head > tail
  <2>1. head - x > tail /\ x \in Nat /\ head - x \in Nat /\ size - head \in Nat /\ head \in Nat
    BY <1>1, <1>2, <1>3, <1>7 DEF Used
  <2>2. data' \in Buf(m)
    <3>1. From(data, head, size - head) \in Seq(Cell)
      <4>1. IsFrom(From(data, head, size - head), data, size, head, size - head)
        BY <1>2, <2>1, FromIs
      <4> QED BY <4>1 DEF IsFrom
    <3> DEFINE s == From(data, head, size - head)
               c == copied(data, head - x, s)
    <3> HIDE DEF s
    <3>2. s \in Seq(Cell) BY <3>1 DEF s
    <3>3. c \in Buf(size)
      <4>1. IsCopied(c, data, size, head - x, s) BY <1>2, <2>1, <3>2, CopiedIs
      <4> HIDE DEF c
      <4> QED BY <4>1 DEF IsCopied
    <3> HIDE DEF c
    <3>4. m \in Nat BY <1>6
    <3>5. remapped(c, m) \in Buf(m)
      <4>1. IsRemapped(remapped(c, m), c, size, m) BY <1>2, <3>3, <3>4, RemappedIs
      <4> QED BY <4>1 DEF IsRemapped
    <3> QED BY <1>5, <1>7, <3>5 DEF c, s
  <2>3. data' # nullptr BY <1>6, <2>2, NotNull
  <2>4. Shape' BY <2>2 DEF Shape, m
  <2>5. ASSUME careful' PROVE contents' = contents
    <3>1. m = size - x /\ head' = head - x /\ tail' = tail
          /\ data' = remapped(copied(data, head - x, From(data, head, size - head)), size - x)
      BY <1>5, <1>7, <2>5
    <3>2. Queued(data', size - x, head - x, tail) = Queued(data, size, head, tail)
      BY <1>1, <1>7, <2>1, <3>1, ClosingKeeps
    <3> QED BY <1>1, <2>3, <3>1, <3>2, ContentsNow DEF m
  <2> QED BY <1>6, <2>3, <2>4, <2>5 DEF m
<1>8. CASE ~(head > tail)
  <2>1. contents = From(data, head, tail - head) BY <1>1, <1>8 DEF Queued
  <2>2. m \in Nat /\ tail - head < m BY <1>1, <1>6, <1>8 DEF Used
  <2>3. data' = remapped(copied(data, 0, From(data, head, tail - head)), m)
        /\ head' = 0 /\ tail' = tail - head
    BY <1>5, <1>8, <2>1
  <2>4. Ring(data', m, head', tail') /\ Queued(data', m, head', tail') = contents
    BY <1>1, <1>8, <2>2, <2>3, CompactingKeeps
  <2> QED BY <1>6, <2>4, RingAfter DEF m
<1> QED BY <1>7, <1>8

LEMMA WriteQueue ==
  ASSUME QueueInv, NEW s \in Writes, Write(s)
  PROVE  Shape' /\ data' # nullptr /\ contents' = contents \o s
<1>1. /\ Ring(data, size, head, tail) /\ contents = Queued(data, size, head, tail)
  BY RingNow DEF Write
<1>2. /\ size \in Nat \ {0} /\ head \in 0 .. size - 1 /\ tail \in 0 .. size - 1
  BY <1>1 DEF Ring, QueueInv, BoundsInv
<1>3. s \in Seq(Cell) /\ Len(s) \in Nat BY WritesAreSequences
<1>4. /\ Len(s) < bytes_avail /\ size' = size /\ head' = head
      /\ Len(s) >= tail_len =>
           /\ data' = copied(copied(data, tail, SubSeq(s, 1, tail_len)),
                             0, SubSeq(s, tail_len + 1, Len(s)))
           /\ tail' = Len(s) - tail_len
      /\ ~(Len(s) >= tail_len) => data' = copied(data, tail, s) /\ tail' = tail + Len(s)
  BY DEF Write, fits, tail_wraps
<1>5. Ring(data', size, head', tail') /\ Queued(data', size, head', tail') = contents \o s
  <2>1. CASE Len(s) >= tail_len
    <3>1. ~(head > tail) /\ tail_len = size - tail /\ Len(s) < head + (size - tail)
      BY <1>2, <1>3, <1>4, <2>1 DEF bytes_avail, tail_len, Wrapped
    <3> DEFINE x == size - tail
               y == x + 1
               v == Len(s) - x
               e == copied(copied(data, tail, SubSeq(s, 1, x)), 0, SubSeq(s, y, Len(s)))
    <3>2. data' = e /\ tail' = v BY <1>4, <2>1, <3>1
    <3>3. x = size - tail /\ Len(s) >= x /\ Len(s) < head + x /\ y = x + 1 /\ v = Len(s) - x
      BY <2>1, <3>1
    <3> HIDE DEF x, y, v
    <3>4. Wrote(e, size, head, v, data, tail, s) BY <1>1, <1>3, <3>1, <3>3, WritingAround
    <3> HIDE DEF e
    <3> QED BY <1>1, <1>4, <3>2, <3>4 DEF Wrote
  <2>2. CASE ~(Len(s) >= tail_len)
    <3>1. /\ head > tail => Len(s) < head - tail
          /\ ~(head > tail) => Len(s) < size - tail
      BY <1>2, <1>3, <2>2 DEF tail_len, Wrapped
    <3> DEFINE v == tail + Len(s)
               e == copied(data, tail, s)
    <3>2. data' = e /\ tail' = v BY <1>4, <2>2
    <3>3. v = tail + Len(s) OBVIOUS
    <3> HIDE DEF v
    <3>4. Wrote(e, size, head, v, data, tail, s) BY <1>1, <1>3, <3>1, <3>3, WritingBehind
    <3> HIDE DEF e
    <3> QED BY <1>1, <1>4, <3>2, <3>4 DEF Wrote
  <2> QED BY <2>1, <2>2
<1> QED BY <1>2, <1>4, <1>5, RingAfter

(* A read of a buffer that is not wrapped. *)
LEMMA ReadQueue ==
  ASSUME QueueInv, NEW n \in Counts, ReadStraight(n)
  PROVE  LET k == IF n < Len(contents) THEN n ELSE Len(contents)
         IN  /\ call'.bytes = SubSeq(contents, 1, k)
             /\ contents' = SubSeq(contents, k + 1, Len(contents))
<1> DEFINE m == IF tail - head < n THEN tail - head ELSE n
<1>1. /\ Ring(data, size, head, tail) /\ contents = Queued(data, size, head, tail)
      /\ Len(contents) = Used(size, head, tail) /\ data # nullptr
  BY RingNow DEF ReadStraight
<1>2. n \in Nat BY SizesAssumption DEF SizesAssumption
<1>3. /\ ~(head > tail) /\ head' = head + m /\ data' = data /\ size' = size /\ tail' = tail
      /\ call'.bytes = From(data, head, m)
  BY DEF ReadStraight, Wrapped, Smaller, Return, bytes_at, peek, From
<1>4. head \in Nat /\ tail \in Nat BY DEF QueueInv, BoundsInv
<1>5. /\ Len(contents) = tail - head /\ m \in 0 .. (tail - head)
      /\ m = IF n < Len(contents) THEN n ELSE Len(contents)
  BY <1>1, <1>2, <1>3, <1>4 DEF Used
<1> HIDE DEF m
<1>6. /\ From(data, head, m) = SubSeq(contents, 1, m)
      /\ Queued(data, size, head + m, tail) = SubSeq(contents, m + 1, tail - head)
  <2>1. Ring(data, size, head, tail) /\ ~(head > tail) /\ m \in 0 .. (tail - head)
    BY <1>1, <1>3, <1>5
  <2>2. /\ From(data, head, m) = SubSeq(Queued(data, size, head, tail), 1, m)
        /\ Queued(data, size, head + m, tail)
           = SubSeq(Queued(data, size, head, tail), m + 1, tail - head)
    BY <2>1, ReadingTakes
  <2> QED BY <1>1, <2>2, Zenon
<1>7. contents' = Queued(data, size, head + m, tail) BY <1>1, <1>3, ContentsNow
<1> QED BY <1>3, <1>5, <1>6, <1>7

(* A new buffer is empty. *)
LEMMA CreateQueue ==
  ASSUME QueueInv, NEW n \in Sizes, create_ringbuffer(n)
  PROVE  /\ Shape' /\ data = nullptr /\ contents = <<>> /\ contents' = <<>>
         /\ call'.bytes = <<>>
         /\ \/ data' # nullptr /\ call'.ok = TRUE /\ size' \in Nat \ {0}
            \/ data' = nullptr /\ call'.ok = FALSE
<1>1. data = nullptr /\ call'.bytes = <<>>
  BY DEF create_ringbuffer, init_ringbuffer, Return
<1>2. contents = <<>> BY <1>1, ContentsNow
<1>3. CASE /\ data' = remapped(nullptr, size') /\ head' = 0 /\ tail' = 0
           /\ size' = page_size_for(n) /\ call'.ok = TRUE
  <2>1. size' \in Nat \ {0} BY <1>3, PositiveSize
  <2>2. data' \in Buf(size') BY <1>3, <2>1, FreshMemory
  <2>3. data' # nullptr BY <2>1, <2>2, NotNull
  <2>4. Ring(data', size', 0, 0)
    <3>1. \A m \in Nat \ {0} : m - 1 >= 0 /\ 0 \in 0 .. m - 1 OBVIOUS
    <3>2. 0 \in 0 .. size' - 1 /\ size' \in Nat BY <2>1, <3>1, Zenon
    <3> QED BY <2>2, <3>2, Zenon DEF Ring
  <2>5. /\ Queued(data', size', 0, 0) \in Seq(Cell)
        /\ Len(Queued(data', size', 0, 0)) = Used(size', 0, 0)
    BY <2>4, QueuedIs
  <2>6. Used(size', 0, 0) = 0 BY DEF Used
  <2>7. Queued(data', size', 0, 0) = <<>> BY <2>5, <2>6, EmptySeq
  <2>8. contents' = <<>> BY <1>3, <2>3, <2>7, ContentsNow
  <2> QED BY <1>1, <1>2, <1>3, <2>1, <2>2, <2>3, <2>8 DEF Shape
<1>4. CASE data' = data /\ call'.ok = FALSE
  <2>1. data' = nullptr /\ contents' = <<>> BY <1>1, <1>4, ContentsNow
  <2> QED BY <1>1, <1>2, <1>4, <2>1 DEF Shape
<1>5. \/ /\ data' = remapped(nullptr, size') /\ head' = 0 /\ tail' = 0
         /\ size' = page_size_for(n) /\ call'.ok = TRUE
      \/ data' = data /\ call'.ok = FALSE
  BY DEF create_ringbuffer, init_ringbuffer, Return
<1> QED BY <1>3, <1>4, <1>5

(* Calls that leave the bytes and the ends of the queue alone. *)
LEMMA SameQueue ==
  ASSUME UNCHANGED <<data, size, head, tail>>
  PROVE  contents' = contents /\ (Shape => Shape')
BY DEF contents, bytes_at, peek, Wrapped, Shape

LEMMA ShapeStep ==
  ASSUME QueueInv, [Next]_vars
  PROVE  Shape'
<1>1. ASSUME NEW n \in Sizes,
             create_ringbuffer(n) \/ Grow(n) \/ Shrink(n)
      PROVE  Shape'
  BY <1>1, CreateQueue, GrowQueue, ShrinkQueue
<1>2. ASSUME NEW s \in Writes, Write(s) PROVE Shape'
  BY <1>2, WriteQueue
<1>3. ASSUME data' = data, size' = size PROVE Shape'
  BY <1>3 DEF QueueInv, Shape
<1>4. ASSUME NEW n \in Sizes, GrowRefused(n) \/ ShrinkReturns(n) \/ ShrinkAborts(n)
      PROVE  Shape'
  BY <1>3, <1>4 DEF GrowRefused, ShrinkReturns, ShrinkAborts, bounds
<1>5. ASSUME NEW s \in Writes, WriteRefused(s) PROVE Shape'
  BY <1>3, <1>5 DEF WriteRefused, bounds
<1>6. ASSUME NEW n \in Counts, ReadStraight(n) \/ ReadUpper(n) \/ ReadBoth(n)
      PROVE  Shape'
  BY <1>3, <1>6 DEF ReadStraight, ReadUpper, ReadBoth
<1>7. CASE delete_ringbuffer
  BY <1>7 DEF delete_ringbuffer, fini_ringbuffer, Shape
<1>8. CASE UNCHANGED vars
  BY <1>3, <1>8 DEF vars, bounds
<1> QED BY <1>1, <1>2, <1>4, <1>5, <1>6, <1>7, <1>8 DEF Next

LEMMA QueueInvHolds == Spec => []QueueInv
<1>1. Init => QueueInv
  BY SizesAssumption DEF Init, QueueInv, BoundsInv, InBounds, Shape, SizesAssumption
<1>2. QueueInv /\ [Next]_vars => QueueInv'
  BY BoundsStep, ShapeStep DEF QueueInv
<1> QED BY <1>1, <1>2, PTL DEF Spec

-----------------------------------------------------------------------------
(* The steps of the queue. *)

Extent == IF data = nullptr THEN 0 ELSE size

(* What a resize has to show. *)
LEMMA ResizeStep ==
  ASSUME QueueInv, Usable, contents' = contents, data' # nullptr,
         size' \in Nat, size' > Len(contents), call'.bytes = <<>>, call'.ok \in BOOLEAN,
         ~call'.ok => size' = size
  PROVE  Abstract!Resize
<1>1. data # nullptr /\ size > 0 BY RingNow DEF QueueInv, BoundsInv
<1> QED BY <1>1 DEF Abstract!Resize

LEMMA SizeStep ==
  ASSUME QueueInv, NEW n \in Sizes, careful',
         GrowRefused(n) \/ Grow(n) \/ ShrinkReturns(n) \/ Shrink(n) \/ ShrinkAborts(n)
  PROVE  Abstract!Resize
<1>1. /\ Usable /\ call'.bytes = <<>> /\ call'.ok \in BOOLEAN
  <2>1. Usable BY DEF GrowRefused, Grow, ShrinkReturns, Shrink, ShrinkAborts
  <2>2. call'.bytes = <<>>
    <3>1. CASE GrowRefused(n) BY <3>1, Zenon DEF GrowRefused, Return
    <3>2. CASE Grow(n) BY <3>2 DEF Grow, Return
    <3>3. CASE ShrinkReturns(n) BY <3>3 DEF ShrinkReturns, Return
    <3>4. CASE Shrink(n) BY <3>4 DEF Shrink, Return
    <3>5. CASE ShrinkAborts(n) BY <3>5 DEF ShrinkAborts, Return
    <3> QED BY <3>1, <3>2, <3>3, <3>4, <3>5
  <2>3. CASE GrowRefused(n)
    <3>1. call'.ok = (page_size_for(n) <= size) BY <2>3, Zenon DEF GrowRefused, Return
    <3> QED BY <2>1, <2>2, <3>1
  <2>4. CASE Grow(n) \/ ShrinkReturns(n) \/ Shrink(n) \/ ShrinkAborts(n)
    <3>1. call'.ok = TRUE \/ call'.ok = FALSE
      BY <2>4 DEF Grow, ShrinkReturns, Shrink, ShrinkAborts, Return
    <3> QED BY <2>1, <2>2, <3>1
  <2> QED BY <2>3, <2>4
<1>2. /\ data # nullptr /\ size \in Nat /\ Len(contents) \in 0 .. size - 1
  BY <1>1, RingNow DEF QueueInv, BoundsInv
<1>3. CASE GrowRefused(n) \/ ShrinkAborts(n)
  <2>1. UNCHANGED <<data, size, head, tail>> BY <1>3 DEF GrowRefused, ShrinkAborts, bounds
  <2>2. contents' = contents BY <2>1, SameQueue
  <2> QED BY <1>1, <1>2, <2>1, <2>2, ResizeStep
<1>4. CASE Grow(n)
  <2>1. data' # nullptr /\ contents' = contents BY <1>4, GrowQueue
  <2>2. size' > size /\ size' \in Nat /\ call'.ok = TRUE
    BY <1>4, PositiveSize DEF Grow, Return
  <2> QED BY <1>1, <1>2, <2>1, <2>2, ResizeStep
<1>5. CASE Shrink(n)
  <2>1. /\ data' # nullptr /\ contents' = contents /\ size' \in Nat /\ size' > Len(contents)
    BY <1>5, ShrinkQueue
  <2>2. call'.ok = TRUE BY <1>5 DEF Shrink, Return
  <2> QED BY <1>1, <2>1, <2>2, ResizeStep
<1>6. CASE ShrinkReturns(n)
  <2>1. data' = data /\ size' = size /\ call'.ok = TRUE BY <1>6 DEF ShrinkReturns, Return
  <2>2. contents' = contents
    <3>1. CASE UNCHANGED <<head, tail>> BY <2>1, <3>1, SameQueue
    <3>2. CASE head = tail /\ head' = 0 /\ tail' = 0
      <4>1. Len(contents) = 0 /\ contents \in Seq(Cell)
        BY <1>1, <3>2, RingNow DEF Used, QueueInv, BoundsInv
      <4>2. contents = <<>> BY <4>1, EmptySeq
      <4>3. Ring(data', size', 0, 0) BY <1>1, <1>2, <2>1, RingNow DEF Ring
      <4>4. /\ Queued(data', size', 0, 0) \in Seq(Cell)
            /\ Len(Queued(data', size', 0, 0)) = Used(size', 0, 0)
        BY <4>3, QueuedIs
      <4>5. Used(size', 0, 0) = 0 BY DEF Used
      <4>6. Queued(data', size', 0, 0) = <<>> BY <4>4, <4>5, EmptySeq
      <4> QED BY <1>2, <2>1, <3>2, <4>2, <4>6, ContentsNow
    <3> QED BY <1>6, <3>1, <3>2 DEF ShrinkReturns
  <2> QED BY <1>1, <1>2, <2>1, <2>2, ResizeStep
<1> QED BY <1>3, <1>4, <1>5, <1>6

LEMMA PutStep ==
  ASSUME QueueInv, NEW s \in Writes, Write(s) \/ WriteRefused(s)
  PROVE  Abstract!Put(s)
<1>1. Usable BY DEF Write, WriteRefused
<1>2. /\ data # nullptr /\ size \in Nat \ {0} /\ head \in 0 .. size - 1 /\ tail \in 0 .. size - 1
      /\ Len(contents) = Used(size, head, tail)
  BY <1>1, RingNow DEF QueueInv, BoundsInv, Ring
<1>3. Len(s) \in Nat BY WritesAreSequences
<1>4. fits(Len(s)) <=> Len(contents) + Len(s) < size
  BY <1>2, <1>3 DEF fits, bytes_avail, tail_len, Wrapped, Used
<1>5. CASE Write(s)
  <2>1. data' # nullptr /\ contents' = contents \o s BY <1>5, WriteQueue
  <2>2. call'.ok = TRUE /\ call'.bytes = <<>> /\ size' = size /\ fits(Len(s))
    BY <1>5 DEF Write, Return
  <2>3. call'.ok = (Len(contents) + Len(s) < Extent)
    BY <1>2, <1>4, <2>2 DEF Extent
  <2>4. Extent > 0 /\ Extent' = Extent BY <1>2, <2>1, <2>2 DEF Extent
  <2> QED BY <2>1, <2>2, <2>3, <2>4, Zenon DEF Abstract!Put, Extent
<1>6. CASE WriteRefused(s)
  <2>1. /\ UNCHANGED <<data, size, head, tail>> /\ ~fits(Len(s))
        /\ call'.ok = FALSE /\ call'.bytes = <<>>
    BY <1>6 DEF WriteRefused, bounds, Return
  <2>2. contents' = contents BY <2>1, SameQueue
  <2>3. call'.ok = (Len(contents) + Len(s) < Extent)
    <3>1. ~(Len(contents) + Len(s) < Extent) BY <1>2, <1>4, <2>1 DEF Extent
    <3>2. (Len(contents) + Len(s) < Extent) = FALSE BY <3>1
    <3> QED BY <2>1, <3>2, Zenon
  <2>4. Extent > 0 /\ Extent' = Extent BY <1>2, <2>1 DEF Extent
  <2> QED BY <2>1, <2>2, <2>3, <2>4, Zenon DEF Abstract!Put, Extent
<1> QED BY <1>5, <1>6

LEMMA TakeStep ==
  ASSUME QueueInv, NEW n \in Counts, ReadStraight(n)
  PROVE  Abstract!Take(n)
<1>1. data # nullptr /\ size > 0 BY RingNow DEF ReadStraight, QueueInv, BoundsInv
<1>2. data' = data /\ size' = size /\ call'.ok = TRUE BY DEF ReadStraight, Return
<1> QED BY <1>1, <1>2, ReadQueue DEF Abstract!Take

LEMMA QueueStep ==
  ASSUME QueueInv, Next
  PROVE  careful' => Abstract!Next
<1> SUFFICES ASSUME careful' PROVE Abstract!Next
  OBVIOUS
<1>1. ASSUME NEW n \in Sizes, create_ringbuffer(n) PROVE Abstract!Create
  BY <1>1, CreateQueue DEF Abstract!Create
<1>2. ASSUME NEW n \in Sizes,
             GrowRefused(n) \/ Grow(n) \/ ShrinkReturns(n) \/ Shrink(n) \/ ShrinkAborts(n)
      PROVE  Abstract!Resize
  BY <1>2, SizeStep
<1>3. ASSUME NEW s \in Writes, WriteRefused(s) \/ Write(s) PROVE Abstract!Put(s)
  BY <1>3, PutStep
<1>4. ASSUME NEW n \in Counts, ReadStraight(n) \/ ReadUpper(n) \/ ReadBoth(n)
      PROVE  Abstract!Take(n)
  <2>1. ReadStraight(n) BY <1>4 DEF ReadUpper, ReadBoth
  <2> QED BY <2>1, TakeStep
<1>5. CASE delete_ringbuffer
  <2>1. data' = nullptr /\ call'.ok = TRUE /\ call'.bytes = <<>>
    BY <1>5 DEF delete_ringbuffer, fini_ringbuffer, Return
  <2>2. contents' = <<>> BY <2>1, ContentsNow
  <2> QED BY <2>1, <2>2 DEF Abstract!Destroy, Abstract!Next
<1> QED BY <1>1, <1>2, <1>3, <1>4, <1>5 DEF Next, Abstract!Next

(* To a client that avoids the two calls the code gets wrong, the buffer   *)
(* is a queue of bytes: every call is a step of ByteQueue, for buffers,    *)
(* writes and reads of any size.                                           *)
THEOREM KeepsByteQueue == Spec => ImplementsByteQueue
<1>1. Init => Abstract!Init
  <2> SUFFICES ASSUME Init PROVE Abstract!Init
    OBVIOUS
  <2>1. data = nullptr /\ call.ok = TRUE /\ call.bytes = <<>> BY DEF Init
  <2>2. contents = <<>> BY <2>1, ContentsNow
  <2> QED BY <2>1, <2>2 DEF Abstract!Init
<1>2. QueueInv /\ [Next]_vars => [careful' => Abstract!Next]_(Abstract!vars)
  <2> SUFFICES ASSUME QueueInv, [Next]_vars
               PROVE  [careful' => Abstract!Next]_(Abstract!vars)
    OBVIOUS
  <2>1. CASE Next BY <2>1, QueueStep
  <2>2. CASE UNCHANGED vars
    <3>1. UNCHANGED <<data, size, head, tail, call>> BY <2>2 DEF vars
    <3>2. contents' = contents BY <3>1, SameQueue
    <3> QED BY <3>1, <3>2 DEF Abstract!vars
  <2> QED BY <2>1, <2>2
<1> QED BY <1>1, <1>2, QueueInvHolds, PTL DEF Spec, ImplementsByteQueue

-----------------------------------------------------------------------------
(* Pages. *)

(* The buffer is a number of whole pages. *)
Whole == \E m \in Nat : size = PageSize * m

(* Division, for the page sizes the code knows only at run time. *)
LEMMA DivisionIs ==
  ASSUME NEW p \in Nat \ {0}, NEW a \in Nat
  PROVE  /\ a \div p \in Nat /\ a % p \in 0 .. p - 1
         /\ a = p * (a \div p) + (a % p)
BY Z3

LEMMA DivisionUnique ==
  ASSUME NEW p \in Nat \ {0}, NEW q \in Int, NEW v \in Int,
         NEW r \in 0 .. p - 1, NEW w \in 0 .. p - 1, p * q + r = p * v + w
  PROVE  q = v /\ r = w
<1>1. CASE q > v
  <2>1. q >= v + 1 BY <1>1
  <2>2. p * q >= p * (v + 1) BY <2>1, Z3
  <2>3. p * (v + 1) = p * v + p BY Z3
  <2>4. p * q \in Int /\ p * v \in Int OBVIOUS
  <2> QED BY <2>2, <2>3, <2>4
<1>2. CASE q < v
  <2>1. v >= q + 1 BY <1>2
  <2>2. p * v >= p * (q + 1) BY <2>1, Z3
  <2>3. p * (q + 1) = p * q + p BY Z3
  <2>4. p * q \in Int /\ p * v \in Int OBVIOUS
  <2> QED BY <2>2, <2>3, <2>4
<1>3. CASE q = v
  <2>1. p * q \in Int /\ p * v = p * q BY <1>3
  <2> QED BY <1>3, <2>1
<1> QED BY <1>1, <1>2, <1>3

LEMMA FloorIs ==
  ASSUME NEW n \in Nat
  PROVE  /\ n \div PageSize \in Nat
         /\ page_floor(n) = PageSize * (n \div PageSize)
<1>1. PageSize \in Nat \ {0} BY SizesAssumption DEF SizesAssumption
<1>2. /\ n \div PageSize \in Nat /\ n % PageSize \in Nat
      /\ n = PageSize * (n \div PageSize) + (n % PageSize)
  BY <1>1, DivisionIs
<1>3. PageSize * (n \div PageSize) \in Nat BY <1>1, <1>2
<1> QED BY <1>2, <1>3 DEF page_floor

LEMMA PagesAskedFor ==
  ASSUME NEW n \in Sizes
  PROVE  \E m \in Nat : page_size_for(n) = PageSize * m
<1>1. PageSize \in Nat \ {0} /\ UNSIGNED \in Nat \ {0} /\ n \in Nat
  BY SizesAssumption DEF SizesAssumption
<1> DEFINE a == (n + PageSize - 1) % UNSIGNED
<1>2. a \in Nat BY <1>1
<1> HIDE DEF a
<1>3. a \div PageSize \in Nat /\ page_floor(a) = PageSize * (a \div PageSize)
  BY <1>2, FloorIs
<1>4. align_unsigned(n) = page_floor(a) BY DEF align_unsigned, a
<1>5. PageSize = PageSize * 1 BY <1>1
<1>6. page_size_for(n) = PageSize \/ page_size_for(n) = page_floor(a)
  BY <1>4 DEF page_size_for
<1> QED BY <1>3, <1>5, <1>6

(* A buffer of whole pages can spare all of them but those that its bytes, *)
(* and one more, take.                                                     *)
LEMMA NeededPages ==
  ASSUME Whole, NEW b \in Nat, b < size
  PROVE  /\ size - page_floor((size - b) - 1) = PageSize * ((b + PageSize) \div PageSize)
         /\ \E m \in Nat : size - page_floor((size - b) - 1) = PageSize * m
<1>1. PageSize \in Nat \ {0} BY SizesAssumption DEF SizesAssumption
<1>2. PICK m \in Nat : size = PageSize * m BY DEF Whole
<1> DEFINE q == (b + PageSize) \div PageSize
           r == (b + PageSize) % PageSize
           f == (size - b) - 1
           v == f \div PageSize
           w == f % PageSize
<1>3. size \in Nat BY <1>1, <1>2
<1>4. q \in Nat /\ r \in 0 .. PageSize - 1 /\ b + PageSize = PageSize * q + r
  <2>1. b + PageSize \in Nat BY <1>1
  <2> QED BY <1>1, <2>1, DivisionIs
<1>5. f \in Nat BY <1>3
<1>6. v \in Nat /\ w \in 0 .. PageSize - 1 /\ f = PageSize * v + w
  <2> HIDE DEF f
  <2> QED BY <1>1, <1>5, DivisionIs
<1>7. page_floor(f) = PageSize * v
  <2> HIDE DEF f
  <2> QED BY <1>5, FloorIs
<1> HIDE DEF q, r, v, w
<1>8. f = PageSize * (m - q) + ((PageSize - 1) - r)
  <2>1. PageSize * (m - q) = PageSize * m - PageSize * q BY <1>1, <1>2, <1>4, Z3
  <2>2. PageSize * m \in Int /\ PageSize * q \in Int BY <1>1, <1>2, <1>4
  <2> QED BY <1>1, <1>2, <1>3, <1>4, <2>1, <2>2
<1>9. m - q = v
  <2>1. m - q \in Int /\ (PageSize - 1) - r \in 0 .. PageSize - 1 BY <1>1, <1>4
  <2>2. PageSize * (m - q) + ((PageSize - 1) - r) = PageSize * v + w BY <1>6, <1>8
  <2>3. v \in Int BY <1>6
  <2> DEFINE x == m - q
             y == (PageSize - 1) - r
  <2>4. x \in Int /\ y \in 0 .. PageSize - 1 /\ PageSize * x + y = PageSize * v + w
    BY <2>1, <2>2
  <2> HIDE DEF x, y
  <2>5. x = v BY <1>1, <1>6, <2>3, <2>4, DivisionUnique
  <2> QED BY <2>5 DEF x
<1>10. size - page_floor(f) = PageSize * q
  <2>1. PageSize * v = PageSize * m - PageSize * q BY <1>1, <1>2, <1>4, <1>9, Z3
  <2>2. PageSize * m \in Int /\ PageSize * q \in Int BY <1>1, <1>2, <1>4
  <2> QED BY <1>2, <1>7, <2>1, <2>2
<1> QED BY <1>4, <1>10 DEF q

LEMMA WholeStep ==
  ASSUME QueueInv, Whole, [Next]_vars
  PROVE  Whole'
<1>1. ASSUME NEW n \in Sizes, create_ringbuffer(n) \/ Grow(n)
      PROVE  Whole'
  <2>1. size' = page_size_for(n) \/ size' = size
    BY <1>1 DEF create_ringbuffer, init_ringbuffer, Grow, bounds
  <2> QED BY <2>1, PagesAskedFor DEF Whole
<1>2. ASSUME NEW n \in Sizes, Shrink(n)
      PROVE  Whole'
  <2>1. Usable BY <1>2 DEF Shrink
  <2>2. Len(contents) \in Nat /\ Len(contents) < size
    BY <2>1, RingNow DEF QueueInv, BoundsInv
  <2>3. \E m \in Nat : size - shrinkable_bytes = PageSize * m
    BY <2>1, <2>2, SpareIs, NeededPages
  <2>4. size' = page_size_for(n) \/ size' = size - shrinkable_bytes BY <1>2 DEF Shrink
  <2> QED BY <2>3, <2>4, PagesAskedFor DEF Whole
<1>3. ASSUME size' = size PROVE Whole'
  BY <1>3 DEF Whole
<1>4. ASSUME NEW n \in Sizes, GrowRefused(n) \/ ShrinkReturns(n) \/ ShrinkAborts(n)
      PROVE  Whole'
  BY <1>3, <1>4 DEF GrowRefused, ShrinkReturns, ShrinkAborts, bounds
<1>5. ASSUME NEW s \in Writes, WriteRefused(s) \/ Write(s) PROVE Whole'
  BY <1>3, <1>5 DEF WriteRefused, Write, bounds
<1>6. ASSUME NEW n \in Counts, ReadStraight(n) \/ ReadUpper(n) \/ ReadBoth(n)
      PROVE  Whole'
  BY <1>3, <1>6 DEF ReadStraight, ReadUpper, ReadBoth
<1>7. CASE delete_ringbuffer
  BY <1>3, <1>7 DEF delete_ringbuffer, fini_ringbuffer, bounds
<1>8. CASE UNCHANGED vars
  BY <1>3, <1>8 DEF vars, bounds
<1> QED BY <1>1, <1>2, <1>4, <1>5, <1>6, <1>7, <1>8 DEF Next

(* What a call that shrinks leaves. *)
LEMMA ShrinksTo ==
  ASSUME QueueInv, Whole, NEW n \in Sizes, ShrinkReturns(n) \/ Shrink(n)
  PROVE  LET needed == PageSize * ((Len(contents) + PageSize) \div PageSize)
             wanted == page_size_for(n)
         IN  size' = Smaller(size, IF wanted < needed THEN needed ELSE wanted)
<1> DEFINE needed == PageSize * ((Len(contents) + PageSize) \div PageSize)
           wanted == page_size_for(n)
<1>1. Usable BY DEF Shrink, ShrinkReturns
<1>2. Len(contents) \in Nat /\ Len(contents) < size /\ size \in Nat
  BY <1>1, RingNow DEF QueueInv, BoundsInv
<1>3. size - shrinkable_bytes = needed BY <1>1, <1>2, SpareIs, NeededPages
<1>4. shrinkable_bytes \in Nat BY <1>1, SpareIs
<1>5. wanted \in Nat BY PositiveSize
<1>6. \/ /\ wanted >= size \/ shrinkable_bytes = 0
         /\ size' = size
      \/ /\ wanted < size
         /\ size' = IF wanted < size - shrinkable_bytes
                      THEN size - shrinkable_bytes ELSE wanted
  BY DEF ShrinkReturns, Shrink
<1> HIDE DEF needed, wanted
<1>7. size' = Smaller(size, IF wanted < needed THEN needed ELSE wanted)
  BY <1>2, <1>3, <1>4, <1>5, <1>6 DEF Smaller
<1> QED BY <1>7 DEF needed, wanted

(* Shrinking gives back every page that the bytes do not need and that the *)
(* caller does not want to keep, wherever head and tail are.               *)
THEOREM ShrinkGivesAll == Spec => ShrinksFully
<1> DEFINE Full ==
      LET needed == PageSize * ((Len(contents) + PageSize) \div PageSize)
          wanted == page_size_for(call'.n)
      IN  call'.op = "shrink" =>
            size' = Smaller(size, IF wanted < needed THEN needed ELSE wanted)
<1>1. Init => Whole
  <2>1. PageSize = PageSize * 1 BY SizesAssumption DEF SizesAssumption
  <2> QED BY <2>1 DEF Init, Whole
<1>2. QueueInv /\ Whole /\ [Next]_vars => Whole'
  BY WholeStep
<1>3. QueueInv /\ Whole /\ [Next]_vars => [Full]_vars
  <2> SUFFICES ASSUME QueueInv, Whole, Next, call'.op = "shrink" PROVE Full
    OBVIOUS
  <2>1. PICK n \in Sizes : ShrinkReturns(n) \/ Shrink(n)
    BY DEF Next, create_ringbuffer, init_ringbuffer, GrowRefused, Grow, ShrinkAborts,
           WriteRefused, Write, ReadStraight, ReadUpper, ReadBoth, delete_ringbuffer,
           fini_ringbuffer, Return
  <2>2. call'.n = n BY <2>1 DEF ShrinkReturns, Shrink, Return
  <2> QED BY <2>1, <2>2, ShrinksTo
<1> QED BY <1>1, <1>2, <1>3, QueueInvHolds, PTL DEF Spec, ShrinksFully
=============================================================================
