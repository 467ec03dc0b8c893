----------------------------- MODULE RingBuffer -----------------------------
(***************************************************************************)
(* The basic ring buffer of src/src/ringbuffer_base.c.  The bytes from     *)
(* `head` up to `tail' are the queue; with head > tail it wraps around the *)
(* end, with head = tail it is empty, so one byte is always kept free.     *)
(*                                                                         *)
(* A read outside the buffer delivers `Junk'.  Once `head' itself is       *)
(* outside, what a further call does is undefined, and the model goes no   *)
(* further than that (Usable): only fini_ringbuffer remains.               *)
(***************************************************************************)
EXTENDS Integers, Sequences

CONSTANTS
  PageSize,  \* sys_page_size
  MaxSize,   \* what mmap and mremap can provide
  UNSIGNED,  \* 2^w for the width w of unsigned
  Byte,      \* the bytes that are written
  Junk,      \* a byte nobody wrote: fresh memory, or outside the buffer
  Writes,    \* the sequences of bytes clients write
  Counts,    \* the sizes of the buffers clients read into
  Sizes      \* the sizes clients ask for

ASSUME SizesAssumption ==
  /\ PageSize \in Nat \ {0, 1}
  /\ UNSIGNED \in Nat /\ UNSIGNED % PageSize = 0
  /\ MaxSize \in PageSize .. UNSIGNED - 1
  /\ Sizes \subseteq 0 .. UNSIGNED - 1
  /\ Counts \subseteq 0 .. UNSIGNED - 1
  /\ Writes \subseteq Seq(Byte)
  /\ Junk \notin Byte

VARIABLES
  data, size, head, tail,  \* the fields of RingBuffer; data[i] for i < size
  call,                    \* the last call: its name, size argument, results
  careful                  \* whether the buffer's client has avoided, so far,
                           \* the two calls the code gets wrong: it reads
                           \* nothing from a wrapped buffer, and shrinks one
                           \* only as far as it will go

vars == <<data, size, head, tail, call, careful>>
bounds == <<size, head, tail>>

nullptr == <<>>

-----------------------------------------------------------------------------
(* Sizes. *)

Smaller(m, n) == IF m < n THEN m ELSE n

(* Masking with ~(sys_page_size - 1). *)
page_floor(n) == n - (n % PageSize)

align_unsigned(n) == page_floor((n + PageSize - 1) % UNSIGNED)

(* What the functions that take a size make of it. *)
page_size_for(n) == IF align_unsigned(n) = 0 THEN PageSize ELSE align_unsigned(n)

-----------------------------------------------------------------------------
(* Memory. *)

peek(i) == IF i \in DOMAIN data THEN data[i] ELSE Junk

bytes_at(i, n) == [k \in 1 .. n |-> peek(i + k - 1)]

(* memcpy and memmove of the bytes s to d + i. *)
copied(d, i, s) ==
  [k \in DOMAIN d |-> IF k \in i .. i + Len(s) - 1 THEN s[k - i + 1] ELSE d[k]]

remapped(d, n) ==
  [k \in 0 .. n - 1 |-> IF k \in DOMAIN d THEN d[k] ELSE Junk]

Wrapped == head > tail

(* The bytes in the buffer, oldest first. *)
contents ==
  IF data = nullptr THEN <<>>
  ELSE IF Wrapped THEN bytes_at(head, size - head) \o bytes_at(0, tail)
  ELSE bytes_at(head, tail - head)

Return(op, n, ok, bytes) ==
  call' = [op |-> op, n |-> n, ok |-> ok, bytes |-> bytes]

Init ==
  /\ data = nullptr
  /\ size = PageSize /\ head = 0 /\ tail = 0
  /\ call = [op |-> "fini", n |-> 0, ok |-> TRUE, bytes |-> <<>>]
  /\ careful = TRUE

Usable == data # nullptr /\ head < size /\ tail < size /\ call.op # "abort"

-----------------------------------------------------------------------------
(* init_ringbuffer, fini_ringbuffer and their create and delete forms.     *)
(* Where mmap fails `data' becomes MAP_FAILED, no better than a null       *)
(* pointer: munmap, which fini_ringbuffer calls, refuses it.               *)

init_ringbuffer(n) ==
  /\ data = nullptr
  /\ size' = page_size_for(n)
  /\ \/ /\ size' <= MaxSize
        /\ data' = remapped(nullptr, size')
        /\ head' = 0 /\ tail' = 0
        /\ careful' = TRUE
        /\ Return("init", n, TRUE, <<>>)
     \/ /\ Return("init", n, FALSE, <<>>)  \* mmap fails
        /\ UNCHANGED <<data, head, tail, careful>>

fini_ringbuffer ==
  /\ call.op # "abort"
  /\ data' = nullptr
  /\ Return("fini", 0, TRUE, <<>>)
  /\ UNCHANGED <<bounds, careful>>

(* The structure itself is allocated with its buffer, or embedded in another *)
(* and initialised in place; it goes the same way.                           *)
create_ringbuffer(n) ==
  \/ init_ringbuffer(n)
  \/ /\ data = nullptr
     /\ Return("init", n, FALSE, <<>>)  \* allocate fails
     /\ UNCHANGED <<data, bounds, careful>>

delete_ringbuffer == fini_ringbuffer

-----------------------------------------------------------------------------
(* grow_ringbuffer *)

GrowRefused(n) ==
  /\ Usable
  /\ Return("grow", n, page_size_for(n) <= size, <<>>)
  /\ UNCHANGED <<data, bounds, careful>>

(* The upper part of a wrapped buffer moves up to its new end. *)
Grow(n) ==
  LET new == page_size_for(n)
      offset == new - size
      upper == bytes_at(head, size - head)
  IN  /\ Usable
      /\ new > size /\ new <= MaxSize
      /\ data' = IF Wrapped THEN copied(remapped(data, new), head + offset, upper)
                            ELSE remapped(data, new)
      /\ head' = IF Wrapped THEN head + offset ELSE head
      /\ size' = new
      /\ Return("grow", n, TRUE, <<>>)
      /\ UNCHANGED <<tail, careful>>

-----------------------------------------------------------------------------
(* shrink_ringbuffer *)

(* The bytes that the buffer can do without.  An empty buffer is no special *)
(* case: whatever head = tail is, this is all but one page.                 *)
shrinkable_bytes_behind_tail ==
  page_floor(IF Wrapped THEN head - tail - 1 ELSE size - tail - 1)
shrinkable_bytes ==
  page_floor(IF Wrapped THEN head - tail - 1 ELSE head + size - tail - 1)

ShrinkReturns(n) ==
  /\ Usable
  /\ page_size_for(n) >= size \/ shrinkable_bytes = 0
  /\ IF page_size_for(n) < size /\ head = tail
       THEN head' = 0 /\ tail' = 0
       ELSE UNCHANGED <<head, tail>>
  /\ Return("shrink", n, TRUE, <<>>)
  /\ UNCHANGED <<data, size, careful>>

(* The upper part of a wrapped buffer moves down by all that is shrinkable, *)
(* other data to the start; then the buffer shrinks no further than asked.  *)
Shrink(n) ==
  LET spare == shrinkable_bytes
      smallest == size - spare
      new == IF page_size_for(n) < smallest THEN smallest ELSE page_size_for(n)
  IN  /\ Usable
      /\ page_size_for(n) < size /\ spare > 0
      /\ IF Wrapped
           THEN /\ data' = remapped(copied(data, head - spare,
                                           bytes_at(head, size - head)), new)
                /\ head' = head - spare
                /\ tail' = tail
                /\ careful' = (careful /\ new = smallest)
           ELSE /\ data' = remapped(copied(data, 0, contents), new)
                /\ head' = 0
                /\ tail' = tail - head
                /\ UNCHANGED careful
      /\ size' = new
      /\ Return("shrink", n, TRUE, <<>>)

(* mremap fails. *)
ShrinkAborts(n) ==
  /\ Usable
  /\ page_size_for(n) < size /\ shrinkable_bytes > 0
  /\ Return("abort", n, FALSE, <<>>)
  /\ UNCHANGED <<data, bounds, careful>>

-----------------------------------------------------------------------------
(* write_ringbuffer *)

tail_len == IF Wrapped THEN head - tail ELSE size - tail
bytes_avail == IF Wrapped THEN tail_len ELSE head + tail_len
fits_without_gap(n) == n <= bytes_avail
fits(n) == n < bytes_avail

tail_wraps_late(n) == n > tail_len
tail_wraps(n) == n >= tail_len

WriteRefused(s) ==
  /\ Usable
  /\ ~fits(Len(s))
  /\ Return("write", Len(s), FALSE, <<>>)
  /\ UNCHANGED <<data, bounds, careful>>

Write(s) ==
  /\ Usable
  /\ fits(Len(s))
  /\ IF tail_wraps(Len(s))
       THEN /\ data' = copied(copied(data, tail, SubSeq(s, 1, tail_len)),
                              0, SubSeq(s, tail_len + 1, Len(s)))
            /\ tail' = Len(s) - tail_len
       ELSE /\ data' = copied(data, tail, s)
            /\ tail' = tail + Len(s)
  /\ Return("write", Len(s), TRUE, <<>>)
  /\ UNCHANGED <<size, head, careful>>

-----------------------------------------------------------------------------
(* read_ringbuffer *)

ReadStraight(n) ==
  LET len == Smaller(tail - head, n)
  IN  /\ Usable
      /\ ~Wrapped
      /\ Return("read", n, TRUE, bytes_at(head, len))
      /\ head' = head + len
      /\ UNCHANGED <<data, size, tail, careful>>

(* The length of the upper part is computed from the tail. *)
ReadUpper(n) ==
  LET upper_len == size - tail
  IN  /\ Usable
      /\ Wrapped /\ n <= upper_len
      /\ Return("read", n, TRUE, bytes_at(head, n))
      /\ head' = IF n = upper_len THEN 0 ELSE head + upper_len
      /\ careful' = FALSE
      /\ UNCHANGED <<data, size, tail>>

ReadBoth(n) ==
  LET upper_len == size - tail
      lower_len == Smaller(tail, n - upper_len)
  IN  /\ Usable
      /\ Wrapped /\ n > upper_len
      /\ Return("read", n, TRUE, bytes_at(head, upper_len) \o bytes_at(0, lower_len))
      /\ head' = lower_len
      /\ careful' = FALSE
      /\ UNCHANGED <<data, size, tail>>

-----------------------------------------------------------------------------
Next ==
  \/ \E n \in Sizes :
       \/ create_ringbuffer(n)
       \/ GrowRefused(n) \/ Grow(n)
       \/ ShrinkReturns(n) \/ Shrink(n) \/ ShrinkAborts(n)
  \/ \E s \in Writes : WriteRefused(s) \/ Write(s)
  \/ \E n \in Counts : ReadStraight(n) \/ ReadUpper(n) \/ ReadBoth(n)
  \/ delete_ringbuffer

Spec == Init /\ [][Next]_vars

-----------------------------------------------------------------------------
(* A careful client never gets head or tail out of the buffer, so that all *)
(* of it stays usable, whatever it writes, reads, grows and shrinks.       *)
InBounds == careful /\ data # nullptr => head < size /\ tail < size

(* A buffer that shrinks has no page left that it could give back, unless  *)
(* the caller wants to keep it: shrink_ringbuffer's computation of what is *)
(* shrinkable misses no free byte, wherever head and tail are.             *)
ShrinksFully ==
  [][LET needed == PageSize * ((Len(contents) + PageSize) \div PageSize)
         wanted == page_size_for(call'.n)
     IN  call'.op = "shrink" =>
           size' = Smaller(size, IF wanted < needed THEN needed ELSE wanted)]_vars

(* To a careful client the buffer is a queue: writes append whole or are   *)
(* refused for want of room, reads take from the front what was written,   *)
(* and growing and shrinking lose and reorder nothing.                     *)
Abstract == INSTANCE ByteQueue WITH
  queue <- contents,
  size <- IF data = nullptr THEN 0 ELSE size,
  ok <- call.ok,
  bytes <- call.bytes
ImplementsByteQueue ==
  Abstract!Init /\ [][careful' => Abstract!Next]_(Abstract!vars)

(* ringbuffer.h says of read_ringbuffer "Read the data from ring buffer.   *)
(* Return the number of bytes read": what was read is the front of what    *)
(* the buffer held, and the rest stays.                                    *)
ReadTakesFront ==
  [][call'.op = "read" => call'.bytes \o contents' = contents]_vars
=============================================================================
