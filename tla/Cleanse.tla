------------------------------- MODULE Cleanse ------------------------------
(***************************************************************************)
(* cleanse() of the pet allocator (src/src/allocator_pet.c): clearing the  *)
(* bytes of a block from `start' up to `end', by words where it can.  The  *)
(* block starts on a word.  `length' is unsigned.                          *)
(***************************************************************************)
EXTENDS Integers

CONSTANTS
  SizeofWord, UNSIGNED,
  MaxBytes               \* bound: of a block

CleanseAssumption ==
  /\ SizeofWord \in Nat \ {0} /\ MaxBytes \in Nat /\ MaxBytes < UNSIGNED

VARIABLES
  start, end,            \* the arguments
  length, at,            \* bytes left, and the byte they start with
  nbytes,                \* bytes left of the leading ones
  cleared                \* the bytes written so far

vars == <<start, end, length, at, nbytes, cleared>>

Smaller(m, n) == IF m < n THEN m ELSE n

(* What there is before the next word.  The mutant forgets that the end    *)
(* may come first.                                                         *)
to_word(from) == (SizeofWord - (from % SizeofWord)) % SizeofWord
leading_uncut(from, len) == to_word(from)
leading(from, len) == Smaller(to_word(from), len)

Init ==
  /\ start \in 0 .. MaxBytes /\ end \in start .. MaxBytes
  /\ length = (end - start) % UNSIGNED /\ at = start
  /\ nbytes = leading(start, length)
  /\ cleared = {}

Clear(n) ==
  /\ cleared' = cleared \cup (at .. at + n - 1)
  /\ at' = at + n
  /\ length' = (length - n) % UNSIGNED
  /\ UNCHANGED <<start, end>>

LeadingByte ==
  /\ nbytes > 0
  /\ nbytes' = nbytes - 1
  /\ Clear(1)

words_left == length >= SizeofWord

ClearWord == nbytes = 0 /\ words_left /\ Clear(SizeofWord) /\ UNCHANGED nbytes

RemainingByte ==
  /\ nbytes = 0 /\ ~words_left /\ length > 0
  /\ Clear(1) /\ UNCHANGED nbytes

Next == LeadingByte \/ ClearWord \/ RemainingByte

Spec == Init /\ [][Next]_vars

-----------------------------------------------------------------------------
(* Nothing outside of start .. end - 1 is written, however few bytes there *)
(* are and wherever they lie in their words.                               *)
ClearsInside == cleared \subseteq start .. end - 1

(* When no byte is left all of them are cleared, and words were written at *)
(* addresses of words only.                                                *)
ClearsAll ==
  /\ length = 0 => start .. end - 1 \subseteq cleared
  /\ nbytes = 0 /\ words_left => at % SizeofWord = 0
=============================================================================
