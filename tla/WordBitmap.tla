----------------------------- MODULE WordBitmap -----------------------------
(***************************************************************************)
(* The scans and updates of a page's bitmap as the pet allocator does them *)
(* (src/src/allocator_pet.c), word by word, against the operators of       *)
(* PageBitmap, which say what they should find.  The loops of the two      *)
(* searches are steps; where the loops over words end is an operator.      *)
(*                                                                         *)
(* A word is the set of its bits that are set; a shift drops the bits that *)
(* leave the word.  WORD_WIDTH is a power of two in the code, which masks  *)
(* with WORD_WIDTH - 1 to get a remainder.                                 *)
(***************************************************************************)
EXTENDS Integers, FiniteSetsExt

CONSTANTS
  WORD_WIDTH,
  NumWords,                      \* words of a page's bitmap
  bm_page_header_size_in_units,
  UINT_MAX

units_per_page == WORD_WIDTH * NumWords

(* The page has room for its header and for a block the allocator takes.   *)
ASSUME WordsAssumption ==
  /\ WORD_WIDTH \in Nat \ {0} /\ NumWords \in Nat \ {0}
  /\ bm_page_header_size_in_units \in Nat \ {0}
  /\ bm_page_header_size_in_units + 1 < units_per_page
  /\ UINT_MAX \in Nat /\ units_per_page <= UINT_MAX

Ref == INSTANCE PageBitmap

VARIABLES
  words,        \* the bitmap
  units,        \* the units that should be set
  scan,         \* the search that runs, or has found something
  scan_offset,  \* offset, and where find_free_block has found a block
  scan_size,    \* block_size: what find_free_block looks for
  scan_left,    \* n: the units find_longest_free_block has left
  lfb           \* its longest run

search == <<scan, scan_offset, scan_size, scan_left, lfb>>
scans_vars == <<words, units, search>>

Bits == 0 .. (WORD_WIDTH - 1)
Words == 0 .. (NumWords - 1)

unit_at(i, b) == WORD_WIDTH * i + b

shift_right(w, k) == {i - k : i \in {j \in w : j >= k}}
shift_left(w, k)  == {i + k : i \in {j \in w : j + k < WORD_WIDTH}}
complement(w)     == Bits \ w
low_bits(k)       == {i \in Bits : i < k}   \* (1 << k) - 1, for k < WORD_WIDTH

count_trailing_zeros(w) == Min(w)           \* for a word with a bit set

-----------------------------------------------------------------------------
(* The loop over words from word i on, with count bits behind it, ends at  *)
(* the end of the bitmap, at the limit or at a word that is not empty; of  *)
(* this it adds the ending bits.                                           *)
count_words(ws, i, count, limit) ==
  LET at(j) == count + (j - i) * WORD_WIDTH
      last  == Min({j \in i .. NumWords :
                      j = NumWords \/ at(j) >= limit \/ ws[j] # {}})
  IN  IF last = NumWords \/ at(last) >= limit THEN at(last)
      ELSE at(last) + count_trailing_zeros(ws[last])

(* A mutant: the bits before the word boundary are not counted.            *)
count_bits_restarts(ws, o, limit) ==
  LET i == o \div WORD_WIDTH
      bit_index == o % WORD_WIDTH
      w == shift_right(ws[i], bit_index)
  IN  IF bit_index = 0 THEN count_words(ws, i, 0, limit)
      ELSE IF w # {} THEN count_trailing_zeros(w)
      ELSE count_words(ws, i + 1, 0, limit)

(* Consecutive empty bits of words from bit o on: the rest of the word it  *)
(* is in, then whole words.                                                *)
count_bits(ws, o, limit) ==
  LET i == o \div WORD_WIDTH
      bit_index == o % WORD_WIDTH
      w == shift_right(ws[i], bit_index)
  IN  IF bit_index = 0 THEN count_words(ws, i, 0, limit)
      ELSE IF w # {} THEN count_trailing_zeros(w)
      ELSE count_words(ws, i + 1, WORD_WIDTH - bit_index, limit)

count_zero_bits(bm, o, limit) == count_bits(bm, o, limit)

(* The same on the inverted words.  The mutant forgets to invert them.     *)
count_nonzero_bits_not_inverted(bm, o, limit) == count_bits(bm, o, limit)
count_nonzero_bits(bm, o, limit) ==
  count_bits([i \in Words |-> complement(bm[i])], o, limit)

-----------------------------------------------------------------------------
(* The words set_bits and clear_bits touch for a run, each with the mask   *)
(* of the run's bits in it: a starting part up to the word boundary, whole *)
(* words, and the ending bits.                                             *)
whole_words(i, length) ==
  LET last == i + length \div WORD_WIDTH
      rest == length % WORD_WIDTH
  IN  {<<j, Bits>> : j \in i .. (last - 1)}
        \cup (IF rest = 0 THEN {} ELSE {<<last, low_bits(rest)>>})

(* A mutant: a run that ends in the word it starts in is not cut off. *)
masks_uncut(o, length) ==
  LET i == o \div WORD_WIDTH
      bit_index == o % WORD_WIDTH
      num_bits == WORD_WIDTH - bit_index
  IN  IF bit_index = 0 THEN whole_words(i, length)
      ELSE {<<i, shift_left(Bits, bit_index)>>}
             \cup whole_words(i + 1, length - num_bits)

masks(o, length) ==
  LET i == o \div WORD_WIDTH
      bit_index == o % WORD_WIDTH
      num_bits == WORD_WIDTH - bit_index
  IN  IF bit_index = 0 THEN whole_words(i, length)
      ELSE IF length <= num_bits THEN {<<i, shift_left(low_bits(length), bit_index)>>}
      ELSE {<<i, shift_left(Bits, bit_index)>>}
             \cup whole_words(i + 1, length - num_bits)

mask_of(ms, i) == UNION {m[2] : m \in {k \in ms : k[1] = i}}

set_bits(bm, o, length) ==
  [i \in Words |-> bm[i] \cup mask_of(masks(o, length), i)]

clear_bits(bm, o, length) ==
  [i \in Words |-> bm[i] \ mask_of(masks(o, length), i)]

-----------------------------------------------------------------------------
Idle == scan' = "none" /\ scan_offset' = 0 /\ scan_size' = 0 /\ scan_left' = 0 /\ lfb' = 0

(* A page is made: its words are cleaned, and then the header and the      *)
(* first block are set.                                                    *)
ScansInit ==
  /\ words = [i \in Words |-> {}] /\ units = {}
  /\ scan = "new" /\ scan_offset = 0 /\ scan_size = 0 /\ scan_left = 0 /\ lfb = 0

NewPage(k) ==
  /\ scan = "new" /\ Idle
  /\ words' = set_bits(words, 0, bm_page_header_size_in_units + k)
  /\ units'  = Ref!set_bits(units, 0, bm_page_header_size_in_units + k)

(* Later calls set runs that were free and clear runs that were set. *)
SetRun(o, k) ==
  /\ Ref!Run(o, k) \cap units = {}
  /\ words' = set_bits(words, o, k)
  /\ units'  = Ref!set_bits(units, o, k)

ClearRun(o, k) ==
  /\ Ref!Run(o, k) \subseteq units
  /\ words' = clear_bits(words, o, k)
  /\ units'  = Ref!clear_bits(units, o, k)

Update ==
  /\ scan = "none"
  /\ \E o \in Ref!DataUnit : \E k \in 1 .. (units_per_page - o) :
       SetRun(o, k) \/ ClearRun(o, k)
  /\ UNCHANGED search

-----------------------------------------------------------------------------
(* Both searches go from a run of empty bits over the run of set bits that *)
(* follows it. *)
after_runs(o, zeros, limit) ==
  (o + zeros) + count_nonzero_bits(words, o + zeros, limit)

(* find_free_block: one step for every turn of its loop. *)
StartFind(size) ==
  /\ scan = "none" /\ scan' = "find_free_block"
  /\ scan_offset' = bm_page_header_size_in_units
  /\ scan_size' = size
  /\ UNCHANGED <<words, units, scan_left, lfb>>

(* A mutant: a free run as long as the block is passed over.               *)
longer(length, size) == length > size
long_enough(length, size) == length >= size

Found(o) == scan' = "found_block" /\ scan_offset' = o

FindNext ==
  LET length == count_zero_bits(words, scan_offset, scan_size)
  IN  /\ scan = "find_free_block"
      /\ \/ scan_offset >= units_per_page /\ Found(0)
         \/ /\ scan_offset < units_per_page /\ long_enough(length, scan_size)
            /\ Found(scan_offset)
         \/ /\ scan_offset < units_per_page /\ ~long_enough(length, scan_size)
            /\ scan_offset' = after_runs(scan_offset, length, UINT_MAX)
            /\ UNCHANGED scan
      /\ UNCHANGED <<words, units, scan_size, scan_left, lfb>>

-----------------------------------------------------------------------------
(* find_longest_free_block *)
StartLongest ==
  /\ scan = "none" /\ scan' = "find_longest_free_block"
  /\ scan_offset' = bm_page_header_size_in_units
  /\ scan_left' = Ref!max_data_units
  /\ lfb' = 0
  /\ UNCHANGED <<words, units, scan_size>>

LongestNext ==
  LET zeros == count_zero_bits(words, scan_offset, scan_left)
  IN  /\ scan = "find_longest_free_block" /\ scan_left # 0
      /\ lfb' = IF zeros > lfb THEN zeros ELSE lfb
      /\ scan_offset' = after_runs(scan_offset, zeros, scan_left - zeros)
      /\ scan_left' = scan_left - (scan_offset' - scan_offset)
      /\ UNCHANGED <<words, units, scan, scan_size>>

LongestFound ==
  /\ scan = "find_longest_free_block" /\ scan_left = 0
  /\ scan' = "found_longest"
  /\ UNCHANGED <<words, units, scan_offset, scan_size, scan_left, lfb>>

(* The caller has its answer. *)
Return ==
  /\ scan \in {"found_block", "found_longest"}
  /\ Idle
  /\ UNCHANGED <<words, units>>

ScansNext ==
  \/ \E k \in 1 .. (Ref!max_data_units - 1) : NewPage(k)
  \/ Update
  \/ (\E size \in 1 .. (Ref!max_data_units - 1) : StartFind(size)) \/ FindNext
  \/ StartLongest \/ LongestNext \/ LongestFound
  \/ Return

ScansSpec == ScansInit /\ [][ScansNext]_scans_vars

-----------------------------------------------------------------------------
ScansTypeOK ==
  /\ words \in [Words -> SUBSET Bits]
  /\ units \in SUBSET Ref!Unit
  /\ scan \in {"new", "none", "find_free_block", "found_block",
               "find_longest_free_block", "found_longest"}
  /\ scan_offset \in 0 .. units_per_page /\ scan_size \in 0 .. Ref!max_data_units
  /\ scan_left \in 0 .. units_per_page /\ lfb \in 0 .. units_per_page

(* The words bm have the bits of the units S set, and no others. *)
Shows(bm, S) == \A i \in Words : bm[i] = {b \in Bits : unit_at(i, b) \in S}

(* set_bits and clear_bits change the run's bits and no others, wherever   *)
(* word boundaries fall, and touch no word behind the bitmap.              *)
UpdatesExact ==
  /\ Shows(words, units)
  /\ \A o \in Ref!Unit : \A k \in 1 .. (units_per_page - o) :
       \A m \in masks(o, k) : m[1] \in Words

(* A count of the scans is a hint only above its limit: below it, it is    *)
(* the exact length of the run, and it never is too long.                  *)
CountsExact ==
  \A o \in 0 .. (units_per_page - 1), limit \in 1 .. units_per_page :
    LET zeros == count_zero_bits(words, o, limit)
        ones  == count_nonzero_bits(words, o, limit)
        all_zeros == Ref!count_zero_bits(units, o)
        all_ones  == Ref!count_zero_bits(Ref!Unit \ units, o)
    IN  /\ zeros <= all_zeros /\ (zeros < limit => zeros = all_zeros)
        /\ ones <= all_ones /\ (ones < limit => ones = all_ones)

(* find_free_block, which skips from run to run, finds the lowest offset   *)
(* with room, and find_longest_free_block the longest run: they never miss *)
(* a free block at a word boundary or at the end of the page.              *)
SearchesExact ==
  /\ scan = "found_block" => scan_offset = Ref!find_free_block(units, scan_size)
  /\ scan = "found_longest" => lfb = Ref!find_longest_free_block(units)

(* Every turn of a search's loop moves it on, never past the end of the    *)
(* page, so that it ends; and the unsigned n, which the counts are         *)
(* subtracted from, never wraps.                                           *)
SearchMovesOn ==
  LET zeros == count_zero_bits(words, scan_offset, scan_size)
      rest  == count_zero_bits(words, scan_offset, scan_left)
      ahead == (scan_offset + 1) .. units_per_page
  IN  /\ scan = "find_free_block" /\ scan_offset < units_per_page =>
           \/ long_enough(zeros, scan_size)
           \/ after_runs(scan_offset, zeros, UINT_MAX) \in ahead
      /\ scan = "find_longest_free_block" =>
           /\ scan_left = units_per_page - scan_offset
           /\ scan_left # 0 =>
                /\ rest <= scan_left
                /\ after_runs(scan_offset, rest, scan_left - rest) \in ahead

(* All of this, from the making of the page on. *)
ScansExact ==
  scan # "new" => UpdatesExact /\ CountsExact /\ SearchesExact /\ SearchMovesOn
=============================================================================
