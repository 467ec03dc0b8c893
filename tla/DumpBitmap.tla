----------------------------- MODULE DumpBitmap -----------------------------
(***************************************************************************)
(* The bitmap dump of src/src/dump_bitmap.c: which bytes it prints and     *)
(* which rows it skips.  The stars of one byte are the byte itself, a row  *)
(* has ROW bytes.                                                          *)
(***************************************************************************)
EXTENDS Integers, Sequences

CONSTANTS
  ROW,                     \* 16 in the code
  Bytes,                   \* values of a byte, 0 and 255 among them
  MaxSize                  \* bound: of the bitmap

DumpBitmapAssumption ==
  /\ ROW \in Nat \ {0} /\ MaxSize \in Nat
  /\ Bytes \subseteq 0 .. 255

VARIABLES
  data,
  i, column,               \* i is the index of the next byte, from zero
  prev_row_same_char, prev_row_char, skipping,
  out                      \* printed: rows by their address, and "---"

vars == <<data, i, column, prev_row_same_char, prev_row_char, skipping, out>>

Init ==
  /\ data \in UNION {[1 .. n -> Bytes] : n \in 0 .. MaxSize}
  /\ i = 0 /\ column = 0
  /\ prev_row_same_char = FALSE /\ prev_row_char = 0 /\ skipping = FALSE
  /\ out = <<>>

size == Len(data)

same_16_chars(at, chr) == \A k \in at + 1 .. at + ROW : data[k] = chr

(* A row is skipped only when more than a row is left, so that the last    *)
(* row is always printed.  The mutant skips the last one too.              *)
more_follow_late == size - i >= ROW
more_follow == size - i > ROW

(* Short-circuit: the row is only compared when it is whole.               *)
skipped ==
  /\ prev_row_same_char /\ more_follow
  /\ prev_row_char \in {0, 255}
  /\ same_16_chars(i, prev_row_char)

skip_row ==
  /\ i < size /\ column = 0 /\ skipped
  /\ i' = i + ROW
  /\ skipping' = TRUE
  /\ out' = IF skipping THEN out ELSE Append(out, [at |-> -1, row |-> <<>>])
  /\ UNCHANGED <<data, column, prev_row_same_char, prev_row_char>>

(* Whether a row that was one character up to here still is.               *)
still_same(b) == prev_row_same_char /\ b = prev_row_char

print_byte ==
  LET b == data[i + 1]
  IN  /\ i < size /\ ~(column = 0 /\ skipped)
      /\ IF column = 0
           THEN /\ prev_row_char' = b /\ prev_row_same_char' = TRUE
                /\ skipping' = FALSE
                /\ out' = Append(out, [at |-> i, row |-> <<b>>])
           ELSE /\ prev_row_same_char' = still_same(b)
                /\ out' = [out EXCEPT ![Len(out)].row = Append(@, b)]
                /\ UNCHANGED <<prev_row_char, skipping>>
      /\ i' = i + 1
      /\ column' = (column + 1) % ROW
      /\ UNCHANGED data

Next == skip_row \/ print_byte

Spec == Init /\ [][Next]_vars

-----------------------------------------------------------------------------
PrintedBelow(k) == {l \in DOMAIN out : out[l].at \in 0 .. k}

(* The last row printed at or below byte k.                                *)
RowBefore(k) == out[CHOOSE l \in PrintedBelow(k) :
                     \A m \in PrintedBelow(k) : m <= l]

(* The dump can be read back: a byte is in its row, or is skipped because  *)
(* each byte of the last row printed before it is the same.                *)
ReadsBack ==
  \A k \in 0 .. i - 1 :
    LET line == RowBefore(k)
    IN  IF k - line.at < Len(line.row)
          THEN line.row[k - line.at + 1] = data[k + 1]
        ELSE /\ Len(line.row) = ROW
             /\ \A c \in 1 .. ROW : line.row[c] = data[k + 1]

(* The last row is printed whatever it holds, so that a reader sees where  *)
(* the bitmap ends.                                                        *)
EndShown ==
  (i = size /\ size > 0) =>
    LET line == out[Len(out)] IN line.at >= 0 /\ line.at + Len(line.row) = size
=============================================================================
