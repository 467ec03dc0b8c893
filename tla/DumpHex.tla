------------------------------- MODULE DumpHex ------------------------------
(***************************************************************************)
(* The hex dump of src/src/dump_hex.c: which rows of the memory it prints, *)
(* at which address, and which it coalesces.  A row of 16 bytes is one     *)
(* value and addresses count rows from the aligned start; the first row    *)
(* may lack its leading bytes and the last one its trailing ones, and such *)
(* a row is printed as it is and compared with none.                       *)
(***************************************************************************)
EXTENDS Integers, Sequences

CONSTANTS
  Rows,                    \* the contents of a row
  MaxRows                  \* bound: of the memory

DumpHexAssumption == MaxRows \in Nat

VARIABLES
  memory,                  \* its rows
  offset, remainder,       \* whether the first and the last are incomplete
  i,                       \* the row the loop is at
  prev_row, num_rows, num_same_rows,
  out,                     \* the lines printed
  pc

input == <<memory, offset, remainder>>
vars == <<memory, offset, remainder, i, prev_row, num_rows, num_same_rows,
          out, pc>>

(* A printed line is a row at its address; "-- n same rows --" has n > 0.  *)
row_line(row, at) == [row |-> row, at |-> at, same |-> 0]
same_line(n)      == [row |-> prev_row, at |-> 0, same |-> n]

Init ==
  /\ memory \in UNION {[1 .. n -> Rows] : n \in 0 .. MaxRows}
  /\ offset \in BOOLEAN /\ remainder \in BOOLEAN
  /\ (offset \/ remainder) => memory # <<>>
  /\ (offset /\ remainder) => Len(memory) # 1
  /\ i = 1
  /\ prev_row \in Rows          \* uninitialized until the first row is kept
  /\ num_rows = 0 /\ num_same_rows = 0
  /\ out = <<>>
  /\ pc = "first"

(* Rows without their own line before the last of n repeats: that one is   *)
(* printed below the count.  The mutant counts it too.                     *)
coalesced_all(n) == n
coalesced(n) == n - 1

(* What print_same_rows prints for n repeats of prev_row below row at. The *)
(* loop for few repeats runs once more after its counter is zero.          *)
print_same_rows(n, at) ==
  IF n > 3 THEN <<same_line(coalesced(n)), row_line(prev_row, at - 1)>>
  ELSE [k \in 1 .. IF n > 0 THEN n + 1 ELSE 0 |->
          row_line(prev_row, at - (n + 1 - k))]

(* The row with blank leading bytes.                                       *)
first_row ==
  /\ pc = "first"
  /\ IF offset
       THEN out' = <<row_line(memory[1], 1)>> /\ i' = 2
       ELSE UNCHANGED <<out, i>>
  /\ pc' = "rows"
  /\ UNCHANGED <<input, prev_row, num_rows, num_same_rows>>

full_rows == IF remainder THEN Len(memory) - 1 ELSE Len(memory)

same_row ==
  /\ pc = "rows" /\ i <= full_rows
  /\ num_rows > 0 /\ memory[i] = prev_row
  /\ num_same_rows' = num_same_rows + 1
  /\ i' = i + 1 /\ num_rows' = num_rows + 1
  /\ UNCHANGED <<input, prev_row, out, pc>>

other_row ==
  /\ pc = "rows" /\ i <= full_rows
  /\ num_rows = 0 \/ memory[i] # prev_row
  /\ out' = out \o print_same_rows(num_same_rows, i)
                \o <<row_line(memory[i], i)>>
  /\ num_same_rows' = 0
  /\ prev_row' = memory[i]
  /\ i' = i + 1 /\ num_rows' = num_rows + 1
  /\ UNCHANGED <<input, pc>>

(* What is pending when the rows end.                                      *)
pending == print_same_rows(num_same_rows, i)

last_row ==
  /\ pc = "rows" /\ i > full_rows
  /\ out' = out \o pending
                \o IF remainder THEN <<row_line(memory[i], i)>> ELSE <<>>
  /\ pc' = "done"
  /\ UNCHANGED <<input, i, prev_row, num_rows, num_same_rows>>

Next == first_row \/ same_row \/ other_row \/ last_row

Spec == Init /\ [][Next]_vars

-----------------------------------------------------------------------------
(* Nothing is hidden: a row of the memory is on a line at its address, or  *)
(* among the rows counted as the same as the line before.                  *)
RowsShown ==
  pc = "done" =>
    \A k \in DOMAIN memory : \E l \in DOMAIN out :
      IF out[l].same = 0 THEN out[l] = row_line(memory[k], k)
      ELSE /\ k - out[l - 1].at \in 1 .. out[l].same
           /\ out[l - 1].row = memory[k]

(* A count is the distance between the addresses around it: a reader can   *)
(* tell how many rows there are without reading the content.               *)
GapsExact ==
  \A l \in DOMAIN out :
    out[l].same > 0 =>
      l + 1 \in DOMAIN out /\ out[l + 1].at = out[l - 1].at + out[l].same + 1

=============================================================================
