------------------------------ MODULE Timespec ------------------------------
(***************************************************************************)
(* The arithmetic of src/src/timespec.c on a struct timespec, with which   *)
(* the deadlines of timed waits are computed.  The increment of            *)
(* timespec_add is a double; it is a whole number of 1/SUB nanoseconds     *)
(* here, so that the conversion to tv_nsec has a fraction to drop, and the *)
(* rounding of the double itself is left out but for one case: the         *)
(* fraction may round up to a whole second.                                *)
(***************************************************************************)
EXTENDS Integers

CONSTANTS
  NSEC, SUB,              \* nanoseconds in a second, parts of a nanosecond
  Wholes, Fractions,      \* the two parts modf splits an increment into
  Seconds,                \* of the timespecs it starts from and subtracts
  MaxSec                  \* bound: of tv_sec

TimespecAssumption ==
  /\ NSEC \in Nat \ {0} /\ SUB \in Nat \ {0}
  /\ Wholes \subseteq Nat /\ Fractions \subseteq 0 .. NSEC * SUB
  /\ Seconds \subseteq Nat
  /\ MaxSec \in Nat

VARIABLES
  ts,                     \* the timespec
  exact                   \* the time it should hold, in 1/SUB nanoseconds,
                          \* before the last step dropped what is below 1 ns

vars == <<ts, exact>>

Times == [tv_sec : Seconds, tv_nsec : 0 .. NSEC - 1]

InParts(t) == (t.tv_sec * NSEC + t.tv_nsec) * SUB

Init ==
  /\ ts \in Times
  /\ exact = InParts(ts)

carry(t) ==
  IF t.tv_nsec >= NSEC
    THEN [tv_sec |-> t.tv_sec + 1, tv_nsec |-> t.tv_nsec - NSEC] ELSE t

timespec_add(integral, frac) ==
  /\ ts.tv_sec + integral < MaxSec
  /\ ts' = carry([tv_sec  |-> ts.tv_sec + integral,
                  tv_nsec |-> (ts.tv_nsec * SUB + frac) \div SUB])
  /\ exact' = InParts(ts) + integral * NSEC * SUB + frac

(* The mutant adds the second to tv_nsec and does not take it from tv_sec. *)
borrow_free(t, nsec) ==
  IF t.tv_nsec < nsec
    THEN [t EXCEPT !.tv_nsec = @ + NSEC] ELSE t
borrow(t, nsec) ==
  IF t.tv_nsec < nsec
    THEN [tv_sec |-> t.tv_sec - 1, tv_nsec |-> t.tv_nsec + NSEC] ELSE t

timespec_sub(b) ==
  /\ ts.tv_sec - b.tv_sec > -MaxSec
  /\ ts' = LET a == [ts EXCEPT !.tv_sec = @ - b.tv_sec]
               c == borrow(a, b.tv_nsec)
           IN  [c EXCEPT !.tv_nsec = @ - b.tv_nsec]
  /\ exact' = InParts(ts) - InParts(b)

Next ==
  \/ \E i \in Wholes, f \in Fractions : timespec_add(i, f)
  \/ \E b \in Times : timespec_sub(b)

Spec == Init /\ [][Next]_vars

-----------------------------------------------------------------------------
(* After any sums and differences tv_nsec is below a second and not        *)
(* negative: a deadline that is not so is no time at all.                  *)
Normalised == ts.tv_nsec \in 0 .. NSEC - 1

(* A sum is never later than the exact one and less than a nanosecond      *)
(* early; a difference is exact, below zero too.                           *)
TimeExact == exact - InParts(ts) \in 0 .. SUB - 1
=============================================================================
