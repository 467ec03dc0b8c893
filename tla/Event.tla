-------------------------------- MODULE Event -------------------------------
(***************************************************************************)
(* The event of src/src/sync_event.c: a flag, and a condition variable     *)
(* with its mutex for those who wait.  Setting the event is two steps and  *)
(* takes no mutex.  wait_event(t, timed) is a step from each place where   *)
(* another thread can come in to the next; thr[t].at is where t is.        *)
(*                                                                         *)
(* The condition variable is that of C: waiting releases the mutex in the  *)
(* same step, a broadcast wakes all who wait, and a thread may wake for no *)
(* reason.                                                                 *)
(***************************************************************************)
EXTENDS Integers

CONSTANTS Thread, NULL

ASSUME EventAssumption == NULL \notin Thread

VARIABLES
  flag,
  mtx,   \* who holds the mutex
  thr    \* of each thread: at, timed, and the local `signalled`

vars == <<flag, mtx, thr>>

Unused ==
  /\ mtx = NULL
  /\ thr = [t \in Thread |-> [at |-> "out", timed |-> FALSE, signalled |-> FALSE]]

Init == flag = FALSE /\ Unused

Goto(t, place) == thr' = [thr EXCEPT ![t].at = place]

-----------------------------------------------------------------------------
set_event(t) ==
  /\ thr[t].at = "out"
  /\ flag' = TRUE
  /\ Goto(t, "broadcast")
  /\ UNCHANGED mtx

(* The mutant is cnd_signal. *)
woken_one ==
  LET asleep == {t \in Thread : thr[t].at = "asleep"}
  IN  IF asleep = {} THEN {} ELSE {CHOOSE t \in asleep : TRUE}
woken == {t \in Thread : thr[t].at = "asleep"}

Broadcast(t) ==
  /\ thr[t].at = "broadcast"
  /\ thr' = [u \in Thread |-> [thr[u] EXCEPT !.at =
               IF u = t THEN "out" ELSE IF u \in woken THEN "woken" ELSE @]]
  /\ UNCHANGED <<flag, mtx>>

clear_event(t) ==
  /\ thr[t].at = "out"
  /\ flag' = FALSE
  /\ UNCHANGED <<mtx, thr>>

-----------------------------------------------------------------------------
wait_event(t, timed) ==
  /\ thr[t].at = "out"
  /\ thr' = [thr EXCEPT ![t] = [@ EXCEPT !.at = "mtx_lock", !.timed = timed]]
  /\ UNCHANGED <<flag, mtx>>

Lock(t) ==
  /\ thr[t].at = "mtx_lock" /\ mtx = NULL
  /\ mtx' = t
  /\ Goto(t, "test")
  /\ UNCHANGED flag

Test(t) ==
  /\ thr[t].at = "test"
  /\ thr' = [thr EXCEPT ![t].signalled = flag,
                        ![t].at = IF flag THEN "return" ELSE "cnd_wait"]
  /\ UNCHANGED <<flag, mtx>>

holder_asleep_keeps == mtx
holder_asleep == NULL

Sleep(t) ==
  /\ thr[t].at = "cnd_wait"
  /\ mtx' = holder_asleep
  /\ Goto(t, "asleep")
  /\ UNCHANGED flag

TimeOut(t) ==
  /\ thr[t].at = "asleep" /\ thr[t].timed
  /\ Goto(t, "late")
  /\ UNCHANGED <<flag, mtx>>

WakeSpuriously(t) ==
  /\ thr[t].at = "asleep"
  /\ Goto(t, "woken")
  /\ UNCHANGED <<flag, mtx>>

(* cnd_wait and cnd_timedwait return with the mutex.  A timed wait reports *)
(* whether it timed out; one without a timeout what the flag was before.   *)
Relock(t) ==
  /\ thr[t].at \in {"woken", "late"} /\ mtx = NULL
  /\ mtx' = t
  /\ thr' = [thr EXCEPT ![t].at = "return",
               ![t].signalled = IF thr[t].timed THEN thr[t].at = "woken" ELSE @]
  /\ UNCHANGED flag

Return(t) ==
  /\ thr[t].at = "return"
  /\ mtx' = NULL
  /\ Goto(t, "out")
  /\ UNCHANGED flag

(* What the thread itself does on the way out of a wait. *)
WaitStep(t) == Lock(t) \/ Test(t) \/ Sleep(t) \/ Relock(t) \/ Return(t)

=============================================================================
