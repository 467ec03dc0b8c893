--------------------------- MODULE SyncRingBuffer ---------------------------
(***************************************************************************)
(* The synchronised ring buffer (src/src/ringbuffer_sync.c): the basic     *)
(* ring buffer of module RingBuffer behind a mutex, and two events that    *)
(* tell of changes.                                                        *)
(*                                                                         *)
(* An operation on the buffer is a step together with taking the mutex,    *)
(* which nobody else can take before it is released; the events are used   *)
(* without it by the clients that wait.                                    *)
(***************************************************************************)
EXTENDS RingBuffer

CONSTANTS Thread, NULL

VARIABLES
  lock,                           \* who holds the mutex
  more_flag, more_mtx, more_thr,
  less_flag, less_mtx, less_thr,
  pc                              \* what a thread that holds the mutex does next

ringbuf == vars
more == <<more_flag, more_mtx, more_thr>>
less == <<less_flag, less_mtx, less_thr>>
srb == <<ringbuf, lock, more, less, pc>>

More == INSTANCE Event WITH flag <- more_flag, mtx <- more_mtx, thr <- more_thr
Less == INSTANCE Event WITH flag <- less_flag, mtx <- less_mtx, thr <- less_thr

(* srb_init has succeeded.  `less` starts as set: the buffer is empty.     *)
SyncInit ==
  /\ \E n \in Sizes :
       /\ size = page_size_for(n) /\ size <= MaxSize
       /\ call = [op |-> "init", n |-> n, ok |-> TRUE, bytes |-> <<>>]
  /\ data = remapped(nullptr, size) /\ head = 0 /\ tail = 0
  /\ careful = TRUE
  /\ lock = NULL
  /\ More!Init
  /\ Less!Unused /\ less_flag = TRUE
  /\ pc = [t \in Thread |-> "idle"]

Free(t) == pc[t] = "idle" /\ more_thr[t].at = "out" /\ less_thr[t].at = "out"

-----------------------------------------------------------------------------
Enter(t, then) ==
  /\ Free(t) /\ lock = NULL
  /\ lock' = t
  /\ pc' = [pc EXCEPT ![t] = then]
  /\ UNCHANGED <<more, less>>

(* The events are set whatever came of the operation.  The mutants: a      *)
(* write that sets the wrong one, and one that returns at once, with the   *)
(* mutex, when there is no room.                                           *)
after_write_wrong_event == "less"
after_write_returns_early == IF call'.ok THEN "more" ELSE "idle"
after_write == "more"

srb_write(t, s) ==
  /\ Write(s) \/ WriteRefused(s)
  /\ Enter(t, after_write)

after_read_forgets == "unlock"
after_read == "less"

srb_read(t, n) ==
  /\ ReadStraight(n) \/ ReadUpper(n) \/ ReadBoth(n)
  /\ Enter(t, after_read)

srb_grow(t, n) ==
  /\ Grow(n) \/ GrowRefused(n)
  /\ Enter(t, "less")

(* Where mremap fails the program ends.                                    *)
srb_shrink(t, n) ==
  /\ Shrink(n) \/ ShrinkReturns(n) \/ ShrinkAborts(n)
  /\ Enter(t, "unlock")

SetMore(t) ==
  /\ pc[t] = "more"
  /\ \/ More!set_event(t) /\ UNCHANGED pc
     \/ More!Broadcast(t) /\ pc' = [pc EXCEPT ![t] = "unlock"]
  /\ UNCHANGED <<ringbuf, lock, less>>

SetLess(t) ==
  /\ pc[t] = "less"
  /\ \/ Less!set_event(t) /\ UNCHANGED pc
     \/ Less!Broadcast(t) /\ pc' = [pc EXCEPT ![t] = "unlock"]
  /\ UNCHANGED <<ringbuf, lock, more>>

Unlock(t) ==
  /\ pc[t] = "unlock"
  /\ lock' = NULL
  /\ pc' = [pc EXCEPT ![t] = "idle"]
  /\ UNCHANGED <<ringbuf, more, less>>

(* The rest of a call, and of a client's wait_event.                       *)
Proceed(t) ==
  \/ SetMore(t) \/ SetLess(t) \/ Unlock(t)
  \/ /\ More!WaitStep(t) \/ More!TimeOut(t)
     /\ UNCHANGED <<ringbuf, lock, less, pc>>
  \/ /\ Less!WaitStep(t) \/ Less!TimeOut(t)
     /\ UNCHANGED <<ringbuf, lock, more, pc>>

WakeSpuriously(t) ==
  \/ More!WakeSpuriously(t) /\ UNCHANGED <<ringbuf, lock, less, pc>>
  \/ Less!WakeSpuriously(t) /\ UNCHANGED <<ringbuf, lock, more, pc>>
=============================================================================
