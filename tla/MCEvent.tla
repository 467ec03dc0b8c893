------------------------------- MODULE MCEvent ------------------------------
(***************************************************************************)
(* Threads that make at most MaxCalls calls each, of any of the functions  *)
(* of an event, under the fairness a scheduler and a clock give: a thread  *)
(* that can go on does, and a timeout expires.  Nobody wakes for no reason *)
(* by fairness.                                                            *)
(***************************************************************************)
EXTENDS Event

CONSTANT MaxCalls

VARIABLE calls

BoundedInit == Init /\ calls = [t \in Thread |-> 0]

Call(t) ==
  /\ calls[t] < MaxCalls
  /\ calls' = [calls EXCEPT ![t] = @ + 1]
  /\ \/ set_event(t) \/ clear_event(t)
     \/ \E timed \in BOOLEAN : wait_event(t, timed)

Run(t) == (Broadcast(t) \/ WaitStep(t)) /\ UNCHANGED calls
Clock(t) == TimeOut(t) /\ UNCHANGED calls
Spurious(t) == WakeSpuriously(t) /\ UNCHANGED calls

Next == \E t \in Thread : Call(t) \/ Run(t) \/ Clock(t) \/ Spurious(t)

FairSpec ==
  /\ BoundedInit /\ [][Next]_<<vars, calls>>
  /\ \A t \in Thread : WF_<<vars, calls>>(Run(t)) /\ WF_<<vars, calls>>(Clock(t))

(* Setting the event gets every thread out of wait_event that is asleep,   *)
(* although they all need the same mutex for it and other threads clear    *)
(* the flag and begin to wait meanwhile.                                   *)
SetWakesAll ==
  \A t, u \in Thread :
    thr[t].at = "asleep" /\ thr[u].at = "broadcast" ~> thr[t].at = "out"

(* A wait with a timeout returns, whatever becomes of the event: nobody    *)
(* sleeps with the mutex.                                                  *)
TimedWaitsReturn ==
  \A t \in Thread : thr[t].timed /\ thr[t].at # "out" ~> thr[t].at = "out"
=============================================================================
