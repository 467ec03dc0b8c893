-------------------------- MODULE MCPetBitmapLive ---------------------------
(***************************************************************************)
(* PetBitmap with clients that make at most MaxCalls calls each, and the   *)
(* fairness a scheduler gives: a thread that can take a step of its call   *)
(* eventually takes one.  mmap may fail but is not assumed to.             *)
(***************************************************************************)
EXTENDS PetBitmap

CONSTANT MaxCalls

VARIABLE calls  \* the calls each thread has made

BoundedInit == Init /\ calls = [t \in Thread |-> 0]

BoundedCall(t) ==
  /\ calls[t] < MaxCalls
  /\ calls' = [calls EXCEPT ![t] = @ + 1]
  /\ Call(t)

BoundedStep(t) == Step(t) /\ UNCHANGED calls

BoundedNext == \E t \in Thread : BoundedCall(t) \/ BoundedStep(t)

FairSpec ==
  /\ BoundedInit
  /\ [][BoundedNext]_<<vars, calls>>
  /\ \A t \in Thread : WF_<<vars, calls>>(BoundedStep(t))

(* Every call returns: no thread spins in grab_page for ever on a page     *)
(* that another one never puts back on a list.                             *)
CallsReturn == \A t \in Thread : pc[t] # "idle" ~> pc[t] = "idle"
=============================================================================
