---------------------------- MODULE SrbLifecycle ----------------------------
(***************************************************************************)
(* Making and undoing a synchronised ring buffer (ringbuffer_sync.c of     *)
(* src/src), with create_event and delete_event (sync_event.c).  The       *)
(* structure is allocated by srb_create, or embedded in another one and    *)
(* initialised in place by srb_init.  Every step can fail, and the client  *)
(* of an embedded one may call srb_fini after most failures, or twice.     *)
(*                                                                         *)
(* delete_event frees the event and leaves the pointer to it as it is, so  *)
(* the fields `more' and `less' may dangle.  Two failures leave something  *)
(* initialised for ever: the mutex of a buffer whose events cannot be      *)
(* made, and the condition variable of an event whose mutex cannot.        *)
(***************************************************************************)
EXTENDS Integers, FiniteSets

CONSTANTS
  Address,  \* what allocate can return for an event
  NULL

LifecycleAssumption == NULL \notin Address /\ IsFiniteSet(Address)

VARIABLES
  structure,  \* the SyncRingBuffer: "embedded", "allocated" or "none"
  pages,      \* the ring buffers mapped and not unmapped
  data,       \* ringbuf.data: "null", "mapped" or "MAP_FAILED"
  lock,       \* whether the mutex is initialised
  more, less,
  events,     \* the events allocated and not released
  left,       \* what was released without being destroyed: "lock", "cond"
  refused,    \* whether an event could not be made, ever
  wrong,      \* an event or a mutex has been undone that did not exist
  pc          \* where srb_init is: "idle" outside of it

fields == <<data, lock, more, less>>
vars == <<structure, pages, fields, events, left, refused, wrong, pc>>

Init ==
  /\ structure \in {"embedded", "none"}
  /\ pages = 0
  /\ data = "null" /\ lock = FALSE /\ more = NULL /\ less = NULL
  /\ events = {} /\ left = {}
  /\ refused = FALSE /\ wrong = FALSE
  /\ pc = "idle"

-----------------------------------------------------------------------------
(* The structure is allocated cleared; where allocate fails nothing        *)
(* happens.                                                                *)
srb_create ==
  /\ pc = "idle" /\ structure = "none"
  /\ structure' = "allocated"
  /\ data' = "null" /\ lock' = FALSE /\ more' = NULL /\ less' = NULL
  /\ pc' = "init_ringbuffer"
  /\ UNCHANGED <<pages, events, left, refused, wrong>>

srb_init ==
  /\ pc = "idle" /\ structure = "embedded" /\ data # "mapped"
  /\ pc' = "init_ringbuffer"
  /\ UNCHANGED <<structure, pages, fields, events, left, refused, wrong>>

(* srb_init returns false, to srb_create or to its client.                 *)
GiveUp == pc' = IF structure = "allocated" THEN "release" ELSE "idle"

init_ringbuffer ==
  /\ pc = "init_ringbuffer"
  /\ \/ data' = "mapped" /\ pages' = pages + 1 /\ pc' = "mtx_init"
     \/ data' = "MAP_FAILED" /\ GiveUp /\ UNCHANGED pages
  /\ UNCHANGED <<structure, lock, more, less, events, left, refused, wrong>>

(* munmap refuses MAP_FAILED.                                              *)
fini_ringbuffer ==
  /\ data' = "null"
  /\ pages' = IF data = "mapped" THEN pages - 1 ELSE pages

InitLock ==
  /\ pc = "mtx_init"
  /\ \/ /\ lock' = TRUE /\ pc' = "more"
        /\ UNCHANGED <<data, pages>>
     \/ /\ fini_ringbuffer /\ GiveUp
        /\ UNCHANGED lock
  /\ UNCHANGED <<structure, more, less, events, left, refused, wrong>>

(* What create_event returns and leaves: an event; null, when its memory   *)
(* or its condition variable cannot be had; or null when its mutex cannot, *)
(* where the memory is released with the condition variable in it.         *)
create_event(event) ==
  \/ /\ event \in Address \ events
     /\ events' = events \cup {event}
     /\ UNCHANGED <<left, refused>>
  \/ /\ event = NULL /\ refused' = TRUE
     /\ left' \in {left, left \cup {"cond"}}
     /\ UNCHANGED events

CreateMore ==
  /\ pc = "more"
  /\ more' \in Address \cup {NULL} /\ create_event(more')
  /\ pc' = "less"
  /\ UNCHANGED <<structure, pages, data, lock, less, wrong>>

CreateLess ==
  /\ pc = "less"
  /\ less' \in Address \cup {NULL} /\ create_event(less')
  /\ pc' = "check"
  /\ UNCHANGED <<structure, pages, data, lock, more, wrong>>

(* delete_event of each of several pointers, in turn.                      *)
Deleted(ptrs) ==
  /\ events' = events \ ptrs
  /\ wrong' = (wrong \/ ~(ptrs \subseteq events \cup {NULL}))

(* The mutex stays initialised.  The mutant deletes the events only if     *)
(* both are there.                                                         *)
undo_if_both == IF NULL \in {more, less} THEN {} ELSE {more, less}
undo == {more, less}

Check ==
  /\ pc = "check"
  /\ IF more # NULL /\ less # NULL
       THEN pc' = "idle" /\ UNCHANGED <<data, pages, events, wrong>>
       ELSE Deleted(undo) /\ fini_ringbuffer /\ GiveUp
  /\ UNCHANGED <<structure, lock, more, less, left, refused>>

(* What srb_create does when srb_init has failed.                          *)
Release ==
  /\ pc = "release"
  /\ structure' = "none"
  /\ left' = IF lock THEN left \cup {"lock"} ELSE left
  /\ pc' = "idle"
  /\ UNCHANGED <<pages, fields, events, refused, wrong>>

-----------------------------------------------------------------------------
initialised == data # "null"

Undo ==
  /\ IF initialised
       THEN /\ events' = events \ {more, less}
            /\ wrong' = (wrong \/ ~lock \/ ~({more, less} \subseteq events))
            /\ lock' = FALSE
            /\ fini_ringbuffer
       ELSE UNCHANGED <<events, wrong, lock, data, pages>>
  /\ UNCHANGED <<more, less, left, refused, pc>>

(* Where mmap has failed the test takes MAP_FAILED for a buffer: the       *)
(* client does not undo what it could not make there.                      *)
srb_fini ==
  /\ pc = "idle" /\ structure = "embedded" /\ data # "MAP_FAILED"
  /\ Undo
  /\ UNCHANGED structure

srb_delete ==
  /\ pc = "idle" /\ structure = "allocated"
  /\ Undo
  /\ structure' = "none"

Next ==
  \/ srb_create \/ srb_init \/ init_ringbuffer \/ InitLock
  \/ CreateMore \/ CreateLess \/ Check \/ Release
  \/ srb_fini \/ srb_delete

Spec == Init /\ [][Next]_vars

-----------------------------------------------------------------------------
(* No call undoes what is not there: events are released once, whichever   *)
(* step of srb_init failed and however often srb_fini follows.             *)
UndoneOnce == ~wrong

(* Between calls a buffer that is there has all its parts, and of one that *)
(* is not, no memory is left: no pages, no event, no structure.            *)
AllOrNothing ==
  pc = "idle" =>
    IF structure # "none" /\ data = "mapped"
    THEN lock /\ pages = 1 /\ events = {more, less} /\ NULL \notin events
    ELSE pages = 0 /\ events = {} /\ structure # "allocated"

(* Nor is a mutex or a condition variable, until an event cannot be made.  *)
(* After that they can be: this is all of srb_init's error path that       *)
(* leaves something behind.                                                *)
LeavesOnRefusal ==
  pc = "idle" /\ ~refused => left = {} /\ (data # "mapped" => ~lock)
=============================================================================
