----------------------------- MODULE SyncClients ----------------------------
(***************************************************************************)
(* A writer, a reader and a thread that resizes the buffer, all of one     *)
(* synchronised ring buffer.  The writer and the reader use the events the *)
(* way their comments in ringbuffer.h suggest: clear the event, try, and   *)
(* if there was no room, or nothing to read, wait for the event.           *)
(*                                                                         *)
(* Once a read of a wrapped buffer has put `head' outside of it, the model *)
(* stops the threads that call the buffer again (see Usable in RingBuffer),*)
(* and where shrinking aborts the program it stops them all.               *)
(***************************************************************************)
EXTENDS SyncRingBuffer

CONSTANTS
  writer, reader, resizer,
  Payload,   \* what the writer writes, call by call
  Resizes,   \* bound: the calls of the resizer
  timed      \* whether waits have a timeout

(* Three threads.  The reader never reads into a buffer without room.      *)
ASSUME ClientsAssumption ==
  /\ Thread = {writer, reader, resizer}
  /\ writer # reader /\ writer # resizer /\ reader # resizer
  /\ NULL \notin Thread
  /\ Payload \in Seq(Writes \ {<<>>})
  /\ 0 \notin Counts
  /\ Resizes \in Nat /\ timed \in BOOLEAN

VARIABLES
  todo,      \* what is left of Payload
  written,   \* the bytes of the writes that were not refused
  received,
  next,      \* what the writer and the reader do next: "clear", "try" or "wait"
  resizes    \* calls left to the resizer

client == <<todo, written, received, next, resizes>>
all_vars == <<srb, client>>

ClientsInit ==
  /\ SyncInit
  /\ todo = Payload /\ written = <<>> /\ received = <<>>
  /\ next = [t \in {writer, reader} |-> "clear"]
  /\ resizes = Resizes

Then(t, what) == next' = [next EXCEPT ![t] = what]

WriterCalls ==
  /\ Free(writer) /\ todo # <<>>
  /\ \/ /\ next[writer] = "clear"
        /\ Less!clear_event(writer)
        /\ Then(writer, "try")
        /\ UNCHANGED <<ringbuf, lock, more, pc, todo, written>>
     \/ /\ next[writer] = "try"
        /\ srb_write(writer, Head(todo))
        /\ todo' = IF call'.ok THEN Tail(todo) ELSE todo
        /\ written' = IF call'.ok THEN written \o Head(todo) ELSE written
        /\ Then(writer, IF call'.ok THEN "clear" ELSE "wait")
     \/ /\ next[writer] = "wait"
        /\ Less!wait_event(writer, timed)
        /\ Then(writer, "clear")
        /\ UNCHANGED <<ringbuf, lock, more, pc, todo, written>>
  /\ UNCHANGED <<received, resizes>>

ReaderCalls ==
  /\ Free(reader)
  /\ \/ /\ next[reader] = "clear"
        /\ More!clear_event(reader)
        /\ Then(reader, "try")
        /\ UNCHANGED <<ringbuf, lock, less, pc, received>>
     \/ /\ next[reader] = "try"
        /\ \E n \in Counts : srb_read(reader, n)
        /\ received' = received \o call'.bytes
        /\ Then(reader, IF call'.bytes = <<>> THEN "wait" ELSE "clear")
     \/ /\ next[reader] = "wait"
        /\ More!wait_event(reader, timed)
        /\ Then(reader, "clear")
        /\ UNCHANGED <<ringbuf, lock, less, pc, received>>
  /\ UNCHANGED <<todo, written, resizes>>

ResizerCalls ==
  /\ resizes > 0
  /\ \E n \in Sizes : srb_grow(resizer, n) \/ srb_shrink(resizer, n)
  /\ resizes' = resizes - 1
  /\ UNCHANGED <<todo, written, received, next>>

aborted == call.op = "abort"

Run(t) ==
  /\ ~aborted
  /\ \/ t = writer /\ WriterCalls
     \/ t = reader /\ ReaderCalls
     \/ t = resizer /\ ResizerCalls
     \/ Proceed(t) /\ UNCHANGED client

Spurious(t) == ~aborted /\ WakeSpuriously(t) /\ UNCHANGED client

ClientsNext == \E t \in Thread : Run(t) \/ Spurious(t)

(* Every thread that can go on again and again does: the mutex is not      *)
(* given to the same threads for ever.                                     *)
FairSpec ==
  ClientsInit /\ [][ClientsNext]_all_vars /\ \A t \in Thread : SF_all_vars(Run(t))

-----------------------------------------------------------------------------
(* From the try that came to nothing to the return of wait_event.          *)
Waits(t, thr) == next[t] = "wait" \/ thr[t].at # "out"

(* While the reader waits, data that came too late for its last read has   *)
(* set `more`, or is about to: no write forgets the event, and the reader  *)
(* does not clear what it has not seen.                                    *)
ReaderTold ==
  Waits(reader, more_thr) /\ head # tail =>
    more_flag \/ \E t \in Thread : pc[t] = "more"

(* The same for the writer: when its data would fit by now, because of a   *)
(* read or because the buffer has grown, `less` is set.                    *)
WriterTold ==
  Waits(writer, less_thr) /\ fits(Len(Head(todo))) =>
    less_flag \/ \E t \in Thread : pc[t] = "less"

(* Until a read finds the buffer wrapped, or a wrapped one shrinks less    *)
(* than it could (`careful' of RingBuffer), no byte of a write that was    *)
(* not refused is lost, doubled or out of order: it is with the reader or  *)
(* still in the buffer, through refused writes and another thread's growth *)
(* and shrinks.                                                            *)
BytesInOrder == careful => received \o contents = written

(* With timeouts every write gets through in the end and all of it         *)
(* arrives, although the buffer holds only part of it and is resized       *)
(* meanwhile, unless the reader comes to one of these two faults or        *)
(* shrinking aborts the program.                                           *)
AllArrives == <>((todo = <<>> /\ received = written) \/ ~careful \/ aborted)

-----------------------------------------------------------------------------
(* ringbuffer.h says of `more` "set when data is written to buffer": a     *)
(* reader that waits for it, with no timeout, gets to read what is written *)
(* after its last read.                                                    *)
WrittenIsRead == head # tail ~> head = tail
=============================================================================
