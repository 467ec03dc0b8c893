----------------------------- MODULE SyncProofs -----------------------------
(***************************************************************************)
(* The clients of a synchronised ring buffer, for any payload, sizes and   *)
(* counts: what they write and read stays in order, and a client that      *)
(* waits for an event has been told of whatever came after its last try.   *)
(*                                                                         *)
(* `more` and `less` are set with the mutex held, after the buffer has     *)
(* changed.  The thread that changed it is about to set the event until it *)
(* does; from then on only the client that waits for the event clears it,  *)
(* and that client tries again before it waits.  Of the buffer itself      *)
(* module RingBufferProofs says all that is needed.                        *)
(***************************************************************************)
EXTENDS SyncClients, RingBufferProofs

Places == {"out", "broadcast", "mtx_lock", "test", "cnd_wait", "asleep", "woken",
           "late", "return"}
Thr == [at : Places, timed : BOOLEAN, signalled : BOOLEAN]
Steps == {"idle", "more", "less", "unlock"}
Stages == {"clear", "try", "wait"}

SyncType ==
  /\ QueueInv
  /\ todo \in Seq(Writes \ {<<>>})
  /\ pc \in [Thread -> Steps] /\ pc[writer] # "less"
  /\ next \in [{writer, reader} -> Stages]
  /\ more_flag \in BOOLEAN /\ more_thr \in [Thread -> Thr]
  /\ less_flag \in BOOLEAN /\ less_thr \in [Thread -> Thr]

(* Some thread has changed the buffer and not yet set the event.           *)
AboutToSet(event, thr) == \E t \in Thread : pc[t] = event /\ thr[t].at = "out"

ReaderKnows ==
  Waits(reader, more_thr) /\ head # tail =>
    more_flag \/ AboutToSet("more", more_thr)

RoomForNext == fits(Len(Head(todo)))

WriterKnows ==
  Waits(writer, less_thr) =>
    /\ todo # <<>>
    /\ RoomForNext => less_flag \/ AboutToSet("less", less_thr)

InOrder ==
  careful =>
    /\ received \in Seq(Cell) /\ written \in Seq(Cell)
    /\ received \o contents = written

SyncInv == SyncType /\ ReaderKnows /\ WriterKnows /\ InOrder

LEMMA ThreadFacts ==
  /\ Thread = {writer, reader, resizer}
  /\ writer # reader /\ writer # resizer /\ reader # resizer
  /\ writer \in Thread /\ reader \in Thread /\ resizer \in Thread
BY ClientsAssumption

-----------------------------------------------------------------------------
(* The events.  The steps of a wait and a broadcast change no flag and     *)
(* make no thread that is out come in.                                     *)

Calm(thr, new) ==
  /\ new \in [Thread -> Thr]
  /\ \A t \in Thread : thr[t].at = "out" => new[t].at = "out"

(* One thread moves on, from a place in a wait. *)
LEMMA CalmMove ==
  ASSUME NEW thr \in [Thread -> Thr], NEW t \in Thread, NEW r \in Thr,
         thr[t].at # "out"
  PROVE  Calm(thr, [thr EXCEPT ![t] = r])
<1> DEFINE new == [thr EXCEPT ![t] = r]
<1>1. /\ new \in [Thread -> Thr] /\ new[t] = r
      /\ \A u \in Thread \ {t} : new[u] = thr[u]
  OBVIOUS
<1> HIDE DEF new
<1> QED BY <1>1 DEF Calm, new

(* Records of the threads after a step. *)
LEMMA ThrAt ==
  ASSUME NEW r \in Thr, NEW place \in Places
  PROVE  /\ [r EXCEPT !.at = place] \in Thr
         /\ [r EXCEPT !.at = place].at = place
BY DEF Thr

LEMMA ThrTested ==
  ASSUME NEW r \in Thr, NEW place \in Places, NEW s \in BOOLEAN
  PROVE  /\ [r EXCEPT !.signalled = s, !.at = place] \in Thr
         /\ [r EXCEPT !.signalled = s, !.at = place].at = place
BY DEF Thr

LEMMA ThrRelocked ==
  ASSUME NEW r \in Thr, NEW place \in Places, NEW s \in BOOLEAN
  PROVE  /\ [r EXCEPT !.at = place, !.signalled = s] \in Thr
         /\ [r EXCEPT !.at = place, !.signalled = s].at = place
BY DEF Thr

LEMMA ThrTimed ==
  ASSUME NEW r \in Thr, NEW place \in Places, NEW s \in BOOLEAN
  PROVE  /\ [r EXCEPT !.at = place, !.timed = s] \in Thr
         /\ [r EXCEPT !.at = place, !.timed = s].at = place
BY DEF Thr

(* The steps of a wait for `more`. *)
LEMMA MoreWaits ==
  ASSUME more_thr \in [Thread -> Thr], more_flag \in BOOLEAN, NEW t \in Thread,
         More!WaitStep(t) \/ More!TimeOut(t) \/ More!WakeSpuriously(t)
  PROVE  more_flag' = more_flag /\ Calm(more_thr, more_thr')
<1> DEFINE r == more_thr[t]
<1>1. r \in Thr OBVIOUS
<1>2. more_flag' = more_flag
  BY DEF More!WaitStep, More!Lock, More!Test, More!Sleep, More!Relock, More!Return,
         More!TimeOut, More!WakeSpuriously
<1>3. ASSUME NEW new \in Thr, more_thr' = [more_thr EXCEPT ![t] = new],
             r.at # "out"
      PROVE  Calm(more_thr, more_thr')
  BY <1>3, CalmMove
<1>4. CASE More!Lock(t)
  <2> DEFINE new == [r EXCEPT !.at = "test"]
  <2>1. more_thr' = [more_thr EXCEPT ![t] = new] /\ r.at = "mtx_lock"
    BY <1>4 DEF More!Lock, More!Goto
  <2>2. new \in Thr /\ new.at = "test" BY <1>1, ThrAt DEF Places
  <2> HIDE DEF new
  <2> QED BY <1>2, <1>3, <2>1, <2>2
<1>5. CASE More!Test(t)
  <2> DEFINE place == IF more_flag THEN "return" ELSE "cnd_wait"
             new == [r EXCEPT !.signalled = more_flag, !.at = place]
  <2>1. more_thr' = [more_thr EXCEPT ![t] = new] /\ r.at = "test"
    BY <1>5 DEF More!Test
  <2>2. place \in Places BY DEF Places
  <2> HIDE DEF place
  <2>3. new \in Thr /\ new.at = place BY <1>1, <2>2, ThrTested, Zenon
  <2> HIDE DEF new
  <2> QED BY <1>2, <1>3, <2>1, <2>2, <2>3
<1>6. CASE More!Sleep(t)
  <2> DEFINE new == [r EXCEPT !.at = "asleep"]
  <2>1. more_thr' = [more_thr EXCEPT ![t] = new] /\ r.at = "cnd_wait"
    BY <1>6 DEF More!Sleep, More!Goto
  <2>2. new \in Thr /\ new.at = "asleep" BY <1>1, ThrAt DEF Places
  <2> HIDE DEF new
  <2> QED BY <1>2, <1>3, <2>1, <2>2
<1>7. CASE More!Relock(t)
  <2> DEFINE s == IF r.timed THEN r.at = "woken" ELSE r.signalled
             place == "return"
             new == [r EXCEPT !.at = place, !.signalled = s]
  <2>1. more_thr' = [more_thr EXCEPT ![t] = new] /\ r.at \in {"woken", "late"}
    BY <1>7 DEF More!Relock
  <2>2. s \in BOOLEAN BY <1>1, Zenon DEF Thr
  <2>3. place \in Places /\ place # "out" BY DEF Places
  <2> HIDE DEF s, place
  <2>4. new \in Thr /\ new.at = place BY <1>1, <2>2, <2>3, ThrRelocked, Zenon
  <2> HIDE DEF new
  <2> QED BY <1>2, <1>3, <2>1, <2>3, <2>4
<1>8. CASE More!Return(t)
  <2> DEFINE new == [r EXCEPT !.at = "out"]
  <2>1. more_thr' = [more_thr EXCEPT ![t] = new] /\ r.at = "return"
    BY <1>8 DEF More!Return, More!Goto
  <2>2. new \in Thr /\ new.at = "out" BY <1>1, ThrAt DEF Places
  <2> HIDE DEF new
  <2> QED BY <1>2, <1>3, <2>1, <2>2
<1>9. CASE More!TimeOut(t)
  <2> DEFINE new == [r EXCEPT !.at = "late"]
  <2>1. more_thr' = [more_thr EXCEPT ![t] = new] /\ r.at = "asleep"
    BY <1>9 DEF More!TimeOut, More!Goto
  <2>2. new \in Thr /\ new.at = "late" BY <1>1, ThrAt DEF Places
  <2> HIDE DEF new
  <2> QED BY <1>2, <1>3, <2>1, <2>2
<1>10. CASE More!WakeSpuriously(t)
  <2> DEFINE new == [r EXCEPT !.at = "woken"]
  <2>1. more_thr' = [more_thr EXCEPT ![t] = new] /\ r.at = "asleep"
    BY <1>10 DEF More!WakeSpuriously, More!Goto
  <2>2. new \in Thr /\ new.at = "woken" BY <1>1, ThrAt DEF Places
  <2> HIDE DEF new
  <2> QED BY <1>2, <1>3, <2>1, <2>2
<1> QED BY <1>2, <1>4, <1>5, <1>6, <1>7, <1>8, <1>9, <1>10 DEF More!WaitStep

(* Entering it, *)
LEMMA MoreWaitBegins ==
  ASSUME more_thr \in [Thread -> Thr], NEW t \in Thread, NEW b \in BOOLEAN,
         More!wait_event(t, b)
  PROVE  /\ more_flag' = more_flag
         /\ more_thr' \in [Thread -> Thr]
         /\ more_thr'[t].at # "out"
         /\ \A u \in Thread \ {t} : more_thr'[u] = more_thr[u]
<1> DEFINE place == "mtx_lock"
           r == [more_thr[t] EXCEPT !.at = place, !.timed = b]
<1>1. more_thr' = [more_thr EXCEPT ![t] = r] /\ more_flag' = more_flag
  BY DEF More!wait_event
<1>2. place \in Places BY DEF Places
<1>3. more_thr[t] \in Thr OBVIOUS
<1> HIDE DEF place
<1>4. r \in Thr /\ r.at = place BY <1>2, <1>3, ThrTimed, Zenon
<1> HIDE DEF r
<1> QED BY <1>1, <1>4 DEF place

(* and setting the event. *)
LEMMA MoreSet ==
  ASSUME more_thr \in [Thread -> Thr], NEW t \in Thread
  PROVE  /\ More!set_event(t) =>
              /\ more_flag' = TRUE /\ more_thr' \in [Thread -> Thr]
         /\ More!Broadcast(t) =>
              /\ more_flag' = more_flag /\ Calm(more_thr, more_thr')
              /\ more_thr[t].at # "out"
<1>1. ASSUME More!set_event(t)
      PROVE  /\ more_flag' = TRUE /\ more_thr' \in [Thread -> Thr]
  <2> DEFINE r == [more_thr[t] EXCEPT !.at = "broadcast"]
  <2>1. more_thr' = [more_thr EXCEPT ![t] = r] /\ more_flag' = TRUE
    BY <1>1 DEF More!set_event, More!Goto
  <2>2. r \in Thr /\ r.at = "broadcast" BY ThrAt DEF Places
  <2> HIDE DEF r
  <2> QED BY <2>1, <2>2
<1>2. ASSUME More!Broadcast(t)
      PROVE  /\ more_flag' = more_flag /\ Calm(more_thr, more_thr')
             /\ more_thr[t].at # "out"
  <2> DEFINE to(u) == IF u = t THEN "out"
                      ELSE IF u \in More!woken THEN "woken" ELSE more_thr[u].at
  <2>1. /\ more_flag' = more_flag /\ more_thr[t].at = "broadcast"
        /\ more_thr' = [u \in Thread |-> [more_thr[u] EXCEPT !.at = to(u)]]
    BY <1>2 DEF More!Broadcast
  <2>2. ASSUME NEW u \in Thread
        PROVE  /\ to(u) \in Places
               /\ more_thr[u].at = "out" => to(u) = "out"
    <3>1. u \in More!woken => more_thr[u].at = "asleep" BY DEF More!woken
    <3>2. more_thr[u].at \in Places BY DEF Thr
    <3> QED BY <3>1, <3>2 DEF Places
  <2> HIDE DEF to
  <2>3. ASSUME NEW u \in Thread
        PROVE  more_thr'[u] \in Thr /\ more_thr'[u].at = to(u)
    <3> DEFINE r == more_thr[u]
               place == to(u)
    <3>1. r \in Thr /\ place \in Places BY <2>2
    <3>2. more_thr'[u] = [r EXCEPT !.at = place] BY <2>1
    <3> HIDE DEF r, place
    <3>3. [r EXCEPT !.at = place] \in Thr /\ [r EXCEPT !.at = place].at = place
      BY <3>1, ThrAt
    <3> QED BY <3>2, <3>3 DEF place
  <2>4. more_thr' \in [Thread -> Thr] BY <2>1, <2>3
  <2> QED BY <2>1, <2>2, <2>3, <2>4 DEF Calm
<1> QED BY <1>1, <1>2

(* The steps of a wait for `less`. *)
LEMMA LessWaits ==
  ASSUME less_thr \in [Thread -> Thr], less_flag \in BOOLEAN, NEW t \in Thread,
         Less!WaitStep(t) \/ Less!TimeOut(t) \/ Less!WakeSpuriously(t)
  PROVE  less_flag' = less_flag /\ Calm(less_thr, less_thr')
<1> DEFINE r == less_thr[t]
<1>1. r \in Thr OBVIOUS
<1>2. less_flag' = less_flag
  BY DEF Less!WaitStep, Less!Lock, Less!Test, Less!Sleep, Less!Relock, Less!Return,
         Less!TimeOut, Less!WakeSpuriously
<1>3. ASSUME NEW new \in Thr, less_thr' = [less_thr EXCEPT ![t] = new],
             r.at # "out"
      PROVE  Calm(less_thr, less_thr')
  BY <1>3, CalmMove
<1>4. CASE Less!Lock(t)
  <2> DEFINE new == [r EXCEPT !.at = "test"]
  <2>1. less_thr' = [less_thr EXCEPT ![t] = new] /\ r.at = "mtx_lock"
    BY <1>4 DEF Less!Lock, Less!Goto
  <2>2. new \in Thr /\ new.at = "test" BY <1>1, ThrAt DEF Places
  <2> HIDE DEF new
  <2> QED BY <1>2, <1>3, <2>1, <2>2
<1>5. CASE Less!Test(t)
  <2> DEFINE place == IF less_flag THEN "return" ELSE "cnd_wait"
             new == [r EXCEPT !.signalled = less_flag, !.at = place]
  <2>1. less_thr' = [less_thr EXCEPT ![t] = new] /\ r.at = "test"
    BY <1>5 DEF Less!Test
  <2>2. place \in Places BY DEF Places
  <2> HIDE DEF place
  <2>3. new \in Thr /\ new.at = place BY <1>1, <2>2, ThrTested, Zenon
  <2> HIDE DEF new
  <2> QED BY <1>2, <1>3, <2>1, <2>2, <2>3
<1>6. CASE Less!Sleep(t)
  <2> DEFINE new == [r EXCEPT !.at = "asleep"]
  <2>1. less_thr' = [less_thr EXCEPT ![t] = new] /\ r.at = "cnd_wait"
    BY <1>6 DEF Less!Sleep, Less!Goto
  <2>2. new \in Thr /\ new.at = "asleep" BY <1>1, ThrAt DEF Places
  <2> HIDE DEF new
  <2> QED BY <1>2, <1>3, <2>1, <2>2
<1>7. CASE Less!Relock(t)
  <2> DEFINE s == IF r.timed THEN r.at = "woken" ELSE r.signalled
             place == "return"
             new == [r EXCEPT !.at = place, !.signalled = s]
  <2>1. less_thr' = [less_thr EXCEPT ![t] = new] /\ r.at \in {"woken", "late"}
    BY <1>7 DEF Less!Relock
  <2>2. s \in BOOLEAN BY <1>1, Zenon DEF Thr
  <2>3. place \in Places /\ place # "out" BY DEF Places
  <2> HIDE DEF s, place
  <2>4. new \in Thr /\ new.at = place BY <1>1, <2>2, <2>3, ThrRelocked, Zenon
  <2> HIDE DEF new
  <2> QED BY <1>2, <1>3, <2>1, <2>3, <2>4
<1>8. CASE Less!Return(t)
  <2> DEFINE new == [r EXCEPT !.at = "out"]
  <2>1. less_thr' = [less_thr EXCEPT ![t] = new] /\ r.at = "return"
    BY <1>8 DEF Less!Return, Less!Goto
  <2>2. new \in Thr /\ new.at = "out" BY <1>1, ThrAt DEF Places
  <2> HIDE DEF new
  <2> QED BY <1>2, <1>3, <2>1, <2>2
<1>9. CASE Less!TimeOut(t)
  <2> DEFINE new == [r EXCEPT !.at = "late"]
  <2>1. less_thr' = [less_thr EXCEPT ![t] = new] /\ r.at = "asleep"
    BY <1>9 DEF Less!TimeOut, Less!Goto
  <2>2. new \in Thr /\ new.at = "late" BY <1>1, ThrAt DEF Places
  <2> HIDE DEF new
  <2> QED BY <1>2, <1>3, <2>1, <2>2
<1>10. CASE Less!WakeSpuriously(t)
  <2> DEFINE new == [r EXCEPT !.at = "woken"]
  <2>1. less_thr' = [less_thr EXCEPT ![t] = new] /\ r.at = "asleep"
    BY <1>10 DEF Less!WakeSpuriously, Less!Goto
  <2>2. new \in Thr /\ new.at = "woken" BY <1>1, ThrAt DEF Places
  <2> HIDE DEF new
  <2> QED BY <1>2, <1>3, <2>1, <2>2
<1> QED BY <1>2, <1>4, <1>5, <1>6, <1>7, <1>8, <1>9, <1>10 DEF Less!WaitStep

(* Entering it, *)
LEMMA LessWaitBegins ==
  ASSUME less_thr \in [Thread -> Thr], NEW t \in Thread, NEW b \in BOOLEAN,
         Less!wait_event(t, b)
  PROVE  /\ less_flag' = less_flag
         /\ less_thr' \in [Thread -> Thr]
         /\ less_thr'[t].at # "out"
         /\ \A u \in Thread \ {t} : less_thr'[u] = less_thr[u]
<1> DEFINE place == "mtx_lock"
           r == [less_thr[t] EXCEPT !.at = place, !.timed = b]
<1>1. less_thr' = [less_thr EXCEPT ![t] = r] /\ less_flag' = less_flag
  BY DEF Less!wait_event
<1>2. place \in Places BY DEF Places
<1>3. less_thr[t] \in Thr OBVIOUS
<1> HIDE DEF place
<1>4. r \in Thr /\ r.at = place BY <1>2, <1>3, ThrTimed, Zenon
<1> HIDE DEF r
<1> QED BY <1>1, <1>4 DEF place

(* and setting the event. *)
LEMMA LessSet ==
  ASSUME less_thr \in [Thread -> Thr], NEW t \in Thread
  PROVE  /\ Less!set_event(t) =>
              /\ less_flag' = TRUE /\ less_thr' \in [Thread -> Thr]
              /\ \A u \in Thread \ {t} : less_thr'[u] = less_thr[u]
         /\ Less!Broadcast(t) =>
              /\ less_flag' = less_flag /\ Calm(less_thr, less_thr')
              /\ less_thr[t].at # "out"
<1>1. ASSUME Less!set_event(t)
      PROVE  /\ less_flag' = TRUE /\ less_thr' \in [Thread -> Thr]
             /\ \A u \in Thread \ {t} : less_thr'[u] = less_thr[u]
  <2> DEFINE r == [less_thr[t] EXCEPT !.at = "broadcast"]
  <2>1. less_thr' = [less_thr EXCEPT ![t] = r] /\ less_flag' = TRUE
    BY <1>1 DEF Less!set_event, Less!Goto
  <2>2. r \in Thr /\ r.at = "broadcast" BY ThrAt DEF Places
  <2> HIDE DEF r
  <2> QED BY <2>1, <2>2
<1>2. ASSUME Less!Broadcast(t)
      PROVE  /\ less_flag' = less_flag /\ Calm(less_thr, less_thr')
             /\ less_thr[t].at # "out"
  <2> DEFINE to(u) == IF u = t THEN "out"
                      ELSE IF u \in Less!woken THEN "woken" ELSE less_thr[u].at
  <2>1. /\ less_flag' = less_flag /\ less_thr[t].at = "broadcast"
        /\ less_thr' = [u \in Thread |-> [less_thr[u] EXCEPT !.at = to(u)]]
    BY <1>2 DEF Less!Broadcast
  <2>2. ASSUME NEW u \in Thread
        PROVE  /\ to(u) \in Places
               /\ less_thr[u].at = "out" => to(u) = "out"
    <3>1. u \in Less!woken => less_thr[u].at = "asleep" BY DEF Less!woken
    <3>2. less_thr[u].at \in Places BY DEF Thr
    <3> QED BY <3>1, <3>2 DEF Places
  <2> HIDE DEF to
  <2>3. ASSUME NEW u \in Thread
        PROVE  less_thr'[u] \in Thr /\ less_thr'[u].at = to(u)
    <3> DEFINE r == less_thr[u]
               place == to(u)
    <3>1. r \in Thr /\ place \in Places BY <2>2
    <3>2. less_thr'[u] = [r EXCEPT !.at = place] BY <2>1
    <3> HIDE DEF r, place
    <3>3. [r EXCEPT !.at = place] \in Thr /\ [r EXCEPT !.at = place].at = place
      BY <3>1, ThrAt
    <3> QED BY <3>2, <3>3 DEF place
  <2>4. less_thr' \in [Thread -> Thr] BY <2>1, <2>3
  <2> QED BY <2>1, <2>2, <2>3, <2>4 DEF Calm
<1> QED BY <1>1, <1>2

-----------------------------------------------------------------------------
(* The buffer, as its clients see it. *)

LEMMA BufferKept ==
  ASSUME QueueInv, [Next]_vars
  PROVE  QueueInv'
BY BoundsStep, ShapeStep DEF QueueInv

LEMMA Usably ==
  ASSUME QueueInv, Usable
  PROVE  /\ size \in Nat \ {0} /\ head \in 0 .. size - 1 /\ tail \in 0 .. size - 1
         /\ data \in Buf(size) /\ contents \in Seq(Cell)
<1>1. Ring(data, size, head, tail) /\ contents \in Seq(Cell) BY RingNow
<1> QED BY <1>1 DEF Ring, QueueInv, BoundsInv

(* A read that returns nothing leaves an empty buffer. *)
LEMMA EmptyRead ==
  ASSUME QueueInv, NEW n \in Counts, n # 0,
         ReadStraight(n) \/ ReadUpper(n) \/ ReadBoth(n), call'.bytes = <<>>
  PROVE  head' = tail'
<1>1. n \in Nat /\ Usable
  <2>1. n \in Nat BY SizesAssumption DEF SizesAssumption
  <2>2. Usable BY DEF ReadStraight, ReadUpper, ReadBoth
  <2> QED BY <2>1, <2>2
<1>2. /\ size \in Nat \ {0} /\ head \in 0 .. size - 1 /\ tail \in 0 .. size - 1
      /\ data \in Buf(size)
  BY <1>1, Usably
<1>3. ASSUME NEW i \in Nat, NEW m \in Nat
      PROVE  bytes_at(i, m) \in Seq(Cell) /\ Len(bytes_at(i, m)) = m
  <2>1. bytes_at(i, m) = From(data, i, m) BY DEF bytes_at, peek, From
  <2>2. IsFrom(From(data, i, m), data, size, i, m) BY <1>2, FromIs
  <2> QED BY <2>1, <2>2 DEF IsFrom
<1>4. CASE ReadStraight(n)
  <2> DEFINE m == Smaller(tail - head, n)
  <2>1. /\ ~(head > tail) /\ head' = head + m /\ tail' = tail
        /\ call'.bytes = bytes_at(head, m)
    BY <1>4 DEF ReadStraight, Wrapped, Return
  <2>2. m \in Nat /\ (m = 0 => head = tail) BY <1>1, <1>2, <2>1 DEF Smaller
  <2> HIDE DEF m
  <2>3. m = 0
    <3>1. Len(bytes_at(head, m)) = m BY <1>2, <1>3, <2>2
    <3> QED BY <2>1, <3>1
  <2> QED BY <1>2, <2>1, <2>2, <2>3
<1>5. CASE ReadUpper(n)
  <2>1. call'.bytes = bytes_at(head, n) BY <1>5 DEF ReadUpper, Return
  <2>2. Len(bytes_at(head, n)) = n BY <1>1, <1>2, <1>3
  <2> QED BY <2>1, <2>2
<1>6. CASE ReadBoth(n)
  <2> DEFINE u == size - tail
             l == Smaller(tail, n - u)
             upper == bytes_at(head, u)
             lower == bytes_at(0, l)
  <2>1. n > u /\ call'.bytes = upper \o lower BY <1>6 DEF ReadBoth, Return
  <2>2. u \in Nat \ {0} /\ l \in Nat BY <1>1, <1>2, <2>1 DEF Smaller
  <2> HIDE DEF u, l
  <2>3. upper \in Seq(Cell) /\ Len(upper) = u /\ lower \in Seq(Cell) /\ Len(lower) = l
    <3>1. head \in Nat /\ u \in Nat BY <1>2, <2>2
    <3>2. bytes_at(head, u) \in Seq(Cell) /\ Len(bytes_at(head, u)) = u BY <1>3, <3>1
    <3>3. 0 \in Nat /\ l \in Nat BY <2>2
    <3>4. bytes_at(0, l) \in Seq(Cell) /\ Len(bytes_at(0, l)) = l BY <1>3, <3>3
    <3> QED BY <3>2, <3>4
  <2> HIDE DEF upper, lower
  <2>4. Len(upper \o lower) = u + l BY <2>3, ConcatProperties
  <2> QED BY <2>1, <2>2, <2>4
<1> QED BY <1>4, <1>5, <1>6

LEMMA Joined ==
  ASSUME NEW a \in Seq(Cell), NEW b \in Seq(Cell), NEW c \in Seq(Cell)
  PROVE  (a \o b) \o c = a \o (b \o c)
<1> DEFINE S == Cell
<1>1. a \in Seq(S) /\ b \in Seq(S) /\ c \in Seq(S) OBVIOUS
<1> HIDE DEF S
<1> QED BY <1>1, ConcatAssociative

(* What is taken from the front and what is left are the whole.            *)
LEMMA WholeSeq ==
  ASSUME NEW S, NEW q \in Seq(S), NEW m \in 0 .. Len(q)
  PROVE  SubSeq(q, 1, m) \o SubSeq(q, m + 1, Len(q)) = q
<1> DEFINE one == 1
           n == Len(q)
<1>1. one \in 1 .. Len(q) + 1 /\ m \in one - 1 .. Len(q) /\ n \in m .. Len(q)
  OBVIOUS
<1>2. SubSeq(q, 1, m) \o SubSeq(q, m + 1, Len(q)) = SubSeq(q, 1, Len(q))
  <2> HIDE DEF one, n
  <2>1. SubSeq(q, one, m) \o SubSeq(q, m + 1, n) = SubSeq(q, one, n)
    BY <1>1, ConcatAdjacentSubSeq
  <2> QED BY <2>1 DEF one, n
<1>3. SubSeq(q, 1, Len(q)) = q OBVIOUS
<1> QED BY <1>2, <1>3

(* A careful client's read delivers what it takes from the front.          *)
LEMMA ReadDelivers ==
  ASSUME QueueInv, NEW n \in Counts, careful',
         ReadStraight(n) \/ ReadUpper(n) \/ ReadBoth(n)
  PROVE  /\ contents \in Seq(Cell) /\ contents' \in Seq(Cell)
         /\ call'.bytes \in Seq(Cell) /\ call'.bytes \o contents' = contents
<1>1. ReadStraight(n) BY DEF ReadUpper, ReadBoth
<1>2. contents \in Seq(Cell) BY <1>1, Usably DEF ReadStraight
<1> DEFINE k == IF n < Len(contents) THEN n ELSE Len(contents)
<1>3. n \in Nat /\ Len(contents) \in Nat
  BY <1>2, LenProperties, SizesAssumption DEF SizesAssumption
<1>4. k \in 0 .. Len(contents) BY <1>3
<1>5. /\ call'.bytes = SubSeq(contents, 1, k)
      /\ contents' = SubSeq(contents, k + 1, Len(contents))
  BY <1>1, ReadQueue
<1> HIDE DEF k
<1>6. /\ SubSeq(contents, 1, k) \in Seq(Cell)
      /\ SubSeq(contents, k + 1, Len(contents)) \in Seq(Cell)
  <2>1. contents \in [1 .. Len(contents) -> Cell] BY <1>2, LenProperties
  <2> QED BY <1>3, <1>4, <2>1, SubSeqProperties
<1> QED BY <1>2, <1>4, <1>5, <1>6, WholeSeq

(* Resizing never makes an empty buffer one with data, nor does shrinking  *)
(* make room for a write.                                                  *)
LEMMA ShrinkMakesNoRoom ==
  ASSUME QueueInv, NEW n \in Sizes, Shrink(n) \/ ShrinkReturns(n) \/ ShrinkAborts(n)
  PROVE  /\ head = tail => head' = tail'
         /\ \A m \in Nat : fits(m)' => fits(m)
<1> DEFINE avail(z, h, t) == IF h > t THEN h - t ELSE h + (z - t)
<1>1. Usable BY DEF Shrink, ShrinkReturns, ShrinkAborts
<1>2. /\ size \in Nat \ {0} /\ head \in 0 .. size - 1 /\ tail \in 0 .. size - 1
  BY <1>1, Usably
<1>3. /\ \A m \in Nat : fits(m) <=> m < avail(size, head, tail)
      /\ \A m \in Nat : fits(m)' <=> m < avail(size', head', tail')
  BY DEF fits, bytes_avail, tail_len, Wrapped
<1>4. ASSUME avail(size', head', tail') \in Int,
             avail(size', head', tail') <= avail(size, head, tail)
      PROVE  \A m \in Nat : fits(m)' => fits(m)
  <2>1. avail(size, head, tail) \in Int BY <1>2
  <2> HIDE DEF avail
  <2> QED BY <1>3, <1>4, <2>1
<1>5. CASE Shrink(n)
  <2> DEFINE x == shrinkable_bytes
             free == IF Wrapped THEN head - tail - 1 ELSE head + size - tail - 1
  <2>1. free \in Nat BY <1>2 DEF Wrapped
  <2>2. x \in 0 .. free BY <2>1, PageFloor DEF shrinkable_bytes
  <2>3. page_size_for(n) \in Nat /\ page_size_for(n) < size
    BY <1>5, PositiveSize DEF Shrink
  <2>4. /\ size' = IF page_size_for(n) < size - x THEN size - x ELSE page_size_for(n)
        /\ IF head > tail THEN head' = head - x /\ tail' = tail
                          ELSE head' = 0 /\ tail' = tail - head
    BY <1>5 DEF Shrink, Wrapped
  <2> HIDE DEF x
  <2>5. CASE head > tail BY <1>2, <1>4, <2>2, <2>4, <2>5 DEF Wrapped
  <2>6. CASE ~(head > tail)
    <3>1. size' \in Int /\ size' <= size BY <1>2, <2>1, <2>2, <2>3, <2>4
    <3> QED BY <1>2, <1>4, <2>4, <2>6, <3>1
  <2> QED BY <2>5, <2>6
<1>6. CASE ShrinkReturns(n)
  <2>1. /\ size' = size
        /\ (head' = head /\ tail' = tail) \/ (head = tail /\ head' = 0 /\ tail' = 0)
    BY <1>6 DEF ShrinkReturns
  <2> QED BY <1>2, <1>4, <2>1
<1>7. CASE ShrinkAborts(n)
  <2>1. size' = size /\ head' = head /\ tail' = tail BY <1>7 DEF ShrinkAborts, bounds
  <2> QED BY <1>2, <1>4, <2>1
<1> QED BY <1>5, <1>6, <1>7

LEMMA GrowKeepsEmpty ==
  ASSUME QueueInv, NEW n \in Sizes, Grow(n) \/ GrowRefused(n), head = tail
  PROVE  head' = tail'
<1>1. head \in Nat /\ tail \in Nat BY DEF QueueInv, BoundsInv
<1>2. (head' = head \/ head > tail) /\ tail' = tail
  BY DEF Grow, GrowRefused, Wrapped, bounds
<1> QED BY <1>1, <1>2

-----------------------------------------------------------------------------
(* The steps.  A thread that takes the mutex is in no wait, and leaves the *)
(* others where they are. *)

LEMMA PcChange ==
  ASSUME SyncType, NEW t \in Thread, NEW p \in Steps, pc' = [pc EXCEPT ![t] = p],
         t = writer => p # "less"
  PROVE  /\ pc' \in [Thread -> Steps] /\ pc'[writer] # "less"
         /\ pc'[t] = p /\ \A u \in Thread \ {t} : pc'[u] = pc[u]
BY ThreadFacts DEF SyncType

LEMMA NextChange ==
  ASSUME SyncType, NEW t \in {writer, reader}, NEW what \in Stages, Then(t, what)
  PROVE  /\ next' \in [{writer, reader} -> Stages]
         /\ next'[t] = what /\ \A u \in {writer, reader} \ {t} : next'[u] = next[u]
BY DEF SyncType, Then

(* Whatever leaves the buffer alone. *)
LEMMA SameBuffer ==
  ASSUME SyncInv, UNCHANGED ringbuf
  PROVE  /\ QueueInv' /\ head' = head /\ tail' = tail
         /\ todo' = todo => (RoomForNext' <=> RoomForNext)
         /\ (received' = received /\ written' = written) => InOrder'
<1>1. UNCHANGED <<data, size, head, tail, careful>> BY DEF ringbuf, vars
<1>2. contents' = contents BY <1>1, SameQueue
<1>3. QueueInv' BY BufferKept DEF SyncInv, SyncType, ringbuf
<1>4. todo' = todo => (RoomForNext' <=> RoomForNext)
  BY <1>1 DEF RoomForNext, fits, bytes_avail, tail_len, Wrapped
<1>5. (received' = received /\ written' = written) => InOrder'
  BY <1>1, <1>2 DEF SyncInv, InOrder
<1> QED BY <1>1, <1>3, <1>4, <1>5

(* A step of a wait, or a broadcast, by whichever thread. *)
LEMMA CalmMoreKeeps ==
  ASSUME SyncInv, more_flag' = more_flag, Calm(more_thr, more_thr'),
         UNCHANGED <<ringbuf, less, pc, client>>
  PROVE  SyncInv'
<1>1. /\ todo' = todo /\ pc' = pc /\ next' = next /\ received' = received
      /\ written' = written /\ less_flag' = less_flag /\ less_thr' = less_thr
  BY DEF less, client
<1>2. /\ QueueInv' /\ InOrder' /\ head' = head /\ tail' = tail
      /\ RoomForNext' <=> RoomForNext
  BY <1>1, SameBuffer
<1>3. SyncType' BY <1>1, <1>2 DEF SyncInv, SyncType, Calm
<1>4. Waits(reader, more_thr)' => Waits(reader, more_thr)
  BY <1>1, ThreadFacts DEF Waits, Calm
<1>5. AboutToSet("more", more_thr) => AboutToSet("more", more_thr)'
  BY <1>1 DEF AboutToSet, Calm
<1>6. ReaderKnows' BY <1>1, <1>2, <1>4, <1>5 DEF SyncInv, ReaderKnows
<1>7. WriterKnows' BY <1>1, <1>2 DEF SyncInv, WriterKnows, Waits, AboutToSet
<1> QED BY <1>2, <1>3, <1>6, <1>7 DEF SyncInv

LEMMA CalmLessKeeps ==
  ASSUME SyncInv, less_flag' = less_flag, Calm(less_thr, less_thr'),
         UNCHANGED <<ringbuf, more, pc, client>>
  PROVE  SyncInv'
<1>1. /\ todo' = todo /\ pc' = pc /\ next' = next /\ received' = received
      /\ written' = written /\ more_flag' = more_flag /\ more_thr' = more_thr
  BY DEF more, client
<1>2. /\ QueueInv' /\ InOrder' /\ head' = head /\ tail' = tail
      /\ RoomForNext' <=> RoomForNext
  BY <1>1, SameBuffer
<1>3. SyncType' BY <1>1, <1>2 DEF SyncInv, SyncType, Calm
<1>4. Waits(writer, less_thr)' => Waits(writer, less_thr)
  BY <1>1, ThreadFacts DEF Waits, Calm
<1>5. AboutToSet("less", less_thr) => AboutToSet("less", less_thr)'
  BY <1>1 DEF AboutToSet, Calm
<1>6. WriterKnows' BY <1>1, <1>2, <1>4, <1>5 DEF SyncInv, WriterKnows
<1>7. ReaderKnows' BY <1>1, <1>2 DEF SyncInv, ReaderKnows, Waits, AboutToSet
<1> QED BY <1>2, <1>3, <1>6, <1>7 DEF SyncInv

(* A write that is not refused adds to the end of what is in order; after  *)
(* one that is, the writer waits with the data it has.                     *)
LEMMA TryWrite ==
  ASSUME SyncInv, todo # <<>>, srb_write(writer, Head(todo)),
         todo' = IF call'.ok THEN Tail(todo) ELSE todo,
         written' = IF call'.ok THEN written \o Head(todo) ELSE written,
         received' = received
  PROVE  /\ QueueInv' /\ InOrder' /\ todo' \in Seq(Writes \ {<<>>})
         /\ call'.ok \in BOOLEAN
         /\ ~call'.ok => todo' = todo /\ ~RoomForNext'
<1> DEFINE s == Head(todo)
           W == Writes \ {<<>>}
<1>1. QueueInv /\ InOrder /\ todo \in Seq(W) BY DEF SyncInv, SyncType
<1> HIDE DEF W
<1>2. s \in W /\ Tail(todo) \in Seq(W) BY <1>1
<1>3. s \in Writes /\ s \in Seq(Cell) BY <1>2, WritesAreSequences DEF W
<1>4. Write(s) \/ WriteRefused(s) BY DEF srb_write
<1> HIDE DEF s
<1>5. QueueInv' BY <1>1, <1>3, <1>4, BufferKept DEF Next
<1>6. CASE Write(s)
  <2>1. call'.ok = TRUE /\ careful' = careful /\ Usable
    BY <1>6 DEF Write, Return
  <2>2. contents' = contents \o s /\ contents \in Seq(Cell)
    BY <1>1, <1>3, <1>6, <2>1, WriteQueue, Usably
  <2>3. todo' = Tail(todo) /\ written' = written \o s BY <2>1 DEF s
  <2>4. ASSUME careful'
        PROVE  /\ received' \in Seq(Cell) /\ written' \in Seq(Cell)
               /\ received' \o contents' = written'
    <3>1. /\ received \in Seq(Cell) /\ written \in Seq(Cell)
          /\ received \o contents = written
      BY <1>1, <2>1, <2>4 DEF InOrder
    <3>2. (received \o contents) \o s = received \o (contents \o s)
      BY <1>3, <2>2, <3>1, Joined
    <3>3. written \o s \in Seq(Cell) BY <1>3, <3>1, ConcatProperties
    <3> QED BY <2>2, <2>3, <3>1, <3>2, <3>3
  <2>5. InOrder' BY <2>4 DEF InOrder
  <2> QED BY <1>2, <1>5, <2>1, <2>3, <2>5 DEF W
<1>7. CASE WriteRefused(s)
  <2>1. /\ call'.ok = FALSE /\ careful' = careful /\ ~fits(Len(s))
        /\ UNCHANGED <<data, size, head, tail>>
    BY <1>7 DEF WriteRefused, Return, bounds
  <2>2. contents' = contents BY <2>1, SameQueue
  <2>3. todo' = todo /\ written' = written BY <2>1
  <2>4. InOrder' BY <1>1, <2>1, <2>2, <2>3 DEF InOrder
  <2>5. ~RoomForNext'
    BY <2>1, <2>3 DEF RoomForNext, fits, bytes_avail, tail_len, Wrapped, s
  <2> QED BY <1>1, <1>5, <2>1, <2>3, <2>4, <2>5 DEF W
<1> QED BY <1>4, <1>6, <1>7

(* A read passes on from the front; after one that found nothing, the      *)
(* reader waits at an empty buffer.                                        *)
LEMMA TryRead ==
  ASSUME SyncInv, NEW n \in Counts, srb_read(reader, n),
         received' = received \o call'.bytes, written' = written
  PROVE  /\ QueueInv' /\ InOrder'
         /\ call'.bytes = <<>> => head' = tail'
<1>1. QueueInv /\ InOrder BY DEF SyncInv, SyncType
<1>2. n # 0 BY ClientsAssumption
<1>3. ReadStraight(n) \/ ReadUpper(n) \/ ReadBoth(n) BY DEF srb_read
<1>4. QueueInv' BY <1>1, <1>3, BufferKept DEF Next
<1>5. call'.bytes = <<>> => head' = tail' BY <1>1, <1>2, <1>3, EmptyRead
<1>6. ASSUME careful'
      PROVE  /\ received' \in Seq(Cell) /\ written' \in Seq(Cell)
             /\ received' \o contents' = written'
  <2>1. careful BY <1>3, <1>6 DEF ReadStraight, ReadUpper, ReadBoth
  <2>2. /\ received \in Seq(Cell) /\ written \in Seq(Cell)
        /\ received \o contents = written
    BY <1>1, <2>1 DEF InOrder
  <2>3. /\ contents' \in Seq(Cell) /\ call'.bytes \in Seq(Cell)
        /\ call'.bytes \o contents' = contents
    BY <1>1, <1>3, <1>6, ReadDelivers
  <2>4. (received \o call'.bytes) \o contents' = received \o (call'.bytes \o contents')
    <3> DEFINE bytes == call'.bytes
               rest == contents'
    <3>1. received \in Seq(Cell) /\ bytes \in Seq(Cell) /\ rest \in Seq(Cell)
      BY <2>2, <2>3
    <3> HIDE DEF bytes, rest
    <3>2. (received \o bytes) \o rest = received \o (bytes \o rest) BY <3>1, Joined
    <3> QED BY <3>2 DEF bytes, rest
  <2>5. received \o call'.bytes \in Seq(Cell) BY <2>2, <2>3, ConcatProperties
  <2>6. received' \in Seq(Cell) /\ written' \in Seq(Cell) BY <2>2, <2>5
  <2>7. received' \o contents' = received \o (call'.bytes \o contents') BY <2>4
  <2>8. received' \o contents' = received \o contents BY <2>3, <2>7
  <2> QED BY <2>2, <2>6, <2>8
<1>7. InOrder' BY <1>6 DEF InOrder
<1> QED BY <1>4, <1>5, <1>7

(* A resize leaves the order of the bytes. *)
LEMMA ResizeInOrder ==
  ASSUME SyncInv, NEW n \in Sizes,
         GrowRefused(n) \/ Grow(n) \/ ShrinkReturns(n) \/ Shrink(n) \/ ShrinkAborts(n),
         received' = received, written' = written
  PROVE  QueueInv' /\ InOrder'
<1>1. QueueInv /\ InOrder BY DEF SyncInv, SyncType
<1>2. QueueInv' BY <1>1, BufferKept DEF Next
<1>3. careful' => careful BY DEF GrowRefused, Grow, ShrinkReturns, Shrink, ShrinkAborts
<1>4. ASSUME careful' PROVE contents' = contents
  <2>1. Abstract!Resize BY <1>1, <1>4, SizeStep
  <2> QED BY <2>1 DEF Abstract!Resize
<1>5. InOrder' BY <1>1, <1>3, <1>4 DEF InOrder
<1> QED BY <1>2, <1>5

LEMMA WriterKeeps ==
  ASSUME SyncInv, WriterCalls
  PROVE  SyncInv'
<1>1. SyncType /\ ReaderKnows /\ WriterKnows BY DEF SyncInv
<1>2. /\ todo # <<>> /\ received' = received
      /\ pc[writer] = "idle" /\ more_thr[writer].at = "out" /\ less_thr[writer].at = "out"
  BY DEF WriterCalls, Free
<1>3. writer \in Thread /\ reader \in Thread /\ writer # reader BY ThreadFacts
<1>4. ASSUME Less!clear_event(writer), Then(writer, "try"),
             UNCHANGED <<ringbuf, lock, more, pc, todo, written>>
      PROVE  SyncInv'
  <2>1. /\ less_flag' = FALSE /\ less_thr' = less_thr
        /\ more_flag' = more_flag /\ more_thr' = more_thr
        /\ todo' = todo /\ pc' = pc /\ written' = written
    BY <1>4 DEF Less!clear_event, more
  <2>2. QueueInv' /\ InOrder' /\ head' = head /\ tail' = tail
    BY <1>2, <1>4, SameBuffer
  <2>3. /\ next' \in [{writer, reader} -> Stages]
        /\ next'[writer] = "try" /\ next'[reader] = next[reader]
    BY <1>1, <1>3, <1>4, NextChange DEF Stages
  <2>4. SyncType' BY <1>1, <2>1, <2>2, <2>3 DEF SyncType
  <2>5. ReaderKnows' BY <1>1, <2>1, <2>2, <2>3 DEF ReaderKnows, Waits, AboutToSet
  <2>6. WriterKnows' BY <1>2, <2>1, <2>3 DEF WriterKnows, Waits
  <2> QED BY <2>2, <2>4, <2>5, <2>6 DEF SyncInv
<1>5. ASSUME srb_write(writer, Head(todo)),
             todo' = IF call'.ok THEN Tail(todo) ELSE todo,
             written' = IF call'.ok THEN written \o Head(todo) ELSE written,
             Then(writer, IF call'.ok THEN "clear" ELSE "wait")
      PROVE  SyncInv'
  <2>1. /\ more_flag' = more_flag /\ more_thr' = more_thr
        /\ less_flag' = less_flag /\ less_thr' = less_thr
        /\ pc' = [pc EXCEPT ![writer] = "more"]
    BY <1>5 DEF srb_write, Enter, after_write, more, less
  <2>2. /\ QueueInv' /\ InOrder' /\ todo' \in Seq(Writes \ {<<>>})
        /\ call'.ok \in BOOLEAN
        /\ ~call'.ok => todo' = todo /\ ~RoomForNext'
    BY <1>2, <1>5, TryWrite
  <2>3. /\ next' \in [{writer, reader} -> Stages]
        /\ next'[writer] = IF call'.ok THEN "clear" ELSE "wait"
        /\ next'[reader] = next[reader]
    <3> DEFINE what == IF call'.ok THEN "clear" ELSE "wait"
    <3>1. what \in Stages /\ Then(writer, what) BY <1>5 DEF Stages
    <3> HIDE DEF what
    <3>2. /\ next' \in [{writer, reader} -> Stages]
          /\ next'[writer] = what /\ next'[reader] = next[reader]
      BY <1>1, <1>3, <3>1, NextChange
    <3> QED BY <3>2 DEF what
  <2>4. /\ pc' \in [Thread -> Steps] /\ pc'[writer] # "less" /\ pc'[writer] = "more"
    BY <1>1, <1>3, <2>1, PcChange DEF Steps
  <2>5. SyncType' BY <1>1, <2>1, <2>2, <2>3, <2>4 DEF SyncType
  <2>6. ReaderKnows' BY <1>2, <1>3, <2>1, <2>4 DEF ReaderKnows, AboutToSet
  <2>7. CASE call'.ok
    <3>1. WriterKnows' BY <1>2, <2>1, <2>3, <2>7 DEF WriterKnows, Waits
    <3> QED BY <2>2, <2>5, <2>6, <3>1 DEF SyncInv
  <2>8. CASE ~call'.ok
    <3>1. WriterKnows' BY <1>2, <2>2, <2>8 DEF WriterKnows
    <3> QED BY <2>2, <2>5, <2>6, <3>1 DEF SyncInv
  <2> QED BY <2>7, <2>8
<1>6. ASSUME next[writer] = "wait", Less!wait_event(writer, timed), Then(writer, "clear"),
             UNCHANGED <<ringbuf, lock, more, pc, todo, written>>
      PROVE  SyncInv'
  <2>1. /\ more_flag' = more_flag /\ more_thr' = more_thr
        /\ todo' = todo /\ pc' = pc /\ written' = written
    BY <1>6 DEF more
  <2>2. /\ QueueInv' /\ InOrder' /\ head' = head /\ tail' = tail
        /\ RoomForNext' <=> RoomForNext
    BY <1>2, <1>6, SameBuffer
  <2>3. /\ less_flag' = less_flag /\ less_thr' \in [Thread -> Thr]
        /\ \A u \in Thread \ {writer} : less_thr'[u] = less_thr[u]
    BY <1>1, <1>3, <1>6, LessWaitBegins, ClientsAssumption DEF SyncType
  <2>4. /\ next' \in [{writer, reader} -> Stages]
        /\ next'[reader] = next[reader]
    BY <1>1, <1>3, <1>6, NextChange DEF Stages
  <2>5. SyncType' BY <1>1, <2>1, <2>2, <2>3, <2>4 DEF SyncType
  <2>6. ReaderKnows' BY <1>1, <2>1, <2>2, <2>4 DEF ReaderKnows, Waits, AboutToSet
  <2>7. AboutToSet("less", less_thr) => AboutToSet("less", less_thr)'
    BY <1>2, <2>1, <2>3 DEF AboutToSet
  <2>8. WriterKnows' BY <1>1, <1>6, <2>1, <2>2, <2>3, <2>7 DEF WriterKnows, Waits
  <2> QED BY <2>2, <2>5, <2>6, <2>8 DEF SyncInv
<1> QED BY <1>4, <1>5, <1>6 DEF WriterCalls

LEMMA ReaderKeeps ==
  ASSUME SyncInv, ReaderCalls
  PROVE  SyncInv'
<1>1. SyncType /\ ReaderKnows /\ WriterKnows BY DEF SyncInv
<1>2. /\ todo' = todo /\ written' = written
      /\ pc[reader] = "idle" /\ more_thr[reader].at = "out" /\ less_thr[reader].at = "out"
  BY DEF ReaderCalls, Free
<1>3. writer \in Thread /\ reader \in Thread /\ writer # reader BY ThreadFacts
<1>4. ASSUME More!clear_event(reader), Then(reader, "try"),
             UNCHANGED <<ringbuf, lock, less, pc, received>>
      PROVE  SyncInv'
  <2>1. /\ more_flag' = FALSE /\ more_thr' = more_thr
        /\ less_flag' = less_flag /\ less_thr' = less_thr /\ pc' = pc
    BY <1>4 DEF More!clear_event, less
  <2>2. QueueInv' /\ InOrder' /\ (RoomForNext' <=> RoomForNext)
    BY <1>2, <1>4, SameBuffer
  <2>3. /\ next' \in [{writer, reader} -> Stages]
        /\ next'[reader] = "try" /\ next'[writer] = next[writer]
    BY <1>1, <1>3, <1>4, NextChange DEF Stages
  <2>4. SyncType' BY <1>1, <1>2, <2>1, <2>2, <2>3 DEF SyncType
  <2>5. WriterKnows' BY <1>1, <1>2, <2>1, <2>2, <2>3 DEF WriterKnows, Waits, AboutToSet
  <2>6. ReaderKnows' BY <1>2, <2>1, <2>3 DEF ReaderKnows, Waits
  <2> QED BY <2>2, <2>4, <2>5, <2>6 DEF SyncInv
<1>5. ASSUME NEW n \in Counts, srb_read(reader, n), received' = received \o call'.bytes,
             Then(reader, IF call'.bytes = <<>> THEN "wait" ELSE "clear")
      PROVE  SyncInv'
  <2>1. /\ more_flag' = more_flag /\ more_thr' = more_thr
        /\ less_flag' = less_flag /\ less_thr' = less_thr
        /\ pc' = [pc EXCEPT ![reader] = "less"]
    BY <1>5 DEF srb_read, Enter, after_read, more, less
  <2>2. QueueInv' /\ InOrder' /\ (call'.bytes = <<>> => head' = tail')
    BY <1>2, <1>5, TryRead
  <2>3. /\ next' \in [{writer, reader} -> Stages]
        /\ next'[reader] = IF call'.bytes = <<>> THEN "wait" ELSE "clear"
        /\ next'[writer] = next[writer]
    BY <1>1, <1>3, <1>5, NextChange DEF Stages
  <2>4. /\ pc' \in [Thread -> Steps] /\ pc'[writer] # "less" /\ pc'[reader] = "less"
    BY <1>1, <1>3, <2>1, PcChange DEF Steps
  <2>5. SyncType' BY <1>1, <1>2, <2>1, <2>2, <2>3, <2>4 DEF SyncType
  <2>6. WriterKnows'
    BY <1>1, <1>2, <1>3, <2>1, <2>3, <2>4 DEF WriterKnows, Waits, AboutToSet
  <2>7. ReaderKnows' BY <1>2, <2>1, <2>2, <2>3 DEF ReaderKnows, Waits
  <2> QED BY <2>2, <2>5, <2>6, <2>7 DEF SyncInv
<1>6. ASSUME next[reader] = "wait", More!wait_event(reader, timed), Then(reader, "clear"),
             UNCHANGED <<ringbuf, lock, less, pc, received>>
      PROVE  SyncInv'
  <2>1. less_flag' = less_flag /\ less_thr' = less_thr /\ pc' = pc
    BY <1>6 DEF less
  <2>2. /\ QueueInv' /\ InOrder' /\ head' = head /\ tail' = tail
        /\ RoomForNext' <=> RoomForNext
    BY <1>2, <1>6, SameBuffer
  <2>3. /\ more_flag' = more_flag /\ more_thr' \in [Thread -> Thr]
        /\ \A u \in Thread \ {reader} : more_thr'[u] = more_thr[u]
    BY <1>1, <1>3, <1>6, MoreWaitBegins, ClientsAssumption DEF SyncType
  <2>4. /\ next' \in [{writer, reader} -> Stages]
        /\ next'[writer] = next[writer]
    BY <1>1, <1>3, <1>6, NextChange DEF Stages
  <2>5. SyncType' BY <1>1, <1>2, <2>1, <2>2, <2>3, <2>4 DEF SyncType
  <2>6. WriterKnows' BY <1>1, <1>2, <2>1, <2>2, <2>4 DEF WriterKnows, Waits, AboutToSet
  <2>7. AboutToSet("more", more_thr) => AboutToSet("more", more_thr)'
    BY <1>2, <2>1, <2>3 DEF AboutToSet
  <2>8. ReaderKnows' BY <1>1, <1>6, <2>1, <2>2, <2>3, <2>7 DEF ReaderKnows, Waits
  <2> QED BY <2>2, <2>5, <2>6, <2>8 DEF SyncInv
<1> QED BY <1>4, <1>5, <1>6 DEF ReaderCalls

LEMMA ResizerKeeps ==
  ASSUME SyncInv, ResizerCalls
  PROVE  SyncInv'
<1>1. SyncType /\ ReaderKnows /\ WriterKnows BY DEF SyncInv
<1>2. resizer \in Thread /\ resizer # writer BY ThreadFacts
<1>3. todo' = todo /\ written' = written /\ received' = received /\ next' = next
  BY DEF ResizerCalls
<1>4. PICK n \in Sizes : srb_grow(resizer, n) \/ srb_shrink(resizer, n)
  BY DEF ResizerCalls
<1>5. /\ more_flag' = more_flag /\ more_thr' = more_thr
      /\ less_flag' = less_flag /\ less_thr' = less_thr
      /\ pc[resizer] = "idle" /\ less_thr[resizer].at = "out"
  BY <1>4 DEF srb_grow, srb_shrink, Enter, more, less, Free
<1>6. QueueInv' /\ InOrder'
  BY <1>3, <1>4, ResizeInOrder DEF srb_grow, srb_shrink
<1>7. head = tail => head' = tail'
  BY <1>1, <1>4, GrowKeepsEmpty, ShrinkMakesNoRoom DEF srb_grow, srb_shrink, SyncType
<1>8. ASSUME NEW p \in {"less", "unlock"}, pc' = [pc EXCEPT ![resizer] = p]
      PROVE  /\ SyncType' /\ ReaderKnows' /\ pc'[resizer] = p
             /\ AboutToSet("less", less_thr) => AboutToSet("less", less_thr)'
  <2>1. /\ pc' \in [Thread -> Steps] /\ pc'[writer] # "less"
        /\ pc'[resizer] = p /\ \A u \in Thread \ {resizer} : pc'[u] = pc[u]
    BY <1>1, <1>2, <1>8, PcChange DEF Steps
  <2>2. /\ AboutToSet("more", more_thr) => AboutToSet("more", more_thr)'
        /\ AboutToSet("less", less_thr) => AboutToSet("less", less_thr)'
    BY <1>5, <2>1 DEF AboutToSet
  <2>3. SyncType' BY <1>1, <1>3, <1>5, <1>6, <2>1 DEF SyncType
  <2>4. ReaderKnows' BY <1>1, <1>3, <1>5, <1>7, <2>2 DEF ReaderKnows, Waits
  <2> QED BY <2>1, <2>2, <2>3, <2>4
<1>9. CASE srb_grow(resizer, n)
  <2>1. pc' = [pc EXCEPT ![resizer] = "less"] BY <1>9 DEF srb_grow, Enter
  <2>2. SyncType' /\ ReaderKnows' /\ pc'[resizer] = "less" BY <1>8, <2>1
  <2>3. WriterKnows'
    BY <1>1, <1>2, <1>3, <1>5, <2>2 DEF WriterKnows, Waits, AboutToSet
  <2> QED BY <1>6, <2>2, <2>3 DEF SyncInv
<1>10. CASE srb_shrink(resizer, n)
  <2>1. pc' = [pc EXCEPT ![resizer] = "unlock"] BY <1>10 DEF srb_shrink, Enter
  <2>2. /\ SyncType' /\ ReaderKnows'
        /\ AboutToSet("less", less_thr) => AboutToSet("less", less_thr)'
    BY <1>8, <2>1
  <2>3. todo # <<>> /\ RoomForNext' => RoomForNext
    <3> SUFFICES ASSUME todo # <<>>, RoomForNext' PROVE RoomForNext
      OBVIOUS
    <3>1. Head(todo) \in Writes BY <1>1 DEF SyncType
    <3>2. Len(Head(todo)) \in Nat BY <3>1, WritesAreSequences
    <3> DEFINE m == Len(Head(todo))
    <3>3. fits(m)' BY <1>3 DEF RoomForNext
    <3>4. m' = m BY <1>3
    <3>5. \A k \in Nat : fits(k)' => fits(k)
      BY <1>1, <1>10, ShrinkMakesNoRoom DEF srb_shrink, SyncType
    <3>6. fits(m)
      <4>1. m < bytes_avail' BY <3>3, <3>4 DEF fits
      <4> HIDE DEF m
      <4>2. m \in Nat BY <3>2 DEF m
      <4> QED BY <3>5, <4>1, <4>2 DEF fits
    <3> QED BY <3>6 DEF RoomForNext
  <2>4. WriterKnows' BY <1>1, <1>3, <1>5, <2>2, <2>3 DEF WriterKnows, Waits
  <2> QED BY <1>6, <2>2, <2>4 DEF SyncInv
<1> QED BY <1>4, <1>9, <1>10

(* Setting an event once the buffer has changed. *)
LEMMA SetMoreKeeps ==
  ASSUME SyncInv, NEW t \in Thread, SetMore(t), UNCHANGED client
  PROVE  SyncInv'
<1>1. SyncType /\ ReaderKnows /\ WriterKnows BY DEF SyncInv
<1>2. /\ todo' = todo /\ next' = next /\ written' = written /\ received' = received
      /\ less_flag' = less_flag /\ less_thr' = less_thr /\ pc[t] = "more"
  BY DEF SetMore, less, client
<1>3. /\ QueueInv' /\ InOrder' /\ head' = head /\ tail' = tail
      /\ RoomForNext' <=> RoomForNext
  BY <1>2, SameBuffer DEF SetMore
<1>4. more_thr \in [Thread -> Thr] /\ reader \in Thread BY <1>1, ThreadFacts DEF SyncType
<1>5. CASE More!set_event(t) /\ UNCHANGED pc
  <2>1. more_flag' = TRUE /\ more_thr' \in [Thread -> Thr] BY <1>4, <1>5, MoreSet
  <2>2. SyncType' BY <1>1, <1>2, <1>3, <1>5, <2>1 DEF SyncType
  <2>3. ReaderKnows' BY <2>1 DEF ReaderKnows
  <2>4. WriterKnows' BY <1>1, <1>2, <1>3, <1>5 DEF WriterKnows, Waits, AboutToSet
  <2> QED BY <1>3, <2>2, <2>3, <2>4 DEF SyncInv
<1>6. CASE More!Broadcast(t) /\ pc' = [pc EXCEPT ![t] = "unlock"]
  <2>1. /\ more_flag' = more_flag /\ Calm(more_thr, more_thr') /\ more_thr[t].at # "out"
    BY <1>4, <1>6, MoreSet
  <2>2. /\ pc' \in [Thread -> Steps] /\ pc'[writer] # "less"
        /\ pc'[t] = "unlock" /\ \A u \in Thread \ {t} : pc'[u] = pc[u]
    BY <1>1, <1>6, PcChange DEF Steps
  <2>3. SyncType' BY <1>1, <1>2, <1>3, <2>1, <2>2 DEF SyncType, Calm
  <2>4. AboutToSet("more", more_thr) => AboutToSet("more", more_thr)'
    BY <2>1, <2>2 DEF AboutToSet, Calm
  <2>5. AboutToSet("less", less_thr) => AboutToSet("less", less_thr)'
    BY <1>2, <2>2 DEF AboutToSet
  <2>6. Waits(reader, more_thr)' => Waits(reader, more_thr)
    BY <1>2, <1>4, <2>1 DEF Waits, Calm
  <2>7. ReaderKnows' BY <1>1, <1>3, <2>1, <2>4, <2>6 DEF ReaderKnows
  <2>8. WriterKnows' BY <1>1, <1>2, <1>3, <2>5 DEF WriterKnows, Waits
  <2> QED BY <1>3, <2>3, <2>7, <2>8 DEF SyncInv
<1> QED BY <1>5, <1>6 DEF SetMore

(* The writer itself never sets `less`, so its place in a wait is its own. *)
LEMMA SetLessKeeps ==
  ASSUME SyncInv, NEW t \in Thread, SetLess(t), UNCHANGED client
  PROVE  SyncInv'
<1>1. SyncType /\ ReaderKnows /\ WriterKnows BY DEF SyncInv
<1>2. /\ todo' = todo /\ next' = next /\ written' = written /\ received' = received
      /\ more_flag' = more_flag /\ more_thr' = more_thr /\ pc[t] = "less"
  BY DEF SetLess, more, client
<1>3. /\ QueueInv' /\ InOrder' /\ head' = head /\ tail' = tail
      /\ RoomForNext' <=> RoomForNext
  BY <1>2, SameBuffer DEF SetLess
<1>4. /\ less_thr \in [Thread -> Thr] /\ writer \in Thread /\ t # writer
  BY <1>1, <1>2, ThreadFacts DEF SyncType
<1>5. CASE Less!set_event(t) /\ UNCHANGED pc
  <2>1. /\ less_flag' = TRUE /\ less_thr' \in [Thread -> Thr]
        /\ less_thr'[writer] = less_thr[writer]
    BY <1>4, <1>5, LessSet
  <2>2. SyncType' BY <1>1, <1>2, <1>3, <1>5, <2>1 DEF SyncType
  <2>3. WriterKnows' BY <1>1, <1>2, <1>3, <2>1 DEF WriterKnows, Waits
  <2>4. ReaderKnows' BY <1>1, <1>2, <1>3, <1>5 DEF ReaderKnows, Waits, AboutToSet
  <2> QED BY <1>3, <2>2, <2>3, <2>4 DEF SyncInv
<1>6. CASE Less!Broadcast(t) /\ pc' = [pc EXCEPT ![t] = "unlock"]
  <2>1. /\ less_flag' = less_flag /\ Calm(less_thr, less_thr') /\ less_thr[t].at # "out"
    BY <1>4, <1>6, LessSet
  <2>2. /\ pc' \in [Thread -> Steps] /\ pc'[writer] # "less"
        /\ pc'[t] = "unlock" /\ \A u \in Thread \ {t} : pc'[u] = pc[u]
    BY <1>1, <1>6, PcChange DEF Steps
  <2>3. SyncType' BY <1>1, <1>2, <1>3, <2>1, <2>2 DEF SyncType, Calm
  <2>4. AboutToSet("more", more_thr) => AboutToSet("more", more_thr)'
    BY <1>2, <2>2 DEF AboutToSet
  <2>5. AboutToSet("less", less_thr) => AboutToSet("less", less_thr)'
    BY <2>1, <2>2 DEF AboutToSet, Calm
  <2>6. Waits(writer, less_thr)' => Waits(writer, less_thr)
    BY <1>2, <1>4, <2>1 DEF Waits, Calm
  <2>7. ReaderKnows' BY <1>1, <1>2, <1>3, <2>4 DEF ReaderKnows, Waits
  <2>8. WriterKnows' BY <1>1, <1>2, <1>3, <2>1, <2>5, <2>6 DEF WriterKnows
  <2> QED BY <1>3, <2>3, <2>7, <2>8 DEF SyncInv
<1> QED BY <1>5, <1>6 DEF SetLess

LEMMA UnlockKeeps ==
  ASSUME SyncInv, NEW t \in Thread, Unlock(t), UNCHANGED client
  PROVE  SyncInv'
<1>1. SyncType /\ ReaderKnows /\ WriterKnows BY DEF SyncInv
<1>2. /\ todo' = todo /\ next' = next /\ written' = written /\ received' = received
      /\ more_flag' = more_flag /\ more_thr' = more_thr
      /\ less_flag' = less_flag /\ less_thr' = less_thr
      /\ pc[t] = "unlock" /\ pc' = [pc EXCEPT ![t] = "idle"]
  BY DEF Unlock, more, less, client
<1>3. /\ QueueInv' /\ InOrder' /\ head' = head /\ tail' = tail
      /\ RoomForNext' <=> RoomForNext
  BY <1>2, SameBuffer DEF Unlock
<1>4. /\ pc' \in [Thread -> Steps] /\ pc'[writer] # "less"
      /\ pc'[t] = "idle" /\ \A u \in Thread \ {t} : pc'[u] = pc[u]
  BY <1>1, <1>2, PcChange DEF Steps
<1>5. SyncType' BY <1>1, <1>2, <1>3, <1>4 DEF SyncType
<1>6. /\ AboutToSet("more", more_thr) => AboutToSet("more", more_thr)'
      /\ AboutToSet("less", less_thr) => AboutToSet("less", less_thr)'
  BY <1>2, <1>4 DEF AboutToSet
<1>7. ReaderKnows' BY <1>1, <1>2, <1>3, <1>6 DEF ReaderKnows, Waits
<1>8. WriterKnows' BY <1>1, <1>2, <1>3, <1>6 DEF WriterKnows, Waits
<1> QED BY <1>3, <1>5, <1>7, <1>8 DEF SyncInv

-----------------------------------------------------------------------------
(* A buffer that srb_init has made is empty. *)
LEMMA InitSyncInv == ClientsInit => SyncInv
<1> SUFFICES ASSUME ClientsInit PROVE SyncInv
  OBVIOUS
<1> DEFINE out == [at |-> "out", timed |-> FALSE, signalled |-> FALSE]
<1>1. /\ todo = Payload /\ written = <<>> /\ received = <<>>
      /\ pc = [t \in Thread |-> "idle"] /\ next = [t \in {writer, reader} |-> "clear"]
      /\ more_flag = FALSE /\ less_flag = TRUE
      /\ more_thr = [t \in Thread |-> out] /\ less_thr = [t \in Thread |-> out]
  BY DEF ClientsInit, SyncInit, More!Init, More!Unused, Less!Unused
<1>2. /\ size \in Nat \ {0} /\ data = remapped(nullptr, size) /\ head = 0 /\ tail = 0
      /\ careful = TRUE
  BY PositiveSize DEF ClientsInit, SyncInit
<1>3. data \in Buf(size) BY <1>2, FreshMemory
<1>4. QueueInv BY <1>2, <1>3 DEF QueueInv, BoundsInv, InBounds, Shape
<1>5. contents = <<>>
  <2>1. Ring(data, size, head, tail) BY <1>2, <1>3 DEF Ring
  <2>2. data # nullptr BY <1>2, <1>3, NotNull
  <2>3. contents = Queued(data, size, head, tail) BY <2>2, ContentsNow
  <2>4. contents \in Seq(Cell) /\ Len(contents) = 0
    BY <1>2, <2>1, <2>3, QueuedIs DEF Used
  <2> QED BY <2>4, EmptySeq
<1>6. out \in Thr /\ out.at = "out" BY DEF Thr, Places
<1> HIDE DEF out
<1>7. more_thr \in [Thread -> Thr] /\ less_thr \in [Thread -> Thr] BY <1>1, <1>6
<1>8. SyncType
  <2>1. Payload \in Seq(Writes \ {<<>>}) BY ClientsAssumption
  <2>2. pc \in [Thread -> Steps] /\ pc[writer] # "less" BY <1>1, ThreadFacts DEF Steps
  <2>3. next \in [{writer, reader} -> Stages] BY <1>1 DEF Stages
  <2> QED BY <1>1, <1>4, <1>7, <2>1, <2>2, <2>3 DEF SyncType
<1>9. ReaderKnows BY <1>2 DEF ReaderKnows
<1>10. WriterKnows
  <2>1. less_thr[writer].at = "out" /\ next[writer] = "clear" BY <1>1, <1>6, ThreadFacts
  <2> QED BY <2>1 DEF WriterKnows, Waits
<1>11. InOrder
  <2>1. <<>> \in Seq(Cell) /\ <<>> \o <<>> = <<>> OBVIOUS
  <2> QED BY <1>1, <1>5, <2>1 DEF InOrder
<1> QED BY <1>8, <1>9, <1>10, <1>11 DEF SyncInv

LEMMA StepSyncInv == SyncInv /\ [ClientsNext]_all_vars => SyncInv'
<1> SUFFICES ASSUME SyncInv, [ClientsNext]_all_vars PROVE SyncInv'
  OBVIOUS
<1>1. /\ more_thr \in [Thread -> Thr] /\ less_thr \in [Thread -> Thr]
      /\ more_flag \in BOOLEAN /\ less_flag \in BOOLEAN
  BY DEF SyncInv, SyncType
<1>2. CASE UNCHANGED all_vars
  <2>1. /\ UNCHANGED <<ringbuf, less, pc, client>>
        /\ more_flag' = more_flag /\ more_thr' = more_thr
    BY <1>2 DEF all_vars, srb, more
  <2>2. Calm(more_thr, more_thr') BY <1>1, <2>1 DEF Calm
  <2> QED BY <2>1, <2>2, CalmMoreKeeps
<1>3. ASSUME NEW t \in Thread, Proceed(t), UNCHANGED client
      PROVE  SyncInv'
  <2>1. CASE SetMore(t) BY <1>3, <2>1, SetMoreKeeps
  <2>2. CASE SetLess(t) BY <1>3, <2>2, SetLessKeeps
  <2>3. CASE Unlock(t) BY <1>3, <2>3, UnlockKeeps
  <2>4. CASE /\ More!WaitStep(t) \/ More!TimeOut(t)
             /\ UNCHANGED <<ringbuf, lock, less, pc>>
    <3>1. more_flag' = more_flag /\ Calm(more_thr, more_thr') BY <1>1, <2>4, MoreWaits
    <3> QED BY <1>3, <2>4, <3>1, CalmMoreKeeps
  <2>5. CASE /\ Less!WaitStep(t) \/ Less!TimeOut(t)
             /\ UNCHANGED <<ringbuf, lock, more, pc>>
    <3>1. less_flag' = less_flag /\ Calm(less_thr, less_thr') BY <1>1, <2>5, LessWaits
    <3> QED BY <1>3, <2>5, <3>1, CalmLessKeeps
  <2> QED BY <1>3, <2>1, <2>2, <2>3, <2>4, <2>5 DEF Proceed
<1>4. ASSUME NEW t \in Thread, WakeSpuriously(t), UNCHANGED client
      PROVE  SyncInv'
  <2>1. CASE More!WakeSpuriously(t) /\ UNCHANGED <<ringbuf, lock, less, pc>>
    <3>1. more_flag' = more_flag /\ Calm(more_thr, more_thr') BY <1>1, <2>1, MoreWaits
    <3> QED BY <1>4, <2>1, <3>1, CalmMoreKeeps
  <2>2. CASE Less!WakeSpuriously(t) /\ UNCHANGED <<ringbuf, lock, more, pc>>
    <3>1. less_flag' = less_flag /\ Calm(less_thr, less_thr') BY <1>1, <2>2, LessWaits
    <3> QED BY <1>4, <2>2, <3>1, CalmLessKeeps
  <2> QED BY <1>4, <2>1, <2>2 DEF WakeSpuriously
<1> QED BY <1>2, <1>3, <1>4, WriterKeeps, ReaderKeeps, ResizerKeeps
        DEF ClientsNext, Run, Spurious

(* The invariant.  A client that waits was told, or somebody has changed   *)
(* the buffer and is on the way to setting the event; and the buffer is    *)
(* what RingBufferProofs shows it to be.                                   *)
THEOREM SyncInvHolds == FairSpec => []SyncInv
BY InitSyncInv, StepSyncInv, PTL DEF FairSpec

(* The reader, from its empty read to its return from the wait, learns of  *)
(* data that came too late for that read: srb_write sets the event after   *)
(* the data is in the buffer, and only the reader clears it.               *)
THEOREM ReaderIsTold == FairSpec => []ReaderTold
<1>1. SyncInv => ReaderTold
  BY DEF SyncInv, ReaderKnows, ReaderTold, AboutToSet
<1> QED BY <1>1, SyncInvHolds, PTL

(* The writer learns of room for its next data, whether a read made it or  *)
(* srb_grow did.                                                           *)
THEOREM WriterIsTold == FairSpec => []WriterTold
<1>1. SyncInv => WriterTold
  BY DEF SyncInv, WriterKnows, WriterTold, AboutToSet, RoomForNext
<1> QED BY <1>1, SyncInvHolds, PTL

(* No byte is lost, doubled or out of order between the writer and the     *)
(* reader, until the reader reads from a wrapped buffer, or a wrapped one  *)
(* shrinks less than it could.                                             *)
THEOREM BytesStayInOrder == FairSpec => []BytesInOrder
<1>1. SyncInv => BytesInOrder
  BY DEF SyncInv, InOrder, BytesInOrder
<1> QED BY <1>1, SyncInvHolds, PTL
=============================================================================
