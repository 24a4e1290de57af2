-------------------------- MODULE RelayEventsProofs --------------------------
(***************************************************************************)
(* How events are delivered, for any number of jobs and calls: callbacks   *)
(* run one at a time and in order, nothing follows the event that closes   *)
(* its call or its run, and cancelled watchers cost no other event.        *)
(***************************************************************************)
EXTENDS RelayEvents, TLAPS

-----------------------------------------------------------------------------
(* The inductive invariant *)

Elems(s) == {s[i] : i \in 1..Len(s)}

\* A line w beside the running callbacks h is in order: who waits has a number above all
\* that were called, or will never be called; numbers rise along the line; no coroutine
\* has two events on their way; at most one callback is running.
QueueOK(w, h) ==
  /\ w \in Seq(Event) /\ h \subseteq Event
  /\ \A i \in 1..Len(w) : w[i].seq <= seq /\ (IsDoomed(w[i]) \/ latest < w[i].seq)
  /\ \A i, k \in 1..Len(w) : i < k => w[i].seq < w[k].seq /\ ~IsEvent(w[i], w[k].name, w[k].call)
  /\ \A e \in h, i \in 1..Len(w) : ~IsEvent(w[i], e.name, e.call)
  /\ \A e, f \in h : e = f

QueueInv == seq \in Nat /\ latest \in Nat /\ latest <= seq /\ QueueOK(line, running)

Queued == Elems(line) \cup running

\* Whoever has an event on its way is at the place in the code that published it.
HasPublisher(e) ==
  /\ e.name = "call_finished" =>
       \E j \in Jobs : e.call = Current(j) /\ pc[j] \in {"succeeded", "failed"}
  /\ e.name = "call_output" => e.call \in Calls /\ watcher[e.call] = "publishing"
  /\ e.name \in FinalNames => e.call = None /\ main # "working"

PublisherInv ==
  /\ \A e \in Queued : HasPublisher(e)
  /\ \A e, f \in Queued : e.name \in FinalNames /\ f.name \in FinalNames => e.name = f.name

\* A watcher that has not been cancelled is that of the call its job is busy with.
WatcherInv ==
  /\ \A j \in Jobs : pc[j] \in {"streaming", "succeeded", "failed"} => Current(j) \in Calls
  /\ \A c \in Calls : watcher[c] # "none" /\ c \notin halted =>
       c = Current(c[1]) /\ pc[c[1]] \in {"streaming", "failed"}
  /\ \A j \in Jobs, n \in 1..MaxCalls :
       n > call[j] \/ (n = call[j] /\ pc[j] = "between") => watcher[<<j, n>>] = "none"
  /\ main # "working" => JobsAreOver

\* What has been delivered: the watcher of a finished call has been cancelled, or
\* call_finished still holds the lock.
ToldInv ==
  /\ \A e \in running : <<e.name, e.call>> \in told
  /\ \A c \in Calls : <<"call_finished", c>> \in told =>
       c \in halted \/ \E e \in running : IsEvent(e, "call_finished", c)
  /\ \A name \in FinalNames : <<name, None>> \in told => main # "working"
  /\ NothingComesLate

\* OnlyOutputsAreLost, with the line as a set; and only an interrupt dooms jobs.
Ended(j, n) == n < call[j] \/ (n = call[j] /\ pc[j] \in {"succeeded", "failed"})

LossInv ==
  interrupts = 0 =>
    /\ doomed = {}
    /\ \A j \in Jobs, n \in 1..MaxCalls :
         Ended(j, n) => \/ <<"call_finished", <<j, n>>>> \in told
                        \/ \E e \in Elems(line) : IsEvent(e, "call_finished", <<j, n>>)

EventInv == TypeOK /\ QueueInv /\ PublisherInv /\ WatcherInv /\ ToldInv /\ LossInv

-----------------------------------------------------------------------------
(* The queue *)

\* What is doomed stays so, for a CancelledError is never taken back.
LEMMA DoomLasts ==
  ASSUME NEW e, halted \subseteq halted', doomed \subseteq doomed', IsDoomed(e)
  PROVE  IsDoomed(e)'
BY DEF IsDoomed

\* A coroutine's withdrawal keeps the order of the others, and nobody else leaves.
LEMMA Withdrawal ==
  ASSUME TypeOK, QueueInv, NEW name, NEW c
  PROVE  /\ QueueOK(WithoutLine(name, c), WithoutRunning(name, c))
         /\ Elems(WithoutLine(name, c)) = {e \in Elems(line) : ~IsEvent(e, name, c)}
<1> DEFINE mine == {i \in 1..Len(line) : IsEvent(line[i], name, c)}
           k    == CHOOSE i \in mine : TRUE
           w    == WithoutLine(name, c)
           h    == WithoutRunning(name, c)
           m(i) == IF i < k THEN i ELSE i + 1
<1>0. /\ line \in Seq(Event) /\ Len(line) \in Nat /\ h \subseteq running
      /\ running \subseteq Event
  BY DEF TypeOK, WithoutRunning
<1>1. CASE mine = {}
  <2>1. w = line
    BY <1>1 DEF WithoutLine
  <2>2. QueueOK(w, h)
    BY <2>1, <1>0 DEF QueueInv, QueueOK
  <2>3. Elems(w) = {e \in Elems(line) : ~IsEvent(e, name, c)}
    BY <2>1, <1>1 DEF Elems
  <2> QED BY <2>2, <2>3
<1>2. CASE mine # {}
  <2>1. k \in 1..Len(line) /\ IsEvent(line[k], name, c)
    BY <1>2
  <2>2. w = [i \in 1..(Len(line) - 1) |-> line[m(i)]]
    BY <1>2 DEF WithoutLine
  <2> HIDE DEF k, mine
  <2>3. \A i \in 1..(Len(line) - 1) : m(i) \in 1..Len(line) /\ m(i) # k
    BY <1>0, <2>1
  <2>4. w \in Seq(Event) /\ Len(w) = Len(line) - 1
    <3>1. w \in [1..(Len(line) - 1) -> Event]
      BY <2>2, <2>3, <1>0
    <3> QED BY <3>1, <1>0, <2>1 DEF Seq
  <2>5. \A i \in 1..Len(w) : w[i] = line[m(i)]
    BY <2>4, <2>2
  <2>6. \A i, j \in 1..Len(w) : i < j => m(i) < m(j)
    BY <1>0, <2>1, <2>4
  <2>7. \A i \in 1..Len(w) : m(i) \in 1..Len(line) /\ m(i) # k
    BY <2>3, <2>4
  <2>8. \A i \in 1..Len(line) : i # k => \E j \in 1..Len(w) : m(j) = i
    <3> SUFFICES ASSUME NEW i \in 1..Len(line), i # k
                 PROVE  \E j \in 1..Len(w) : m(j) = i
      OBVIOUS
    <3>1. CASE i < k
      BY <3>1, <2>1, <2>4, <1>0
    <3>2. CASE i > k
      <4>1. i - 1 \in 1..Len(w) /\ m(i - 1) = i
        BY <3>2, <2>1, <2>4, <1>0
      <4> QED BY <4>1
    <3> QED BY <3>1, <3>2, <2>1, <1>0
  <2> HIDE DEF m, w, h
  <2>9. QueueOK(w, h)
    <3>1. \A i \in 1..Len(w) : w[i].seq <= seq /\ (IsDoomed(w[i]) \/ latest < w[i].seq)
      BY <2>5, <2>7 DEF QueueInv, QueueOK
    <3>2. \A i, j \in 1..Len(w) : i < j => w[i].seq < w[j].seq /\ ~IsEvent(w[i], w[j].name, w[j].call)
      BY <2>5, <2>6, <2>7 DEF QueueInv, QueueOK
    <3>3. \A e \in h, i \in 1..Len(w) : ~IsEvent(w[i], e.name, e.call)
      BY <2>5, <2>7, <1>0 DEF QueueInv, QueueOK
    <3>4. \A e, f \in h : e = f
      BY <1>0 DEF QueueInv, QueueOK
    <3> QED BY <3>1, <3>2, <3>3, <3>4, <2>4, <1>0 DEF QueueOK
  <2>10. \A i \in 1..Len(line) : i # k => ~IsEvent(line[i], name, c)
    <3>1. \A i, j \in 1..Len(line) : i < j => ~IsEvent(line[i], line[j].name, line[j].call)
      BY DEF QueueInv, QueueOK
    <3> QED BY <3>1, <2>1, <1>0 DEF IsEvent
  <2>11. Elems(w) = {e \in Elems(line) : ~IsEvent(e, name, c)}
    <3>1. ASSUME NEW i \in 1..Len(w)
          PROVE  w[i] \in Elems(line) /\ ~IsEvent(w[i], name, c)
      BY <3>1, <2>5, <2>7, <2>10 DEF Elems
    <3>2. ASSUME NEW i \in 1..Len(line), ~IsEvent(line[i], name, c)
          PROVE  line[i] \in Elems(w)
      <4>1. PICK j \in 1..Len(w) : m(j) = i
        BY <3>2, <2>1, <2>8
      <4>2. w[j] = line[i]
        BY <4>1, <2>5
      <4> QED BY <4>2 DEF Elems
    <3> QED BY <3>1, <3>2 DEF Elems
  <2> QED BY <2>9, <2>11 DEF w, h
<1> QED BY <1>1, <1>2

\* event(): the callback is called at once, on its own, or the event joins the line.
LEMMA Publishing ==
  ASSUME TypeOK, latest <= seq, NEW w, NEW h, QueueOK(w, h),
         NEW name \in Names, NEW c \in Calls \cup {None}, NEW n \in 0..MaxText,
         Publish(name, c, n, w, h),
         \A e \in Elems(w) \cup h : ~IsEvent(e, name, c),
         halted \subseteq halted', doomed \subseteq doomed'
  PROVE  \E e \in Event :
           /\ IsEvent(e, name, c)
           /\ e.seq > latest
           /\ QueueInv'
           /\ \/ /\ h = {} /\ running' = {e} /\ Elems(line') = Elems(w)
                 /\ told' = told \cup {<<name, c>>}
              \/ running' = h /\ Elems(line') = Elems(w) \cup {e} /\ told' = told
<1> DEFINE e == [seq |-> seq + 1, name |-> name, call |-> c, written |-> n]
<1>1. /\ e \in Event /\ e.seq = seq + 1 /\ e.name = name /\ e.call = c
      /\ seq \in Nat /\ latest \in Nat /\ seq' = seq + 1
      /\ IsEvent(e, name, c)
  BY DEF TypeOK, Event, Publish, IsEvent
<1>2. /\ w \in Seq(Event) /\ Len(w) \in Nat /\ h \subseteq Event
      /\ \A i \in 1..Len(w) : w[i] \in Event /\ w[i].seq \in Nat
  <2>1. w \in Seq(Event) /\ h \subseteq Event
    BY DEF QueueOK
  <2>2. \A f \in Event : f.seq \in Nat
    BY DEF Event
  <2> QED BY <2>1, <2>2
<1>3. CASE LockIsFree(w, h)
  <2>1. h = {} /\ line' = w /\ running' = {e} /\ latest' = seq + 1 /\ told' = told \cup {<<name, c>>}
    BY <1>1, <1>3 DEF Publish, CallBack, LockIsFree
  <2>2. \A i \in 1..Len(w) : IsDoomed(w[i])'
    BY <1>3, <2>1, DoomLasts DEF LockIsFree
  <2>3. \A i \in 1..Len(w) : ~IsEvent(w[i], name, c)
    BY DEF Elems
  <2> HIDE DEF e
  <2>4. QueueOK(line, running)'
    BY <1>1, <1>2, <2>1, <2>2, <2>3 DEF QueueOK
  <2> QED BY <1>1, <2>1, <2>4 DEF QueueInv
<1>4. CASE ~LockIsFree(w, h)
  <2>1. line' = Append(w, e) /\ running' = h /\ latest' = latest /\ told' = told
    BY <1>4 DEF Publish
  <2> HIDE DEF e
  <2>2. /\ line' \in Seq(Event) /\ Len(line') = Len(w) + 1
        /\ \A i \in 1..Len(w) : line'[i] = w[i]
        /\ line'[Len(w) + 1] = e
    BY <1>1, <1>2, <2>1
  <2>3. \A i \in 1..Len(w) : w[i].seq <= seq /\ ~IsEvent(w[i], name, c)
    BY DEF QueueOK, Elems
  <2>4. \A i \in 1..Len(line') : line'[i].seq <= seq + 1 /\ (IsDoomed(line[i])' \/ latest < line'[i].seq)
    <3>1. \A i \in 1..Len(w) : IsDoomed(w[i])' \/ latest < w[i].seq
      BY DoomLasts DEF QueueOK
    <3> QED BY <3>1, <1>1, <1>2, <2>2, <2>3
  <2>5. \A i, k \in 1..Len(line') :
          i < k => line'[i].seq < line'[k].seq /\ ~IsEvent(line'[i], line'[k].name, line'[k].call)
    <3>1. \A i, k \in 1..Len(w) : i < k => w[i].seq < w[k].seq /\ ~IsEvent(w[i], w[k].name, w[k].call)
      BY DEF QueueOK
    <3> SUFFICES ASSUME NEW i \in 1..Len(line'), NEW k \in 1..Len(line'), i < k
                 PROVE  line'[i].seq < line'[k].seq /\ ~IsEvent(line'[i], line'[k].name, line'[k].call)
      OBVIOUS
    <3>2. i \in 1..Len(w) /\ line'[i] = w[i]
      BY <1>2, <2>2
    <3>3. CASE k = Len(w) + 1
      BY <3>2, <3>3, <1>1, <1>2, <2>2, <2>3
    <3>4. CASE k \in 1..Len(w)
      BY <3>1, <3>2, <3>4, <2>2
    <3> QED BY <3>3, <3>4, <1>2, <2>2
  <2>6. \A f \in h, i \in 1..Len(line') : ~IsEvent(line'[i], f.name, f.call)
    <3>1. \A f \in h, i \in 1..Len(w) : ~IsEvent(w[i], f.name, f.call)
      BY DEF QueueOK
    <3>2. \A f \in h : ~IsEvent(e, f.name, f.call)
      BY <1>1 DEF IsEvent
    <3> QED BY <3>1, <3>2, <1>2, <2>2
  <2>7. QueueOK(line, running)'
    BY <1>1, <1>2, <2>1, <2>2, <2>4, <2>5, <2>6 DEF QueueOK
  <2>8. Elems(line') = Elems(w) \cup {e}
    BY <1>2, <2>2 DEF Elems
  <2> QED BY <1>1, <2>1, <2>7, <2>8 DEF QueueInv
<1> QED BY <1>3, <1>4

\* The line and the lock are left alone.
LEMMA QueueRests ==
  ASSUME TypeOK, QueueInv, UNCHANGED queueVars, halted \subseteq halted', doomed \subseteq doomed'
  PROVE  QueueInv' /\ Queued' = Queued /\ running' = running /\ told' = told
<1>1. \A i \in 1..Len(line) : IsDoomed(line[i]) => IsDoomed(line[i])'
  BY DoomLasts DEF queueVars
<1>2. line' = line /\ running' = running /\ seq' = seq /\ latest' = latest /\ told' = told
  BY DEF queueVars
<1>3. QueueOK(line, running)'
  BY <1>1, <1>2 DEF QueueInv, QueueOK
<1> QED BY <1>2, <1>3 DEF QueueInv, Queued, Elems

\* Callbacks end, or coroutines leave the line.
LEMMA QueueShrinks ==
  ASSUME TypeOK, QueueInv, NEW w, NEW h, QueueOK(w, h), line' = w, running' = h,
         UNCHANGED <<seq, latest>>, halted \subseteq halted', doomed \subseteq doomed'
  PROVE  QueueInv'
<1>1. \A i \in 1..Len(w) : IsDoomed(w[i]) => IsDoomed(w[i])'
  BY DoomLasts
<1>2. QueueOK(line, running)'
  BY <1>1 DEF QueueOK
<1> QED BY <1>2 DEF QueueInv

\* The first in line takes the lock.
LEMMA Acquiring ==
  ASSUME TypeOK, QueueInv, Acquire
  PROVE  \E e \in Elems(line) :
           /\ running = {} /\ running' = {e} /\ e.seq > latest /\ ~IsDoomed(e) /\ e \in Event
           /\ told' = told \cup {<<e.name, e.call>>}
           /\ Elems(line) = Elems(line') \cup {e}
           /\ QueueInv'
<1> DEFINE e == Head(line)
<1>1. /\ line \in Seq(Event) /\ line # <<>> /\ Len(line) \in Nat /\ Len(line) >= 1
      /\ running = {} /\ ~IsDoomed(e) /\ line' = Tail(line) /\ running' = {e} /\ latest' = e.seq
      /\ told' = told \cup {<<e.name, e.call>>} /\ seq' = seq
      /\ halted' = halted /\ doomed' = doomed
  BY DEF TypeOK, Acquire, CallBack, jobVars, watcherVars
<1>2. e = line[1] /\ e \in Event /\ e \in Elems(line)
  BY <1>1 DEF Elems
<1> HIDE DEF e
<1>3. /\ line' \in Seq(Event) /\ Len(line') = Len(line) - 1
      /\ \A i \in 1..Len(line') : line'[i] = line[i + 1] /\ i + 1 \in 1..Len(line)
  BY <1>1
<1>4. e.seq > latest /\ e.seq <= seq /\ e.seq \in Nat
  BY <1>1, <1>2 DEF QueueInv, QueueOK, Event
<1>5. Elems(line) = Elems(line') \cup {e}
  <2>1. \A i \in 1..Len(line) : i = 1 \/ (i - 1 \in 1..Len(line') /\ line'[i - 1] = line[i])
    BY <1>1, <1>3
  <2> QED BY <2>1, <1>1, <1>2, <1>3 DEF Elems
<1>6. QueueOK(line, running)'
  <2>1. \A i \in 1..Len(line') : e.seq < line'[i].seq /\ ~IsEvent(e, line'[i].name, line'[i].call)
    BY <1>1, <1>2, <1>3 DEF QueueInv, QueueOK
  <2>2. \A i, k \in 1..Len(line') :
          i < k => line'[i].seq < line'[k].seq /\ ~IsEvent(line'[i], line'[k].name, line'[k].call)
    <3>1. \A i, k \in 1..Len(line) : i < k => line[i].seq < line[k].seq /\ ~IsEvent(line[i], line[k].name, line[k].call)
      BY DEF QueueInv, QueueOK
    <3> QED BY <3>1, <1>1, <1>3
  <2>3. \A i \in 1..Len(line') : line'[i].seq <= seq
    BY <1>3 DEF QueueInv, QueueOK
  <2>4. \A i \in 1..Len(line') : ~IsEvent(line'[i], e.name, e.call)
    BY <2>1 DEF IsEvent
  <2> QED BY <1>1, <1>2, <1>3, <2>1, <2>2, <2>3, <2>4 DEF QueueOK
<1> QED BY <1>1, <1>2, <1>4, <1>5, <1>6 DEF QueueInv

-----------------------------------------------------------------------------
(* Who has nothing on its way *)

LEMMA NothingQueued ==
  ASSUME EventInv
  PROVE  /\ \A j \in Jobs : pc[j] \notin {"succeeded", "failed"} =>
              \A e \in Queued : ~IsEvent(e, "call_finished", Current(j))
         /\ \A c \in Calls : watcher[c] # "publishing" =>
              \A e \in Queued : ~IsEvent(e, "call_output", c)
         /\ main = "working" => \A e \in Queued : e.name \notin FinalNames
         /\ Queued \subseteq Event
<1>1. \A e \in Queued : HasPublisher(e)
  BY DEF EventInv, PublisherInv
<1>2. \A j, k \in Jobs : Current(j) = Current(k) => j = k
  BY DEF Current
<1>3. Queued \subseteq Event
  BY DEF EventInv, TypeOK, Queued, Elems
<1> QED BY <1>1, <1>2, <1>3 DEF HasPublisher, IsEvent

\* A name is that of one event: what ends one callback leaves the others alone.
LEMMA NamesDiffer == FinalNames \subseteq Names \ {"call_output", "call_finished"}
BY DEF FinalNames, Names

-----------------------------------------------------------------------------
(* Steps that leave the queue alone *)

LEMMA StartCallStep ==
  ASSUME EventInv, NEW j \in Jobs, StartCall(j)
  PROVE  EventInv'
<1> USE DEF EventInv
<1>0. /\ QueueInv' /\ Queued' = Queued /\ running' = running /\ told' = told /\ line' = line
      /\ call' = call /\ halted' = halted /\ main' = main /\ doomed' = doomed /\ interrupts' = interrupts
      /\ pc[j] = "between" /\ pc' = [pc EXCEPT ![j] = "streaming"]
      /\ Current(j) \in Calls /\ watcher' = [watcher EXCEPT ![Current(j)] = "asleep"]
      /\ \A k \in Jobs : Current(k)' = Current(k)
      /\ text' = text /\ shown' = shown /\ seq' = seq /\ latest' = latest
  BY QueueRests DEF StartCall, queueVars, mainVars, Current
<1>1. TypeOK'
  BY <1>0 DEF TypeOK
<1>2. watcher[Current(j)] = "none"
  BY <1>0 DEF WatcherInv, Current, Calls
<1>3. PublisherInv'
  BY <1>0, <1>2 DEF PublisherInv, HasPublisher, TypeOK
<1>4. WatcherInv'
  BY <1>0, <1>2 DEF WatcherInv, TypeOK, JobsAreOver, Current, Calls
<1>5. ToldInv'
  BY <1>0 DEF ToldInv, NothingComesLate, NoOutputAfterFinish, LastEventsComeLast
<1>6. LossInv'
  BY <1>0 DEF LossInv, Ended, TypeOK
<1> QED BY <1>0, <1>1, <1>3, <1>4, <1>5, <1>6

LEMMA WriteStep ==
  ASSUME EventInv, NEW j \in Jobs, Write(j)
  PROVE  EventInv'
<1> USE DEF EventInv
<1>0. /\ QueueInv' /\ Queued' = Queued /\ UNCHANGED <<queueVars, pc, call, doomed, watcherVars, mainVars>>
  BY QueueRests DEF Write, watcherVars
<1>1. TypeOK'
  <2>1. text' \in [Calls -> 0..MaxText]
    BY EventsAssumption DEF Write, TypeOK, WatcherInv
  <2> QED BY <2>1, <1>0 DEF TypeOK, queueVars, watcherVars, mainVars
<1> QED BY <1>0, <1>1
  DEF PublisherInv, HasPublisher, WatcherInv, JobsAreOver, ToldInv, NothingComesLate, NoOutputAfterFinish,
      LastEventsComeLast, LossInv, Ended, Current, queueVars, watcherVars, mainVars

LEMMA JobEndsStep ==
  ASSUME EventInv, NEW j \in Jobs, JobEnds(j)
  PROVE  EventInv'
<1> USE DEF EventInv
<1>0. /\ QueueInv' /\ Queued' = Queued /\ pc[j] = "between" /\ pc' = [pc EXCEPT ![j] = "over"]
      /\ UNCHANGED <<queueVars, call, doomed, text, watcherVars, mainVars>>
      /\ \A k \in Jobs : Current(k)' = Current(k)
  BY QueueRests DEF JobEnds, watcherVars, Current
<1>1. TypeOK'
  BY <1>0 DEF TypeOK, queueVars, watcherVars, mainVars
<1>2. PublisherInv'
  BY <1>0 DEF PublisherInv, HasPublisher, TypeOK, watcherVars, mainVars
<1>3. WatcherInv'
  <2>1. pc \in [Jobs -> {"streaming", "succeeded", "failed", "between", "over"}] /\ halted' = halted
        /\ watcher' = watcher /\ call' = call /\ main' = main
    BY <1>0 DEF TypeOK, watcherVars, mainVars
  <2>2. \A c \in Calls : c[1] \in Jobs
    BY DEF Calls
  <2> QED BY <1>0, <2>1, <2>2 DEF WatcherInv, JobsAreOver
<1>4. ToldInv'
  BY <1>0 DEF ToldInv, NothingComesLate, NoOutputAfterFinish, LastEventsComeLast, queueVars, watcherVars, mainVars
<1>5. LossInv'
  BY <1>0 DEF LossInv, Ended, TypeOK, queueVars, mainVars
<1> QED BY <1>0, <1>1, <1>2, <1>3, <1>4, <1>5

LEMMA InterruptStep ==
  ASSUME EventInv, Interrupt
  PROVE  EventInv'
<1> USE DEF EventInv
<1>0. /\ QueueInv' /\ Queued' = Queued /\ interrupts' = interrupts + 1
      /\ doomed' = doomed \cup {j \in Jobs : pc[j] # "over"}
      /\ UNCHANGED <<queueVars, pc, call, text, watcherVars, main>> /\ interrupts < MaxInterrupts
  BY QueueRests DEF Interrupt, watcherVars
<1>1. TypeOK'
  BY <1>0, EventsAssumption DEF TypeOK, queueVars, watcherVars
<1>2. LossInv'
  BY <1>0 DEF LossInv, TypeOK
<1> QED BY <1>0, <1>1, <1>2
  DEF PublisherInv, HasPublisher, WatcherInv, JobsAreOver, ToldInv, NothingComesLate, NoOutputAfterFinish,
      LastEventsComeLast, Current, queueVars, watcherVars

LEMMA InterruptCancelledStep ==
  ASSUME EventInv, InterruptCancelled
  PROVE  EventInv'
<1> USE DEF EventInv
<1>0. /\ QueueInv' /\ Queued' = Queued /\ interrupts' = interrupts + 1 /\ main = "closing" /\ main' = "over"
      /\ UNCHANGED <<queueVars, jobVars, watcherVars>> /\ interrupts < MaxInterrupts
  BY QueueRests DEF InterruptCancelled, watcherVars, jobVars
<1>1. TypeOK'
  BY <1>0, EventsAssumption DEF TypeOK, queueVars, watcherVars, jobVars
<1>2. LossInv'
  BY <1>0 DEF LossInv, TypeOK
<1> QED BY <1>0, <1>1, <1>2
  DEF PublisherInv, HasPublisher, WatcherInv, JobsAreOver, ToldInv, NothingComesLate, NoOutputAfterFinish,
      LastEventsComeLast, Current, queueVars, watcherVars, jobVars

-----------------------------------------------------------------------------
(* Steps that publish *)

LEMMA CallEndsStep ==
  ASSUME EventInv, NEW j \in Jobs, CallSucceeds(j) \/ CallFails(j)
  PROVE  EventInv'
<1> USE DEF EventInv
<1> DEFINE c == Current(j)
<1>0. /\ pc[j] = "streaming" /\ c \in Calls
      /\ \/ pc' = [pc EXCEPT ![j] = "succeeded"] /\ halted' = halted \cup {c}
         \/ pc' = [pc EXCEPT ![j] = "failed"] /\ halted' = halted
      /\ UNCHANGED <<call, doomed, text, shown, watcher, main, interrupts>>
      /\ \A k \in Jobs : Current(k)' = Current(k)
      /\ Publish("call_finished", c, 0, line, running)
  BY DEF CallSucceeds, CallFails, watcherVars, mainVars, WatcherInv, Current
<1>1. \A e \in Queued : ~IsEvent(e, "call_finished", c)
  BY <1>0, NothingQueued
<1>2. PICK e \in Event :
        /\ IsEvent(e, "call_finished", c)
        /\ QueueInv'
        /\ \/ /\ running = {} /\ running' = {e} /\ Elems(line') = Elems(line)
              /\ told' = told \cup {<<"call_finished", c>>}
           \/ running' = running /\ Elems(line') = Elems(line) \cup {e} /\ told' = told
  <2>1. QueueOK(line, running) /\ latest <= seq /\ 0 \in 0..MaxText /\ "call_finished" \in Names
    BY EventsAssumption DEF QueueInv, Names
  <2>2. halted \subseteq halted' /\ doomed \subseteq doomed'
    BY <1>0
  <2> QED BY <1>0, <1>1, <2>1, <2>2, Publishing DEF Queued
<1>3. /\ Queued' \subseteq Queued \cup {e} /\ e.name = "call_finished" /\ e.call = c
      /\ j \in DOMAIN pc
  BY <1>2 DEF Queued, IsEvent, TypeOK
<1> HIDE DEF c
<1>4. TypeOK'
  <2>1. told' \subseteq Names \X (Calls \cup {None})
    BY <1>0, <1>2 DEF TypeOK, Names
  <2> QED BY <1>0, <1>2, <2>1 DEF TypeOK, QueueInv, QueueOK
<1>5. PublisherInv'
  <2>1. pc'[j] \in {"succeeded", "failed"} /\ \A k \in Jobs : k # j => pc'[k] = pc[k]
    BY <1>0, <1>3 DEF TypeOK
  <2>2. c = Current(j)'
    BY <1>0 DEF c
  <2>3. HasPublisher(e)'
    BY <1>3, <2>1, <2>2 DEF HasPublisher, FinalNames
  <2>4. \A f \in Queued : HasPublisher(f)'
    BY <1>0, <2>1 DEF PublisherInv, HasPublisher
  <2> QED BY <1>3, <2>3, <2>4, NamesDiffer DEF PublisherInv
<1>6. WatcherInv'
  <2>1. \A d \in Calls : d[1] \in Jobs
    BY DEF Calls
  <2>2. ~JobsAreOver
    BY <1>0 DEF JobsAreOver
  <2>3. \A k \in Jobs : /\ k # j => pc'[k] = pc[k]
                        /\ pc'[j] \in {"succeeded", "failed"}
                        /\ pc'[j] = "succeeded" => c \in halted'
    BY <1>0 DEF TypeOK
  <2>4. \A k \in Jobs : pc'[k] \in {"streaming", "succeeded", "failed"} => Current(k)' \in Calls
    BY <1>0, <2>3 DEF WatcherInv, c
  <2>5. ASSUME NEW d \in Calls, watcher'[d] # "none", d \notin halted'
        PROVE  d = Current(d[1])' /\ pc'[d[1]] \in {"streaming", "failed"}
    <3>1. d = Current(d[1]) /\ pc[d[1]] \in {"streaming", "failed"} /\ d[1] \in Jobs
      BY <1>0, <2>1, <2>5 DEF WatcherInv
    <3>2. d[1] = j => d = c
      BY <3>1 DEF c
    <3> QED BY <1>0, <2>3, <2>5, <3>1, <3>2
  <2>6. \A k \in Jobs, n \in 1..MaxCalls :
          n > call'[k] \/ (n = call'[k] /\ pc'[k] = "between") => watcher'[<<k, n>>] = "none"
    BY <1>0, <2>3 DEF WatcherInv
  <2> QED BY <1>0, <2>2, <2>4, <2>5, <2>6 DEF WatcherInv
<1>7. ToldInv'
  <2>1. \A f \in running' : <<f.name, f.call>> \in told'
    BY <1>2, <1>3 DEF ToldInv
  <2>2. \A d \in Calls : <<"call_finished", d>> \in told' =>
          d \in halted' \/ \E f \in running' : IsEvent(f, "call_finished", d)
    <3>1. CASE running' = {e} /\ running = {} /\ told' = told \cup {<<"call_finished", c>>}
      BY <1>0, <1>3, <3>1 DEF ToldInv, IsEvent
    <3>2. CASE running' = running /\ told' = told
      BY <1>0, <3>2 DEF ToldInv
    <3> QED BY <1>2, <3>1, <3>2
  <2>3. \A name \in FinalNames : <<name, None>> \in told' => main' # "working"
    BY <1>0, <1>2, NamesDiffer DEF ToldInv
  <2>4. NoOutputAfterFinish'
    BY <1>2, <1>3 DEF ToldInv, NothingComesLate, NoOutputAfterFinish
  <2>5. LastEventsComeLast'
    <3>1. \A name \in FinalNames : <<name, None>> \notin told
      BY <1>0 DEF ToldInv, WatcherInv, JobsAreOver
    <3>2. \A name \in FinalNames : <<name, None>> \notin told'
      BY <1>2, <3>1, NamesDiffer
    <3> QED BY <3>2 DEF LastEventsComeLast
  <2> QED BY <2>1, <2>2, <2>3, <2>4, <2>5 DEF ToldInv, NothingComesLate
<1>8. LossInv'
  <2>1. \A k \in Jobs, n \in 1..MaxCalls : Ended(k, n)' => Ended(k, n) \/ <<k, n>> = c
    BY <1>0 DEF Ended, c, Current, TypeOK
  <2>2. \/ <<"call_finished", c>> \in told'
        \/ \E f \in Elems(line') : IsEvent(f, "call_finished", c)
    BY <1>2
  <2>3. told \subseteq told' /\ Elems(line) \subseteq Elems(line')
    BY <1>2
  <2> QED BY <1>0, <2>1, <2>2, <2>3 DEF LossInv
<1> QED BY <1>2, <1>4, <1>5, <1>6, <1>7, <1>8

LEMMA FollowStep ==
  ASSUME EventInv, NEW c \in Calls, Follow(c)
  PROVE  EventInv'
<1> USE DEF EventInv
<1>0. /\ watcher[c] = "asleep" /\ c \notin halted
      /\ shown' = [shown EXCEPT ![c] = text[c]]
      /\ watcher' = [watcher EXCEPT ![c] = "publishing"]
      /\ UNCHANGED <<pc, call, doomed, text, halted, main, interrupts>>
      /\ \A k \in Jobs : Current(k)' = Current(k)
      /\ Publish("call_output", c, text[c], line, running)
  BY DEF Follow, jobVars, mainVars, Current
<1>1. \A e \in Queued : ~IsEvent(e, "call_output", c)
  BY <1>0, NothingQueued
<1>2. PICK e \in Event :
        /\ IsEvent(e, "call_output", c)
        /\ QueueInv'
        /\ \/ /\ running = {} /\ running' = {e} /\ Elems(line') = Elems(line)
              /\ told' = told \cup {<<"call_output", c>>}
           \/ running' = running /\ Elems(line') = Elems(line) \cup {e} /\ told' = told
  <2>1. QueueOK(line, running) /\ latest <= seq /\ text[c] \in 0..MaxText /\ "call_output" \in Names
    BY DEF QueueInv, Names, TypeOK
  <2>2. halted \subseteq halted' /\ doomed \subseteq doomed'
    BY <1>0
  <2> QED BY <1>0, <1>1, <2>1, <2>2, Publishing DEF Queued
<1>3. Queued' \subseteq Queued \cup {e} /\ e.name = "call_output" /\ e.call = c
  BY <1>2 DEF Queued, IsEvent
<1>4. TypeOK'
  <2>1. told' \subseteq Names \X (Calls \cup {None})
    BY <1>2 DEF TypeOK, Names
  <2> QED BY <1>0, <1>2, <2>1 DEF TypeOK, QueueInv, QueueOK
<1>5. PublisherInv'
  <2>1. HasPublisher(e)'
    BY <1>0, <1>3, NamesDiffer DEF HasPublisher, TypeOK
  <2>2. \A f \in Queued : HasPublisher(f)'
    BY <1>0 DEF PublisherInv, HasPublisher, TypeOK
  <2> QED BY <1>3, <2>1, <2>2, NamesDiffer DEF PublisherInv
<1>6. WatcherInv'
  <2>1. watcher \in [Calls -> {"none", "asleep", "publishing", "over"}]
    BY DEF TypeOK
  <2>2. \A d \in Calls : watcher'[d] = "none" <=> watcher[d] = "none"
    BY <1>0, <2>1
  <2>3. \A k \in Jobs, n \in 1..MaxCalls : <<k, n>> \in Calls
    BY DEF Calls
  <2>4. \A d \in Calls : d[1] \in Jobs
    BY DEF Calls
  <2> QED BY <1>0, <2>2, <2>3, <2>4 DEF WatcherInv, JobsAreOver
<1>7. ToldInv'
  <2>1. pc[c[1]] \in {"streaming", "failed"} /\ c[1] \in Jobs
    BY <1>0 DEF WatcherInv, Calls
  <2>2. main = "working"
    BY <2>1 DEF WatcherInv, JobsAreOver, TypeOK
  <2>3. running = {} => <<"call_finished", c>> \notin told
    BY <1>0 DEF ToldInv
  <2> QED BY <1>0, <1>2, <1>3, <2>2, <2>3, NamesDiffer
      DEF ToldInv, NothingComesLate, NoOutputAfterFinish, LastEventsComeLast, FinalNames, IsEvent
<1>8. LossInv'
  BY <1>0, <1>2 DEF LossInv, Ended
<1> QED BY <1>2, <1>4, <1>5, <1>6, <1>7, <1>8

\* A last event is published beside the line w and the callbacks h, in which there is none.
LEMMA LastEventPublished ==
  ASSUME EventInv, NEW w, NEW h, QueueOK(w, h), Elems(w) \subseteq Elems(line), h \subseteq running,
         NEW name \in FinalNames, Publish(name, None, 0, w, h),
         \A e \in Elems(w) \cup h : e.name \notin FinalNames,
         UNCHANGED <<jobVars, watcherVars>>, main' = "closing", JobsAreOver,
         interrupts' \in 0..MaxInterrupts,
         interrupts' = 0 => interrupts = 0 /\ w = line
  PROVE  EventInv'
<1> USE DEF EventInv
<1>0. /\ UNCHANGED <<pc, call, doomed, text, shown, watcher, halted>>
      /\ \A k \in Jobs : Current(k)' = Current(k)
      /\ name \in Names /\ name \notin {"call_output", "call_finished"}
  BY NamesDiffer DEF jobVars, watcherVars, Current
<1>1. PICK e \in Event :
        /\ IsEvent(e, name, None)
        /\ QueueInv'
        /\ \/ /\ h = {} /\ running' = {e} /\ Elems(line') = Elems(w)
              /\ told' = told \cup {<<name, None>>}
           \/ running' = h /\ Elems(line') = Elems(w) \cup {e} /\ told' = told
  <2>1. latest <= seq /\ 0 \in 0..MaxText /\ None \in Calls \cup {None}
    BY EventsAssumption DEF QueueInv
  <2>2. \A e \in Elems(w) \cup h : ~IsEvent(e, name, None)
    BY DEF IsEvent
  <2>3. halted \subseteq halted' /\ doomed \subseteq doomed'
    BY <1>0
  <2> QED BY <1>0, <2>1, <2>2, <2>3, Publishing
<1>2. e.name = name /\ e.call = None /\ Queued' \subseteq Elems(w) \cup h \cup {e} /\ Elems(w) \cup h \subseteq Queued
  BY <1>1 DEF Queued, IsEvent
<1>3. TypeOK'
  <2>1. told' \subseteq Names \X (Calls \cup {None})
    BY <1>0, <1>1 DEF TypeOK
  <2> QED BY <1>0, <1>1, <2>1 DEF TypeOK, QueueInv, QueueOK
<1>4. PublisherInv'
  <2>1. HasPublisher(e)'
    BY <1>0, <1>2 DEF HasPublisher
  <2>2. \A f \in Elems(w) \cup h : HasPublisher(f)'
    BY <1>0, <1>2 DEF PublisherInv, HasPublisher
  <2> QED BY <1>2, <2>1, <2>2 DEF PublisherInv
<1>5. WatcherInv'
  <2>1. \A d \in Calls : d[1] \in Jobs
    BY DEF Calls
  <2> QED BY <1>0, <2>1 DEF WatcherInv, JobsAreOver
<1>6. ToldInv'
  <2>1. \A f \in running' : <<f.name, f.call>> \in told'
    BY <1>1, <1>2 DEF ToldInv
  <2>2. \A d \in Calls : <<"call_finished", d>> \in told' => <<"call_finished", d>> \in told
    BY <1>0, <1>1
  <2>3. \A f \in running : f.name # "call_finished"
    BY DEF PublisherInv, HasPublisher, Queued, JobsAreOver
  <2>4. NoOutputAfterFinish'
    BY <1>0, <1>1, <1>2 DEF ToldInv, NothingComesLate, NoOutputAfterFinish
  <2>5. LastEventsComeLast'
    BY <1>1, <1>2 DEF ToldInv, NothingComesLate, LastEventsComeLast
  <2> QED BY <1>0, <2>1, <2>2, <2>3, <2>4, <2>5 DEF ToldInv, NothingComesLate, IsEvent
<1>7. LossInv'
  BY <1>0, <1>1 DEF LossInv, Ended
<1> QED BY <1>1, <1>3, <1>4, <1>5, <1>6, <1>7

LEMMA CloseStep ==
  ASSUME EventInv, Close
  PROVE  EventInv'
<1> USE DEF EventInv
<1>1. PICK name \in LastEvents : Publish(name, None, 0, line, running)
  BY DEF Close
<1>2. /\ main = "working" /\ JobsAreOver /\ main' = "closing" /\ interrupts' = interrupts
      /\ UNCHANGED <<jobVars, watcherVars>> /\ name \in FinalNames /\ interrupts \in 0..MaxInterrupts
  BY DEF Close, LastEvents, FinalNames, TypeOK
<1>3. QueueOK(line, running) /\ \A e \in Elems(line) \cup running : e.name \notin FinalNames
  BY <1>2, NothingQueued DEF QueueInv, Queued
<1> QED BY <1>1, <1>2, <1>3, LastEventPublished

LEMMA InterruptCompletedStep ==
  ASSUME EventInv, InterruptCompleted
  PROVE  EventInv'
<1> USE DEF EventInv
<1> DEFINE w == WithoutLine("run_completed", None)
           h == WithoutRunning("run_completed", None)
<1>1. PICK name \in {"run_failed", "run_cancelled"} : Publish(name, None, 0, w, h)
  BY DEF InterruptCompleted
<1>2. /\ main = "closing" /\ main' = "closing" /\ interrupts' = interrupts + 1 /\ interrupts < MaxInterrupts
      /\ UNCHANGED <<jobVars, watcherVars>> /\ name \in FinalNames
      /\ interrupts' \in 0..MaxInterrupts /\ interrupts' # 0
  BY EventsAssumption DEF InterruptCompleted, FinalNames, TypeOK
<1>3. JobsAreOver
  BY <1>2 DEF WatcherInv
<1>4. QueueOK(w, h) /\ Elems(w) = {e \in Elems(line) : ~IsEvent(e, "run_completed", None)}
  BY Withdrawal
<1>5. h = {e \in running : ~IsEvent(e, "run_completed", None)}
  BY DEF WithoutRunning
<1>6. \E e \in Queued : e.name = "run_completed"
  BY DEF InterruptCompleted, OnItsWay, Queued, Elems
<1>7. \A e \in Queued : e.name \in FinalNames => IsEvent(e, "run_completed", None)
  BY <1>6 DEF PublisherInv, HasPublisher, IsEvent, FinalNames
<1>8. \A e \in Elems(w) \cup h : e.name \notin FinalNames
  BY <1>4, <1>5, <1>7 DEF Queued
<1>9. Elems(w) \subseteq Elems(line) /\ h \subseteq running
  BY <1>4, <1>5
<1> HIDE DEF w, h
<1> QED BY <1>1, <1>2, <1>3, <1>4, <1>8, <1>9, LastEventPublished

-----------------------------------------------------------------------------
(* Steps that end a callback or leave the line *)

\* What a step that only removes events keeps, given how it moves their publishers.
LEMMA RemovalKeeps ==
  ASSUME EventInv, Elems(line') \subseteq Elems(line), running' \subseteq running, told' = told,
         \A e \in Queued' : HasPublisher(e)',
         halted \subseteq halted',
         \A c \in Calls : (\E e \in running \ running' : IsEvent(e, "call_finished", c)) => c \in halted',
         main # "working" => main' # "working"
  PROVE  PublisherInv' /\ ToldInv'
<1> USE DEF EventInv
<1>1. Queued' \subseteq Queued
  BY DEF Queued
<1>2. PublisherInv'
  BY <1>1 DEF PublisherInv
<1>3. \A c \in Calls : <<"call_finished", c>> \in told =>
        c \in halted' \/ \E e \in running' : IsEvent(e, "call_finished", c)
  BY DEF ToldInv
<1>4. NothingComesLate'
  BY DEF ToldInv, NothingComesLate, NoOutputAfterFinish, LastEventsComeLast
<1> QED BY <1>2, <1>3, <1>4 DEF ToldInv

LEMMA CallFinishedStep ==
  ASSUME EventInv, NEW j \in Jobs, CallFinished(j)
  PROVE  EventInv'
<1> USE DEF EventInv
<1> DEFINE c == Current(j)
<1>0. /\ pc[j] \in {"succeeded", "failed"} /\ c \in Calls /\ call[j] \in 1..MaxCalls
      /\ running' = WithoutRunning("call_finished", c) /\ halted' = halted \cup {c}
      /\ call' = [call EXCEPT ![j] = @ + 1] /\ pc' = [pc EXCEPT ![j] = "between"]
      /\ UNCHANGED <<seq, line, latest, told, doomed, text, shown, watcher, main, interrupts>>
  BY DEF CallFinished, HaltedAfter, WatcherInv, Current, Calls, mainVars
<1>1. running' = {e \in running : ~IsEvent(e, "call_finished", c)}
  BY <1>0 DEF WithoutRunning
<1>2. /\ call'[j] = call[j] + 1 /\ pc'[j] = "between"
      /\ \A k \in Jobs : k # j => call'[k] = call[k] /\ pc'[k] = pc[k] /\ Current(k)' = Current(k)
  BY <1>0 DEF TypeOK, Current
<1>3. QueueInv'
  <2>1. QueueOK(line, running')
    BY <1>1 DEF QueueInv, QueueOK
  <2> QED BY <1>0, <2>1, QueueShrinks
<1>4. TypeOK'
  <2>1. call' \in [Jobs -> 1..(MaxCalls + 1)]
    BY <1>0, EventsAssumption DEF TypeOK
  <2> QED BY <1>0, <1>1, <2>1 DEF TypeOK
<1>5. PICK e \in running : IsEvent(e, "call_finished", c)
  BY DEF CallFinished
<1>6. \A f \in Queued' : f \in Queued /\ ~IsEvent(f, "call_finished", c)
  <2>1. \A i \in 1..Len(line) : ~IsEvent(line[i], "call_finished", c)
    BY <1>5 DEF QueueInv, QueueOK, IsEvent
  <2> QED BY <1>0, <1>1, <2>1 DEF Queued, Elems
<1>7. \A f \in Queued' : HasPublisher(f)'
  <2> SUFFICES ASSUME NEW f \in Queued'
               PROVE  HasPublisher(f)'
    OBVIOUS
  <2>1. HasPublisher(f) /\ ~IsEvent(f, "call_finished", c)
    BY <1>6 DEF PublisherInv
  <2>2. f.name = "call_finished" => \E k \in Jobs : f.call = Current(k)' /\ pc'[k] \in {"succeeded", "failed"}
    BY <1>2, <2>1 DEF HasPublisher, IsEvent
  <2> QED BY <1>0, <2>1, <2>2 DEF HasPublisher
<1> HIDE DEF c
<1>8. PublisherInv' /\ ToldInv'
  <2>1. \A d \in Calls : (\E f \in running \ running' : IsEvent(f, "call_finished", d)) => d \in halted'
    BY <1>0, <1>1 DEF IsEvent
  <2>2. Elems(line') \subseteq Elems(line) /\ running' \subseteq running /\ told' = told /\ halted \subseteq halted'
    BY <1>0, <1>1
  <2> QED BY <1>0, <1>7, <2>1, <2>2, RemovalKeeps
<1>9. WatcherInv'
  <2>1. \A d \in Calls : d[1] \in Jobs
    BY DEF Calls
  <2>2. ~JobsAreOver
    BY <1>0 DEF JobsAreOver
  <2>3. \A k \in Jobs : pc'[k] \in {"streaming", "succeeded", "failed"} => Current(k)' \in Calls
    BY <1>2 DEF WatcherInv
  <2>4. ASSUME NEW d \in Calls, watcher'[d] # "none", d \notin halted'
        PROVE  d = Current(d[1])' /\ pc'[d[1]] \in {"streaming", "failed"}
    <3>1. d = Current(d[1]) /\ pc[d[1]] \in {"streaming", "failed"} /\ d[1] \in Jobs
      BY <1>0, <2>1, <2>4 DEF WatcherInv
    <3>2. d[1] # j
      BY <1>0, <2>4, <3>1 DEF c
    <3> QED BY <1>2, <3>1, <3>2
  <2>5. \A k \in Jobs, n \in 1..MaxCalls :
          n > call'[k] \/ (n = call'[k] /\ pc'[k] = "between") => watcher'[<<k, n>>] = "none"
    BY <1>0, <1>2 DEF WatcherInv
  <2> QED BY <1>0, <2>2, <2>3, <2>4, <2>5 DEF WatcherInv
<1>10. LossInv'
  <2>1. \A k \in Jobs, n \in 1..MaxCalls : Ended(k, n)' => Ended(k, n)
    BY <1>0, <1>2 DEF Ended
  <2> QED BY <1>0, <2>1 DEF LossInv
<1> QED BY <1>3, <1>4, <1>8, <1>9, <1>10

\* The step of a watcher: its call_output is gone from the line and from the callbacks.
LEMMA WatcherStepKeeps ==
  ASSUME EventInv, NEW c \in Calls, watcher[c] \in {"asleep", "publishing"}, NEW next \in {"asleep", "over"},
         watcher' = [watcher EXCEPT ![c] = next],
         QueueInv', Elems(line') \subseteq Elems(line), running' \subseteq running,
         \A e \in Queued' : ~IsEvent(e, "call_output", c),
         \A e \in Queued \ Queued' : e.name = "call_output",
         UNCHANGED <<told, jobVars, shown, halted, mainVars>>
  PROVE  EventInv'
<1> USE DEF EventInv
<1>0. /\ UNCHANGED <<told, pc, call, doomed, text, shown, halted, main, interrupts>>
      /\ \A k \in Jobs : Current(k)' = Current(k)
      /\ Queued' \subseteq Queued
  BY DEF jobVars, mainVars, Current, Queued
<1>1. TypeOK'
  BY <1>0 DEF TypeOK, QueueInv, QueueOK
<1>2. \A e \in Queued' : HasPublisher(e)'
  BY <1>0 DEF PublisherInv, HasPublisher, TypeOK, IsEvent
<1>3. \A e \in running \ running' : e.name = "call_output"
  <2>1. ASSUME NEW e \in running \ running', e \in Queued'
        PROVE  FALSE
    <3>1. PICK i \in 1..Len(line) : line[i] = e
      BY <2>1 DEF Queued, Elems
    <3> QED BY <3>1 DEF QueueInv, QueueOK, IsEvent
  <2> QED BY <2>1 DEF Queued
<1>4. PublisherInv' /\ ToldInv'
  BY <1>0, <1>2, <1>3, RemovalKeeps DEF IsEvent
<1>5. WatcherInv'
  <2>1. watcher \in [Calls -> {"none", "asleep", "publishing", "over"}]
    BY DEF TypeOK
  <2>2. \A d \in Calls : watcher'[d] = "none" <=> watcher[d] = "none"
    BY <2>1
  <2>3. \A k \in Jobs, n \in 1..MaxCalls : <<k, n>> \in Calls
    BY DEF Calls
  <2>4. \A d \in Calls : d[1] \in Jobs
    BY DEF Calls
  <2> QED BY <1>0, <2>2, <2>3, <2>4 DEF WatcherInv, JobsAreOver
<1>6. LossInv'
  <2>1. \A e \in Elems(line) \ Elems(line') : e.name = "call_output"
    <3>1. ASSUME NEW e \in Elems(line) \ Elems(line'), e \in running'
          PROVE  FALSE
      <4>1. PICK i \in 1..Len(line) : line[i] = e
        BY <3>1 DEF Elems
      <4> QED BY <3>1, <4>1 DEF QueueInv, QueueOK, IsEvent
    <3> QED BY <3>1 DEF Queued
  <2> QED BY <1>0, <2>1 DEF LossInv, Ended, IsEvent
<1> QED BY <1>1, <1>4, <1>5, <1>6

LEMMA OutputShownStep ==
  ASSUME EventInv, NEW c \in Calls, OutputShown(c)
  PROVE  EventInv'
<1> USE DEF EventInv
<1>1. PICK e \in running : IsEvent(e, "call_output", c)
  BY DEF OutputShown
<1>2. /\ running' = {f \in running : ~IsEvent(f, "call_output", c)} /\ watcher[c] = "publishing"
      /\ watcher' = [watcher EXCEPT ![c] = "asleep"]
      /\ UNCHANGED <<seq, line, latest, told, jobVars, shown, halted, mainVars>>
      /\ doomed' = doomed
  BY DEF OutputShown, WithoutRunning, jobVars
<1>3. QueueInv'
  <2>1. QueueOK(line, running')
    BY <1>2 DEF QueueInv, QueueOK
  <2> QED BY <1>2, <2>1, QueueShrinks
<1>4. \A i \in 1..Len(line) : ~IsEvent(line[i], "call_output", c)
  BY <1>1 DEF QueueInv, QueueOK, IsEvent
<1>5. /\ \A f \in Queued' : ~IsEvent(f, "call_output", c)
      /\ \A f \in Queued \ Queued' : f.name = "call_output"
  BY <1>2, <1>4 DEF Queued, Elems, IsEvent
<1>6. Elems(line') \subseteq Elems(line) /\ running' \subseteq running
  BY <1>2
<1> QED BY <1>2, <1>3, <1>5, <1>6, WatcherStepKeeps

LEMMA WatcherCancelledStep ==
  ASSUME EventInv, NEW c \in Calls, WatcherCancelled(c)
  PROVE  EventInv'
<1> USE DEF EventInv
<1>1. /\ watcher[c] \in {"asleep", "publishing"} /\ watcher' = [watcher EXCEPT ![c] = "over"]
      /\ line' = WithoutLine("call_output", c) /\ running' = WithoutRunning("call_output", c)
      /\ UNCHANGED <<seq, latest, told, jobVars, shown, halted, mainVars>> /\ doomed' = doomed
  BY DEF WatcherCancelled, Withdraw, jobVars
<1>2. /\ QueueOK(line', running')
      /\ Elems(line') = {e \in Elems(line) : ~IsEvent(e, "call_output", c)}
      /\ running' = {e \in running : ~IsEvent(e, "call_output", c)}
  BY <1>1, Withdrawal DEF WithoutRunning
<1>3. QueueInv'
  BY <1>1, <1>2, QueueShrinks
<1>4. /\ \A f \in Queued' : ~IsEvent(f, "call_output", c)
      /\ \A f \in Queued \ Queued' : f.name = "call_output"
      /\ Elems(line') \subseteq Elems(line) /\ running' \subseteq running
  BY <1>2 DEF Queued, IsEvent
<1> QED BY <1>1, <1>3, <1>4, WatcherStepKeeps

LEMMA JobCancelledStep ==
  ASSUME EventInv, NEW j \in Jobs, JobCancelled(j)
  PROVE  EventInv'
<1> USE DEF EventInv
<1> DEFINE c == Current(j)
<1>0. /\ j \in doomed /\ pc[j] \notin {"between", "over"} /\ pc' = [pc EXCEPT ![j] = "over"]
      /\ halted' = halted \cup {c}
      /\ line' = WithoutLine("call_finished", c) /\ running' = WithoutRunning("call_finished", c)
      /\ UNCHANGED <<seq, latest, told, call, doomed, text, shown, watcher, main, interrupts>>
      /\ \A k \in Jobs : Current(k)' = Current(k)
  BY DEF JobCancelled, Withdraw, mainVars, Current
<1>1. /\ c \in Calls /\ pc'[j] = "over" /\ \A k \in Jobs : k # j => pc'[k] = pc[k]
      /\ ~JobsAreOver
  BY <1>0 DEF WatcherInv, TypeOK, JobsAreOver
<1>2. /\ QueueOK(line', running')
      /\ Elems(line') = {e \in Elems(line) : ~IsEvent(e, "call_finished", c)}
      /\ running' = {e \in running : ~IsEvent(e, "call_finished", c)}
  BY <1>0, Withdrawal DEF WithoutRunning
<1> HIDE DEF c
<1>3. QueueInv'
  BY <1>0, <1>2, QueueShrinks
<1>4. TypeOK'
  BY <1>0, <1>1, <1>2 DEF TypeOK, QueueOK
<1>5. \A f \in Queued' : HasPublisher(f)'
  <2> SUFFICES ASSUME NEW f \in Queued'
               PROVE  HasPublisher(f)'
    OBVIOUS
  <2>1. HasPublisher(f) /\ ~IsEvent(f, "call_finished", c)
    BY <1>2 DEF PublisherInv, Queued
  <2>2. f.name = "call_finished" => \E k \in Jobs : f.call = Current(k)' /\ pc'[k] \in {"succeeded", "failed"}
    BY <1>0, <1>1, <2>1 DEF HasPublisher, IsEvent, c
  <2> QED BY <1>0, <2>1, <2>2 DEF HasPublisher
<1>6. PublisherInv' /\ ToldInv'
  <2>1. \A d \in Calls : (\E f \in running \ running' : IsEvent(f, "call_finished", d)) => d \in halted'
    BY <1>0, <1>2 DEF IsEvent
  <2> QED BY <1>0, <1>2, <1>5, <2>1, RemovalKeeps
<1>7. WatcherInv'
  <2>1. \A d \in Calls : d[1] \in Jobs
    BY DEF Calls
  <2>2. ASSUME NEW d \in Calls, watcher'[d] # "none", d \notin halted'
        PROVE  d = Current(d[1])' /\ pc'[d[1]] \in {"streaming", "failed"}
    <3>1. d = Current(d[1]) /\ pc[d[1]] \in {"streaming", "failed"} /\ d[1] \in Jobs
      BY <1>0, <2>1, <2>2 DEF WatcherInv
    <3>2. d[1] # j
      BY <1>0, <2>2, <3>1 DEF c
    <3> QED BY <1>0, <1>1, <3>1, <3>2
  <2> QED BY <1>0, <1>1, <2>2 DEF WatcherInv
<1>8. LossInv'
  BY <1>0 DEF LossInv
<1> QED BY <1>3, <1>4, <1>6, <1>7, <1>8

\* The last event is gone, delivered or dropped, and the run is over.
LEMMA LastEventGone ==
  ASSUME EventInv, QueueInv', Elems(line') \subseteq Elems(line), running' \subseteq running,
         \A e \in running \ running' : e.name \in FinalNames,
         interrupts' = 0 => interrupts = 0 /\ line' = line,
         main # "working", main' = "over", interrupts' \in 0..MaxInterrupts,
         UNCHANGED <<told, jobVars, watcherVars>>
  PROVE  EventInv'
<1> USE DEF EventInv
<1>0. /\ UNCHANGED <<told, pc, call, doomed, text, shown, watcher, halted>>
      /\ \A k \in Jobs : Current(k)' = Current(k)
      /\ Queued' \subseteq Queued
  BY DEF jobVars, watcherVars, Current, Queued
<1>1. TypeOK'
  BY <1>0 DEF TypeOK, QueueInv, QueueOK
<1>2. \A e \in Queued' : HasPublisher(e)'
  BY <1>0 DEF PublisherInv, HasPublisher
<1>3. PublisherInv' /\ ToldInv'
  BY <1>0, <1>2, NamesDiffer, RemovalKeeps DEF IsEvent
<1>4. WatcherInv'
  <2>1. \A d \in Calls : d[1] \in Jobs
    BY DEF Calls
  <2> QED BY <1>0, <2>1 DEF WatcherInv, JobsAreOver
<1>5. LossInv'
  BY <1>0 DEF LossInv, Ended
<1> QED BY <1>1, <1>3, <1>4, <1>5

LEMMA InterruptFailedStep ==
  ASSUME EventInv, InterruptFailed
  PROVE  EventInv'
<1> USE DEF EventInv
<1>1. /\ main = "closing" /\ main' = "over" /\ interrupts' = interrupts + 1 /\ interrupts < MaxInterrupts
      /\ line' = WithoutLine("run_failed", None) /\ running' = WithoutRunning("run_failed", None)
      /\ UNCHANGED <<seq, latest, told, jobVars, watcherVars>> /\ doomed' = doomed /\ halted' = halted
      /\ interrupts' \in 0..MaxInterrupts /\ interrupts' # 0
  BY EventsAssumption DEF InterruptFailed, Withdraw, jobVars, watcherVars, TypeOK
<1>2. /\ QueueOK(line', running')
      /\ Elems(line') = {e \in Elems(line) : ~IsEvent(e, "run_failed", None)}
      /\ running' = {e \in running : ~IsEvent(e, "run_failed", None)}
  BY <1>1, Withdrawal DEF WithoutRunning
<1>3. QueueInv'
  BY <1>1, <1>2, QueueShrinks
<1>4. \A e \in running \ running' : e.name \in FinalNames
  BY <1>2 DEF IsEvent, FinalNames
<1> QED BY <1>1, <1>2, <1>3, <1>4, LastEventGone

LEMMA RunEndsStep ==
  ASSUME EventInv, RunEnds
  PROVE  EventInv'
<1> USE DEF EventInv
<1>1. /\ running' = {e \in running : e.name \notin FinalNames} /\ main' = "over"
      /\ UNCHANGED <<seq, line, latest, told, jobVars, watcherVars, interrupts>>
      /\ doomed' = doomed /\ halted' = halted /\ interrupts' \in 0..MaxInterrupts
      /\ \E e \in running : e.name \in FinalNames
  BY DEF RunEnds, jobVars, watcherVars, TypeOK
<1>2. main # "working"
  BY <1>1 DEF PublisherInv, HasPublisher, Queued
<1>3. QueueOK(line, running')
  BY <1>1 DEF QueueInv, QueueOK
<1>4. QueueInv'
  BY <1>1, <1>3, QueueShrinks
<1> QED BY <1>1, <1>2, <1>4, LastEventGone

-----------------------------------------------------------------------------
(* The first in line is called *)

LEMMA AcquireStep ==
  ASSUME EventInv, Acquire
  PROVE  EventInv'
<1> USE DEF EventInv
<1>0. /\ UNCHANGED <<seq, pc, call, doomed, text, shown, watcher, halted, main, interrupts>>
      /\ \A k \in Jobs : Current(k)' = Current(k)
  BY DEF Acquire, jobVars, watcherVars, mainVars, Current
<1>1. PICK e \in Elems(line) :
           /\ running = {} /\ running' = {e} /\ ~IsDoomed(e) /\ e \in Event
           /\ told' = told \cup {<<e.name, e.call>>}
           /\ Elems(line) = Elems(line') \cup {e}
           /\ QueueInv'
  BY Acquiring
<1>2. Queued' = Queued /\ e \in Queued /\ HasPublisher(e)
  BY <1>1 DEF Queued, PublisherInv
<1>3. TypeOK'
  <2>1. <<e.name, e.call>> \in Names \X (Calls \cup {None})
    BY <1>1 DEF Event
  <2> QED BY <1>0, <1>1, <2>1 DEF TypeOK, QueueInv, QueueOK
<1>4. PublisherInv'
  BY <1>0, <1>2 DEF PublisherInv, HasPublisher
<1>5. WatcherInv'
  <2>1. \A d \in Calls : d[1] \in Jobs
    BY DEF Calls
  <2> QED BY <1>0, <2>1 DEF WatcherInv, JobsAreOver
<1>6. ToldInv'
  <2>1. \A d \in Calls : <<"call_finished", d>> \in told' =>
          d \in halted' \/ \E f \in running' : IsEvent(f, "call_finished", d)
    BY <1>0, <1>1 DEF ToldInv, IsEvent
  <2>2. \A name \in FinalNames : <<name, None>> \in told' => main' # "working"
    BY <1>0, <1>1, <1>2 DEF ToldInv, HasPublisher
  <2>3. ASSUME e.name = "call_output"
        PROVE  e.call \in Calls /\ e.call \notin halted /\ watcher[e.call] = "publishing"
    BY <1>1, <1>2, <2>3 DEF HasPublisher, IsDoomed
  <2>4. NoOutputAfterFinish'
    BY <1>1, <2>3 DEF ToldInv, NoOutputAfterFinish
  <2>5. e.name \notin FinalNames => main = "working"
    <3>1. CASE e.name = "call_output"
      <4>1. pc[e.call[1]] \in {"streaming", "failed"} /\ e.call[1] \in Jobs
        BY <2>3, <3>1 DEF WatcherInv, Calls
      <4> QED BY <4>1 DEF WatcherInv, JobsAreOver
    <3>2. CASE e.name = "call_finished"
      BY <1>2, <3>2 DEF HasPublisher, WatcherInv, JobsAreOver
    <3> QED BY <1>1, <3>1, <3>2 DEF Event, Names, FinalNames
  <2>6. LastEventsComeLast'
    BY <1>1, <2>5 DEF ToldInv, LastEventsComeLast
  <2> QED BY <1>1, <2>1, <2>2, <2>4, <2>6 DEF ToldInv, NothingComesLate
<1>7. LossInv'
  BY <1>0, <1>1 DEF LossInv, Ended, IsEvent
<1> QED BY <1>1, <1>3, <1>4, <1>5, <1>6, <1>7

-----------------------------------------------------------------------------
(* The theorems *)

LEMMA EventInit == Init => EventInv
<1> SUFFICES ASSUME Init PROVE EventInv
  OBVIOUS
<1>1. TypeOK
  BY EventsAssumption DEF Init, TypeOK
<1>2. Queued = {} /\ Elems(line) = {}
  BY DEF Init, Queued, Elems
<1>3. QueueInv
  BY <1>1 DEF Init, TypeOK, QueueInv, QueueOK
<1>4. WatcherInv
  <2>1. \A j \in Jobs, n \in 1..MaxCalls : <<j, n>> \in Calls
    BY DEF Calls
  <2> QED BY <2>1 DEF Init, WatcherInv
<1>5. LossInv
  BY DEF Init, LossInv, Ended
<1> QED BY <1>1, <1>2, <1>3, <1>4, <1>5
    DEF Init, EventInv, PublisherInv, ToldInv, NothingComesLate, NoOutputAfterFinish, LastEventsComeLast

LEMMA EventStep == EventInv /\ [Next]_vars => EventInv'
<1> SUFFICES ASSUME EventInv, [Next]_vars PROVE EventInv'
  OBVIOUS
<1>1. CASE UNCHANGED vars
  <2>1. UNCHANGED <<seq, line, running, latest, told, pc, call, doomed, text, shown, watcher, halted, main, interrupts>>
    BY <1>1 DEF vars, queueVars, jobVars, watcherVars, mainVars
  <2>2. QueueInv'
    BY <2>1, QueueRests DEF EventInv, queueVars
  <2> QED BY <2>1, <2>2
      DEF EventInv, TypeOK, PublisherInv, HasPublisher, Queued, WatcherInv, JobsAreOver, ToldInv, NothingComesLate,
          NoOutputAfterFinish, LastEventsComeLast, LossInv, Ended, Current
<1>2. CASE Acquire
  BY <1>2, AcquireStep
<1>3. ASSUME NEW j \in Jobs, JobStep(j) \/ Write(j) PROVE EventInv'
  BY <1>3, StartCallStep, WriteStep, CallEndsStep, CallFinishedStep, JobEndsStep, JobCancelledStep DEF JobStep
<1>4. ASSUME NEW c \in Calls, WatcherStep(c) \/ Follow(c) PROVE EventInv'
  BY <1>4, FollowStep, OutputShownStep, WatcherCancelledStep DEF WatcherStep
<1>5. CASE Interrupt \/ Close \/ InterruptCompleted \/ InterruptFailed \/ InterruptCancelled \/ RunEnds
  BY <1>5, InterruptStep, CloseStep, InterruptCompletedStep, InterruptFailedStep, InterruptCancelledStep, RunEndsStep
<1> QED BY <1>1, <1>2, <1>3, <1>4, <1>5 DEF Next, Rest

LEMMA EventsInvariant == Spec => []EventInv
BY EventInit, EventStep, PTL DEF Spec

\* The variables keep their types, however many jobs and calls there are.
THEOREM EventTypes == Spec => []TypeOK
<1>1. EventInv => TypeOK
  BY DEF EventInv
<1> QED BY <1>1, EventsInvariant, PTL

\* No call_output follows the call_finished of its call, and only another last event
\* follows a last event: when event() calls the callback of a call_output, finally has
\* not yet cancelled the watcher and no call_finished holds the lock.
THEOREM NoEventComesLate == Spec => []NothingComesLate
<1>1. EventInv => NothingComesLate
  BY DEF EventInv, ToldInv
<1> QED BY <1>1, EventsInvariant, PTL

\* Without an interrupt every call_finished is delivered or in line: a watcher that is
\* cancelled in event() withdraws its own event and no other.
THEOREM NoOtherEventIsLost == Spec => []OnlyOutputsAreLost
<1>1. EventInv => OnlyOutputsAreLost
  BY DEF EventInv, LossInv, Ended, OnlyOutputsAreLost, Elems
<1> QED BY <1>1, EventsInvariant, PTL

\* What event() does to the callbacks, beside the line and the lock it finds.
LEMMA PublishingInOrder ==
  ASSUME EventInv, NEW w, NEW h, QueueOK(w, h), h \subseteq running,
         NEW name, NEW c, NEW n, Publish(name, c, n, w, h)
  PROVE  \A e \in running' \ running : running' = {e} /\ e.seq > latest
<1> DEFINE e == [seq |-> seq + 1, name |-> name, call |-> c, written |-> n]
<1>1. running' = h \/ (running' = {e} /\ h = {})
  BY DEF Publish, CallBack, LockIsFree
<1>2. e.seq > latest
  BY DEF EventInv, QueueInv
<1> HIDE DEF e
<1> QED BY <1>1, <1>2

LEMMA OrderStep ==
  ASSUME EventInv, [Next]_vars
  PROVE  \A e \in running' \ running : running' = {e} /\ e.seq > latest
<1> DEFINE InOrder == \A e \in running' \ running : running' = {e} /\ e.seq > latest
<1> SUFFICES InOrder
  OBVIOUS
<1>0. QueueOK(line, running)
  BY DEF EventInv, QueueInv
<1>1. CASE Acquire
  BY <1>1, Acquiring DEF EventInv
<1>2. ASSUME NEW j \in Jobs, CallSucceeds(j) \/ CallFails(j) PROVE InOrder
  <2>1. Publish("call_finished", Current(j), 0, line, running)
    BY <1>2 DEF CallSucceeds, CallFails
  <2> QED BY <1>0, <2>1, PublishingInOrder
<1>3. ASSUME NEW c \in Calls, Follow(c) PROVE InOrder
  <2>1. Publish("call_output", c, text[c], line, running)
    BY <1>3 DEF Follow
  <2> QED BY <1>0, <2>1, PublishingInOrder
<1>4. CASE Close
  <2>1. PICK name \in LastEvents : Publish(name, None, 0, line, running)
    BY <1>4 DEF Close
  <2> QED BY <1>0, <2>1, PublishingInOrder
<1>5. CASE InterruptCompleted
  <2> DEFINE w == WithoutLine("run_completed", None)
             h == WithoutRunning("run_completed", None)
  <2>1. PICK name \in {"run_failed", "run_cancelled"} : Publish(name, None, 0, w, h)
    BY <1>5 DEF InterruptCompleted
  <2>2. QueueOK(w, h) /\ h \subseteq running
    BY Withdrawal DEF EventInv, WithoutRunning
  <2> HIDE DEF w, h
  <2> QED BY <2>1, <2>2, PublishingInOrder
<1>6. CASE running' \subseteq running
  BY <1>6
<1>7. ASSUME NEW j \in Jobs,
             StartCall(j) \/ CallFinished(j) \/ JobEnds(j) \/ JobCancelled(j) \/ Write(j)
      PROVE  running' \subseteq running
  BY <1>7 DEF StartCall, CallFinished, JobEnds, JobCancelled, Write, Withdraw, WithoutRunning, queueVars
<1>8. ASSUME NEW c \in Calls, WatcherStep(c) PROVE running' \subseteq running
  BY <1>8 DEF WatcherStep, OutputShown, WatcherCancelled, Withdraw, WithoutRunning
<1>9. ASSUME Interrupt \/ InterruptFailed \/ InterruptCancelled \/ RunEnds \/ Rest \/ UNCHANGED vars
      PROVE  running' \subseteq running
  BY <1>9 DEF Interrupt, InterruptFailed, InterruptCancelled, RunEnds, Rest, Withdraw, WithoutRunning, queueVars, vars
<1> HIDE DEF InOrder
<1>10. ASSUME NEW j \in Jobs, JobStep(j) \/ Write(j) PROVE InOrder
  BY <1>2, <1>6, <1>7, <1>10 DEF JobStep
<1>11. ASSUME NEW c \in Calls, WatcherStep(c) \/ Follow(c) PROVE InOrder
  BY <1>3, <1>6, <1>8, <1>11
<1> QED BY <1>1, <1>4, <1>5, <1>6, <1>9, <1>10, <1>11 DEF Next

\* Callbacks receive events one at a time and in order, whoever is cancelled in the line:
\* who takes the lock in event() has a number above all that were called before.
THEOREM CallbacksAreOrdered == Spec => OneAtATimeInOrder
<1>1. EventInv /\ [Next]_vars => [\A e \in running' \ running : running' = {e} /\ e.seq > latest]_vars
  BY OrderStep
<1> QED BY <1>1, EventsInvariant, PTL DEF Spec, OneAtATimeInOrder
=============================================================================
