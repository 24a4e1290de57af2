---------------------------- MODULE RelayEvents -----------------------------
(***************************************************************************)
(* How a run publishes its events (_Run.event, _Run.follow and the end of  *)
(* _Run.call_with_record): every coroutine numbers its event, waits for    *)
(* event_lock and then for the callback.  Beside every streamed call runs  *)
(* a watcher that publishes what the model has written so far; it is       *)
(* cancelled when the call ends, but nobody waits for it to be gone.       *)
(*                                                                         *)
(* The jobs are the coroutines that make calls, here one call after the    *)
(* other; main waits for them and publishes the last event.  Events        *)
(* between two calls are left out: they queue like a call_finished.        *)
(***************************************************************************)
EXTENDS Integers, Sequences, FiniteSets

CONSTANTS
  Jobs,           \* coroutines that make model calls
  MaxCalls,       \* bound on the calls of the run
  MaxText,        \* bound on the chunks of a call
  MaxInterrupts   \* bound on deadlines and cancellations

ASSUME EventsAssumption ==
  /\ IsFiniteSet(Jobs)
  /\ MaxCalls \in Nat \ {0}
  /\ MaxText \in Nat
  /\ MaxInterrupts \in Nat

VARIABLES
  seq,        \* number of the last event
  line,       \* events waiting for event_lock, first come first served
  running,    \* events whose callback is running; the lock is held iff there is one
  latest,     \* number of the last event whose callback was called
  told,       \* the events delivered so far, as name and call
  pc,         \* per job: streaming, succeeded or failed (publishing call_finished), between, over
  call,       \* per job: the number of its call
  doomed,     \* jobs with a CancelledError pending
  text,       \* per call: length of live["text"]
  shown,      \* per call: live["shown"]
  watcher,    \* per call: none, asleep, publishing, over
  halted,     \* calls whose watcher has been cancelled
  main,       \* working, closing (publishing the last event), over
  interrupts  \* deadlines and cancellations so far

queueVars   == <<seq, line, running, latest, told>>
jobVars     == <<pc, call, doomed, text>>
watcherVars == <<shown, watcher, halted>>
mainVars    == <<main, interrupts>>
vars        == <<queueVars, jobVars, watcherVars, mainVars>>

Calls == Jobs \X (1..MaxCalls)
None  == <<"no job", 0>>

Names      == {"call_output", "call_finished", "run_completed", "run_failed", "run_cancelled"}
FinalNames == {"run_completed", "run_failed", "run_cancelled"}

\* An event carries its call and, as call_output, how much was written.
Event == [seq : Nat, name : Names, call : Calls \cup {None}, written : 0..MaxText]

Current(j) == <<j, call[j]>>

TypeOK ==
  /\ seq \in Nat
  /\ line \in Seq(Event)
  /\ running \subseteq Event
  /\ latest \in Nat
  /\ told \subseteq Names \X (Calls \cup {None})
  /\ pc \in [Jobs -> {"streaming", "succeeded", "failed", "between", "over"}]
  /\ call \in [Jobs -> 1..(MaxCalls + 1)]
  /\ doomed \subseteq Jobs
  /\ text \in [Calls -> 0..MaxText]
  /\ shown \in [Calls -> 0..MaxText]
  /\ watcher \in [Calls -> {"none", "asleep", "publishing", "over"}]
  /\ halted \subseteq Calls
  /\ main \in {"working", "closing", "over"}
  /\ interrupts \in 0..MaxInterrupts

Init ==
  /\ seq = 0
  /\ line = <<>>
  /\ running = {}
  /\ latest = 0
  /\ told = {}
  /\ pc = [j \in Jobs |-> "between"]
  /\ call = [j \in Jobs |-> 1]
  /\ doomed = {}
  /\ text = [c \in Calls |-> 0]
  /\ shown = [c \in Calls |-> 0]
  /\ watcher = [c \in Calls |-> "none"]
  /\ halted = {}
  /\ main = "working"
  /\ interrupts = 0

-----------------------------------------------------------------------------
(* The event lock *)

\* The coroutine that waits with this event will meet a CancelledError instead.
IsDoomed(e) ==
  \/ e.name = "call_output" /\ e.call \in halted
  \/ e.name = "call_finished" /\ e.call[1] \in doomed

\* Mutant of LockIsFree: callbacks run side by side.
LockIsAlwaysFree(waiting, holders) == TRUE

\* A newcomer gets the lock at once if nobody holds it and nobody who waits is still alive.
LockIsFree(waiting, holders) == holders = {} /\ \A i \in 1..Len(waiting) : IsDoomed(waiting[i])

\* emit(event), with the lock held.
CallBack(e, holders) ==
  /\ running' = holders \cup {e}
  /\ latest' = e.seq
  /\ told' = told \cup {<<e.name, e.call>>}

\* Mutant of Publish: an event that finds the lock taken is skipped.
PublishIfFree(name, c, n, waiting, holders) ==
  LET e == [seq |-> seq + 1, name |-> name, call |-> c, written |-> n]
  IN  /\ seq' = seq + 1
      /\ line' = waiting
      /\ IF LockIsFree(waiting, holders)
         THEN CallBack(e, holders)
         ELSE running' = holders /\ UNCHANGED <<latest, told>>

\* event(): the number is taken first; then the callback is called or the event waits.
\* waiting and holders are the line and the lock as the publisher finds them.
Publish(name, c, n, waiting, holders) ==
  LET e == [seq |-> seq + 1, name |-> name, call |-> c, written |-> n]
  IN  /\ seq' = seq + 1
      /\ IF LockIsFree(waiting, holders)
         THEN line' = waiting /\ CallBack(e, holders)
         ELSE line' = Append(waiting, e) /\ running' = holders /\ UNCHANGED <<latest, told>>

\* The first in line, woken by release, takes the lock and calls the callback.
Acquire ==
  /\ line # <<>>
  /\ running = {}
  /\ ~IsDoomed(Head(line))
  /\ CallBack(Head(line), {})
  /\ line' = Tail(line)
  /\ UNCHANGED <<seq, jobVars, watcherVars, mainVars>>

IsEvent(e, name, c) == e.name = name /\ e.call = c

\* The line and the running callbacks without one coroutine's event.
WithoutLine(name, c) ==
  LET mine == {i \in 1..Len(line) : IsEvent(line[i], name, c)}
      k    == CHOOSE i \in mine : TRUE
  IN  IF mine = {} THEN line ELSE [i \in 1..(Len(line) - 1) |-> line[IF i < k THEN i ELSE i + 1]]
WithoutRunning(name, c) == {e \in running : ~IsEvent(e, name, c)}

\* A CancelledError leaves the line, or cuts the callback off and releases the lock.
Withdraw(name, c) ==
  /\ line' = WithoutLine(name, c)
  /\ running' = WithoutRunning(name, c)
  /\ UNCHANGED <<seq, latest, told>>

-----------------------------------------------------------------------------
(* Jobs *)

Started == {c \in Calls : watcher[c] # "none"}

\* A model call begins, and its watcher with it.
StartCall(j) ==
  /\ pc[j] = "between"
  /\ j \notin doomed
  /\ Cardinality(Started) < MaxCalls
  /\ Current(j) \in Calls
  /\ pc' = [pc EXCEPT ![j] = "streaming"]
  /\ watcher' = [watcher EXCEPT ![Current(j)] = "asleep"]
  /\ UNCHANGED <<queueVars, call, doomed, text, shown, halted, mainVars>>

\* deliver: a chunk arrives.
Write(j) ==
  /\ pc[j] = "streaming"
  /\ j \notin doomed
  /\ text[Current(j)] < MaxText
  /\ text' = [text EXCEPT ![Current(j)] = @ + 1]
  /\ UNCHANGED <<queueVars, pc, call, doomed, watcherVars, mainVars>>

\* The reply is complete: finally cancels the watcher, then call_finished is published.
CallSucceeds(j) ==
  /\ pc[j] = "streaming"
  /\ j \notin doomed
  /\ pc' = [pc EXCEPT ![j] = "succeeded"]
  /\ halted' = halted \cup {Current(j)}
  /\ Publish("call_finished", Current(j), 0, line, running)
  /\ UNCHANGED <<call, doomed, text, shown, watcher, mainVars>>

\* The call fails: call_finished is published before finally cancels the watcher.
CallFails(j) ==
  /\ pc[j] = "streaming"
  /\ j \notin doomed
  /\ pc' = [pc EXCEPT ![j] = "failed"]
  /\ Publish("call_finished", Current(j), 0, line, running)
  /\ UNCHANGED <<call, doomed, text, watcherVars, mainVars>>

\* Mutant of HaltedAfter: finally does not cancel the watcher of a call that failed.
HaltedAfterSuccess(j) == halted

\* finally, once call_finished has been published.
HaltedAfter(j) == halted \cup {Current(j)}

\* The callback returns, raises or is cut off after one second; the lock is released
\* and the job goes on in the same step.
CallFinished(j) ==
  /\ pc[j] \in {"succeeded", "failed"}
  /\ j \notin doomed
  /\ \E e \in running : IsEvent(e, "call_finished", Current(j))
  /\ running' = WithoutRunning("call_finished", Current(j))
  /\ halted' = HaltedAfter(j)
  /\ call' = [call EXCEPT ![j] = @ + 1]
  /\ pc' = [pc EXCEPT ![j] = "between"]
  /\ UNCHANGED <<seq, line, latest, told, doomed, text, shown, watcher, mainVars>>

\* The job ends with what its calls returned.
JobEnds(j) ==
  /\ pc[j] = "between"
  /\ pc' = [pc EXCEPT ![j] = "over"]
  /\ UNCHANGED <<queueVars, call, doomed, text, watcherVars, mainVars>>

\* The CancelledError of a cancelled job: finally cancels the watcher, no event is published.
JobCancelled(j) ==
  /\ pc[j] \notin {"between", "over"}
  /\ j \in doomed
  /\ pc' = [pc EXCEPT ![j] = "over"]
  /\ halted' = halted \cup {Current(j)}
  /\ Withdraw("call_finished", Current(j))
  /\ UNCHANGED <<call, doomed, text, shown, watcher, mainVars>>

-----------------------------------------------------------------------------
(* Watchers *)

\* follow: after a sleep, what was written since the last time is published.
Follow(c) ==
  /\ watcher[c] = "asleep"
  /\ c \notin halted
  /\ text[c] # shown[c]
  /\ shown' = [shown EXCEPT ![c] = text[c]]
  /\ watcher' = [watcher EXCEPT ![c] = "publishing"]
  /\ Publish("call_output", c, text[c], line, running)
  /\ UNCHANGED <<jobVars, halted, mainVars>>

OutputShown(c) ==
  /\ watcher[c] = "publishing"
  /\ c \notin halted
  /\ \E e \in running : IsEvent(e, "call_output", c)
  /\ running' = WithoutRunning("call_output", c)
  /\ watcher' = [watcher EXCEPT ![c] = "asleep"]
  /\ UNCHANGED <<seq, line, latest, told, jobVars, shown, halted, mainVars>>

\* Mutant of WatcherCancelled: the CancelledError is swallowed inside the loop.
WatcherGoesOn(c) ==
  /\ watcher[c] \in {"asleep", "publishing"}
  /\ c \in halted
  /\ watcher' = [watcher EXCEPT ![c] = "asleep"]
  /\ Withdraw("call_output", c)
  /\ UNCHANGED <<jobVars, shown, halted, mainVars>>

WatcherCancelled(c) ==
  /\ watcher[c] \in {"asleep", "publishing"}
  /\ c \in halted
  /\ watcher' = [watcher EXCEPT ![c] = "over"]
  /\ Withdraw("call_output", c)
  /\ UNCHANGED <<jobVars, shown, halted, mainVars>>

-----------------------------------------------------------------------------
(* The run *)

\* The deadline, the caller's cancellation or a job's failure: the jobs are cancelled.
\* (A second one finds every job cancelled or over.)
Interrupt ==
  /\ main = "working"
  /\ interrupts = 0
  /\ interrupts < MaxInterrupts
  /\ interrupts' = interrupts + 1
  /\ doomed' = doomed \cup {j \in Jobs : pc[j] # "over"}
  /\ UNCHANGED <<queueVars, pc, call, text, watcherVars, main>>

LastEvents == IF interrupts = 0 THEN {"run_completed", "run_failed"} ELSE {"run_failed", "run_cancelled"}

\* run_tasks awaits every job, also those it cancelled.
JobsAreOver == \A j \in Jobs : pc[j] = "over"

Close ==
  /\ main = "working"
  /\ JobsAreOver
  /\ main' = "closing"
  /\ \E name \in LastEvents : Publish(name, None, 0, line, running)
  /\ UNCHANGED <<jobVars, watcherVars, interrupts>>

\* The last event on its way: it waits for the lock or its callback is running.
OnItsWay(name) == name \in {line[i].name : i \in 1..Len(line)} \cup {e.name : e \in running}

\* Interrupted while run_completed is on its way: another last event takes its place.
InterruptCompleted ==
  /\ main = "closing"
  /\ interrupts < MaxInterrupts
  /\ OnItsWay("run_completed")
  /\ interrupts' = interrupts + 1
  /\ \E name \in {"run_failed", "run_cancelled"} :
       Publish(name, None, 0, WithoutLine("run_completed", None), WithoutRunning("run_completed", None))
  /\ UNCHANGED <<jobVars, watcherVars, main>>

\* Interrupted while run_failed is on its way: it is dropped.
InterruptFailed ==
  /\ main = "closing"
  /\ interrupts < MaxInterrupts
  /\ OnItsWay("run_failed")
  /\ interrupts' = interrupts + 1
  /\ main' = "over"
  /\ Withdraw("run_failed", None)
  /\ UNCHANGED <<jobVars, watcherVars>>

\* Interrupted while run_cancelled is on its way: it is shielded and goes on alone.
InterruptCancelled ==
  /\ main = "closing"
  /\ interrupts < MaxInterrupts
  /\ OnItsWay("run_cancelled")
  /\ interrupts' = interrupts + 1
  /\ main' = "over"
  /\ UNCHANGED <<queueVars, jobVars, watcherVars>>

\* The callback of the last event ends, and with it the run, unless it has left before.
RunEnds ==
  /\ \E e \in running : e.name \in FinalNames
  /\ running' = {e \in running : e.name \notin FinalNames}
  /\ main' = "over"
  /\ UNCHANGED <<seq, line, latest, told, jobVars, watcherVars, interrupts>>

AllQuiet ==
  /\ main = "over"
  /\ line = <<>>
  /\ running = {}
  /\ \A c \in Calls : watcher[c] \in {"none", "over"}

Rest == main = "over" /\ UNCHANGED vars

JobStep(j) == StartCall(j) \/ CallSucceeds(j) \/ CallFails(j) \/ CallFinished(j) \/ JobEnds(j) \/ JobCancelled(j)

WatcherStep(c) == OutputShown(c) \/ WatcherCancelled(c)

Next ==
  \/ Acquire
  \/ \E j \in Jobs : JobStep(j) \/ Write(j)
  \/ \E c \in Calls : WatcherStep(c) \/ Follow(c)
  \/ Interrupt \/ Close \/ InterruptCompleted \/ InterruptFailed \/ InterruptCancelled \/ RunEnds
  \/ Rest

Spec == Init /\ [][Next]_vars

\* The event loop runs every coroutine that is ready, a call ends within call_timeout, a
\* callback within one second.  Nothing obliges a model to write or anyone to interrupt.
FairSpec ==
  /\ Spec
  /\ WF_vars(Acquire)
  /\ \A j \in Jobs : WF_vars(JobStep(j))
  /\ \A c \in Calls : WF_vars(WatcherStep(c))
  /\ WF_vars(Close)
  /\ WF_vars(RunEnds)

-----------------------------------------------------------------------------
\* "Callbacks receive events one at a time, in order" (events.py): a callback begins only
\* when no other is running, with a number above all before it, although every coroutine
\* takes its number before it queues and any of them may be cancelled in the queue.
OneAtATimeInOrder ==
  [][\A e \in running' \ running : running' = {e} /\ e.seq > latest]_vars

\* No call_output of a call follows its call_finished, so that no finished step is shown
\* as writing again: neither from a watcher that is still being cancelled nor from one
\* that wakes up while the call_finished of a failed call is being delivered.
NoOutputAfterFinish ==
  \A e \in running : e.name = "call_output" => <<"call_finished", e.call>> \notin told

\* Nothing but another last event follows a last event: all jobs have been waited for,
\* and no watcher, though nobody waits for it, publishes once the run is closing.
LastEventsComeLast ==
  \A e \in running : e.name \notin FinalNames => \A name \in FinalNames : <<name, None>> \notin told

\* No event follows the one that closes its call or its run, although the watchers of
\* streamed calls are cancelled and never awaited.
NothingComesLate == NoOutputAfterFinish /\ LastEventsComeLast

\* The watchers cost no other event: as long as nobody interrupts the run, the
\* call_finished of every call that ended is delivered or in line, whatever call_outputs
\* were cancelled around it.
OnlyOutputsAreLost ==
  interrupts = 0 =>
    \A j \in Jobs, n \in 1..MaxCalls :
      n < call[j] \/ (n = call[j] /\ pc[j] \in {"succeeded", "failed"})
        => \/ <<"call_finished", <<j, n>>>> \in told
           \/ \E i \in 1..Len(line) : IsEvent(line[i], "call_finished", <<j, n>>)

\* Every run comes to rest: the lock is free, nobody waits for it and no watcher is left,
\* wherever calls were cancelled, also a watcher that held the lock.
ComesToRest == <>[]AllQuiet
=============================================================================
