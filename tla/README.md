# Horizon Relay in TLA+

Horizon Relay answers a request with the smallest model that can be trusted. Local models answer first
and are scored; if none is trusted, a cloud model either answers directly or plans the work as a graph
of subtasks, which run concurrently on the smallest suitable models under a strict budget of cloud
calls, and the cloud writes the final answer from their checked results.

This directory holds TLA+ modules translated from `relay/src/horizon_relay/`, `integrations/openwebui/`
and the parts of `open-webui/` and `deployment/` that these call or are started by, TLC configurations that check them on small instances, and TLAPS proofs that
hold for every value of the constants.

* [Inventory](#inventory): the system's parts and what can go wrong in them
* [Modules](#modules): what each module models and how it corresponds to the code
* [Runs](#runs): what TLC checks, the bounds, the fairness
* [Proofs](#proofs): what TLAPS proves and along which argument
* [Where the code and its comments disagree](#where-the-code-and-its-comments-disagree)
* [Remarks](#remarks): behaviour that a reader of the code, or of a comment, may not expect
* [Not modelled](#not-modelled) and [Plan](#plan)

## Inventory

| Part | State it keeps | Operations | Interacts with | Hard part | Correct when |
|---|---|---|---|---|---|
| Run engine (`engine.py`) | the await of the main coroutine; per job its attempt, tier, outcome; `results`, `pending`, `local_slots`, `verdicts`, `route`; deadline | `run`, `execute`, `try_extract`, `judge_locally`, `make_plan`, `run_tasks`, `worker`, `call_with_record` | provider calls, policy, budget, event callback | concurrent jobs; gather, cancellation, deadline and failures in any order | no job outlives `run_tasks`; dependencies first; nothing stuck; an interrupted run gives no answer; every run ends |
| Cloud budget (`budget.py`, `settings.py`) | `calls`, `worker_calls` | `spend` | shared by the main coroutine and all jobs | several jobs spend at once; off by one at the reserve | limits kept; the synthesis call is held back |
| Plan (`plan.py`) | rows of the planner's reply, resolved ids | `parse` | output goes to `run_tasks` | cycles, unknown references; the loop must end | accepted = executable |
| Routing policy (`policy.py`) | none (parameters) | `skips`, `decide`, `plans`, `check_plan`, `worker_tiers` | engine, tuning | rules against score, boundaries | forced escalations escalate |
| Result checks (`results.py`) | none | `validate_result`, `split_judgment` | worker | text comparison | |
| Providers (`providers/`) | none; a stream while it is read | `complete`, `_read_stream` | engine, HTTP endpoint | a marker split over chunks, early end of a stream | every character delivered once, on the right side of the marker |
| Events (`events.py`, `engine.event`, `follow`) | `seq`, `event_lock` and its queue, per streamed call what was written and shown | `event`, `follow`, `deliver`, the end of `call_with_record` | graph, pipe | numbered before queueing; publishers cancelled in the queue; watchers that nobody awaits; a callback cut off after one second | callbacks one at a time and in order; no finished call shown as writing; the last events last; the lock never stays taken |
| Decision graph (`graph.py`) | nodes, attempts, edges | one handler per event, `to_dict` | folded from events, drawn by the pipe | interleaved jobs, missing events, a run that stops anywhere | every step shown once, at rest when the run is |
| Open WebUI pipe (`horizon_relay_pipe.py`) | queue, think/fence/heading state; Tests folder | `stream_relay`, `tests`, `clear_tests_folder`, `save_chat` | engine (`on_delta`), Open WebUI's chat and folder tables | chunks of parallel subtasks interleave; the reader leaves; two test runs at once, a stale list of chats to delete, a stop in between | markup balanced, the message is the answer; the folder is emptied, no chat left in a folder that is gone, nobody deletes the chat it runs in |
| Pipe installer (`sync_pipe.py`, `Dockerfile.relay`) | the function row in the database | load, look up, insert, update; then the server starts | Open WebUI's function table and loader; administrators change the same row | a stop between insert and activate; a database error that looks like a missing row; a pipe that does not load | the image's pipe is live after a sync, settings survive, the server always starts |
| Evaluation, tuning (`evaluation.py`, `tuning.py`) | recorded signals and results | `delegation`, `simulate` | policy | intervals of calls; a second copy of the decision rules | agrees with the policy |
| Facade, command line, demo (`relay.py`, `conversation.py`, `cli.py`, `demo.py`) | none | translate messages, print | engine | | |
| Open WebUI (`open-webui/`) | function, folder and chat tables | what pipe and installer call; users and administrators on the same rows | pipe, installer | methods commit on their own, deleting a folder once per subfolder; errors are answered with None or False | |
| Deployment scripts (`deployment/`) | | start of the container, restarts | installer | | |

`PROJECT.json` lists every component with its status, and under `hazards` each hard behaviour at its
line of code with the properties that cover it, or why none does yet.

## Modules

```
RelayLimits ── PlanGraph ─┬─ PlanParse ── MCPlanParse, PlanParseProofs
                          └─ RelayWorkers ── RelayEngine ─┬─ RelayProperties ── MCRelay
                                                          │   │  (INSTANCE PlanExecution)
                                                          │   └─ RelayTaskProofs ── RelayRunProofs ─┐
                                             RunGraph ────┴─ RelayGraph ─┬─ RelayGraphProofs ───────┘
                                                                         └─ MCGraph (with MCRelay)
RoutingScore ── RoutingTuning ── MCRoutingTuning, RoutingTuningProofs
StreamReader ── PipeStream ── StreamedRun ── MCStreamedRun, StreamedRunProofs
RelayEvents ── MCEvents, RelayEventsProofs
PipeInstaller ─┬─ RelayServer ── MCServer, RelayServerProofs
TestsFolder ───┘
```

* **RelayLimits** – the parameters of a run (available tiers, `settings.Limits`, the `RoutingPolicy`
  fields that shape control flow) and the pure rules computed from them: `BudgetAllows`/`Reserve` is
  `CloudBudget.spend`, `WorkerTiers` is `RoutingPolicy.worker_tiers`, `Skips` is `RoutingPolicy.skips`.
* **PlanGraph** – a plan reduced to ids, dependencies and tiers. `Accepts(p)` states declaratively
  what `Plan.parse` guarantees; `Wasteful` is `check_plan`.
* **PlanParse** – `Plan.parse` itself: one step for the checks before the loop, in the order of the
  code, and one step per iteration of the loop that resolves the graph. Field names, types and lengths
  are one flag per row.
* **RelayWorkers** – one job per subtask: `worker` with the `call_with_record` it awaits, the shared
  budget and the semaphore `local_slots`.
* **RelayEngine** – one call of `RelayEngine.run`: the main coroutine, the jobs, the deadline, the
  caller's cancellation, the terminal event.
* **PlanExecution** – the abstract specification: results are accepted one at a time, dependencies
  first, never twice; an answer only when all are there; a run may stop at any time.
* **RelayProperties** – the properties of a run, and the mapping under which it implements
  PlanExecution.

* **RunGraph** – the decision graph of `graph.py`: one operator per event handler, on a record of nodes
  (kind, lane, status, round, attempts), edges and accepted results. A node id is a tuple: the name alone,
  or with the tier and attempt that the code appends to it. Titles, texts and token counts are left out.
* **RelayGraph** – a run of RelayEngine with the graph that its events draw: every step of the run is
  taken together with the events of the await it leaves.
* **RoutingScore** – `RoutingPolicy.decide`: the signals, the weighted mean of those that are available,
  the rules, the thresholds and the clamps. A fraction is an integer in units of `1 / (10000 * Grain)`, so
  that `Rounded` is Python's `round(.., 4)` with its ties; the policy compares the rounded score of exact
  values (`CombinedScore`) and hands rounded signals to its rules and to the record (`Signals`). Means are
  taken to the unit, and the last bits of a float are left out.
* **RoutingTuning** – the `tune` command for one test case: `profile_case` under its probe policy,
  `simulate` on the recorded profile, and the engine's loop on the same replies. `ProfileStops` is a call
  that exceeds `call_timeout`, or the deadline of the probe's run: `judge_locally` catches only `RelayError`,
  the run ends, and `profile_case` takes its `RelayError` for the expected one. A call that fails with a
  `RelayError` is a sample that asks for a larger model, as in the code.
* **StreamReader** – `_read_stream` and `_split_thinking`: a reply arrives in chunks, the
  end-of-reasoning marker may be split between them. Three symbols stand for the parts of the marker
  (`</ifm|think`, the letters of its suffix, `>`), two for the tags `<think>` and `</think>`, others for
  blanks and text. `SplitAnswer` first drops a `<think>...</think>` that the reply begins with, as
  `_split_thinking` does; `_read_stream` knows no tags.
* **PipeStream** – `stream_relay` of the pipe: the relay task that fills a queue and the generator that
  turns chunks into headings, fences, the think block and the answer.
* **StreamedRun** – the two together: parallel steps put chunks into the queue, the answering call is read
  by StreamReader and its deltas go the same way. The message can so be compared with what the call
  returned.
* **RelayEvents** – how events leave a run. `seq`, `line` and `running` are the counter, the queue of
  `event_lock` and the callback under way; a job publishes `call_finished`, its watcher `call_output`, main
  the last event. An action is the code between two awaits: `Publish` takes the number and either gets the
  lock or joins the line, `Acquire` is the wake-up of the first in line, `Withdraw` is what a
  `CancelledError` does to a publisher (it leaves the line or releases the lock). `halted` are the watchers
  that were cancelled and have not run since. RelayEngine keeps what jobs do between their calls, RelayEvents
  what happens to the events of one await; each leaves the other's detail out.
* **PipeInstaller** – a start of the container: `main` of `sync_pipe.py`, one action per call of the
  function table (`Load`, `Look`, `Insert`, `Update`), then the server, whatever became of the sync
  (`AfterFailure`, the `||` of the start command). `table` is the set of rows with the pipe's id.
  `ContainerStops` and `DatabaseRefuses` come between any two calls, and the administrators' operations of
  `routers/functions.py` while the server runs.
* **TestsFolder** – `tests` of the pipe for several runs of one user, one action per call of the folder and
  chat tables: find or create the folder, walk its tree, list, clear one chat after the other, remove the
  subfolders, save results. `delete_folder_by_id_and_user_id` commits once per subfolder, from the leaves up;
  `WithoutTree` is one step, and a stop inside it leaves a smaller tree, which the next run meets as it meets
  any. What each run has read and not yet used (`todo`, `kids`, `area`, `target`) is its
  own and goes stale. The user moves, pins and deletes in between. `present`, `lister` and `touched` only
  serve the properties.
* **RelayServer** – both over the container's starts and stops: a test run begins while the pipe is
  offered, and a stop ends every run wherever it is; the database stays.

### How the model follows asyncio

Coroutines run one at a time from one `await` to the next, so an action is the code between two awaits
and `main` and `pc[t]` name the await where a coroutine is suspended. The rest of what the model takes
from asyncio (code outside the repository, modelled from how the engine uses it):

* `gather(*jobs)` settles in the done-callback of the first job that failed or was cancelled, or of the
  last one with a value. A done-callback is a step of its own (`JobCallback`), later than the job's last
  step: that gap is where a cancellation gets lost.
* `Task.cancel` on the main coroutine (`CancelMain`) while it awaits an unsettled gather with running
  children cancels the children instead; everywhere else it leaves a `CancelledError` that the
  coroutine meets when it next runs (`hit`).
* `run_tasks`' `finally` cancels the jobs that are not done and awaits all of them (`GatherReturns`,
  `CleanupReturns`). A cancellation that arrives during that await replaces the exception in flight.
* `asyncio.timeout(run_timeout)` turns the `CancelledError` of its own timer into `TimeoutError`, but
  not when the caller has cancelled too (`Raise`).
* `run_cancelled` is sent under `asyncio.shield`; `run_failed` is not (`SendCancelled`,
  `ReportInterrupted`). A second cancellation during the shielded delivery ends `run` while the delivery goes
  on; RelayEngine has both in one step, RelayEvents has the delivery by itself (`InterruptCancelled`).
* The semaphore's queue is a set of waiters: any waiter may be next. The code's queue is first in,
  first out, one of these orders.

Events reach the graph in order. `emit` adds the event to the graph before it awaits anything, so the one
second that an event may take never costs the graph an event; but a coroutine that is cancelled while its
events queue for the lock delivers only some of them. In RelayGraph a cancelled coroutine delivers any
prefix of what it had to deliver.

Data is abstracted to what the properties tell apart. A reply is valid, invalid, a `RelayError`, a
timeout or another exception. A request is four flags: `/local-extract`, task complexity above
`skip_small_above`, `policy.plans`, and a bulk of parts. `policy.decide` must escalate when the policy's
rules or `escalate_big_goals` (on by default) force it, and may do either otherwise. `run` checks its
arguments before it creates a run; `Init` is the state after those checks.

## Runs

| Run | Instance | Shows |
|---|---|---|
| `plan_parse` | every graph over three tasks, every pair of odd rows (unknown tier, malformed, missing or undeclared references), too few and too many rows | `AcceptedPlansAreExecutable`: the loop is an exact cycle test; `InputsResolvable`: an accepted task's inputs exist when it starts; `ParseEnds` |
| `two_tasks` | every graph over two tasks, valid or not, for local models or one task for the cloud, and big goals whose plans are all refused as wasteful; every request without a plan; three tiers, two local attempts, skipping, critic, one slot, three cloud calls of which one for workers, the deadline and two cancellations | `BudgetKept`, `SynthesisReserved`, `NeverStuck`, `AcceptedOnce`, `InterruptedRunsDoNotAnswer`, `LastEventTellsOutcome`; `Terminates` under fairness |
| `three_tasks` | chain, fork, join, parallel and cyclic plans of three tasks, two slots, one cloud worker call | `SlotsAccounted`, `DependenciesFirst`, `NoOrphanJobs`, `AnswerNeedsEveryTask`, `NoCallDuringCleanup`, `ImplementsPlanExecution` |
| `graph` | every request that needs no plan, and a hard one with plans of one and two tasks; three tiers, skipping, two samples, critic, a cancellation and the deadline; the graph drawn along | `TypeOK`; `LocalModelsFirst`: the cloud only after every local model was skipped or distrusted and one was asked; `GraphShowsRoute`, `GraphAtRest`, `GraphShowsTasks`, `ResultsFlowForward`: what the graph shows is what happened, once, and at rest at the end |
| `tuning` | six kinds of answer, one of them with a score that is rounded up to the threshold; two samples that agree or not, three verdicts of the critic, two local models; an easy, a hard and a big request; two deployed policies, their own parameters and two candidates; the probe is cut off anywhere | `EveryModelIsProfiled`: the probe reaches every model, or those below the one where it is cut off; `ReplayFollowsPolicy`: `simulate` and the engine's loop agree wherever they see the same token statistic and no score is a close call, after a cut where the engine trusts a profiled model |
| `streamed_run` | two parallel steps and the answering call, four symbols in all (blanks, the parts of the short marker, the tags of a think block), cut into chunks of up to three in every way, with and without separate reasoning; the run fails or the reader leaves anywhere | `MessageWellFormed`: markup balanced, every chunk under its heading; `AnswerIsTheMessage`: what stands outside the think block is what the answering call returned, once; `NothingLost`; `StreamedIsReturned`: what was streamed on each side of the marker is what the call returns (both but for a marker inside a think block that the reply begins with); `StreamEnds` under fairness |
| `events` | two jobs, three streamed calls with a chunk each, their watchers, two interruptions | `OneAtATimeInOrder`; `NothingComesLate`: no event after the one that closes its call or its run; `OnlyOutputsAreLost`; `ComesToRest` under fairness: the lock is never left taken, nor the queue asleep |
| `server` | a new volume or one with any row of a pipe that loads; an image that loads and one that does not; an administrator's edit; one incident (stop, database error, intervention) and one disturbance (the user, a failing or stopped run); two test runs with a result each, a chat that was there before, no Tests folder or one with a subfolder | `SyncMakesTheImageLive`, `ValvesSurvive`, `OnlyLoadableIsStored`; `EmptiesTheFolder`, `NoChatIsLost` (no chat in a folder that is gone, no run deletes its own), `LastListingKeepsItsResults`; `ServerStarts` under fairness |
| `call_timeout`, `cancellation`, `graph_names`, `token_statistic` | two tasks, two or three tiers; the instance of `tuning` | counterexamples, see below |

**Bounds.** Two slots and three tasks are enough for a job to wait while two others hold permits, and
three tasks for every shape of dependency (chain, fork, join). One cloud worker call makes two
escalating jobs compete. `CloudCalls` 3 or 4 with `PlanAttempts` 2 puts the planner, the workers and the
synthesis against the limit. `MaxCancels` 2 lets a cancellation arrive while another one is being
handled; a third finds nothing new because a pending `CancelledError` is only a flag. The graph's handlers
look at one event and the node it belongs to, so two tasks, one on the way to a larger model while the
other is anywhere, meet every case. Four chunks make two parallel steps alternate and then answer: the
markup depends on the previous chunk only. A marker of two parts leaves two more symbols before or after
it, which is where the length arithmetic could go wrong; in a reply of four symbols it stands before, behind or
between the tags of a think block. The long marker, of three parts, is left to the proofs. The answers in
`tuning` lie on both sides of every rule and threshold, and one on a close call: without that exception
`ReplayFollowsPolicy` is violated, and likewise without the one for a probe that was cut off. `Grain` 10 gives
five digits, one more than rounding keeps. In `events` three calls let one job begin its second call while the first call's watcher
is still being cancelled and the other job queues: one callback running and two events in line is as far as
the lock's rules look. Two interruptions put one before and one during the last event. In `server` one stop
anywhere suffices to leave every half-done state, because the next start reads the table anew; two test
runs are one that has listed and one that meanwhile saves, clears or removes. One disturbance at a time
keeps the properties' exceptions apart: `touched` is what the user or a failed call changed.

**Fairness.** In `two_tasks`: weak fairness of the main coroutine, of each job and of each done-callback.
The event loop runs every coroutine that is ready; a provider call ends within `call_timeout` and an event
within one second, so no await lasts forever; the semaphore's queue is first in, first out, and a waiter
is only ever passed by finitely many attempts. Nothing obliges the deadline to expire or the caller to
cancel, so termination does not lean on them. `Plan.parse` is a plain function (weak fairness of its
steps). In `streamed_run`: the run ends (that is `Terminates`) and the generator takes what is in its
queue; nothing obliges the reader to leave. In `events`: the event loop runs whoever is ready, a call ends
within `call_timeout` and a callback within one second; nothing obliges a model to write, a watcher to find
something to show, or anyone to interrupt. In `server`: the container is restarted (`restart:
unless-stopped` in `compose.relay.yaml`), the sync and the runs go on by themselves; stops, errors and users
are not fair. Deadlock is not checked in `server` alone: with its bounds used up a server at rest is the
normal end.

Every property has a mutant in `PROJECT.json`: a plausible bug in a definition that TLC then catches
with that property.

## Proofs

TLAPS proves the following for every number of tasks, every finite set of ids, every budget, number of
slots, attempts and cancellations that the assumptions admit; for every number of jobs and streamed calls;
for every length of reply, with and without think blocks, and every way of cutting it into chunks; for every number of folders, chats and
test runs; for every policy, candidate and reply.

| Theorem | States | Module |
|---|---|---|
| `ParseIsExact` | `AcceptedPlansAreExecutable` | PlanParseProofs |
| `InputsAreResolvable` | `InputsResolvable` | PlanParseProofs |
| `TypesAreKept` | `TypeOK` | RelayRunProofs |
| `JobsHaveTheirInputs` | `DependenciesFirst` | RelayTaskProofs |
| `RunsAreNeverStuck` | `NeverStuck` | RelayTaskProofs |
| `RunTasksAwaitsItsJobs` | `NoOrphanJobs` | RelayTaskProofs |
| `TasksAreAcceptedOnce` | `AcceptedOnce` | RelayTaskProofs |
| `SynthesisSeesEveryResult` | `AnswerNeedsEveryTask` | RelayTaskProofs |
| `CleanupStartsNoCall` | `NoCallDuringCleanup` | RelayTaskProofs |
| `BudgetIsKept`, `SynthesisIsReserved` | `BudgetKept`, `SynthesisReserved` | RelayRunProofs |
| `SlotsAreAccounted` | `SlotsAccounted` | RelayRunProofs |
| `LocalModelsComeFirst` | `LocalModelsFirst` | RelayRunProofs |
| `InterruptionsAreNeverLost` | `InterruptedRunsDoNotAnswer` | RelayRunProofs |
| `LastEventIsTrue` | `LastEventTellsOutcome` | RelayRunProofs |
| `RunsImplementPlanExecution` | `ImplementsPlanExecution` | RelayTaskProofs |
| `GraphComesToRest` | `GraphAtRest` | RelayGraphProofs |
| `GraphShowsEveryTask` | `GraphShowsTasks` | RelayGraphProofs |
| `GraphShowsTheRoute` | `GraphShowsRoute` | RelayGraphProofs |
| `ResultsFlowForwardAlways` | `ResultsFlowForward` | RelayGraphProofs |
| `NoEventComesLate` | `NothingComesLate` | RelayEventsProofs |
| `NoOtherEventIsLost` | `OnlyOutputsAreLost` | RelayEventsProofs |
| `CallbacksAreOrdered` | `OneAtATimeInOrder` | RelayEventsProofs |
| `MessageStaysWellFormed` | `MessageWellFormed` | StreamedRunProofs |
| `StreamAgreesWithReply` | `StreamedIsReturned` | StreamedRunProofs |
| `QueueKeepsEverything` | `NothingLost` | StreamedRunProofs |
| `MessageIsTheAnswer` | `AnswerIsTheMessage` | StreamedRunProofs |
| `ProbeReachesEveryModel` | `EveryModelIsProfiled` | RoutingTuningProofs |
| `ReplayRoutesAsTheEngine` | `ReplayFollowsPolicy` | RoutingTuningProofs |
| `OnlyLoadedSourcesAreStored` | `OnlyLoadableIsStored` | RelayServerProofs |
| `ImageGoesLive` | `SyncMakesTheImageLive` | RelayServerProofs |
| `SettingsAreKept` | `ValvesSurvive` | RelayServerProofs |
| `NoChatGetsLost` | `NoChatIsLost` | RelayServerProofs |
| `LastListerKeepsItsChats` | `LastListingKeepsItsResults` | RelayServerProofs |
| `TheFolderIsEmptied` | `EmptiesTheFolder` | RelayServerProofs |

**Assumptions**: `LimitsAssumption` and `PolicyAssumption` (what `Limits.__post_init__` and
`RoutingPolicy.__post_init__` enforce), `TasksAssumption` (finitely many ids), `InputsAssumption` and
`RepliesAssumption` (requests, plans and replies have their shape); for the installer
`InstallerAssumption` (images and loadable sources are sources, a new row's settings are settings); for
the Tests folder `FolderAssumption` (a run is identified by the chat it is sent from; the trees a run may
find are trees of folders, with no folder inside a deleted one; ids differ from the markers of a state);
`EventsAssumption` (finitely many jobs); `StreamAssumption`, `StepsAssumption` and `SizeAssumption` (the
final call is not one of the parallel steps, and no step is named like the absent heading);
`GrainAssumption` (fractions have at least the digits that rounding keeps) and `TuningAssumption` (fractions
are between 0 and 1, as `_clamp` and `__post_init__` see to, token statistics have four digits, as `tokens.py`
rounds them, weights are not negative, the local models are one or both of `local` and `mid` in this order,
and no candidate of `search` sets `big_goal_parts`). TLC evaluates each of them in the run of its
component. The four theorems on the graph have one hypothesis more, `OrdinaryNames`: no task is called
`triage`, `plan` or `answer`. `Plan.parse` does not see to that, and without it the theorems are false:
`graph_names` is the counterexample (see [below](#where-the-code-and-its-comments-disagree)).

**The argument.**

* *Types* (`TypeInv`): not inductive alone. `LoopFacts` keeps the loop counters in range where they
  index a tier, `ReplyFacts` says a finished call has a reply and a failed job an exception.
* *Tasks* (`TaskInv`): `BeforePlan` (no job, no result before there is a plan), `PlanProgress` (the plan
  passed `Accepts`; what is no longer pending has a result), `JobFacts` (a job's dependencies are
  accepted; an accepted job has a valid reply), `BatchFacts` (only tasks of the batch are active; a job
  whose callback ran is over; a gather that settled with values has seen every job done, so every task
  of the batch has a result; in the cleanup every active job is doomed). `NeverStuck` then follows from
  acyclicity: the pending tasks are a nonempty set of ids, so one of them depends on no other pending
  task, and everything not pending has a result (`SomeTaskIsReady`).
* *Budget* (`BudgetInv`): the calls are counted by who made them, and one is left until the synthesis
  is paid for; a planner or worker call needs two left (`Spending`).
* *Route* (`RouteInv`): at each stage the local models up to a rung have been skipped or distrusted, and
  the last one is never skipped, because `skips` spares the largest local model. So a verdict exists when
  the loop is over, and no cloud call is paid for before.
* *Slots* (`SlotInv`): the permits free plus the set of holders, by cardinality, are constant; each job
  step adds or removes itself from the holders exactly when it takes or returns a permit.
* *Interruption* (`StopInv`): once the deadline expired or the caller cancelled, the cancellation is
  somewhere: pending on the main coroutine, in a doomed job whose end the gather has not yet seen, in
  the settled gather future, in the exception that `finally` holds, or the run is already on its way
  out. `CleanupReturns` and `GatherReturns` pass it on, and no step drops it. (It may surface as a
  different exception: see the finding on cancellation.)
* *Last event* (`CloseInv`): no terminal event before the end, exactly `run_completed` where the answer is
  returned, and the last one names the failure or the cancellation where it is reported. A run that reports
  a failure has not been cancelled by then.
* *Graph* (`EngineInv`, `GraphInv`). `EngineInv` is what the proofs above show of the engine, with
  `StageFacts`: at which rung the run stands, and that what is not pending is done. It is needed because a
  handler trusts the engine: it takes the k-th attempt of a job to follow the one before. `GraphInv` has a
  part for each question. `Shape` says which nodes and edges there may be, whatever happened; with the rounds below it gives
  `ResultsFlowForward`. `JobsDrawn` relates the nodes of a task to the state of its job: the attempts drawn are
  those that started, each at the node of its tier, only the current one may be running, and every other
  node of the task has been left as escalated. `FrontDrawn` and `CloudDrawn` do the same for the nodes of
  the run and the await of the main coroutine: the local models before the current one are drawn as refused,
  those after it not at all. `EndDrawn` is rest after the terminal event: `_stop` reaches every node and every
  attempt, and a run that completes has nothing under way (its jobs are done, and what they drew last is
  over). None of the four properties is inductive, because a handler reads statuses, lanes and attempts that
  no property mentions. Most of the proof is the preservation of these parts by each handler: a handler
  touches one node (`Draws`), so the tasks' part is untouched by the run's events (`RunDraws`) and that of
  other tasks by a job's events (`TaskDraws`). A cancelled coroutine delivers a prefix of its events, so its steps are
  proved for every number of them.
* *Rounds*: `Depth` gives a task one round more than the latest of its dependencies. It is a recursive
  function on an acyclic set, so the proof first builds a function that satisfies the equation (`RoundsExist`:
  from any set of tasks that has one, a ready task extends it, and the set of ids is finite).
* *Refinement*: initial states map to initial states; `FinishCall` with a valid reply maps to `Accept`,
  `PlanReturns` with an accepted plan to `AdoptPlan`, `ReturnAnswer` to `Answer`, the other ends to
  `Stop`, and everything else stutters, given `TaskInv`.
* *Parse*: the resolved set is closed under dependencies and acyclic. When no task is ready, the rest
  is a set in which every task depends on another of the set. `SoundRows` keeps what the checks before the
  loop found out: the tiers, the dependencies and that every reference is known, from which the inputs follow
  once everything is resolved.
* *Events* (`EventInv`): the queue is ordered by number and has no event twice, one callback runs at most,
  and whoever waits has a number above all that were called, or is cancelled and will never be called
  (`QueueInv`); whoever has an event on its way is at the place in the code that published it
  (`PublisherInv`); a watcher that is not cancelled belongs to the call its job is busy with (`WatcherInv`).
  The decisive part is `ToldInv`: once `call_finished` reached the callback, the watcher of that call is
  cancelled or the event still holds the lock, so that no `call_output` can get in between. `LossInv` is
  `OnlyOutputsAreLost` with the fact that only an interruption dooms a job.
* *Stream* (`StreamInv`): `ReaderInv` says what was streamed on either side of the marker as a function of
  the content so far; the chunk that completes the marker cannot contain an earlier one, since the content
  before it had none. `SplitAnswer` cuts at the same marker, since the first marker is also the first
  behind the think block unless one is inside it (`SplitsAtMarker`). `MarkupInv` ties the generator's flags to the marks it has shown (inside a think block,
  inside a fence, under which heading). `QueueInv` says that the chunks shown, followed by those queued,
  are those sent, and that the outcome is queued last. `AnswerInv` and `MessageInv` carry the text of the
  answer through the same path.
* *Tuning* (`TuneInv`): the profile has the models reached so far, with a record of what each replied; the
  engine's loop has trusted nobody before its rung. The probe's thresholds are 0 and no score is negative, so
  no reply stops it. `simulate` and `decide` are then compared rule by rule (`SameDecision`). The rules see
  the same rounded signals. The scores differ: `decide` rounds the mean of exact values, `simulate` takes the
  mean of rounded ones. Rounding moves a number by at most half a ten-thousandth (`RoundedNear`), so both are
  that close to the exact score (`TotalsNear`, by induction over the signals), and on the same side of a
  threshold that is farther away (`SameScore`), which is what the absence of a `CloseCall` says. That the
  values are fractions needs a mean of samples to stay in range (`TotalBound`, `MeanBound`).
* *Induction over data.* `Select`, `FlattenSeq`, `Total` and the counts of marks are recursive functions or
  cardinalities. What they yield for a sequence one longer is proved by induction on its length. The schemes of the library have a
  predicate as a parameter, which the provers do not instantiate; here each induction is over a set, the
  lengths for which the fact holds (for `AddAll`, the lengths of sequences of events). `LeastNat` (the naturals are well founded) gives `SetInduction`: a set
  with 0 and the successor of each of its members holds all naturals.
* *Tests folder* (`FolderInv`): per run, what it holds at each step (`PhaseOK`), that the folders it walked
  still enclose everything below its own folder (`AreaOK`), and that the chats in them which only runs have
  handled are still on its list (`ChatsOK`). A run's folder is a top folder until the user deletes it
  (`TargetInv`), so no run's folder lies below another's. `LastInv`: no list still to be cleared contains
  what the last lister saved, because it was saved after every other list was read. A folder's subtree is
  the least set of folders closed under children, and the lemmas on it follow from being the least.
* *Installer* (`InstallerInv`): test runs and users leave the function table alone (`ServerSteps`), so
  only the installer's steps count. Past the loader the image is known to load (`LoadedInv`); `main` inserts
  only where there is no row unless the database refused, and what it updates is there (`TableInv`).
  `StoredRows` and `SwitchedRows` say what an update changes in a row and what it leaves. The two action
  properties then follow step by step.

**Only model-checked**: the liveness properties `Terminates`, `ParseEnds`, `StreamEnds`, `ComesToRest`
and `ServerStarts`, which are out of the prover's reach. Every invariant and action property that a passing
run checks is also a theorem. What the recursive definitions of the data compute for every input
(`Depth` apart, for accepted plans) stays with TLC where no proof above needs it.

## Where the code and its comments disagree

* **A call timeout is not a failed attempt** (`call_timeout`). `engine.py:272` says a call that fails by
  "token limit, timeout, unreadable reply" counts as a failed attempt. The `TimeoutError` of
  `asyncio.timeout(call_timeout)` is not a `RelayError`, so it leaves `worker`, cancels the siblings and
  ends the run. The comment at `engine.py:180` says the same of a local model that answers the request
  itself ("timeout, token limit, bad reply ... simply not trusted"); there too the run ends. (The HTTP client has the same limit per read, but its clock starts later, so the timeout
  that would become a `RelayError` does not come first.)
* **A cancellation can be swallowed** (`cancellation`). If a job has failed but the gather has not run
  its callback, `Task.cancel` reaches only the other children; the gather then settles with the failure
  and `run` raises `RelayError` although its caller cancelled it. `IMPLEMENTATION_STATUS.md:169` says
  cancellation propagates.
* **A subtask can take the node of another step** (`graph_names`). Graph nodes share one dictionary, and
  the planner may call a task `plan`, `answer` or `triage`. The answer is then drawn on the subtask's node,
  with an edge to itself.
* **A replay uses another token statistic than its policy** (`token_statistic`). `tuning.py:81` promises
  the signals "under this policy's token statistic". For `hesitation` it reads what the deployed policy
  recorded, by default the mean; for `mean` it takes the first sample alone where the policy averages over
  all. Nor does `search`, or the line for the current policy, pass on `escalate_big_goals`: a big goal goes
  to the cloud in a run and may stay local in the replay. `ReplayFollowsPolicy` leaves these two cases out.

[Remarks](#remarks) has more places where a comment says more than the code does.

## Remarks

What the models allow, and a reader of the code may not expect. Some of it is at odds with a comment, which is
then quoted; no run of its own shows it:

* *Events.* `run_completed` is delivered inside the `run_timeout` block. A deadline or cancellation during
  its delivery is followed by `run_failed` or `run_cancelled`, so that a run may have two last events where
  `events.py:13` speaks of "the final event". The numbers have gaps where a queued `call_output` was
  cancelled (`events.py:10`: "1, 2, 3, ..."). A call that fails publishes `call_finished` before its watcher
  is cancelled; no `call_output` follows, because `finally` runs in the step that releases the lock.
* *Replies.* A marker inside a `<think>` block that the reply begins with ends the reasoning for the stream and
  is dropped with the block from the result: of `<think>a</ifm|think>b</think>c` the message shows
  `b</think>c`, while the call returns `c` (`openai_compatible.py:185` and `:203-205`).
* *Tuning.* `policy.py:336` rounds the score of exact signals before `:392` compares it, `tuning.py:113`
  compares the score of rounded signals as it is. Within half a ten-thousandth of the threshold they may differ:
  a score of 0.29996 escalates at a threshold of 0.3 and may be trusted in the replay. `tuning.py:3` says that
  "every local model answers every test"; a probe whose call exceeds `call_timeout`, or whose run exceeds its
  deadline, ends with the models it has asked so far, and `tuning.py:39-40` ("expected") does not tell it from
  the refusal at the end. If the model that is missing is the larger one, the replay never skips the small one.
* *Installer.* `sync_pipe.py` does not look at what `update_function_by_id` answers and reports success when
  it failed. An image, or an administrator's edit, that does not load switches off the function that worked
  before.
* *Tests folder.* Two first runs at once, or a database error in the lookup, create two Tests folders. A chat
  that the user moves out of the folder after the listing is still deleted. A run deletes the chat that
  another run is sent from, and another run's results, if it lists them. Pinned chats are not listed: a
  pinned chat that runs tests in a subfolder is not moved and keeps the id of the deleted subfolder, although
  `horizon_relay_pipe.py:90-91` says that the chat running the tests is "moved to the top of the folder if it
  was in a subfolder". The same
  happens to a chat that the user moves into a subfolder after the listing, and to a result saved after the
  user has deleted the Tests folder. `NoChatIsLost` and `EmptiesTheFolder` leave out pinned chats and
  what the user touched.

## Not modelled

Prompts, HTTP and token statistics (data); `results.py`'s text comparison (a reply is valid or not); how
signals are read from text (agreement, complexity, parts); in RelayEngine the score of `policy.decide`
(either outcome is possible when no rule applies; RoutingScore has it); `evaluate` and `search` (sums and
ranking); facade, command line, demo and the graph page (stateless translation and display).

`open-webui/` is the upstream application at a fixed version, some 114,000 of the repository's 117,000
lines of implementation, and not this project's own logic. Modelled of it is what Horizon Relay's code calls
and what changes the same rows: the methods of the function, folder and chat tables, the plugin loader, the
routes of users and administrators. The rest (retrieval, chat middleware, authentication, its own model
backends) never meets the relay but through these. Of `deployment/`, the start command and the restart
policy are modelled; the model servers' scripts are operations.

## Plan

Modelled, checked and proved as far as set out above. What would come next:

1. `evaluation.delegation`, the measure of parallel work, against its definition over intervals;
2. one task per name in the graph (`OrdinaryNames`): the hypothesis goes as soon as `graph.py` keeps tasks
   apart from its own nodes, or `Plan.parse` refuses the three names.
