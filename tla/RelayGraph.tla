----------------------------- MODULE RelayGraph -----------------------------
(***************************************************************************)
(* A run together with the decision graph that its events draw.  Every     *)
(* step of RelayEngine is taken with the events of the await it leaves     *)
(* (for a model call: those before it, call_finished, and those up to the  *)
(* next await), folded into the graph one after the other.  A coroutine    *)
(* that is cancelled at an await may or may not have delivered the events  *)
(* it was waiting to deliver: any prefix of them is.                       *)
(*                                                                         *)
(* The emit callback adds the event to the graph before it awaits          *)
(* anything, so the one second an event may take never costs the graph an  *)
(* event.                                                                  *)
(***************************************************************************)
EXTENDS RelayEngine, RunGraph

VARIABLES
  graph,      \* the RunGraph
  critiqued   \* the critic was asked about the answer being judged

graphVars == <<vars, graph, critiqued>>

Draw(events) == graph' = AddAll(graph, events)

\* A prefix of the events is delivered.
DrawSome(events) == \E k \in 0..Len(events) : Draw(SubSeq(events, 1, k))

When(condition, events) == IF condition THEN events ELSE <<>>

Call(operation, tier, task, n) ==
  [operation |-> operation, tier |-> tier, task |-> task, attempt |-> n]

-----------------------------------------------------------------------------
(* Events of the main coroutine *)

JudgedTier == LocalTiers[rung]

\* The events before the call or step that the main coroutine is waiting for.
Announced ==
  CASE main = "extracting" -> <<<<"local_attempt">>>>
    [] main = "skipping"   -> <<<<"local_skipped", JudgedTier>>>>
    [] main = "solving"    -> When(sample = 0, <<<<"local_solve", JudgedTier>>>>)
    [] main = "critiquing" -> <<<<"local_critique", JudgedTier, sample>>>>
    [] main = "escalated"  -> <<<<"escalated", ~request.plans>>>> \o When(~request.plans, <<<<"answering">>>>)
    [] main = "planned"    -> <<<<"plan_created", plan>>>>
    [] main = "assembling" -> <<<<"synthesizing">>>>
    [] OTHER               -> <<>>

CallStates == {"extracting", "solving", "critiquing", "answering", "planning", "synthesizing"}

\* The model call the main coroutine awaits.
MainCall ==
  CASE main = "extracting"   -> Call("attempt", "local", "none", 1)
    [] main = "solving"      -> Call("solve", JudgedTier, "none", sample + 1)
    [] main = "critiquing"   -> Call("critique", JudgedTier, "none", sample + 1)
    [] main = "answering"    -> Call("answer", "cloud", "none", 1)
    [] main = "planning"     -> Call("plan", "cloud", "none", planTry)
    [] main = "synthesizing" -> Call("synthesize", "cloud", "none", 1)

Replied(failed) == Announced \o <<<<"call_finished", MainCall, failed>>>>

\* An exception of the call itself ended the run.
CallFailed == main' = "failing" /\ cause' \in {"error", "timeout", "crash"}

DrawExtract ==
  /\ ExtractReturns
  /\ Draw(Replied(CallFailed)
           \o When(main' = "completing", <<<<"local_accepted", "local">>>>)
           \o When(main' \notin {"completing", "failing"}, <<<<"extract_failed">>>>))
  /\ UNCHANGED critiqued

\* A call that fails with RelayError is a sample that needs escalation.
DrawSolve ==
  /\ SolveReturns
  /\ IF CallFailed
     THEN Draw(Replied(TRUE))
     ELSE \E failed \in BOOLEAN :
            /\ failed => distrust'
            /\ Draw(Replied(failed) \o <<<<"local_sample", JudgedTier, sample', distrust'>>>>)
  /\ critiqued' = FALSE

DrawCritique ==
  /\ CritiqueReturns
  /\ IF CallFailed
     THEN Draw(Replied(TRUE))
     ELSE \E failed \in BOOLEAN : (failed => distrust') /\ Draw(Replied(failed))
  /\ critiqued' = TRUE

\* The critic may find fault without any rule rejecting the answer.
DrawDecide ==
  LET trusted   == main' = "completing"
      critiques == IF ~critiqued THEN {"skipped"} ELSE IF distrust THEN {"failed"} ELSE {"passed", "failed"}
  IN  /\ Decide
      /\ \E critique \in critiques :
           Draw(<<<<"local_verdict", JudgedTier, sample, ~trusted, critique>>>>
                 \o When(trusted, <<<<"local_accepted", JudgedTier>>>>))
      /\ UNCHANGED critiqued

DrawPlan ==
  /\ PlanReturns
  /\ Draw(Replied(CallFailed) \o When(~CallFailed /\ main' # "planned", <<<<"plan_invalid", planTry>>>>))
  /\ UNCHANGED critiqued

DrawReply ==
  /\ AnswerReturns \/ SynthesisReturns
  /\ Draw(Replied(CallFailed))
  /\ UNCHANGED critiqued

\* Steps that leave an await for events only.
DrawAnnounced ==
  /\ Start \/ SkipTier \/ EscalateToCloud \/ StartTasks \/ GatherReturns \/ CleanupReturns \/ Synthesize
  /\ Draw(Announced)
  /\ UNCHANGED critiqued

\* Terminal events.
DrawEnd ==
  /\ SendCompleted \/ ReturnAnswer \/ SendFailed \/ RaiseError \/ SendCancelled \/ ReportInterrupted
  /\ Draw(When(closing' # closing, <<<<closing'[Len(closing')]>>>>))
  /\ UNCHANGED critiqued

\* call_output comes from the watcher of a call under way.
DrawInterrupted ==
  /\ Interrupted
  /\ DrawSome(Announced \o When(main \in CallStates, <<<<"call_output", MainCall>>>>))
  /\ UNCHANGED critiqued

-----------------------------------------------------------------------------
(* Events of the jobs *)

Escalation(t) ==
  When(attempt[t] > 1 /\ AttemptTier(t, attempt[t] - 1) # Tier(t),
       <<<<"task_escalated", t, AttemptTier(t, attempt[t] - 1), Tier(t)>>>>)

JobCall(t) == Call("work", Tier(t), t, attempt[t])

\* The events that job t delivers at the await where it is suspended.
JobEvents(t) ==
  CASE pc[t] = "waiting"   -> Escalation(t)
    [] pc[t] = "starting"  -> When(Tier(t) = "cloud", Escalation(t))
                                \o <<<<"task_started", t, Tier(t), attempt[t]>>>>
    [] pc[t] = "calling"   -> <<<<"call_output", JobCall(t)>>>>
    [] pc[t] = "replied"   -> <<<<"call_finished", JobCall(t), reply[t] \notin {"valid", "invalid"}>>>>
    [] pc[t] = "rejecting" -> <<<<"task_invalid", t, Tier(t), attempt[t]>>>>
    [] pc[t] = "accepting" -> <<<<"task_completed", t, Tier(t), attempt[t]>>>>

DrawJob(t) ==
  /\ JobStep(t)
  /\ IF t \in doomed THEN DrawSome(JobEvents(t)) ELSE Draw(JobEvents(t))
  /\ UNCHANGED critiqued

-----------------------------------------------------------------------------
GraphInit == Init /\ graph = EmptyGraph /\ critiqued = FALSE

GraphNext ==
  \/ DrawAnnounced \/ DrawExtract \/ DrawSolve \/ DrawCritique \/ DrawDecide
  \/ DrawPlan \/ DrawReply \/ DrawEnd \/ DrawInterrupted
  \/ \E t \in Tasks : DrawJob(t) \/ (JobCallback(t) /\ UNCHANGED <<graph, critiqued>>)
  \/ (CallerCancels \/ DeadlineExpires \/ Ended) /\ UNCHANGED <<graph, critiqued>>

GraphSpec == GraphInit /\ [][GraphNext]_graphVars

-----------------------------------------------------------------------------
\* Once a terminal event has been drawn the graph is at rest: no node is queued or
\* running and no attempt is running, wherever the run and its jobs were stopped.
GraphAtRest ==
  closing # <<>> =>
    \A id \in DOMAIN graph.nodes :
      /\ graph.nodes[id].status \notin {"queued", "running"}
      /\ \A n \in DOMAIN graph.nodes[id].attempts : graph.nodes[id].attempts[n] # "running"

\* The nodes of task t: the planner's and the retries on larger models.
NodesOfTask(t) ==
  DOMAIN graph.nodes \cap ({<<t>>} \cup {<<t, "at", tier>> : tier \in TierNames})

\* How a subtask is drawn, however the jobs interleave and whichever models they moved
\* to: every attempt that started exactly once, and the accepted result on a passed node
\* in the lane of the model that gave it, every other node of the task as escalated.
GraphShowsTasks ==
  \A t \in Tasks :
    /\ t \in DOMAIN graph.accepted => t \in results
    /\ pc[t] = "done" =>
         /\ t \in DOMAIN graph.accepted
         /\ graph.nodes[graph.accepted[t]].lane = Tier(t)
         /\ \A id \in NodesOfTask(t) :
              graph.nodes[id].status = IF id = graph.accepted[t] THEN "passed" ELSE "escalated"
    /\ pc[t] \in {"calling", "replied", "rejecting", "accepting", "done"} =>
         \A n \in 1..attempt[t] :
           Cardinality({id \in NodesOfTask(t) : n \in DOMAIN graph.nodes[id].attempts}) = 1

\* When the run completes, the answer is drawn where it came from, and no other
\* local model is drawn as trusted.
GraphShowsRoute ==
  main = "returned" =>
    LET trusted == {id \in NodesOfKind(graph, {"judge", "triage", "answer"}) :
                      graph.nodes[id].status \in {"passed", "answered"}}
    IN  /\ graph.status = "completed"
        /\ \E id \in trusted : trusted = {id} /\ graph.nodes[id].lane = route

\* No edge is dropped by to_dict, and every result is drawn flowing from an earlier
\* round to a later one, into the answer last.
ResultsFlowForward ==
  /\ \A e \in graph.edges : Has(graph, e[1]) /\ Has(graph, e[2])
  /\ \A e \in ShownEdges(graph) :
       e[3] = "result" => graph.nodes[e[1]].round < graph.nodes[e[2]].round

\* graph.py: the graph answers "for every step of a run: which model handled it": the
\* planner, each subtask and the answer have nodes of their own.
StepsHaveTheirOwnNode ==
  main = "returned" /\ plan.ids # {} =>
    /\ graph.nodes[PlanNode].kind = "plan"
    /\ graph.nodes[AnswerNode].kind = "answer"
    /\ \A t \in plan.ids : graph.nodes[<<t>>].kind = "task"
=============================================================================
