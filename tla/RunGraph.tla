------------------------------ MODULE RunGraph ------------------------------
(***************************************************************************)
(* The decision graph of a run, folded from its events: one handler per    *)
(* event, each a function from graph to graph.  A node keeps its kind, its *)
(* lane, the round it is drawn in, its status and the outcome of each      *)
(* attempt; titles, texts, models, reasons and token counts are display.   *)
(*                                                                         *)
(* Node ids are the code's strings as tuples: <<"plan">> is "plan",        *)
(* <<"judge", tier>> is "judge:tier", <<t>> is the task's own id and       *)
(* <<t, "at", tier>> the retry on a larger model.  A task called "plan"    *)
(* therefore meets the planner's node here as it does in the code.         *)
(***************************************************************************)
EXTENDS PlanGraph, SequencesExt

Triage      == <<"triage">>
PlanNode    == <<"plan">>
AnswerNode  == <<"answer">>
Judge(tier) == <<"judge", tier>>

EmptyGraph == [status |-> "running", nodes |-> <<>>, edges |-> {}, taskLane |-> <<>>, accepted |-> <<>>]

\* Function f with value v at x.
With(f, x, v) == [y \in DOMAIN f \cup {x} |-> IF y = x THEN v ELSE f[y]]

Has(g, id) == id \in DOMAIN g.nodes

NodesOfKind(g, kinds) == {id \in DOMAIN g.nodes : g.nodes[id].kind \in kinds}

-----------------------------------------------------------------------------
(* Nodes, attempts and edges *)

\* _node: the node, made on first use and left alone afterwards.
Node(g, id, kind, lane, round, status) ==
  IF Has(g, id) THEN g
  ELSE [g EXCEPT !.nodes = With(@, id, [kind |-> kind, lane |-> lane, round |-> round,
                                        status |-> status, dependsOn |-> {}, attempts |-> <<>>])]

SetStatus(g, id, status) == [g EXCEPT !.nodes[id].status = status]

\* _attempt followed by an update of its outcome; "kept" leaves the outcome as it is.
Attempt(g, id, n, outcome) ==
  LET attempts == g.nodes[id].attempts
      before   == IF n \in DOMAIN attempts THEN attempts[n] ELSE "running"
  IN  [g EXCEPT !.nodes[id].attempts = With(@, n, IF outcome = "kept" THEN before ELSE outcome)]

Edge(g, source, target, type) == [g EXCEPT !.edges = @ \cup {<<source, target, type>>}]

\* Mutant of TaskNodeId: every attempt is drawn on the task's first node.
TaskNodeIdAlwaysFirst(g, t, tier) == <<t>>

\* _task_node: the planner's node, or the retry node in a larger model's lane.
TaskNodeId(g, t, tier) ==
  IF t \in DOMAIN g.taskLane /\ g.taskLane[t] # tier THEN <<t, "at", tier>> ELSE <<t>>

\* plan_created has made the planner's node; a retry takes its place in the rounds.
TaskNode(g, t, tier) ==
  LET id == TaskNodeId(g, t, tier)
  IN  IF id = <<t>> THEN g ELSE Node(g, id, "retry", tier, g.nodes[<<t>>].round, "queued")

\* The last round any subtask is drawn in.
LastRound(g) == Max({g.nodes[id].round : id \in NodesOfKind(g, {"task", "retry"})} \cup {0})

WithPlanNode(g) == Node(g, PlanNode, "plan", "cloud", 0, "queued")

WithAnswerNode(g, direct) ==
  Node(g, AnswerNode, "answer", "cloud", LastRound(g) + (IF direct THEN 0 ELSE 1), "queued")

\* The node whose answer was last refused: the last judge made, or the extraction.
Refused(g) ==
  LET tried == {i \in 1..Len(LocalTiers) : Has(g, Judge(LocalTiers[i]))}
  IN  IF tried # {} THEN {Judge(LocalTiers[Max(tried)])} ELSE {Triage} \cap DOMAIN g.nodes

\* An escalation edge from there; before is the graph without the target.
FromRefused(g, before, target) ==
  [g EXCEPT !.edges = @ \cup {<<source, target, "escalated">> : source \in Refused(before)}]

-----------------------------------------------------------------------------
(* Local models *)

OnLocalAttempt(g) ==
  Attempt(Node(g, Triage, "triage", "local", 0, "running"), Triage, 1, "kept")

OnExtractFailed(g) == SetStatus(g, Triage, "escalated")

OnLocalSkipped(g, tier) == Node(g, Judge(tier), "judge", tier, 0, "skipped")

OnLocalSolve(g, tier) ==
  FromRefused(Node(g, Judge(tier), "judge", tier, 0, "running"), g, Judge(tier))

OnLocalSample(g, tier, n, asks) ==
  Attempt(g, Judge(tier), n, IF asks THEN "failed" ELSE "passed")

\* n samples were taken; the critic is drawn as one more attempt.
OnLocalCritique(g, tier, n) == Attempt(g, Judge(tier), n + 1, "kept")

\* Mutant of OnLocalVerdict: a refused answer is drawn as trusted.
OnLocalVerdictPassed(g, tier, n, escalate, critique) == SetStatus(g, Judge(tier), "passed")

OnLocalVerdict(g, tier, n, escalate, critique) ==
  LET decided == SetStatus(g, Judge(tier), IF escalate THEN "escalated" ELSE "passed")
  IN  IF critique = "skipped" THEN decided ELSE Attempt(decided, Judge(tier), n + 1, critique)

OnLocalAccepted(g, tier) ==
  IF Has(g, Judge(tier)) THEN SetStatus(g, Judge(tier), "passed")
  ELSE IF Has(g, Triage) THEN SetStatus(g, Triage, "answered") ELSE g

-----------------------------------------------------------------------------
(* The cloud and its subtasks *)

OnEscalated(g, direct) ==
  LET target == IF direct THEN AnswerNode ELSE PlanNode
      made   == IF direct THEN WithAnswerNode(g, TRUE) ELSE WithPlanNode(g)
  IN  FromRefused(SetStatus(made, target, "running"), g, target)

OnAnswering(g) == SetStatus(WithAnswerNode(g, TRUE), AnswerNode, "running")

OnPlanInvalid(g, n) == Attempt(WithPlanNode(g), PlanNode, n, "failed")

\* Mutant of Depth: every task is drawn in the first round.
DepthFlat(plan) == [t \in plan.ids |-> 1]

\* Dependency depth: the longest chain of tasks that ends in t.  (plan_created's loop
\* counts it up; the plan has been validated as acyclic.)
Depth(plan) ==
  LET depth[t \in plan.ids] == 1 + Max({depth[d] : d \in plan.deps[t]} \cup {0})
  IN  depth

OnPlanCreated(g, plan) ==
  LET passed == SetStatus(WithPlanNode(g), PlanNode, "passed")
      depth  == Depth(plan)
      node(t) == [kind |-> "task", lane |-> plan.tier[t], round |-> depth[t], status |-> "queued",
                  dependsOn |-> plan.deps[t], attempts |-> <<>>]
      handed(t) == IF plan.tier[t] = "cloud" THEN "assigned" ELSE "delegated"
  IN  [passed EXCEPT
        !.taskLane = [t \in plan.ids |-> plan.tier[t]],
        !.nodes    = [id \in DOMAIN @ \cup {<<t>> : t \in plan.ids} |->
                        IF id \in DOMAIN @ THEN @[id] ELSE node(id[1])],
        !.edges    = @ \cup {<<PlanNode, <<t>>, handed(t)>> : t \in plan.ids}
                       \cup UNION {{<<<<d>>, <<t>>, "result">> : d \in plan.deps[t]} : t \in plan.ids}]

OnTaskEscalated(g, t, from, tier) ==
  LET made   == TaskNode(TaskNode(g, t, from), t, tier)
      source == TaskNodeId(g, t, from)
  IN  Edge(SetStatus(made, source, "escalated"), source, TaskNodeId(g, t, tier), "escalated")

\* task_started, task_invalid and task_completed: node and attempt change together.
TaskEvent(g, t, tier, n, outcome, status) ==
  LET id == TaskNodeId(g, t, tier)
  IN  SetStatus(Attempt(TaskNode(g, t, tier), id, n, outcome), id, status)

OnTaskStarted(g, t, tier, n) == TaskEvent(g, t, tier, n, "kept", "running")
OnTaskInvalid(g, t, tier, n) == TaskEvent(g, t, tier, n, "failed", "failed")

OnTaskCompleted(g, t, tier, n) ==
  [TaskEvent(g, t, tier, n, "passed", "passed") EXCEPT !.accepted = With(@, t, TaskNodeId(g, t, tier))]

\* The results nobody else needed go to the answer.
OnSynthesizing(g) ==
  LET made   == SetStatus(WithAnswerNode(g, FALSE), AnswerNode, "running")
      needed == UNION {g.nodes[id].dependsOn : id \in NodesOfKind(g, {"task"})}
  IN  [made EXCEPT !.edges = @ \cup {<<<<t>>, AnswerNode, "result">> : t \in DOMAIN g.taskLane \ needed}]

-----------------------------------------------------------------------------
(* Model calls *)

\* _node_for_call: the graph with the node of a call, and that node's id.  A call is a
\* record of its operation, its tier (for a critique the tier it judges), its task and
\* the number of the attempt.
WithCallNode(g, call) ==
  CASE call.operation \in {"attempt", "solve", "critique"} -> g
    [] call.operation = "answer"     -> WithAnswerNode(g, TRUE)
    [] call.operation = "synthesize" -> WithAnswerNode(g, FALSE)
    [] call.operation = "plan"       -> WithPlanNode(g)
    [] call.operation = "work"       -> TaskNode(g, call.task, call.tier)

CallNodeId(g, call) ==
  CASE call.operation = "attempt"                 -> Triage
    [] call.operation \in {"solve", "critique"}   -> Judge(call.tier)
    [] call.operation \in {"answer", "synthesize"} -> AnswerNode
    [] call.operation = "plan"                    -> PlanNode
    [] call.operation = "work"                    -> TaskNodeId(g, call.task, call.tier)

OnCallOutput(g, call) ==
  LET made == WithCallNode(g, call)
      id   == CallNodeId(g, call)
  IN  IF Has(made, id) THEN Attempt(made, id, call.attempt, "kept") ELSE made

\* A failed call fails its node; of the others only those nothing else checks pass.
OnCallFinished(g, call, failed) ==
  LET made    == WithCallNode(g, call)
      id      == CallNodeId(g, call)
      outcome == IF failed THEN "error"
                 ELSE IF call.operation \in {"work", "solve", "critique"} THEN "kept" ELSE "passed"
      noted   == Attempt(made, id, call.attempt, outcome)
  IN  IF ~Has(made, id) THEN made
      ELSE IF failed THEN SetStatus(noted, id, "failed") ELSE noted

-----------------------------------------------------------------------------
(* The end of the run *)

OnRunCompleted(g) ==
  LET over == [g EXCEPT !.status = "completed"]
  IN  IF Has(over, AnswerNode) THEN SetStatus(over, AnswerNode, "passed") ELSE over

\* What stopping makes of a node: nothing of it is waiting or under way.
StoppedNode(node) ==
  [node EXCEPT !.status   = IF @ \in {"running", "queued"} THEN "stopped" ELSE @,
               !.attempts = [n \in DOMAIN @ |-> IF @[n] = "running" THEN "stopped" ELSE @[n]]]

\* Mutant of Stop: attempts under way are left running.
StopNodesOnly(g, status) ==
  [g EXCEPT !.status = status,
            !.nodes = [id \in DOMAIN @ |-> [StoppedNode(@[id]) EXCEPT !.attempts = g.nodes[id].attempts]]]

\* _stop, for run_failed and run_cancelled.
Stop(g, status) ==
  [g EXCEPT !.status = status, !.nodes = [id \in DOMAIN @ |-> StoppedNode(@[id])]]

\* add: the handler of an event, a tuple of its name and what the handler uses of it.
Add(g, e) ==
  CASE e[1] = "local_attempt"  -> OnLocalAttempt(g)
    [] e[1] = "extract_failed" -> OnExtractFailed(g)
    [] e[1] = "local_skipped"  -> OnLocalSkipped(g, e[2])
    [] e[1] = "local_solve"    -> OnLocalSolve(g, e[2])
    [] e[1] = "local_sample"   -> OnLocalSample(g, e[2], e[3], e[4])
    [] e[1] = "local_critique" -> OnLocalCritique(g, e[2], e[3])
    [] e[1] = "local_verdict"  -> OnLocalVerdict(g, e[2], e[3], e[4], e[5])
    [] e[1] = "local_accepted" -> OnLocalAccepted(g, e[2])
    [] e[1] = "escalated"      -> OnEscalated(g, e[2])
    [] e[1] = "answering"      -> OnAnswering(g)
    [] e[1] = "plan_invalid"   -> OnPlanInvalid(g, e[2])
    [] e[1] = "plan_created"   -> OnPlanCreated(g, e[2])
    [] e[1] = "task_escalated" -> OnTaskEscalated(g, e[2], e[3], e[4])
    [] e[1] = "task_started"   -> OnTaskStarted(g, e[2], e[3], e[4])
    [] e[1] = "task_invalid"   -> OnTaskInvalid(g, e[2], e[3], e[4])
    [] e[1] = "task_completed" -> OnTaskCompleted(g, e[2], e[3], e[4])
    [] e[1] = "synthesizing"   -> OnSynthesizing(g)
    [] e[1] = "call_output"    -> OnCallOutput(g, e[2])
    [] e[1] = "call_finished"  -> OnCallFinished(g, e[2], e[3])
    [] e[1] = "run_completed"  -> OnRunCompleted(g)
    [] e[1] = "run_failed"     -> Stop(g, "failed")
    [] e[1] = "run_cancelled"  -> Stop(g, "cancelled")

\* The graph after a sequence of events.
AddAll(g, events) ==
  LET added[n \in 0..Len(events)] == IF n = 0 THEN g ELSE Add(added[n - 1], events[n])
  IN  added[Len(events)]

\* to_dict: the source of a result is the node that produced the accepted one.
ShownEdges(g) ==
  LET source(e) == IF e[3] = "result" /\ e[1][1] \in DOMAIN g.accepted
                   THEN g.accepted[e[1][1]] ELSE e[1]
  IN  {e \in {<<source(e), e[2], e[3]>> : e \in g.edges} : Has(g, e[1]) /\ Has(g, e[2])}
=============================================================================
