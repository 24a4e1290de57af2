-------------------------- MODULE RelayGraphProofs --------------------------
(***************************************************************************)
(* What RelayGraph draws is right in every state of every run, for every   *)
(* plan, limit and policy.  GraphInv, the inductive invariant, has a part  *)
(* for each question: Shape says what the nodes and edges may be,          *)
(* JobsDrawn relates each task's nodes to the state of its job, FrontDrawn *)
(* and CloudDrawn relate the run's own nodes to the await of the main      *)
(* coroutine, EndDrawn is the state after the terminal event.  EngineInv   *)
(* collects what the engine's own proofs show, and the few facts more      *)
(* (StageFacts) that the drawing relies on.                                *)
(*                                                                         *)
(* The order: what the events do to one node; the events of the local      *)
(* models and of the cloud; the plan and its rounds; the events of a job;  *)
(* then each step of GraphNext; then the invariant and the theorems.       *)
(***************************************************************************)
EXTENDS RelayRunProofs, RelayGraph, WellFoundedInduction

-----------------------------------------------------------------------------
(* The shape of a graph *)

NodeOK(r) ==
  r = [kind |-> r.kind, lane |-> r.lane, round |-> r.round, status |-> r.status,
       dependsOn |-> r.dependsOn, attempts |-> r.attempts]

GraphOK(g) ==
  /\ g = [status |-> g.status, nodes |-> g.nodes, edges |-> g.edges, taskLane |-> g.taskLane,
          accepted |-> g.accepted]
  /\ g.nodes = [id \in DOMAIN g.nodes |-> g.nodes[id]]
  /\ \A id \in DOMAIN g.nodes : NodeOK(g.nodes[id])

\* What is read of a graph and of a node.
EdgesOf(g)          == g.edges
LanesOf(g)          == g.taskLane
AcceptedOf(g)       == g.accepted
OverallOf(g)        == g.status
KindOf(g, id)       == g.nodes[id].kind
LaneOf(g, id)       == g.nodes[id].lane
RoundOf(g, id)      == g.nodes[id].round
StatusOf(g, id)     == g.nodes[id].status
Tried(g, id)        == DOMAIN g.nodes[id].attempts
OutcomeOf(g, id, n) == g.nodes[id].attempts[n]

JudgeIds == {Judge(LocalTiers[i]) : i \in 1..Len(LocalTiers)}

LocalIds == {Triage} \cup JudgeIds

RunIds == LocalIds \cup {PlanNode, AnswerNode}

Retry(t, tier) == <<t, "at", tier>>

TaskIds(t) == {<<t>>} \cup {Retry(t, tier) : tier \in TierNames}

DepthOf(p, t) == Depth(p)[t]

\* The nodes a run may have and what each says of itself.
LocalsKnown(g) ==
  /\ Has(g, Triage) => KindOf(g, Triage) = "triage" /\ LaneOf(g, Triage) = "local"
  /\ \A i \in 1..Len(LocalTiers) : Has(g, Judge(LocalTiers[i])) =>
       KindOf(g, Judge(LocalTiers[i])) = "judge" /\ LaneOf(g, Judge(LocalTiers[i])) = LocalTiers[i]

CloudKnown(g) ==
  /\ Has(g, PlanNode) => KindOf(g, PlanNode) = "plan"
  /\ Has(g, AnswerNode) => KindOf(g, AnswerNode) = "answer" /\ LaneOf(g, AnswerNode) = "cloud"

NodesKnown(g, p) == \A id : Has(g, id) => id \in RunIds \/ \E t \in p.ids : id \in TaskIds(t)

TaskKnown(g, p, t) ==
  /\ Has(g, <<t>>) => /\ KindOf(g, <<t>>) = "task"
                      /\ LaneOf(g, <<t>>) = p.tier[t]
                      /\ RoundOf(g, <<t>>) = DepthOf(p, t)
  /\ \A tier \in TierNames : Has(g, Retry(t, tier)) =>
                      /\ KindOf(g, Retry(t, tier)) = "retry"
                      /\ LaneOf(g, Retry(t, tier)) = tier
                      /\ RoundOf(g, Retry(t, tier)) = DepthOf(p, t)

TasksKnown(g, p) == \A t \in p.ids : TaskKnown(g, p, t)

\* What is needed of an edge for its two ends to be shown in order.
ToAnswer(g, p, e) ==
  /\ e[2] = AnswerNode
  /\ \E d \in p.ids : e[1] = <<d>>
  /\ \A t \in p.ids : DepthOf(p, t) < RoundOf(g, AnswerNode)
ToTask(p, e) == \E t \in p.ids : e[2] = <<t>> /\ \E d \in p.deps[t] : e[1] = <<d>>

EdgeKnown(g, p, e) ==
  /\ Has(g, e[1])
  /\ Has(g, e[2])
  /\ e[3] = "result" => ToAnswer(g, p, e) \/ ToTask(p, e)

EdgesKnown(g, p) == \A e \in EdgesOf(g) : EdgeKnown(g, p, e)

LanesKnown(g, p) ==
  \A t \in DOMAIN LanesOf(g) : t \in p.ids /\ LanesOf(g)[t] = p.tier[t] /\ Has(g, <<t>>)

AcceptedKnown(g, p) ==
  \A t \in DOMAIN AcceptedOf(g) :
    t \in p.ids /\ AcceptedOf(g)[t] \in TaskIds(t) /\ Has(g, AcceptedOf(g)[t])

Shape(g, p) ==
  /\ GraphOK(g)
  /\ NodesKnown(g, p)
  /\ LocalsKnown(g)
  /\ CloudKnown(g)
  /\ TasksKnown(g, p)
  /\ EdgesKnown(g, p)
  /\ LanesKnown(g, p)
  /\ AcceptedKnown(g, p)

-----------------------------------------------------------------------------
(* Tasks *)

\* The node of a task in the lane of a tier, and the node of attempt n at it.
PlaceOf(p, t, tier) == IF tier = p.tier[t] THEN <<t>> ELSE Retry(t, tier)
NodeOf(p, t, n) == PlaceOf(p, t, WorkerTiers(p.tier[t])[n])

\* The attempts that have been drawn as started when job t is at s with attempt k, and the
\* one whose node it is at: task_escalated is drawn when the await after it is left.
Started(s, k) == IF s \in {"waiting", "starting"} THEN k - 1 ELSE k
Current(p, t, s, k) ==
  IF k > 1 /\ (s = "waiting" \/ (s = "starting" /\ WorkerTiers(p.tier[t])[k] = "cloud")) THEN k - 1 ELSE k

\* The nodes of t have the first n attempts, each where it belongs, and none but the k-th
\* may be under way.
JobAttempts(g, p, t, n, k) ==
  /\ \A id \in TaskIds(t) : Has(g, id) => \A m \in Tried(g, id) :
       /\ m \in 1..n /\ id = NodeOf(p, t, m)
       /\ OutcomeOf(g, id, m) = "running" => m = k
  /\ \A m \in 1..n : /\ NodeOf(p, t, m) \in TaskIds(t)
                     /\ Has(g, NodeOf(p, t, m))
                     /\ m \in Tried(g, NodeOf(p, t, m))

\* The nodes of t other than the one of attempt k have been left.
JobLeft(g, p, t, k) ==
  \A id \in TaskIds(t) : Has(g, id) => id = NodeOf(p, t, k) \/ StatusOf(g, id) = "escalated"

JobAccepted(g, p, t, k) ==
  /\ t \in DOMAIN AcceptedOf(g)
  /\ AcceptedOf(g)[t] = NodeOf(p, t, k)
  /\ NodeOf(p, t, k) \in TaskIds(t)
  /\ Has(g, NodeOf(p, t, k))
  /\ StatusOf(g, NodeOf(p, t, k)) = "passed"

JobDrawn(g, p, t, s, k) ==
  /\ s \in ActiveStates =>
       /\ t \in DOMAIN LanesOf(g)
       /\ JobAttempts(g, p, t, Started(s, k), k)
       /\ JobLeft(g, p, t, Current(p, t, s, k))
  /\ s = "done" =>
       /\ t \in DOMAIN LanesOf(g)
       /\ JobAttempts(g, p, t, k, 0)
       /\ JobLeft(g, p, t, k)
       /\ JobAccepted(g, p, t, k)

Undrawn(g, t) ==
  /\ t \in DOMAIN LanesOf(g)
  /\ Has(g, <<t>>) /\ Tried(g, <<t>>) = {}
  /\ \A tier \in TierNames : ~Has(g, Retry(t, tier))

JobsDrawn(g) ==
  /\ \A t \in DOMAIN AcceptedOf(g) : t \in results
  /\ \A t \in Tasks : JobDrawn(g, plan, t, pc[t], attempt[t])
  /\ main \in TaskStates => \A t \in plan.ids : pc[t] = "idle" => Undrawn(g, t)

-----------------------------------------------------------------------------
(* The main coroutine *)

AllOver(g, id) == \A n \in Tried(g, id) : OutcomeOf(g, id, n) # "running"

Resting(g, id) == StatusOf(g, id) \notin {"queued", "running"} /\ AllOver(g, id)

Refusing(g, id) == Resting(g, id) /\ StatusOf(g, id) \notin {"passed", "answered"}

\* Local models from the k-th on are not drawn, the others as refused.
LocalsDrawn(g, k) ==
  /\ Has(g, Triage) => Refusing(g, Triage)
  /\ \A i \in 1..Len(LocalTiers) :
       Has(g, Judge(LocalTiers[i])) => i < k /\ Refusing(g, Judge(LocalTiers[i]))

\* The k-th local model is being judged.
LocalJudged(g, k) ==
  /\ Has(g, Triage) => Refusing(g, Triage)
  /\ Has(g, Judge(LocalTiers[k]))
  /\ \A i \in 1..Len(LocalTiers) :
       Has(g, Judge(LocalTiers[i])) => i <= k /\ (i < k => Refusing(g, Judge(LocalTiers[i])))

LocalTrusted(g, tier) ==
  /\ \A id : Has(g, id) => id \in LocalIds
  /\ \E id : /\ Has(g, id)
             /\ LaneOf(g, id) = tier
             /\ StatusOf(g, id) \in {"passed", "answered"}
             /\ AllOver(g, id)
             /\ \A i : Has(g, i) /\ i # id => Refusing(g, i)

CompletingStates == {"completing", "completed", "returned"}

\* A local model is about to be asked for the first time, or skipped, or none is left; or
\* one has been asked.
BetweenModels == main \in {"skipping", "escalated"} \/ (main = "solving" /\ sample = 0)
JudgingModel  == main \in {"critiquing", "deciding"} \/ (main = "solving" /\ sample # 0)
CloudAnswered == main \in CompletingStates /\ route = "cloud"

FrontDrawn ==
  /\ main \in {"starting", "extracting"} => \A id : ~Has(graph, id)
  /\ main \in {"skipping", "solving", "critiquing", "deciding", "escalated"} =>
       \A id : Has(graph, id) => id \in LocalIds
  /\ BetweenModels => LocalsDrawn(graph, rung)
  /\ JudgingModel =>
       /\ LocalJudged(graph, rung)
       /\ \A n \in Tried(graph, Judge(LocalTiers[rung])) :
            OutcomeOf(graph, Judge(LocalTiers[rung]), n) = "running" =>
              main = "deciding" /\ critiqued /\ n = sample + 1
  /\ main \in CompletingStates /\ route # "cloud" => LocalTrusted(graph, route)

CloudDrawn ==
  /\ main \in {"answering", "planning", "planned", "assembling", "synthesizing"} \cup TaskStates \/ CloudAnswered =>
       LocalsDrawn(graph, Len(LocalTiers) + 1)
  /\ main \in {"answering", "synthesizing"} \/ CloudAnswered =>
       Has(graph, AnswerNode) /\ AllOver(graph, AnswerNode)
  /\ main \in {"planning", "planned", "assembling"} \cup TaskStates => ~Has(graph, AnswerNode)
  /\ main \in {"planning", "planned"} => Has(graph, PlanNode) /\ AllOver(graph, PlanNode)
  /\ main = "planned" => \A id : Has(graph, id) => id \in RunIds
  /\ main \in {"answering", "assembling", "synthesizing"} \cup TaskStates \/ CloudAnswered =>
       (Has(graph, PlanNode) => Resting(graph, PlanNode))
  /\ main \in {"completed", "returned"} =>
       OverallOf(graph) = "completed" /\ (route = "cloud" => StatusOf(graph, AnswerNode) = "passed")

AtRest(g) == \A id : Has(g, id) => Resting(g, id)

EndDrawn == closing # <<>> => AtRest(graph)

GraphInv == Shape(graph, plan) /\ critiqued \in BOOLEAN /\ JobsDrawn(graph) /\ FrontDrawn /\ CloudDrawn /\ EndDrawn

-----------------------------------------------------------------------------
(* Facts of the engine *)

StageFacts ==
  /\ main \in {"escalated", "answering", "planning", "planned", "assembling", "synthesizing"} \cup TaskStates
       => rung = Len(LocalTiers) + 1 /\ route = "cloud"
  /\ main \in TaskStates \cup FinalStates \cup {"returned"} => \A t \in plan.ids \ pending : pc[t] = "done"
  /\ main \in {"planning", "planned", "assembling", "synthesizing"} \cup TaskStates => request.plans
  /\ \A t \in Tasks : pc[t] # "idle" => attempt[t] \in 1..Len(WorkerTiers(plan.tier[t]))
  /\ plan.ids # {} \/ main = "assembling" => Accepts(plan)

-----------------------------------------------------------------------------
(* What one handler does to one node *)

\* Node i is the same in g and h.
Same(g, h, i) ==
  /\ KindOf(h, i) = KindOf(g, i)
  /\ LaneOf(h, i) = LaneOf(g, i)
  /\ RoundOf(h, i) = RoundOf(g, i)
  /\ StatusOf(h, i) = StatusOf(g, i)
  /\ Tried(h, i) = Tried(g, i)
  /\ \A n \in Tried(g, i) : OutcomeOf(h, i, n) = OutcomeOf(g, i, n)

\* h differs from g at the nodes ids only; no node is lost or changes its kind, its lane
\* or its round.
Draws(g, h, ids) ==
  /\ GraphOK(h)
  /\ \A i : i \notin ids => (Has(h, i) <=> Has(g, i)) /\ (Has(g, i) => Same(g, h, i))
  /\ \A i : Has(g, i) => /\ Has(h, i)
                        /\ KindOf(h, i) = KindOf(g, i)
                        /\ LaneOf(h, i) = LaneOf(g, i)
                        /\ RoundOf(h, i) = RoundOf(g, i)
  /\ LanesOf(h) = LanesOf(g)
  /\ AcceptedOf(h) = AcceptedOf(g)

LEMMA DrawsTrans ==
  \A f, g, h, ids : Draws(f, g, ids) /\ Draws(g, h, ids) => Draws(f, h, ids)
BY DEF Draws, Same

LEMMA DrawsMore ==
  \A g, h, ids, more : Draws(g, h, ids) /\ ids \subseteq more => Draws(g, h, more)
BY DEF Draws

LEMMA DrawsNothing ==
  \A g, ids : GraphOK(g) => Draws(g, g, ids)
BY DEF Draws, Same

\* What the updates of a graph have in common.
LEMMA DrawsOne ==
  \A g, h, id :
    /\ GraphOK(g) /\ GraphOK(h)
    /\ DOMAIN g.nodes \subseteq DOMAIN h.nodes
    /\ DOMAIN h.nodes \subseteq DOMAIN g.nodes \cup {id}
    /\ \A i \in DOMAIN g.nodes : i # id => h.nodes[i] = g.nodes[i]
    /\ Has(g, id) => /\ KindOf(h, id) = KindOf(g, id)
                     /\ LaneOf(h, id) = LaneOf(g, id)
                     /\ RoundOf(h, id) = RoundOf(g, id)
    /\ h.taskLane = g.taskLane
    /\ h.accepted = g.accepted
    => Draws(g, h, {id})
<1> TAKE g, h, id
<1> HAVE /\ GraphOK(g) /\ GraphOK(h)
         /\ DOMAIN g.nodes \subseteq DOMAIN h.nodes
         /\ DOMAIN h.nodes \subseteq DOMAIN g.nodes \cup {id}
         /\ \A i \in DOMAIN g.nodes : i # id => h.nodes[i] = g.nodes[i]
         /\ Has(g, id) => /\ KindOf(h, id) = KindOf(g, id)
                          /\ LaneOf(h, id) = LaneOf(g, id)
                          /\ RoundOf(h, id) = RoundOf(g, id)
         /\ h.taskLane = g.taskLane
         /\ h.accepted = g.accepted
<1>1. ASSUME NEW i, i # id, Has(g, i) PROVE Has(h, i) /\ Same(g, h, i)
  BY <1>1 DEF Has, Same, KindOf, LaneOf, RoundOf, StatusOf, Tried, OutcomeOf
<1>2. \A i : i # id /\ Has(h, i) => Has(g, i)
  BY DEF Has
<1>3. Has(g, id) => Has(h, id)
  BY DEF Has
<1>4. \A i : i # id /\ Has(g, i) => KindOf(h, i) = KindOf(g, i) /\ LaneOf(h, i) = LaneOf(g, i) /\ RoundOf(h, i) = RoundOf(g, i)
  BY <1>1 DEF Same
<1>5. LanesOf(h) = LanesOf(g) /\ AcceptedOf(h) = AcceptedOf(g)
  BY DEF LanesOf, AcceptedOf
<1> QED BY <1>1, <1>2, <1>3, <1>4, <1>5 DEF Draws

LEMMA NodeDraws ==
  \A g, h, id, kind, lane, round, status :
    GraphOK(g) /\ h = Node(g, id, kind, lane, round, status) =>
      /\ Draws(g, h, {id})
      /\ EdgesOf(h) = EdgesOf(g)
      /\ Has(h, id)
      /\ Has(g, id) => h = g
      /\ ~Has(g, id) => /\ KindOf(h, id) = kind
                        /\ LaneOf(h, id) = lane
                        /\ RoundOf(h, id) = round
                        /\ StatusOf(h, id) = status
                        /\ Tried(h, id) = {}
<1> TAKE g, h, id, kind, lane, round, status
<1> HAVE GraphOK(g) /\ h = Node(g, id, kind, lane, round, status)
<1> DEFINE new == [kind |-> kind, lane |-> lane, round |-> round, status |-> status,
                   dependsOn |-> {}, attempts |-> <<>>]
           ns == With(g.nodes, id, new)
<1>1. CASE Has(g, id)
  <2>1. h = g
    BY <1>1 DEF Node
  <2> QED BY <1>1, <2>1, DrawsNothing
<1>2. CASE ~Has(g, id)
  <2>1. h = [g EXCEPT !.nodes = ns]
    BY <1>2 DEF Node
  <2>2. DOMAIN ns = DOMAIN g.nodes \cup {id} /\ ns[id] = new /\ \A i \in DOMAIN g.nodes : ns[i] = g.nodes[i]
    BY <1>2 DEF With, Has
  <2>3. ns = [i \in DOMAIN ns |-> ns[i]]
    BY DEF With
  <2>4. NodeOK(new) /\ new.kind = kind /\ new.lane = lane /\ new.round = round /\ new.status = status
          /\ new.attempts = <<>>
    BY DEF NodeOK
  <2> HIDE DEF ns, new
  <2>5. /\ h = [status |-> h.status, nodes |-> h.nodes, edges |-> h.edges, taskLane |-> h.taskLane,
                accepted |-> h.accepted]
        /\ h.nodes = ns /\ h.edges = g.edges /\ h.taskLane = g.taskLane /\ h.accepted = g.accepted
    BY <2>1 DEF GraphOK
  <2>6. GraphOK(h)
    BY <2>2, <2>3, <2>4, <2>5 DEF GraphOK
  <2>7. DOMAIN <<>> = {}
    OBVIOUS
  <2>8. Draws(g, h, {id})
    BY <1>2, <2>2, <2>5, <2>6, DrawsOne DEF Has
  <2> QED BY <1>2, <2>2, <2>4, <2>5, <2>7, <2>8 DEF EdgesOf, Has, KindOf, LaneOf, RoundOf, StatusOf, Tried
<1> QED BY <1>1, <1>2

LEMMA StatusDraws ==
  \A g, h, id, status :
    GraphOK(g) /\ h = SetStatus(g, id, status) =>
      /\ Draws(g, h, {id})
      /\ EdgesOf(h) = EdgesOf(g)
      /\ \A i : Has(h, i) <=> Has(g, i)
      /\ OverallOf(h) = OverallOf(g)
      /\ Has(g, id) => /\ Has(h, id)
                       /\ StatusOf(h, id) = status
                       /\ Tried(h, id) = Tried(g, id)
                       /\ \A n \in Tried(g, id) : OutcomeOf(h, id, n) = OutcomeOf(g, id, n)
<1> TAKE g, h, id, status
<1> HAVE GraphOK(g) /\ h = SetStatus(g, id, status)
<1> DEFINE ns == [g.nodes EXCEPT ![id].status = status]
<1>1. h = [g EXCEPT !.nodes = ns]
  BY DEF SetStatus, GraphOK
<1>2. /\ DOMAIN ns = DOMAIN g.nodes
      /\ \A i \in DOMAIN g.nodes : i # id => ns[i] = g.nodes[i]
      /\ ns = [i \in DOMAIN ns |-> ns[i]]
  BY DEF GraphOK
<1>3. ASSUME Has(g, id)
      PROVE  /\ NodeOK(ns[id]) /\ ns[id].status = status /\ ns[id].kind = g.nodes[id].kind
             /\ ns[id].lane = g.nodes[id].lane /\ ns[id].round = g.nodes[id].round
             /\ ns[id].attempts = g.nodes[id].attempts
  <2>1. ns[id] = [g.nodes[id] EXCEPT !.status = status] /\ NodeOK(g.nodes[id])
    BY <1>3 DEF GraphOK, Has
  <2> HIDE DEF ns
  <2> QED BY <2>1 DEF NodeOK
<1> HIDE DEF ns
<1>4. /\ h = [status |-> h.status, nodes |-> h.nodes, edges |-> h.edges, taskLane |-> h.taskLane,
              accepted |-> h.accepted]
      /\ h.nodes = ns /\ h.edges = g.edges /\ h.taskLane = g.taskLane /\ h.accepted = g.accepted
      /\ h.status = g.status
  BY <1>1 DEF GraphOK
<1>5. GraphOK(h)
  <2>1. \A i \in DOMAIN ns : NodeOK(ns[i])
    BY <1>2, <1>3 DEF GraphOK, Has
  <2>2. ns = [i \in DOMAIN ns |-> ns[i]] /\ h.nodes = ns
    BY <1>2, <1>4
  <2>3. h = [status |-> h.status, nodes |-> h.nodes, edges |-> h.edges, taskLane |-> h.taskLane,
             accepted |-> h.accepted]
    BY <1>4
  <2> QED BY <2>1, <2>2, <2>3 DEF GraphOK
<1>6. Draws(g, h, {id})
  BY <1>2, <1>3, <1>4, <1>5, DrawsOne DEF Has, KindOf, LaneOf, RoundOf
<1> QED BY <1>2, <1>3, <1>4, <1>6 DEF EdgesOf, OverallOf, Has, StatusOf, Tried, OutcomeOf

LEMMA AttemptDraws ==
  \A g, h, id, n, outcome :
    GraphOK(g) /\ h = Attempt(g, id, n, outcome) =>
      /\ Draws(g, h, {id})
      /\ EdgesOf(h) = EdgesOf(g)
      /\ \A i : Has(h, i) <=> Has(g, i)
      /\ Has(g, id) =>
           /\ Has(h, id)
           /\ StatusOf(h, id) = StatusOf(g, id)
           /\ Tried(h, id) = Tried(g, id) \cup {n}
           /\ \A m \in Tried(g, id) : m # n => OutcomeOf(h, id, m) = OutcomeOf(g, id, m)
           /\ outcome # "kept" => OutcomeOf(h, id, n) = outcome
<1> TAKE g, h, id, n, outcome
<1> HAVE GraphOK(g) /\ h = Attempt(g, id, n, outcome)
<1> DEFINE old == g.nodes[id].attempts
           val == IF outcome = "kept" THEN (IF n \in DOMAIN old THEN old[n] ELSE "running") ELSE outcome
           as == With(old, n, val)
           ns == [g.nodes EXCEPT ![id].attempts = as]
<1>1. h = [g EXCEPT !.nodes = ns]
  BY DEF Attempt, GraphOK
<1>0. /\ DOMAIN as = DOMAIN old \cup {n}
      /\ \A m \in DOMAIN old : m # n => as[m] = old[m]
      /\ outcome # "kept" => as[n] = outcome
  BY DEF With
<1> HIDE DEF as, val
<1>2. /\ DOMAIN ns = DOMAIN g.nodes
      /\ \A i \in DOMAIN g.nodes : i # id => ns[i] = g.nodes[i]
      /\ ns = [i \in DOMAIN ns |-> ns[i]]
  BY DEF GraphOK
<1>3. ASSUME Has(g, id)
      PROVE  /\ NodeOK(ns[id]) /\ ns[id].status = g.nodes[id].status /\ ns[id].kind = g.nodes[id].kind
             /\ ns[id].lane = g.nodes[id].lane /\ ns[id].round = g.nodes[id].round
             /\ ns[id].attempts = as
  <2>1. ns[id] = [g.nodes[id] EXCEPT !.attempts = as] /\ NodeOK(g.nodes[id])
    BY <1>3 DEF GraphOK, Has
  <2> HIDE DEF ns
  <2> QED BY <2>1 DEF NodeOK
<1> HIDE DEF ns
<1>4. /\ h = [status |-> h.status, nodes |-> h.nodes, edges |-> h.edges, taskLane |-> h.taskLane,
              accepted |-> h.accepted]
      /\ h.nodes = ns /\ h.edges = g.edges /\ h.taskLane = g.taskLane /\ h.accepted = g.accepted
      /\ h.status = g.status
  BY <1>1 DEF GraphOK
<1>5. GraphOK(h)
  <2>1. \A i \in DOMAIN ns : NodeOK(ns[i])
    BY <1>2, <1>3 DEF GraphOK, Has
  <2>2. ns = [i \in DOMAIN ns |-> ns[i]] /\ h.nodes = ns
    BY <1>2, <1>4
  <2>3. h = [status |-> h.status, nodes |-> h.nodes, edges |-> h.edges, taskLane |-> h.taskLane,
             accepted |-> h.accepted]
    BY <1>4
  <2> QED BY <2>1, <2>2, <2>3 DEF GraphOK
<1>6. Draws(g, h, {id})
  BY <1>2, <1>3, <1>4, <1>5, DrawsOne DEF Has, KindOf, LaneOf, RoundOf
<1> QED BY <1>0, <1>2, <1>3, <1>4, <1>6 DEF EdgesOf, OverallOf, Has, StatusOf, Tried, OutcomeOf

-----------------------------------------------------------------------------
(* The ids of the nodes *)

\* No task has the name of one of the run's own nodes.  (What happens otherwise is the
\* subject of StepsHaveTheirOwnNode.)
OrdinaryNames == Tasks \cap {"triage", "plan", "answer"} = {}

LEMMA JudgesDiffer ==
  ASSUME NEW i \in 1..Len(LocalTiers), NEW j \in 1..Len(LocalTiers), Judge(LocalTiers[i]) = Judge(LocalTiers[j])
  PROVE  i = j
<1>1. LocalTiers[i] = LocalTiers[j]
  BY DEF Judge
<1> QED BY <1>1 DEF LocalTiers

LEMMA RunNodesDiffer ==
  /\ Triage # PlanNode /\ Triage # AnswerNode /\ PlanNode # AnswerNode
  /\ Triage \notin JudgeIds /\ PlanNode \notin LocalIds /\ AnswerNode \notin LocalIds
  /\ \A tier : Judge(tier) # Triage /\ Judge(tier) # PlanNode /\ Judge(tier) # AnswerNode
<1>1. \A tier : Judge(tier) # Triage /\ Judge(tier) # PlanNode /\ Judge(tier) # AnswerNode
  BY DEF Judge, Triage, PlanNode, AnswerNode
<1>2. Triage # PlanNode /\ Triage # AnswerNode /\ PlanNode # AnswerNode
  BY DEF Triage, PlanNode, AnswerNode
<1> QED BY <1>1, <1>2 DEF JudgeIds, LocalIds

LEMMA TaskNodesDiffer ==
  \A t, u, id : t # u /\ id \in TaskIds(t) => id \notin TaskIds(u)
BY DEF TaskIds, Retry

LEMMA TasksAreNoRunNodes ==
  ASSUME OrdinaryNames
  PROVE  \A t, id : t \in Tasks /\ id \in TaskIds(t) => id \notin RunIds
<1> SUFFICES ASSUME NEW t \in Tasks PROVE \A id \in TaskIds(t) : id \notin RunIds
  OBVIOUS
<1>1. t # "triage" /\ t # "plan" /\ t # "answer"
  BY DEF OrdinaryNames
<1>2. \A tier : Judge(tier) \notin TaskIds(t)
  BY DEF Judge, TaskIds, Retry
<1>3. Triage \notin TaskIds(t) /\ PlanNode \notin TaskIds(t) /\ AnswerNode \notin TaskIds(t)
  BY <1>1 DEF Triage, PlanNode, AnswerNode, TaskIds, Retry
<1> QED BY <1>2, <1>3 DEF RunIds, LocalIds, JudgeIds

\* The nodes of a task.
LEMMA TaskPlaces ==
  /\ \A t : <<t>> \in TaskIds(t)
  /\ \A t, tier : tier \in TierNames => Retry(t, tier) \in TaskIds(t)
  /\ \A t, tier, u : Retry(t, tier) # <<u>>
  /\ \A t, tier, other : Retry(t, tier) = Retry(t, other) => tier = other
  /\ \A p, t, tier : tier \in TierNames => PlaceOf(p, t, tier) \in TaskIds(t)
  /\ \A p, t, tier, other : PlaceOf(p, t, tier) = PlaceOf(p, t, other) => tier = other
<1>1. /\ \A t : <<t>> \in TaskIds(t)
      /\ \A t, tier : tier \in TierNames => Retry(t, tier) \in TaskIds(t)
  BY DEF TaskIds
<1>2. /\ \A t, tier, u : Retry(t, tier) # <<u>>
      /\ \A t, tier, other : Retry(t, tier) = Retry(t, other) => tier = other
  BY DEF Retry
<1> QED BY <1>1, <1>2 DEF PlaceOf

LEMMA TaskNodeIdIs ==
  \A g, p, t, tier : LanesKnown(g, p) /\ t \in DOMAIN LanesOf(g) => TaskNodeId(g, t, tier) = PlaceOf(p, t, tier)
BY DEF TaskNodeId, PlaceOf, LanesKnown, LanesOf, Retry

-----------------------------------------------------------------------------
(* Sequences of events *)

\* f[i] is graph g after the first i events of s.
Drawing(f, g, s, n) == f = [i \in 0..n |-> IF i = 0 THEN g ELSE Add(f[i - 1], s[i])]

LEMMA LeastNat ==
  ASSUME NEW T, T \subseteq Nat, T # {}
  PROVE  \E m \in T : \A k \in T : m <= k
<1> DEFINE R == {ss \in Nat \X Nat : ss[1] < ss[2]}
<1>1. IsWellFoundedOn(OpToRel(<, Nat), Nat)
  BY NatLessThanWellFounded, Zenon
<1>2. OpToRel(<, Nat) = R
  BY Zenon DEF OpToRel
<1>3. IsWellFoundedOn(R, Nat)
  BY <1>1, <1>2, Zenon
<1>4. \A x, y \in Nat : y < x => <<y, x>> \in R
  OBVIOUS
<1> HIDE DEF R
<1>5. PICK x \in T : \A y \in T : ~ (<<y, x>> \in R)
  BY <1>3, WFMin
<1>6. \A y \in T : ~ (y < x)
  BY <1>4, <1>5
<1>7. \A y \in T : x <= y
  BY <1>6
<1> QED BY <1>7

LEMMA SetInduction ==
  ASSUME NEW S, 0 \in S, \A n \in Nat : n \in S => n + 1 \in S
  PROVE  Nat \subseteq S
<1> SUFFICES ASSUME Nat \ S # {} PROVE FALSE
  OBVIOUS
<1>1. PICK m \in Nat \ S : \A k \in Nat \ S : m <= k
  BY LeastNat
<1>2. m # 0 /\ m - 1 \in Nat /\ m - 1 \in S /\ (m - 1) + 1 = m
  BY <1>1
<1> QED BY <1>2

LEMMA DrawingExists ==
  ASSUME NEW g, NEW s, NEW n \in Nat
  PROVE  \E f : Drawing(f, g, s, n)
<1> DEFINE S == {k \in Nat : \E f : Drawing(f, g, s, k)}
<1>1. 0 \in S
  <2>1. Drawing([i \in 0..0 |-> g], g, s, 0)
    BY DEF Drawing
  <2> QED BY <2>1
<1>2. ASSUME NEW k \in Nat, k \in S PROVE k + 1 \in S
  <2>1. PICK f : Drawing(f, g, s, k)
    BY <1>2
  <2> DEFINE h == [i \in 0..(k + 1) |-> IF i <= k THEN f[i] ELSE Add(f[k], s[k + 1])]
  <2>2. ASSUME NEW i \in 0..(k + 1) PROVE h[i] = IF i = 0 THEN g ELSE Add(h[i - 1], s[i])
    <3>0. \A j \in 0..k : f[j] = IF j = 0 THEN g ELSE Add(f[j - 1], s[j])
      BY <2>1 DEF Drawing
    <3>1. CASE i <= k
      <4>1. i \in 0..k /\ h[i] = f[i] /\ (i # 0 => i - 1 \in 0..(k + 1) /\ i - 1 <= k /\ h[i - 1] = f[i - 1])
        BY <3>1
      <4> QED BY <3>0, <4>1
    <3>2. CASE i = k + 1
      <4>1. i # 0 /\ i - 1 = k /\ h[i] = Add(f[k], s[k + 1]) /\ h[k] = f[k]
        BY <3>2
      <4> QED BY <3>2, <4>1
    <3> QED BY <3>1, <3>2
  <2>3. Drawing(h, g, s, k + 1)
    BY <2>2 DEF Drawing
  <2> QED BY <2>3
<1> QED BY <1>1, <1>2, SetInduction

\* What AddAll stands for.
LEMMA AddAllIs ==
  ASSUME NEW g, NEW s, Len(s) \in Nat
  PROVE  \E f : Drawing(f, g, s, Len(s)) /\ AddAll(g, s) = f[Len(s)]
<1> DEFINE f == CHOOSE h : Drawing(h, g, s, Len(s))
<1>1. Drawing(f, g, s, Len(s))
  BY DrawingExists
<1>2. AddAll(g, s) = f[Len(s)]
  BY Zenon DEF AddAll, Drawing
<1> QED BY <1>1, <1>2

LEMMA DrawingAgrees ==
  ASSUME NEW g, NEW n \in Nat
  PROVE  \A s, u, f, h : \A m \in Nat :
           n <= m /\ Drawing(f, g, s, n) /\ Drawing(h, g, u, m) /\ (\A i \in 1..n : s[i] = u[i])
             => f[n] = h[n]
<1> SUFFICES ASSUME NEW s, NEW u, NEW f, NEW h, NEW m \in Nat, n <= m,
                    Drawing(f, g, s, n), Drawing(h, g, u, m), \A i \in 1..n : s[i] = u[i]
             PROVE  f[n] = h[n]
  OBVIOUS
<1> DEFINE S == {k \in Nat : k <= n => f[k] = h[k]}
<1>0. /\ \A j \in 0..n : f[j] = IF j = 0 THEN g ELSE Add(f[j - 1], s[j])
      /\ \A j \in 0..m : h[j] = IF j = 0 THEN g ELSE Add(h[j - 1], u[j])
  BY DEF Drawing
<1>1. 0 \in S
  BY <1>0
<1>2. ASSUME NEW k \in Nat, k \in S PROVE k + 1 \in S
  <2> SUFFICES ASSUME k + 1 <= n PROVE f[k + 1] = h[k + 1]
    OBVIOUS
  <2>1. k + 1 \in 0..n /\ k + 1 \in 0..m /\ k + 1 # 0 /\ (k + 1) - 1 = k /\ k + 1 \in 1..n /\ k <= n
    OBVIOUS
  <2>2. f[k + 1] = Add(f[k], s[k + 1]) /\ h[k + 1] = Add(h[k], u[k + 1])
    BY <1>0, <2>1
  <2>3. f[k] = h[k] /\ s[k + 1] = u[k + 1]
    BY <1>2, <2>1
  <2> QED BY <2>2, <2>3
<1>3. n \in S
  BY <1>1, <1>2, SetInduction
<1> QED BY <1>3

LEMMA AddNone == \A g : AddAll(g, <<>>) = g
<1> SUFFICES ASSUME NEW g PROVE AddAll(g, <<>>) = g
  OBVIOUS
<1>1. Len(<<>>) = 0
  OBVIOUS
<1>2. PICK f : Drawing(f, g, <<>>, 0) /\ AddAll(g, <<>>) = f[0]
  BY <1>1, AddAllIs
<1> QED BY <1>2 DEF Drawing

\* One event more.
LEMMA AddLast ==
  ASSUME NEW g, NEW S, NEW s \in Seq(S), NEW e \in S
  PROVE  AddAll(g, s \o <<e>>) = Add(AddAll(g, s), e)
<1> DEFINE u == s \o <<e>>
           n == Len(s)
<1>1. n \in Nat /\ Len(u) = n + 1 /\ u[n + 1] = e /\ \A i \in 1..n : s[i] = u[i]
  OBVIOUS
<1> HIDE DEF u, n
<1>2. PICK f : Drawing(f, g, s, n) /\ AddAll(g, s) = f[n]
  BY <1>1, AddAllIs DEF n
<1>3. PICK h : Drawing(h, g, u, n + 1) /\ AddAll(g, u) = h[n + 1]
  BY <1>1, AddAllIs
<1>4. h[n] = f[n]
  <2> DEFINE m == n + 1
  <2>1. n \in Nat /\ n <= m /\ m \in Nat /\ \A i \in 1..n : s[i] = u[i]
    BY <1>1
  <2>2. Drawing(f, g, s, n) /\ Drawing(h, g, u, m)
    BY <1>2, <1>3
  <2> HIDE DEF m
  <2>3. f[n] = h[n]
    BY <2>1, <2>2, DrawingAgrees
  <2> QED BY <2>3
<1>5. h[n + 1] = Add(h[n], u[n + 1])
  <2>1. n + 1 \in 0..(n + 1) /\ n + 1 # 0 /\ (n + 1) - 1 = n
    BY <1>1
  <2> QED BY <1>3, <2>1 DEF Drawing
<1> QED BY <1>1, <1>2, <1>3, <1>4, <1>5 DEF u

\* At most three events are drawn in one step.
LEMMA AddFew ==
  ASSUME NEW g, NEW a, NEW b, NEW c
  PROVE  /\ AddAll(g, <<a>>) = Add(g, a)
         /\ AddAll(g, <<a>> \o <<b>>) = Add(Add(g, a), b)
         /\ AddAll(g, (<<a>> \o <<b>>) \o <<c>>) = Add(Add(Add(g, a), b), c)
<1> DEFINE S == {a, b, c}
<1>1. <<a>> \in Seq(S) /\ <<>> \in Seq(S) /\ <<b>> \in Seq(S) /\ <<>> \o <<a>> = <<a>>
  OBVIOUS
<1>2. <<a>> \o <<b>> \in Seq(S)
  BY <1>1
<1> HIDE DEF S
<1>3. a \in S /\ b \in S /\ c \in S
  BY DEF S
<1>4. AddAll(g, <<a>>) = Add(g, a)
  <2>1. AddAll(g, <<>> \o <<a>>) = Add(AddAll(g, <<>>), a)
    BY <1>1, <1>3, AddLast
  <2> QED BY <1>1, <2>1, AddNone
<1>5. AddAll(g, <<a>> \o <<b>>) = Add(AddAll(g, <<a>>), b)
  <2> DEFINE s == <<a>>
  <2>1. s \in Seq(S)
    BY <1>1
  <2> HIDE DEF s
  <2>2. b \in S
    BY <1>3
  <2>3. AddAll(g, s \o <<b>>) = Add(AddAll(g, s), b)
    BY <2>1, <2>2, AddLast, SMTT(30)
  <2> QED BY <2>3 DEF s
<1>6. AddAll(g, (<<a>> \o <<b>>) \o <<c>>) = Add(AddAll(g, <<a>> \o <<b>>), c)
  <2> DEFINE s == <<a>> \o <<b>>
  <2>1. s \in Seq(S)
    BY <1>2
  <2> HIDE DEF s
  <2>2. c \in S
    BY <1>3
  <2>3. AddAll(g, s \o <<c>>) = Add(AddAll(g, s), c)
    BY <2>1, <2>2, AddLast, SMTT(30)
  <2> QED BY <2>3 DEF s
<1> QED BY <1>4, <1>5, <1>6

\* What may be drawn of a sequence whose delivery is interrupted.
PrefixesOf(g, s) == {AddAll(g, SubSeq(s, 1, k)) : k \in 0..Len(s)}

LEMMA PrefixesNone == \A g : PrefixesOf(g, <<>>) = {g}
<1> SUFFICES ASSUME NEW g PROVE PrefixesOf(g, <<>>) = {g}
  OBVIOUS
<1>1. 0..Len(<<>>) = {0} /\ SubSeq(<<>>, 1, 0) = <<>>
  OBVIOUS
<1> QED BY <1>1, AddNone DEF PrefixesOf

LEMMA PrefixesLast ==
  ASSUME NEW g, NEW S, NEW s \in Seq(S), NEW e \in S
  PROVE  PrefixesOf(g, s \o <<e>>) \subseteq PrefixesOf(g, s) \cup {Add(AddAll(g, s), e)}
<1> DEFINE u == s \o <<e>>
           n == Len(s)
<1>1. n \in Nat /\ Len(u) = n + 1 /\ u \in Seq(S) /\ \A i \in 1..n : s[i] = u[i]
  OBVIOUS
<1>2. ASSUME NEW k \in 0..Len(u) PROVE AddAll(g, SubSeq(u, 1, k)) \in PrefixesOf(g, s) \cup {Add(AddAll(g, s), e)}
  <2>1. CASE k = n + 1
    <3>1. SubSeq(u, 1, k) = u
      BY <1>1, <2>1
    <3>2. AddAll(g, u) = Add(AddAll(g, s), e)
      BY AddLast
    <3> HIDE DEF u, n
    <3> QED BY <3>1, <3>2
  <2>2. CASE k \in 0..n
    <3>1. SubSeq(u, 1, k) = SubSeq(s, 1, k)
      BY <1>1, <2>2
    <3> QED BY <2>2, <3>1 DEF PrefixesOf
  <2> QED BY <1>1, <2>1, <2>2
<1> QED BY <1>2 DEF PrefixesOf

LEMMA PrefixesFew ==
  ASSUME NEW g, NEW a, NEW b, NEW c
  PROVE  /\ PrefixesOf(g, <<a>>) \subseteq {g, Add(g, a)}
         /\ PrefixesOf(g, <<a>> \o <<b>>) \subseteq {g, Add(g, a), Add(Add(g, a), b)}
<1> DEFINE S == {a, b}
<1>1. <<a>> \in Seq(S) /\ <<>> \in Seq(S) /\ <<>> \o <<a>> = <<a>>
  OBVIOUS
<1> HIDE DEF S
<1>3. a \in S /\ b \in S
  BY DEF S
<1>4. PrefixesOf(g, <<a>>) \subseteq {g, Add(g, a)}
  <2>1. PrefixesOf(g, <<>> \o <<a>>) \subseteq PrefixesOf(g, <<>>) \cup {Add(AddAll(g, <<>>), a)}
    BY <1>1, <1>3, PrefixesLast
  <2> QED BY <1>1, <2>1, AddNone, PrefixesNone
<1>5. PrefixesOf(g, <<a>> \o <<b>>) \subseteq PrefixesOf(g, <<a>>) \cup {Add(AddAll(g, <<a>>), b)}
  <2> DEFINE s == <<a>>
  <2>1. s \in Seq(S)
    BY <1>1
  <2> HIDE DEF s
  <2>2. PrefixesOf(g, s \o <<b>>) \subseteq PrefixesOf(g, s) \cup {Add(AddAll(g, s), b)}
    BY <1>3, <2>1, PrefixesLast
  <2> QED BY <2>2 DEF s
<1>6. AddAll(g, <<a>>) = Add(g, a)
  BY AddFew
<1>7. PrefixesOf(g, <<a>> \o <<b>>) \subseteq {g, Add(g, a)} \cup {Add(Add(g, a), b)}
  BY <1>4, <1>5, <1>6
<1> QED BY <1>4, <1>7

\* The handlers that add calls with three arguments, and with two.
LEMMA TaskHandlers ==
  \A g, x, y, z : /\ Add(g, <<"task_escalated", x, y, z>>) = OnTaskEscalated(g, x, y, z)
                  /\ Add(g, <<"task_started", x, y, z>>) = OnTaskStarted(g, x, y, z)
                  /\ Add(g, <<"task_invalid", x, y, z>>) = OnTaskInvalid(g, x, y, z)
                  /\ Add(g, <<"task_completed", x, y, z>>) = OnTaskCompleted(g, x, y, z)
<1> TAKE g, x, y, z
<1>1. Add(g, <<"task_escalated", x, y, z>>) = OnTaskEscalated(g, x, y, z)
  BY DEF Add
<1>2. Add(g, <<"task_started", x, y, z>>) = OnTaskStarted(g, x, y, z)
  BY DEF Add
<1>3. Add(g, <<"task_invalid", x, y, z>>) = OnTaskInvalid(g, x, y, z)
  BY DEF Add
<1>4. Add(g, <<"task_completed", x, y, z>>) = OnTaskCompleted(g, x, y, z)
  BY DEF Add
<1> QED BY <1>1, <1>2, <1>3, <1>4

LEMMA CallHandler == \A g, x, y : Add(g, <<"call_finished", x, y>>) = OnCallFinished(g, x, y)
BY DEF Add

\* Which handler add calls.
LEMMA Handlers ==
  ASSUME NEW g, NEW x, NEW y, NEW z, NEW w
  PROVE  /\ Add(g, <<"local_attempt">>) = OnLocalAttempt(g)
         /\ Add(g, <<"extract_failed">>) = OnExtractFailed(g)
         /\ Add(g, <<"local_skipped", x>>) = OnLocalSkipped(g, x)
         /\ Add(g, <<"local_solve", x>>) = OnLocalSolve(g, x)
         /\ Add(g, <<"local_sample", x, y, z>>) = OnLocalSample(g, x, y, z)
         /\ Add(g, <<"local_critique", x, y>>) = OnLocalCritique(g, x, y)
         /\ Add(g, <<"local_verdict", x, y, z, w>>) = OnLocalVerdict(g, x, y, z, w)
         /\ Add(g, <<"local_accepted", x>>) = OnLocalAccepted(g, x)
         /\ Add(g, <<"escalated", x>>) = OnEscalated(g, x)
         /\ Add(g, <<"answering">>) = OnAnswering(g)
         /\ Add(g, <<"plan_invalid", x>>) = OnPlanInvalid(g, x)
         /\ Add(g, <<"plan_created", x>>) = OnPlanCreated(g, x)
         /\ Add(g, <<"task_escalated", x, y, z>>) = OnTaskEscalated(g, x, y, z)
         /\ Add(g, <<"task_started", x, y, z>>) = OnTaskStarted(g, x, y, z)
         /\ Add(g, <<"task_invalid", x, y, z>>) = OnTaskInvalid(g, x, y, z)
         /\ Add(g, <<"task_completed", x, y, z>>) = OnTaskCompleted(g, x, y, z)
         /\ Add(g, <<"synthesizing">>) = OnSynthesizing(g)
         /\ Add(g, <<"call_output", x>>) = OnCallOutput(g, x)
         /\ Add(g, <<"call_finished", x, y>>) = OnCallFinished(g, x, y)
         /\ Add(g, <<"run_completed">>) = OnRunCompleted(g)
         /\ Add(g, <<"run_failed">>) = Stop(g, "failed")
         /\ Add(g, <<"run_cancelled">>) = Stop(g, "cancelled")
<1>1. Add(g, <<"local_attempt">>) = OnLocalAttempt(g)
  BY DEF Add
<1>2. Add(g, <<"extract_failed">>) = OnExtractFailed(g)
  BY DEF Add
<1>3. Add(g, <<"local_skipped", x>>) = OnLocalSkipped(g, x)
  BY DEF Add
<1>4. Add(g, <<"local_solve", x>>) = OnLocalSolve(g, x)
  BY DEF Add
<1>5. Add(g, <<"local_sample", x, y, z>>) = OnLocalSample(g, x, y, z)
  BY DEF Add
<1>6. Add(g, <<"local_critique", x, y>>) = OnLocalCritique(g, x, y)
  BY DEF Add
<1>7. Add(g, <<"local_verdict", x, y, z, w>>) = OnLocalVerdict(g, x, y, z, w)
  BY DEF Add
<1>8. Add(g, <<"local_accepted", x>>) = OnLocalAccepted(g, x)
  BY DEF Add
<1>9. Add(g, <<"escalated", x>>) = OnEscalated(g, x)
  BY DEF Add
<1>10. Add(g, <<"answering">>) = OnAnswering(g)
  BY DEF Add
<1>11. Add(g, <<"plan_invalid", x>>) = OnPlanInvalid(g, x)
  BY DEF Add
<1>12. Add(g, <<"plan_created", x>>) = OnPlanCreated(g, x)
  BY DEF Add
<1>13. Add(g, <<"task_escalated", x, y, z>>) = OnTaskEscalated(g, x, y, z)
  BY DEF Add
<1>14. Add(g, <<"task_started", x, y, z>>) = OnTaskStarted(g, x, y, z)
  BY DEF Add
<1>15. Add(g, <<"task_invalid", x, y, z>>) = OnTaskInvalid(g, x, y, z)
  BY DEF Add
<1>16. Add(g, <<"task_completed", x, y, z>>) = OnTaskCompleted(g, x, y, z)
  BY DEF Add
<1>17. Add(g, <<"synthesizing">>) = OnSynthesizing(g)
  BY DEF Add
<1>18. Add(g, <<"call_output", x>>) = OnCallOutput(g, x)
  BY DEF Add
<1>19. Add(g, <<"call_finished", x, y>>) = OnCallFinished(g, x, y)
  BY DEF Add
<1>20. Add(g, <<"run_completed">>) = OnRunCompleted(g)
  BY DEF Add
<1>21. Add(g, <<"run_failed">>) = Stop(g, "failed")
  BY DEF Add
<1>22. Add(g, <<"run_cancelled">>) = Stop(g, "cancelled")
  BY DEF Add
<1> QED BY <1>1, <1>2, <1>3, <1>4, <1>5, <1>6, <1>7, <1>8, <1>9, <1>10, <1>11, <1>12, <1>13, <1>14, <1>15, <1>16, <1>17, <1>18, <1>19, <1>20, <1>21, <1>22, Zenon

-----------------------------------------------------------------------------
(* The handlers of model calls *)

\* Node id has attempt n, new or with another outcome; its other attempts are unchanged.
Noted(g, h, id, n) ==
  /\ Draws(g, h, {id})
  /\ EdgesOf(h) = EdgesOf(g)
  /\ \A i : Has(h, i) <=> Has(g, i)
  /\ Tried(h, id) = Tried(g, id) \cup {n}
  /\ \A m \in Tried(g, id) : m # n => OutcomeOf(h, id, m) = OutcomeOf(g, id, m)

LEMMA AttemptNotes ==
  \A g, h, id, n, outcome :
    GraphOK(g) /\ Has(g, id) /\ h = Attempt(g, id, n, outcome) =>
      /\ Noted(g, h, id, n)
      /\ Has(h, id)
      /\ StatusOf(h, id) = StatusOf(g, id)
      /\ outcome # "kept" => OutcomeOf(h, id, n) = outcome
<1> TAKE g, h, id, n, outcome
<1> HAVE GraphOK(g) /\ Has(g, id) /\ h = Attempt(g, id, n, outcome)
<1>1. /\ Draws(g, h, {id})
      /\ EdgesOf(h) = EdgesOf(g)
      /\ \A i : Has(h, i) <=> Has(g, i)
      /\ StatusOf(h, id) = StatusOf(g, id)
      /\ Tried(h, id) = Tried(g, id) \cup {n}
      /\ \A m \in Tried(g, id) : m # n => OutcomeOf(h, id, m) = OutcomeOf(g, id, m)
      /\ outcome # "kept" => OutcomeOf(h, id, n) = outcome
  BY AttemptDraws
<1> QED BY <1>1 DEF Noted

LEMMA AttemptAndStatus ==
  \A g, f, h, id, n, outcome, status :
    GraphOK(g) /\ Has(g, id) /\ f = Attempt(g, id, n, outcome) /\ h = SetStatus(f, id, status) =>
      /\ Noted(g, h, id, n)
      /\ StatusOf(h, id) = status
      /\ outcome # "kept" => OutcomeOf(h, id, n) = outcome
<1> TAKE g, f, h, id, n, outcome, status
<1> HAVE GraphOK(g) /\ Has(g, id) /\ f = Attempt(g, id, n, outcome) /\ h = SetStatus(f, id, status)
<1>1. Noted(g, f, id, n) /\ Has(f, id) /\ (outcome # "kept" => OutcomeOf(f, id, n) = outcome)
  BY AttemptNotes
<1>2. GraphOK(f)
  BY <1>1 DEF Noted, Draws
<1>3. /\ Draws(f, h, {id}) /\ EdgesOf(h) = EdgesOf(f) /\ \A i : Has(h, i) <=> Has(f, i)
      /\ StatusOf(h, id) = status /\ Tried(h, id) = Tried(f, id)
      /\ \A m \in Tried(f, id) : OutcomeOf(h, id, m) = OutcomeOf(f, id, m)
  BY <1>1, <1>2, StatusDraws
<1>4. Draws(g, h, {id})
  BY <1>1, <1>3, DrawsTrans DEF Noted
<1>6. n \in Tried(f, id) /\ \A m \in Tried(g, id) : m \in Tried(f, id)
  BY <1>1 DEF Noted
<1> QED BY <1>1, <1>3, <1>4, <1>6 DEF Noted

LEMMA CallFields ==
  ASSUME NEW operation, NEW tier, NEW task, NEW n
  PROVE  LET call == Call(operation, tier, task, n)
         IN  call.operation = operation /\ call.tier = tier /\ call.task = task /\ call.attempt = n
BY DEF Call

\* The node of each call of the main coroutine.
LEMMA CallNodes ==
  ASSUME NEW g, NEW tier, NEW task, NEW n
  PROVE  /\ CallNodeId(g, Call("attempt", tier, task, n)) = Triage
         /\ CallNodeId(g, Call("solve", tier, task, n)) = Judge(tier)
         /\ CallNodeId(g, Call("critique", tier, task, n)) = Judge(tier)
         /\ CallNodeId(g, Call("answer", tier, task, n)) = AnswerNode
         /\ CallNodeId(g, Call("synthesize", tier, task, n)) = AnswerNode
         /\ CallNodeId(g, Call("plan", tier, task, n)) = PlanNode
         /\ CallNodeId(g, Call("work", tier, task, n)) = TaskNodeId(g, task, tier)
<1>1. CallNodeId(g, Call("attempt", tier, task, n)) = Triage
  BY CallFields DEF CallNodeId
<1>2. CallNodeId(g, Call("solve", tier, task, n)) = Judge(tier)
  BY CallFields DEF CallNodeId
<1>3. CallNodeId(g, Call("critique", tier, task, n)) = Judge(tier)
  BY CallFields DEF CallNodeId
<1>4. CallNodeId(g, Call("answer", tier, task, n)) = AnswerNode
  BY CallFields DEF CallNodeId
<1>5. CallNodeId(g, Call("synthesize", tier, task, n)) = AnswerNode
  BY CallFields DEF CallNodeId
<1>6. CallNodeId(g, Call("plan", tier, task, n)) = PlanNode
  BY CallFields DEF CallNodeId
<1>7. CallNodeId(g, Call("work", tier, task, n)) = TaskNodeId(g, task, tier)
  BY CallFields DEF CallNodeId
<1> QED BY <1>1, <1>2, <1>3, <1>4, <1>5, <1>6, <1>7

CallOperations == {"attempt", "solve", "critique", "answer", "synthesize", "plan", "work"}

\* A call finds its node where an earlier event has made it.
LEMMA CallNodeExists ==
  ASSUME NEW g, NEW operation \in CallOperations, NEW tier, NEW task, NEW n,
         Has(g, CallNodeId(g, Call(operation, tier, task, n)))
  PROVE  WithCallNode(g, Call(operation, tier, task, n)) = g
<1> DEFINE call == Call(operation, tier, task, n)
<1>0. call.operation = operation /\ call.tier = tier /\ call.task = task
  BY CallFields
<1> HIDE DEF call
<1>1. CASE operation \in {"attempt", "solve", "critique"}
  BY <1>0, <1>1 DEF WithCallNode, call
<1>2. CASE operation = "answer"
  <2>1. Has(g, AnswerNode)
    BY <1>2, CallNodes
  <2>2. WithCallNode(g, call) = WithAnswerNode(g, TRUE)
    BY <1>0, <1>2 DEF WithCallNode
  <2> QED BY <2>1, <2>2 DEF WithAnswerNode, Node, call
<1>3. CASE operation = "synthesize"
  <2>1. Has(g, AnswerNode)
    BY <1>3, CallNodes
  <2>2. WithCallNode(g, call) = WithAnswerNode(g, FALSE)
    BY <1>0, <1>3 DEF WithCallNode
  <2> QED BY <2>1, <2>2 DEF WithAnswerNode, Node, call
<1>4. CASE operation = "plan"
  <2>1. Has(g, PlanNode)
    BY <1>4, CallNodes
  <2>2. WithCallNode(g, call) = WithPlanNode(g)
    BY <1>0, <1>4 DEF WithCallNode
  <2> QED BY <2>1, <2>2 DEF WithPlanNode, Node, call
<1>5. CASE operation = "work"
  <2>1. Has(g, TaskNodeId(g, task, tier))
    BY <1>5, CallNodes
  <2>2. WithCallNode(g, call) = TaskNode(g, task, tier)
    BY <1>0, <1>5 DEF WithCallNode
  <2> QED BY <2>1, <2>2 DEF TaskNode, Node, call
<1> QED BY <1>1, <1>2, <1>3, <1>4, <1>5 DEF CallOperations

LEMMA CallFinished ==
  \A g, h, operation, tier, task, n, failed, id :
    /\ GraphOK(g) /\ operation \in CallOperations /\ failed \in BOOLEAN
    /\ id = CallNodeId(g, Call(operation, tier, task, n)) /\ Has(g, id)
    /\ h = OnCallFinished(g, Call(operation, tier, task, n), failed)
    => /\ Noted(g, h, id, n)
       /\ StatusOf(h, id) = IF failed THEN "failed" ELSE StatusOf(g, id)
       /\ operation \notin {"work", "solve", "critique"} => OutcomeOf(h, id, n) # "running"
<1> SUFFICES ASSUME NEW g, NEW h, NEW operation \in CallOperations, NEW tier, NEW task, NEW n,
                    NEW failed \in BOOLEAN, NEW id, GraphOK(g),
                    id = CallNodeId(g, Call(operation, tier, task, n)), Has(g, id),
                    h = OnCallFinished(g, Call(operation, tier, task, n), failed)
             PROVE  /\ Noted(g, h, id, n)
                    /\ StatusOf(h, id) = IF failed THEN "failed" ELSE StatusOf(g, id)
                    /\ operation \notin {"work", "solve", "critique"} => OutcomeOf(h, id, n) # "running"
  OBVIOUS
<1> DEFINE call == Call(operation, tier, task, n)
           outcome == IF failed THEN "error"
                      ELSE IF operation \in {"work", "solve", "critique"} THEN "kept" ELSE "passed"
           noted == Attempt(g, id, n, outcome)
<1>1. WithCallNode(g, call) = g
  BY CallNodeExists
<1>2. call.operation = operation /\ call.attempt = n
  BY CallFields
<1>3. OnCallFinished(g, call, failed) = IF failed THEN SetStatus(noted, id, "failed") ELSE noted
  <2>1. CallNodeId(g, call) = id
    OBVIOUS
  <2> HIDE DEF call
  <2> QED BY <1>1, <1>2, <2>1, Zenon DEF OnCallFinished
<1>4. CASE failed
  <2>1. outcome = "error" /\ h = SetStatus(noted, id, "failed")
    BY <1>3, <1>4
  <2> HIDE DEF outcome
  <2>2. \A f : f = noted => Noted(g, h, id, n) /\ StatusOf(h, id) = "failed" /\ OutcomeOf(h, id, n) = outcome
    BY <2>1, AttemptAndStatus
  <2> QED BY <1>4, <2>1, <2>2
<1>5. CASE ~failed
  <2>1. h = noted /\ (operation \notin {"work", "solve", "critique"} => outcome = "passed")
    BY <1>3, <1>5
  <2> HIDE DEF outcome
  <2>2. Noted(g, h, id, n) /\ StatusOf(h, id) = StatusOf(g, id)
          /\ (outcome # "kept" => OutcomeOf(h, id, n) = outcome)
    BY <2>1, AttemptNotes
  <2> QED BY <1>5, <2>1, <2>2
<1> QED BY <1>4, <1>5

LEMMA CallOutput ==
  \A g, h, operation, tier, task, n, id :
    /\ GraphOK(g) /\ operation \in CallOperations
    /\ id = CallNodeId(g, Call(operation, tier, task, n)) /\ Has(g, id)
    /\ h = OnCallOutput(g, Call(operation, tier, task, n))
    => Noted(g, h, id, n) /\ StatusOf(h, id) = StatusOf(g, id)
<1> SUFFICES ASSUME NEW g, NEW h, NEW operation \in CallOperations, NEW tier, NEW task, NEW n, NEW id,
                    GraphOK(g), id = CallNodeId(g, Call(operation, tier, task, n)), Has(g, id),
                    h = OnCallOutput(g, Call(operation, tier, task, n))
             PROVE  Noted(g, h, id, n) /\ StatusOf(h, id) = StatusOf(g, id)
  OBVIOUS
<1> DEFINE call == Call(operation, tier, task, n)
<1>1. WithCallNode(g, call) = g
  BY CallNodeExists
<1>2. call.attempt = n
  BY CallFields
<1>3. OnCallOutput(g, call) = Attempt(g, id, n, "kept")
  <2>1. CallNodeId(g, call) = id
    OBVIOUS
  <2> HIDE DEF call
  <2> QED BY <1>1, <1>2, <2>1, Zenon DEF OnCallOutput
<1> QED BY <1>3, AttemptNotes

-----------------------------------------------------------------------------
(* Steps that only draw the run's own nodes *)

EdgesGrow(g, h) ==
  \A e \in EdgesOf(h) : e \in EdgesOf(g) \/ (Has(h, e[1]) /\ Has(h, e[2]) /\ e[3] # "result")

RunDraws(g, h) ==
  /\ Draws(g, h, RunIds)
  /\ EdgesGrow(g, h)
  /\ LocalsKnown(g) => LocalsKnown(h)
  /\ CloudKnown(g) => CloudKnown(h)

LEMMA RunDrawsTrans ==
  \A f, g, h : RunDraws(f, g) /\ RunDraws(g, h) => RunDraws(f, h)
<1> TAKE f, g, h
<1> HAVE RunDraws(f, g) /\ RunDraws(g, h)
<1>1. Draws(f, h, RunIds)
  BY DrawsTrans DEF RunDraws
<1>2. \A i : Has(g, i) => Has(h, i)
  BY DEF RunDraws, Draws
<1>3. EdgesGrow(f, h)
  BY <1>2 DEF RunDraws, EdgesGrow
<1> QED BY <1>1, <1>3 DEF RunDraws

LEMMA RunDrawsNothing == \A g : GraphOK(g) => RunDraws(g, g)
BY DrawsNothing DEF RunDraws, EdgesGrow

\* A run keeps what it knows of its own nodes when it makes none.
LEMMA RunDrawsOne ==
  \A g, h, id :
    /\ id \in RunIds /\ Draws(g, h, {id}) /\ EdgesGrow(g, h)
    /\ Has(g, id) \/ ( /\ id = Triage => KindOf(h, id) = "triage" /\ LaneOf(h, id) = "local"
                       /\ \A i \in 1..Len(LocalTiers) : id = Judge(LocalTiers[i]) =>
                            KindOf(h, id) = "judge" /\ LaneOf(h, id) = LocalTiers[i]
                       /\ id = PlanNode => KindOf(h, id) = "plan"
                       /\ id = AnswerNode => KindOf(h, id) = "answer" /\ LaneOf(h, id) = "cloud")
    => RunDraws(g, h)
<1> TAKE g, h, id
<1> HAVE /\ id \in RunIds /\ Draws(g, h, {id}) /\ EdgesGrow(g, h)
         /\ Has(g, id) \/ ( /\ id = Triage => KindOf(h, id) = "triage" /\ LaneOf(h, id) = "local"
                            /\ \A i \in 1..Len(LocalTiers) : id = Judge(LocalTiers[i]) =>
                                 KindOf(h, id) = "judge" /\ LaneOf(h, id) = LocalTiers[i]
                            /\ id = PlanNode => KindOf(h, id) = "plan"
                            /\ id = AnswerNode => KindOf(h, id) = "answer" /\ LaneOf(h, id) = "cloud")
<1>1. Draws(g, h, RunIds)
  BY DrawsMore
<1>2. \A i : Has(g, i) => KindOf(h, i) = KindOf(g, i) /\ LaneOf(h, i) = LaneOf(g, i)
  BY DEF Draws
<1>3. \A i : Has(h, i) => Has(g, i) \/ i = id
  BY DEF Draws
<1>4. LocalsKnown(g) => LocalsKnown(h)
  BY <1>2, <1>3 DEF LocalsKnown
<1>5. CloudKnown(g) => CloudKnown(h)
  BY <1>2, <1>3 DEF CloudKnown
<1> QED BY <1>1, <1>4, <1>5 DEF RunDraws

LEMMA NotedRun ==
  \A g, h, id, n : id \in RunIds /\ Has(g, id) /\ Noted(g, h, id, n) => RunDraws(g, h)
BY RunDrawsOne DEF Noted, EdgesGrow

\* Node id has another status.
Marked(g, h, id, status) ==
  /\ Draws(g, h, {id})
  /\ EdgesOf(h) = EdgesOf(g)
  /\ OverallOf(h) = OverallOf(g)
  /\ \A i : Has(h, i) <=> Has(g, i)
  /\ StatusOf(h, id) = status
  /\ Tried(h, id) = Tried(g, id)
  /\ \A n \in Tried(g, id) : OutcomeOf(h, id, n) = OutcomeOf(g, id, n)

LEMMA StatusMarks ==
  \A g, h, id, status : GraphOK(g) /\ Has(g, id) /\ h = SetStatus(g, id, status) => Marked(g, h, id, status)
BY StatusDraws DEF Marked

LEMMA MarkedRun ==
  \A g, h, id, status : id \in RunIds /\ Has(g, id) /\ Marked(g, h, id, status) => RunDraws(g, h)
BY RunDrawsOne DEF Marked, EdgesGrow

\* Node id exists, new or not.
Made(g, h, id, kind, lane, round, status) ==
  /\ Draws(g, h, {id})
  /\ EdgesOf(h) = EdgesOf(g)
  /\ \A i : Has(h, i) <=> Has(g, i) \/ i = id
  /\ Has(g, id) => h = g
  /\ ~Has(g, id) => /\ KindOf(h, id) = kind
                    /\ LaneOf(h, id) = lane
                    /\ RoundOf(h, id) = round
                    /\ StatusOf(h, id) = status
                    /\ Tried(h, id) = {}

LEMMA NodeMakes ==
  \A g, h, id, kind, lane, round, status :
    GraphOK(g) /\ h = Node(g, id, kind, lane, round, status) => Made(g, h, id, kind, lane, round, status)
<1> SUFFICES ASSUME NEW g, NEW h, NEW id, NEW kind, NEW lane, NEW round, NEW status,
                    GraphOK(g), h = Node(g, id, kind, lane, round, status)
             PROVE  Made(g, h, id, kind, lane, round, status)
  OBVIOUS
<1>1. /\ Draws(g, h, {id}) /\ EdgesOf(h) = EdgesOf(g) /\ Has(h, id)
      /\ Has(g, id) => h = g
      /\ ~Has(g, id) => /\ KindOf(h, id) = kind /\ LaneOf(h, id) = lane /\ RoundOf(h, id) = round
                        /\ StatusOf(h, id) = status /\ Tried(h, id) = {}
  BY NodeDraws
<1>2. \A i : Has(h, i) <=> Has(g, i) \/ i = id
  BY <1>1 DEF Draws
<1> QED BY <1>1, <1>2 DEF Made

\* Escalation edges into target are new.
Linked(g, h, target) ==
  /\ Draws(g, h, {})
  /\ \A e \in EdgesOf(h) : e \in EdgesOf(g) \/ (Has(g, e[1]) /\ e[2] = target /\ e[3] = "escalated")

LEMMA FiniteMax ==
  ASSUME NEW S, S \subseteq Nat, IsFiniteSet(S), S # {}
  PROVE  Max(S) \in S /\ \A x \in S : x <= Max(S)
<1> DEFINE Bounded(T) == T # {} => \E m \in T : \A x \in T : x <= m
           N == {n \in Nat : \A T \in SUBSET Nat : IsFiniteSet(T) /\ Cardinality(T) = n => Bounded(T)}
<1>1. 0 \in N
  BY FS_EmptySet
<1>2. ASSUME NEW n \in Nat, n \in N PROVE n + 1 \in N
  <2> SUFFICES ASSUME NEW T \in SUBSET Nat, IsFiniteSet(T), Cardinality(T) = n + 1, T # {}
               PROVE  \E m \in T : \A x \in T : x <= m
    OBVIOUS
  <2>1. PICK y \in T : TRUE
    OBVIOUS
  <2>2. IsFiniteSet(T \ {y}) /\ Cardinality(T \ {y}) = n /\ T \ {y} \in SUBSET Nat
    <3>1. IsFiniteSet(T \ {y}) /\ Cardinality(T \ {y}) = Cardinality(T) - 1
      BY <2>1, FS_RemoveElement
    <3> QED BY <3>1
  <2>3. Bounded(T \ {y})
    BY <1>2, <2>2
  <2>4. CASE T \ {y} = {}
    BY <2>1, <2>4
  <2>5. CASE T \ {y} # {}
    <3>1. PICK m \in T \ {y} : \A x \in T \ {y} : x <= m
      BY <2>3, <2>5
    <3>2. CASE y <= m
      BY <3>1, <3>2
    <3>3. CASE ~(y <= m)
      <4>1. y \in Nat /\ m \in Nat /\ m <= y
        BY <3>3
      <4>2. \A x \in T : x \in Nat /\ x <= y
        BY <3>1, <4>1
      <4> QED BY <4>2
    <3> QED BY <3>2, <3>3
  <2> QED BY <2>4, <2>5
<1> HIDE DEF N
<1>3. Cardinality(S) \in Nat
  BY FS_CardinalityType
<1>4. Cardinality(S) \in N
  BY <1>1, <1>2, <1>3, SetInduction
<1>5. \E m \in S : \A x \in S : x <= m
  BY <1>4 DEF N
<1>6. \E m \in S : \A x \in S : m >= x
  BY <1>5
<1>7. Max(S) \in S /\ \A x \in S : Max(S) >= x
  BY <1>6 DEF Max
<1> QED BY <1>7

\* The node whose answer was refused exists.
LEMMA RefusedExists == \A g, id : id \in Refused(g) => Has(g, id)
<1> SUFFICES ASSUME NEW g, NEW id \in Refused(g) PROVE Has(g, id)
  OBVIOUS
<1> DEFINE tried == {i \in 1..Len(LocalTiers) : Has(g, Judge(LocalTiers[i]))}
<1>1. CASE tried # {}
  <2>1. tried \subseteq Nat /\ tried \subseteq 1..Len(LocalTiers) /\ Len(LocalTiers) \in Nat
    BY TierFacts
  <2>2. IsFiniteSet(tried)
    <3>1. IsFiniteSet(1..Len(LocalTiers))
      BY <2>1, FS_Interval
    <3> HIDE DEF tried
    <3> QED BY <2>1, <3>1, FS_Subset
  <2>3. Max(tried) \in tried
    BY <1>1, <2>1, <2>2, FiniteMax
  <2>4. Refused(g) = {Judge(LocalTiers[Max(tried)])}
    BY <1>1, Zenon DEF Refused
  <2> QED BY <2>3, <2>4
<1>2. CASE tried = {}
  <2>1. Refused(g) = {Triage} \cap DOMAIN g.nodes
    BY <1>2, Zenon DEF Refused
  <2> QED BY <2>1 DEF Has
<1> QED BY <1>1, <1>2

LEMMA EdgesDraw ==
  \A g, h, edges : GraphOK(g) /\ h = [g EXCEPT !.edges = edges] => Draws(g, h, {}) /\ EdgesOf(h) = edges
<1> TAKE g, h, edges
<1> HAVE GraphOK(g) /\ h = [g EXCEPT !.edges = edges]
<1>1. /\ h = [status |-> h.status, nodes |-> h.nodes, edges |-> h.edges, taskLane |-> h.taskLane,
              accepted |-> h.accepted]
      /\ h.nodes = g.nodes /\ h.edges = edges /\ h.taskLane = g.taskLane /\ h.accepted = g.accepted
  BY DEF GraphOK
<1>2. GraphOK(h)
  BY <1>1 DEF GraphOK
<1>3. \A i : (Has(h, i) <=> Has(g, i)) /\ Same(g, h, i)
  BY <1>1 DEF Has, Same, KindOf, LaneOf, RoundOf, StatusOf, Tried, OutcomeOf
<1>4. LanesOf(h) = LanesOf(g) /\ AcceptedOf(h) = AcceptedOf(g) /\ EdgesOf(h) = edges
  BY <1>1 DEF LanesOf, AcceptedOf, EdgesOf
<1>5. \A i : KindOf(h, i) = KindOf(g, i) /\ LaneOf(h, i) = LaneOf(g, i) /\ RoundOf(h, i) = RoundOf(g, i)
  BY <1>3 DEF Same
<1> QED BY <1>2, <1>3, <1>4, <1>5 DEF Draws

LEMMA RefusedLinks ==
  \A g, h, before, target :
    GraphOK(g) /\ (\A i : Has(before, i) => Has(g, i)) /\ h = FromRefused(g, before, target) => Linked(g, h, target)
<1> TAKE g, h, before, target
<1> HAVE GraphOK(g) /\ (\A i : Has(before, i) => Has(g, i)) /\ h = FromRefused(g, before, target)
<1> DEFINE new == {<<source, target, "escalated">> : source \in Refused(before)}
<1>1. h = [g EXCEPT !.edges = g.edges \cup new]
  BY DEF FromRefused, GraphOK
<1>2. \A e \in new : Has(g, e[1]) /\ e[2] = target /\ e[3] = "escalated"
  BY RefusedExists
<1> HIDE DEF new
<1>3. Draws(g, h, {}) /\ EdgesOf(h) = g.edges \cup new
  BY <1>1, EdgesDraw
<1>4. \A e \in EdgesOf(h) : e \in g.edges \/ e \in new
  BY <1>3
<1>5. \A e \in EdgesOf(h) : e \in EdgesOf(g) \/ (Has(g, e[1]) /\ e[2] = target /\ e[3] = "escalated")
  BY <1>2, <1>4 DEF EdgesOf
<1> QED BY <1>3, <1>5 DEF Linked

LEMMA RunIdsAre ==
  /\ Triage \in RunIds /\ PlanNode \in RunIds /\ AnswerNode \in RunIds
  /\ Triage \in LocalIds
  /\ \A i \in 1..Len(LocalTiers) : Judge(LocalTiers[i]) \in RunIds /\ Judge(LocalTiers[i]) \in LocalIds
  /\ LocalIds \subseteq RunIds
BY DEF RunIds, LocalIds, JudgeIds

\* New edges that are no results, between nodes that exist.
LEMMA LinkedRun ==
  \A f, g, h, target :
    RunDraws(f, g) /\ Linked(g, h, target) /\ Has(g, target) => RunDraws(f, h) /\ \A i : Has(h, i) <=> Has(g, i)
<1> TAKE f, g, h, target
<1> HAVE RunDraws(f, g) /\ Linked(g, h, target) /\ Has(g, target)
<1>1. \A i : (Has(h, i) <=> Has(g, i)) /\ (Has(g, i) => Same(g, h, i))
  BY DEF Linked, Draws
<1>2. EdgesGrow(g, h)
  BY <1>1 DEF Linked, EdgesGrow
<1>3. Draws(g, h, RunIds)
  BY DrawsMore DEF Linked
<1>4. LocalsKnown(g) => LocalsKnown(h)
  BY <1>1 DEF LocalsKnown, Same
<1>5. CloudKnown(g) => CloudKnown(h)
  BY <1>1 DEF CloudKnown, Same
<1>6. RunDraws(g, h)
  BY <1>2, <1>3, <1>4, <1>5 DEF RunDraws
<1> QED BY <1>1, <1>6, RunDrawsTrans

LEMMA MadeRun ==
  \A g, h, round, status :
    /\ Made(g, h, Triage, "triage", "local", round, status) => RunDraws(g, h)
    /\ Made(g, h, PlanNode, "plan", "cloud", round, status) => RunDraws(g, h)
    /\ Made(g, h, AnswerNode, "answer", "cloud", round, status) => RunDraws(g, h)
    /\ \A i \in 1..Len(LocalTiers) :
         Made(g, h, Judge(LocalTiers[i]), "judge", LocalTiers[i], round, status) => RunDraws(g, h)
<1> TAKE g, h, round, status
<1>0. EdgesOf(h) = EdgesOf(g) => EdgesGrow(g, h)
  BY DEF EdgesGrow
<1>1. Made(g, h, Triage, "triage", "local", round, status) => RunDraws(g, h)
  BY <1>0, RunDrawsOne, RunIdsAre, RunNodesDiffer DEF Made
<1>2. Made(g, h, PlanNode, "plan", "cloud", round, status) => RunDraws(g, h)
  BY <1>0, RunDrawsOne, RunIdsAre, RunNodesDiffer DEF Made
<1>3. Made(g, h, AnswerNode, "answer", "cloud", round, status) => RunDraws(g, h)
  BY <1>0, RunDrawsOne, RunIdsAre, RunNodesDiffer DEF Made
<1>4. ASSUME NEW i \in 1..Len(LocalTiers),
             Made(g, h, Judge(LocalTiers[i]), "judge", LocalTiers[i], round, status)
      PROVE  RunDraws(g, h)
  <2> DEFINE id == Judge(LocalTiers[i])
  <2>1. \A j \in 1..Len(LocalTiers) : id = Judge(LocalTiers[j]) => LocalTiers[i] = LocalTiers[j]
    BY JudgesDiffer
  <2>2. id \in RunIds /\ id # Triage /\ id # PlanNode /\ id # AnswerNode
    BY RunIdsAre, RunNodesDiffer
  <2>3. Made(g, h, id, "judge", LocalTiers[i], round, status)
    BY <1>4
  <2> HIDE DEF id
  <2> QED BY <1>0, <2>1, <2>2, <2>3, RunDrawsOne DEF Made
<1> QED BY <1>1, <1>2, <1>3, <1>4

LEMMA LocalAttemptDrawn ==
  \A g, h : GraphOK(g) /\ h = OnLocalAttempt(g) =>
    /\ RunDraws(g, h)
    /\ Draws(g, h, {Triage})
    /\ Has(h, Triage)
    /\ ~Has(g, Triage) => Tried(h, Triage) = {1}
<1> TAKE g, h
<1> HAVE GraphOK(g) /\ h = OnLocalAttempt(g)
<1> DEFINE f == Node(g, Triage, "triage", "local", 0, "running")
<1>1. Made(g, f, Triage, "triage", "local", 0, "running")
  BY NodeMakes
<1>2. h = Attempt(f, Triage, 1, "kept")
  BY DEF OnLocalAttempt
<1> HIDE DEF f
<1>3. GraphOK(f) /\ Has(f, Triage) /\ Draws(g, f, {Triage}) /\ RunDraws(g, f)
  BY <1>1, MadeRun DEF Made, Draws
<1>4. Noted(f, h, Triage, 1) /\ Has(h, Triage)
  BY <1>2, <1>3, AttemptNotes
<1>5. RunDraws(f, h)
  BY <1>3, <1>4, NotedRun, RunIdsAre
<1>6. Draws(g, h, {Triage})
  BY <1>3, <1>4, DrawsTrans DEF Noted
<1>7. ~Has(g, Triage) => Tried(h, Triage) = {1}
  BY <1>1, <1>4 DEF Made, Noted
<1> QED BY <1>3, <1>4, <1>5, <1>6, <1>7, RunDrawsTrans

LEMMA ExtractFailedDrawn ==
  \A g, h : GraphOK(g) /\ Has(g, Triage) /\ h = OnExtractFailed(g) =>
    RunDraws(g, h) /\ Marked(g, h, Triage, "escalated")
BY StatusMarks, MarkedRun, RunIdsAre DEF OnExtractFailed

LEMMA SkippedDrawn ==
  \A g, h : \A i \in 1..Len(LocalTiers) : GraphOK(g) /\ h = OnLocalSkipped(g, LocalTiers[i]) =>
    RunDraws(g, h) /\ Made(g, h, Judge(LocalTiers[i]), "judge", LocalTiers[i], 0, "skipped")
<1> TAKE g, h
<1> TAKE i \in 1..Len(LocalTiers)
<1> HAVE GraphOK(g) /\ h = OnLocalSkipped(g, LocalTiers[i])
<1>1. h = Node(g, Judge(LocalTiers[i]), "judge", LocalTiers[i], 0, "skipped")
  BY DEF OnLocalSkipped
<1>2. Made(g, h, Judge(LocalTiers[i]), "judge", LocalTiers[i], 0, "skipped")
  BY <1>1, NodeMakes
<1> QED BY <1>2, MadeRun

LEMMA SolveDrawn ==
  \A g, h : \A i \in 1..Len(LocalTiers) : GraphOK(g) /\ h = OnLocalSolve(g, LocalTiers[i]) =>
    /\ RunDraws(g, h)
    /\ Draws(g, h, {Judge(LocalTiers[i])})
    /\ Has(h, Judge(LocalTiers[i]))
    /\ ~Has(g, Judge(LocalTiers[i])) => Tried(h, Judge(LocalTiers[i])) = {}
<1> SUFFICES ASSUME NEW g, NEW h, NEW i \in 1..Len(LocalTiers), GraphOK(g), h = OnLocalSolve(g, LocalTiers[i])
             PROVE  /\ RunDraws(g, h)
                    /\ Draws(g, h, {Judge(LocalTiers[i])})
                    /\ Has(h, Judge(LocalTiers[i]))
                    /\ ~Has(g, Judge(LocalTiers[i])) => Tried(h, Judge(LocalTiers[i])) = {}
  OBVIOUS
<1> DEFINE id == Judge(LocalTiers[i])
           f == Node(g, id, "judge", LocalTiers[i], 0, "running")
<1>1. Made(g, f, id, "judge", LocalTiers[i], 0, "running") /\ h = FromRefused(f, g, id)
  BY NodeMakes DEF OnLocalSolve
<1>2. RunDraws(g, f)
  BY <1>1, MadeRun
<1> HIDE DEF f, id
<1>3. GraphOK(f) /\ Has(f, id) /\ Draws(g, f, {id}) /\ (\A j : Has(g, j) => Has(f, j))
  BY <1>1 DEF Made, Draws
<1>4. Linked(f, h, id)
  BY <1>1, <1>3, RefusedLinks
<1>5. RunDraws(g, h) /\ Has(h, id)
  BY <1>2, <1>3, <1>4, LinkedRun
<1>6. Draws(f, h, {id})
  BY <1>4, DrawsMore DEF Linked
<1>7. Draws(g, h, {id})
  BY <1>3, <1>6, DrawsTrans
<1>8. Tried(h, id) = Tried(f, id)
  BY <1>3, <1>4 DEF Linked, Draws, Same
<1> QED BY <1>1, <1>5, <1>7, <1>8 DEF Made, id

LEMMA SampleDrawn ==
  \A g, h, n, asks : \A i \in 1..Len(LocalTiers) :
    /\ GraphOK(g) /\ Has(g, Judge(LocalTiers[i])) /\ h = OnLocalSample(g, LocalTiers[i], n, asks)
    => /\ RunDraws(g, h)
       /\ Noted(g, h, Judge(LocalTiers[i]), n)
       /\ OutcomeOf(h, Judge(LocalTiers[i]), n) # "running"
<1> TAKE g, h, n, asks
<1> TAKE i \in 1..Len(LocalTiers)
<1> HAVE GraphOK(g) /\ Has(g, Judge(LocalTiers[i])) /\ h = OnLocalSample(g, LocalTiers[i], n, asks)
<1> DEFINE id == Judge(LocalTiers[i])
           outcome == IF asks THEN "failed" ELSE "passed"
<1>1. h = Attempt(g, id, n, outcome) /\ Has(g, id) /\ id \in RunIds
  BY RunIdsAre DEF OnLocalSample
<1>2. outcome # "kept" /\ outcome # "running"
  OBVIOUS
<1> HIDE DEF id, outcome
<1>3. Noted(g, h, id, n) /\ OutcomeOf(h, id, n) = outcome
  BY <1>1, <1>2, AttemptNotes
<1>4. RunDraws(g, h)
  BY <1>1, <1>3, NotedRun
<1> QED BY <1>2, <1>3, <1>4 DEF id

LEMMA CritiqueDrawn ==
  \A g, h, n : \A i \in 1..Len(LocalTiers) :
    /\ GraphOK(g) /\ Has(g, Judge(LocalTiers[i])) /\ h = OnLocalCritique(g, LocalTiers[i], n)
    => RunDraws(g, h) /\ Noted(g, h, Judge(LocalTiers[i]), n + 1)
<1> TAKE g, h, n
<1> TAKE i \in 1..Len(LocalTiers)
<1> HAVE GraphOK(g) /\ Has(g, Judge(LocalTiers[i])) /\ h = OnLocalCritique(g, LocalTiers[i], n)
<1> DEFINE m == n + 1
<1>1. h = Attempt(g, Judge(LocalTiers[i]), m, "kept")
  BY DEF OnLocalCritique
<1> HIDE DEF m
<1>2. Noted(g, h, Judge(LocalTiers[i]), m)
  BY <1>1, AttemptNotes
<1>3. RunDraws(g, h)
  BY <1>2, NotedRun, RunIdsAre
<1> QED BY <1>2, <1>3 DEF m

\* The verdict is drawn on node id, with the critique as its attempt k.
VerdictGiven(g, h, escalate, critique, id, k) ==
  /\ RunDraws(g, h)
  /\ Draws(g, h, {id})
  /\ \A j : Has(h, j) <=> Has(g, j)
  /\ StatusOf(h, id) = IF escalate THEN "escalated" ELSE "passed"
  /\ \A m \in Tried(h, id) : OutcomeOf(h, id, m) = "running" =>
       /\ m \in Tried(g, id) /\ OutcomeOf(g, id, m) = "running"
       /\ critique # "skipped" => m # k

LEMMA VerdictDrawn ==
  \A g, h, n, escalate, critique, id, k : \A i \in 1..Len(LocalTiers) :
    /\ id = Judge(LocalTiers[i]) /\ k = n + 1
    /\ GraphOK(g) /\ Has(g, id) /\ critique \in {"skipped", "passed", "failed"}
    /\ h = OnLocalVerdict(g, LocalTiers[i], n, escalate, critique)
    => VerdictGiven(g, h, escalate, critique, id, k)
<1> TAKE g, h, n, escalate, critique, id, k
<1> TAKE i \in 1..Len(LocalTiers)
<1> HAVE /\ id = Judge(LocalTiers[i]) /\ k = n + 1
         /\ GraphOK(g) /\ Has(g, id) /\ critique \in {"skipped", "passed", "failed"}
         /\ h = OnLocalVerdict(g, LocalTiers[i], n, escalate, critique)
<1> DEFINE status == IF escalate THEN "escalated" ELSE "passed"
           f == SetStatus(g, id, status)
<1>0. id \in RunIds
  BY RunIdsAre
<1>1. h = IF critique = "skipped" THEN f ELSE Attempt(f, id, k, critique)
  BY Zenon DEF OnLocalVerdict
<1> HIDE DEF status
<1>2. Marked(g, f, id, status)
  BY StatusMarks
<1> HIDE DEF f
<1>3. RunDraws(g, f) /\ GraphOK(f) /\ Has(f, id)
  BY <1>0, <1>2, MarkedRun DEF Marked, Draws
<1>4. CASE critique = "skipped"
  <2>1. h = f
    BY <1>1, <1>4
  <2> QED BY <1>2, <1>3, <1>4, <2>1 DEF Marked, status, VerdictGiven
<1>5. CASE critique # "skipped"
  <2>1. h = Attempt(f, id, k, critique) /\ critique # "kept" /\ critique # "running"
    BY <1>1, <1>5
  <2>2. Noted(f, h, id, k) /\ StatusOf(h, id) = StatusOf(f, id) /\ OutcomeOf(h, id, k) = critique
    BY <1>3, <2>1, AttemptNotes
  <2>3. RunDraws(f, h) /\ Draws(g, h, {id})
    <3>1. RunDraws(f, h)
      BY <1>0, <1>3, <2>2, NotedRun
    <3>2. Draws(g, f, {id}) /\ Draws(f, h, {id})
      BY <1>2, <2>2 DEF Noted, Marked
    <3> QED BY <3>1, <3>2, DrawsTrans
  <2>4. RunDraws(g, h)
    BY <1>3, <2>3, RunDrawsTrans
  <2>5. \A j : Has(h, j) <=> Has(g, j)
    BY <1>2, <2>2 DEF Marked, Noted
  <2>6. ASSUME NEW m \in Tried(h, id), OutcomeOf(h, id, m) = "running"
        PROVE  m \in Tried(g, id) /\ OutcomeOf(g, id, m) = "running" /\ m # k
    BY <1>2, <2>1, <2>2, <2>6 DEF Marked, Noted
  <2> QED BY <1>2, <2>2, <2>3, <2>4, <2>5, <2>6 DEF Marked, status, VerdictGiven
<1> QED BY <1>4, <1>5

LEMMA AcceptedDrawn ==
  \A g, h, tier : GraphOK(g) /\ h = OnLocalAccepted(g, tier) =>
    /\ Has(g, Judge(tier)) => Marked(g, h, Judge(tier), "passed")
    /\ ~Has(g, Judge(tier)) /\ Has(g, Triage) => RunDraws(g, h) /\ Marked(g, h, Triage, "answered")
BY StatusMarks, MarkedRun, RunIdsAre DEF OnLocalAccepted

\* The cloud's nodes.
LEMMA PlanNodeMakes ==
  \A g, h : GraphOK(g) /\ h = WithPlanNode(g) => RunDraws(g, h) /\ Made(g, h, PlanNode, "plan", "cloud", 0, "queued")
<1> TAKE g, h
<1> HAVE GraphOK(g) /\ h = WithPlanNode(g)
<1>1. Made(g, h, PlanNode, "plan", "cloud", 0, "queued")
  BY NodeMakes DEF WithPlanNode
<1> QED BY <1>1, MadeRun

LEMMA AnswerNodeMakes ==
  \A g, h, direct : GraphOK(g) /\ h = WithAnswerNode(g, direct) =>
    /\ RunDraws(g, h)
    /\ Made(g, h, AnswerNode, "answer", "cloud", LastRound(g) + (IF direct THEN 0 ELSE 1), "queued")
<1> TAKE g, h, direct
<1> HAVE GraphOK(g) /\ h = WithAnswerNode(g, direct)
<1> DEFINE round == LastRound(g) + (IF direct THEN 0 ELSE 1)
<1>1. h = Node(g, AnswerNode, "answer", "cloud", round, "queued")
  BY Zenon DEF WithAnswerNode
<1> HIDE DEF round
<1>2. Made(g, h, AnswerNode, "answer", "cloud", round, "queued")
  BY <1>1, NodeMakes
<1>3. RunDraws(g, h)
  BY <1>2, MadeRun
<1> QED BY <1>2, <1>3 DEF round

\* The node of the cloud call is made and all of its attempts, if any, are over.
CloudMade(g, h, id) ==
  /\ RunDraws(g, h)
  /\ Draws(g, h, {id})
  /\ Has(h, id)
  /\ Has(g, id) \/ Tried(h, id) = {}
  /\ Has(g, id) => /\ Tried(h, id) = Tried(g, id)
                   /\ \A n \in Tried(g, id) : OutcomeOf(h, id, n) = OutcomeOf(g, id, n)

LEMMA EscalatedDrawn ==
  \A g, h, direct : direct \in BOOLEAN /\ GraphOK(g) /\ h = OnEscalated(g, direct) =>
    CloudMade(g, h, IF direct THEN AnswerNode ELSE PlanNode)
<1> SUFFICES ASSUME NEW g, NEW h, NEW direct \in BOOLEAN, GraphOK(g), h = OnEscalated(g, direct)
             PROVE  CloudMade(g, h, IF direct THEN AnswerNode ELSE PlanNode)
  OBVIOUS
<1> DEFINE id == IF direct THEN AnswerNode ELSE PlanNode
           e == IF direct THEN WithAnswerNode(g, TRUE) ELSE WithPlanNode(g)
           f == SetStatus(e, id, "running")
<1>1. h = FromRefused(f, g, id)
  BY Zenon DEF OnEscalated
<1>2. /\ RunDraws(g, e) /\ Draws(g, e, {id}) /\ (\A i : Has(e, i) <=> Has(g, i) \/ i = id)
      /\ Has(g, id) => e = g
      /\ ~Has(g, id) => Tried(e, id) = {}
  <2>1. CASE direct
    <3>1. id = AnswerNode /\ e = WithAnswerNode(g, TRUE)
      BY <2>1
    <3> HIDE DEF id, e
    <3> QED BY <3>1, AnswerNodeMakes DEF Made
  <2>2. CASE ~direct
    <3>1. id = PlanNode /\ e = WithPlanNode(g)
      BY <2>2
    <3> HIDE DEF id, e
    <3> QED BY <3>1, PlanNodeMakes DEF Made
  <2> QED BY <2>1, <2>2
<1>3. id \in RunIds
  BY RunIdsAre
<1> HIDE DEF id, e
<1>4. GraphOK(e) /\ Has(e, id)
  BY <1>2 DEF Draws
<1>5. Marked(e, f, id, "running")
  BY <1>4, StatusMarks
<1> HIDE DEF f
<1>6. RunDraws(e, f) /\ GraphOK(f) /\ Has(f, id) /\ Draws(e, f, {id})
  BY <1>3, <1>4, <1>5, MarkedRun DEF Marked, Draws
<1>7. RunDraws(g, f) /\ Draws(g, f, {id})
  BY <1>2, <1>6, RunDrawsTrans, DrawsTrans
<1>8. \A i : Has(g, i) => Has(f, i)
  BY <1>7 DEF Draws
<1>9. Linked(f, h, id)
  BY <1>1, <1>6, <1>8, RefusedLinks
<1>10. RunDraws(g, h) /\ Has(h, id)
  BY <1>6, <1>7, <1>9, LinkedRun
<1>11. Draws(f, h, {id})
  BY <1>9, DrawsMore DEF Linked
<1>12. Draws(g, h, {id})
  BY <1>7, <1>11, DrawsTrans
<1>13. Same(f, h, id)
  BY <1>6, <1>9 DEF Linked, Draws
<1>14. Tried(h, id) = Tried(e, id) /\ \A n \in Tried(e, id) : OutcomeOf(h, id, n) = OutcomeOf(e, id, n)
  BY <1>5, <1>13 DEF Marked, Same
<1>15. CloudMade(g, h, id)
  BY <1>2, <1>10, <1>12, <1>14 DEF CloudMade
<1> QED BY <1>15 DEF id

LEMMA AnsweringDrawn ==
  \A g, h : GraphOK(g) /\ h = OnAnswering(g) => CloudMade(g, h, AnswerNode)
<1> TAKE g, h
<1> HAVE GraphOK(g) /\ h = OnAnswering(g)
<1> DEFINE e == WithAnswerNode(g, TRUE)
<1>1. h = SetStatus(e, AnswerNode, "running")
  BY DEF OnAnswering
<1>2. /\ RunDraws(g, e) /\ Draws(g, e, {AnswerNode}) /\ Has(e, AnswerNode)
      /\ Has(g, AnswerNode) => e = g
      /\ ~Has(g, AnswerNode) => Tried(e, AnswerNode) = {}
  BY AnswerNodeMakes DEF Made
<1> HIDE DEF e
<1>3. GraphOK(e)
  BY <1>2 DEF Draws
<1>4. Marked(e, h, AnswerNode, "running")
  BY <1>1, <1>2, <1>3, StatusMarks
<1>5. RunDraws(e, h) /\ Has(h, AnswerNode) /\ Draws(e, h, {AnswerNode})
  BY <1>2, <1>4, MarkedRun, RunIdsAre DEF Marked
<1>6. RunDraws(g, h) /\ Draws(g, h, {AnswerNode})
  BY <1>2, <1>5, RunDrawsTrans, DrawsTrans
<1> QED BY <1>2, <1>4, <1>5, <1>6 DEF CloudMade, Marked

LEMMA PlanInvalidDrawn ==
  \A g, h, n : GraphOK(g) /\ Has(g, PlanNode) /\ h = OnPlanInvalid(g, n) =>
    RunDraws(g, h) /\ Noted(g, h, PlanNode, n) /\ OutcomeOf(h, PlanNode, n) = "failed"
<1> TAKE g, h, n
<1> HAVE GraphOK(g) /\ Has(g, PlanNode) /\ h = OnPlanInvalid(g, n)
<1>1. WithPlanNode(g) = g
  BY DEF WithPlanNode, Node
<1>2. h = Attempt(g, PlanNode, n, "failed")
  BY <1>1 DEF OnPlanInvalid
<1>3. Noted(g, h, PlanNode, n) /\ OutcomeOf(h, PlanNode, n) = "failed"
  BY <1>2, AttemptNotes
<1> QED BY <1>3, NotedRun, RunIdsAre

-----------------------------------------------------------------------------
(* What stays true of the tasks when other nodes are drawn *)

LEMMA JobKept ==
  \A g, h, ids, p, t, s, k :
    Draws(g, h, ids) /\ (\A id \in TaskIds(t) : id \notin ids)
    => /\ JobDrawn(g, p, t, s, k) => JobDrawn(h, p, t, s, k)
       /\ Undrawn(g, t) => Undrawn(h, t)
<1> SUFFICES ASSUME NEW g, NEW h, NEW ids, NEW p, NEW t, NEW s, NEW k,
                    Draws(g, h, ids), \A id \in TaskIds(t) : id \notin ids
             PROVE  /\ JobDrawn(g, p, t, s, k) => JobDrawn(h, p, t, s, k)
                    /\ Undrawn(g, t) => Undrawn(h, t)
  OBVIOUS
<1>1. /\ \A id \in TaskIds(t) : (Has(h, id) <=> Has(g, id)) /\ (Has(g, id) => Same(g, h, id))
      /\ LanesOf(h) = LanesOf(g) /\ AcceptedOf(h) = AcceptedOf(g)
  BY DEF Draws
<1>2. \A n, m : JobAttempts(g, p, t, n, m) => JobAttempts(h, p, t, n, m)
  BY <1>1 DEF JobAttempts, Same
<1>3. \A m : JobLeft(g, p, t, m) => JobLeft(h, p, t, m)
  BY <1>1 DEF JobLeft, Same
<1>4. \A m : JobAccepted(g, p, t, m) => JobAccepted(h, p, t, m)
  BY <1>1 DEF JobAccepted, Same
<1>5. JobDrawn(g, p, t, s, k) => JobDrawn(h, p, t, s, k)
  BY <1>1, <1>2, <1>3, <1>4 DEF JobDrawn
<1>6. Undrawn(g, t) => Undrawn(h, t)
  BY <1>1, TaskPlaces DEF Undrawn, Same
<1> QED BY <1>5, <1>6

\* The graph keeps its shape when the run's own nodes are drawn.
LEMMA ShapeRun ==
  \A g, h, p :
    OrdinaryNames /\ p.ids \subseteq Tasks /\ Shape(g, p) /\ RunDraws(g, h) => Shape(h, p)
<1> SUFFICES ASSUME OrdinaryNames, NEW g, NEW h, NEW p, p.ids \subseteq Tasks, Shape(g, p), RunDraws(g, h)
             PROVE  Shape(h, p)
  OBVIOUS
<1>1. /\ GraphOK(h)
      /\ \A i : i \notin RunIds => (Has(h, i) <=> Has(g, i)) /\ (Has(g, i) => Same(g, h, i))
      /\ \A i : Has(g, i) => Has(h, i) /\ RoundOf(h, i) = RoundOf(g, i)
      /\ LanesOf(h) = LanesOf(g) /\ AcceptedOf(h) = AcceptedOf(g)
  BY DEF RunDraws, Draws
<1>2. LocalsKnown(h) /\ CloudKnown(h)
  BY DEF RunDraws, Shape
<1>3. NodesKnown(h, p)
  BY <1>1 DEF Shape, NodesKnown
<1>4. \A t \in p.ids : \A id \in TaskIds(t) : (Has(h, id) <=> Has(g, id)) /\ (Has(g, id) => Same(g, h, id))
  BY <1>1, TasksAreNoRunNodes
<1>5. TasksKnown(h, p)
  <2> SUFFICES ASSUME NEW t \in p.ids PROVE TaskKnown(h, p, t)
    BY DEF TasksKnown
  <2>1. TaskKnown(g, p, t)
    BY DEF Shape, TasksKnown
  <2>2. Has(h, <<t>>) => Has(g, <<t>>) /\ Same(g, h, <<t>>)
    BY <1>4, TaskPlaces
  <2>3. \A tier \in TierNames : Has(h, Retry(t, tier)) => Has(g, Retry(t, tier)) /\ Same(g, h, Retry(t, tier))
    BY <1>4, TaskPlaces
  <2> QED BY <2>1, <2>2, <2>3 DEF TaskKnown, Same
<1>6. EdgesKnown(h, p)
  <2> SUFFICES ASSUME NEW e \in EdgesOf(h) PROVE EdgeKnown(h, p, e)
    BY DEF EdgesKnown
  <2>1. CASE e \in EdgesOf(g)
    <3>1. EdgeKnown(g, p, e)
      BY <2>1 DEF Shape, EdgesKnown
    <3>2. ToAnswer(g, p, e) => ToAnswer(h, p, e)
      BY <1>1, <3>1 DEF ToAnswer, EdgeKnown
    <3> QED BY <1>1, <3>1, <3>2 DEF EdgeKnown
  <2>2. CASE Has(h, e[1]) /\ Has(h, e[2]) /\ e[3] # "result"
    BY <2>2 DEF EdgeKnown
  <2> QED BY <2>1, <2>2 DEF RunDraws, EdgesGrow
<1>7. LanesKnown(h, p) /\ AcceptedKnown(h, p)
  BY <1>1 DEF Shape, LanesKnown, AcceptedKnown
<1> QED BY <1>1, <1>2, <1>3, <1>5, <1>6, <1>7 DEF Shape

\* So do the tasks.
LEMMA JobsRun ==
  ASSUME OrdinaryNames, plan.ids \subseteq Tasks
  PROVE  \A g, h : JobsDrawn(g) /\ RunDraws(g, h) => JobsDrawn(h)
<1> TAKE g, h
<1> HAVE JobsDrawn(g) /\ RunDraws(g, h)
<1>1. Draws(g, h, RunIds) /\ AcceptedOf(h) = AcceptedOf(g)
  BY DEF RunDraws, Draws
<1>2. \A t \in Tasks : \A id \in TaskIds(t) : id \notin RunIds
  BY TasksAreNoRunNodes
<1>3. \A t \in Tasks : JobDrawn(h, plan, t, pc[t], attempt[t])
  BY <1>1, <1>2, JobKept DEF JobsDrawn
<1>4. main \in TaskStates => \A t \in plan.ids : pc[t] = "idle" => Undrawn(h, t)
  BY <1>1, <1>2, JobKept DEF JobsDrawn
<1> QED BY <1>1, <1>3, <1>4 DEF JobsDrawn

-----------------------------------------------------------------------------
(* Rounds *)

\* f gives every task of D its round.
Rounds(f, D, deps) == f = [t \in D |-> 1 + Max({f[d] : d \in deps[t]} \cup {0})]

Closed(D, deps) == \A t \in D : deps[t] \subseteq D

LEMMA RoundsFinite ==
  ASSUME NEW f, NEW D, IsFiniteSet(D), NEW E, E \subseteq D, \A d \in D : f[d] \in Nat
  PROVE  /\ Max({f[d] : d \in E} \cup {0}) \in Nat
         /\ \A d \in E : f[d] <= Max({f[d2] : d2 \in E} \cup {0})
<1> DEFINE S == {f[d] : d \in E}
<1>1. IsFiniteSet(E)
  BY FS_Subset
<1>2. IsFiniteSet(S)
  <2> DEFINE g == [d \in E |-> f[d]]
  <2>1. g \in Surjection(E, S)
    BY DEF Surjection
  <2> QED BY <1>1, <2>1, FS_Surjection DEF ExistsSurjection
<1>3. IsFiniteSet(S \cup {0}) /\ S \subseteq Nat
  BY <1>2, FS_AddElement
<1>4. \A d \in E : f[d] \in S
  OBVIOUS
<1> DEFINE T == S \cup {0}
<1>5. IsFiniteSet(T) /\ T \subseteq Nat /\ T # {} /\ \A d \in E : f[d] \in T
  BY <1>3, <1>4
<1> HIDE DEF T
<1>6. Max(T) \in T /\ \A x \in T : x <= Max(T)
  BY <1>5, FiniteMax
<1>7. Max(T) \in Nat /\ \A d \in E : f[d] <= Max(T)
  BY <1>5, <1>6
<1> QED BY <1>7 DEF T, S

\* One task more, whose dependencies have their rounds.
LEMMA RoundsExtend ==
  ASSUME NEW f, NEW D, NEW deps, NEW t, t \notin D, Closed(D, deps), deps[t] \subseteq D, Rounds(f, D, deps)
  PROVE  \E h : Rounds(h, D \cup {t}, deps)
<1> DEFINE m(s) == 1 + Max({f[d] : d \in deps[s]} \cup {0})
           h == [s \in D \cup {t} |-> IF s = t THEN m(t) ELSE f[s]]
<1>1. \A s \in D : f[s] = m(s)
  BY Zenon DEF Rounds
<1>2. ASSUME NEW s \in D \cup {t} PROVE h[s] = 1 + Max({h[d] : d \in deps[s]} \cup {0})
  <2>1. deps[s] \subseteq D
    BY DEF Closed
  <2>2. \A d \in deps[s] : h[d] = f[d]
    BY <2>1
  <2> HIDE DEF h
  <2>3. {h[d] : d \in deps[s]} = {f[d] : d \in deps[s]}
    BY <2>2
  <2>4. 1 + Max({h[d] : d \in deps[s]} \cup {0}) = m(s)
    BY <2>3, Zenon
  <2>5. h[s] = m(s)
    <3> HIDE DEF m
    <3> QED BY <1>1 DEF h
  <2> QED BY <2>4, <2>5, Zenon
<1>3. h = [s \in D \cup {t} |-> 1 + Max({h[d] : d \in deps[s]} \cup {0})]
  <2> DEFINE rhs(s) == 1 + Max({h[d] : d \in deps[s]} \cup {0})
  <2>1. \A s \in D \cup {t} : h[s] = rhs(s)
    BY <1>2
  <2>2. h = [s \in D \cup {t} |-> h[s]]
    <3> HIDE DEF m
    <3> QED OBVIOUS
  <2> HIDE DEF h, rhs
  <2>3. h = [s \in D \cup {t} |-> rhs(s)]
    BY <2>1, <2>2
  <2> QED BY <2>3, Zenon DEF rhs
<1>4. Rounds(h, D \cup {t}, deps)
  BY <1>3, Zenon DEF Rounds
<1> HIDE DEF h
<1> QED BY <1>4

LEMMA RoundsExist ==
  ASSUME NEW ids, NEW deps, IsFiniteSet(ids), \A t \in ids : deps[t] \subseteq ids, Acyclic(ids, deps)
  PROVE  \E f : Rounds(f, ids, deps)
<1> DEFINE Reaches(n) == \E D \in SUBSET ids : /\ IsFiniteSet(D) /\ Closed(D, deps)
                                               /\ D = ids \/ Cardinality(D) >= n
                                               /\ \E f : Rounds(f, D, deps)
           N == {n \in Nat : Reaches(n)}
<1>1. 0 \in N
  <2>1. Rounds([t \in {} |-> 0], {}, deps)
    BY DEF Rounds
  <2>2. IsFiniteSet({}) /\ Cardinality({}) = 0 /\ Closed({}, deps)
    BY FS_EmptySet DEF Closed
  <2> QED BY <2>1, <2>2
<1>2. ASSUME NEW n \in Nat, n \in N PROVE n + 1 \in N
  <2>1. PICK D \in SUBSET ids : /\ IsFiniteSet(D) /\ Closed(D, deps)
                                /\ D = ids \/ Cardinality(D) >= n
                                /\ \E f : Rounds(f, D, deps)
    BY <1>2
  <2>2. CASE D = ids
    BY <2>1, <2>2
  <2>3. CASE D # ids
    <3>1. PICK t \in ids \ D : deps[t] \cap (ids \ D) = {}
      BY <2>3 DEF Acyclic
    <3>2. deps[t] \subseteq D
      BY <3>1
    <3>3. \E h : Rounds(h, D \cup {t}, deps)
      BY <2>1, <3>1, <3>2, RoundsExtend
    <3>4. Closed(D \cup {t}, deps) /\ D \cup {t} \in SUBSET ids
      BY <2>1, <3>1, <3>2 DEF Closed
    <3>5. IsFiniteSet(D \cup {t}) /\ Cardinality(D \cup {t}) = Cardinality(D) + 1 /\ Cardinality(D) \in Nat
      BY <2>1, <3>1, FS_AddElement, FS_CardinalityType
    <3>6. Cardinality(D \cup {t}) >= n + 1
      BY <2>1, <2>3, <3>5
    <3> QED BY <3>3, <3>4, <3>5, <3>6
  <2> QED BY <2>2, <2>3
<1>3. Cardinality(ids) \in Nat /\ Cardinality(ids) + 1 \in Nat
  BY FS_CardinalityType
<1>4. Reaches(Cardinality(ids) + 1)
  <2> HIDE DEF Reaches
  <2> QED BY <1>1, <1>2, <1>3, SetInduction
<1>5. PICK D \in SUBSET ids : /\ D = ids \/ Cardinality(D) >= Cardinality(ids) + 1
                              /\ \E f : Rounds(f, D, deps)
  BY <1>4
<1>6. Cardinality(D) <= Cardinality(ids) /\ Cardinality(D) \in Nat
  BY FS_Subset, FS_CardinalityType
<1>7. D = ids
  BY <1>3, <1>5, <1>6
<1> QED BY <1>5, <1>7

\* A task is drawn after the tasks it depends on.
LEMMA DepthFacts ==
  ASSUME NEW p \in PlanType, Accepts(p)
  PROVE  \A t \in p.ids : /\ DepthOf(p, t) \in Nat
                          /\ \A d \in p.deps[t] : d \in p.ids /\ DepthOf(p, d) < DepthOf(p, t)
<1> DEFINE f == CHOOSE h : Rounds(h, p.ids, p.deps)
<1>1. IsFiniteSet(p.ids)
  BY TasksAssumption, FS_Subset DEF PlanType
<1>2. (\A t \in p.ids : p.deps[t] \subseteq p.ids) /\ Acyclic(p.ids, p.deps)
  BY DEF Accepts
<1>3. Rounds(f, p.ids, p.deps)
  BY <1>1, <1>2, RoundsExist
<1>4. Depth(p) = f
  BY Zenon DEF Depth, Rounds
<1> HIDE DEF f
<1>5. \A t \in p.ids : f[t] = 1 + Max({f[d] : d \in p.deps[t]} \cup {0})
  BY <1>3, Zenon DEF Rounds
<1>6. \A t \in p.ids : f[t] \in Nat
  <2> DEFINE B == {t \in p.ids : f[t] \notin Nat}
  <2> SUFFICES ASSUME B # {} PROVE FALSE
    OBVIOUS
  <2>1. PICK t \in B : p.deps[t] \cap B = {}
    BY <1>2 DEF Acyclic
  <2>2. \A d \in p.deps[t] : f[d] \in Nat
    BY <1>2, <2>1
  <2>3. IsFiniteSet(p.deps[t])
    BY <1>1, <1>2, <2>1, FS_Subset
  <2>4. Max({f[d] : d \in p.deps[t]} \cup {0}) \in Nat
    BY <2>2, <2>3, RoundsFinite
  <2>5. f[t] = 1 + Max({f[d] : d \in p.deps[t]} \cup {0})
    BY <1>5, <2>1
  <2>6. f[t] \in Nat
    BY <2>4, <2>5
  <2> QED BY <2>1, <2>6
<1>7. ASSUME NEW t \in p.ids, NEW d \in p.deps[t] PROVE d \in p.ids /\ f[d] < f[t]
  <2>1. d \in p.ids /\ p.deps[t] \subseteq p.ids /\ f[d] \in Nat
    BY <1>2, <1>6, <1>7
  <2> DEFINE m == Max({f[e] : e \in p.deps[t]} \cup {0})
  <2>2. m \in Nat /\ \A e \in p.deps[t] : f[e] <= m
    BY <1>1, <1>6, <2>1, RoundsFinite
  <2>3. f[t] = 1 + m
    BY <1>5, <1>7
  <2> HIDE DEF m
  <2>4. f[d] <= m
    BY <1>7, <2>2
  <2> QED BY <2>1, <2>2, <2>3, <2>4
<1> QED BY <1>4, <1>6, <1>7 DEF DepthOf

\* No subtask is drawn after the last round.
LEMMA LastRoundIs ==
  ASSUME NEW p \in PlanType, Accepts(p), NEW g, Shape(g, p)
  PROVE  /\ LastRound(g) \in Nat
         /\ \A t \in p.ids : Has(g, <<t>>) => DepthOf(p, t) <= LastRound(g)
<1> DEFINE ns == NodesOfKind(g, {"task", "retry"})
           S == {g.nodes[id].round : id \in ns} \cup {0}
           R == {DepthOf(p, t) : t \in p.ids}
<1>1. \A id \in ns : \E t \in p.ids : g.nodes[id].round = DepthOf(p, t)
  <2> SUFFICES ASSUME NEW id \in ns PROVE \E t \in p.ids : RoundOf(g, id) = DepthOf(p, t)
    BY DEF RoundOf
  <2>1. Has(g, id) /\ KindOf(g, id) \in {"task", "retry"}
    BY DEF NodesOfKind, Has, KindOf
  <2>2. id \notin RunIds
    BY <2>1 DEF Shape, LocalsKnown, CloudKnown, RunIds, LocalIds, JudgeIds
  <2>3. PICK t \in p.ids : id \in TaskIds(t)
    BY <2>1, <2>2 DEF Shape, NodesKnown
  <2>4. TaskKnown(g, p, t)
    BY DEF Shape, TasksKnown
  <2>5. RoundOf(g, id) = DepthOf(p, t)
    BY <2>1, <2>3, <2>4 DEF TaskKnown, TaskIds
  <2> QED BY <2>5
<1>2. S \subseteq R \cup {0}
  BY <1>1
<1>3. IsFiniteSet(R \cup {0})
  <2> DEFINE f == [t \in p.ids |-> DepthOf(p, t)]
  <2>1. f \in Surjection(p.ids, R)
    BY DEF Surjection
  <2>2. IsFiniteSet(p.ids)
    BY TasksAssumption, FS_Subset DEF PlanType
  <2>3. IsFiniteSet(R)
    BY <2>1, <2>2, FS_Surjection
  <2> QED BY <2>3, FS_AddElement
<1>4. R \cup {0} \subseteq Nat
  BY DepthFacts
<1>5. ASSUME NEW t \in p.ids, Has(g, <<t>>) PROVE DepthOf(p, t) \in S
  <2>1. KindOf(g, <<t>>) = "task" /\ RoundOf(g, <<t>>) = DepthOf(p, t)
    BY <1>5 DEF Shape, TasksKnown, TaskKnown
  <2>2. <<t>> \in ns
    BY <1>5, <2>1 DEF NodesOfKind, Has, KindOf
  <2>3. g.nodes[<<t>>].round = DepthOf(p, t)
    BY <2>1 DEF RoundOf
  <2> HIDE DEF ns
  <2> QED BY <2>2, <2>3
<1>6. LastRound(g) = Max(S)
  BY Zenon DEF LastRound
<1>7. 0 \in S
  OBVIOUS
<1> HIDE DEF S, R
<1>8. IsFiniteSet(S) /\ S \subseteq Nat /\ S # {}
  BY <1>2, <1>3, <1>4, <1>7, FS_Subset
<1>9. Max(S) \in S /\ \A x \in S : x <= Max(S)
  BY <1>8, FiniteMax
<1> QED BY <1>5, <1>6, <1>8, <1>9

-----------------------------------------------------------------------------
(* plan_created *)

\* The planner hands a task of p over.
Handed(p, e) == e[1] = PlanNode /\ e[3] # "result" /\ \E t \in p.ids : e[2] = <<t>>

\* The tasks of p are drawn and nothing else but the planner's status changes.
Planned(g, h, p) ==
  /\ GraphOK(h)
  /\ \A i : Has(h, i) <=> Has(g, i) \/ \E t \in p.ids : i = <<t>>
  /\ \A i : Has(g, i) /\ i # PlanNode => Same(g, h, i)
  /\ KindOf(h, PlanNode) = KindOf(g, PlanNode) /\ StatusOf(h, PlanNode) = "passed"
  /\ Tried(h, PlanNode) = Tried(g, PlanNode)
  /\ \A n \in Tried(g, PlanNode) : OutcomeOf(h, PlanNode, n) = OutcomeOf(g, PlanNode, n)
  /\ \A t \in p.ids : /\ KindOf(h, <<t>>) = "task"
                      /\ LaneOf(h, <<t>>) = p.tier[t]
                      /\ RoundOf(h, <<t>>) = DepthOf(p, t)
                      /\ Tried(h, <<t>>) = {}
  /\ LanesOf(h) = [t \in p.ids |-> p.tier[t]]
  /\ AcceptedOf(h) = AcceptedOf(g)
  /\ \A e \in EdgesOf(h) : \/ e \in EdgesOf(g)
                           \/ Handed(p, e)
                           \/ ToTask(p, e)

LEMMA PlanCreatedDrawn ==
  ASSUME NEW g, NEW h, NEW p, GraphOK(g), Has(g, PlanNode), \A t \in p.ids : ~Has(g, <<t>>),
         h = OnPlanCreated(g, p)
  PROVE  Planned(g, h, p)
<1> DEFINE f == SetStatus(g, PlanNode, "passed")
           node(t) == [kind |-> "task", lane |-> p.tier[t], round |-> Depth(p)[t], status |-> "queued",
                       dependsOn |-> p.deps[t], attempts |-> <<>>]
           handed(t) == IF p.tier[t] = "cloud" THEN "assigned" ELSE "delegated"
           ids == {<<t>> : t \in p.ids}
           ns == [id \in DOMAIN f.nodes \cup ids |-> IF id \in DOMAIN f.nodes THEN f.nodes[id] ELSE node(id[1])]
           given == {<<PlanNode, <<t>>, handed(t)>> : t \in p.ids}
           needs == UNION {{<<<<d>>, <<t>>, "result">> : d \in p.deps[t]} : t \in p.ids}
           lanes == [t \in p.ids |-> p.tier[t]]
           es == f.edges \cup given \cup needs
<1>1. WithPlanNode(g) = g
  BY DEF WithPlanNode, Node
<1>2. Marked(g, f, PlanNode, "passed") /\ GraphOK(f)
  BY StatusMarks DEF Marked, Draws
<1>3. h = [f EXCEPT !.taskLane = lanes, !.nodes = ns, !.edges = es]
  <2> HIDE DEF f
  <2> QED BY <1>1, Zenon DEF OnPlanCreated, f
<1>4. \A e \in given : Handed(p, e)
  BY DEF Handed
<1>5. \A e \in needs : ToTask(p, e)
  BY DEF ToTask
<1>6. \A t \in p.ids : <<t>> \in ids /\ <<t>>[1] = t
  OBVIOUS
<1>7. \A id \in ids : \E t \in p.ids : id = <<t>>
  OBVIOUS
<1>8. ASSUME NEW t
      PROVE  /\ NodeOK(node(t)) /\ node(t).kind = "task" /\ node(t).lane = p.tier[t]
             /\ node(t).round = Depth(p)[t] /\ DOMAIN (node(t).attempts) = {}
  <2>1. node(t).attempts = <<>> /\ DOMAIN <<>> = {}
    OBVIOUS
  <2> QED BY <2>1 DEF NodeOK
<1> HIDE DEF f, node, given, needs, ids
<1>9. /\ DOMAIN ns = DOMAIN f.nodes \cup ids
      /\ ns = [id \in DOMAIN ns |-> ns[id]]
      /\ \A id \in DOMAIN f.nodes : ns[id] = f.nodes[id]
      /\ \A id \in ids : id \notin DOMAIN f.nodes => ns[id] = node(id[1])
  OBVIOUS
<1>10. lanes = [t \in p.ids |-> p.tier[t]]
  OBVIOUS
<1>11. \A e \in es : e \in f.edges \/ e \in given \/ e \in needs
  OBVIOUS
<1> HIDE DEF ns, lanes, es
<1>12. /\ h = [status |-> h.status, nodes |-> h.nodes, edges |-> h.edges, taskLane |-> h.taskLane,
               accepted |-> h.accepted]
       /\ h.nodes = ns /\ h.edges = es /\ h.taskLane = lanes /\ h.accepted = f.accepted
  BY <1>2, <1>3 DEF GraphOK
<1>13. \A id \in DOMAIN ns : NodeOK(ns[id])
  BY <1>2, <1>8, <1>9 DEF GraphOK
<1>14. GraphOK(h)
  BY <1>9, <1>12, <1>13 DEF GraphOK
<1>15. \A i : Has(h, i) <=> Has(f, i) \/ \E t \in p.ids : i = <<t>>
  BY <1>6, <1>7, <1>9, <1>12 DEF Has
<1>16. \A i : Has(f, i) => Same(f, h, i)
  BY <1>9, <1>12 DEF Has, Same, KindOf, LaneOf, RoundOf, StatusOf, Tried, OutcomeOf
<1>17. ASSUME NEW t \in p.ids
       PROVE  /\ KindOf(h, <<t>>) = "task" /\ LaneOf(h, <<t>>) = p.tier[t]
              /\ RoundOf(h, <<t>>) = DepthOf(p, t) /\ Tried(h, <<t>>) = {}
  <2>1. ~Has(f, <<t>>)
    BY <1>2 DEF Marked
  <2>2. h.nodes[<<t>>] = node(t)
    BY <1>6, <1>9, <1>12, <2>1 DEF Has
  <2> QED BY <1>8, <2>2 DEF KindOf, LaneOf, RoundOf, Tried, DepthOf
<1>18. LanesOf(h) = [t \in p.ids |-> p.tier[t]] /\ AcceptedOf(h) = AcceptedOf(f) /\ EdgesOf(h) = es /\ EdgesOf(f) = f.edges
  BY <1>10, <1>12 DEF LanesOf, AcceptedOf, EdgesOf
<1>19. \A e \in EdgesOf(h) : \/ e \in EdgesOf(g)
                              \/ Handed(p, e)
                              \/ ToTask(p, e)
  <2>1. EdgesOf(f) = EdgesOf(g)
    BY <1>2 DEF Marked
  <2>2. \A e \in EdgesOf(h) : e \in EdgesOf(g) \/ e \in given \/ e \in needs
    BY <1>11, <1>18, <2>1
  <2> QED BY <1>4, <1>5, <2>2
<1>20. \A i : Has(g, i) /\ i # PlanNode => Same(g, h, i)
  BY <1>2, <1>16 DEF Marked, Draws, Same
<1>21. /\ KindOf(h, PlanNode) = KindOf(g, PlanNode) /\ StatusOf(h, PlanNode) = "passed"
       /\ Tried(h, PlanNode) = Tried(g, PlanNode)
       /\ \A n \in Tried(g, PlanNode) : OutcomeOf(h, PlanNode, n) = OutcomeOf(g, PlanNode, n)
  BY <1>2, <1>16 DEF Marked, Draws, Same
<1>22. AcceptedOf(h) = AcceptedOf(g) /\ \A i : Has(f, i) <=> Has(g, i)
  BY <1>2, <1>18 DEF Marked, Draws
<1> QED BY <1>14, <1>15, <1>17, <1>18, <1>19, <1>20, <1>21, <1>22 DEF Planned

LEMMA ShapePlanned ==
  ASSUME OrdinaryNames, NEW g, NEW h, NEW p \in PlanType, Accepts(p), Shape(g, p),
         \A id : Has(g, id) => id \in RunIds, Has(g, PlanNode), Planned(g, h, p),
         \A t : t \notin DOMAIN AcceptedOf(g)
  PROVE  Shape(h, p) /\ \A t \in p.ids : Undrawn(h, t)
<1>0. p.ids \subseteq Tasks
  BY DEF PlanType
<1>1. GraphOK(h)
  BY DEF Planned
<1>2. \A t \in p.ids : \A id \in TaskIds(t) : ~Has(g, id)
  BY <1>0, TasksAreNoRunNodes
<1>3. NodesKnown(h, p)
  BY TaskPlaces DEF Planned, NodesKnown
<1>4. \A t \in p.ids : <<t>> \notin RunIds
  BY <1>0, TasksAreNoRunNodes, TaskPlaces
<1>5. \A id \in RunIds : (Has(h, id) <=> Has(g, id)) /\ (Has(g, id) /\ id # PlanNode => Same(g, h, id))
  BY <1>4 DEF Planned
<1>6. LocalsKnown(h)
  BY <1>5, RunIdsAre, RunNodesDiffer DEF Shape, LocalsKnown, Same
<1>7. CloudKnown(h)
  BY <1>5, RunIdsAre, RunNodesDiffer DEF Shape, CloudKnown, Same, Planned
<1>8. \A t \in p.ids : \A tier \in TierNames : ~Has(h, Retry(t, tier))
  BY <1>2, TaskPlaces DEF Planned
<1>9. TasksKnown(h, p)
  BY <1>8 DEF TasksKnown, TaskKnown, Planned
<1>10. ASSUME NEW e \in EdgesOf(h) PROVE EdgeKnown(h, p, e)
  <2>1. CASE e \in EdgesOf(g)
    <3>1. EdgeKnown(g, p, e)
      BY <2>1 DEF Shape, EdgesKnown
    <3>2. \A i : Has(g, i) => Has(h, i)
      BY DEF Planned
    <3>3. Has(g, AnswerNode) => RoundOf(h, AnswerNode) = RoundOf(g, AnswerNode)
      BY RunNodesDiffer DEF Planned, Same
    <3>4. Has(g, e[2]) /\ ToAnswer(g, p, e) => ToAnswer(h, p, e)
      BY <3>3 DEF ToAnswer
    <3> QED BY <3>1, <3>2, <3>4 DEF EdgeKnown
  <2>2. CASE Handed(p, e)
    BY <2>2 DEF EdgeKnown, Planned, Handed
  <2>3. CASE ToTask(p, e)
    <3>1. \A t \in p.ids : p.deps[t] \subseteq p.ids
      BY DEF Accepts
    <3>2. PICK t \in p.ids : e[2] = <<t>> /\ \E d \in p.deps[t] : e[1] = <<d>>
      BY <2>3 DEF ToTask
    <3>3. Has(h, e[1]) /\ Has(h, e[2])
      BY <3>1, <3>2 DEF Planned
    <3> QED BY <2>3, <3>3 DEF EdgeKnown
  <2> QED BY <2>1, <2>2, <2>3 DEF Planned
<1>11. LanesKnown(h, p) /\ AcceptedKnown(h, p)
  BY DEF Planned, LanesKnown, AcceptedKnown
<1>12. \A t \in p.ids : Undrawn(h, t)
  BY <1>8 DEF Undrawn, Planned
<1> QED BY <1>1, <1>3, <1>6, <1>7, <1>9, <1>10, <1>11, <1>12 DEF Shape, EdgesKnown

-----------------------------------------------------------------------------
(* Steps that only draw the nodes of one task *)

TaskDraws(g, h, p, t) ==
  /\ Draws(g, h, TaskIds(t))
  /\ EdgesGrow(g, h)
  /\ TaskKnown(g, p, t) => TaskKnown(h, p, t)

LEMMA TaskDrawsTrans ==
  \A f, g, h, p, t : TaskDraws(f, g, p, t) /\ TaskDraws(g, h, p, t) => TaskDraws(f, h, p, t)
<1> TAKE f, g, h, p, t
<1> HAVE TaskDraws(f, g, p, t) /\ TaskDraws(g, h, p, t)
<1>1. Draws(f, h, TaskIds(t))
  BY DrawsTrans DEF TaskDraws
<1>2. \A i : Has(g, i) => Has(h, i)
  BY DEF TaskDraws, Draws
<1>3. EdgesGrow(f, h)
  BY <1>2 DEF TaskDraws, EdgesGrow
<1> QED BY <1>1, <1>3 DEF TaskDraws

\* The graph keeps its shape when the nodes of a task are drawn.
LEMMA ShapeTask ==
  ASSUME OrdinaryNames, NEW p, p.ids \subseteq Tasks, NEW t \in p.ids
  PROVE  \A g, h : Shape(g, p) /\ TaskDraws(g, h, p, t) => Shape(h, p)
<1> TAKE g, h
<1> HAVE Shape(g, p) /\ TaskDraws(g, h, p, t)
<1>1. /\ GraphOK(h)
      /\ \A i : i \notin TaskIds(t) => (Has(h, i) <=> Has(g, i)) /\ (Has(g, i) => Same(g, h, i))
      /\ \A i : Has(g, i) => Has(h, i) /\ RoundOf(h, i) = RoundOf(g, i)
      /\ LanesOf(h) = LanesOf(g) /\ AcceptedOf(h) = AcceptedOf(g)
  BY DEF TaskDraws, Draws
<1>2. \A i \in RunIds : (Has(h, i) <=> Has(g, i)) /\ (Has(g, i) => Same(g, h, i))
  BY <1>1, TasksAreNoRunNodes
<1>3. LocalsKnown(h)
  BY <1>2, RunIdsAre DEF Shape, LocalsKnown, Same
<1>4. CloudKnown(h)
  BY <1>2, RunIdsAre DEF Shape, CloudKnown, Same
<1>5. NodesKnown(h, p)
  BY <1>1 DEF Shape, NodesKnown
<1>6. ASSUME NEW u \in p.ids PROVE TaskKnown(h, p, u)
  <2>1. TaskKnown(g, p, u)
    BY DEF Shape, TasksKnown
  <2>2. CASE u = t
    BY <2>1, <2>2 DEF TaskDraws
  <2>3. CASE u # t
    <3>1. \A i \in TaskIds(u) : (Has(h, i) <=> Has(g, i)) /\ (Has(g, i) => Same(g, h, i))
      BY <1>1, <2>3, TaskNodesDiffer
    <3>2. Has(h, <<u>>) => Has(g, <<u>>) /\ Same(g, h, <<u>>)
      BY <3>1, TaskPlaces
    <3>3. \A tier \in TierNames : Has(h, Retry(u, tier)) => Has(g, Retry(u, tier)) /\ Same(g, h, Retry(u, tier))
      BY <3>1, TaskPlaces
    <3> QED BY <2>1, <3>2, <3>3 DEF TaskKnown, Same
  <2> QED BY <2>2, <2>3
<1>7. ASSUME NEW e \in EdgesOf(h) PROVE EdgeKnown(h, p, e)
  <2>1. CASE e \in EdgesOf(g)
    <3>1. EdgeKnown(g, p, e)
      BY <2>1 DEF Shape, EdgesKnown
    <3>2. ToAnswer(g, p, e) => ToAnswer(h, p, e)
      BY <1>1, <3>1 DEF ToAnswer, EdgeKnown
    <3> QED BY <1>1, <3>1, <3>2 DEF EdgeKnown
  <2>2. CASE Has(h, e[1]) /\ Has(h, e[2]) /\ e[3] # "result"
    BY <2>2 DEF EdgeKnown
  <2> QED BY <2>1, <2>2 DEF TaskDraws, EdgesGrow
<1>8. LanesKnown(h, p) /\ AcceptedKnown(h, p)
  BY <1>1 DEF Shape, LanesKnown, AcceptedKnown
<1> QED BY <1>1, <1>3, <1>4, <1>5, <1>6, <1>7, <1>8 DEF Shape, TasksKnown, EdgesKnown

\* A node of task t is drawn that exists, or is the retry of its lane.
LEMMA TaskDrawsOne ==
  \A g, h, p, t, tier :
    /\ tier \in TierNames /\ Draws(g, h, {PlaceOf(p, t, tier)}) /\ EdgesGrow(g, h)
    /\ \/ Has(g, PlaceOf(p, t, tier))
       \/ /\ tier # p.tier[t]
          /\ KindOf(h, Retry(t, tier)) = "retry" /\ LaneOf(h, Retry(t, tier)) = tier
          /\ RoundOf(h, Retry(t, tier)) = DepthOf(p, t)
    => TaskDraws(g, h, p, t)
<1> TAKE g, h, p, t, tier
<1> DEFINE id == PlaceOf(p, t, tier)
<1> HAVE /\ tier \in TierNames /\ Draws(g, h, {id}) /\ EdgesGrow(g, h)
         /\ \/ Has(g, id)
            \/ /\ tier # p.tier[t]
               /\ KindOf(h, Retry(t, tier)) = "retry" /\ LaneOf(h, Retry(t, tier)) = tier
               /\ RoundOf(h, Retry(t, tier)) = DepthOf(p, t)
<1>1. id \in TaskIds(t)
  BY TaskPlaces
<1>2. Draws(g, h, TaskIds(t))
  BY <1>1, DrawsMore
<1>3. tier # p.tier[t] => id = Retry(t, tier)
  BY DEF PlaceOf
<1> HIDE DEF id
<1>4. \A i : Has(g, i) => KindOf(h, i) = KindOf(g, i) /\ LaneOf(h, i) = LaneOf(g, i) /\ RoundOf(h, i) = RoundOf(g, i)
  BY DEF Draws
<1>5. \A i : Has(h, i) => Has(g, i) \/ i = id
  BY DEF Draws
<1>6. TaskKnown(g, p, t) => TaskKnown(h, p, t)
  <2> HAVE TaskKnown(g, p, t)
  <2>1. Has(h, <<t>>) => Has(g, <<t>>)
    BY <1>3, <1>5, TaskPlaces
  <2>2. ASSUME NEW other \in TierNames, Has(h, Retry(t, other)), ~Has(g, Retry(t, other))
        PROVE  other = tier /\ tier # p.tier[t] /\ ~Has(g, id)
    <3>1. id = Retry(t, other)
      BY <1>5, <2>2
    <3>2. ~Has(g, id)
      BY <2>2, <3>1
    <3> QED BY <1>3, <3>1, <3>2, TaskPlaces
  <2> QED BY <1>4, <2>1, <2>2 DEF TaskKnown
<1> QED BY <1>2, <1>6 DEF TaskDraws

\* The attempts drawn at a node that may not exist.
TriedAt(g, id) == IF Has(g, id) THEN Tried(g, id) ELSE {}

TaskNodeMade(g, h, p, t, tier) ==
  /\ TaskDraws(g, h, p, t)
  /\ Draws(g, h, {PlaceOf(p, t, tier)})
  /\ EdgesOf(h) = EdgesOf(g)
  /\ \A i : Has(h, i) <=> Has(g, i) \/ i = PlaceOf(p, t, tier)
  /\ Tried(h, PlaceOf(p, t, tier)) = TriedAt(g, PlaceOf(p, t, tier))
  /\ \A n \in TriedAt(g, PlaceOf(p, t, tier)) : OutcomeOf(h, PlaceOf(p, t, tier), n) = OutcomeOf(g, PlaceOf(p, t, tier), n)

LEMMA TaskNodeMakes ==
  \A g, h, p, t, tier :
    Shape(g, p) /\ t \in DOMAIN LanesOf(g) /\ tier \in TierNames /\ h = TaskNode(g, t, tier) =>
      TaskNodeMade(g, h, p, t, tier)
<1> TAKE g, h, p, t, tier
<1> HAVE Shape(g, p) /\ t \in DOMAIN LanesOf(g) /\ tier \in TierNames /\ h = TaskNode(g, t, tier)
<1>1. TaskNodeId(g, t, tier) = PlaceOf(p, t, tier)
  BY TaskNodeIdIs DEF Shape
<1>2. GraphOK(g) /\ t \in p.ids /\ Has(g, <<t>>)
  BY DEF Shape, LanesKnown
<1>3. RoundOf(g, <<t>>) = DepthOf(p, t)
  BY <1>2 DEF Shape, TasksKnown, TaskKnown
<1>4. EdgesOf(h) = EdgesOf(g) => EdgesGrow(g, h)
  BY DEF EdgesGrow
<1>5. CASE Has(g, PlaceOf(p, t, tier))
  <2>1. h = g
    <3>1. CASE PlaceOf(p, t, tier) = <<t>>
      BY <1>1, <3>1 DEF TaskNode
    <3>2. CASE PlaceOf(p, t, tier) # <<t>>
      BY <1>1, <1>5, <3>2 DEF TaskNode, Node
    <3> QED BY <3>1, <3>2
  <2>2. Draws(g, h, {PlaceOf(p, t, tier)}) /\ EdgesOf(h) = EdgesOf(g)
    BY <1>2, <2>1, DrawsNothing
  <2>3. TaskDraws(g, h, p, t)
    BY <1>4, <1>5, <2>2, TaskDrawsOne
  <2> QED BY <1>5, <2>1, <2>2, <2>3 DEF TaskNodeMade, TriedAt
<1>6. CASE ~Has(g, PlaceOf(p, t, tier))
  <2>1. tier # p.tier[t] /\ PlaceOf(p, t, tier) = Retry(t, tier) /\ PlaceOf(p, t, tier) # <<t>>
    BY <1>2, <1>6, TaskPlaces DEF PlaceOf
  <2>2. h = Node(g, Retry(t, tier), "retry", tier, RoundOf(g, <<t>>), "queued")
    BY <1>1, <2>1, Zenon DEF TaskNode, RoundOf
  <2>3. Made(g, h, Retry(t, tier), "retry", tier, RoundOf(g, <<t>>), "queued")
    BY <1>2, <2>2, NodeMakes
  <2>4. /\ Draws(g, h, {PlaceOf(p, t, tier)}) /\ EdgesOf(h) = EdgesOf(g)
        /\ \A i : Has(h, i) <=> Has(g, i) \/ i = PlaceOf(p, t, tier)
        /\ KindOf(h, Retry(t, tier)) = "retry" /\ LaneOf(h, Retry(t, tier)) = tier
        /\ RoundOf(h, Retry(t, tier)) = DepthOf(p, t) /\ Tried(h, PlaceOf(p, t, tier)) = {}
    BY <1>3, <1>6, <2>1, <2>3 DEF Made
  <2>5. TaskDraws(g, h, p, t)
    BY <1>4, <2>1, <2>4, TaskDrawsOne
  <2>6. TriedAt(g, PlaceOf(p, t, tier)) = {}
    BY <1>6 DEF TriedAt
  <2> QED BY <2>4, <2>5, <2>6 DEF TaskNodeMade
<1> QED BY <1>5, <1>6

\* Attempt n is drawn at the node of t in the lane of tier.
TaskNoted(g, h, p, t, tier, n) ==
  /\ TaskDraws(g, h, p, t)
  /\ Draws(g, h, {PlaceOf(p, t, tier)})
  /\ EdgesOf(h) = EdgesOf(g)
  /\ \A i : Has(h, i) <=> Has(g, i) \/ i = PlaceOf(p, t, tier)
  /\ Tried(h, PlaceOf(p, t, tier)) = TriedAt(g, PlaceOf(p, t, tier)) \cup {n}
  /\ \A m \in TriedAt(g, PlaceOf(p, t, tier)) :
       m # n => OutcomeOf(h, PlaceOf(p, t, tier), m) = OutcomeOf(g, PlaceOf(p, t, tier), m)

LEMMA NotedTask ==
  \A f, g, h, p, t, tier, n :
    TaskNodeMade(f, g, p, t, tier) /\ tier \in TierNames /\ Noted(g, h, PlaceOf(p, t, tier), n)
      => TaskNoted(f, h, p, t, tier, n)
<1> TAKE f, g, h, p, t, tier, n
<1> HAVE TaskNodeMade(f, g, p, t, tier) /\ tier \in TierNames /\ Noted(g, h, PlaceOf(p, t, tier), n)
<1>1. Has(g, PlaceOf(p, t, tier)) /\ EdgesGrow(g, h)
  BY DEF TaskNodeMade, Noted, EdgesGrow
<1>2. Draws(g, h, {PlaceOf(p, t, tier)})
  BY DEF Noted
<1>3. TaskDraws(g, h, p, t)
  BY <1>1, <1>2, TaskDrawsOne
<1>4. TaskDraws(f, h, p, t)
  BY <1>3, TaskDrawsTrans DEF TaskNodeMade
<1>5. Draws(f, h, {PlaceOf(p, t, tier)})
  BY <1>2, DrawsTrans DEF TaskNodeMade
<1> DEFINE id == PlaceOf(p, t, tier)
<1>6. EdgesOf(h) = EdgesOf(f) /\ \A i : Has(h, i) <=> Has(f, i) \/ i = id
  BY DEF TaskNodeMade, Noted
<1>7. /\ Tried(h, id) = Tried(g, id) \cup {n} /\ Tried(g, id) = TriedAt(f, id)
      /\ \A m \in Tried(g, id) : m # n => OutcomeOf(h, id, m) = OutcomeOf(g, id, m)
      /\ \A m \in TriedAt(f, id) : OutcomeOf(g, id, m) = OutcomeOf(f, id, m)
  BY DEF TaskNodeMade, Noted
<1> HIDE DEF id
<1>8. /\ Tried(h, id) = TriedAt(f, id) \cup {n}
      /\ \A m \in TriedAt(f, id) : m # n => OutcomeOf(h, id, m) = OutcomeOf(f, id, m)
  BY <1>7
<1> QED BY <1>4, <1>5, <1>6, <1>8 DEF TaskNoted, id

LEMMA TaskEventDrawn ==
  \A g, h, p, t, tier, n, outcome, status :
    /\ Shape(g, p) /\ t \in DOMAIN LanesOf(g) /\ tier \in TierNames
    /\ h = TaskEvent(g, t, tier, n, outcome, status)
    => /\ TaskNoted(g, h, p, t, tier, n)
       /\ StatusOf(h, PlaceOf(p, t, tier)) = status
       /\ outcome # "kept" => OutcomeOf(h, PlaceOf(p, t, tier), n) = outcome
<1> TAKE g, h, p, t, tier, n, outcome, status
<1> HAVE /\ Shape(g, p) /\ t \in DOMAIN LanesOf(g) /\ tier \in TierNames
         /\ h = TaskEvent(g, t, tier, n, outcome, status)
<1> DEFINE id == PlaceOf(p, t, tier)
           f == TaskNode(g, t, tier)
           a == Attempt(f, id, n, outcome)
<1>1. TaskNodeId(g, t, tier) = id
  BY TaskNodeIdIs DEF Shape
<1>2. h = SetStatus(a, id, status)
  BY <1>1, Zenon DEF TaskEvent
<1>3. TaskNodeMade(g, f, p, t, tier)
  BY TaskNodeMakes
<1>4. GraphOK(f) /\ Has(f, id)
  BY <1>3 DEF TaskNodeMade, Draws
<1> HIDE DEF f
<1>5. a = Attempt(f, id, n, outcome)
  OBVIOUS
<1> HIDE DEF a
<1>6. Noted(f, h, id, n) /\ StatusOf(h, id) = status /\ (outcome # "kept" => OutcomeOf(h, id, n) = outcome)
  BY <1>2, <1>4, <1>5, AttemptAndStatus
<1>7. TaskNoted(g, h, p, t, tier, n)
  BY <1>3, <1>6, NotedTask
<1> QED BY <1>6, <1>7

\* A worker's model call is drawn at the node of its tier.
LEMMA WorkCallDrawn ==
  \A g, h, p, t, tier, n, failed :
    /\ Shape(g, p) /\ t \in DOMAIN LanesOf(g) /\ tier \in TierNames /\ Has(g, PlaceOf(p, t, tier))
    /\ \/ h = OnCallOutput(g, Call("work", tier, t, n))
       \/ failed \in BOOLEAN /\ h = OnCallFinished(g, Call("work", tier, t, n), failed)
    => TaskNoted(g, h, p, t, tier, n)
<1> TAKE g, h, p, t, tier, n, failed
<1> HAVE /\ Shape(g, p) /\ t \in DOMAIN LanesOf(g) /\ tier \in TierNames /\ Has(g, PlaceOf(p, t, tier))
         /\ \/ h = OnCallOutput(g, Call("work", tier, t, n))
            \/ failed \in BOOLEAN /\ h = OnCallFinished(g, Call("work", tier, t, n), failed)
<1>1. CallNodeId(g, Call("work", tier, t, n)) = PlaceOf(p, t, tier)
  BY CallNodes, TaskNodeIdIs DEF Shape
<1>2. GraphOK(g) /\ "work" \in CallOperations
  BY DEF Shape, CallOperations
<1>3. Noted(g, h, PlaceOf(p, t, tier), n)
  <2>1. CASE h = OnCallOutput(g, Call("work", tier, t, n))
    BY <1>1, <1>2, <2>1, CallOutput
  <2>2. CASE failed \in BOOLEAN /\ h = OnCallFinished(g, Call("work", tier, t, n), failed)
    BY <1>1, <1>2, <2>2, CallFinished
  <2> QED BY <2>1, <2>2
<1>4. TaskNodeMade(g, g, p, t, tier)
  <2>1. Draws(g, g, {PlaceOf(p, t, tier)}) /\ EdgesGrow(g, g)
    BY <1>2, DrawsNothing DEF EdgesGrow
  <2>2. TaskDraws(g, g, p, t)
    BY <2>1, TaskDrawsOne
  <2> QED BY <2>1, <2>2 DEF TaskNodeMade, TriedAt
<1> QED BY <1>3, <1>4, NotedTask

\* A task moves from the node of one tier, which exists, to that of another.
TaskMoved(g, h, p, t, from, tier) ==
  /\ TaskDraws(g, h, p, t)
  /\ Draws(g, h, {PlaceOf(p, t, from), PlaceOf(p, t, tier)})
  /\ \A i : Has(h, i) <=> Has(g, i) \/ i = PlaceOf(p, t, tier)
  /\ StatusOf(h, PlaceOf(p, t, from)) = "escalated"
  /\ \A i : /\ Has(h, i) => Tried(h, i) = TriedAt(g, i)
            /\ \A n \in TriedAt(g, i) : OutcomeOf(h, i, n) = OutcomeOf(g, i, n)

LEMMA TaskEscalatedDrawn ==
  \A g, h, p, t, from, tier :
    /\ Shape(g, p) /\ t \in DOMAIN LanesOf(g) /\ from \in TierNames /\ tier \in TierNames
    /\ Has(g, PlaceOf(p, t, from)) /\ h = OnTaskEscalated(g, t, from, tier)
    => TaskMoved(g, h, p, t, from, tier)
<1> TAKE g, h, p, t, from, tier
<1> HAVE /\ Shape(g, p) /\ t \in DOMAIN LanesOf(g) /\ from \in TierNames /\ tier \in TierNames
         /\ Has(g, PlaceOf(p, t, from)) /\ h = OnTaskEscalated(g, t, from, tier)
<1> DEFINE src == PlaceOf(p, t, from)
           dst == PlaceOf(p, t, tier)
           f == TaskNode(g, t, tier)
           e == SetStatus(f, src, "escalated")
<1>1. TaskNodeId(g, t, from) = src /\ TaskNodeId(g, t, tier) = dst
  BY TaskNodeIdIs DEF Shape
<1>2. TaskNode(g, t, from) = g
  <2>1. CASE src = <<t>>
    BY <1>1, <2>1 DEF TaskNode
  <2>2. CASE src # <<t>>
    BY <1>1, <2>2 DEF TaskNode, Node
  <2> QED BY <2>1, <2>2
<1>3. h = Edge(e, src, dst, "escalated")
  BY <1>1, <1>2, Zenon DEF OnTaskEscalated
<1>4. TaskNodeMade(g, f, p, t, tier)
  BY TaskNodeMakes
<1>5. GraphOK(f) /\ Has(f, src) /\ Has(f, dst)
  BY <1>4 DEF TaskNodeMade, Draws
<1> HIDE DEF f
<1>6. Marked(f, e, src, "escalated")
  BY <1>5, StatusMarks
<1> HIDE DEF e, src, dst
<1>7. GraphOK(e)
  BY <1>6 DEF Marked, Draws
<1>8. Draws(e, h, {}) /\ EdgesOf(h) = EdgesOf(e) \cup {<<src, dst, "escalated">>}
  BY <1>3, <1>7, EdgesDraw DEF Edge, EdgesOf
<1>9. EdgesGrow(e, h)
  <2>1. Has(h, src) /\ Has(h, dst)
    BY <1>5, <1>6, <1>8 DEF Marked, Draws
  <2>2. \A x \in EdgesOf(h) : x \in EdgesOf(e) \/ x = <<src, dst, "escalated">>
    BY <1>8
  <2>3. <<src, dst, "escalated">>[1] = src /\ <<src, dst, "escalated">>[2] = dst
         /\ <<src, dst, "escalated">>[3] # "result"
    OBVIOUS
  <2> QED BY <2>1, <2>2, <2>3 DEF EdgesGrow
<1>10. Draws(g, h, {src, dst})
  <2>1. Draws(g, f, {src, dst})
    BY <1>4, DrawsMore DEF TaskNodeMade, dst
  <2>2. Draws(f, e, {src, dst})
    BY <1>6, DrawsMore DEF Marked
  <2>3. Draws(e, h, {src, dst})
    BY <1>8, DrawsMore
  <2> QED BY <2>1, <2>2, <2>3, DrawsTrans
<1>11. TaskDraws(g, h, p, t)
  <2>1. Draws(f, h, {src})
    <3>1. Draws(f, e, {src}) /\ Draws(e, h, {src})
      BY <1>6, <1>8, DrawsMore DEF Marked
    <3> QED BY <3>1, DrawsTrans
  <2>2. EdgesGrow(f, h)
    BY <1>6, <1>9 DEF EdgesGrow, Marked
  <2>3. TaskDraws(f, h, p, t)
    BY <1>5, <2>1, <2>2, TaskDrawsOne DEF src
  <2> QED BY <1>4, <2>3, TaskDrawsTrans DEF TaskNodeMade
<1>12. \A i : (Has(h, i) <=> Has(e, i)) /\ (Has(e, i) => Same(e, h, i))
  BY <1>8 DEF Draws
<1>13. \A i : Has(e, i) <=> Has(f, i)
  BY <1>6 DEF Marked
<1>14. \A i : Has(f, i) <=> Has(g, i) \/ i = dst
  BY <1>4 DEF TaskNodeMade, dst
<1>15. \A i : Has(h, i) <=> Has(g, i) \/ i = dst
  BY <1>12, <1>13, <1>14
<1>16. StatusOf(h, src) = "escalated"
  BY <1>5, <1>6, <1>12, <1>13 DEF Same, Marked
<1>17. \A i : Has(f, i) => Tried(e, i) = Tried(f, i) /\ \A n \in Tried(f, i) : OutcomeOf(e, i, n) = OutcomeOf(f, i, n)
  BY <1>6 DEF Marked, Draws, Same
<1>18. \A i : Has(f, i) => Tried(f, i) = TriedAt(g, i) /\ \A n \in TriedAt(g, i) : OutcomeOf(f, i, n) = OutcomeOf(g, i, n)
  <2>1. Tried(f, dst) = TriedAt(g, dst) /\ \A n \in TriedAt(g, dst) : OutcomeOf(f, dst, n) = OutcomeOf(g, dst, n)
    BY <1>4 DEF TaskNodeMade, dst
  <2>2. \A i : i # dst /\ Has(f, i) => Has(g, i) /\ Same(g, f, i)
    BY <1>4 DEF TaskNodeMade, Draws, dst
  <2> QED BY <2>1, <2>2 DEF TriedAt, Same
<1>19. ASSUME NEW i
       PROVE  /\ Has(h, i) => Tried(h, i) = TriedAt(g, i)
              /\ \A n \in TriedAt(g, i) : OutcomeOf(h, i, n) = OutcomeOf(g, i, n)
  <2>1. Has(h, i) => Tried(h, i) = Tried(e, i) /\ \A n \in Tried(e, i) : OutcomeOf(h, i, n) = OutcomeOf(e, i, n)
    BY <1>12 DEF Same
  <2>2. ~Has(h, i) => TriedAt(g, i) = {}
    BY <1>15 DEF TriedAt
  <2> QED BY <1>12, <1>13, <1>17, <1>18, <2>1, <2>2
<1> QED BY <1>10, <1>11, <1>15, <1>16, <1>19 DEF TaskMoved, src, dst

-----------------------------------------------------------------------------
(* The steps of a job *)

\* The tiers of the attempts at a task.
LEMMA WorkerTiersAre ==
  ASSUME NEW preferred \in TierNames
  PROVE  /\ Len(WorkerTiers(preferred)) \in Nat \ {0}
         /\ WorkerTiers(preferred)[1] = preferred
         /\ \A k \in 1..Len(WorkerTiers(preferred)) : WorkerTiers(preferred)[k] \in TierNames
<1> DEFINE larger == IF EscalateFailedLocalTasks THEN LargerTiers(preferred) ELSE <<>>
           same == [i \in 1..LocalWorkerAttempts |-> preferred]
<1>1. larger \in Seq(TierNames)
  <2>1. {<<"mid", "cloud">>, <<"cloud">>, <<>>} \subseteq Seq(TierNames)
    BY DEF TierNames
  <2>2. larger \in {<<"mid", "cloud">>, <<"cloud">>, <<>>}
    BY Zenon DEF LargerTiers
  <2> QED BY <2>1, <2>2
<1>2. same \in Seq(TierNames) /\ Len(same) = LocalWorkerAttempts /\ same[1] = preferred /\ LocalWorkerAttempts \in Nat \ {0}
  BY PolicyAssumption
<1>3. CASE preferred = "cloud"
  <2>1. WorkerTiers(preferred) = <<"cloud">>
    BY <1>3 DEF WorkerTiers
  <2>2. Len(<<"cloud">>) = 1 /\ <<"cloud">>[1] = "cloud"
    OBVIOUS
  <2> QED BY <1>3, <2>1, <2>2
<1>4. CASE preferred # "cloud"
  <2>1. WorkerTiers(preferred) = same \o larger
    BY <1>4 DEF WorkerTiers
  <2> HIDE DEF same, larger
  <2>2. same \o larger \in Seq(TierNames) /\ Len(same \o larger) = Len(same) + Len(larger) /\ Len(larger) \in Nat
    BY <1>1, <1>2
  <2>3. (same \o larger)[1] = same[1]
    BY <1>1, <1>2
  <2> QED BY <1>2, <2>1, <2>2, <2>3
<1> QED BY <1>3, <1>4

TierOf(p, t, k) == WorkerTiers(p.tier[t])[k]
Attempts(p, t) == 1..Len(WorkerTiers(p.tier[t]))

LEMMA NodeOfIs ==
  ASSUME NEW p \in PlanType, NEW t \in Tasks, NEW k \in Attempts(p, t)
  PROVE  /\ TierOf(p, t, k) \in TierNames
         /\ NodeOf(p, t, k) = PlaceOf(p, t, TierOf(p, t, k))
         /\ NodeOf(p, t, k) \in TaskIds(t)
<1>1. p.tier[t] \in TierNames
  BY DEF PlanType
<1>2. TierOf(p, t, k) \in TierNames
  BY <1>1, WorkerTiersAre DEF TierOf, Attempts
<1> QED BY <1>2, TaskPlaces DEF NodeOf, TierOf

\* An attempt is drawn at the node of its tier: the k-th after k - 1, or again.
LEMMA AttemptStarts ==
  ASSUME NEW p \in PlanType, NEW t \in Tasks, NEW k \in Attempts(p, t)
  PROVE  \A g, h, n :
           /\ TaskNoted(g, h, p, t, TierOf(p, t, k), k) /\ n \in {k - 1, k}
           /\ JobAttempts(g, p, t, n, k)
           => /\ JobAttempts(h, p, t, k, k)
              /\ OutcomeOf(h, NodeOf(p, t, k), k) # "running" => \A j : JobAttempts(h, p, t, k, j)
<1> TAKE g, h, n
<1> HAVE /\ TaskNoted(g, h, p, t, TierOf(p, t, k), k) /\ n \in {k - 1, k}
         /\ JobAttempts(g, p, t, n, k)
<1> DEFINE id == NodeOf(p, t, k)
<1>1. id = PlaceOf(p, t, TierOf(p, t, k)) /\ id \in TaskIds(t) /\ k \in Nat \ {0}
  BY NodeOfIs DEF Attempts
<1>2. /\ Draws(g, h, {id}) /\ Has(h, id) /\ Tried(h, id) = TriedAt(g, id) \cup {k}
      /\ \A m \in TriedAt(g, id) : m # k => OutcomeOf(h, id, m) = OutcomeOf(g, id, m)
  BY <1>1 DEF TaskNoted
<1>3. \A i : i # id => (Has(h, i) <=> Has(g, i)) /\ (Has(g, i) => Same(g, h, i))
  BY <1>2 DEF Draws
<1>4. \A m \in 1..n : m \in 1..k
  BY <1>1
<1>5. \A m \in 1..k : m \in 1..n \/ m = k
  BY <1>1
<1>6. \A m \in TriedAt(g, id) : m \in 1..n /\ id = NodeOf(p, t, m) /\ (OutcomeOf(g, id, m) = "running" => m = k)
  BY <1>1 DEF JobAttempts, TriedAt
<1>7. \A i \in TaskIds(t) : i # id /\ Has(h, i) => \A m \in Tried(h, i) :
        m \in 1..k /\ i = NodeOf(p, t, m) /\ (OutcomeOf(h, i, m) = "running" => m = k)
  BY <1>3, <1>4 DEF JobAttempts, Same
<1>8. \A m \in Tried(h, id) :
        m \in 1..k /\ id = NodeOf(p, t, m) /\ (OutcomeOf(h, id, m) = "running" => m = k)
  BY <1>1, <1>2, <1>4, <1>6
<1>9. \A m \in 1..n : NodeOf(p, t, m) \in TaskIds(t) /\ Has(h, NodeOf(p, t, m)) /\ m \in Tried(h, NodeOf(p, t, m))
  <2> SUFFICES ASSUME NEW m \in 1..n
               PROVE  NodeOf(p, t, m) \in TaskIds(t) /\ Has(h, NodeOf(p, t, m)) /\ m \in Tried(h, NodeOf(p, t, m))
    OBVIOUS
  <2>1. NodeOf(p, t, m) \in TaskIds(t) /\ Has(g, NodeOf(p, t, m)) /\ m \in Tried(g, NodeOf(p, t, m))
    BY DEF JobAttempts
  <2>2. CASE NodeOf(p, t, m) = id
    BY <1>2, <2>1, <2>2 DEF TriedAt
  <2>3. CASE NodeOf(p, t, m) # id
    BY <1>3, <2>1, <2>3 DEF Same
  <2> QED BY <2>2, <2>3
<1>10. \A m \in 1..k : NodeOf(p, t, m) \in TaskIds(t) /\ Has(h, NodeOf(p, t, m)) /\ m \in Tried(h, NodeOf(p, t, m))
  BY <1>1, <1>2, <1>5, <1>9
<1>11. JobAttempts(h, p, t, k, k)
  BY <1>7, <1>8, <1>10 DEF JobAttempts
<1>12. ASSUME OutcomeOf(h, id, k) # "running", NEW j PROVE JobAttempts(h, p, t, k, j)
  <2>1. \A i \in TaskIds(t) : Has(h, i) => \A m \in Tried(h, i) : OutcomeOf(h, i, m) # "running"
    BY <1>7, <1>8, <1>12
  <2> QED BY <1>7, <1>8, <1>10, <2>1 DEF JobAttempts
<1> QED BY <1>11, <1>12

LEMMA AttemptStays ==
  ASSUME NEW p \in PlanType, NEW t \in Tasks, NEW k \in Attempts(p, t)
  PROVE  \A g, h, n : TaskNoted(g, h, p, t, TierOf(p, t, k), n) /\ JobLeft(g, p, t, k) => JobLeft(h, p, t, k)
<1> TAKE g, h, n
<1> HAVE TaskNoted(g, h, p, t, TierOf(p, t, k), n) /\ JobLeft(g, p, t, k)
<1>1. Draws(g, h, {NodeOf(p, t, k)})
  BY NodeOfIs DEF TaskNoted
<1> QED BY <1>1 DEF JobLeft, Draws, Same

\* The move from one attempt to the next, with or without another tier.
LEMMA AttemptMoves ==
  ASSUME NEW p \in PlanType, NEW t \in Tasks, NEW k \in Attempts(p, t), k > 1
  PROVE  /\ k - 1 \in Attempts(p, t)
         /\ \A g, h, n, j :
              /\ TaskMoved(g, h, p, t, TierOf(p, t, k - 1), TierOf(p, t, k))
              /\ TierOf(p, t, k - 1) # TierOf(p, t, k)
              /\ JobAttempts(g, p, t, n, j) /\ JobLeft(g, p, t, k - 1)
              => JobAttempts(h, p, t, n, j) /\ JobLeft(h, p, t, k)
         /\ \A g : TierOf(p, t, k - 1) = TierOf(p, t, k) /\ JobLeft(g, p, t, k - 1) => JobLeft(g, p, t, k)
<1>1. k - 1 \in Attempts(p, t)
  BY DEF Attempts
<1>2. /\ NodeOf(p, t, k) = PlaceOf(p, t, TierOf(p, t, k)) /\ NodeOf(p, t, k) \in TaskIds(t)
      /\ NodeOf(p, t, k - 1) = PlaceOf(p, t, TierOf(p, t, k - 1)) /\ NodeOf(p, t, k - 1) \in TaskIds(t)
  BY <1>1, NodeOfIs
<1>3. ASSUME NEW g, NEW h, NEW n, NEW j,
             TaskMoved(g, h, p, t, TierOf(p, t, k - 1), TierOf(p, t, k)),
             TierOf(p, t, k - 1) # TierOf(p, t, k),
             JobAttempts(g, p, t, n, j), JobLeft(g, p, t, k - 1)
      PROVE  JobAttempts(h, p, t, n, j) /\ JobLeft(h, p, t, k)
  <2> DEFINE src == NodeOf(p, t, k - 1)
             dst == NodeOf(p, t, k)
  <2>1. /\ Draws(g, h, {src, dst}) /\ StatusOf(h, src) = "escalated"
        /\ \A i : Has(h, i) <=> Has(g, i) \/ i = dst
    BY <1>2, <1>3 DEF TaskMoved
  <2>2. \A i : /\ Has(h, i) => Tried(h, i) = TriedAt(g, i)
               /\ \A m \in TriedAt(g, i) : OutcomeOf(h, i, m) = OutcomeOf(g, i, m)
    BY <1>3 DEF TaskMoved
  <2> HIDE DEF src, dst
  <2>3. \A i : i # src /\ i # dst => (Has(h, i) <=> Has(g, i)) /\ (Has(g, i) => Same(g, h, i))
    BY <2>1 DEF Draws
  <2>4. \A i : Has(g, i) => Has(h, i) /\ Tried(h, i) = Tried(g, i)
    BY <2>1, <2>2 DEF TriedAt
  <2>5. \A i \in TaskIds(t) : Has(h, i) => \A m \in Tried(h, i) :
          m \in 1..n /\ i = NodeOf(p, t, m) /\ (OutcomeOf(h, i, m) = "running" => m = j)
    <3>1. \A i \in TaskIds(t) : \A m \in TriedAt(g, i) :
            m \in 1..n /\ i = NodeOf(p, t, m) /\ (OutcomeOf(g, i, m) = "running" => m = j)
      BY <1>3 DEF JobAttempts, TriedAt
    <3> QED BY <2>2, <3>1
  <2>6. JobAttempts(h, p, t, n, j)
    BY <1>3, <2>4, <2>5 DEF JobAttempts
  <2>7. ASSUME NEW i \in TaskIds(t), Has(h, i), i # dst PROVE StatusOf(h, i) = "escalated"
    <3>1. CASE i = src
      BY <2>1, <3>1
    <3>2. CASE i # src
      BY <1>3, <2>3, <2>7, <3>2 DEF JobLeft, Same, src
    <3> QED BY <3>1, <3>2
  <2> QED BY <2>6, <2>7 DEF JobLeft, dst
<1>4. \A g : TierOf(p, t, k - 1) = TierOf(p, t, k) /\ JobLeft(g, p, t, k - 1) => JobLeft(g, p, t, k)
  BY <1>2 DEF JobLeft
<1> QED BY <1>1, <1>3, <1>4

\* The other tasks and the run's own nodes are as they were.
TaskFrame(g, h, t) ==
  /\ \A u, p, s, k : u # t => /\ JobDrawn(g, p, u, s, k) => JobDrawn(h, p, u, s, k)
                              /\ Undrawn(g, u) => Undrawn(h, u)
  /\ \A i \in RunIds : (Has(h, i) <=> Has(g, i)) /\ (Has(g, i) => Same(g, h, i))

LEMMA TaskFrameDraws ==
  ASSUME OrdinaryNames, NEW t \in Tasks
  PROVE  \A g, h, p : TaskDraws(g, h, p, t) => TaskFrame(g, h, t)
<1> TAKE g, h, p
<1> HAVE TaskDraws(g, h, p, t)
<1>1. Draws(g, h, TaskIds(t))
  BY DEF TaskDraws
<1>2. \A u : u # t => \A id \in TaskIds(u) : id \notin TaskIds(t)
  BY TaskNodesDiffer
<1>3. \A u, q, s, k : u # t => /\ JobDrawn(g, q, u, s, k) => JobDrawn(h, q, u, s, k)
                               /\ Undrawn(g, u) => Undrawn(h, u)
  BY <1>1, <1>2, JobKept
<1>4. \A i \in RunIds : i \notin TaskIds(t)
  BY TasksAreNoRunNodes
<1> QED BY <1>1, <1>3, <1>4 DEF TaskFrame, Draws

\* What one event of task t leaves: the shape, the frame and the accepted results.
TaskStep(g, h, p, t) ==
  /\ Shape(h, p)
  /\ TaskFrame(g, h, t)
  /\ LanesOf(h) = LanesOf(g)
  /\ AcceptedOf(h) = AcceptedOf(g)

LEMMA TaskSteps ==
  ASSUME OrdinaryNames, NEW p \in PlanType, NEW t \in p.ids
  PROVE  \A g, h : Shape(g, p) /\ TaskDraws(g, h, p, t) => TaskStep(g, h, p, t)
<1> TAKE g, h
<1> HAVE Shape(g, p) /\ TaskDraws(g, h, p, t)
<1>1. p.ids \subseteq Tasks /\ t \in Tasks
  BY DEF PlanType
<1>2. Shape(h, p)
  BY <1>1, ShapeTask
<1>3. TaskFrame(g, h, t)
  BY <1>1, TaskFrameDraws
<1> QED BY <1>2, <1>3 DEF TaskStep, TaskDraws, Draws

LEMMA TaskStepTrans ==
  \A f, g, h, p, t : TaskStep(f, g, p, t) /\ TaskStep(g, h, p, t) => TaskStep(f, h, p, t)
<1> TAKE f, g, h, p, t
<1> HAVE TaskStep(f, g, p, t) /\ TaskStep(g, h, p, t)
<1>1. TaskFrame(f, g, t) /\ TaskFrame(g, h, t)
  BY DEF TaskStep
<1>2. \A u, q, s, k : u # t => /\ JobDrawn(f, q, u, s, k) => JobDrawn(h, q, u, s, k)
                               /\ Undrawn(f, u) => Undrawn(h, u)
  BY <1>1 DEF TaskFrame
<1>3. \A i \in RunIds : (Has(h, i) <=> Has(f, i)) /\ (Has(f, i) => Same(f, h, i))
  BY <1>1 DEF TaskFrame, Same
<1> QED BY <1>2, <1>3 DEF TaskStep, TaskFrame

LEMMA TaskStepNothing ==
  \A g, p, t : Shape(g, p) => TaskStep(g, g, p, t)
BY DEF TaskStep, TaskFrame, Same

\* The graph once task_escalated, if there is one, is drawn.
Escalated(g, p, t, k) ==
  IF k > 1 /\ TierOf(p, t, k - 1) # TierOf(p, t, k)
  THEN OnTaskEscalated(g, t, TierOf(p, t, k - 1), TierOf(p, t, k)) ELSE g

LEMMA EscalationDrawn ==
  ASSUME OrdinaryNames, NEW p \in PlanType, NEW t \in p.ids, NEW k \in Attempts(p, t)
  PROVE  \A g, h :
           /\ Shape(g, p) /\ t \in DOMAIN LanesOf(g) /\ h = Escalated(g, p, t, k)
           /\ JobAttempts(g, p, t, k - 1, k) /\ JobLeft(g, p, t, IF k > 1 THEN k - 1 ELSE k)
           => TaskStep(g, h, p, t) /\ JobAttempts(h, p, t, k - 1, k) /\ JobLeft(h, p, t, k)
<1> TAKE g, h
<1> HAVE /\ Shape(g, p) /\ t \in DOMAIN LanesOf(g) /\ h = Escalated(g, p, t, k)
         /\ JobAttempts(g, p, t, k - 1, k) /\ JobLeft(g, p, t, IF k > 1 THEN k - 1 ELSE k)
<1>0. k \in Nat \ {0} /\ t \in Tasks
  BY DEF Attempts, PlanType
<1>1. CASE k > 1 /\ TierOf(p, t, k - 1) # TierOf(p, t, k)
  <2>1. k - 1 \in Attempts(p, t) /\ k - 1 \in 1..(k - 1)
    BY <1>0, <1>1, AttemptMoves
  <2>2. /\ TierOf(p, t, k) \in TierNames /\ TierOf(p, t, k - 1) \in TierNames
        /\ NodeOf(p, t, k - 1) = PlaceOf(p, t, TierOf(p, t, k - 1))
    BY <1>0, <2>1, NodeOfIs
  <2>3. Has(g, PlaceOf(p, t, TierOf(p, t, k - 1)))
    BY <2>1, <2>2 DEF JobAttempts
  <2>4. h = OnTaskEscalated(g, t, TierOf(p, t, k - 1), TierOf(p, t, k))
    BY <1>1 DEF Escalated
  <2>5. TaskMoved(g, h, p, t, TierOf(p, t, k - 1), TierOf(p, t, k))
    BY <2>2, <2>3, <2>4, TaskEscalatedDrawn
  <2>6. TaskStep(g, h, p, t)
    BY <2>5, TaskSteps DEF TaskMoved
  <2>7. JobLeft(g, p, t, k - 1)
    BY <1>1
  <2>8. JobAttempts(h, p, t, k - 1, k) /\ JobLeft(h, p, t, k)
    BY <1>0, <1>1, <2>5, <2>7, AttemptMoves
  <2> QED BY <2>6, <2>8
<1>2. CASE k > 1 /\ TierOf(p, t, k - 1) = TierOf(p, t, k)
  <2>1. h = g /\ JobLeft(g, p, t, k - 1)
    BY <1>2 DEF Escalated
  <2>2. JobLeft(g, p, t, k)
    BY <1>0, <1>2, <2>1, AttemptMoves
  <2> QED BY <2>1, <2>2, TaskStepNothing
<1>3. CASE ~(k > 1)
  <2>1. h = g /\ JobLeft(g, p, t, k)
    BY <1>3 DEF Escalated
  <2> QED BY <2>1, TaskStepNothing
<1> QED BY <1>1, <1>2, <1>3

\* An attempt at task t is drawn as started, called, refused or accepted.
LEMMA AttemptDrawn ==
  ASSUME OrdinaryNames, NEW p \in PlanType, NEW t \in p.ids, NEW k \in Attempts(p, t)
  PROVE  \A g, h, n :
           /\ Shape(g, p) /\ TaskNoted(g, h, p, t, TierOf(p, t, k), k) /\ n \in {k - 1, k}
           /\ JobAttempts(g, p, t, n, k) /\ JobLeft(g, p, t, k)
           => /\ TaskStep(g, h, p, t) /\ JobAttempts(h, p, t, k, k) /\ JobLeft(h, p, t, k)
              /\ OutcomeOf(h, NodeOf(p, t, k), k) # "running" => \A j : JobAttempts(h, p, t, k, j)
<1> TAKE g, h, n
<1> HAVE /\ Shape(g, p) /\ TaskNoted(g, h, p, t, TierOf(p, t, k), k) /\ n \in {k - 1, k}
         /\ JobAttempts(g, p, t, n, k) /\ JobLeft(g, p, t, k)
<1>0. t \in Tasks
  BY DEF PlanType
<1>1. TaskStep(g, h, p, t)
  BY TaskSteps DEF TaskNoted
<1>2. /\ JobAttempts(h, p, t, k, k)
      /\ OutcomeOf(h, NodeOf(p, t, k), k) # "running" => \A j : JobAttempts(h, p, t, k, j)
  BY <1>0, AttemptStarts
<1>3. JobLeft(h, p, t, k)
  BY <1>0, AttemptStays
<1> QED BY <1>1, <1>2, <1>3

\* A result is noted as accepted.
AcceptedAt(g, h, t, id) ==
  /\ GraphOK(h)
  /\ \A i : (Has(h, i) <=> Has(g, i)) /\ (Has(g, i) => Same(g, h, i))
  /\ EdgesOf(h) = EdgesOf(g) /\ LanesOf(h) = LanesOf(g)
  /\ DOMAIN AcceptedOf(h) = DOMAIN AcceptedOf(g) \cup {t}
  /\ AcceptedOf(h)[t] = id
  /\ \A u \in DOMAIN AcceptedOf(g) : u # t => AcceptedOf(h)[u] = AcceptedOf(g)[u]

LEMMA Accepting ==
  \A g, h, t, id : GraphOK(g) /\ h = [g EXCEPT !.accepted = With(@, t, id)] => AcceptedAt(g, h, t, id)
<1> TAKE g, h, t, id
<1> HAVE GraphOK(g) /\ h = [g EXCEPT !.accepted = With(@, t, id)]
<1> DEFINE a == With(g.accepted, t, id)
<1>1. h = [g EXCEPT !.accepted = a]
  OBVIOUS
<1>2. DOMAIN a = DOMAIN g.accepted \cup {t} /\ a[t] = id /\ \A u \in DOMAIN g.accepted : u # t => a[u] = g.accepted[u]
  BY DEF With
<1> HIDE DEF a
<1>3. /\ h = [status |-> h.status, nodes |-> h.nodes, edges |-> h.edges, taskLane |-> h.taskLane,
              accepted |-> h.accepted]
      /\ h.nodes = g.nodes /\ h.edges = g.edges /\ h.taskLane = g.taskLane /\ h.accepted = a
  BY <1>1 DEF GraphOK
<1>4. GraphOK(h)
  BY <1>3 DEF GraphOK
<1>5. \A i : (Has(h, i) <=> Has(g, i)) /\ (Has(g, i) => Same(g, h, i))
  BY <1>3 DEF Has, Same, KindOf, LaneOf, RoundOf, StatusOf, Tried, OutcomeOf
<1>6. EdgesOf(h) = EdgesOf(g) /\ LanesOf(h) = LanesOf(g) /\ AcceptedOf(h) = a /\ AcceptedOf(g) = g.accepted
  BY <1>3 DEF EdgesOf, LanesOf, AcceptedOf
<1> QED BY <1>2, <1>4, <1>5, <1>6 DEF AcceptedAt

LEMMA AcceptedStep ==
  ASSUME NEW p, NEW t \in p.ids
  PROVE  \A g, h, id :
           Shape(g, p) /\ AcceptedAt(g, h, t, id) /\ id \in TaskIds(t) /\ Has(g, id) =>
             /\ Shape(h, p) /\ TaskFrame(g, h, t)
             /\ \A n, j : JobAttempts(g, p, t, n, j) => JobAttempts(h, p, t, n, j)
             /\ \A j : JobLeft(g, p, t, j) => JobLeft(h, p, t, j)
<1> TAKE g, h, id
<1> HAVE Shape(g, p) /\ AcceptedAt(g, h, t, id) /\ id \in TaskIds(t) /\ Has(g, id)
<1>1. /\ GraphOK(h) /\ \A i : (Has(h, i) <=> Has(g, i)) /\ (Has(g, i) => Same(g, h, i))
      /\ EdgesOf(h) = EdgesOf(g) /\ LanesOf(h) = LanesOf(g)
  BY DEF AcceptedAt
<1>2. NodesKnown(h, p)
  BY <1>1 DEF Shape, NodesKnown
<1>3. LocalsKnown(h) /\ CloudKnown(h)
  BY <1>1 DEF Shape, LocalsKnown, CloudKnown, Same
<1>4. TasksKnown(h, p)
  BY <1>1 DEF Shape, TasksKnown, TaskKnown, Same
<1>5. ASSUME NEW e \in EdgesOf(h) PROVE EdgeKnown(h, p, e)
  <2>1. EdgeKnown(g, p, e)
    BY <1>1 DEF Shape, EdgesKnown
  <2>2. ToAnswer(g, p, e) => ToAnswer(h, p, e)
    BY <1>1, <2>1 DEF ToAnswer, EdgeKnown, Same
  <2> QED BY <1>1, <2>1, <2>2 DEF EdgeKnown
<1>6. LanesKnown(h, p)
  BY <1>1 DEF Shape, LanesKnown
<1>7. AcceptedKnown(h, p)
  BY <1>1 DEF Shape, AcceptedKnown, AcceptedAt
<1>8. Shape(h, p)
  BY <1>1, <1>2, <1>3, <1>4, <1>5, <1>6, <1>7 DEF Shape, EdgesKnown
<1>9. \A q, u, n, j : JobAttempts(g, q, u, n, j) => JobAttempts(h, q, u, n, j)
  BY <1>1 DEF JobAttempts, Same
<1>10. \A q, u, j : JobLeft(g, q, u, j) => JobLeft(h, q, u, j)
  BY <1>1 DEF JobLeft, Same
<1>11. \A q, u, j : u # t /\ JobAccepted(g, q, u, j) => JobAccepted(h, q, u, j)
  BY <1>1 DEF JobAccepted, AcceptedAt, Same
<1>12. \A u, q, s, k : u # t /\ JobDrawn(g, q, u, s, k) => JobDrawn(h, q, u, s, k)
  BY <1>1, <1>9, <1>10, <1>11 DEF JobDrawn
<1>13. \A u : Undrawn(g, u) => Undrawn(h, u)
  BY <1>1 DEF Undrawn, Same
<1>14. TaskFrame(g, h, t)
  BY <1>1, <1>12, <1>13 DEF TaskFrame
<1> QED BY <1>8, <1>9, <1>10, <1>14

\* What the events of job t, suspended at s, may do to a graph, and where they leave t.
JobSafe(g, h, p, t, s) ==
  /\ Shape(h, p)
  /\ TaskFrame(g, h, t)
  /\ \A u \in DOMAIN AcceptedOf(h) : u \in DOMAIN AcceptedOf(g) \/ (u = t /\ s = "accepting")

JobKnown(g, p, t, s, k) ==
  /\ p \in PlanType /\ t \in p.ids /\ k \in Attempts(p, t)
  /\ Shape(g, p) /\ JobDrawn(g, p, t, s, k)

LEMMA JobSafeStep == \A g, h, p, t, s : TaskStep(g, h, p, t) => JobSafe(g, h, p, t, s)
BY DEF TaskStep, JobSafe

LEMMA JobSafeNothing == \A g, p, t, s : Shape(g, p) => JobSafe(g, g, p, t, s)
BY TaskStepNothing, JobSafeStep

LEMMA JobWaiting ==
  ASSUME OrdinaryNames, NEW g, NEW h, NEW p, NEW t, NEW s, NEW k, JobKnown(g, p, t, s, k),
         \/ s = "waiting"
         \/ s = "starting" /\ TierOf(p, t, k) = "cloud",
         h = Escalated(g, p, t, k)
  PROVE  /\ TaskStep(g, h, p, t)
         /\ JobSafe(g, h, p, t, s)
         /\ t \in DOMAIN LanesOf(h) /\ JobAttempts(h, p, t, k - 1, k) /\ JobLeft(h, p, t, k)
         /\ TierOf(p, t, k) # "cloud" => JobDrawn(h, p, t, "starting", k)
<1>1. /\ p \in PlanType /\ t \in p.ids /\ k \in Attempts(p, t) /\ Shape(g, p) /\ JobDrawn(g, p, t, s, k)
      /\ k \in Nat \ {0}
  BY DEF JobKnown, Attempts
<1>2. s \in ActiveStates /\ Started(s, k) = k - 1 /\ Current(p, t, s, k) = IF k > 1 THEN k - 1 ELSE k
  BY <1>1 DEF ActiveStates, Started, Current, TierOf
<1>3. t \in DOMAIN LanesOf(g) /\ JobAttempts(g, p, t, k - 1, k) /\ JobLeft(g, p, t, IF k > 1 THEN k - 1 ELSE k)
  BY <1>1, <1>2 DEF JobDrawn
<1>4. TaskStep(g, h, p, t) /\ JobAttempts(h, p, t, k - 1, k) /\ JobLeft(h, p, t, k)
  BY <1>1, <1>3, EscalationDrawn
<1>5. t \in DOMAIN LanesOf(h)
  BY <1>3, <1>4 DEF TaskStep
<1>6. TierOf(p, t, k) # "cloud" => Started("starting", k) = k - 1 /\ Current(p, t, "starting", k) = k
  BY DEF Started, Current, TierOf
<1>7. TierOf(p, t, k) # "cloud" => JobDrawn(h, p, t, "starting", k)
  BY <1>4, <1>5, <1>6 DEF JobDrawn
<1> QED BY <1>4, <1>5, <1>7, JobSafeStep

LEMMA JobStarting ==
  ASSUME OrdinaryNames, NEW g, NEW h, NEW p, NEW t, NEW k, JobKnown(g, p, t, "starting", k),
         h = OnTaskStarted(IF TierOf(p, t, k) = "cloud" THEN Escalated(g, p, t, k) ELSE g, t, TierOf(p, t, k), k)
  PROVE  JobSafe(g, h, p, t, "starting") /\ JobDrawn(h, p, t, "calling", k)
<1> DEFINE f == IF TierOf(p, t, k) = "cloud" THEN Escalated(g, p, t, k) ELSE g
<1>1. /\ p \in PlanType /\ t \in p.ids /\ k \in Attempts(p, t) /\ Shape(g, p) /\ JobDrawn(g, p, t, "starting", k)
      /\ k \in Nat \ {0} /\ t \in Tasks
  BY DEF JobKnown, Attempts, PlanType
<1>2. TaskStep(g, f, p, t) /\ t \in DOMAIN LanesOf(f) /\ JobAttempts(f, p, t, k - 1, k) /\ JobLeft(f, p, t, k)
  <2>1. CASE TierOf(p, t, k) = "cloud"
    BY <2>1, JobWaiting
  <2>2. CASE TierOf(p, t, k) # "cloud"
    <3>1. "starting" \in ActiveStates /\ Started("starting", k) = k - 1 /\ Current(p, t, "starting", k) = k
      BY <1>1, <2>2 DEF ActiveStates, Started, Current, TierOf
    <3>2. f = g
      BY <2>2
    <3> HIDE DEF f
    <3>3. t \in DOMAIN LanesOf(g) /\ JobAttempts(g, p, t, k - 1, k) /\ JobLeft(g, p, t, k)
      BY <1>1, <3>1 DEF JobDrawn
    <3> QED BY <1>1, <3>2, <3>3, TaskStepNothing
  <2> QED BY <2>1, <2>2
<1>3. h = TaskEvent(f, t, TierOf(p, t, k), k, "kept", "running")
  BY DEF OnTaskStarted
<1> HIDE DEF f
<1>4. TierOf(p, t, k) \in TierNames
  BY <1>1, NodeOfIs
<1>5. Shape(f, p)
  BY <1>2 DEF TaskStep
<1>6. TaskNoted(f, h, p, t, TierOf(p, t, k), k)
  BY <1>2, <1>3, <1>4, <1>5, TaskEventDrawn
<1>7. TaskStep(f, h, p, t) /\ JobAttempts(h, p, t, k, k) /\ JobLeft(h, p, t, k)
  BY <1>1, <1>2, <1>5, <1>6, AttemptDrawn
<1>8. TaskStep(g, h, p, t)
  BY <1>2, <1>7, TaskStepTrans
<1>9. t \in DOMAIN LanesOf(h)
  BY <1>2, <1>7 DEF TaskStep
<1>10. Started("calling", k) = k /\ Current(p, t, "calling", k) = k
  BY DEF Started, Current
<1>11. JobDrawn(h, p, t, "calling", k)
  BY <1>7, <1>9, <1>10 DEF JobDrawn
<1> QED BY <1>8, <1>11, JobSafeStep

\* Job t between the start of its attempt and its outcome.
JobCallStates == {"calling", "replied", "rejecting", "accepting"}

InCall(g, p, t, k) ==
  /\ p \in PlanType /\ t \in p.ids /\ k \in Attempts(p, t) /\ k \in Nat \ {0} /\ t \in Tasks
  /\ Shape(g, p) /\ t \in DOMAIN LanesOf(g) /\ JobAttempts(g, p, t, k, k) /\ JobLeft(g, p, t, k)
  /\ TierOf(p, t, k) \in TierNames
  /\ NodeOf(p, t, k) = PlaceOf(p, t, TierOf(p, t, k)) /\ NodeOf(p, t, k) \in TaskIds(t)
  /\ Has(g, NodeOf(p, t, k))

LEMMA JobInCall ==
  ASSUME NEW g, NEW p, NEW t, NEW s \in JobCallStates, NEW k, JobKnown(g, p, t, s, k)
  PROVE  InCall(g, p, t, k)
<1>1. /\ p \in PlanType /\ t \in p.ids /\ k \in Attempts(p, t) /\ Shape(g, p) /\ JobDrawn(g, p, t, s, k)
      /\ k \in Nat \ {0} /\ t \in Tasks
  BY DEF JobKnown, Attempts, PlanType
<1>2. s \in ActiveStates /\ Started(s, k) = k /\ Current(p, t, s, k) = k
  BY DEF JobCallStates, ActiveStates, Started, Current
<1>3. t \in DOMAIN LanesOf(g) /\ JobAttempts(g, p, t, k, k) /\ JobLeft(g, p, t, k)
  BY <1>1, <1>2 DEF JobDrawn
<1>4. k \in 1..k
  BY <1>1
<1>5. Has(g, NodeOf(p, t, k))
  BY <1>3, <1>4 DEF JobAttempts
<1> QED BY <1>1, <1>3, <1>5, NodeOfIs DEF InCall

LEMMA JobCalling ==
  ASSUME OrdinaryNames, NEW g, NEW h, NEW p, NEW t, NEW s \in JobCallStates, NEW k, JobKnown(g, p, t, s, k),
         \/ h = OnCallOutput(g, Call("work", TierOf(p, t, k), t, k))
         \/ \E failed \in BOOLEAN : h = OnCallFinished(g, Call("work", TierOf(p, t, k), t, k), failed)
  PROVE  JobSafe(g, h, p, t, s) /\ \A after \in JobCallStates : JobDrawn(h, p, t, after, k)
<1>0. InCall(g, p, t, k)
  BY JobInCall
<1>1. TaskNoted(g, h, p, t, TierOf(p, t, k), k)
  <2>1. /\ Shape(g, p) /\ t \in DOMAIN LanesOf(g) /\ TierOf(p, t, k) \in TierNames
        /\ Has(g, PlaceOf(p, t, TierOf(p, t, k)))
    BY <1>0 DEF InCall
  <2> QED BY <2>1, WorkCallDrawn
<1>2. TaskStep(g, h, p, t) /\ JobAttempts(h, p, t, k, k) /\ JobLeft(h, p, t, k)
  BY <1>0, <1>1, AttemptDrawn DEF InCall
<1>3. t \in DOMAIN LanesOf(h)
  BY <1>0, <1>2 DEF TaskStep, InCall
<1>4. \A after \in JobCallStates : Started(after, k) = k /\ Current(p, t, after, k) = k /\ after # "done"
  BY DEF Started, Current, JobCallStates
<1>5. \A after \in JobCallStates : JobDrawn(h, p, t, after, k)
  BY <1>2, <1>3, <1>4 DEF JobDrawn
<1> QED BY <1>2, <1>5, JobSafeStep

LEMMA JobRejecting ==
  ASSUME OrdinaryNames, NEW g, NEW h, NEW p, NEW t, NEW k, JobKnown(g, p, t, "rejecting", k),
         h = OnTaskInvalid(g, t, TierOf(p, t, k), k)
  PROVE  /\ JobSafe(g, h, p, t, "rejecting")
         /\ JobDrawn(h, p, t, "waiting", k + 1)
         /\ TierOf(p, t, k + 1) = "cloud" => JobDrawn(h, p, t, "starting", k + 1)
<1>0. InCall(g, p, t, k)
  BY JobInCall DEF JobCallStates
<1>1. h = TaskEvent(g, t, TierOf(p, t, k), k, "failed", "failed")
  BY DEF OnTaskInvalid
<1>2. /\ TaskNoted(g, h, p, t, TierOf(p, t, k), k)
      /\ OutcomeOf(h, PlaceOf(p, t, TierOf(p, t, k)), k) = "failed"
  <2>1. Shape(g, p) /\ t \in DOMAIN LanesOf(g) /\ TierOf(p, t, k) \in TierNames
    BY <1>0 DEF InCall
  <2> QED BY <1>1, <2>1, TaskEventDrawn
<1>3. OutcomeOf(h, NodeOf(p, t, k), k) # "running"
  BY <1>0, <1>2 DEF InCall
<1>4. TaskStep(g, h, p, t) /\ JobLeft(h, p, t, k) /\ \A j : JobAttempts(h, p, t, k, j)
  <2>1. Shape(g, p) /\ JobAttempts(g, p, t, k, k) /\ JobLeft(g, p, t, k) /\ k \in {k - 1, k}
    BY <1>0 DEF InCall
  <2>2. p \in PlanType /\ t \in p.ids /\ k \in Attempts(p, t)
    BY <1>0 DEF InCall
  <2> QED BY <1>2, <1>3, <2>1, <2>2, AttemptDrawn
<1>5. t \in DOMAIN LanesOf(h) /\ k \in Nat \ {0}
  BY <1>0, <1>4 DEF TaskStep, InCall
<1>6. /\ Started("waiting", k + 1) = k /\ Current(p, t, "waiting", k + 1) = k
      /\ Started("starting", k + 1) = k
      /\ TierOf(p, t, k + 1) = "cloud" => Current(p, t, "starting", k + 1) = k
  BY <1>5 DEF Started, Current, TierOf
<1>7. JobDrawn(h, p, t, "waiting", k + 1)
  BY <1>4, <1>5, <1>6 DEF JobDrawn
<1>8. TierOf(p, t, k + 1) = "cloud" => JobDrawn(h, p, t, "starting", k + 1)
  BY <1>4, <1>5, <1>6 DEF JobDrawn
<1> QED BY <1>4, <1>7, <1>8, JobSafeStep

LEMMA JobAccepting ==
  ASSUME OrdinaryNames, NEW g, NEW h, NEW p, NEW t, NEW k, JobKnown(g, p, t, "accepting", k),
         h = OnTaskCompleted(g, t, TierOf(p, t, k), k)
  PROVE  JobSafe(g, h, p, t, "accepting") /\ JobDrawn(h, p, t, "done", k)
<1> DEFINE f == TaskEvent(g, t, TierOf(p, t, k), k, "passed", "passed")
           id == NodeOf(p, t, k)
<1>0. InCall(g, p, t, k)
  BY JobInCall DEF JobCallStates
<1>1. /\ TaskNoted(g, f, p, t, TierOf(p, t, k), k)
      /\ StatusOf(f, PlaceOf(p, t, TierOf(p, t, k))) = "passed"
      /\ OutcomeOf(f, PlaceOf(p, t, TierOf(p, t, k)), k) = "passed"
  <2>1. Shape(g, p) /\ t \in DOMAIN LanesOf(g) /\ TierOf(p, t, k) \in TierNames
    BY <1>0 DEF InCall
  <2> QED BY <2>1, TaskEventDrawn
<1>2. TaskNodeId(g, t, TierOf(p, t, k)) = id
  <2>1. LanesKnown(g, p) /\ t \in DOMAIN LanesOf(g) /\ id = PlaceOf(p, t, TierOf(p, t, k))
    BY <1>0 DEF InCall, Shape
  <2> HIDE DEF id
  <2> QED BY <2>1, TaskNodeIdIs
<1>3. h = [f EXCEPT !.accepted = With(@, t, id)]
  BY <1>2 DEF OnTaskCompleted
<1> HIDE DEF f
<1>4. OutcomeOf(f, id, k) # "running" /\ StatusOf(f, id) = "passed"
  BY <1>0, <1>1 DEF InCall
<1>5. TaskStep(g, f, p, t) /\ JobLeft(f, p, t, k) /\ \A j : JobAttempts(f, p, t, k, j)
  <2>1. Shape(g, p) /\ JobAttempts(g, p, t, k, k) /\ JobLeft(g, p, t, k) /\ k \in {k - 1, k}
    BY <1>0 DEF InCall
  <2>2. p \in PlanType /\ t \in p.ids /\ k \in Attempts(p, t)
    BY <1>0 DEF InCall
  <2> QED BY <1>1, <1>4, <2>1, <2>2, AttemptDrawn
<1>6. Shape(f, p) /\ GraphOK(f) /\ t \in DOMAIN LanesOf(f) /\ AcceptedOf(f) = AcceptedOf(g)
  BY <1>0, <1>5 DEF TaskStep, Shape, InCall
<1>7. Has(f, id) /\ id \in TaskIds(t) /\ t \in p.ids
  BY <1>0, <1>1 DEF TaskNoted, InCall
<1> HIDE DEF id
<1>8. AcceptedAt(f, h, t, id)
  BY <1>3, <1>6, Accepting
<1>9. /\ Shape(h, p) /\ TaskFrame(f, h, t) /\ JobLeft(h, p, t, k) /\ \A j : JobAttempts(h, p, t, k, j)
  BY <1>5, <1>6, <1>7, <1>8, AcceptedStep
<1>10. TaskFrame(g, h, t)
  <2>1. TaskFrame(g, f, t)
    BY <1>5 DEF TaskStep
  <2>2. \A u, q, s, n : u # t => /\ JobDrawn(g, q, u, s, n) => JobDrawn(h, q, u, s, n)
                                 /\ Undrawn(g, u) => Undrawn(h, u)
    BY <1>9, <2>1 DEF TaskFrame
  <2>3. \A i \in RunIds : (Has(h, i) <=> Has(g, i)) /\ (Has(g, i) => Same(g, h, i))
    BY <1>9, <2>1 DEF TaskFrame, Same
  <2> QED BY <2>2, <2>3 DEF TaskFrame
<1>11. JobSafe(g, h, p, t, "accepting")
  BY <1>6, <1>8, <1>9, <1>10 DEF JobSafe, AcceptedAt
<1>12. t \in DOMAIN LanesOf(h) /\ t \in DOMAIN AcceptedOf(h) /\ AcceptedOf(h)[t] = id /\ Has(h, id) /\ StatusOf(h, id) = "passed"
  BY <1>4, <1>6, <1>7, <1>8 DEF AcceptedAt, Same
<1>13. JobAccepted(h, p, t, k)
  BY <1>7, <1>12 DEF JobAccepted, id
<1>14. "done" \notin ActiveStates
  BY DEF ActiveStates
<1>15. JobDrawn(h, p, t, "done", k)
  BY <1>9, <1>12, <1>13, <1>14 DEF JobDrawn
<1> QED BY <1>11, <1>15

\* The events of a job's step, drawn.
LEMMA EscalationEvents ==
  ASSUME NEW t, NEW b
  PROVE  LET e == Escalated(graph, plan, t, attempt[t])
         IN  /\ AddAll(graph, Escalation(t)) = e
             /\ PrefixesOf(graph, Escalation(t)) \subseteq {graph, e}
             /\ AddAll(graph, Escalation(t) \o <<b>>) = Add(e, b)
             /\ PrefixesOf(graph, Escalation(t) \o <<b>>) \subseteq {graph, e, Add(e, b)}
<1> DEFINE k == attempt[t]
           a == <<"task_escalated", t, TierOf(plan, t, k - 1), TierOf(plan, t, k)>>
           e == Escalated(graph, plan, t, k)
<1>0. <<>> \o <<b>> = <<b>>
  OBVIOUS
<1>1. CASE k > 1 /\ TierOf(plan, t, k - 1) # TierOf(plan, t, k)
  <2>1. Escalation(t) = <<a>>
    BY <1>1 DEF Escalation, When, AttemptTier, Tier, TierOf
  <2>2. Add(graph, a) = e
    <3>1. Add(graph, a) = OnTaskEscalated(graph, t, TierOf(plan, t, k - 1), TierOf(plan, t, k))
      BY TaskHandlers
    <3> QED BY <1>1, <3>1 DEF Escalated
  <2> HIDE DEF a, e
  <2>3. AddAll(graph, <<a>>) = e /\ AddAll(graph, <<a>> \o <<b>>) = Add(e, b)
    BY <2>2, AddFew
  <2>4. PrefixesOf(graph, <<a>>) \subseteq {graph, e} /\ PrefixesOf(graph, <<a>> \o <<b>>) \subseteq {graph, e, Add(e, b)}
    BY <2>2, PrefixesFew
  <2> QED BY <2>1, <2>3, <2>4 DEF e
<1>2. CASE ~(k > 1 /\ TierOf(plan, t, k - 1) # TierOf(plan, t, k))
  <2>1. Escalation(t) = <<>> /\ e = graph
    BY <1>2 DEF Escalation, When, AttemptTier, Tier, TierOf, Escalated
  <2> HIDE DEF e
  <2>2. AddAll(graph, <<>>) = graph /\ PrefixesOf(graph, <<>>) = {graph}
    BY AddNone, PrefixesNone
  <2>3. AddAll(graph, <<b>>) = Add(graph, b) /\ PrefixesOf(graph, <<b>>) \subseteq {graph, Add(graph, b)}
    BY AddFew, PrefixesFew
  <2> QED BY <1>0, <2>1, <2>2, <2>3 DEF e
<1> QED BY <1>1, <1>2

\* The graph after all events of job t at s.
AfterJob(t) ==
  LET k == attempt[t]
  IN  CASE pc[t] = "waiting"   -> Escalated(graph, plan, t, k)
        [] pc[t] = "starting"  -> OnTaskStarted(IF TierOf(plan, t, k) = "cloud" THEN Escalated(graph, plan, t, k) ELSE graph,
                                                t, TierOf(plan, t, k), k)
        [] pc[t] = "calling"   -> OnCallOutput(graph, Call("work", TierOf(plan, t, k), t, k))
        [] pc[t] = "replied"   -> OnCallFinished(graph, Call("work", TierOf(plan, t, k), t, k),
                                                 reply[t] \notin {"valid", "invalid"})
        [] pc[t] = "rejecting" -> OnTaskInvalid(graph, t, TierOf(plan, t, k), k)
        [] pc[t] = "accepting" -> OnTaskCompleted(graph, t, TierOf(plan, t, k), k)

LEMMA JobEventsDrawn ==
  ASSUME NEW t, pc[t] \in ActiveStates
  PROVE  /\ AddAll(graph, JobEvents(t)) = AfterJob(t)
         /\ \A h \in PrefixesOf(graph, JobEvents(t)) :
              \/ h = graph \/ h = AfterJob(t)
              \/ /\ pc[t] = "starting" /\ TierOf(plan, t, attempt[t]) = "cloud"
                 /\ h = Escalated(graph, plan, t, attempt[t])
<1> DEFINE k == attempt[t]
           e == Escalated(graph, plan, t, k)
<1>0. Tier(t) = TierOf(plan, t, k)
  BY DEF Tier, AttemptTier, TierOf
<1>1. CASE pc[t] = "waiting"
  <2>1. JobEvents(t) = Escalation(t) /\ AfterJob(t) = e
    BY <1>1 DEF JobEvents, AfterJob
  <2> HIDE DEF e
  <2>2. AddAll(graph, Escalation(t)) = e /\ PrefixesOf(graph, Escalation(t)) \subseteq {graph, e}
    BY EscalationEvents DEF e
  <2> QED BY <2>1, <2>2
<1>2. CASE pc[t] = "starting"
  <2> DEFINE b == <<"task_started", t, TierOf(plan, t, k), k>>
  <2>1. JobEvents(t) = When(Tier(t) = "cloud", Escalation(t)) \o <<b>>
    BY <1>0, <1>2 DEF JobEvents
  <2>2. AfterJob(t) = OnTaskStarted(IF TierOf(plan, t, k) = "cloud" THEN e ELSE graph, t, TierOf(plan, t, k), k)
    BY <1>2 DEF AfterJob
  <2>3. CASE TierOf(plan, t, k) = "cloud"
    <3>1. JobEvents(t) = Escalation(t) \o <<b>>
      BY <1>0, <2>1, <2>3 DEF When
    <3>2. AfterJob(t) = OnTaskStarted(e, t, TierOf(plan, t, k), k)
      BY <2>2, <2>3
    <3>3. Add(e, b) = AfterJob(t)
      <4> HIDE DEF e
      <4>1. Add(e, b) = OnTaskStarted(e, t, TierOf(plan, t, k), k)
        BY TaskHandlers
      <4> QED BY <3>2, <4>1
    <3> HIDE DEF b
    <3>4. AddAll(graph, JobEvents(t)) = Add(e, b) /\ PrefixesOf(graph, JobEvents(t)) \subseteq {graph, e, Add(e, b)}
      BY <3>1, EscalationEvents
    <3> QED BY <1>2, <2>3, <3>3, <3>4
  <2>4. CASE TierOf(plan, t, k) # "cloud"
    <3>1. JobEvents(t) = <<>> \o <<b>>
      BY <1>0, <2>1, <2>4 DEF When
    <3>2. <<>> \o <<b>> = <<b>>
      OBVIOUS
    <3>3. Add(graph, b) = AfterJob(t)
      <4>1. Add(graph, b) = OnTaskStarted(graph, t, TierOf(plan, t, k), k)
        BY TaskHandlers
      <4> QED BY <2>2, <2>4, <4>1
    <3> HIDE DEF b
    <3>4. AddAll(graph, <<b>>) = Add(graph, b) /\ PrefixesOf(graph, <<b>>) \subseteq {graph, Add(graph, b)}
      BY AddFew, PrefixesFew
    <3> QED BY <3>1, <3>2, <3>3, <3>4
  <2> QED BY <2>3, <2>4
<1>3. ASSUME NEW b, JobEvents(t) = <<b>>, Add(graph, b) = AfterJob(t)
      PROVE  AddAll(graph, JobEvents(t)) = AfterJob(t) /\ \A h \in PrefixesOf(graph, JobEvents(t)) : h = graph \/ h = AfterJob(t)
  <2>1. AddAll(graph, <<b>>) = Add(graph, b) /\ PrefixesOf(graph, <<b>>) \subseteq {graph, Add(graph, b)}
    BY AddFew, PrefixesFew
  <2> QED BY <1>3, <2>1
<1>4. CASE pc[t] = "calling"
  <2>1. JobEvents(t) = <<<<"call_output", Call("work", TierOf(plan, t, k), t, k)>>>>
    BY <1>0, <1>4 DEF JobEvents, JobCall
  <2>2. Add(graph, <<"call_output", Call("work", TierOf(plan, t, k), t, k)>>) = AfterJob(t)
    BY <1>4, Handlers DEF AfterJob
  <2> QED BY <1>3, <2>1, <2>2
<1>5. CASE pc[t] = "replied"
  <2> DEFINE failed == reply[t] \notin {"valid", "invalid"}
             call == Call("work", TierOf(plan, t, k), t, k)
  <2>1. JobEvents(t) = <<<<"call_finished", call, failed>>>>
    BY <1>0, <1>5 DEF JobEvents, JobCall
  <2>2. AfterJob(t) = OnCallFinished(graph, call, failed)
    BY <1>5 DEF AfterJob
  <2> HIDE DEF failed, call
  <2>3. Add(graph, <<"call_finished", call, failed>>) = AfterJob(t)
    BY <2>2, Handlers
  <2> QED BY <1>3, <2>1, <2>3
<1>6. CASE pc[t] = "rejecting"
  <2>1. JobEvents(t) = <<<<"task_invalid", t, TierOf(plan, t, k), k>>>>
    BY <1>0, <1>6 DEF JobEvents
  <2>2. Add(graph, <<"task_invalid", t, TierOf(plan, t, k), k>>) = AfterJob(t)
    <3>1. AfterJob(t) = OnTaskInvalid(graph, t, TierOf(plan, t, k), k)
      BY <1>6 DEF AfterJob
    <3>2. Add(graph, <<"task_invalid", t, TierOf(plan, t, k), k>>) = OnTaskInvalid(graph, t, TierOf(plan, t, k), k)
      BY TaskHandlers
    <3> QED BY <3>1, <3>2
  <2> QED BY <1>3, <2>1, <2>2
<1>7. CASE pc[t] = "accepting"
  <2>1. JobEvents(t) = <<<<"task_completed", t, TierOf(plan, t, k), k>>>>
    BY <1>0, <1>7 DEF JobEvents
  <2>2. Add(graph, <<"task_completed", t, TierOf(plan, t, k), k>>) = AfterJob(t)
    <3>1. AfterJob(t) = OnTaskCompleted(graph, t, TierOf(plan, t, k), k)
      BY <1>7 DEF AfterJob
    <3>2. Add(graph, <<"task_completed", t, TierOf(plan, t, k), k>>) = OnTaskCompleted(graph, t, TierOf(plan, t, k), k)
      BY TaskHandlers
    <3> QED BY <3>1, <3>2
  <2> QED BY <1>3, <2>1, <2>2
<1> QED BY <1>1, <1>2, <1>4, <1>5, <1>6, <1>7 DEF ActiveStates

\* A step of job t, cancelled or not, in the graph.
LEMMA JobDraws ==
  ASSUME OrdinaryNames, TypeInv, TaskInv, SlotInv, StageFacts, NEW t \in Tasks, DrawJob(t),
         Shape(graph, plan), JobDrawn(graph, plan, t, pc[t], attempt[t])
  PROVE  JobSafe(graph, graph', plan, t, pc[t]) /\ JobDrawn(graph', plan, t, pc'[t], attempt'[t])
<1> DEFINE k == attempt[t]
<1>0. Worker(t) /\ Active(t) /\ pc[t] \in ActiveStates /\ t \in plan.ids /\ pc[t] # "idle"
  BY JobMoves DEF DrawJob, JobStep, Active, ActiveStates, TaskInv, JobFacts
<1>1. JobKnown(graph, plan, t, pc[t], k)
  <2>1. plan \in PlanType
    BY DEF TypeInv, TaskTypes
  <2>2. k \in Attempts(plan, t)
    BY <1>0 DEF StageFacts, Attempts
  <2> QED BY <1>0, <2>1, <2>2 DEF JobKnown
<1>2. Tier(t) = TierOf(plan, t, k)
  BY DEF Tier, AttemptTier, TierOf
<1>3. JobSafe(graph, AfterJob(t), plan, t, pc[t])
  <2>1. CASE pc[t] = "waiting"
    <3>1. AfterJob(t) = Escalated(graph, plan, t, k)
      BY <2>1 DEF AfterJob
    <3> QED BY <1>1, <2>1, <3>1, JobWaiting
  <2>2. CASE pc[t] = "starting"
    <3>1. AfterJob(t) = OnTaskStarted(IF TierOf(plan, t, k) = "cloud" THEN Escalated(graph, plan, t, k) ELSE graph,
                                      t, TierOf(plan, t, k), k)
      BY <2>2 DEF AfterJob
    <3> QED BY <1>1, <2>2, <3>1, JobStarting
  <2>3. CASE pc[t] = "calling"
    <3>1. AfterJob(t) = OnCallOutput(graph, Call("work", TierOf(plan, t, k), t, k)) /\ pc[t] \in JobCallStates
      BY <2>3 DEF AfterJob, JobCallStates
    <3> QED BY <1>1, <3>1, JobCalling
  <2>4. CASE pc[t] = "replied"
    <3>1. /\ AfterJob(t) = OnCallFinished(graph, Call("work", TierOf(plan, t, k), t, k), reply[t] \notin {"valid", "invalid"})
          /\ pc[t] \in JobCallStates
      BY <2>4 DEF AfterJob, JobCallStates
    <3>2. \E failed \in BOOLEAN : AfterJob(t) = OnCallFinished(graph, Call("work", TierOf(plan, t, k), t, k), failed)
      BY <3>1
    <3> QED BY <1>1, <3>1, <3>2, JobCalling
  <2>5. CASE pc[t] = "rejecting"
    <3>1. AfterJob(t) = OnTaskInvalid(graph, t, TierOf(plan, t, k), k)
      BY <2>5 DEF AfterJob
    <3> QED BY <1>1, <2>5, <3>1, JobRejecting
  <2>6. CASE pc[t] = "accepting"
    <3>1. AfterJob(t) = OnTaskCompleted(graph, t, TierOf(plan, t, k), k)
      BY <2>6 DEF AfterJob
    <3> QED BY <1>1, <2>6, <3>1, JobAccepting
  <2> QED BY <1>0, <2>1, <2>2, <2>3, <2>4, <2>5, <2>6 DEF ActiveStates
<1>4. CASE t \in doomed
  <2>1. graph' \in PrefixesOf(graph, JobEvents(t))
    BY <1>4 DEF DrawJob, DrawSome, Draw, PrefixesOf
  <2>2. ASSUME graph' = graph PROVE JobSafe(graph, graph', plan, t, pc[t])
    BY <2>2, JobSafeNothing
  <2>3. ASSUME graph' = AfterJob(t) PROVE JobSafe(graph, graph', plan, t, pc[t])
    BY <1>3, <2>3
  <2>4. ASSUME pc[t] = "starting" /\ TierOf(plan, t, k) = "cloud" /\ graph' = Escalated(graph, plan, t, k) PROVE JobSafe(graph, graph', plan, t, pc[t])
    BY <1>1, <2>4, JobWaiting
  <2>5. JobSafe(graph, graph', plan, t, pc[t])
    BY <1>0, <2>1, <2>2, <2>3, <2>4, JobEventsDrawn
  <2>6. pc'[t] = "cancelled"
    BY <1>0, <1>4, JobMoves
  <2>7. JobDrawn(graph', plan, t, pc'[t], attempt'[t])
    BY <2>6 DEF JobDrawn, ActiveStates
  <2> QED BY <2>5, <2>7
<1>5. CASE t \notin doomed
  <2>0. ~CancelJob(t) /\ pc \in [Tasks -> {"idle"} \cup ActiveStates \cup FinishedStates] /\ attempt \in [Tasks -> Nat]
    BY <1>5 DEF CancelJob, TypeInv, JobTypes
  <2>1. graph' = AfterJob(t)
    BY <1>0, <1>5, JobEventsDrawn DEF DrawJob, Draw
  <2>2. JobSafe(graph, graph', plan, t, pc[t])
    BY <1>3, <2>1
  <2>3. ASSUME pc'[t] \in FinishedStates \ {"done"} PROVE JobDrawn(graph', plan, t, pc'[t], attempt'[t])
    BY <2>3 DEF JobDrawn, ActiveStates, FinishedStates
  <2>4. CASE AcquireSlot(t)
    <3>1. pc[t] = "waiting" /\ pc'[t] = "starting" /\ attempt'[t] = k
      BY <2>0, <2>4 DEF AcquireSlot, At, Goto
    <3>2. TierOf(plan, t, k) # "cloud"
      BY <1>2, <3>1 DEF SlotInv
    <3>3. graph' = Escalated(graph, plan, t, k)
      BY <2>1, <3>1 DEF AfterJob
    <3>4. JobDrawn(graph', plan, t, "starting", k)
      BY <1>1, <3>1, <3>2, <3>3, JobWaiting
    <3> QED BY <2>2, <3>1, <3>4
  <2>5. CASE StartCall(t)
    <3>1. pc[t] = "starting" /\ pc'[t] \in {"calling", "failed"} /\ attempt'[t] = k
      BY <2>0, <2>5 DEF StartCall, At, Goto
    <3>2. graph' = OnTaskStarted(IF TierOf(plan, t, k) = "cloud" THEN Escalated(graph, plan, t, k) ELSE graph,
                                 t, TierOf(plan, t, k), k)
      BY <2>1, <3>1 DEF AfterJob
    <3>3. JobDrawn(graph', plan, t, "calling", k)
      BY <1>1, <3>1, <3>2, JobStarting
    <3>4. "failed" \in FinishedStates \ {"done"}
      BY DEF FinishedStates
    <3> QED BY <2>2, <2>3, <3>1, <3>3, <3>4
  <2>6. CASE Reply(t)
    <3>1. pc[t] = "calling" /\ pc'[t] = "replied" /\ attempt'[t] = k
      BY <2>0, <2>6 DEF Reply, At, Goto
    <3>2. graph' = OnCallOutput(graph, Call("work", TierOf(plan, t, k), t, k))
      BY <2>1, <3>1 DEF AfterJob
    <3>3. pc[t] \in JobCallStates /\ "replied" \in JobCallStates
      BY <3>1 DEF JobCallStates
    <3>4. JobDrawn(graph', plan, t, "replied", k)
      BY <1>1, <3>2, <3>3, JobCalling
    <3> QED BY <2>2, <3>1, <3>4
  <2>7. CASE FinishCall(t)
    <3>1. pc[t] = "replied" /\ pc'[t] \in {"accepting", "rejecting", "failed"} /\ attempt'[t] = k
      BY <2>0, <2>7 DEF FinishCall, At, Goto
    <3>2. graph' = OnCallFinished(graph, Call("work", TierOf(plan, t, k), t, k), reply[t] \notin {"valid", "invalid"})
      BY <2>1, <3>1 DEF AfterJob
    <3>3. \E failed \in BOOLEAN : graph' = OnCallFinished(graph, Call("work", TierOf(plan, t, k), t, k), failed)
      BY <3>2
    <3>4. pc[t] \in JobCallStates /\ "accepting" \in JobCallStates /\ "rejecting" \in JobCallStates
      BY <3>1 DEF JobCallStates
    <3>5. JobDrawn(graph', plan, t, "accepting", k) /\ JobDrawn(graph', plan, t, "rejecting", k)
      BY <1>1, <3>3, <3>4, JobCalling
    <3>6. "failed" \in FinishedStates \ {"done"}
      BY DEF FinishedStates
    <3> QED BY <2>2, <2>3, <3>1, <3>5, <3>6
  <2>8. CASE NextAttempt(t)
    <3>1. pc[t] = "rejecting"
      BY <2>8 DEF NextAttempt, At
    <3>2. graph' = OnTaskInvalid(graph, t, TierOf(plan, t, k), k)
      BY <2>1, <3>1 DEF AfterJob
    <3>3. /\ JobDrawn(graph', plan, t, "waiting", k + 1)
          /\ TierOf(plan, t, k + 1) = "cloud" => JobDrawn(graph', plan, t, "starting", k + 1)
      BY <1>1, <3>1, <3>2, JobRejecting
    <3>4. CASE pc'[t] = "failed"
      <4>1. "failed" \in FinishedStates \ {"done"}
        BY DEF FinishedStates
      <4> QED BY <2>2, <2>3, <3>4, <4>1
    <3>5. CASE pc'[t] # "failed"
      <4>1. pc'[t] = Entry(t, k + 1) /\ attempt'[t] = k + 1
        BY <2>0, <2>8, <3>5 DEF NextAttempt, Goto
      <4>2. pc'[t] = "waiting" \/ (pc'[t] = "starting" /\ TierOf(plan, t, k + 1) = "cloud")
        BY <4>1 DEF Entry, AttemptTier, TierOf
      <4> QED BY <2>2, <3>3, <4>1, <4>2
    <3> QED BY <3>4, <3>5
  <2>9. CASE FinishTask(t)
    <3>1. pc[t] = "accepting" /\ pc'[t] = "done" /\ attempt'[t] = k
      BY <2>0, <2>9 DEF FinishTask, At, Goto
    <3>2. graph' = OnTaskCompleted(graph, t, TierOf(plan, t, k), k)
      BY <2>1, <3>1 DEF AfterJob
    <3>3. JobDrawn(graph', plan, t, "done", k)
      BY <1>1, <3>1, <3>2, JobAccepting
    <3> QED BY <2>2, <3>1, <3>3
  <2> QED BY <1>0, <2>0, <2>4, <2>5, <2>6, <2>7, <2>8, <2>9 DEF Worker
<1> QED BY <1>4, <1>5

-----------------------------------------------------------------------------
(* Preservation *)

EngineInv == TypeInv /\ TaskInv /\ SlotInv /\ CloseInv /\ StageFacts

\* While run_tasks runs, its own nodes matter only as far as LocalsDrawn and CloudDrawn say.
LEMMA TaskStateDrawn ==
  ASSUME main' = main, main \in TaskStates, FrontDrawn, CloudDrawn,
         \A i \in RunIds : (Has(graph', i) <=> Has(graph, i)) /\ (Has(graph, i) => Same(graph, graph', i))
  PROVE  FrontDrawn' /\ CloudDrawn'
<1>1. /\ main' \in TaskStates /\ main' \notin CompletingStates
      /\ main' \notin {"starting", "extracting", "skipping", "solving", "critiquing", "deciding", "escalated",
                       "answering", "synthesizing", "planning", "planned", "completed", "returned"}
  BY DEF TaskStates, CompletingStates
<1>2. FrontDrawn'
  BY <1>1 DEF FrontDrawn, BetweenModels, JudgingModel
<1>3. LocalsDrawn(graph, Len(LocalTiers) + 1) /\ ~Has(graph, AnswerNode) /\ (Has(graph, PlanNode) => Resting(graph, PlanNode))
  BY DEF CloudDrawn
<1>4. \A i \in RunIds : Has(graph', i) /\ Refusing(graph, i) => Refusing(graph', i)
  BY DEF Refusing, Resting, AllOver, Same
<1>5. LocalsDrawn(graph', Len(LocalTiers) + 1)
  BY <1>3, <1>4, RunIdsAre DEF LocalsDrawn
<1>6. ~Has(graph', AnswerNode) /\ (Has(graph', PlanNode) => Resting(graph', PlanNode))
  BY <1>3, RunIdsAre DEF Resting, AllOver, Same
<1>7. CloudDrawn'
  BY <1>1, <1>5, <1>6 DEF CloudDrawn, CloudAnswered
<1> QED BY <1>2, <1>7

LEMMA GraphJob ==
  ASSUME OrdinaryNames, EngineInv, GraphInv, NEW t \in Tasks, DrawJob(t)
  PROVE  GraphInv'
<1>1. /\ main' = main /\ plan' = plan /\ closing' = closing /\ critiqued' = critiqued /\ Worker(t)
  BY DEF DrawJob, JobStep, mainVars
<1>2. Active(t) /\ main \in TaskStates
  BY <1>1, JobMoves DEF EngineInv, TaskInv, JobFacts
<1>3. JobSafe(graph, graph', plan, t, pc[t]) /\ JobDrawn(graph', plan, t, pc'[t], attempt'[t])
  BY JobDraws DEF EngineInv, GraphInv, JobsDrawn
<1>4. TaskFrame(graph, graph', t) /\ Shape(graph', plan)
  BY <1>3 DEF JobSafe
<1>5. \A u \in Tasks \ {t} : pc'[u] = pc[u] /\ attempt'[u] = attempt[u]
  BY <1>1 DEF Worker, AcquireSlot, StartCall, Reply, FinishCall, NextAttempt, FinishTask, CancelJob, Goto, EngineInv,
              TypeInv, JobTypes
<1>6. \A u \in Tasks : JobDrawn(graph', plan, u, pc'[u], attempt'[u])
  BY <1>3, <1>4, <1>5 DEF TaskFrame, GraphInv, JobsDrawn
<1>7. \A u \in DOMAIN AcceptedOf(graph') : u \in results'
  <2>1. results \subseteq results' /\ (pc[t] = "accepting" => t \in results)
    BY <1>1, JobMoves DEF EngineInv, TaskInv, JobFacts
  <2> QED BY <1>3, <2>1 DEF JobSafe, GraphInv, JobsDrawn
<1>8. ASSUME NEW u \in plan.ids, pc'[u] = "idle" PROVE Undrawn(graph', u)
  <2>1. u \in Tasks /\ u # t
    BY <1>1, <1>8, JobMoves DEF EngineInv, TypeInv, TaskTypes, PlanType
  <2> QED BY <1>2, <1>4, <1>5, <1>8, <2>1 DEF TaskFrame, GraphInv, JobsDrawn
<1>9. JobsDrawn(graph)'
  BY <1>1, <1>6, <1>7, <1>8 DEF JobsDrawn
<1>10. FrontDrawn' /\ CloudDrawn'
  BY <1>1, <1>2, <1>4, TaskStateDrawn DEF TaskFrame, GraphInv
<1>11. EndDrawn'
  <2>1. closing = <<>>
    BY <1>2 DEF EngineInv, CloseInv, TimedStates, TaskStates
  <2> QED BY <1>1, <2>1 DEF EndDrawn
<1> QED BY <1>1, <1>4, <1>9, <1>10, <1>11 DEF GraphInv

-----------------------------------------------------------------------------
(* The end of a run in the graph *)

\* synthesizing: the answer's node is made, after the last round, with edges into it.
Synthesized(g, h, p) ==
  /\ Draws(g, h, {AnswerNode})
  /\ Has(h, AnswerNode) /\ Tried(h, AnswerNode) = {}
  /\ \A t \in p.ids : DepthOf(p, t) < RoundOf(h, AnswerNode)
  /\ KindOf(h, AnswerNode) = "answer" /\ LaneOf(h, AnswerNode) = "cloud"
  /\ \A e \in EdgesOf(h) : e \in EdgesOf(g) \/ \E t \in DOMAIN LanesOf(g) : e[1] = <<t>> /\ e[2] = AnswerNode

LEMMA SynthesizingDrawn ==
  ASSUME NEW g, NEW h, NEW p \in PlanType, Accepts(p), Shape(g, p), \A t \in p.ids : Has(g, <<t>>),
         ~Has(g, AnswerNode), h = OnSynthesizing(g)
  PROVE  Synthesized(g, h, p)
<1> DEFINE m == WithAnswerNode(g, FALSE)
           f == SetStatus(m, AnswerNode, "running")
           needed == UNION {g.nodes[id].dependsOn : id \in NodesOfKind(g, {"task"})}
           new == {<<<<t>>, AnswerNode, "result">> : t \in DOMAIN g.taskLane \ needed}
<1>1. h = [f EXCEPT !.edges = f.edges \cup new]
  <2> HIDE DEF f
  <2> QED BY Zenon DEF OnSynthesizing, f
<1>2. \A e \in new : \E t \in DOMAIN LanesOf(g) : e[1] = <<t>> /\ e[2] = AnswerNode
  BY DEF LanesOf
<1> HIDE DEF new
<1>3. GraphOK(g)
  BY DEF Shape
<1>4. Made(g, m, AnswerNode, "answer", "cloud", LastRound(g) + 1, "queued")
  BY <1>3, AnswerNodeMakes
<1>5. GraphOK(m) /\ Has(m, AnswerNode)
  BY <1>4 DEF Made, Draws
<1> HIDE DEF m
<1>6. Marked(m, f, AnswerNode, "running") /\ GraphOK(f)
  BY <1>5, StatusMarks DEF Marked, Draws
<1> HIDE DEF f
<1>7. Draws(f, h, {}) /\ EdgesOf(h) = f.edges \cup new
  BY <1>1, <1>6, EdgesDraw
<1>8. EdgesOf(f) = EdgesOf(g) /\ EdgesOf(f) = f.edges
  BY <1>4, <1>6 DEF Marked, Made, EdgesOf
<1>9. Draws(g, h, {AnswerNode})
  <2>1. Draws(g, m, {AnswerNode}) /\ Draws(m, f, {AnswerNode})
    BY <1>4, <1>6 DEF Made, Marked
  <2>2. Draws(f, h, {AnswerNode})
    BY <1>7, DrawsMore
  <2> QED BY <2>1, <2>2, DrawsTrans
<1>10. Has(f, AnswerNode) /\ Tried(f, AnswerNode) = {} /\ RoundOf(f, AnswerNode) = LastRound(g) + 1
        /\ KindOf(f, AnswerNode) = "answer" /\ LaneOf(f, AnswerNode) = "cloud"
  BY <1>4, <1>5, <1>6 DEF Made, Marked, Draws
<1>11. Has(h, AnswerNode) /\ Tried(h, AnswerNode) = {} /\ RoundOf(h, AnswerNode) = LastRound(g) + 1
        /\ KindOf(h, AnswerNode) = "answer" /\ LaneOf(h, AnswerNode) = "cloud"
  BY <1>7, <1>10 DEF Draws, Same
<1>12. \A t \in p.ids : DepthOf(p, t) < LastRound(g) + 1
  <2>1. LastRound(g) \in Nat /\ \A t \in p.ids : DepthOf(p, t) <= LastRound(g)
    BY LastRoundIs
  <2>2. \A t \in p.ids : DepthOf(p, t) \in Nat
    BY DepthFacts
  <2> QED BY <2>1, <2>2
<1>13. \A e \in EdgesOf(h) : e \in EdgesOf(g) \/ e \in new
  BY <1>7, <1>8
<1> QED BY <1>2, <1>9, <1>11, <1>12, <1>13 DEF Synthesized

LEMMA ShapeSynthesized ==
  ASSUME OrdinaryNames, NEW g, NEW h, NEW p, p.ids \subseteq Tasks, Shape(g, p), ~Has(g, AnswerNode),
         Synthesized(g, h, p)
  PROVE  Shape(h, p)
<1>1. /\ GraphOK(h)
      /\ \A i : i # AnswerNode => (Has(h, i) <=> Has(g, i)) /\ (Has(g, i) => Same(g, h, i))
      /\ \A i : Has(g, i) => Has(h, i)
      /\ LanesOf(h) = LanesOf(g) /\ AcceptedOf(h) = AcceptedOf(g)
  BY DEF Synthesized, Draws
<1>2. NodesKnown(h, p)
  BY <1>1, RunIdsAre DEF Shape, NodesKnown
<1>3. LocalsKnown(h)
  BY <1>1, RunNodesDiffer DEF Shape, LocalsKnown, Same
<1>4. CloudKnown(h)
  BY <1>1, RunNodesDiffer DEF Shape, CloudKnown, Same, Synthesized
<1>5. \A t \in p.ids : AnswerNode \notin TaskIds(t)
  BY TasksAreNoRunNodes, RunIdsAre
<1>6. ASSUME NEW t \in p.ids PROVE TaskKnown(h, p, t)
  <2>1. TaskKnown(g, p, t)
    BY DEF Shape, TasksKnown
  <2>2. Has(h, <<t>>) => Has(g, <<t>>) /\ Same(g, h, <<t>>)
    BY <1>1, <1>5, TaskPlaces
  <2>3. \A tier \in TierNames : Has(h, Retry(t, tier)) => Has(g, Retry(t, tier)) /\ Same(g, h, Retry(t, tier))
    BY <1>1, <1>5, TaskPlaces
  <2> QED BY <2>1, <2>2, <2>3 DEF TaskKnown, Same
<1>7. ASSUME NEW e \in EdgesOf(h) PROVE EdgeKnown(h, p, e)
  <2>1. CASE e \in EdgesOf(g)
    <3>1. EdgeKnown(g, p, e)
      BY <2>1 DEF Shape, EdgesKnown
    <3>2. ~ToAnswer(g, p, e)
      BY <3>1 DEF EdgeKnown, ToAnswer
    <3> QED BY <1>1, <3>1, <3>2 DEF EdgeKnown
  <2>2. ASSUME NEW t \in DOMAIN LanesOf(g), e[1] = <<t>>, e[2] = AnswerNode PROVE EdgeKnown(h, p, e)
    <3>1. t \in p.ids /\ Has(g, <<t>>)
      BY DEF Shape, LanesKnown
    <3>2. ToAnswer(h, p, e)
      BY <2>2, <3>1 DEF ToAnswer, Synthesized
    <3>3. Has(h, e[1]) /\ Has(h, e[2])
      BY <1>1, <2>2, <3>1 DEF Synthesized
    <3> QED BY <3>2, <3>3 DEF EdgeKnown
  <2> QED BY <2>1, <2>2 DEF Synthesized
<1>8. LanesKnown(h, p) /\ AcceptedKnown(h, p)
  BY <1>1 DEF Shape, LanesKnown, AcceptedKnown
<1> QED BY <1>1, <1>2, <1>3, <1>4, <1>6, <1>7, <1>8 DEF Shape, TasksKnown, EdgesKnown

LEMMA RunCompletedDrawn ==
  \A g, h : GraphOK(g) /\ h = OnRunCompleted(g) =>
    /\ RunDraws(g, h) /\ OverallOf(h) = "completed"
    /\ \A i : Has(h, i) <=> Has(g, i)
    /\ \A i : Has(g, i) /\ i # AnswerNode => Same(g, h, i)
    /\ Has(g, AnswerNode) => /\ StatusOf(h, AnswerNode) = "passed"
                             /\ Tried(h, AnswerNode) = Tried(g, AnswerNode)
                             /\ \A n \in Tried(g, AnswerNode) : OutcomeOf(h, AnswerNode, n) = OutcomeOf(g, AnswerNode, n)
<1> TAKE g, h
<1> HAVE GraphOK(g) /\ h = OnRunCompleted(g)
<1> DEFINE f == [g EXCEPT !.status = "completed"]
<1>1. /\ f = [status |-> f.status, nodes |-> f.nodes, edges |-> f.edges, taskLane |-> f.taskLane,
              accepted |-> f.accepted]
      /\ f.nodes = g.nodes /\ f.edges = g.edges /\ f.taskLane = g.taskLane /\ f.accepted = g.accepted
      /\ f.status = "completed"
  BY DEF GraphOK
<1>2. h = IF Has(f, AnswerNode) THEN SetStatus(f, AnswerNode, "passed") ELSE f
  BY Zenon DEF OnRunCompleted
<1> HIDE DEF f
<1>3. GraphOK(f)
  BY <1>1 DEF GraphOK
<1>4. \A i : (Has(f, i) <=> Has(g, i)) /\ Same(g, f, i)
  BY <1>1 DEF Has, Same, KindOf, LaneOf, RoundOf, StatusOf, Tried, OutcomeOf
<1>5. LanesOf(f) = LanesOf(g) /\ AcceptedOf(f) = AcceptedOf(g) /\ EdgesOf(f) = EdgesOf(g) /\ OverallOf(f) = "completed"
  BY <1>1 DEF LanesOf, AcceptedOf, EdgesOf, OverallOf
<1>6. Draws(g, f, {}) /\ EdgesGrow(g, f)
  BY <1>3, <1>4, <1>5 DEF Draws, EdgesGrow, Same
<1>7. RunDraws(g, f)
  <2>1. Draws(g, f, RunIds)
    BY <1>6, DrawsMore
  <2>2. (LocalsKnown(g) => LocalsKnown(f)) /\ (CloudKnown(g) => CloudKnown(f))
    BY <1>4 DEF LocalsKnown, CloudKnown, Same
  <2> QED BY <1>6, <2>1, <2>2 DEF RunDraws
<1>8. CASE ~Has(g, AnswerNode)
  <2>1. h = f
    BY <1>2, <1>4, <1>8
  <2> QED BY <1>4, <1>5, <1>7, <1>8, <2>1
<1>9. CASE Has(g, AnswerNode)
  <2>1. Marked(f, h, AnswerNode, "passed")
    BY <1>2, <1>3, <1>4, <1>9, StatusMarks
  <2>2. RunDraws(f, h)
    BY <1>4, <1>9, <2>1, MarkedRun, RunIdsAre
  <2>3. RunDraws(g, h)
    BY <1>7, <2>2, RunDrawsTrans
  <2>4. OverallOf(h) = "completed" /\ \A i : Has(h, i) <=> Has(g, i)
    BY <1>4, <1>5, <2>1 DEF Marked
  <2>5. \A i : Has(g, i) /\ i # AnswerNode => Same(g, h, i)
    BY <1>4, <2>1 DEF Marked, Draws, Same
  <2>6. /\ StatusOf(h, AnswerNode) = "passed"
        /\ Tried(h, AnswerNode) = Tried(g, AnswerNode)
        /\ \A n \in Tried(g, AnswerNode) : OutcomeOf(h, AnswerNode, n) = OutcomeOf(g, AnswerNode, n)
    BY <1>4, <2>1 DEF Marked, Same
  <2> QED BY <2>3, <2>4, <2>5, <2>6
<1> QED BY <1>8, <1>9

\* run_failed and run_cancelled.
AllStopped(g, h) ==
  /\ GraphOK(h)
  /\ \A i : Has(h, i) <=> Has(g, i)
  /\ \A i : Has(g, i) => /\ KindOf(h, i) = KindOf(g, i) /\ LaneOf(h, i) = LaneOf(g, i) /\ RoundOf(h, i) = RoundOf(g, i)
                         /\ StatusOf(h, i) \notin {"queued", "running"}
                         /\ StatusOf(g, i) \notin {"queued", "running"} => StatusOf(h, i) = StatusOf(g, i)
                         /\ Tried(h, i) = Tried(g, i)
                         /\ \A n \in Tried(g, i) : OutcomeOf(h, i, n) # "running"
  /\ LanesOf(h) = LanesOf(g) /\ AcceptedOf(h) = AcceptedOf(g) /\ EdgesOf(h) = EdgesOf(g)

PutStatus(r, status) == [r EXCEPT !.status = status]
PutOutcomes(r, outcomes) == [r EXCEPT !.attempts = outcomes]

LEMMA PutFacts ==
  \A r, x, y, s : NodeOK(r) /\ s = PutOutcomes(PutStatus(r, x), y) =>
    /\ NodeOK(s) /\ s.kind = r.kind /\ s.lane = r.lane /\ s.round = r.round
    /\ s.status = x /\ s.attempts = y
<1> TAKE r, x, y, s
<1> HAVE NodeOK(r) /\ s = PutOutcomes(PutStatus(r, x), y)
<1> DEFINE q == PutStatus(r, x)
<1>1. NodeOK(q) /\ q.status = x /\ q.kind = r.kind /\ q.lane = r.lane /\ q.round = r.round
  BY DEF NodeOK, PutStatus
<1>2. s = [q EXCEPT !.attempts = y]
  BY DEF PutOutcomes
<1> HIDE DEF q
<1>3. NodeOK(s) /\ s.status = q.status /\ s.kind = q.kind /\ s.lane = q.lane /\ s.round = q.round /\ s.attempts = y
  BY <1>1, <1>2 DEF NodeOK
<1> QED BY <1>1, <1>3

LEMMA StopDrawn ==
  \A g, h, status : GraphOK(g) /\ h = Stop(g, status) => AllStopped(g, h)
<1> TAKE g, h, status
<1> HAVE GraphOK(g) /\ h = Stop(g, status)
<1> DEFINE st(r) == IF r.status \in {"running", "queued"} THEN "stopped" ELSE r.status
           as(r) == [n \in DOMAIN r.attempts |-> IF r.attempts[n] = "running" THEN "stopped" ELSE r.attempts[n]]
           ns == [id \in DOMAIN g.nodes |-> StoppedNode(g.nodes[id])]
<1>0. \A r : StoppedNode(r) = PutOutcomes(PutStatus(r, st(r)), as(r))
  BY Zenon DEF StoppedNode, PutOutcomes, PutStatus
<1>1. h = [g EXCEPT !.status = status, !.nodes = ns]
  BY Zenon DEF Stop
<1>3. \A r : st(r) \notin {"queued", "running"} /\ (r.status \notin {"queued", "running"} => st(r) = r.status)
  OBVIOUS
<1>4. \A r : DOMAIN as(r) = DOMAIN r.attempts /\ \A n \in DOMAIN r.attempts : as(r)[n] # "running"
  OBVIOUS
<1> HIDE DEF st, as
<1>5. DOMAIN ns = DOMAIN g.nodes /\ ns = [id \in DOMAIN ns |-> ns[id]]
  OBVIOUS
<1>6. ASSUME NEW i \in DOMAIN g.nodes
      PROVE  /\ NodeOK(ns[i]) /\ ns[i].kind = g.nodes[i].kind /\ ns[i].lane = g.nodes[i].lane
             /\ ns[i].round = g.nodes[i].round
             /\ ns[i].status = st(g.nodes[i]) /\ ns[i].attempts = as(g.nodes[i])
  <2>1. NodeOK(g.nodes[i])
    BY DEF GraphOK
  <2>2. ns[i] = PutOutcomes(PutStatus(g.nodes[i], st(g.nodes[i])), as(g.nodes[i]))
    BY <1>0
  <2> DEFINE r == g.nodes[i]
             c == ns[i]
             x == st(r)
             y == as(r)
  <2>3. NodeOK(r) /\ c = PutOutcomes(PutStatus(r, x), y)
    BY <2>1, <2>2
  <2> HIDE DEF r, c, x, y
  <2>4. /\ NodeOK(c) /\ c.kind = r.kind /\ c.lane = r.lane /\ c.round = r.round
        /\ c.status = x /\ c.attempts = y
    BY <2>3, PutFacts
  <2> QED BY <2>4 DEF r, c, x, y
<1> HIDE DEF ns
<1>7. /\ h = [status |-> h.status, nodes |-> h.nodes, edges |-> h.edges, taskLane |-> h.taskLane,
              accepted |-> h.accepted]
      /\ h.nodes = ns /\ h.edges = g.edges /\ h.taskLane = g.taskLane /\ h.accepted = g.accepted
  BY <1>1 DEF GraphOK
<1>8. GraphOK(h)
  BY <1>5, <1>6, <1>7 DEF GraphOK
<1>9. \A i : Has(h, i) <=> Has(g, i)
  BY <1>5, <1>7 DEF Has
<1>10. ASSUME NEW i, Has(g, i)
       PROVE  /\ KindOf(h, i) = KindOf(g, i) /\ LaneOf(h, i) = LaneOf(g, i) /\ RoundOf(h, i) = RoundOf(g, i)
              /\ StatusOf(h, i) = st(g.nodes[i]) /\ h.nodes[i].attempts = as(g.nodes[i])
  BY <1>6, <1>7, <1>10 DEF Has, KindOf, LaneOf, RoundOf, StatusOf
<1>11. ASSUME NEW i, Has(g, i)
       PROVE  /\ StatusOf(h, i) \notin {"queued", "running"}
              /\ StatusOf(g, i) \notin {"queued", "running"} => StatusOf(h, i) = StatusOf(g, i)
  BY <1>3, <1>10, <1>11 DEF StatusOf
<1>12. ASSUME NEW i, Has(g, i)
       PROVE  Tried(h, i) = Tried(g, i) /\ \A n \in Tried(g, i) : OutcomeOf(h, i, n) # "running"
  BY <1>4, <1>10, <1>12 DEF Tried, OutcomeOf
<1>13. LanesOf(h) = LanesOf(g) /\ AcceptedOf(h) = AcceptedOf(g) /\ EdgesOf(h) = EdgesOf(g)
  BY <1>7 DEF LanesOf, AcceptedOf, EdgesOf
<1> QED BY <1>8, <1>9, <1>10, <1>11, <1>12, <1>13 DEF AllStopped

LEMMA ShapeStopped ==
  \A g, h, p : Shape(g, p) /\ AllStopped(g, h) => Shape(h, p) /\ AtRest(h)
<1> TAKE g, h, p
<1> HAVE Shape(g, p) /\ AllStopped(g, h)
<1>1. /\ GraphOK(h) /\ \A i : Has(h, i) <=> Has(g, i)
      /\ \A i : Has(g, i) => KindOf(h, i) = KindOf(g, i) /\ LaneOf(h, i) = LaneOf(g, i) /\ RoundOf(h, i) = RoundOf(g, i)
      /\ LanesOf(h) = LanesOf(g) /\ AcceptedOf(h) = AcceptedOf(g) /\ EdgesOf(h) = EdgesOf(g)
  BY DEF AllStopped
<1>2. NodesKnown(h, p) /\ LocalsKnown(h) /\ CloudKnown(h)
  BY <1>1 DEF Shape, NodesKnown, LocalsKnown, CloudKnown
<1>3. TasksKnown(h, p)
  BY <1>1 DEF Shape, TasksKnown, TaskKnown
<1>4. ASSUME NEW e \in EdgesOf(h) PROVE EdgeKnown(h, p, e)
  <2>1. EdgeKnown(g, p, e)
    BY <1>1 DEF Shape, EdgesKnown
  <2>2. ToAnswer(g, p, e) => ToAnswer(h, p, e)
    BY <1>1, <2>1 DEF ToAnswer, EdgeKnown
  <2> QED BY <1>1, <2>1, <2>2 DEF EdgeKnown
<1>5. LanesKnown(h, p) /\ AcceptedKnown(h, p)
  BY <1>1 DEF Shape, LanesKnown, AcceptedKnown
<1>6. AtRest(h)
  BY DEF AllStopped, AtRest, Resting, AllOver
<1> QED BY <1>1, <1>2, <1>3, <1>4, <1>5, <1>6 DEF Shape, EdgesKnown

LEMMA JobStopped ==
  \A g, h, p, t, s, k : AllStopped(g, h) /\ s \notin ActiveStates /\ JobDrawn(g, p, t, s, k) => JobDrawn(h, p, t, s, k)
<1> TAKE g, h, p, t, s, k
<1> HAVE AllStopped(g, h) /\ s \notin ActiveStates /\ JobDrawn(g, p, t, s, k)
<1>1. JobAttempts(g, p, t, k, 0) => JobAttempts(h, p, t, k, 0)
  BY DEF AllStopped, JobAttempts
<1>2. JobLeft(g, p, t, k) => JobLeft(h, p, t, k)
  BY DEF AllStopped, JobLeft
<1>3. JobAccepted(g, p, t, k) => JobAccepted(h, p, t, k)
  BY DEF AllStopped, JobAccepted
<1> QED BY <1>1, <1>2, <1>3 DEF JobDrawn, AllStopped

-----------------------------------------------------------------------------
(* Steps of the main coroutine *)

\* A step that draws nothing and leaves the main coroutine and its tasks alone.
LEMMA GraphUnchanged ==
  ASSUME GraphInv, UNCHANGED <<graph, critiqued, main, rung, sample, route, plan, closing, pc, attempt, results>>
  PROVE  GraphInv'
<1>1. Shape(graph, plan)'
  BY DEF GraphInv
<1>2. JobsDrawn(graph)'
  BY DEF GraphInv, JobsDrawn
<1>3. FrontDrawn'
  BY DEF GraphInv, FrontDrawn, BetweenModels, JudgingModel
<1>4. CloudDrawn'
  BY DEF GraphInv, CloudDrawn, CloudAnswered
<1>5. EndDrawn'
  BY DEF GraphInv, EndDrawn
<1> QED BY <1>1, <1>2, <1>3, <1>4, <1>5 DEF GraphInv

\* The stages after the timeout block ask nothing of the graph but its shape.
LEMMA LeftDrawn ==
  ASSUME main' \in {"failing", "cancelling", "reported", "raised", "cancelled"}
  PROVE  FrontDrawn' /\ CloudDrawn'
BY DEF FrontDrawn, CloudDrawn, BetweenModels, JudgingModel, CloudAnswered, CompletingStates, TaskStates

\* A step of the main coroutine that only draws nodes of its own.
LEMMA RunStep ==
  ASSUME OrdinaryNames, EngineInv, GraphInv, RunDraws(graph, graph'),
         UNCHANGED <<plan, pc, attempt, results>>, main' \in TaskStates => main \in TaskStates
  PROVE  (Shape(graph, plan) /\ JobsDrawn(graph))'
<1>1. plan.ids \subseteq Tasks
  BY DEF EngineInv, TypeInv, TaskTypes, PlanType
<1>2. Shape(graph', plan)
  BY <1>1, ShapeRun DEF GraphInv
<1>3. JobsDrawn(graph)
  BY DEF GraphInv
<1>4. /\ \A t \in DOMAIN AcceptedOf(graph') : t \in results
      /\ \A t \in Tasks : JobDrawn(graph', plan, t, pc[t], attempt[t])
      /\ main \in TaskStates => \A t \in plan.ids : pc[t] = "idle" => Undrawn(graph', t)
  <2>1. \A g, h : JobsDrawn(g) /\ RunDraws(g, h) =>
          /\ \A t \in DOMAIN AcceptedOf(h) : t \in results
          /\ \A t \in Tasks : JobDrawn(h, plan, t, pc[t], attempt[t])
          /\ main \in TaskStates => \A t \in plan.ids : pc[t] = "idle" => Undrawn(h, t)
    BY <1>1, JobsRun DEF JobsDrawn
  <2> QED BY <1>3, <2>1
<1> QED BY <1>2, <1>4 DEF JobsDrawn

\* Nothing has been reported before the run completes.
LEMMA NotYetEnded ==
  ASSUME EngineInv, MainStep, main \in TimedStates \ {"completing", "completed"}
  PROVE  EndDrawn'
<1>1. closing = <<>>
  BY DEF EngineInv, CloseInv
<1>2. closing' = <<>>
  BY <1>1, BeforeTheEnd
<1> QED BY <1>2 DEF EndDrawn

\* The loop over the local models goes on, with those before it refused.
LEMMA ClimbDrawn ==
  ASSUME EngineInv, NEW k \in 0..Len(LocalTiers), ClimbFrom(k),
         \A id : Has(graph', id) => id \in LocalIds, LocalsDrawn(graph', k + 1)
  PROVE  FrontDrawn' /\ CloudDrawn'
<1>1. main' \in {"skipping", "solving", "escalated"} /\ sample' = 0
  BY Climbing DEF EngineInv, TypeInv
<1>2. rung' = k + 1
  BY DEF ClimbFrom
<1>3. main' \notin CompletingStates /\ main' \notin TaskStates
      /\ main' \notin {"starting", "extracting", "answering", "planning", "planned", "assembling", "synthesizing",
                       "completed", "returned", "critiquing", "deciding"}
  BY <1>1 DEF CompletingStates, TaskStates
<1>4. ~JudgingModel'
  BY <1>1, <1>3 DEF JudgingModel
<1>5. FrontDrawn'
  BY <1>1, <1>2, <1>3, <1>4 DEF FrontDrawn
<1>6. CloudDrawn'
  BY <1>3 DEF CloudDrawn, CloudAnswered
<1> QED BY <1>5, <1>6

\* Several events of one step of the main coroutine.
LEMMA EmptyBefore == \A b : <<>> \o <<b>> = <<b>>
OBVIOUS

LEMMA GraphStart ==
  ASSUME OrdinaryNames, EngineInv, GraphInv, Start, Draw(Announced), UNCHANGED critiqued
  PROVE  GraphInv'
<1>1. main = "starting" /\ Announced = <<>>
  BY DEF Start, MainAt, Announced
<1>2. graph' = graph
  BY <1>1, AddNone DEF Draw
<1>3. \A id : ~Has(graph', id)
  BY <1>1, <1>2 DEF GraphInv, FrontDrawn
<1>4. UNCHANGED <<plan, pc, attempt, results>> /\ MainStep
  BY DEF Start, taskVars, jobVars, MainStep
<1>5. main' \notin TaskStates /\ FrontDrawn' /\ CloudDrawn'
  <2>1. CASE request.extract
    <3>1. main' = "extracting"
      BY <2>1 DEF Start
    <3>2. main' \notin CompletingStates /\ main' \notin TaskStates
      BY <3>1 DEF CompletingStates, TaskStates
    <3>3. FrontDrawn' /\ CloudDrawn'
      BY <1>3, <3>1, <3>2 DEF FrontDrawn, CloudDrawn, BetweenModels, JudgingModel, CloudAnswered
    <3> QED BY <3>2, <3>3
  <2>2. CASE ~request.extract
    <3>1. ClimbFrom(0) /\ 0 \in 0..Len(LocalTiers)
      BY <2>2, TierFacts DEF Start
    <3>2. LocalsDrawn(graph', 0 + 1)
      BY <1>3 DEF LocalsDrawn
    <3>3. main' \notin TaskStates
      BY <3>1, Climbing DEF EngineInv, TypeInv, TaskStates
    <3> QED BY <1>3, <3>1, <3>2, <3>3, ClimbDrawn
  <2> QED BY <2>1, <2>2
<1>6. RunDraws(graph, graph')
  BY <1>2, RunDrawsNothing DEF GraphInv, Shape
<1>7. (Shape(graph, plan) /\ JobsDrawn(graph))'
  BY <1>4, <1>5, <1>6, RunStep
<1>8. EndDrawn'
  BY <1>1, <1>4, NotYetEnded DEF TimedStates, FrontStates
<1> QED BY <1>5, <1>7, <1>8 DEF GraphInv

\* The parts of GraphInv that a step of the main coroutine before run_tasks has to show.
LEMMA FrontStep ==
  ASSUME OrdinaryNames, EngineInv, GraphInv, MainStep, main \in FrontStates \cup {"synthesizing"}, main' \notin TaskStates,
         UNCHANGED <<plan, pc, attempt, results>>, RunDraws(graph, graph'), critiqued' \in BOOLEAN,
         FrontDrawn' /\ CloudDrawn'
  PROVE  GraphInv'
<1>1. (Shape(graph, plan) /\ JobsDrawn(graph))'
  BY RunStep
<1>2. EndDrawn'
  BY NotYetEnded DEF TimedStates, FrontStates, FinalStates
<1> QED BY <1>1, <1>2 DEF GraphInv

\* A local node that a step leaves alone is as refused as before.
LEMMA RefusalKept ==
  \A g, h, ids, id : Draws(g, h, ids) /\ id \notin ids /\ Refusing(g, id) /\ Has(h, id) => Has(g, id) /\ Refusing(h, id)
BY DEF Draws, Same, Refusing, Resting, AllOver

\* The k-th local model is drawn as refused, by a step that touches no other node.
LEMMA RefusedNext ==
  ASSUME NEW g, NEW h, NEW k \in 1..Len(LocalTiers), LocalsDrawn(g, k) \/ LocalJudged(g, k),
         Draws(g, h, {Judge(LocalTiers[k])}), Refusing(h, Judge(LocalTiers[k]))
  PROVE  LocalsDrawn(h, k + 1)
<1>1. Has(h, Triage) => Refusing(h, Triage)
  <2>1. Has(g, Triage) => Refusing(g, Triage)
    BY DEF LocalsDrawn, LocalJudged
  <2>2. Triage \notin {Judge(LocalTiers[k])}
    BY RunNodesDiffer
  <2> QED BY <2>1, <2>2 DEF Draws, Same, Refusing, Resting, AllOver
<1>2. ASSUME NEW i \in 1..Len(LocalTiers), Has(h, Judge(LocalTiers[i])) PROVE i < k + 1 /\ Refusing(h, Judge(LocalTiers[i]))
  <2>1. CASE i = k
    BY <2>1
  <2>2. CASE i # k
    <3>1. Judge(LocalTiers[i]) \notin {Judge(LocalTiers[k])}
      BY <2>2, JudgesDiffer
    <3>2. Has(g, Judge(LocalTiers[i]))
      BY <1>2, <3>1 DEF Draws
    <3>3. i <= k /\ (i < k => Refusing(g, Judge(LocalTiers[i])))
      BY <3>2 DEF LocalsDrawn, LocalJudged
    <3>4. i < k /\ i < k + 1
      BY <2>2, <3>3, TierFacts
    <3>5. Refusing(h, Judge(LocalTiers[i]))
      BY <1>2, <3>1, <3>3, <3>4, RefusalKept
    <3> QED BY <3>4, <3>5
  <2> QED BY <2>1, <2>2
<1> QED BY <1>1, <1>2 DEF LocalsDrawn

\* The nodes of the local models stay the only ones.
LEMMA OnlyLocals ==
  \A g, h, id : (\A i : Has(g, i) => i \in LocalIds) /\ Draws(g, h, {id}) /\ id \in LocalIds => \A i : Has(h, i) => i \in LocalIds
BY DEF Draws

LEMMA GraphSkip ==
  ASSUME OrdinaryNames, EngineInv, GraphInv, SkipTier, Draw(Announced), UNCHANGED critiqued
  PROVE  GraphInv'
<1> DEFINE id == Judge(LocalTiers[rung])
<1>1. main = "skipping" /\ ClimbFrom(rung) /\ UNCHANGED <<plan, pc, attempt, results>> /\ MainStep
  BY DEF SkipTier, MainAt, taskVars, jobVars, MainStep
<1>2. rung \in 1..Len(LocalTiers) /\ rung \in 0..Len(LocalTiers)
  BY <1>1, TierFacts DEF EngineInv, TypeInv, LoopFacts
<1>3. graph' = OnLocalSkipped(graph, LocalTiers[rung])
  <2>1. Announced = <<<<"local_skipped", LocalTiers[rung]>>>>
    BY <1>1 DEF Announced, JudgedTier
  <2>2. graph' = Add(graph, <<"local_skipped", LocalTiers[rung]>>)
    BY <2>1, AddFew DEF Draw
  <2> QED BY <2>2, Handlers
<1>4. GraphOK(graph) /\ LocalsDrawn(graph, rung) /\ \A i : Has(graph, i) => i \in LocalIds
  BY <1>1 DEF GraphInv, Shape, FrontDrawn, BetweenModels
<1>5. RunDraws(graph, graph') /\ Made(graph, graph', id, "judge", LocalTiers[rung], 0, "skipped")
  BY <1>2, <1>3, <1>4, SkippedDrawn
<1>6. Refusing(graph', id)
  <2>1. ~Has(graph, id)
    BY <1>2, <1>4 DEF LocalsDrawn
  <2>2. StatusOf(graph', id) = "skipped" /\ Tried(graph', id) = {}
    BY <1>5, <2>1 DEF Made
  <2> HIDE DEF id
  <2> QED BY <2>2 DEF Refusing, Resting, AllOver
<1>7. Draws(graph, graph', {id})
  BY <1>5 DEF Made
<1>8. LocalsDrawn(graph', rung + 1)
  BY <1>2, <1>4, <1>6, <1>7, RefusedNext
<1>9. \A i : Has(graph', i) => i \in LocalIds
  BY <1>2, <1>4, <1>7, OnlyLocals, RunIdsAre
<1>10. FrontDrawn' /\ CloudDrawn'
  BY <1>1, <1>2, <1>8, <1>9, ClimbDrawn
<1>11. main' \notin TaskStates
  BY <1>1, <1>2, Climbing DEF EngineInv, TypeInv, TaskStates
<1>12. main \in FrontStates /\ critiqued' \in BOOLEAN
  BY <1>1 DEF FrontStates, GraphInv
<1> QED BY <1>1, <1>5, <1>10, <1>11, <1>12, FrontStep

\* Events that are not delivered.
LEMMA WhenFacts ==
  \A a, b, c :
    /\ <<a>> \o <<>> = <<a>>
    /\ (<<a>> \o <<b>>) \o <<>> = <<a>> \o <<b>>
    /\ ((<<a>> \o <<b>>) \o <<c>>) \o <<>> = (<<a>> \o <<b>>) \o <<c>>
OBVIOUS

LEMMA SendingWhen ==
  \A events : When(TRUE, events) = events /\ When(FALSE, events) = <<>>
BY DEF When

\* /local-extract has been tried, on a node of its own.
LEMMA ExtractionDrawn ==
  ASSUME NEW g, NEW f, NEW h, NEW failed \in BOOLEAN, GraphOK(g), LocalsKnown(g), \A i : ~Has(g, i),
         f = OnLocalAttempt(g), h = OnCallFinished(f, Call("attempt", "local", "none", 1), failed)
  PROVE  /\ RunDraws(g, h)
         /\ \A i : Has(h, i) <=> i = Triage
         /\ LaneOf(h, Triage) = "local"
         /\ AllOver(h, Triage)
<1>1. RunDraws(g, f) /\ Draws(g, f, {Triage}) /\ Has(f, Triage) /\ Tried(f, Triage) = {1}
  BY LocalAttemptDrawn
<1>2. \A i : Has(f, i) <=> i = Triage
  BY <1>1 DEF Draws
<1>3. CallNodeId(f, Call("attempt", "local", "none", 1)) = Triage
  BY CallNodes
<1>4. "attempt" \in CallOperations /\ "attempt" \notin {"work", "solve", "critique"} /\ GraphOK(f)
  BY <1>1 DEF CallOperations, Draws
<1>5. Noted(f, h, Triage, 1) /\ OutcomeOf(h, Triage, 1) # "running"
  BY <1>1, <1>3, <1>4, CallFinished
<1>6. RunDraws(f, h)
  BY <1>1, <1>5, NotedRun, RunIdsAre
<1>7. RunDraws(g, h)
  BY <1>1, <1>6, RunDrawsTrans
<1>8. \A i : Has(h, i) <=> i = Triage
  BY <1>2, <1>5 DEF Noted
<1>9. LaneOf(h, Triage) = "local"
  BY <1>7, <1>8 DEF RunDraws, LocalsKnown
<1>10. Tried(h, Triage) = {1}
  BY <1>1, <1>5 DEF Noted
<1> QED BY <1>5, <1>7, <1>8, <1>9, <1>10 DEF AllOver

LEMMA GraphExtract ==
  ASSUME OrdinaryNames, EngineInv, GraphInv, DrawExtract
  PROVE  GraphInv'
<1> DEFINE la == <<"local_attempt">>
           call == Call("attempt", "local", "none", 1)
           cf == <<"call_finished", call, CallFailed>>
           f == OnLocalAttempt(graph)
           h == OnCallFinished(f, call, CallFailed)
<1>1. main = "extracting" /\ ExtractReturns /\ UNCHANGED <<plan, pc, attempt, results, critiqued>> /\ MainStep
  BY DEF DrawExtract, ExtractReturns, MainAt, taskVars, jobVars, MainStep
<1>2. GraphOK(graph) /\ LocalsKnown(graph) /\ (\A i : ~Has(graph, i)) /\ CallFailed \in BOOLEAN
  BY <1>1 DEF GraphInv, Shape, FrontDrawn, CallFailed
<1>3. RunDraws(graph, h) /\ (\A i : Has(h, i) <=> i = Triage) /\ LaneOf(h, Triage) = "local" /\ AllOver(h, Triage)
  <2> HIDE DEF f
  <2>1. f = OnLocalAttempt(graph)
    BY DEF f
  <2> QED BY <1>2, <2>1, ExtractionDrawn
<1>4. Replied(CallFailed) = <<la>> \o <<cf>>
  BY <1>1 DEF Replied, Announced, MainCall
<1>5. Add(Add(graph, la), cf) = h
  <2>1. Add(graph, la) = f
    BY Handlers
  <2> HIDE DEF f
  <2>2. Add(f, cf) = h
    BY Handlers
  <2> QED BY <2>1, <2>2
<1>6. GraphOK(h)
  BY <1>3 DEF RunDraws, Draws
<1> HIDE DEF h, cf, la
<1>7. main \in FrontStates /\ critiqued' \in BOOLEAN
  BY <1>1 DEF FrontStates, GraphInv
<1>8. CASE main' = "completing" /\ route' = "local"
  <2>1. ~CallFailed /\ main' \in {"completing", "failing"}
    BY <1>8 DEF CallFailed
  <2>2. graph' = OnLocalAccepted(h, "local")
    <3> DEFINE c == <<"local_accepted", "local">>
    <3>1. Draw(((<<la>> \o <<cf>>) \o When(TRUE, <<c>>)) \o When(FALSE, <<<<"extract_failed">>>>))
      BY <1>4, <1>8, <2>1 DEF DrawExtract
    <3>2. When(TRUE, <<c>>) = <<c>> /\ When(FALSE, <<<<"extract_failed">>>>) = <<>>
      BY SendingWhen
    <3> HIDE DEF c
    <3>5. Draw(((<<la>> \o <<cf>>) \o <<c>>) \o <<>>)
      BY <3>1, <3>2
    <3>3. Draw((<<la>> \o <<cf>>) \o <<c>>)
      BY <3>5, WhenFacts
    <3>4. graph' = Add(h, c)
      BY <1>5, <3>3, AddFew DEF Draw
    <3> QED BY <3>4, Handlers DEF c
  <2>3. ~Has(h, Judge("local")) /\ Has(h, Triage)
    BY <1>3, RunNodesDiffer
  <2>4. RunDraws(h, graph') /\ Marked(h, graph', Triage, "answered")
    BY <1>6, <2>2, <2>3, AcceptedDrawn
  <2>5. RunDraws(graph, graph')
    BY <1>3, <2>4, RunDrawsTrans
  <2>6. (\A i : Has(graph', i) <=> i = Triage) /\ StatusOf(graph', Triage) = "answered" /\ AllOver(graph', Triage)
        /\ LaneOf(graph', Triage) = "local"
    BY <1>3, <2>3, <2>4 DEF Marked, AllOver, Draws
  <2>7. LocalTrusted(graph', "local")
    BY <2>6, RunIdsAre DEF LocalTrusted
  <2>8. FrontDrawn' /\ CloudDrawn' /\ main' \notin TaskStates
    <3>1. main' \notin TaskStates
      BY <1>8 DEF TaskStates
    <3>2. FrontDrawn'
      BY <1>8, <2>7 DEF FrontDrawn, BetweenModels, JudgingModel
    <3>3. CloudDrawn'
      BY <1>8, <3>1 DEF CloudDrawn, CloudAnswered
    <3> QED BY <3>1, <3>2, <3>3
  <2> QED BY <1>1, <1>7, <2>5, <2>8, FrontStep
<1>9. CASE ClimbFrom(0)
  <2>1. main' \in {"skipping", "solving", "escalated"} /\ 0 \in 0..Len(LocalTiers)
    BY <1>9, Climbing, TierFacts DEF EngineInv, TypeInv
  <2>2. ~CallFailed /\ main' \notin {"completing", "failing"} /\ main' # "completing" /\ main' \notin TaskStates
    BY <2>1 DEF CallFailed, TaskStates
  <2>3. graph' = OnExtractFailed(h)
    <3> DEFINE c == <<"extract_failed">>
    <3>1. Draw(((<<la>> \o <<cf>>) \o When(FALSE, <<<<"local_accepted", "local">>>>)) \o When(TRUE, <<c>>))
      BY <1>4, <2>2 DEF DrawExtract
    <3>2. When(TRUE, <<c>>) = <<c>> /\ When(FALSE, <<<<"local_accepted", "local">>>>) = <<>>
      BY SendingWhen
    <3> HIDE DEF c
    <3>5. Draw(((<<la>> \o <<cf>>) \o <<>>) \o <<c>>)
      BY <3>1, <3>2
    <3>3. Draw((<<la>> \o <<cf>>) \o <<c>>)
      BY <3>5, WhenFacts
    <3>4. graph' = Add(h, c)
      BY <1>5, <3>3, AddFew DEF Draw
    <3> QED BY <3>4, Handlers DEF c
  <2>4. RunDraws(h, graph') /\ Marked(h, graph', Triage, "escalated")
    BY <1>3, <1>6, <2>3, ExtractFailedDrawn
  <2>5. RunDraws(graph, graph')
    BY <1>3, <2>4, RunDrawsTrans
  <2>6. (\A i : Has(graph', i) <=> i = Triage) /\ Refusing(graph', Triage)
    <3>1. \A i : Has(graph', i) <=> i = Triage
      BY <1>3, <2>4 DEF Marked
    <3>2. StatusOf(graph', Triage) = "escalated" /\ AllOver(graph', Triage)
      BY <1>3, <2>4 DEF Marked, AllOver
    <3> QED BY <3>1, <3>2 DEF Refusing, Resting
  <2>7. LocalsDrawn(graph', 0 + 1)
    BY <2>6, RunNodesDiffer DEF LocalsDrawn
  <2>8. FrontDrawn' /\ CloudDrawn'
    BY <1>9, <2>1, <2>6, <2>7, ClimbDrawn, RunIdsAre
  <2> QED BY <1>1, <1>7, <2>2, <2>5, <2>8, FrontStep
<1>10. CASE main' \in {"failing", "cancelling"}
  <2>1. FrontDrawn' /\ CloudDrawn' /\ main' \notin TaskStates
    BY <1>10, LeftDrawn DEF TaskStates
  <2>2. RunDraws(graph, graph')
    <3> SUFFICES graph' \in {h, OnExtractFailed(h)}
      BY <1>3, <1>6, ExtractFailedDrawn, RunDrawsTrans
    <3>1. When(main' = "completing", <<<<"local_accepted", "local">>>>) = <<>>
      BY <1>10 DEF When
    <3>2. CASE main' = "failing"
      <4>1. Draw(((<<la>> \o <<cf>>) \o <<>>) \o When(FALSE, <<<<"extract_failed">>>>))
        BY <1>4, <3>1, <3>2 DEF DrawExtract
      <4>2. Draw(<<la>> \o <<cf>>)
        BY <4>1, SendingWhen, WhenFacts
      <4> QED BY <1>5, <4>2, AddFew DEF Draw
    <3>3. CASE main' = "cancelling"
      <4> DEFINE c == <<"extract_failed">>
      <4>1. Draw(((<<la>> \o <<cf>>) \o <<>>) \o When(TRUE, <<c>>))
        BY <1>4, <3>1, <3>3 DEF DrawExtract
      <4> HIDE DEF c
      <4>2. Draw((<<la>> \o <<cf>>) \o <<c>>)
        BY <4>1, SendingWhen, WhenFacts
      <4>3. graph' = Add(h, c)
        BY <1>5, <4>2, AddFew DEF Draw
      <4> QED BY <4>3, Handlers DEF c
    <3> QED BY <1>10, <3>2, <3>3
  <2> QED BY <1>1, <1>7, <2>1, <2>2, FrontStep
<1> QED BY <1>1, <1>8, <1>9, <1>10 DEF ExtractReturns, Raise

\* An event that is only sent under a condition, and those after it.
LEMMA AddWhen ==
  ASSUME NEW g, NEW condition \in BOOLEAN, NEW a, NEW b, NEW c
  PROVE  \A e, s : e = (IF condition THEN Add(g, a) ELSE g) /\ s = When(condition, <<a>>) =>
           /\ AddAll(g, s \o <<b>>) = Add(e, b)
           /\ AddAll(g, (s \o <<b>>) \o <<c>>) = Add(Add(e, b), c)
           /\ PrefixesOf(g, s \o <<b>>) \subseteq {g, e, Add(e, b)}
<1> TAKE e, s
<1> HAVE e = (IF condition THEN Add(g, a) ELSE g) /\ s = When(condition, <<a>>)
<1>1. CASE condition
  <2>1. s = <<a>> /\ e = Add(g, a)
    BY <1>1 DEF When
  <2>2. AddAll(g, s \o <<b>>) = Add(e, b) /\ AddAll(g, (s \o <<b>>) \o <<c>>) = Add(Add(e, b), c)
    BY <2>1, AddFew
  <2>3. PrefixesOf(g, s \o <<b>>) \subseteq {g, e, Add(e, b)}
    <3>1. PrefixesOf(g, <<a>> \o <<b>>) \subseteq {g, Add(g, a), Add(Add(g, a), b)}
      BY PrefixesFew
    <3> QED BY <2>1, <3>1
  <2> QED BY <2>2, <2>3
<1>2. CASE ~condition
  <2>1. s = <<>> /\ e = g /\ <<>> \o <<b>> = <<b>>
    BY <1>2, EmptyBefore DEF When
  <2>2. AddAll(g, s \o <<b>>) = Add(e, b) /\ AddAll(g, (s \o <<b>>) \o <<c>>) = Add(Add(e, b), c)
    BY <2>1, AddFew
  <2>3. PrefixesOf(g, s \o <<b>>) \subseteq {g, e, Add(e, b)}
    <3>1. PrefixesOf(g, <<b>>) \subseteq {g, Add(g, b)}
      BY PrefixesFew
    <3> QED BY <2>1, <3>1
  <2> QED BY <2>2, <2>3
<1> QED BY <1>1, <1>2

\* The k-th local model is judged on, or begins to be.
LEMMA JudgingOn ==
  ASSUME NEW g, NEW h, NEW k \in 1..Len(LocalTiers), LocalsDrawn(g, k) \/ LocalJudged(g, k),
         Draws(g, h, {Judge(LocalTiers[k])}), Has(h, Judge(LocalTiers[k]))
  PROVE  LocalJudged(h, k)
<1>1. Has(h, Triage) => Refusing(h, Triage)
  <2>1. Has(g, Triage) => Refusing(g, Triage)
    BY DEF LocalsDrawn, LocalJudged
  <2>2. Triage \notin {Judge(LocalTiers[k])}
    BY RunNodesDiffer
  <2> QED BY <2>1, <2>2 DEF Draws, Same, Refusing, Resting, AllOver
<1>2. ASSUME NEW i \in 1..Len(LocalTiers), Has(h, Judge(LocalTiers[i]))
      PROVE  i <= k /\ (i < k => Refusing(h, Judge(LocalTiers[i])))
  <2>1. CASE i = k
    BY <2>1, TierFacts
  <2>2. CASE i # k
    <3>1. Judge(LocalTiers[i]) \notin {Judge(LocalTiers[k])}
      BY <2>2, JudgesDiffer
    <3>2. Has(g, Judge(LocalTiers[i]))
      BY <1>2, <3>1 DEF Draws
    <3>3. i <= k /\ (i < k => Refusing(g, Judge(LocalTiers[i])))
      BY <3>2, TierFacts DEF LocalsDrawn, LocalJudged
    <3>4. Refusing(g, Judge(LocalTiers[i])) => Refusing(h, Judge(LocalTiers[i]))
      BY <1>2, <3>1, RefusalKept
    <3> QED BY <3>3, <3>4
  <2> QED BY <2>1, <2>2
<1> QED BY <1>1, <1>2 DEF LocalJudged

\* A model that is judged further.
LEMMA JudgingDrawn ==
  ASSUME main' \in {"solving", "critiquing", "deciding"}, main' = "solving" => sample' # 0,
         \A id : Has(graph', id) => id \in LocalIds, LocalJudged(graph', rung'),
         \A n \in Tried(graph', Judge(LocalTiers[rung'])) :
            OutcomeOf(graph', Judge(LocalTiers[rung']), n) = "running" =>
              main' = "deciding" /\ critiqued' /\ n = sample' + 1
  PROVE  FrontDrawn' /\ CloudDrawn' /\ main' \notin TaskStates
<1>1. main' \notin TaskStates /\ main' \notin CompletingStates
      /\ main' \notin {"starting", "extracting", "answering", "planning", "planned", "assembling", "synthesizing",
                       "completed", "returned", "skipping", "escalated"}
  BY DEF TaskStates, CompletingStates
<1>2. ~BetweenModels'
  BY <1>1 DEF BetweenModels
<1>3. FrontDrawn'
  BY <1>1, <1>2 DEF FrontDrawn
<1>4. CloudDrawn'
  BY <1>1 DEF CloudDrawn, CloudAnswered
<1> QED BY <1>1, <1>3, <1>4

\* The node of the model that is asked, before its answer.
Asked == IF sample = 0 THEN OnLocalSolve(graph, LocalTiers[rung]) ELSE graph

LEMMA AskedDrawn ==
  ASSUME EngineInv, GraphInv, main = "solving"
  PROVE  LET id == Judge(LocalTiers[rung])
         IN  /\ rung \in 1..Len(LocalTiers)
             /\ RunDraws(graph, Asked)
             /\ \A i : Has(Asked, i) => i \in LocalIds
             /\ Has(Asked, id) /\ LocalJudged(Asked, rung)
             /\ AllOver(Asked, id)
             /\ GraphOK(Asked)
<1> DEFINE id == Judge(LocalTiers[rung])
<1>1. rung \in 1..Len(LocalTiers)
  BY DEF EngineInv, TypeInv, LoopFacts
<1>2. GraphOK(graph) /\ \A i : Has(graph, i) => i \in LocalIds
  BY DEF GraphInv, Shape, FrontDrawn
<1>3. id \in LocalIds
  BY <1>1, RunIdsAre
<1>4. CASE sample = 0
  <2>1. Asked = OnLocalSolve(graph, LocalTiers[rung])
    BY <1>4 DEF Asked
  <2>2. LocalsDrawn(graph, rung)
    BY <1>4 DEF GraphInv, FrontDrawn, BetweenModels
  <2>3. ~Has(graph, id)
    BY <1>1, <2>2, TierFacts DEF LocalsDrawn
  <2>4. RunDraws(graph, Asked) /\ Draws(graph, Asked, {id}) /\ Has(Asked, id) /\ Tried(Asked, id) = {}
    BY <1>1, <1>2, <2>1, <2>3, SolveDrawn
  <2>5. LocalJudged(Asked, rung)
    BY <1>1, <2>2, <2>4, JudgingOn
  <2>6. \A i : Has(Asked, i) => i \in LocalIds
    <3> HIDE DEF id
    <3> QED BY <1>2, <1>3, <2>4, OnlyLocals
  <2>7. GraphOK(Asked) /\ AllOver(Asked, id)
    BY <2>4 DEF Draws, AllOver
  <2> QED BY <1>1, <2>4, <2>5, <2>6, <2>7
<1>5. CASE sample # 0
  <2>1. Asked = graph
    BY <1>5 DEF Asked
  <2>2. LocalJudged(graph, rung) /\ \A n \in Tried(graph, id) : OutcomeOf(graph, id, n) = "running" => main = "deciding"
    BY <1>5 DEF GraphInv, FrontDrawn, JudgingModel
  <2>3. AllOver(graph, id)
    BY <2>2 DEF AllOver
  <2>4. Has(graph, id)
    BY <2>2 DEF LocalJudged
  <2> QED BY <1>1, <1>2, <2>1, <2>2, <2>3, <2>4, RunDrawsNothing
<1> QED BY <1>4, <1>5

\* A call of the k-th local model has ended.
LEMMA LocalCallDrawn ==
  ASSUME NEW g, NEW h, NEW k \in 1..Len(LocalTiers), NEW operation \in {"solve", "critique"}, NEW n, NEW failed \in BOOLEAN,
         GraphOK(g), \A i : Has(g, i) => i \in LocalIds, LocalJudged(g, k),
         h = OnCallFinished(g, Call(operation, LocalTiers[k], "none", n), failed)
  PROVE  /\ RunDraws(g, h)
         /\ Noted(g, h, Judge(LocalTiers[k]), n)
         /\ LocalJudged(h, k)
         /\ \A i : Has(h, i) => i \in LocalIds
<1> DEFINE id == Judge(LocalTiers[k])
<1>1. id = CallNodeId(g, Call(operation, LocalTiers[k], "none", n))
  BY CallNodes
<1>2. operation \in CallOperations /\ Has(g, id) /\ id \in RunIds /\ id \in LocalIds
  BY RunIdsAre DEF CallOperations, LocalJudged
<1>3. Noted(g, h, id, n)
  <2> HIDE DEF id
  <2> QED BY <1>1, <1>2, CallFinished
<1>4. RunDraws(g, h)
  BY <1>2, <1>3, NotedRun
<1>5. Draws(g, h, {id}) /\ \A i : Has(h, i) <=> Has(g, i)
  BY <1>3 DEF Noted
<1>6. LocalJudged(h, k)
  BY <1>2, <1>5, JudgingOn
<1> QED BY <1>3, <1>4, <1>5, <1>6

\* The events of the await for a local model's answer.
LEMMA SolveEvents ==
  ASSUME main = "solving", NEW failed \in BOOLEAN, NEW c
  PROVE  LET h == OnCallFinished(Asked, Call("solve", LocalTiers[rung], "none", sample + 1), failed)
         IN  AddAll(graph, Replied(failed)) = h /\ AddAll(graph, Replied(failed) \o <<c>>) = Add(h, c)
<1> DEFINE call == Call("solve", LocalTiers[rung], "none", sample + 1)
           a == <<"local_solve", LocalTiers[rung]>>
           b == <<"call_finished", call, failed>>
           h == OnCallFinished(Asked, call, failed)
<1>1. Replied(failed) = When(sample = 0, <<a>>) \o <<b>>
  BY DEF Replied, Announced, MainCall, JudgedTier
<1>2. Asked = IF sample = 0 THEN Add(graph, a) ELSE graph
  BY Handlers DEF Asked
<1>3. Add(Asked, b) = h
  <2> HIDE DEF call
  <2> QED BY CallHandler
<1> HIDE DEF a, b
<1> SUFFICES AddAll(graph, Replied(failed)) = Add(Asked, b) /\ AddAll(graph, Replied(failed) \o <<c>>) = Add(Add(Asked, b), c)
  BY <1>3
<1> HIDE DEF h
<1>4. CASE sample = 0
  <2>1. Replied(failed) = <<a>> \o <<b>> /\ Asked = Add(graph, a)
    BY <1>1, <1>2, <1>4 DEF When
  <2>2. /\ AddAll(graph, <<a>> \o <<b>>) = Add(Add(graph, a), b)
        /\ AddAll(graph, (<<a>> \o <<b>>) \o <<c>>) = Add(Add(Add(graph, a), b), c)
    BY AddFew
  <2> QED BY <2>1, <2>2
<1>5. CASE sample # 0
  <2>1. Replied(failed) = <<b>> /\ Asked = graph
    BY <1>1, <1>2, <1>5, EmptyBefore DEF When
  <2>2. AddAll(graph, <<b>>) = Add(Asked, b) /\ AddAll(graph, <<b>> \o <<c>>) = Add(Add(Asked, b), c)
    BY <2>1, AddFew
  <2> QED BY <2>1, <2>2
<1> QED BY <1>4, <1>5

LEMMA SampleEvent ==
  ASSUME NEW g, NEW tier, NEW n, NEW asks
  PROVE  Add(g, <<"local_sample", tier, n, asks>>) = OnLocalSample(g, tier, n, asks)
BY DEF Add

LEMMA GraphSolve ==
  ASSUME OrdinaryNames, EngineInv, GraphInv, DrawSolve
  PROVE  GraphInv'
<1> DEFINE id == Judge(LocalTiers[rung])
           h(failed) == OnCallFinished(Asked, Call("solve", LocalTiers[rung], "none", sample + 1), failed)
<1>1. main = "solving" /\ SolveReturns /\ UNCHANGED <<plan, pc, attempt, results, rung>> /\ critiqued' = FALSE /\ MainStep
  BY DEF DrawSolve, SolveReturns, MainAt, taskVars, jobVars, MainStep
<1>2. /\ rung \in 1..Len(LocalTiers) /\ RunDraws(graph, Asked) /\ (\A i : Has(Asked, i) => i \in LocalIds)
      /\ Has(Asked, id) /\ LocalJudged(Asked, rung) /\ AllOver(Asked, id) /\ GraphOK(Asked)
  BY <1>1, AskedDrawn
<1>3. ASSUME NEW failed \in BOOLEAN
      PROVE  /\ RunDraws(Asked, h(failed)) /\ Noted(Asked, h(failed), id, sample + 1)
             /\ LocalJudged(h(failed), rung) /\ \A i : Has(h(failed), i) => i \in LocalIds
  <2> DEFINE f == h(failed)
  <2>1. f = OnCallFinished(Asked, Call("solve", LocalTiers[rung], "none", sample + 1), failed)
    OBVIOUS
  <2> HIDE DEF f
  <2>2. "solve" \in {"solve", "critique"}
    OBVIOUS
  <2>3. /\ RunDraws(Asked, f) /\ Noted(Asked, f, id, sample + 1)
        /\ LocalJudged(f, rung) /\ \A i : Has(f, i) => i \in LocalIds
    BY <1>2, <2>1, <2>2, LocalCallDrawn
  <2> QED BY <2>3 DEF f
<1>4. main \in FrontStates /\ critiqued' \in BOOLEAN
  BY <1>1 DEF FrontStates
<1> HIDE DEF h
<1>5. CASE main' \in {"failing", "cancelling"}
  <2>1. CallFailed
    BY <1>1, <1>5 DEF SolveReturns, Raise, CallFailed
  <2>2. graph' = h(TRUE)
    BY <1>1, <2>1, SolveEvents DEF DrawSolve, Draw, h
  <2>3. RunDraws(graph, graph')
    BY <1>2, <1>3, <2>2, RunDrawsTrans
  <2>4. FrontDrawn' /\ CloudDrawn' /\ main' \notin TaskStates
    BY <1>5, LeftDrawn DEF TaskStates
  <2> QED BY <1>1, <1>4, <2>3, <2>4, FrontStep
<1>6. CASE main' \notin {"failing", "cancelling"}
  <2>1. sample' = sample + 1 /\ main' \in {"solving", "critiquing", "deciding"} /\ ~CallFailed
    BY <1>1, <1>6 DEF SolveReturns, Raise, CallFailed
  <2>2. PICK failed \in BOOLEAN : Draw(Replied(failed) \o <<<<"local_sample", JudgedTier, sample', distrust'>>>>)
    BY <2>1 DEF DrawSolve
  <2> DEFINE f == h(failed)
             asks == distrust'
             n == sample + 1
  <2>3. graph' = OnLocalSample(f, LocalTiers[rung], n, asks)
    <3> DEFINE c == <<"local_sample", LocalTiers[rung], n, asks>>
    <3>1. c = <<"local_sample", JudgedTier, sample', distrust'>>
      BY <2>1 DEF JudgedTier
    <3>2. Add(f, c) = OnLocalSample(f, LocalTiers[rung], n, asks)
      BY SampleEvent
    <3> HIDE DEF c
    <3>3. graph' = Add(f, c)
      BY <1>1, <2>2, <3>1, SolveEvents DEF Draw, h
    <3> QED BY <3>2, <3>3
  <2>4. RunDraws(Asked, f) /\ Noted(Asked, f, id, n) /\ LocalJudged(f, rung) /\ \A i : Has(f, i) => i \in LocalIds
    BY <1>3
  <2> HIDE DEF f, asks
  <2>5. GraphOK(f) /\ Has(f, id)
    BY <1>2, <2>4 DEF Noted, Draws
  <2>6. RunDraws(f, graph') /\ Noted(f, graph', id, n) /\ OutcomeOf(graph', id, n) # "running"
    <3> HIDE DEF n
    <3> QED BY <1>2, <2>3, <2>5, SampleDrawn
  <2>7. RunDraws(graph, graph')
    <3>1. RunDraws(graph, f)
      BY <1>2, <2>4, RunDrawsTrans
    <3> QED BY <2>6, <3>1, RunDrawsTrans
  <2>8. Draws(f, graph', {id}) /\ (\A i : Has(graph', i) <=> Has(f, i)) /\ Has(graph', id)
    BY <2>5, <2>6 DEF Noted
  <2>9. LocalJudged(graph', rung) /\ \A i : Has(graph', i) => i \in LocalIds
    BY <1>2, <2>4, <2>8, JudgingOn
  <2>10. AllOver(graph', id)
    <3> HIDE DEF n
    <3> QED BY <1>2, <2>4, <2>6 DEF AllOver, Noted
  <2>11. sample \in Nat /\ sample' # 0
    BY <2>1 DEF EngineInv, TypeInv, RouteTypes
  <2>12. FrontDrawn' /\ CloudDrawn' /\ main' \notin TaskStates
    <3>1. \A m \in Tried(graph', Judge(LocalTiers[rung'])) : OutcomeOf(graph', Judge(LocalTiers[rung']), m) # "running"
      BY <1>1, <2>10 DEF AllOver
    <3> QED BY <1>1, <2>1, <2>9, <2>11, <3>1, JudgingDrawn
  <2> QED BY <1>1, <1>4, <2>7, <2>12, FrontStep
<1> QED BY <1>5, <1>6

LEMMA GraphCritique ==
  ASSUME OrdinaryNames, EngineInv, GraphInv, DrawCritique
  PROVE  GraphInv'
<1> DEFINE id == Judge(LocalTiers[rung])
           n == sample + 1
           f == OnLocalCritique(graph, LocalTiers[rung], sample)
           h(failed) == OnCallFinished(f, Call("critique", LocalTiers[rung], "none", n), failed)
<1>1. /\ main = "critiquing" /\ CritiqueReturns /\ UNCHANGED <<plan, pc, attempt, results, rung, sample>> /\ critiqued' = TRUE
      /\ MainStep
  BY DEF DrawCritique, CritiqueReturns, MainAt, taskVars, jobVars, MainStep
<1>2. rung \in 1..Len(LocalTiers)
  BY <1>1 DEF EngineInv, TypeInv, LoopFacts
<1>3. GraphOK(graph) /\ (\A i : Has(graph, i) => i \in LocalIds) /\ LocalJudged(graph, rung) /\ AllOver(graph, id)
  <2>1. LocalJudged(graph, rung) /\ \A m \in Tried(graph, id) : OutcomeOf(graph, id, m) = "running" => main = "deciding"
    BY <1>1 DEF GraphInv, FrontDrawn, JudgingModel
  <2> QED BY <1>1, <2>1 DEF GraphInv, Shape, FrontDrawn, AllOver
<1>4. Has(graph, id)
  BY <1>2, <1>3 DEF LocalJudged
<1>5. RunDraws(graph, f) /\ Noted(graph, f, id, n)
  BY <1>2, <1>3, <1>4, CritiqueDrawn
<1>6. Draws(graph, f, {id}) /\ Has(f, id) /\ GraphOK(f) /\ \A i : Has(f, i) <=> Has(graph, i)
  BY <1>4, <1>5 DEF Noted, Draws
<1>7. LocalJudged(f, rung)
  <2> HIDE DEF f
  <2> QED BY <1>2, <1>3, <1>6, JudgingOn
<1>8. \A i : Has(f, i) => i \in LocalIds
  BY <1>3, <1>6
<1>9. ASSUME NEW failed \in BOOLEAN
      PROVE  /\ RunDraws(f, h(failed)) /\ Noted(f, h(failed), id, n)
             /\ LocalJudged(h(failed), rung) /\ \A i : Has(h(failed), i) => i \in LocalIds
  <2> HIDE DEF f, n
  <2> DEFINE r == h(failed)
  <2>1. r = OnCallFinished(f, Call("critique", LocalTiers[rung], "none", n), failed)
    OBVIOUS
  <2> HIDE DEF r
  <2>2. "critique" \in {"solve", "critique"}
    OBVIOUS
  <2>3. RunDraws(f, r) /\ Noted(f, r, id, n) /\ LocalJudged(r, rung) /\ \A i : Has(r, i) => i \in LocalIds
    BY <1>2, <1>6, <1>7, <1>8, <2>1, <2>2, LocalCallDrawn
  <2> QED BY <2>3 DEF r
<1>10. ASSUME NEW failed \in BOOLEAN PROVE AddAll(graph, Replied(failed)) = h(failed)
  <2> DEFINE a == <<"local_critique", LocalTiers[rung], sample>>
             b == <<"call_finished", Call("critique", LocalTiers[rung], "none", n), failed>>
  <2>1. Replied(failed) = <<a>> \o <<b>>
    BY <1>1 DEF Replied, Announced, MainCall, JudgedTier
  <2>2. Add(graph, a) = f
    BY Handlers
  <2>3. Add(f, b) = h(failed)
    <3> HIDE DEF f
    <3> QED BY CallHandler
  <2> HIDE DEF a, b
  <2>4. AddAll(graph, <<a>> \o <<b>>) = Add(Add(graph, a), b)
    BY AddFew
  <2> QED BY <2>1, <2>2, <2>3, <2>4
<1> HIDE DEF h, f
<1>11. PICK failed \in BOOLEAN : graph' = h(failed)
  <2>1. \E failed \in BOOLEAN : Draw(Replied(failed))
    BY DEF DrawCritique
  <2> QED BY <1>10, <2>1 DEF Draw
<1>12. RunDraws(graph, graph')
  BY <1>5, <1>9, <1>11, RunDrawsTrans
<1>13. main \in FrontStates /\ critiqued' \in BOOLEAN
  BY <1>1 DEF FrontStates
<1>14. CASE main' \in {"failing", "cancelling"}
  <2>1. FrontDrawn' /\ CloudDrawn' /\ main' \notin TaskStates
    BY <1>14, LeftDrawn DEF TaskStates
  <2> QED BY <1>1, <1>12, <1>13, <2>1, FrontStep
<1>15. CASE main' = "deciding"
  <2>1. LocalJudged(graph', rung) /\ \A i : Has(graph', i) => i \in LocalIds
    BY <1>9, <1>11
  <2>2. ASSUME NEW m \in Tried(graph', id), OutcomeOf(graph', id, m) = "running" PROVE m = n
    <3> HIDE DEF n
    <3>1. Noted(f, graph', id, n)
      BY <1>9, <1>11
    <3> HIDE DEF id
    <3>2. \A i \in Tried(f, id) : i # n => OutcomeOf(f, id, i) # "running"
      BY <1>3, <1>5 DEF Noted, AllOver
    <3> QED BY <2>2, <3>1, <3>2 DEF Noted
  <2>3. FrontDrawn' /\ CloudDrawn' /\ main' \notin TaskStates
    BY <1>1, <1>15, <2>1, <2>2, JudgingDrawn
  <2> QED BY <1>1, <1>12, <1>13, <2>3, FrontStep
<1> QED BY <1>1, <1>14, <1>15 DEF CritiqueReturns, Raise

LEMMA VerdictEvents ==
  ASSUME NEW g, NEW tier, NEW n, NEW escalate, NEW critique
  PROVE  LET a == <<"local_verdict", tier, n, escalate, critique>>
             b == <<"local_accepted", tier>>
         IN  /\ AddAll(g, <<a>>) = OnLocalVerdict(g, tier, n, escalate, critique)
             /\ AddAll(g, <<a>> \o <<b>>) = OnLocalAccepted(OnLocalVerdict(g, tier, n, escalate, critique), tier)
<1> DEFINE a == <<"local_verdict", tier, n, escalate, critique>>
           b == <<"local_accepted", tier>>
           h == OnLocalVerdict(g, tier, n, escalate, critique)
<1>1. Add(g, a) = h
  BY DEF Add
<1> HIDE DEF h
<1>2. Add(h, b) = OnLocalAccepted(h, tier)
  BY Handlers
<1> HIDE DEF a, b
<1>3. AddAll(g, <<a>>) = Add(g, a) /\ AddAll(g, <<a>> \o <<b>>) = Add(Add(g, a), b)
  BY AddFew
<1> QED BY <1>1, <1>2, <1>3 DEF a, b, h

\* The verdict on the k-th local model leaves nothing of its node under way.
LEMMA JudgedDrawn ==
  ASSUME EngineInv, GraphInv, main = "deciding", NEW h, NEW escalate \in BOOLEAN, NEW critique \in {"skipped", "passed", "failed"},
         ~critiqued <=> critique = "skipped",
         h = OnLocalVerdict(graph, LocalTiers[rung], sample, escalate, critique)
  PROVE  LET id == Judge(LocalTiers[rung])
         IN  /\ rung \in 1..Len(LocalTiers)
             /\ RunDraws(graph, h) /\ Draws(graph, h, {id}) /\ Has(h, id)
             /\ StatusOf(h, id) = (IF escalate THEN "escalated" ELSE "passed")
             /\ AllOver(h, id)
             /\ LocalJudged(graph, rung)
             /\ \A i : Has(h, i) => i \in LocalIds
<1> DEFINE id == Judge(LocalTiers[rung])
           n == sample + 1
<1>1. rung \in 1..Len(LocalTiers)
  BY DEF EngineInv, TypeInv, LoopFacts
<1>2. /\ GraphOK(graph) /\ (\A i : Has(graph, i) => i \in LocalIds) /\ LocalJudged(graph, rung)
      /\ \A m \in Tried(graph, id) : OutcomeOf(graph, id, m) = "running" => critiqued /\ m = n
  BY DEF GraphInv, Shape, FrontDrawn, JudgingModel
<1>3. Has(graph, id)
  BY <1>1, <1>2 DEF LocalJudged
<1>4. VerdictGiven(graph, h, escalate, critique, id, n)
  <2>1. /\ id = Judge(LocalTiers[rung]) /\ n = sample + 1
        /\ GraphOK(graph) /\ Has(graph, id) /\ critique \in {"skipped", "passed", "failed"}
        /\ h = OnLocalVerdict(graph, LocalTiers[rung], sample, escalate, critique)
    BY <1>2, <1>3
  <2> HIDE DEF id, n
  <2> QED BY <1>1, <2>1, VerdictDrawn
<1>5. AllOver(h, id)
  <2> HIDE DEF id, n
  <2> QED BY <1>2, <1>4 DEF AllOver, VerdictGiven
<1> HIDE DEF id, n
<1>6. RunDraws(graph, h) /\ Draws(graph, h, {id}) /\ (\A j : Has(h, j) <=> Has(graph, j))
      /\ StatusOf(h, id) = (IF escalate THEN "escalated" ELSE "passed")
  BY <1>4 DEF VerdictGiven
<1> QED BY <1>1, <1>2, <1>3, <1>5, <1>6 DEF id

LEMMA GraphDecide ==
  ASSUME OrdinaryNames, EngineInv, GraphInv, DrawDecide
  PROVE  GraphInv'
<1> DEFINE id == Judge(LocalTiers[rung])
           tier == LocalTiers[rung]
<1>1. main = "deciding" /\ Decide /\ UNCHANGED <<plan, pc, attempt, results, critiqued>> /\ MainStep
  BY DEF DrawDecide, Decide, MainAt, taskVars, jobVars, MainStep
<1>2. main \in FrontStates /\ critiqued' \in BOOLEAN /\ critiqued \in BOOLEAN
  BY <1>1 DEF FrontStates, GraphInv
<1>3. PICK critique \in IF ~critiqued THEN {"skipped"} ELSE IF distrust THEN {"failed"} ELSE {"passed", "failed"} :
        Draw(<<<<"local_verdict", tier, sample, main' # "completing", critique>>>>
              \o When(main' = "completing", <<<<"local_accepted", tier>>>>))
  BY DEF DrawDecide, JudgedTier
<1>4. critique \in {"skipped", "passed", "failed"} /\ (~critiqued <=> critique = "skipped")
  BY <1>2
<1>5. CASE ClimbFrom(rung)
  <2> DEFINE h == OnLocalVerdict(graph, tier, sample, TRUE, critique)
             a == <<"local_verdict", tier, sample, TRUE, critique>>
             b == <<"local_accepted", tier>>
  <2>1. rung \in 0..Len(LocalTiers)
    BY <1>1, TierFacts DEF EngineInv, TypeInv, LoopFacts
  <2>2. main' \in {"skipping", "solving", "escalated"}
    BY <1>5, <2>1, Climbing DEF EngineInv, TypeInv
  <2>3. main' # "completing" /\ main' \notin TaskStates /\ (main' = "completing") = FALSE /\ (main' # "completing") = TRUE
    BY <2>2 DEF TaskStates
  <2>4. graph' = h
    <3>1. Draw(<<a>> \o When(FALSE, <<b>>))
      BY <1>3, <2>3
    <3>2. AddAll(graph, <<a>>) = h
      BY VerdictEvents
    <3> HIDE DEF a, b, h
    <3>3. Draw(<<a>>)
      BY <3>1, SendingWhen, WhenFacts
    <3> QED BY <3>2, <3>3 DEF Draw
  <2>5. /\ rung \in 1..Len(LocalTiers) /\ RunDraws(graph, h) /\ Draws(graph, h, {id}) /\ Has(h, id)
        /\ StatusOf(h, id) = "escalated" /\ AllOver(h, id) /\ LocalJudged(graph, rung) /\ \A i : Has(h, i) => i \in LocalIds
    BY <1>1, <1>4, JudgedDrawn
  <2> HIDE DEF h
  <2>6. Refusing(h, id)
    BY <2>5 DEF Refusing, Resting
  <2>7. LocalsDrawn(h, rung + 1)
    BY <2>5, <2>6, RefusedNext
  <2>8. FrontDrawn' /\ CloudDrawn'
    BY <1>5, <2>1, <2>4, <2>5, <2>7, ClimbDrawn
  <2> QED BY <1>1, <1>2, <2>3, <2>4, <2>5, <2>8, FrontStep
<1>6. CASE main' = "completing" /\ route' = tier
  <2> DEFINE h == OnLocalVerdict(graph, tier, sample, FALSE, critique)
             a == <<"local_verdict", tier, sample, FALSE, critique>>
             b == <<"local_accepted", tier>>
  <2>1. (main' = "completing") = TRUE /\ (main' # "completing") = FALSE /\ main' \notin TaskStates
    BY <1>6 DEF TaskStates
  <2>2. graph' = OnLocalAccepted(h, tier)
    <3>1. Draw(<<a>> \o When(TRUE, <<b>>))
      BY <1>3, <2>1
    <3>2. AddAll(graph, <<a>> \o <<b>>) = OnLocalAccepted(h, tier)
      BY VerdictEvents
    <3> HIDE DEF a, b, h
    <3>3. Draw(<<a>> \o <<b>>)
      BY <3>1, SendingWhen
    <3> QED BY <3>2, <3>3 DEF Draw
  <2>3. /\ rung \in 1..Len(LocalTiers) /\ RunDraws(graph, h) /\ Draws(graph, h, {id}) /\ Has(h, id)
        /\ AllOver(h, id) /\ LocalJudged(graph, rung) /\ \A i : Has(h, i) => i \in LocalIds
    BY <1>1, <1>4, JudgedDrawn
  <2> HIDE DEF h
  <2>4. GraphOK(h)
    BY <2>3 DEF Draws
  <2>5. Marked(h, graph', id, "passed")
    BY <2>2, <2>3, <2>4, AcceptedDrawn
  <2>6. RunDraws(graph, graph')
    <3>1. RunDraws(h, graph')
      BY <2>3, <2>5, MarkedRun, RunIdsAre
    <3> QED BY <2>3, <3>1, RunDrawsTrans
  <2>7. Draws(graph, graph', {id}) /\ (\A i : Has(graph', i) <=> Has(h, i)) /\ StatusOf(graph', id) = "passed"
    <3>1. Draws(h, graph', {id})
      BY <2>5 DEF Marked
    <3>2. Draws(graph, graph', {id})
      BY <2>3, <3>1, DrawsTrans
    <3> QED BY <2>5, <3>2 DEF Marked
  <2>8. AllOver(graph', id)
    <3> HIDE DEF id
    <3> QED BY <2>3, <2>5 DEF AllOver, Marked
  <2>9. LocalJudged(graph', rung)
    BY <2>3, <2>7, JudgingOn
  <2>10. LaneOf(graph', id) = tier
    <3>1. LocalsKnown(graph')
      BY <2>6 DEF GraphInv, Shape, RunDraws
    <3> QED BY <2>3, <2>7, <3>1 DEF LocalsKnown
  <2>11. ASSUME NEW i, Has(graph', i), i # id PROVE Refusing(graph', i)
    <3>1. i \in LocalIds
      BY <2>3, <2>7, <2>11
    <3>2. CASE i = Triage
      BY <2>9, <2>11, <3>2 DEF LocalJudged
    <3>3. CASE i \in JudgeIds
      <4>1. PICK j \in 1..Len(LocalTiers) : i = Judge(LocalTiers[j])
        BY <3>3 DEF JudgeIds
      <4>2. j <= rung /\ (j < rung => Refusing(graph', i))
        BY <2>9, <2>11, <4>1 DEF LocalJudged
      <4>3. j # rung
        BY <2>11, <4>1
      <4>4. j < rung
        BY <2>3, <4>2, <4>3, TierFacts
      <4> QED BY <4>2, <4>4
    <3> QED BY <3>1, <3>2, <3>3 DEF LocalIds
  <2>12. LocalTrusted(graph', tier)
    <3> HIDE DEF id, tier
    <3> QED BY <2>3, <2>7, <2>8, <2>10, <2>11 DEF LocalTrusted
  <2>13. FrontDrawn'
    BY <1>6, <2>12 DEF FrontDrawn, BetweenModels, JudgingModel
  <2>14. tier # "cloud"
    BY <2>3 DEF LocalTiers
  <2>15. CloudDrawn'
    BY <1>6, <2>1, <2>14 DEF CloudDrawn, CloudAnswered
  <2> QED BY <1>1, <1>2, <2>1, <2>6, <2>13, <2>15, FrontStep
<1> QED BY <1>1, <1>5, <1>6 DEF Decide

-----------------------------------------------------------------------------
(* The cloud *)

\* What a step that touches no local node leaves of LocalsDrawn.
LEMMA LocalsKept ==
  \A g, h, ids, k : Draws(g, h, ids) /\ ids \cap LocalIds = {} /\ LocalsDrawn(g, k) => LocalsDrawn(h, k)
<1> TAKE g, h, ids, k
<1> HAVE Draws(g, h, ids) /\ ids \cap LocalIds = {} /\ LocalsDrawn(g, k)
<1>1. \A id \in LocalIds : id \notin ids
  OBVIOUS
<1>2. \A id \in LocalIds : Has(h, id) => Has(g, id) /\ (Refusing(g, id) => Refusing(h, id))
  BY <1>1 DEF Draws, Same, Refusing, Resting, AllOver
<1> QED BY <1>2, RunIdsAre DEF LocalsDrawn

\* From the escalation on, FrontDrawn says nothing until the answer is there.
LEMMA CloudFront ==
  ASSUME main' \in {"answering", "planning", "planned", "assembling", "synthesizing"} \cup TaskStates
  PROVE  FrontDrawn'
<1>1. main' \notin CompletingStates
      /\ main' \notin {"starting", "extracting", "skipping", "solving", "critiquing", "deciding", "escalated"}
  BY DEF TaskStates, CompletingStates
<1> QED BY <1>1 DEF FrontDrawn, BetweenModels, JudgingModel

LEMMA EscalateEvents ==
  ASSUME NEW g
  PROVE  /\ AddAll(g, <<<<"escalated", FALSE>>>>) = OnEscalated(g, FALSE)
         /\ AddAll(g, <<<<"escalated", TRUE>>>> \o <<<<"answering">>>>) = OnAnswering(OnEscalated(g, TRUE))
<1> DEFINE a == <<"escalated", TRUE>>
           b == <<"answering">>
           h == OnEscalated(g, TRUE)
<1>1. AddAll(g, <<<<"escalated", FALSE>>>>) = OnEscalated(g, FALSE)
  <2>1. AddAll(g, <<<<"escalated", FALSE>>>>) = Add(g, <<"escalated", FALSE>>)
    BY AddFew
  <2> QED BY <2>1, Handlers
<1>2. Add(g, a) = h
  BY Handlers
<1> HIDE DEF h
<1>3. Add(h, b) = OnAnswering(h)
  BY Handlers
<1> HIDE DEF a, b
<1>4. AddAll(g, <<a>> \o <<b>>) = Add(Add(g, a), b)
  BY AddFew
<1> QED BY <1>1, <1>2, <1>3, <1>4 DEF a, b, h

LEMMA GraphEscalate ==
  ASSUME OrdinaryNames, EngineInv, GraphInv, EscalateToCloud, Draw(Announced), UNCHANGED critiqued
  PROVE  GraphInv'
<1>1. main = "escalated" /\ UNCHANGED <<plan, pc, attempt, results>> /\ MainStep
  BY DEF EscalateToCloud, MainAt, taskVars, jobVars, MainStep
<1>2. /\ GraphOK(graph) /\ (\A i : Has(graph, i) => i \in LocalIds) /\ LocalsDrawn(graph, Len(LocalTiers) + 1)
  <2>1. rung = Len(LocalTiers) + 1
    BY <1>1 DEF EngineInv, StageFacts
  <2> QED BY <1>1, <2>1 DEF GraphInv, Shape, FrontDrawn, BetweenModels
<1>3. ~Has(graph, AnswerNode) /\ ~Has(graph, PlanNode)
  BY <1>2, RunNodesDiffer
<1>4. main \in FrontStates /\ critiqued' \in BOOLEAN
  BY <1>1 DEF FrontStates, GraphInv
<1>5. ASSUME NEW id \in {AnswerNode, PlanNode}, CloudMade(graph, graph', id)
      PROVE  /\ RunDraws(graph, graph') /\ LocalsDrawn(graph', Len(LocalTiers) + 1)
             /\ Has(graph', id) /\ AllOver(graph', id)
             /\ \A i : i # id /\ i \in {AnswerNode, PlanNode} => ~Has(graph', i)
  <2>1. RunDraws(graph, graph') /\ Draws(graph, graph', {id}) /\ Has(graph', id) /\ Tried(graph', id) = {}
    BY <1>3, <1>5 DEF CloudMade
  <2>2. {id} \cap LocalIds = {}
    BY RunNodesDiffer
  <2>3. LocalsDrawn(graph', Len(LocalTiers) + 1)
    BY <1>2, <2>1, <2>2, LocalsKept
  <2>4. \A i : i # id /\ i \in {AnswerNode, PlanNode} => ~Has(graph', i)
    BY <1>3, <2>1 DEF Draws
  <2> QED BY <2>1, <2>3, <2>4 DEF AllOver
<1>6. ASSUME main' \in {"failing", "cancelling"}, RunDraws(graph, graph') PROVE GraphInv'
  <2>1. FrontDrawn' /\ CloudDrawn' /\ main' \notin TaskStates
    BY <1>6, LeftDrawn DEF TaskStates
  <2> QED BY <1>1, <1>4, <1>6, <2>1, FrontStep
<1>7. CASE request.plans
  <2>1. Announced = <<<<"escalated", FALSE>>>>
    <3>1. Announced = <<<<"escalated", FALSE>>>> \o When(FALSE, <<<<"answering">>>>)
      <4>1. (~request.plans) = FALSE
        BY <1>7
      <4>2. Announced = <<<<"escalated", ~request.plans>>>> \o When(~request.plans, <<<<"answering">>>>)
        BY <1>1 DEF Announced
      <4> QED BY <4>1, <4>2
    <3> QED BY <3>1, SendingWhen, WhenFacts
  <2>2. graph' = OnEscalated(graph, FALSE)
    BY <2>1, EscalateEvents DEF Draw
  <2>3. CloudMade(graph, graph', PlanNode)
    BY <1>2, <2>2, EscalatedDrawn
  <2>4. /\ RunDraws(graph, graph') /\ LocalsDrawn(graph', Len(LocalTiers) + 1)
        /\ Has(graph', PlanNode) /\ AllOver(graph', PlanNode) /\ ~Has(graph', AnswerNode)
    BY <1>5, <2>3, RunNodesDiffer
  <2>5. CASE main' = "planning"
    <3>1. FrontDrawn' /\ main' \notin TaskStates
      BY <2>5, CloudFront DEF TaskStates
    <3>2. CloudDrawn'
      BY <2>4, <2>5, <3>1 DEF CloudDrawn, CloudAnswered, CompletingStates
    <3> QED BY <1>1, <1>4, <2>4, <3>1, <3>2, FrontStep
  <2>6. CASE main' \in {"failing", "cancelling"}
    BY <1>6, <2>4, <2>6
  <2> QED BY <1>7, <2>5, <2>6 DEF EscalateToCloud, PlannerCall, CloudCall, Raise
<1>8. CASE ~request.plans
  <2> DEFINE f == OnEscalated(graph, TRUE)
  <2>1. Announced = <<<<"escalated", TRUE>>>> \o <<<<"answering">>>>
    <3>1. Announced = <<<<"escalated", TRUE>>>> \o When(TRUE, <<<<"answering">>>>)
      <4>1. (~request.plans) = TRUE
        BY <1>8
      <4>2. Announced = <<<<"escalated", ~request.plans>>>> \o When(~request.plans, <<<<"answering">>>>)
        BY <1>1 DEF Announced
      <4> QED BY <4>1, <4>2
    <3> QED BY <3>1, SendingWhen
  <2>2. graph' = OnAnswering(f)
    BY <2>1, EscalateEvents DEF Draw
  <2>3. CloudMade(graph, f, AnswerNode)
    BY <1>2, EscalatedDrawn
  <2> HIDE DEF f
  <2>4. CloudMade(f, graph', AnswerNode) /\ Has(f, AnswerNode)
    BY <2>2, <2>3, AnsweringDrawn DEF CloudMade, Draws
  <2>5. CloudMade(graph, graph', AnswerNode)
    <3>1. RunDraws(graph, graph')
      BY <2>3, <2>4, RunDrawsTrans DEF CloudMade
    <3>2. Draws(graph, graph', {AnswerNode})
      BY <2>3, <2>4, DrawsTrans DEF CloudMade
    <3>3. Tried(graph', AnswerNode) = {} /\ Has(graph', AnswerNode)
      BY <1>3, <2>3, <2>4 DEF CloudMade
    <3> QED BY <1>3, <3>1, <3>2, <3>3 DEF CloudMade
  <2>6. /\ RunDraws(graph, graph') /\ LocalsDrawn(graph', Len(LocalTiers) + 1)
        /\ Has(graph', AnswerNode) /\ AllOver(graph', AnswerNode) /\ ~Has(graph', PlanNode)
    BY <1>5, <2>5, RunNodesDiffer
  <2>7. CASE main' = "answering"
    <3>1. FrontDrawn' /\ main' \notin TaskStates
      BY <2>7, CloudFront DEF TaskStates
    <3>2. CloudDrawn'
      BY <2>6, <2>7, <3>1 DEF CloudDrawn, CloudAnswered, CompletingStates
    <3> QED BY <1>1, <1>4, <2>6, <3>1, <3>2, FrontStep
  <2>8. CASE main' \in {"failing", "cancelling"}
    BY <1>6, <2>6, <2>8
  <2> QED BY <1>8, <2>7, <2>8 DEF EscalateToCloud, CloudCall, Raise
<1> QED BY <1>7, <1>8

\* A reply of the cloud to the main coroutine is drawn on node id.
LEMMA CloudReplyDrawn ==
  ASSUME NEW g, NEW h, NEW operation \in {"answer", "synthesize", "plan"}, NEW n, NEW failed \in BOOLEAN, NEW id,
         id = CallNodeId(g, Call(operation, "cloud", "none", n)), id \in {AnswerNode, PlanNode},
         GraphOK(g), Has(g, id), AllOver(g, id), LocalsDrawn(g, Len(LocalTiers) + 1),
         h = OnCallFinished(g, Call(operation, "cloud", "none", n), failed)
  PROVE  /\ RunDraws(g, h) /\ Draws(g, h, {id})
         /\ \A i : Has(h, i) <=> Has(g, i)
         /\ AllOver(h, id) /\ LocalsDrawn(h, Len(LocalTiers) + 1)
<1>1. operation \in CallOperations /\ operation \notin {"work", "solve", "critique"} /\ id \in RunIds
  BY RunIdsAre DEF CallOperations
<1>2. Noted(g, h, id, n) /\ OutcomeOf(h, id, n) # "running"
  BY <1>1, CallFinished
<1>3. RunDraws(g, h)
  BY <1>1, <1>2, NotedRun
<1>4. AllOver(h, id)
  BY <1>2 DEF Noted, AllOver
<1>5. {id} \cap LocalIds = {}
  BY RunNodesDiffer
<1>6. Draws(g, h, {id}) /\ \A i : Has(h, i) <=> Has(g, i)
  BY <1>2 DEF Noted
<1>7. LocalsDrawn(h, Len(LocalTiers) + 1)
  BY <1>5, <1>6, LocalsKept
<1> QED BY <1>3, <1>4, <1>6, <1>7

LEMMA ReplyEvents ==
  ASSUME NEW g, NEW call, NEW failed
  PROVE  AddAll(g, <<>> \o <<<<"call_finished", call, failed>>>>) = OnCallFinished(g, call, failed)
<1> DEFINE b == <<"call_finished", call, failed>>
<1>1. Add(g, b) = OnCallFinished(g, call, failed)
  BY Handlers
<1> HIDE DEF b
<1>2. AddAll(g, <<b>>) = Add(g, b) /\ <<>> \o <<b>> = <<b>>
  BY AddFew, EmptyBefore
<1> QED BY <1>1, <1>2 DEF b

LEMMA GraphReply ==
  ASSUME OrdinaryNames, EngineInv, GraphInv, DrawReply
  PROVE  GraphInv'
<1> DEFINE operation == IF main = "answering" THEN "answer" ELSE "synthesize"
           call == Call(operation, "cloud", "none", 1)
<1>1. /\ main \in {"answering", "synthesizing"} /\ UNCHANGED <<plan, pc, attempt, results, route, critiqued>> /\ MainStep
      /\ main' \in {"completing", "failing", "cancelling"}
  BY DEF DrawReply, AnswerReturns, SynthesisReturns, MainAt, taskVars, jobVars, frontVars, MainStep, Raise
<1>2. /\ GraphOK(graph) /\ Has(graph, AnswerNode) /\ AllOver(graph, AnswerNode) /\ LocalsDrawn(graph, Len(LocalTiers) + 1)
      /\ Has(graph, PlanNode) => Resting(graph, PlanNode)
  BY <1>1 DEF GraphInv, Shape, CloudDrawn
<1>3. CallNodeId(graph, call) = AnswerNode /\ operation \in {"answer", "synthesize", "plan"} /\ CallFailed \in BOOLEAN
  BY CallNodes DEF CallFailed
<1>4. graph' = OnCallFinished(graph, call, CallFailed)
  <2>1. Announced = <<>> /\ MainCall = call
    BY <1>1 DEF Announced, MainCall
  <2> HIDE DEF call
  <2>2. Draw(<<>> \o <<<<"call_finished", call, CallFailed>>>>)
    BY <2>1 DEF DrawReply, Replied
  <2> QED BY <2>2, ReplyEvents DEF Draw
<1>5. /\ RunDraws(graph, graph') /\ Draws(graph, graph', {AnswerNode})
      /\ \A i : Has(graph', i) <=> Has(graph, i)
      /\ AllOver(graph', AnswerNode) /\ LocalsDrawn(graph', Len(LocalTiers) + 1)
  <2>1. /\ AnswerNode = CallNodeId(graph, Call(operation, "cloud", "none", 1)) /\ AnswerNode \in {AnswerNode, PlanNode}
        /\ graph' = OnCallFinished(graph, Call(operation, "cloud", "none", 1), CallFailed)
    BY <1>3, <1>4
  <2> HIDE DEF operation
  <2> QED BY <1>2, <1>3, <2>1, CloudReplyDrawn
<1>6. main \in FrontStates \cup {"synthesizing"} /\ critiqued' \in BOOLEAN
  BY <1>1 DEF FrontStates, GraphInv
<1>7. CASE main' = "completing"
  <2>1. route' = "cloud"
    BY <1>1 DEF EngineInv, StageFacts
  <2>2. FrontDrawn' /\ main' \notin TaskStates
    BY <1>7, <2>1 DEF FrontDrawn, BetweenModels, JudgingModel, TaskStates
  <2>3. Has(graph', PlanNode) => Resting(graph', PlanNode)
    <3>1. PlanNode \notin {AnswerNode}
      BY RunNodesDiffer
    <3> QED BY <1>2, <1>5, <3>1 DEF Draws, Same, Resting, AllOver
  <2>4. CloudDrawn'
    BY <1>2, <1>5, <1>7, <2>1, <2>2, <2>3 DEF CloudDrawn, CloudAnswered
  <2> QED BY <1>1, <1>5, <1>6, <2>2, <2>4, FrontStep
<1>8. CASE main' \in {"failing", "cancelling"}
  <2>1. FrontDrawn' /\ CloudDrawn' /\ main' \notin TaskStates
    BY <1>8, LeftDrawn DEF TaskStates
  <2> QED BY <1>1, <1>5, <1>6, <2>1, FrontStep
<1> QED BY <1>1, <1>7, <1>8

\* Without a plan there are no nodes, edges or results of tasks.
LEMMA ShapeUnplanned ==
  ASSUME OrdinaryNames, NEW g, NEW p, p.ids = {}, Shape(g, p), NEW q, q.ids \subseteq Tasks
  PROVE  Shape(g, q) /\ DOMAIN AcceptedOf(g) = {} /\ \A id : Has(g, id) => id \in RunIds
<1>1. \A id : Has(g, id) => id \in RunIds
  BY DEF Shape, NodesKnown
<1>2. \A t \in q.ids : \A id \in TaskIds(t) : ~Has(g, id)
  BY <1>1, TasksAreNoRunNodes
<1>3. TasksKnown(g, q)
  BY <1>2, TaskPlaces DEF TasksKnown, TaskKnown
<1>4. EdgesKnown(g, q)
  <2>1. ASSUME NEW e \in EdgesOf(g) PROVE EdgeKnown(g, q, e)
    <3>1. EdgeKnown(g, p, e)
      BY DEF Shape, EdgesKnown
    <3>2. ~ToAnswer(g, p, e) /\ ~ToTask(p, e)
      BY DEF ToAnswer, ToTask
    <3> QED BY <3>1, <3>2 DEF EdgeKnown
  <2> QED BY <2>1 DEF EdgesKnown
<1>5. DOMAIN LanesOf(g) = {} /\ DOMAIN AcceptedOf(g) = {}
  BY DEF Shape, LanesKnown, AcceptedKnown
<1>6. LanesKnown(g, q) /\ AcceptedKnown(g, q)
  BY <1>5 DEF LanesKnown, AcceptedKnown
<1>7. NodesKnown(g, q)
  BY <1>1 DEF NodesKnown
<1>8. GraphOK(g) /\ LocalsKnown(g) /\ CloudKnown(g)
  BY DEF Shape
<1> QED BY <1>1, <1>3, <1>4, <1>5, <1>6, <1>7, <1>8 DEF Shape

LEMMA JobIdle == \A g, p, t, k : JobDrawn(g, p, t, "idle", k)
BY DEF JobDrawn, ActiveStates

\* h is g after a reply of the planner.
PlanReplied(g, h) ==
  /\ RunDraws(g, h) /\ Draws(g, h, {PlanNode})
  /\ \A i : Has(h, i) <=> Has(g, i)
  /\ AllOver(h, PlanNode) /\ LocalsDrawn(h, Len(LocalTiers) + 1)

LEMMA PlanReplyDrawn ==
  ASSUME NEW g, NEW h, NEW n, GraphOK(g), Has(g, PlanNode), AllOver(g, PlanNode), LocalsDrawn(g, Len(LocalTiers) + 1),
         \E failed \in BOOLEAN : h = OnCallFinished(g, Call("plan", "cloud", "none", n), failed)
  PROVE  PlanReplied(g, h)
<1>1. PICK failed \in BOOLEAN : h = OnCallFinished(g, Call("plan", "cloud", "none", n), failed)
  OBVIOUS
<1> DEFINE operation == "plan"
           id == PlanNode
<1>2. /\ id = CallNodeId(g, Call(operation, "cloud", "none", n)) /\ h = OnCallFinished(g, Call(operation, "cloud", "none", n), failed)
      /\ operation \in {"answer", "synthesize", "plan"} /\ id \in {AnswerNode, PlanNode}
      /\ Has(g, id) /\ AllOver(g, id)
  BY <1>1, CallNodes
<1> HIDE DEF operation, id
<1>3. /\ RunDraws(g, h) /\ Draws(g, h, {id})
      /\ \A i : Has(h, i) <=> Has(g, i)
      /\ AllOver(h, id) /\ LocalsDrawn(h, Len(LocalTiers) + 1)
  BY <1>1, <1>2, CloudReplyDrawn, SMTT(30)
<1> QED BY <1>3 DEF PlanReplied, id

LEMMA GraphPlan ==
  ASSUME OrdinaryNames, EngineInv, GraphInv, DrawPlan
  PROVE  GraphInv'
<1> DEFINE n == planTry
           call == Call("plan", "cloud", "none", n)
           f == OnCallFinished(graph, call, CallFailed)
           a == <<"call_finished", call, CallFailed>>
           b == <<"plan_invalid", n>>
           k == Len(LocalTiers) + 1
<1>1. main = "planning" /\ PlanReturns /\ UNCHANGED <<pc, attempt, results, route, critiqued>> /\ MainStep
  BY DEF DrawPlan, PlanReturns, MainAt, MainStep
<1>2. /\ GraphOK(graph) /\ Has(graph, PlanNode) /\ AllOver(graph, PlanNode) /\ LocalsDrawn(graph, k)
      /\ ~Has(graph, AnswerNode)
  BY <1>1 DEF GraphInv, Shape, CloudDrawn
<1>3. /\ RunDraws(graph, f) /\ Draws(graph, f, {PlanNode}) /\ (\A i : Has(f, i) <=> Has(graph, i))
      /\ AllOver(f, PlanNode) /\ LocalsDrawn(f, k)
  <2>1. GraphOK(graph) /\ Has(graph, PlanNode) /\ AllOver(graph, PlanNode) /\ LocalsDrawn(graph, Len(LocalTiers) + 1)
    BY <1>2
  <2>2. f = OnCallFinished(graph, Call("plan", "cloud", "none", n), CallFailed) /\ CallFailed \in BOOLEAN
    BY DEF CallFailed
  <2>3. \E failed \in BOOLEAN : f = OnCallFinished(graph, Call("plan", "cloud", "none", n), failed)
    BY <2>2
  <2> HIDE DEF f, n
  <2>4. PlanReplied(graph, f)
    BY <2>1, <2>3, PlanReplyDrawn
  <2> QED BY <2>4 DEF PlanReplied
<1>4. Has(f, PlanNode) /\ GraphOK(f)
  BY <1>2, <1>3 DEF Draws
<1>5. graph' = f \/ graph' = OnPlanInvalid(f, n)
  <2>1. Replied(CallFailed) = <<a>>
    <3>1. Announced = <<>> /\ MainCall = call
      BY <1>1 DEF Announced, MainCall
    <3> QED BY <3>1, EmptyBefore DEF Replied
  <2>2. Draw(<<a>> \o When(TRUE, <<b>>)) \/ Draw(<<a>> \o When(FALSE, <<b>>))
    <3>1. Draw(Replied(CallFailed) \o When(~CallFailed /\ main' # "planned", <<b>>))
      BY DEF DrawPlan
    <3>2. (~CallFailed /\ main' # "planned") \in BOOLEAN
      OBVIOUS
    <3>3. CASE ~CallFailed /\ main' # "planned"
      BY <2>1, <3>1, <3>3 DEF When
    <3>4. CASE ~(~CallFailed /\ main' # "planned")
      BY <2>1, <3>1, <3>4 DEF When
    <3> QED BY <3>3, <3>4
  <2>3. Add(graph, a) = f
    <3> HIDE DEF call
    <3> QED BY Handlers
  <2> HIDE DEF f
  <2>4. Add(f, b) = OnPlanInvalid(f, n)
    BY Handlers
  <2> HIDE DEF a, b
  <2>5. AddAll(graph, <<a>>) = Add(graph, a) /\ AddAll(graph, <<a>> \o <<b>>) = Add(Add(graph, a), b)
    BY AddFew
  <2>6. Draw(<<a>> \o <<b>>) \/ Draw(<<a>>)
    BY <2>2, SendingWhen, WhenFacts
  <2> QED BY <2>3, <2>4, <2>5, <2>6 DEF Draw
<1> HIDE DEF f
<1>6. /\ RunDraws(graph, graph') /\ Has(graph', PlanNode) /\ AllOver(graph', PlanNode) /\ LocalsDrawn(graph', k)
      /\ ~Has(graph', AnswerNode)
  <2>1. CASE graph' = f
    BY <1>2, <1>3, <1>4, <2>1
  <2>2. CASE graph' = OnPlanInvalid(f, n)
    <3> HIDE DEF n
    <3>1. RunDraws(f, graph') /\ Noted(f, graph', PlanNode, n) /\ OutcomeOf(graph', PlanNode, n) = "failed"
      BY <1>4, <2>2, PlanInvalidDrawn
    <3>2. RunDraws(graph, graph')
      BY <1>3, <3>1, RunDrawsTrans
    <3>3. Draws(f, graph', {PlanNode}) /\ (\A i : Has(graph', i) <=> Has(f, i))
      BY <3>1 DEF Noted
    <3>4. {PlanNode} \cap LocalIds = {}
      BY RunNodesDiffer
    <3>5. LocalsDrawn(graph', k)
      BY <1>3, <3>3, <3>4, LocalsKept
    <3>6. AllOver(graph', PlanNode)
      BY <1>3, <3>1 DEF AllOver, Noted
    <3> QED BY <1>2, <1>3, <1>4, <3>2, <3>3, <3>5, <3>6
  <2> QED BY <1>5, <2>1, <2>2
<1>7. main \in FrontStates \cup {"synthesizing"} /\ critiqued' \in BOOLEAN
  BY <1>1 DEF FrontStates, GraphInv
<1>8. plan = NoPlan /\ plan.ids = {} /\ \A t \in Tasks : pc[t] = "idle"
  <2>1. plan = NoPlan /\ \A t \in Tasks : pc[t] = "idle"
    BY <1>1 DEF EngineInv, TaskInv, BeforePlan, FrontStates
  <2> QED BY <2>1 DEF NoPlan
<1>9. Shape(graph', plan) /\ \A id : Has(graph', id) => id \in RunIds
  <2>1. Shape(graph', plan)
    BY <1>6, <1>8, ShapeRun DEF GraphInv
  <2> QED BY <1>8, <2>1 DEF Shape, NodesKnown
<1>10. main' \in {"planning", "planned"} => FrontDrawn' /\ CloudDrawn' /\ main' \notin TaskStates
  <2>1. ASSUME main' \in {"planning", "planned"} PROVE FrontDrawn' /\ CloudDrawn' /\ main' \notin TaskStates
    <3>1. FrontDrawn' /\ main' \notin TaskStates
      BY <2>1, CloudFront DEF TaskStates
    <3>2. CloudDrawn'
      BY <1>6, <1>9, <2>1, <3>1 DEF CloudDrawn, CloudAnswered, CompletingStates
    <3> QED BY <3>1, <3>2
  <2> QED BY <2>1
<1>11. CASE UNCHANGED plan /\ main' = "planning"
  BY <1>1, <1>6, <1>7, <1>10, <1>11, FrontStep
<1>12. CASE UNCHANGED plan /\ main' \in {"failing", "cancelling"}
  <2>1. FrontDrawn' /\ CloudDrawn' /\ main' \notin TaskStates
    BY <1>12, LeftDrawn DEF TaskStates
  <2> QED BY <1>1, <1>6, <1>7, <1>12, <2>1, FrontStep
<1>13. CASE main' = "planned" /\ plan' \in Plans
  <2>1. plan'.ids \subseteq Tasks
    BY <1>13, InputsAssumption DEF PlanType
  <2>2. Shape(graph', plan') /\ DOMAIN AcceptedOf(graph') = {}
    BY <1>8, <1>9, <2>1, ShapeUnplanned
  <2>3. JobsDrawn(graph)'
    <3>1. \A t \in Tasks : JobDrawn(graph', plan', t, pc'[t], attempt'[t])
      BY <1>1, <1>8, JobIdle
    <3> QED BY <1>10, <1>13, <2>2, <3>1 DEF JobsDrawn
  <2>4. EndDrawn'
    BY <1>1, NotYetEnded DEF TimedStates, FrontStates
  <2> QED BY <1>7, <1>10, <1>13, <2>2, <2>3, <2>4 DEF GraphInv
<1> QED BY <1>1, <1>11, <1>12, <1>13 DEF PlanReturns, PlannerCall, CloudCall, Raise

-----------------------------------------------------------------------------
(* run_tasks *)

\* A task that has not been drawn yet is ready for its first attempt.
LEMMA UndrawnStarts ==
  ASSUME NEW p \in PlanType, NEW t \in Tasks, NEW g, Undrawn(g, t), NEW s \in {"waiting", "starting"}
  PROVE  JobDrawn(g, p, t, s, 1)
<1>1. Started(s, 1) = 0 /\ Current(p, t, s, 1) = 1 /\ s # "done"
  BY DEF Started, Current
<1>2. \A id \in TaskIds(t) : Has(g, id) => id = <<t>>
  BY DEF Undrawn, TaskIds
<1>3. NodeOf(p, t, 1) = <<t>>
  <2>1. p.tier[t] \in TierNames
    BY DEF PlanType
  <2>2. WorkerTiers(p.tier[t])[1] = p.tier[t]
    BY <2>1, WorkerTiersAre
  <2> QED BY <2>2 DEF NodeOf, PlaceOf
<1>4. JobAttempts(g, p, t, 0, 1)
  <2>1. Tried(g, <<t>>) = {}
    BY DEF Undrawn
  <2>2. \A id \in TaskIds(t) : Has(g, id) => Tried(g, id) = {}
    BY <1>2, <2>1
  <2>3. 1..0 = {}
    OBVIOUS
  <2> QED BY <2>2, <2>3 DEF JobAttempts
<1>5. JobLeft(g, p, t, 1)
  BY <1>2, <1>3 DEF JobLeft
<1>6. t \in DOMAIN LanesOf(g)
  BY DEF Undrawn
<1> QED BY <1>1, <1>4, <1>5, <1>6 DEF JobDrawn

LEMMA BatchDrawn ==
  ASSUME EngineInv, NextBatch, main' = "gather", \A t \in pending : pc[t] = "idle", NEW g,
         \A t \in Tasks : JobDrawn(g, plan, t, pc[t], attempt[t]),
         \A t \in plan.ids : pc[t] = "idle" => Undrawn(g, t)
  PROVE  /\ \A t \in Tasks : JobDrawn(g, plan, t, pc'[t], attempt'[t])
         /\ \A t \in plan.ids : pc'[t] = "idle" => Undrawn(g, t)
<1>1. plan \in PlanType /\ plan.ids \subseteq Tasks /\ pending \subseteq plan.ids
  BY DEF EngineInv, TypeInv, TaskTypes, PlanType, TaskInv, PlanProgress
<1>2. Ready \subseteq pending
  BY DEF Ready
<1>3. /\ pc' = [t \in Tasks |-> IF t \in Ready THEN Entry(t, 1) ELSE pc[t]]
      /\ attempt' = [t \in Tasks |-> IF t \in Ready THEN 1 ELSE attempt[t]]
  BY DEF NextBatch, Raise
<1>4. \A t : Entry(t, 1) \in {"waiting", "starting"}
  BY DEF Entry
<1>5. ASSUME NEW t \in Tasks PROVE JobDrawn(g, plan, t, pc'[t], attempt'[t])
  <2>1. CASE t \in Ready
    <3>1. t \in plan.ids /\ pc[t] = "idle" /\ pc'[t] = Entry(t, 1) /\ attempt'[t] = 1
      BY <1>1, <1>2, <1>3, <2>1
    <3> QED BY <1>1, <1>4, <3>1, UndrawnStarts
  <2>2. CASE t \notin Ready
    <3>1. pc'[t] = pc[t] /\ attempt'[t] = attempt[t]
      BY <1>3, <2>2
    <3> QED BY <3>1
  <2> QED BY <2>1, <2>2
<1>6. ASSUME NEW t \in plan.ids, pc'[t] = "idle" PROVE Undrawn(g, t)
  <2>1. t \in Tasks /\ pc[t] = "idle"
    BY <1>1, <1>3, <1>4, <1>6
  <2> QED BY <2>1
<1> QED BY <1>5, <1>6

\* The graph of a run that goes on with the tasks of its plan.
LEMMA TasksGoOn ==
  ASSUME EngineInv, GraphInv, MainStep, main \in {"planned"} \cup TaskStates, main' \in TaskStates,
         UNCHANGED <<plan, results, critiqued>>, Shape(graph', plan),
         \A t \in DOMAIN AcceptedOf(graph') : t \in results,
         \A t \in Tasks : JobDrawn(graph', plan, t, pc'[t], attempt'[t]),
         \A t \in plan.ids : pc'[t] = "idle" => Undrawn(graph', t),
         LocalsDrawn(graph', Len(LocalTiers) + 1), ~Has(graph', AnswerNode),
         Has(graph', PlanNode) => Resting(graph', PlanNode)
  PROVE  GraphInv'
<1>1. JobsDrawn(graph)'
  BY DEF JobsDrawn
<1>2. FrontDrawn'
  BY CloudFront
<1>3. CloudDrawn'
  BY DEF CloudDrawn, CloudAnswered, CompletingStates, TaskStates
<1>4. EndDrawn'
  BY NotYetEnded DEF TimedStates, FrontStates, TaskStates
<1> QED BY <1>1, <1>2, <1>3, <1>4 DEF GraphInv

LEMMA PlanDrawn ==
  ASSUME OrdinaryNames, EngineInv, GraphInv, main = "planned", graph' = OnPlanCreated(graph, plan)
  PROVE  /\ Planned(graph, graph', plan) /\ Shape(graph', plan)
         /\ \A t \in plan.ids : Undrawn(graph', t)
         /\ \A t : t \notin DOMAIN AcceptedOf(graph')
<1>1. results = {} /\ Accepts(plan) /\ plan \in PlanType /\ plan.ids \subseteq Tasks
  BY DEF EngineInv, TypeInv, TaskTypes, PlanType, TaskInv, BeforePlan, PlanProgress, FrontStates
<1>2. /\ GraphOK(graph) /\ Shape(graph, plan) /\ Has(graph, PlanNode)
      /\ \A id : Has(graph, id) => id \in RunIds
  BY DEF GraphInv, Shape, CloudDrawn
<1>3. \A t : t \notin DOMAIN AcceptedOf(graph)
  BY <1>1 DEF GraphInv, JobsDrawn
<1>4. \A t \in plan.ids : ~Has(graph, <<t>>)
  BY <1>1, <1>2, TasksAreNoRunNodes, TaskPlaces
<1>5. Planned(graph, graph', plan)
  BY <1>2, <1>4, PlanCreatedDrawn
<1>6. Shape(graph', plan) /\ \A t \in plan.ids : Undrawn(graph', t)
  BY <1>1, <1>2, <1>3, <1>5, ShapePlanned
<1>7. \A t : t \notin DOMAIN AcceptedOf(graph')
  BY <1>3, <1>5 DEF Planned
<1> QED BY <1>5, <1>6, <1>7

LEMMA PlanCreatedEvent ==
  ASSUME NEW g, NEW p
  PROVE  /\ AddAll(g, <<<<"plan_created", p>>>>) = OnPlanCreated(g, p)
         /\ PrefixesOf(g, <<<<"plan_created", p>>>>) \subseteq {g, OnPlanCreated(g, p)}
<1> DEFINE a == <<"plan_created", p>>
<1>1. Add(g, a) = OnPlanCreated(g, p)
  BY Handlers
<1> HIDE DEF a
<1>2. AddAll(g, <<a>>) = Add(g, a) /\ PrefixesOf(g, <<a>>) \subseteq {g, Add(g, a)}
  BY AddFew, PrefixesFew
<1> QED BY <1>1, <1>2 DEF a

LEMMA GraphStartTasks ==
  ASSUME OrdinaryNames, EngineInv, GraphInv, StartTasks, Draw(Announced), UNCHANGED critiqued
  PROVE  GraphInv'
<1>1. main = "planned" /\ NextBatch /\ UNCHANGED <<plan, pending, results>> /\ MainStep
  BY DEF StartTasks, MainAt, MainStep
<1>2. /\ results = {} /\ (\A t \in Tasks : pc[t] = "idle") /\ pending = plan.ids
      /\ Accepts(plan) /\ plan \in PlanType /\ plan.ids \subseteq Tasks
  BY <1>1 DEF EngineInv, TypeInv, TaskTypes, PlanType, TaskInv, BeforePlan, PlanProgress, FrontStates
<1>3. /\ Has(graph, PlanNode) /\ AllOver(graph, PlanNode)
      /\ LocalsDrawn(graph, Len(LocalTiers) + 1) /\ ~Has(graph, AnswerNode)
  BY <1>1 DEF GraphInv, CloudDrawn
<1>4. graph' = OnPlanCreated(graph, plan)
  BY <1>1, PlanCreatedEvent DEF Announced, Draw
<1>5. /\ Planned(graph, graph', plan) /\ Shape(graph', plan)
      /\ \A t \in plan.ids : Undrawn(graph', t)
      /\ \A t : t \notin DOMAIN AcceptedOf(graph')
  BY <1>1, <1>4, PlanDrawn
<1>6. CASE main' = "gather"
  <2>1. \A t \in Tasks : JobDrawn(graph', plan, t, pc[t], attempt[t])
    BY <1>2, JobIdle
  <2>2. /\ \A t \in Tasks : JobDrawn(graph', plan, t, pc'[t], attempt'[t])
        /\ \A t \in plan.ids : pc'[t] = "idle" => Undrawn(graph', t)
    BY <1>1, <1>2, <1>5, <1>6, <2>1, BatchDrawn
  <2>3. Resting(graph', PlanNode)
    BY <1>3, <1>5 DEF Planned, Resting, AllOver
  <2>4. \A t \in plan.ids : <<t>> \notin RunIds
    BY <1>2, TasksAreNoRunNodes, TaskPlaces
  <2>5. /\ \A id \in RunIds : Has(graph', id) <=> Has(graph, id)
        /\ \A id \in LocalIds : Has(graph, id) => Same(graph, graph', id)
    BY <1>5, <2>4, RunNodesDiffer DEF Planned
  <2>6. ~Has(graph', AnswerNode)
    BY <1>3, <2>5, RunIdsAre
  <2>7. LocalsDrawn(graph', Len(LocalTiers) + 1)
    <3>1. \A id \in LocalIds : Has(graph', id) => Has(graph, id) /\ (Refusing(graph, id) => Refusing(graph', id))
      BY <2>5, RunIdsAre DEF Same, Refusing, Resting, AllOver
    <3> QED BY <1>3, <3>1, RunIdsAre DEF LocalsDrawn
  <2>8. main \in {"planned"} \cup TaskStates /\ main' \in TaskStates
    BY <1>1, <1>6 DEF TaskStates
  <2> QED BY <1>1, <1>5, <2>2, <2>3, <2>6, <2>7, <2>8, TasksGoOn
<1>7. CASE Ready = {}
  <2>1. Cardinality(plan.ids) \in 1..MaxTasks
    BY <1>2 DEF Accepts
  <2>2. Cardinality({}) = 0
    BY FS_EmptySet
  <2>3. Cardinality(plan.ids) # 0
    BY <2>1, LimitsAssumption
  <2>4. pending # {}
    BY <1>2, <2>2, <2>3
  <2> QED BY <1>2, <1>7, <2>4, SomeTaskIsReady DEF EngineInv, TaskInv
<1> QED BY <1>1, <1>6, <1>7 DEF NextBatch

\* What the tasks and the end of the run find in the graph.
LEMMA TaskStage ==
  ASSUME GraphInv, main \in {"gather", "cleanup", "assembling"}
  PROVE  /\ GraphOK(graph) /\ Shape(graph, plan)
         /\ LocalsDrawn(graph, Len(LocalTiers) + 1)
         /\ ~Has(graph, AnswerNode)
         /\ Has(graph, PlanNode) => Resting(graph, PlanNode)
BY DEF GraphInv, Shape, CloudDrawn, TaskStates

\* The main coroutine leaves for an exception.
LEMMA LeaveStep ==
  ASSUME OrdinaryNames, EngineInv, GraphInv, MainStep, main \in TimedStates \ {"completing", "completed"},
         main' \in {"failing", "cancelling"}, UNCHANGED <<plan, pc, attempt, results, critiqued>>,
         RunDraws(graph, graph')
  PROVE  GraphInv'
<1>1. main' \notin TaskStates
  BY DEF TaskStates
<1>2. (Shape(graph, plan) /\ JobsDrawn(graph))'
  BY <1>1, RunStep
<1>3. FrontDrawn' /\ CloudDrawn'
  BY LeftDrawn
<1>4. EndDrawn'
  BY NotYetEnded
<1> QED BY <1>2, <1>3, <1>4 DEF GraphInv

LEMMA GraphGather ==
  ASSUME OrdinaryNames, EngineInv, GraphInv, GatherReturns, Draw(Announced), UNCHANGED critiqued
  PROVE  GraphInv'
<1>1. /\ main = "gather" /\ main' = "cleanup" /\ MainStep
      /\ UNCHANGED <<plan, pc, attempt, results>>
  BY DEF GatherReturns, MainStep, jobVars
<1>2. graph' = graph
  BY <1>1, AddNone DEF Draw, Announced
<1>3. /\ \A t \in DOMAIN AcceptedOf(graph') : t \in results
      /\ \A t \in Tasks : JobDrawn(graph', plan, t, pc'[t], attempt'[t])
      /\ \A t \in plan.ids : pc'[t] = "idle" => Undrawn(graph', t)
  BY <1>1, <1>2 DEF GraphInv, JobsDrawn, TaskStates
<1>4. main \in {"planned"} \cup TaskStates /\ main' \in TaskStates
  BY <1>1 DEF TaskStates
<1> QED BY <1>1, <1>2, <1>3, <1>4, TaskStage, TasksGoOn

LEMMA GraphCleanup ==
  ASSUME OrdinaryNames, EngineInv, GraphInv, CleanupReturns, Draw(Announced), UNCHANGED critiqued
  PROVE  GraphInv'
<1>1. main = "cleanup" /\ MainStep /\ UNCHANGED <<plan, results>>
  BY DEF CleanupReturns, MainStep
<1>2. graph' = graph
  BY <1>1, AddNone DEF Draw, Announced
<1>3. RunDraws(graph, graph')
  BY <1>1, <1>2, TaskStage, RunDrawsNothing
<1>4. main \in TimedStates \ {"completing", "completed"} /\ main \in {"planned"} \cup TaskStates
  BY <1>1 DEF TimedStates, FrontStates, TaskStates, FinalStates
<1>5. /\ \A t \in DOMAIN AcceptedOf(graph) : t \in results
      /\ \A t \in Tasks : JobDrawn(graph, plan, t, pc[t], attempt[t])
      /\ \A t \in plan.ids : pc[t] = "idle" => Undrawn(graph, t)
  BY <1>1 DEF GraphInv, JobsDrawn, TaskStates
<1>6. CASE UNCHANGED <<pc, attempt>> /\ main' \in {"failing", "cancelling"}
  BY <1>1, <1>3, <1>4, <1>6, LeaveStep
<1>7. CASE UNCHANGED <<pc, attempt>> /\ main' = "assembling"
  <2>1. (Shape(graph, plan) /\ JobsDrawn(graph))'
    BY <1>1, <1>3, <1>7, RunStep DEF TaskStates
  <2>2. FrontDrawn'
    BY <1>7, CloudFront
  <2>3. CloudDrawn'
    BY <1>1, <1>2, <1>7, TaskStage DEF CloudDrawn, CloudAnswered, CompletingStates, TaskStates
  <2>4. EndDrawn'
    BY <1>1, <1>4, NotYetEnded
  <2> QED BY <2>1, <2>2, <2>3, <2>4 DEF GraphInv
<1>8. CASE NextBatch /\ main' = "gather" /\ raised = "none"
  <2>1. \A t \in pending : pc[t] = "idle"
    BY <1>1, <1>8 DEF EngineInv, TaskInv, BatchFacts, TaskStates
  <2>2. /\ \A t \in Tasks : JobDrawn(graph, plan, t, pc'[t], attempt'[t])
        /\ \A t \in plan.ids : pc'[t] = "idle" => Undrawn(graph, t)
    BY <1>5, <1>8, <2>1, BatchDrawn
  <2>3. main' \in TaskStates
    BY <1>8 DEF TaskStates
  <2> QED BY <1>1, <1>2, <1>4, <1>5, <2>2, <2>3, TaskStage, TasksGoOn
<1> QED BY <1>6, <1>7, <1>8 DEF CleanupReturns, NextBatch, Raise

LEMMA SynthesisStarts ==
  ASSUME OrdinaryNames, EngineInv, GraphInv, main = "assembling", graph' = OnSynthesizing(graph),
         UNCHANGED <<plan, pc, attempt, results>>, main' \notin TaskStates
  PROVE  Synthesized(graph, graph', plan) /\ Shape(graph', plan) /\ JobsDrawn(graph)'
<1>1. Shape(graph, plan) /\ ~Has(graph, AnswerNode)
  BY TaskStage
<1>2. \A t \in plan.ids : pc[t] = "done" /\ t \in Tasks
  BY DEF EngineInv, StageFacts, TaskInv, PlanProgress, FinalStates, TypeInv, TaskTypes, PlanType
<1>3. plan \in PlanType /\ plan.ids \subseteq Tasks /\ Accepts(plan)
  BY DEF EngineInv, TypeInv, TaskTypes, PlanType, StageFacts
<1>4. \A t \in plan.ids : Has(graph, <<t>>)
  BY <1>1, <1>2 DEF GraphInv, JobsDrawn, JobDrawn, Shape, LanesKnown
<1>5. Synthesized(graph, graph', plan)
  BY <1>1, <1>3, <1>4, SynthesizingDrawn
<1>6. Shape(graph', plan)
  BY <1>1, <1>3, <1>5, ShapeSynthesized
<1>7. JobsDrawn(graph)'
  <2>1. \A t \in Tasks : JobDrawn(graph, plan, t, pc[t], attempt[t])
    BY DEF GraphInv, JobsDrawn
  <2>2. \A t \in Tasks : \A id \in TaskIds(t) : id \notin {AnswerNode}
    BY TasksAreNoRunNodes, RunIdsAre
  <2>3. Draws(graph, graph', {AnswerNode})
    BY <1>5 DEF Synthesized
  <2>4. \A t \in Tasks : JobDrawn(graph', plan, t, pc[t], attempt[t])
    BY <2>1, <2>2, <2>3, JobKept
  <2>5. \A t \in DOMAIN AcceptedOf(graph') : t \in results
    BY <2>3 DEF Draws, GraphInv, JobsDrawn
  <2> QED BY <2>4, <2>5 DEF JobsDrawn
<1> QED BY <1>5, <1>6, <1>7

LEMMA SynthesizingEvent ==
  ASSUME NEW g
  PROVE  /\ AddAll(g, <<<<"synthesizing">>>>) = OnSynthesizing(g)
         /\ PrefixesOf(g, <<<<"synthesizing">>>>) \subseteq {g, OnSynthesizing(g)}
<1> DEFINE a == <<"synthesizing">>
<1>1. Add(g, a) = OnSynthesizing(g)
  BY Handlers
<1> HIDE DEF a
<1>2. AddAll(g, <<a>>) = Add(g, a) /\ PrefixesOf(g, <<a>>) \subseteq {g, Add(g, a)}
  BY AddFew, PrefixesFew
<1> QED BY <1>1, <1>2 DEF a

LEMMA GraphSynthesize ==
  ASSUME OrdinaryNames, EngineInv, GraphInv, Synthesize, Draw(Announced), UNCHANGED critiqued
  PROVE  GraphInv'
<1>1. /\ main = "assembling" /\ MainStep /\ main' \in {"synthesizing", "failing", "cancelling"}
      /\ UNCHANGED <<plan, pc, attempt, results>>
  BY DEF Synthesize, MainAt, MainStep, CloudCall, Raise, taskVars
<1>2. /\ LocalsDrawn(graph, Len(LocalTiers) + 1)
      /\ Has(graph, PlanNode) => Resting(graph, PlanNode)
  BY <1>1, TaskStage
<1>3. graph' = OnSynthesizing(graph)
  BY <1>1, SynthesizingEvent DEF Announced, Draw
<1>4. Synthesized(graph, graph', plan) /\ Shape(graph', plan) /\ JobsDrawn(graph)'
  BY <1>1, <1>3, SynthesisStarts DEF TaskStates
<1>5. EndDrawn'
  BY <1>1, NotYetEnded DEF TimedStates, FinalStates
<1>6. FrontDrawn' /\ CloudDrawn'
  <2>1. CASE main' = "synthesizing"
    <3>1. FrontDrawn'
      BY <2>1, CloudFront
    <3>2. {AnswerNode} \cap LocalIds = {} /\ PlanNode \notin {AnswerNode}
      BY RunNodesDiffer
    <3>3. LocalsDrawn(graph', Len(LocalTiers) + 1)
      BY <1>2, <1>4, <3>2, LocalsKept DEF Synthesized
    <3>4. Has(graph', PlanNode) => Resting(graph', PlanNode)
      BY <1>2, <1>4, <3>2 DEF Synthesized, Draws, Same, Resting, AllOver
    <3>5. Has(graph', AnswerNode) /\ AllOver(graph', AnswerNode)
      BY <1>4 DEF Synthesized, AllOver
    <3>6. CloudDrawn'
      BY <2>1, <3>3, <3>4, <3>5 DEF CloudDrawn, CloudAnswered, CompletingStates, TaskStates
    <3> QED BY <3>1, <3>6
  <2>2. CASE main' \in {"failing", "cancelling"}
    BY <2>2, LeftDrawn
  <2> QED BY <1>1, <2>1, <2>2
<1> QED BY <1>1, <1>4, <1>5, <1>6 DEF GraphInv

-----------------------------------------------------------------------------
(* The end of the run *)

\* A terminal event is added to the graph.
LEMMA EndEvent ==
  ASSUME EngineInv, NEW name \in {"run_completed", "run_failed", "run_cancelled"}, Close(name),
         Draw(When(closing' # closing, <<<<closing'[Len(closing')]>>>>))
  PROVE  graph' = Add(graph, <<name>>)
<1> DEFINE b == <<name>>
<1>1. closing' = Append(closing, name) /\ closing \in Seq({"run_completed", "run_failed", "run_cancelled"})
  BY DEF Close, EngineInv, TypeInv, EndTypes
<1>2. Len(closing') = Len(closing) + 1 /\ Len(closing) \in Nat /\ closing'[Len(closing')] = name
  BY <1>1
<1>3. closing' # closing
  BY <1>2
<1>4. When(TRUE, <<b>>) = <<b>>
  BY SendingWhen
<1>5. Draw(<<b>>)
  BY <1>2, <1>3, <1>4
<1> HIDE DEF b
<1>6. graph' = Add(graph, b)
  BY <1>5, AddFew DEF Draw
<1> QED BY <1>6 DEF b

\* No terminal event is sent.
LEMMA NoEndEvent ==
  ASSUME UNCHANGED closing, Draw(When(closing' # closing, <<<<closing'[Len(closing')]>>>>))
  PROVE  graph' = graph
BY SendingWhen, AddNone DEF Draw

LEMMA DoneRests ==
  ASSUME NEW g, NEW p, NEW t, NEW k, JobDrawn(g, p, t, "done", k)
  PROVE  \A id \in TaskIds(t) : Has(g, id) => Resting(g, id)
<1>1. JobAttempts(g, p, t, k, 0) /\ JobLeft(g, p, t, k) /\ JobAccepted(g, p, t, k)
  BY DEF JobDrawn
<1> TAKE id \in TaskIds(t)
<1> HAVE Has(g, id)
<1>2. StatusOf(g, id) \in {"passed", "escalated"}
  BY <1>1 DEF JobLeft, JobAccepted
<1>3. \A m \in Tried(g, id) : m \in 1..k /\ (OutcomeOf(g, id, m) = "running" => m = 0)
  BY <1>1 DEF JobAttempts
<1> QED BY <1>2, <1>3 DEF Resting, AllOver

\* run_completed is drawn on a graph where nothing but the answer is left to be marked.
LEMMA CompletedRests ==
  ASSUME OrdinaryNames, EngineInv, GraphInv, main = "completing", graph' = OnRunCompleted(graph)
  PROVE  AtRest(graph')
<1>1. Shape(graph, plan) /\ GraphOK(graph)
  BY DEF GraphInv, Shape
<1>2. /\ \A i : Has(graph', i) <=> Has(graph, i)
      /\ \A i : Has(graph, i) /\ i # AnswerNode => Same(graph, graph', i)
      /\ Has(graph, AnswerNode) =>
           /\ StatusOf(graph', AnswerNode) = "passed"
           /\ Tried(graph', AnswerNode) = Tried(graph, AnswerNode)
           /\ \A n \in Tried(graph, AnswerNode) : OutcomeOf(graph', AnswerNode, n) = OutcomeOf(graph, AnswerNode, n)
  BY <1>1, RunCompletedDrawn
<1>3. \A i : Has(graph, i) /\ i # AnswerNode /\ Resting(graph, i) => Resting(graph', i)
  BY <1>2 DEF Same, Resting, AllOver
<1>4. CASE route = "cloud"
  <2>1. /\ LocalsDrawn(graph, Len(LocalTiers) + 1)
        /\ Has(graph, AnswerNode) /\ AllOver(graph, AnswerNode)
        /\ Has(graph, PlanNode) => Resting(graph, PlanNode)
    BY <1>4 DEF GraphInv, CloudDrawn, CloudAnswered, CompletingStates
  <2>2. \A i \in LocalIds : Has(graph, i) => Resting(graph, i)
    BY <2>1 DEF LocalsDrawn, LocalIds, JudgeIds, Refusing
  <2>3. ASSUME NEW t \in plan.ids PROVE \A i \in TaskIds(t) : Has(graph, i) => Resting(graph, i)
    <3>1. t \in Tasks /\ pc[t] = "done"
      BY DEF EngineInv, StageFacts, TaskInv, PlanProgress, FinalStates, TypeInv, TaskTypes, PlanType
    <3>2. JobDrawn(graph, plan, t, "done", attempt[t])
      BY <3>1 DEF GraphInv, JobsDrawn
    <3> QED BY <3>2, DoneRests
  <2>4. Resting(graph', AnswerNode)
    BY <1>2, <2>1 DEF Resting, AllOver
  <2>5. \A i : Has(graph, i) /\ i # AnswerNode => Resting(graph, i)
    BY <1>1, <2>1, <2>2, <2>3 DEF Shape, NodesKnown, RunIds
  <2> QED BY <1>2, <1>3, <2>4, <2>5 DEF AtRest
<1>5. CASE route # "cloud"
  <2>1. LocalTrusted(graph, route)
    BY <1>5 DEF GraphInv, FrontDrawn, CompletingStates
  <2>2. \A i : Has(graph, i) => Resting(graph, i) /\ i # AnswerNode
    BY <2>1, RunNodesDiffer DEF LocalTrusted, Refusing, Resting
  <2> QED BY <1>2, <1>3, <2>2 DEF AtRest
<1> QED BY <1>4, <1>5

LEMMA TrustKept ==
  \A g, h, tier :
    LocalTrusted(g, tier) /\ (\A i : Has(h, i) <=> Has(g, i)) /\ (\A i : Has(g, i) => Same(g, h, i))
      => LocalTrusted(h, tier)
BY DEF LocalTrusted, Same, Refusing, Resting, AllOver

LEMMA GraphCompleted ==
  ASSUME OrdinaryNames, EngineInv, GraphInv, SendCompleted, UNCHANGED critiqued,
         Draw(When(closing' # closing, <<<<closing'[Len(closing')]>>>>))
  PROVE  GraphInv'
<1>1. /\ main = "completing" /\ main' = "completed" /\ Close("run_completed")
      /\ UNCHANGED <<plan, pc, attempt, results, route>>
  BY DEF SendCompleted, MainAt, taskVars, jobVars, frontVars
<1>2. graph' = OnRunCompleted(graph)
  <2>1. graph' = Add(graph, <<"run_completed">>)
    BY <1>1, EndEvent
  <2> QED BY <2>1, Handlers
<1>3. GraphOK(graph) /\ Shape(graph, plan)
  BY DEF GraphInv, Shape
<1>4. /\ RunDraws(graph, graph') /\ OverallOf(graph') = "completed"
      /\ \A i : Has(graph', i) <=> Has(graph, i)
      /\ \A i : Has(graph, i) /\ i # AnswerNode => Same(graph, graph', i)
      /\ Has(graph, AnswerNode) =>
           /\ StatusOf(graph', AnswerNode) = "passed"
           /\ Tried(graph', AnswerNode) = Tried(graph, AnswerNode)
           /\ \A n \in Tried(graph, AnswerNode) : OutcomeOf(graph', AnswerNode, n) = OutcomeOf(graph, AnswerNode, n)
  BY <1>2, <1>3, RunCompletedDrawn
<1>5. (Shape(graph, plan) /\ JobsDrawn(graph))'
  BY <1>1, <1>4, RunStep DEF TaskStates
<1>6. EndDrawn'
  BY <1>1, <1>2, CompletedRests DEF EndDrawn
<1>7. CASE route = "cloud"
  <2>1. /\ LocalsDrawn(graph, Len(LocalTiers) + 1)
        /\ Has(graph, AnswerNode) /\ AllOver(graph, AnswerNode)
        /\ Has(graph, PlanNode) => Resting(graph, PlanNode)
    BY <1>1, <1>7 DEF GraphInv, CloudDrawn, CloudAnswered, CompletingStates
  <2>2. LocalsDrawn(graph', Len(LocalTiers) + 1)
    <3>1. \A i \in LocalIds : Has(graph, i) /\ Refusing(graph, i) => Refusing(graph', i)
      BY <1>4, RunNodesDiffer DEF Same, Refusing, Resting, AllOver
    <3> QED BY <1>4, <2>1, <3>1, RunIdsAre DEF LocalsDrawn
  <2>3. Has(graph', PlanNode) => Resting(graph', PlanNode)
    BY <1>4, <2>1, RunNodesDiffer DEF Same, Resting, AllOver
  <2>4. Has(graph', AnswerNode) /\ AllOver(graph', AnswerNode) /\ StatusOf(graph', AnswerNode) = "passed"
    BY <1>4, <2>1 DEF AllOver
  <2>5. CloudDrawn'
    BY <1>1, <1>4, <2>2, <2>3, <2>4 DEF CloudDrawn, TaskStates
  <2>6. FrontDrawn'
    BY <1>1, <1>7 DEF FrontDrawn, BetweenModels, JudgingModel
  <2> QED BY <1>1, <1>5, <1>6, <2>5, <2>6 DEF GraphInv
<1>8. CASE route # "cloud"
  <2>1. LocalTrusted(graph, route)
    BY <1>1, <1>8 DEF GraphInv, FrontDrawn, CompletingStates
  <2>2. \A i : Has(graph, i) => i # AnswerNode
    BY <2>1, RunNodesDiffer DEF LocalTrusted
  <2>3. LocalTrusted(graph', route)
    BY <1>4, <2>1, <2>2, TrustKept
  <2>4. FrontDrawn'
    BY <1>1, <2>3 DEF FrontDrawn, BetweenModels, JudgingModel
  <2>5. CloudDrawn'
    BY <1>1, <1>4, <1>8 DEF CloudDrawn, CloudAnswered, TaskStates
  <2> QED BY <1>1, <1>5, <1>6, <2>4, <2>5 DEF GraphInv
<1> QED BY <1>7, <1>8

\* A step to an end of the run that draws nothing.
LEMMA GraphOver ==
  ASSUME GraphInv, main' \in {"returned", "raised", "cancelled"}, main' = "returned" => main = "completed",
         UNCHANGED <<graph, critiqued, route, plan, closing, pc, attempt, results>>
  PROVE  GraphInv'
<1>1. Shape(graph', plan') /\ critiqued' \in BOOLEAN /\ EndDrawn'
  BY DEF GraphInv, EndDrawn
<1>2. JobsDrawn(graph)'
  BY DEF GraphInv, JobsDrawn, TaskStates
<1>3. CASE main' = "returned"
  <2>1. FrontDrawn'
    BY <1>3 DEF GraphInv, FrontDrawn, BetweenModels, JudgingModel, CompletingStates
  <2>2. CloudDrawn'
    BY <1>3 DEF GraphInv, CloudDrawn, CloudAnswered, CompletingStates, TaskStates
  <2> QED BY <1>1, <1>2, <2>1, <2>2 DEF GraphInv
<1>4. CASE main' \in {"raised", "cancelled"}
  BY <1>1, <1>2, <1>4, LeftDrawn DEF GraphInv
<1> QED BY <1>3, <1>4

LEMMA GraphStopped ==
  ASSUME EngineInv, GraphInv, UNCHANGED critiqued,
         \/ SendFailed
         \/ SendCancelled,
         Draw(When(closing' # closing, <<<<closing'[Len(closing')]>>>>))
  PROVE  GraphInv'
<1>1. /\ main' \in {"reported", "cancelled"} /\ main \notin TaskStates
      /\ UNCHANGED <<plan, pc, attempt, results>>
      /\ Close("run_failed") \/ Close("run_cancelled")
  BY DEF SendFailed, SendCancelled, MainAt, taskVars, jobVars, frontVars, TaskStates
<1>2. graph' = Stop(graph, "failed") \/ graph' = Stop(graph, "cancelled")
  <2>1. graph' = Add(graph, <<"run_failed">>) \/ graph' = Add(graph, <<"run_cancelled">>)
    BY <1>1, EndEvent
  <2> QED BY <2>1, Handlers
<1>3. AllStopped(graph, graph')
  BY <1>2, StopDrawn DEF GraphInv, Shape
<1>4. Shape(graph', plan) /\ AtRest(graph')
  BY <1>3, ShapeStopped DEF GraphInv
<1>5. JobsDrawn(graph)'
  <2>1. \A t \in Tasks : pc[t] \notin ActiveStates
    BY <1>1 DEF EngineInv, TaskInv, JobFacts, Active
  <2>2. \A t \in Tasks : JobDrawn(graph, plan, t, pc[t], attempt[t])
    BY DEF GraphInv, JobsDrawn
  <2>3. \A t \in Tasks : JobDrawn(graph', plan, t, pc[t], attempt[t])
    BY <1>3, <2>1, <2>2, JobStopped
  <2>4. \A t \in DOMAIN AcceptedOf(graph') : t \in results
    BY <1>3 DEF AllStopped, GraphInv, JobsDrawn
  <2> QED BY <1>1, <2>3, <2>4 DEF JobsDrawn, TaskStates
<1>6. FrontDrawn' /\ CloudDrawn'
  BY <1>1, LeftDrawn
<1> QED BY <1>1, <1>4, <1>5, <1>6 DEF GraphInv, EndDrawn

LEMMA GraphEnd ==
  ASSUME OrdinaryNames, EngineInv, GraphInv, DrawEnd
  PROVE  GraphInv'
<1>1. CASE SendCompleted
  BY <1>1, GraphCompleted DEF DrawEnd
<1>2. CASE SendFailed \/ SendCancelled
  BY <1>2, GraphStopped DEF DrawEnd
<1>3. CASE ReturnAnswer \/ RaiseError \/ ReportInterrupted
  <2>1. /\ main' \in {"returned", "raised", "cancelled"} /\ (main' = "returned" => main = "completed")
        /\ UNCHANGED <<route, plan, closing, pc, attempt, results>>
    BY <1>3 DEF ReturnAnswer, RaiseError, ReportInterrupted, MainAt, frontVars, taskVars, endVars, jobVars
  <2>2. graph' = graph /\ critiqued' = critiqued
    BY <2>1, NoEndEvent DEF DrawEnd
  <2> QED BY <2>1, <2>2, GraphOver
<1> QED BY <1>1, <1>2, <1>3 DEF DrawEnd

-----------------------------------------------------------------------------
(* Interruptions *)

\* The node of the call that the main coroutine awaits.
MainNode ==
  CASE main = "extracting"                   -> Triage
    [] main \in {"solving", "critiquing"}    -> Judge(LocalTiers[rung])
    [] main \in {"answering", "synthesizing"} -> AnswerNode
    [] main = "planning"                     -> PlanNode

LEMMA MainCallNode ==
  ASSUME main \in CallStates, NEW g
  PROVE  \E operation, tier, n :
           /\ operation \in CallOperations
           /\ MainCall = Call(operation, tier, "none", n)
           /\ CallNodeId(g, MainCall) = MainNode
<1>1. CASE main = "extracting"
  <2>1. MainCall = Call("attempt", "local", "none", 1) /\ MainNode = Triage
    BY <1>1 DEF MainCall, MainNode
  <2>2. CallNodeId(g, MainCall) = MainNode /\ "attempt" \in CallOperations
    BY <2>1, CallNodes DEF CallOperations
  <2> QED BY <2>1, <2>2
<1>2. CASE main = "solving"
  <2>1. MainCall = Call("solve", LocalTiers[rung], "none", sample + 1) /\ MainNode = Judge(LocalTiers[rung])
    BY <1>2 DEF MainCall, MainNode, JudgedTier
  <2>2. CallNodeId(g, MainCall) = MainNode /\ "solve" \in CallOperations
    BY <2>1, CallNodes DEF CallOperations
  <2> QED BY <2>1, <2>2
<1>3. CASE main = "critiquing"
  <2>1. MainCall = Call("critique", LocalTiers[rung], "none", sample + 1) /\ MainNode = Judge(LocalTiers[rung])
    BY <1>3 DEF MainCall, MainNode, JudgedTier
  <2>2. CallNodeId(g, MainCall) = MainNode /\ "critique" \in CallOperations
    BY <2>1, CallNodes DEF CallOperations
  <2> QED BY <2>1, <2>2
<1>4. CASE main = "answering"
  <2>1. MainCall = Call("answer", "cloud", "none", 1) /\ MainNode = AnswerNode
    BY <1>4 DEF MainCall, MainNode
  <2>2. CallNodeId(g, MainCall) = MainNode /\ "answer" \in CallOperations
    BY <2>1, CallNodes DEF CallOperations
  <2> QED BY <2>1, <2>2
<1>5. CASE main = "planning"
  <2>1. MainCall = Call("plan", "cloud", "none", planTry) /\ MainNode = PlanNode
    BY <1>5 DEF MainCall, MainNode
  <2>2. CallNodeId(g, MainCall) = MainNode /\ "plan" \in CallOperations
    BY <2>1, CallNodes DEF CallOperations
  <2> QED BY <2>1, <2>2
<1>6. CASE main = "synthesizing"
  <2>1. MainCall = Call("synthesize", "cloud", "none", 1) /\ MainNode = AnswerNode
    BY <1>6 DEF MainCall, MainNode
  <2>2. CallNodeId(g, MainCall) = MainNode /\ "synthesize" \in CallOperations
    BY <2>1, CallNodes DEF CallOperations
  <2> QED BY <2>1, <2>2
<1> QED BY <1>1, <1>2, <1>3, <1>4, <1>5, <1>6 DEF CallStates

LEMMA OutputDrawn ==
  ASSUME main \in CallStates, NEW g, GraphOK(g), MainNode \in RunIds, Has(g, MainNode),
         NEW h, h = Add(g, <<"call_output", MainCall>>)
  PROVE  RunDraws(g, h)
<1> DEFINE call == MainCall
           id == MainNode
<1>1. h = OnCallOutput(g, call)
  <2> HIDE DEF call
  <2> QED BY Handlers DEF call
<1>2. PICK operation, tier, n : /\ operation \in CallOperations
                                /\ call = Call(operation, tier, "none", n)
                                /\ CallNodeId(g, call) = id
  BY MainCallNode
<1>3. id \in RunIds /\ Has(g, id)
  OBVIOUS
<1> HIDE DEF call, id
<1>4. Noted(g, h, id, n)
  <2>1. h = OnCallOutput(g, Call(operation, tier, "none", n)) /\ id = CallNodeId(g, Call(operation, tier, "none", n))
    BY <1>1, <1>2
  <2> QED BY <1>2, <1>3, <2>1, CallOutput
<1> QED BY <1>3, <1>4, NotedRun

\* What an interrupted call leaves of the graph.
LEMMA CallInterrupted ==
  ASSUME OrdinaryNames, EngineInv, GraphInv, main \in CallStates,
         graph' \in PrefixesOf(graph, Announced \o <<<<"call_output", MainCall>>>>)
  PROVE  RunDraws(graph, graph')
<1> DEFINE out == <<"call_output", MainCall>>
<1>1. GraphOK(graph) /\ Shape(graph, plan) /\ RunDraws(graph, graph)
  BY RunDrawsNothing DEF GraphInv, Shape
<1>2. ASSUME NEW g, RunDraws(graph, g), MainNode \in RunIds, Has(g, MainNode)
      PROVE  RunDraws(graph, Add(g, out))
  <2>1. GraphOK(g)
    BY <1>2 DEF RunDraws, Draws
  <2>2. RunDraws(g, Add(g, out))
    BY <1>2, <2>1, OutputDrawn
  <2> QED BY <1>2, <2>2, RunDrawsTrans
<1>3. CASE main \in {"answering", "planning", "synthesizing"}
  <2>1. Announced = <<>>
    BY <1>3 DEF Announced
  <2>2. MainNode \in RunIds /\ Has(graph, MainNode)
    BY <1>3, RunIdsAre DEF MainNode, GraphInv, CloudDrawn
  <2>3. RunDraws(graph, Add(graph, out))
    BY <1>1, <1>2, <2>2
  <2> HIDE DEF out
  <2>4. <<>> \o <<out>> = <<out>>
    BY EmptyBefore
  <2>5. PrefixesOf(graph, <<out>>) \subseteq {graph, Add(graph, out)}
    BY PrefixesFew
  <2>6. graph' \in PrefixesOf(graph, <<>> \o <<out>>)
    BY <2>1 DEF out
  <2> QED BY <1>1, <2>3, <2>4, <2>5, <2>6
<1>4. CASE main \in {"extracting", "critiquing"}
  <2>1. PICK a : Announced = <<a>> /\ RunDraws(graph, Add(graph, a)) /\ MainNode \in RunIds /\ Has(Add(graph, a), MainNode)
    <3>1. CASE main = "extracting"
      <4> DEFINE a == <<"local_attempt">>
      <4>1. Announced = <<a>> /\ Add(graph, a) = OnLocalAttempt(graph)
        BY <3>1, Handlers DEF Announced
      <4>2. MainNode = Triage
        BY <3>1 DEF MainNode
      <4> HIDE DEF a
      <4>3. RunDraws(graph, Add(graph, a)) /\ Has(Add(graph, a), Triage)
        BY <1>1, <4>1, LocalAttemptDrawn
      <4> QED BY <4>1, <4>2, <4>3, RunIdsAre
    <3>2. CASE main = "critiquing"
      <4> DEFINE a == <<"local_critique", LocalTiers[rung], sample>>
      <4>1. Announced = <<a>> /\ Add(graph, a) = OnLocalCritique(graph, LocalTiers[rung], sample)
        BY <3>2, Handlers DEF Announced, JudgedTier
      <4>2. MainNode = Judge(LocalTiers[rung]) /\ rung \in 1..Len(LocalTiers) /\ Has(graph, Judge(LocalTiers[rung]))
        BY <3>2 DEF MainNode, EngineInv, TypeInv, LoopFacts, GraphInv, FrontDrawn, JudgingModel, LocalJudged
      <4> HIDE DEF a
      <4>3. RunDraws(graph, Add(graph, a))
        BY <1>1, <4>1, <4>2, CritiqueDrawn
      <4>4. Has(Add(graph, a), Judge(LocalTiers[rung]))
        BY <4>2, <4>3 DEF RunDraws, Draws
      <4> QED BY <4>1, <4>2, <4>3, <4>4, RunIdsAre
    <3> QED BY <1>4, <3>1, <3>2
  <2>2. RunDraws(graph, Add(Add(graph, a), out))
    BY <1>2, <2>1
  <2>3. graph' \in PrefixesOf(graph, <<a>> \o <<out>>)
    BY <2>1
  <2> HIDE DEF out
  <2>4. PrefixesOf(graph, <<a>> \o <<out>>) \subseteq {graph, Add(graph, a), Add(Add(graph, a), out)}
    BY PrefixesFew
  <2> QED BY <1>1, <2>1, <2>2, <2>3, <2>4
<1>5. CASE main = "solving"
  <2> DEFINE a == <<"local_solve", LocalTiers[rung]>>
  <2>1. Announced = When(sample = 0, <<a>>)
    BY <1>5 DEF Announced, JudgedTier
  <2>2. Add(graph, a) = OnLocalSolve(graph, LocalTiers[rung])
    BY Handlers
  <2>3. Asked = (IF sample = 0 THEN Add(graph, a) ELSE graph)
    BY <2>2 DEF Asked
  <2>4. /\ rung \in 1..Len(LocalTiers) /\ RunDraws(graph, Asked) /\ Has(Asked, Judge(LocalTiers[rung]))
        /\ MainNode = Judge(LocalTiers[rung])
    BY <1>5, AskedDrawn DEF MainNode
  <2>5. RunDraws(graph, Add(Asked, out))
    BY <1>2, <2>4, RunIdsAre
  <2>6. graph' \in PrefixesOf(graph, When(sample = 0, <<a>>) \o <<out>>)
    BY <2>1
  <2> HIDE DEF a, out
  <2>7. (sample = 0) \in BOOLEAN
    OBVIOUS
  <2>8. PrefixesOf(graph, When(sample = 0, <<a>>) \o <<out>>) \subseteq {graph, Asked, Add(Asked, out)}
    BY <2>3, <2>7, AddWhen
  <2> QED BY <1>1, <2>4, <2>5, <2>6, <2>8
<1> QED BY <1>3, <1>4, <1>5 DEF CallStates

\* What an interrupted await for events leaves of it.
LEMMA AwaitInterrupted ==
  ASSUME OrdinaryNames, EngineInv, GraphInv, main \in (FrontStates \cup FinalStates) \ CallStates,
         graph' \in PrefixesOf(graph, Announced \o <<>>)
  PROVE  \/ RunDraws(graph, graph')
         \/ main = "planned" /\ graph' = OnPlanCreated(graph, plan)
         \/ main = "assembling" /\ graph' = OnSynthesizing(graph)
<1>1. GraphOK(graph) /\ Shape(graph, plan) /\ RunDraws(graph, graph)
  BY RunDrawsNothing DEF GraphInv, Shape
<1>2. CASE main \in {"starting", "deciding", "completing", "completed"}
  <2>1. Announced = <<>>
    BY <1>2 DEF Announced
  <2>2. <<>> \o <<>> = <<>>
    OBVIOUS
  <2>3. graph' = graph
    BY <2>1, <2>2, PrefixesNone
  <2> QED BY <1>1, <2>3
<1>3. CASE main = "skipping"
  <2> DEFINE a == <<"local_skipped", LocalTiers[rung]>>
  <2>1. Announced = <<a>> /\ Add(graph, a) = OnLocalSkipped(graph, LocalTiers[rung])
    BY <1>3, Handlers DEF Announced, JudgedTier
  <2>2. rung \in 1..Len(LocalTiers)
    BY <1>3 DEF EngineInv, TypeInv, LoopFacts
  <2> HIDE DEF a
  <2>3. RunDraws(graph, Add(graph, a))
    BY <1>1, <2>1, <2>2, SkippedDrawn
  <2>4. graph' \in PrefixesOf(graph, <<a>>)
    BY <2>1, WhenFacts
  <2>5. graph' \in {graph, Add(graph, a)}
    BY <2>4, PrefixesFew
  <2> QED BY <1>1, <2>3, <2>5
<1>4. CASE main = "escalated"
  <2> DEFINE direct == ~request.plans
             a == <<"escalated", direct>>
             b == <<"answering">>
  <2>1. direct \in BOOLEAN
    OBVIOUS
  <2>2. Announced = <<a>> \o When(direct, <<b>>)
    BY <1>4 DEF Announced
  <2>3. Add(graph, a) = OnEscalated(graph, direct) /\ \A g : Add(g, b) = OnAnswering(g)
    <3> HIDE DEF direct
    <3> QED BY Handlers
  <2> HIDE DEF direct, a, b
  <2>4. RunDraws(graph, Add(graph, a)) /\ GraphOK(Add(graph, a))
    <3>1. RunDraws(graph, Add(graph, a))
      BY <1>1, <2>1, <2>3, EscalatedDrawn DEF CloudMade
    <3> QED BY <3>1 DEF RunDraws, Draws
  <2>5. RunDraws(graph, Add(Add(graph, a), b))
    <3>1. RunDraws(Add(graph, a), Add(Add(graph, a), b))
      BY <2>3, <2>4, AnsweringDrawn DEF CloudMade
    <3> QED BY <2>4, <3>1, RunDrawsTrans
  <2>6. graph' \in PrefixesOf(graph, <<a>> \o <<b>>) \/ graph' \in PrefixesOf(graph, <<a>>)
    <3>1. CASE direct
      <4>1. Announced = <<a>> \o <<b>>
        BY <2>2, <3>1 DEF When
      <4> QED BY <4>1, WhenFacts
    <3>2. CASE ~direct
      <4>1. Announced = <<a>> \o <<>>
        BY <2>2, <3>2 DEF When
      <4> QED BY <4>1, WhenFacts
    <3> QED BY <3>1, <3>2
  <2>7. graph' \in {graph, Add(graph, a), Add(Add(graph, a), b)}
    BY <2>6, PrefixesFew
  <2> QED BY <1>1, <2>4, <2>5, <2>7
<1>5. CASE main = "planned"
  <2>1. graph' \in PrefixesOf(graph, <<<<"plan_created", plan>>>>)
    BY <1>5, WhenFacts DEF Announced
  <2> QED BY <1>1, <1>5, <2>1, PlanCreatedEvent
<1>6. CASE main = "assembling"
  <2>1. graph' \in PrefixesOf(graph, <<<<"synthesizing">>>>)
    BY <1>6, WhenFacts DEF Announced
  <2> QED BY <1>1, <1>6, <2>1, SynthesizingEvent
<1> QED BY <1>2, <1>3, <1>4, <1>5, <1>6 DEF FrontStates, FinalStates, CallStates

LEMMA GraphInterrupted ==
  ASSUME OrdinaryNames, EngineInv, GraphInv, DrawInterrupted
  PROVE  GraphInv'
<1>1. /\ main \in FrontStates \cup FinalStates /\ main' \in {"failing", "cancelling"} /\ MainStep
      /\ UNCHANGED <<plan, pc, attempt, results, closing, critiqued>>
  BY DEF DrawInterrupted, Interrupted, Raise, taskVars, jobVars, endVars, MainStep
<1>2. graph' \in PrefixesOf(graph, Announced \o When(main \in CallStates, <<<<"call_output", MainCall>>>>))
  BY DEF DrawInterrupted, DrawSome, Draw, PrefixesOf
<1>3. FrontDrawn' /\ CloudDrawn' /\ main' \notin TaskStates
  BY <1>1, LeftDrawn DEF TaskStates
<1>4. \/ RunDraws(graph, graph')
      \/ main = "planned" /\ graph' = OnPlanCreated(graph, plan)
      \/ main = "assembling" /\ graph' = OnSynthesizing(graph)
  <2>1. CASE main \in CallStates
    <3>1. graph' \in PrefixesOf(graph, Announced \o <<<<"call_output", MainCall>>>>)
      BY <1>2, <2>1 DEF When
    <3> QED BY <2>1, <3>1, CallInterrupted
  <2>2. CASE main \notin CallStates
    <3>1. graph' \in PrefixesOf(graph, Announced \o <<>>)
      BY <1>2, <2>2 DEF When
    <3> QED BY <1>1, <2>2, <3>1, AwaitInterrupted
  <2> QED BY <2>1, <2>2
<1>5. EndDrawn'
  <2>1. CASE main = "completed"
    <3>1. Announced = <<>> /\ main \notin CallStates
      BY <2>1 DEF Announced, CallStates
    <3>2. <<>> \o <<>> = <<>>
      OBVIOUS
    <3>3. graph' = graph
      BY <1>2, <3>1, <3>2, PrefixesNone DEF When
    <3> QED BY <1>1, <3>3 DEF GraphInv, EndDrawn
  <2>2. CASE main # "completed"
    <3>1. closing = <<>>
      BY <1>1, <2>2 DEF EngineInv, CloseInv, TimedStates
    <3> QED BY <1>1, <3>1 DEF EndDrawn
  <2> QED BY <2>1, <2>2
<1>6. (Shape(graph, plan) /\ JobsDrawn(graph))'
  <2>1. CASE RunDraws(graph, graph')
    BY <1>1, <1>3, <2>1, RunStep
  <2>2. CASE main = "planned" /\ graph' = OnPlanCreated(graph, plan)
    <3>1. Shape(graph', plan) /\ \A t : t \notin DOMAIN AcceptedOf(graph')
      BY <2>2, PlanDrawn
    <3>2. \A t \in Tasks : pc[t] = "idle"
      BY <2>2 DEF EngineInv, TaskInv, BeforePlan, FrontStates
    <3>3. \A t \in Tasks : JobDrawn(graph', plan, t, pc[t], attempt[t])
      BY <3>2, JobIdle
    <3> QED BY <1>1, <1>3, <3>1, <3>3 DEF JobsDrawn
  <2>3. CASE main = "assembling" /\ graph' = OnSynthesizing(graph)
    BY <1>1, <1>3, <2>3, SynthesisStarts
  <2> QED BY <1>4, <2>1, <2>2, <2>3
<1> QED BY <1>1, <1>3, <1>5, <1>6 DEF GraphInv

-----------------------------------------------------------------------------
(* The facts of the engine are invariant *)

CloudStates == {"escalated", "answering", "planning", "planned", "assembling", "synthesizing"} \cup TaskStates
PlanStates  == {"planning", "planned", "assembling", "synthesizing"} \cup TaskStates

LEMMA StageRoute ==
  ASSUME TypeInv, StageFacts, MainStep
  PROVE  /\ main' \in CloudStates => rung' = Len(LocalTiers) + 1 /\ route' = "cloud"
         /\ main' \in PlanStates => request'.plans
<1> USE DEF CloudStates, PlanStates, TaskStates
<1>1. ASSUME NEW k \in 0..Len(LocalTiers), ClimbFrom(k)
      PROVE  /\ main' \in CloudStates => rung' = Len(LocalTiers) + 1 /\ route' = "cloud"
             /\ main' \notin PlanStates
  <2>1. main' \in {"skipping", "solving", "escalated"}
    BY <1>1, Climbing DEF TypeInv
  <2>2. main' = "escalated" => ~(k < Len(LocalTiers))
    BY <1>1 DEF ClimbFrom
  <2>3. ~(k < Len(LocalTiers)) => rung' = Len(LocalTiers) + 1 /\ route' = "cloud"
    BY <1>1, TierFacts DEF ClimbFrom
  <2> QED BY <2>1, <2>2, <2>3
<1>2. 0 \in 0..Len(LocalTiers) /\ (main \in {"skipping", "deciding"} => rung \in 0..Len(LocalTiers))
  BY TierFacts DEF TypeInv, LoopFacts
<1>3. CASE Start
  BY <1>1, <1>2, <1>3 DEF Start
<1>4. CASE ExtractReturns
  BY <1>1, <1>2, <1>4 DEF ExtractReturns, Raise
<1>5. CASE SkipTier
  BY <1>1, <1>2, <1>5 DEF SkipTier, MainAt
<1>6. CASE Decide
  BY <1>1, <1>2, <1>6 DEF Decide, MainAt
<1>7. CASE SolveReturns \/ CritiqueReturns
  BY <1>7 DEF SolveReturns, CritiqueReturns, Raise
<1>8. CASE EscalateToCloud
  BY <1>8 DEF EscalateToCloud, PlannerCall, CloudCall, Raise, MainAt, StageFacts
<1>9. CASE PlanReturns
  BY <1>9 DEF PlanReturns, PlannerCall, CloudCall, Raise, MainAt, StageFacts
<1>10. CASE AnswerReturns \/ SynthesisReturns
  BY <1>10 DEF AnswerReturns, SynthesisReturns, Raise
<1>11. CASE StartTasks
  BY <1>11 DEF StartTasks, NextBatch, Raise, MainAt, StageFacts, frontVars
<1>12. CASE GatherReturns
  BY <1>12 DEF GatherReturns, StageFacts, frontVars
<1>13. CASE CleanupReturns
  BY <1>13 DEF CleanupReturns, NextBatch, Raise, StageFacts, frontVars
<1>14. CASE Synthesize
  BY <1>14 DEF Synthesize, CloudCall, Raise, MainAt, StageFacts, frontVars
<1>15. CASE SendCompleted \/ ReturnAnswer \/ SendFailed \/ RaiseError \/ SendCancelled \/ Interrupted \/ ReportInterrupted
  BY <1>15 DEF SendCompleted, ReturnAnswer, SendFailed, RaiseError, SendCancelled, Interrupted, ReportInterrupted, Raise
<1> QED BY <1>3, <1>4, <1>5, <1>6, <1>7, <1>8, <1>9, <1>10, <1>11, <1>12, <1>13, <1>14, <1>15 DEF MainStep

LEMMA StageBatch ==
  ASSUME TypeInv, NextBatch
  PROVE  /\ \A t \in Tasks \ pending : pc'[t] = pc[t]
         /\ \A t \in Tasks : (pc'[t] = pc[t] /\ attempt'[t] = attempt[t]) \/ attempt'[t] = 1
BY DEF NextBatch, Ready, TypeInv, JobTypes

LEMMA StagePlan ==
  ASSUME TypeInv, TaskInv, StageFacts, MainStep
  PROVE  /\ main' \in TaskStates \cup FinalStates \cup {"returned"} => \A t \in plan'.ids \ pending' : pc'[t] = "done"
         /\ plan'.ids # {} \/ main' = "assembling" => Accepts(plan')
<1>1. CASE ~PlanReturns /\ ~StartTasks /\ ~GatherReturns /\ ~CleanupReturns
  <2>1. /\ UNCHANGED <<taskVars, pc, attempt, reply, slots, results>>
        /\ \/ main \in FrontStates \ {"planned"} /\ main' \in (FrontStates \ {"planned"}) \cup {"completing"}
           \/ main \in FinalStates /\ main' \in FinalStates \cup {"returned"}
           \/ main' \in {"failing", "reported", "cancelling", "raised", "cancelled"}
                /\ main \notin TaskStates
    BY <1>1, MainMoves
  <2>2. main \in FrontStates \ {"planned"} => plan.ids = {}
    BY DEF TaskInv, BeforePlan, NoPlan
  <2>3. main' # "assembling"
    BY <1>1, Climbing DEF MainStep, Start, ExtractReturns, SkipTier, Decide, SolveReturns, CritiqueReturns, EscalateToCloud,
           PlannerCall, CloudCall, Raise, AnswerReturns, SynthesisReturns, Synthesize, SendCompleted, ReturnAnswer,
           SendFailed, RaiseError, SendCancelled, Interrupted, ReportInterrupted, ClimbFrom
  <2>4. plan' = plan /\ pending' = pending /\ pc' = pc
    BY <2>1 DEF taskVars
  <2>5. main' \in TaskStates \cup FinalStates \cup {"returned"} => main \in FinalStates \/ plan.ids = {}
    BY <2>1, <2>2 DEF TaskStates, FinalStates, FrontStates
  <2> QED BY <2>3, <2>4, <2>5 DEF StageFacts
<1>2. CASE PlanReturns
  <2>1. main' \in {"planning", "planned", "failing", "cancelling"}
    BY <1>2 DEF PlanReturns, PlannerCall, CloudCall, Raise, MainAt
  <2>2. plan' = plan \/ Accepts(plan')
    BY <1>2 DEF PlanReturns
  <2> QED BY <2>1, <2>2 DEF StageFacts, TaskStates, FinalStates
<1>3. CASE StartTasks
  <2>1. pending = plan.ids /\ UNCHANGED <<plan, pending>> /\ main' # "assembling"
    BY <1>3 DEF StartTasks, NextBatch, Raise, MainAt, TaskInv, BeforePlan, FrontStates
  <2> QED BY <2>1 DEF StageFacts
<1>4. CASE GatherReturns
  <2>1. UNCHANGED <<plan, pc>> /\ main' = "cleanup" /\ main = "gather"
    BY <1>4 DEF GatherReturns, jobVars
  <2>2. pending' = pending \/ (pending' = pending \ batch /\ outer = "values")
    BY <1>4 DEF GatherReturns, Collected, TypeInv, TaskTypes, Errors
  <2>3. outer = "values" => \A t \in batch : pc[t] = "done"
    BY <2>1 DEF TaskInv, BatchFacts
  <2> QED BY <2>1, <2>2, <2>3 DEF StageFacts, TaskStates
<1>5. CASE CleanupReturns
  <2>1. UNCHANGED <<plan, pending>> /\ main = "cleanup" /\ (pc' = pc \/ NextBatch)
    BY <1>5 DEF CleanupReturns
  <2>2. \A t \in plan.ids \ pending : pc'[t] = pc[t]
    BY <2>1, StageBatch DEF TypeInv, TaskTypes, PlanType
  <2>3. Accepts(plan)
    BY <2>1 DEF TaskInv, PlanProgress, TaskStates
  <2> QED BY <2>1, <2>2, <2>3 DEF StageFacts, TaskStates
<1> QED BY <1>1, <1>2, <1>3, <1>4, <1>5

LEMMA StageAttempts ==
  ASSUME TypeInv, TaskInv, StageFacts, MainStep
  PROVE  \A t \in Tasks : pc'[t] # "idle" => attempt'[t] \in 1..Len(WorkerTiers(plan'.tier[t]))
<1>1. CASE PlanReturns
  BY <1>1 DEF PlanReturns, MainAt, TaskInv, BeforePlan, FrontStates
<1>2. CASE StartTasks \/ CleanupReturns
  <2>1. plan' = plan /\ (NextBatch \/ UNCHANGED <<pc, attempt>>)
    BY <1>2 DEF StartTasks, CleanupReturns
  <2>2. ASSUME NEW t \in Tasks PROVE Len(WorkerTiers(plan.tier[t])) \in Nat \ {0}
    <3>1. plan.tier[t] \in TierNames
      BY DEF TypeInv, TaskTypes, PlanType
    <3> QED BY <3>1, WorkerTiersAre
  <2>3. ASSUME NEW t \in Tasks, pc'[t] # "idle" PROVE attempt'[t] \in 1..Len(WorkerTiers(plan.tier[t]))
    <3>1. (pc'[t] = pc[t] /\ attempt'[t] = attempt[t]) \/ attempt'[t] = 1
      BY <2>1, StageBatch
    <3>2. CASE attempt'[t] = 1
      BY <2>2, <3>2
    <3>3. CASE pc'[t] = pc[t] /\ attempt'[t] = attempt[t]
      BY <2>3, <3>3 DEF StageFacts
    <3> QED BY <3>1, <3>2, <3>3
  <2> QED BY <2>1, <2>3
<1>3. CASE ~PlanReturns /\ ~StartTasks /\ ~CleanupReturns
  <2>1. UNCHANGED <<pc, attempt>>
    BY <1>3, MainLeavesJobs
  <2>2. plan' = plan
    BY <1>3, MainLeavesTasks DEF taskVars, GatherReturns
  <2> QED BY <2>1, <2>2 DEF StageFacts
<1> QED BY <1>1, <1>2, <1>3

LEMMA StageJob ==
  ASSUME TypeInv, TaskInv, StageFacts, NEW t \in Tasks, JobStep(t)
  PROVE  StageFacts'
<1>1. UNCHANGED <<request, main, rung, route, plan, pending>> /\ Worker(t)
  BY DEF JobStep, mainVars
<1>2. /\ Active(t)
      /\ \A u \in Tasks \ {t} : pc'[u] = pc[u]
      /\ pc'[t] = "done" => pc[t] = "accepting"
  BY <1>1, JobMoves
<1>3. \A u \in plan.ids \ pending : pc[u] = "done" => pc'[u] = "done"
  BY <1>2 DEF Active, ActiveStates, TypeInv, TaskTypes, PlanType
<1>4. ASSUME NEW u \in Tasks, pc'[u] # "idle" PROVE attempt'[u] \in 1..Len(WorkerTiers(plan.tier[u]))
  <2>1. pc[u] # "idle"
    BY <1>2, <1>4 DEF Active, ActiveStates
  <2>2. attempt[u] \in 1..Len(WorkerTiers(plan.tier[u]))
    BY <2>1 DEF StageFacts
  <2>3. CASE attempt'[u] = attempt[u]
    BY <2>2, <2>3
  <2>4. CASE NextAttempt(t) /\ attempt' # attempt
    <3>1. attempt[t] < Len(WorkerTiers(plan.tier[t])) /\ attempt' = [attempt EXCEPT ![t] = @ + 1]
      BY <2>4 DEF NextAttempt
    <3>2. plan.tier[t] \in TierNames
      BY DEF TypeInv, TaskTypes, PlanType
    <3>3. Len(WorkerTiers(plan.tier[t])) \in Nat
      BY <3>2, WorkerTiersAre
    <3>4. attempt \in [Tasks -> Nat]
      BY DEF TypeInv, JobTypes
    <3>5. attempt'[u] = attempt[u] \/ (u = t /\ attempt'[u] = attempt[u] + 1)
      BY <3>1, <3>4
    <3> QED BY <2>2, <3>1, <3>3, <3>5
  <2> QED BY <1>1, <2>3, <2>4 DEF Worker, AcquireSlot, StartCall, Reply, FinishCall, NextAttempt, FinishTask, CancelJob
<1> QED BY <1>1, <1>3, <1>4 DEF StageFacts

LEMMA StageInit == Init => StageFacts
BY DEF Init, StageFacts, TaskStates, FinalStates, NoPlan

LEMMA StageNext == TypeInv /\ TaskInv /\ StageFacts /\ [Next]_vars => StageFacts'
<1> SUFFICES ASSUME TypeInv, TaskInv, StageFacts, [Next]_vars PROVE StageFacts'
  OBVIOUS
<1>1. CASE MainStep
  BY <1>1, StageRoute, StagePlan, StageAttempts DEF StageFacts, CloudStates, PlanStates
<1>2. CASE \E t \in Tasks : JobStep(t)
  BY <1>2, StageJob
<1>3. CASE (\E t \in Tasks : JobCallback(t)) \/ CallerCancels \/ DeadlineExpires \/ Ended \/ UNCHANGED vars
  <2>1. UNCHANGED <<request, main, rung, route, plan, pending>>
    BY <1>3, OthersLeaveMain DEF frontVars
  <2>2. UNCHANGED <<pc, attempt>>
    BY <1>3, OthersLeaveJobs DEF jobVars
  <2> QED BY <2>1, <2>2 DEF StageFacts
<1> QED BY <1>1, <1>2, <1>3 DEF Next

LEMMA EngineInit == Init => EngineInv
<1> SUFFICES ASSUME Init PROVE EngineInv
  OBVIOUS
<1>1. CloseInv
  BY DEF Init, CloseInv
<1> QED BY <1>1, TypeInit, TaskInit, SlotInit, StageInit DEF EngineInv

LEMMA EngineNext == EngineInv /\ [Next]_vars => EngineInv'
BY TypeNext, TaskNext, SlotNext, CloseNext, StageNext DEF EngineInv

-----------------------------------------------------------------------------
(* The graph is right in every state of a run *)

\* Every step that draws is a step of the engine.
LEMMA DrawingIsRunning ==
  ASSUME [GraphNext]_graphVars
  PROVE  [Next]_vars
BY DEF GraphNext, graphVars, DrawAnnounced, DrawExtract, DrawSolve, DrawCritique, DrawDecide, DrawPlan, DrawReply, DrawEnd,
       DrawInterrupted, DrawJob, Next, MainStep

LEMMA GraphAnnounced ==
  ASSUME OrdinaryNames, EngineInv, GraphInv, DrawAnnounced
  PROVE  GraphInv'
<1>1. Draw(Announced) /\ UNCHANGED critiqued
  BY DEF DrawAnnounced
<1>2. Start \/ SkipTier \/ EscalateToCloud \/ StartTasks \/ GatherReturns \/ CleanupReturns \/ Synthesize
  BY DEF DrawAnnounced
<1> QED BY <1>1, <1>2, GraphStart, GraphSkip, GraphEscalate, GraphStartTasks, GraphGather, GraphCleanup, GraphSynthesize

LEMMA GraphIdle ==
  ASSUME GraphInv, UNCHANGED <<graph, critiqued>>,
         (\E t \in Tasks : JobCallback(t)) \/ CallerCancels \/ DeadlineExpires \/ Ended \/ UNCHANGED vars
  PROVE  GraphInv'
<1>1. UNCHANGED <<main, rung, sample, route, plan, closing>>
  BY OthersLeaveMain DEF frontVars
<1>2. UNCHANGED <<pc, attempt, results>>
  BY OthersLeaveJobs DEF jobVars
<1> QED BY <1>1, <1>2, GraphUnchanged

LEMMA GraphStep ==
  ASSUME OrdinaryNames, EngineInv, GraphInv, [GraphNext]_graphVars
  PROVE  GraphInv'
<1>1. CASE DrawAnnounced
  BY <1>1, GraphAnnounced
<1>2. CASE DrawExtract
  BY <1>2, GraphExtract
<1>3. CASE DrawSolve
  BY <1>3, GraphSolve
<1>4. CASE DrawCritique
  BY <1>4, GraphCritique
<1>5. CASE DrawDecide
  BY <1>5, GraphDecide
<1>6. CASE DrawPlan
  BY <1>6, GraphPlan
<1>7. CASE DrawReply
  BY <1>7, GraphReply
<1>8. CASE DrawEnd
  BY <1>8, GraphEnd
<1>9. CASE DrawInterrupted
  BY <1>9, GraphInterrupted
<1>10. CASE \E t \in Tasks : DrawJob(t)
  BY <1>10, GraphJob
<1>11. CASE /\ (\E t \in Tasks : JobCallback(t)) \/ CallerCancels \/ DeadlineExpires \/ Ended \/ UNCHANGED vars
            /\ UNCHANGED <<graph, critiqued>>
  BY <1>11, GraphIdle
<1> QED BY <1>1, <1>2, <1>3, <1>4, <1>5, <1>6, <1>7, <1>8, <1>9, <1>10, <1>11 DEF GraphNext, graphVars

LEMMA GraphStarts ==
  ASSUME Init, graph = EmptyGraph, critiqued = FALSE
  PROVE  GraphInv
<1> DEFINE none == <<>>
<1>1. DOMAIN none = {} /\ none = [id \in DOMAIN none |-> none[id]]
  OBVIOUS
<1>2. /\ graph = [status |-> graph.status, nodes |-> graph.nodes, edges |-> graph.edges,
                  taskLane |-> graph.taskLane, accepted |-> graph.accepted]
      /\ graph.nodes = none /\ graph.edges = {} /\ graph.taskLane = none /\ graph.accepted = none
  BY DEF EmptyGraph
<1> HIDE DEF none
<1>3. \A id : ~Has(graph, id)
  BY <1>1, <1>2 DEF Has
<1>4. GraphOK(graph)
  BY <1>1, <1>2 DEF GraphOK
<1>5. EdgesOf(graph) = {} /\ DOMAIN LanesOf(graph) = {} /\ DOMAIN AcceptedOf(graph) = {}
  BY <1>1, <1>2 DEF EdgesOf, LanesOf, AcceptedOf
<1>6. Shape(graph, plan)
  BY <1>3, <1>4, <1>5 DEF Shape, NodesKnown, LocalsKnown, CloudKnown, TasksKnown, TaskKnown, EdgesKnown, LanesKnown,
                          AcceptedKnown
<1>7. JobsDrawn(graph)
  <2>1. main = "starting" /\ \A t \in Tasks : pc[t] = "idle"
    BY DEF Init
  <2> QED BY <1>5, <2>1, JobIdle DEF JobsDrawn, TaskStates
<1>8. FrontDrawn /\ CloudDrawn
  BY <1>3 DEF Init, FrontDrawn, CloudDrawn, BetweenModels, JudgingModel, CloudAnswered, CompletingStates, TaskStates
<1>9. EndDrawn
  BY DEF Init, EndDrawn
<1> QED BY <1>6, <1>7, <1>8, <1>9 DEF GraphInv

LEMMA GraphInvariance ==
  ASSUME OrdinaryNames
  PROVE  GraphSpec => [](EngineInv /\ GraphInv)
<1>1. GraphInit => EngineInv /\ GraphInv
  BY EngineInit, GraphStarts DEF GraphInit
<1>2. EngineInv /\ GraphInv /\ [GraphNext]_graphVars => EngineInv' /\ GraphInv'
  BY EngineNext, DrawingIsRunning, GraphStep
<1> QED BY <1>1, <1>2, PTL DEF GraphSpec

-----------------------------------------------------------------------------
(* What the graph shows *)

LEMMA RestIsShown ==
  ASSUME GraphInv
  PROVE  GraphAtRest
BY DEF GraphInv, EndDrawn, AtRest, Resting, AllOver, GraphAtRest, Has, StatusOf, Tried, OutcomeOf

LEMMA TaskIsShown ==
  ASSUME OrdinaryNames, EngineInv, GraphInv, NEW t \in Tasks
  PROVE  /\ t \in DOMAIN graph.accepted => t \in results
         /\ pc[t] = "done" =>
              /\ t \in DOMAIN graph.accepted
              /\ graph.nodes[graph.accepted[t]].lane = Tier(t)
              /\ \A id \in NodesOfTask(t) :
                   graph.nodes[id].status = IF id = graph.accepted[t] THEN "passed" ELSE "escalated"
         /\ pc[t] \in {"calling", "replied", "rejecting", "accepting", "done"} =>
              \A n \in 1..attempt[t] :
                Cardinality({id \in NodesOfTask(t) : n \in DOMAIN graph.nodes[id].attempts}) = 1
<1> DEFINE k == attempt[t]
           node == NodeOf(plan, t, k)
<1>1. /\ Shape(graph, plan) /\ JobDrawn(graph, plan, t, pc[t], k)
      /\ t \in DOMAIN AcceptedOf(graph) => t \in results
  BY DEF GraphInv, JobsDrawn
<1>2. \A id : id \in NodesOfTask(t) <=> Has(graph, id) /\ id \in TaskIds(t)
  BY DEF NodesOfTask, TaskIds, Retry, Has
<1>3. pc[t] # "idle" => t \in plan.ids /\ k \in Attempts(plan, t)
  BY DEF EngineInv, TaskInv, JobFacts, StageFacts, Attempts
<1>4. plan \in PlanType
  BY DEF EngineInv, TypeInv, TaskTypes
<1>5. ASSUME pc[t] = "done"
      PROVE  /\ t \in DOMAIN graph.accepted
             /\ graph.nodes[graph.accepted[t]].lane = Tier(t)
             /\ \A id \in NodesOfTask(t) :
                  graph.nodes[id].status = IF id = graph.accepted[t] THEN "passed" ELSE "escalated"
  <2>1. JobLeft(graph, plan, t, k) /\ JobAccepted(graph, plan, t, k)
    BY <1>1, <1>5 DEF JobDrawn
  <2>2. node = PlaceOf(plan, t, TierOf(plan, t, k)) /\ TierOf(plan, t, k) \in TierNames /\ Tier(t) = TierOf(plan, t, k)
    BY <1>3, <1>4, <1>5, NodeOfIs DEF Tier, AttemptTier, TierOf
  <2>3. LaneOf(graph, node) = Tier(t)
    <3>1. TaskKnown(graph, plan, t) /\ Has(graph, node)
      BY <1>1, <1>3, <1>5, <2>1 DEF Shape, TasksKnown, JobAccepted
    <3> QED BY <2>2, <3>1 DEF TaskKnown, PlaceOf
  <2>4. AcceptedOf(graph)[t] = node /\ t \in DOMAIN AcceptedOf(graph) /\ StatusOf(graph, node) = "passed"
    BY <2>1 DEF JobAccepted
  <2>5. \A id \in NodesOfTask(t) : StatusOf(graph, id) = IF id = node THEN "passed" ELSE "escalated"
    BY <1>2, <2>1, <2>4 DEF JobLeft
  <2> HIDE DEF node
  <2> QED BY <2>3, <2>4, <2>5 DEF LaneOf, StatusOf, AcceptedOf
<1>6. ASSUME pc[t] \in {"calling", "replied", "rejecting", "accepting", "done"}
      PROVE  \A n \in 1..k : Cardinality({id \in NodesOfTask(t) : n \in DOMAIN graph.nodes[id].attempts}) = 1
  <2>1. \E j : JobAttempts(graph, plan, t, k, j)
    BY <1>1, <1>6 DEF JobDrawn, ActiveStates, Started
  <2>2. ASSUME NEW n \in 1..k
        PROVE  {id \in NodesOfTask(t) : n \in Tried(graph, id)} = {NodeOf(plan, t, n)}
    BY <1>2, <2>1 DEF JobAttempts
  <2>3. \A n \in 1..k : Cardinality({id \in NodesOfTask(t) : n \in Tried(graph, id)}) = 1
    BY <2>2, FS_Singleton
  <2> QED BY <2>3 DEF Tried
<1> QED BY <1>1, <1>5, <1>6 DEF AcceptedOf

LEMMA TasksAreShown ==
  ASSUME OrdinaryNames, EngineInv, GraphInv
  PROVE  GraphShowsTasks
BY TaskIsShown DEF GraphShowsTasks

\* The nodes of which one gave the answer.
LEMMA AnsweringNodes ==
  ASSUME GraphInv, NEW id, Has(graph, id), KindOf(graph, id) \in {"judge", "triage", "answer"}
  PROVE  id \in LocalIds \cup {AnswerNode}
<1>1. Shape(graph, plan)
  BY DEF GraphInv
<1>2. ASSUME NEW t \in plan.ids, id \in TaskIds(t) PROVE FALSE
  <2>1. KindOf(graph, id) \in {"task", "retry"}
    BY <1>1, <1>2 DEF Shape, TasksKnown, TaskKnown, TaskIds
  <2> QED BY <2>1
<1>3. id # PlanNode
  BY <1>1 DEF Shape, CloudKnown
<1> QED BY <1>1, <1>2, <1>3 DEF Shape, NodesKnown, RunIds

LEMMA RouteIsShown ==
  ASSUME GraphInv
  PROVE  GraphShowsRoute
<1> SUFFICES ASSUME main = "returned" PROVE GraphShowsRoute
  BY DEF GraphShowsRoute
<1> DEFINE trusted == {id \in NodesOfKind(graph, {"judge", "triage", "answer"}) :
                         graph.nodes[id].status \in {"passed", "answered"}}
<1>1. \A id : id \in trusted <=> /\ Has(graph, id)
                                /\ KindOf(graph, id) \in {"judge", "triage", "answer"}
                                /\ StatusOf(graph, id) \in {"passed", "answered"}
  BY DEF NodesOfKind, Has, KindOf, StatusOf
<1>2. OverallOf(graph) = "completed" /\ (route = "cloud" => StatusOf(graph, AnswerNode) = "passed") /\ Shape(graph, plan)
  BY DEF GraphInv, CloudDrawn
<1>3. \E id \in trusted : trusted = {id} /\ LaneOf(graph, id) = route
  <2> HIDE DEF trusted
  <2>1. CASE route = "cloud"
    <3>1. LocalsDrawn(graph, Len(LocalTiers) + 1) /\ Has(graph, AnswerNode)
      BY <2>1 DEF GraphInv, CloudDrawn, CloudAnswered, CompletingStates
    <3>2. KindOf(graph, AnswerNode) = "answer" /\ LaneOf(graph, AnswerNode) = "cloud"
      BY <1>2, <3>1 DEF Shape, CloudKnown
    <3>3. \A id \in LocalIds : Has(graph, id) => Refusing(graph, id)
      BY <3>1 DEF LocalsDrawn, LocalIds, JudgeIds
    <3>4. \A id \in trusted : id = AnswerNode
      BY <1>1, <3>3, AnsweringNodes DEF Refusing
    <3>5. AnswerNode \in trusted
      BY <1>1, <1>2, <2>1, <3>1, <3>2
    <3> QED BY <2>1, <3>2, <3>4, <3>5
  <2>2. CASE route # "cloud"
    <3>1. LocalTrusted(graph, route)
      BY <2>2 DEF GraphInv, FrontDrawn, CompletingStates
    <3>2. PICK id : /\ Has(graph, id) /\ LaneOf(graph, id) = route
                    /\ StatusOf(graph, id) \in {"passed", "answered"}
                    /\ \A i : Has(graph, i) /\ i # id => Refusing(graph, i)
      BY <3>1 DEF LocalTrusted
    <3>3. id \in LocalIds
      BY <3>1, <3>2 DEF LocalTrusted
    <3>4. KindOf(graph, id) \in {"judge", "triage"}
      BY <1>2, <3>2, <3>3 DEF Shape, LocalsKnown, LocalIds, JudgeIds
    <3>5. id \in trusted /\ \A i \in trusted : i = id
      BY <1>1, <3>2, <3>4 DEF Refusing
    <3> QED BY <3>2, <3>5
  <2> QED BY <2>1, <2>2
<1> HIDE DEF trusted
<1>4. graph.status = "completed" /\ \E id \in trusted : trusted = {id} /\ graph.nodes[id].lane = route
  BY <1>2, <1>3 DEF OverallOf, LaneOf
<1> QED BY <1>4 DEF GraphShowsRoute, trusted

LEMMA ResultsAreShown ==
  ASSUME EngineInv, GraphInv
  PROVE  ResultsFlowForward
<1>1. Shape(graph, plan) /\ plan \in PlanType
  BY DEF GraphInv, EngineInv, TypeInv, TaskTypes
<1>2. \A e \in EdgesOf(graph) : EdgeKnown(graph, plan, e)
  BY <1>1 DEF Shape, EdgesKnown
<1>3. ASSUME NEW d \in plan.ids, NEW id, Has(graph, id), id \in TaskIds(d)
      PROVE  RoundOf(graph, id) = DepthOf(plan, d)
  BY <1>1, <1>3 DEF Shape, TasksKnown, TaskKnown, TaskIds
<1>4. ASSUME NEW e \in EdgesOf(graph), e[3] = "result",
             NEW s, s = IF e[1][1] \in DOMAIN AcceptedOf(graph) THEN AcceptedOf(graph)[e[1][1]] ELSE e[1]
      PROVE  RoundOf(graph, s) < RoundOf(graph, e[2])
  <2>1. Has(graph, e[1]) /\ Has(graph, e[2]) /\ (ToAnswer(graph, plan, e) \/ ToTask(plan, e))
    BY <1>2, <1>4 DEF EdgeKnown
  <2>2. ASSUME NEW d \in plan.ids, e[1] = <<d>> PROVE RoundOf(graph, s) = DepthOf(plan, d)
    <3>1. e[1][1] = d /\ <<d>> \in TaskIds(d)
      BY <2>2 DEF TaskIds
    <3>2. Has(graph, s) /\ s \in TaskIds(d)
      <4>1. CASE d \in DOMAIN AcceptedOf(graph)
        BY <1>1, <1>4, <3>1, <4>1 DEF Shape, AcceptedKnown
      <4>2. CASE d \notin DOMAIN AcceptedOf(graph)
        BY <1>4, <2>1, <2>2, <3>1, <4>2
      <4> QED BY <4>1, <4>2
    <3> QED BY <1>3, <3>2
  <2>3. CASE ToAnswer(graph, plan, e)
    <3>1. PICK d \in plan.ids : e[1] = <<d>>
      BY <2>3 DEF ToAnswer
    <3>2. e[2] = AnswerNode /\ DepthOf(plan, d) < RoundOf(graph, AnswerNode)
      BY <2>3 DEF ToAnswer
    <3> QED BY <2>2, <3>1, <3>2
  <2>4. CASE ToTask(plan, e)
    <3>1. PICK t \in plan.ids : e[2] = <<t>> /\ \E d \in plan.deps[t] : e[1] = <<d>>
      BY <2>4 DEF ToTask
    <3>2. PICK d \in plan.deps[t] : e[1] = <<d>>
      BY <3>1
    <3>3. Accepts(plan)
      BY DEF EngineInv, StageFacts
    <3>4. d \in plan.ids /\ DepthOf(plan, d) < DepthOf(plan, t)
      BY <1>1, <3>3, DepthFacts
    <3>5. RoundOf(graph, e[2]) = DepthOf(plan, t)
      BY <1>3, <2>1, <3>1, TaskPlaces
    <3>6. RoundOf(graph, s) = DepthOf(plan, d)
      BY <2>2, <3>2, <3>4
    <3> QED BY <3>4, <3>5, <3>6
  <2> QED BY <2>1, <2>3, <2>4
<1>5. \A e \in graph.edges : Has(graph, e[1]) /\ Has(graph, e[2])
  BY <1>2 DEF EdgeKnown, EdgesOf
<1>6. ASSUME NEW e \in ShownEdges(graph), e[3] = "result"
      PROVE  graph.nodes[e[1]].round < graph.nodes[e[2]].round
  <2>1. PICK f \in graph.edges :
          e = <<IF f[3] = "result" /\ f[1][1] \in DOMAIN graph.accepted THEN graph.accepted[f[1][1]] ELSE f[1], f[2], f[3]>>
    BY DEF ShownEdges
  <2>2. f[3] = "result" /\ e[2] = f[2] /\ f \in EdgesOf(graph)
    BY <1>6, <2>1 DEF EdgesOf
  <2>3. e[1] = IF f[1][1] \in DOMAIN AcceptedOf(graph) THEN AcceptedOf(graph)[f[1][1]] ELSE f[1]
    BY <2>1, <2>2 DEF AcceptedOf
  <2>4. RoundOf(graph, e[1]) < RoundOf(graph, f[2])
    BY <1>4, <2>2, <2>3
  <2> QED BY <2>2, <2>4 DEF RoundOf
<1> QED BY <1>5, <1>6 DEF ResultsFlowForward

-----------------------------------------------------------------------------
(* Theorems *)

\* Wherever a run and its jobs are stopped or cancelled, once its terminal event has been
\* drawn no node of the graph is queued or running and no attempt is left running: _stop
\* reaches everything, and a completed run has nothing under way.
THEOREM GraphComesToRest ==
  ASSUME OrdinaryNames
  PROVE  GraphSpec => []GraphAtRest
<1>1. EngineInv /\ GraphInv => GraphAtRest
  BY RestIsShown
<1> QED BY <1>1, GraphInvariance, PTL

\* However the jobs interleave and are cancelled, every attempt that started is drawn at
\* exactly one node of its task, and an accepted result at a passed node in the lane of the
\* model that gave it, all others of the task being escalated (_task_node, task_started,
\* task_escalated, task_completed).
THEOREM GraphShowsEveryTask ==
  ASSUME OrdinaryNames
  PROVE  GraphSpec => []GraphShowsTasks
<1>1. EngineInv /\ GraphInv => GraphShowsTasks
  BY TasksAreShown
<1> QED BY <1>1, GraphInvariance, PTL

\* A run that returned is drawn as completed, with exactly one trusted answer among the
\* local models, the extraction and the cloud, in the lane of the route that RunResult
\* reports.
THEOREM GraphShowsTheRoute ==
  ASSUME OrdinaryNames
  PROVE  GraphSpec => []GraphShowsRoute
<1>1. EngineInv /\ GraphInv => GraphShowsRoute
  BY RouteIsShown
<1> QED BY <1>1, GraphInvariance, PTL

\* to_dict drops no edge, and each result flows to a later round of the graph, for every
\* plan the validation accepts: the rounds are the depths of an acyclic graph.
THEOREM ResultsFlowForwardAlways ==
  ASSUME OrdinaryNames
  PROVE  GraphSpec => []ResultsFlowForward
<1>1. EngineInv /\ GraphInv => ResultsFlowForward
  BY ResultsAreShown
<1> QED BY <1>1, GraphInvariance, PTL
=============================================================================
