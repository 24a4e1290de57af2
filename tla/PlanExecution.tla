--------------------------- MODULE PlanExecution ---------------------------
(***************************************************************************)
(* What a relay run promises about a plan, without jobs, batches, retries, *)
(* tiers or cancellation: results are accepted one task at a time, no task *)
(* before everything it depends on, never twice, and an answer is given    *)
(* only when every task of the plan has an accepted result.  A run may     *)
(* stop without an answer at any time.                                     *)
(***************************************************************************)
CONSTANT TaskIds

VARIABLES
  ids,        \* the tasks of the plan; none before there is a plan
  deps,       \* what each task depends on
  accepted,   \* the tasks with an accepted result
  status      \* running, answered or stopped

vars == <<ids, deps, accepted, status>>

Init ==
  /\ ids = {}
  /\ deps = [t \in TaskIds |-> {}]
  /\ accepted = {}
  /\ status = "running"

AdoptPlan ==
  /\ status = "running"
  /\ ids = {}
  /\ ids' \in SUBSET TaskIds
  /\ deps' \in [TaskIds -> SUBSET TaskIds]
  /\ UNCHANGED <<accepted, status>>

Accept(t) ==
  /\ status = "running"
  /\ t \in ids \ accepted
  /\ deps[t] \subseteq accepted
  /\ accepted' = accepted \cup {t}
  /\ UNCHANGED <<ids, deps, status>>

Answer ==
  /\ status = "running"
  /\ accepted = ids
  /\ status' = "answered"
  /\ UNCHANGED <<ids, deps, accepted>>

Stop ==
  /\ status = "running"
  /\ status' = "stopped"
  /\ UNCHANGED <<ids, deps, accepted>>

Next ==
  \/ AdoptPlan
  \/ \E t \in TaskIds : Accept(t)
  \/ Answer
  \/ Stop

Spec == Init /\ [][Next]_vars
=============================================================================
