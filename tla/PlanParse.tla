----------------------------- MODULE PlanParse -----------------------------
(***************************************************************************)
(* Plan.parse: the planner's reply is checked row by row, then as a graph, *)
(* before any worker runs.  The checks before the loop are one step; the   *)
(* loop that collects resolved tasks takes one step per iteration.         *)
(*                                                                         *)
(* A row keeps what later code relies on: id, tier, the tasks it depends   *)
(* on and its input references <<prefix, key>>.  wellFormed stands for the *)
(* checks on field names, types, lengths, result type and required checks. *)
(***************************************************************************)
EXTENDS PlanGraph

CONSTANTS
  Sources,   \* the keys of the request's sources
  Keys,      \* every key a reference may name
  Replies    \* the planner replies considered: sequences of rows

Row == [id : Tasks, tier : TierNames \cup {"unknown"}, deps : SUBSET Tasks,
        refs : SUBSET ({"sources", "results", "other"} \X Keys), wellFormed : BOOLEAN]

ASSUME RepliesAssumption == Replies \subseteq Seq(Row)

VARIABLES
  rows,       \* the rows of the reply
  status,     \* checking, sorting, accepted or refused
  error,      \* why the plan was refused
  resolved    \* ids whose dependencies are all resolved

vars == <<rows, status, error, resolved>>

Ids == {rows[i].id : i \in 1..Len(rows)}

\* What each task depends on; ids are unique once the graph is looked at.
Deps == [t \in Ids |-> rows[CHOOSE i \in 1..Len(rows) : rows[i].id = t].deps]

\* Mutant of KnownRef: a result may be used without declaring the dependency.
KnownRefUndeclared(row, ref) ==
  \/ ref[1] = "sources" /\ ref[2] \in Sources
  \/ ref[1] = "results"

\* An input is a source of the request, or the result of a declared dependency.
KnownRef(row, ref) ==
  \/ ref[1] = "sources" /\ ref[2] \in Sources
  \/ ref[1] = "results" /\ ref[2] \in row.deps

KnownTier(row) == \E i \in 1..Len(Tiers) : Tiers[i] = row.tier

\* The first check that fails, in the order of the code.
FirstError ==
  LET malformed(row)  == ~row.wellFormed \/ ~KnownTier(row) \/ row.refs = {}
      unresolved(row) == \/ ~(row.deps \subseteq Ids)
                         \/ row.id \in row.deps
                         \/ \E ref \in row.refs : ~KnownRef(row, ref)
  IN  IF Len(rows) \notin 1..MaxTasks THEN "count"
      ELSE IF \E i \in 1..Len(rows) : malformed(rows[i]) THEN "fields"
      ELSE IF Cardinality(Ids) # Len(rows) THEN "duplicate"
      ELSE IF \E i \in 1..Len(rows) : unresolved(rows[i]) THEN "reference"
      ELSE "none"

\* Mutant of ReadyToResolve: a task may wait for one that becomes ready with it.
ReadyTogether ==
  {t \in Ids \ resolved : \A d \in Deps[t] : d \in resolved \/ Deps[d] \subseteq resolved \cup {t}}

\* The tasks that one iteration of the loop resolves.
ReadyToResolve == {t \in Ids \ resolved : Deps[t] \subseteq resolved}

Init ==
  /\ rows \in Replies
  /\ status = "checking"
  /\ error = "none"
  /\ resolved = {}

Check ==
  /\ status = "checking"
  /\ error' = FirstError
  /\ status' = IF error' = "none" THEN "sorting" ELSE "refused"
  /\ UNCHANGED <<rows, resolved>>

\* Mutant of Resolve: an iteration that resolves nothing is not noticed.
ResolveForever ==
  /\ status = "sorting"
  /\ Cardinality(resolved) < Len(rows)
  /\ resolved' = resolved \cup ReadyToResolve
  /\ UNCHANGED <<rows, status, error>>

Resolve ==
  /\ status = "sorting"
  /\ Cardinality(resolved) < Len(rows)
  /\ IF ReadyToResolve = {}
     THEN /\ status' = "refused"
          /\ error' = "cyclic"
          /\ UNCHANGED resolved
     ELSE /\ resolved' = resolved \cup ReadyToResolve
          /\ UNCHANGED <<status, error>>
  /\ UNCHANGED rows

Accept ==
  /\ status = "sorting"
  /\ ~(Cardinality(resolved) < Len(rows))
  /\ status' = "accepted"
  /\ UNCHANGED <<rows, error, resolved>>

Parsed == status \in {"accepted", "refused"} /\ UNCHANGED vars

Next == Check \/ Resolve \/ Accept \/ Parsed

Spec == Init /\ [][Next]_vars

\* Plan.parse is a plain function: once called it runs to its end.
FairSpec == Spec /\ WF_vars(Check \/ Resolve \/ Accept)

-----------------------------------------------------------------------------
\* The variables keep their types.
TypeOK ==
  /\ rows \in Seq(Row)
  /\ status \in {"checking", "sorting", "accepted", "refused"}
  /\ error \in {"none", "count", "fields", "duplicate", "reference", "cyclic"}
  /\ resolved \subseteq Ids

\* The plan that PlanGraph speaks of.
PlanFromRows ==
  [ids  |-> Ids,
   deps |-> [t \in Tasks |-> IF t \in Ids THEN Deps[t] ELSE {}],
   tier |-> [t \in Tasks |->
               IF t \in Ids THEN rows[CHOOSE i \in 1..Len(rows) : rows[i].id = t].tier ELSE "local"]]

\* The loop is an exact cycle test: an accepted plan satisfies Accepts, the condition
\* run_tasks relies on, and a plan refused as "Cyclic task dependencies" has a
\* nonempty set of tasks that wait for one another.
AcceptedPlansAreExecutable ==
  /\ status = "accepted" => Accepts(PlanFromRows)
  /\ error = "cyclic" => ~Acyclic(Ids, Deps)

\* Every input of an accepted task exists when the task is started: a source of the
\* request, or the result of a task that is resolved before it.
InputsResolvable ==
  status = "accepted" =>
    \A i \in 1..Len(rows) : \A ref \in rows[i].refs :
      \/ ref[1] = "sources" /\ ref[2] \in Sources
      \/ ref[2] \in rows[i].deps \cap resolved

\* The loop ends.
ParseEnds == <>(status \in {"accepted", "refused"})
=============================================================================
