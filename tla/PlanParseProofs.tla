-------------------------- MODULE PlanParseProofs --------------------------
(***************************************************************************)
(* Plan.parse decides acyclicity, for every reply, every set of ids and    *)
(* every limit.  The inductive invariant says that the resolved tasks      *)
(* depend on resolved tasks only and already form an acyclic graph.        *)
(***************************************************************************)
EXTENDS PlanParse, FiniteSetTheorems, TLAPS

\* What FirstError = "none" says of the graph and of the inputs.
SoundRows ==
  /\ Len(rows) \in 1..MaxTasks
  /\ Cardinality(Ids) = Len(rows)
  /\ \A i \in 1..Len(rows) : /\ KnownTier(rows[i])
                             /\ rows[i].deps \subseteq Ids \ {rows[i].id}
                             /\ \A ref \in rows[i].refs : KnownRef(rows[i], ref)

\* What the loop maintains.
ResolvedClosed  == \A t \in resolved : Deps[t] \subseteq resolved
ResolvedAcyclic == Acyclic(resolved, Deps)

Inv ==
  /\ TypeOK
  /\ status \in {"sorting", "accepted"} \/ error = "cyclic" => SoundRows
  /\ ResolvedClosed
  /\ ResolvedAcyclic
  /\ status = "accepted" => resolved = Ids
  /\ status # "refused" => error = "none"
  /\ error = "cyclic" => Ids \ resolved # {} /\ ReadyToResolve = {}

\* The dependencies and the tier of a task are those of a row with its id.
LEMMA RowOfTask ==
  ASSUME NEW t \in Ids
  PROVE  \E i \in 1..Len(rows) :
           /\ rows[i].id = t
           /\ Deps[t] = rows[i].deps
           /\ PlanFromRows.tier[t] = rows[i].tier \/ t \notin Tasks
<1> DEFINE j == CHOOSE i \in 1..Len(rows) : rows[i].id = t
<1>1. \E i \in 1..Len(rows) : rows[i].id = t
  BY DEF Ids
<1>2. j \in 1..Len(rows) /\ rows[j].id = t
  BY <1>1
<1>3. Deps[t] = rows[j].deps
  BY DEF Deps
<1>4. PlanFromRows.tier[t] = rows[j].tier \/ t \notin Tasks
  BY DEF PlanFromRows
<1> HIDE DEF j
<1>5. QED
  BY <1>2, <1>3, <1>4

\* The checks before the loop leave a sound set of rows.
LEMMA ChecksAreSound ==
  ASSUME FirstError = "none"
  PROVE  SoundRows
<1>1. Len(rows) \in 1..MaxTasks
  BY DEF FirstError
<1>2. Cardinality(Ids) = Len(rows)
  BY DEF FirstError
<1>3. ~\E i \in 1..Len(rows) : ~rows[i].wellFormed \/ ~KnownTier(rows[i]) \/ rows[i].refs = {}
  BY <1>1 DEF FirstError
<1>4. ~\E i \in 1..Len(rows) :
         \/ ~(rows[i].deps \subseteq Ids)
         \/ rows[i].id \in rows[i].deps
         \/ \E ref \in rows[i].refs : ~KnownRef(rows[i], ref)
  BY <1>1, <1>2, <1>3 DEF FirstError
<1>5. QED
  BY <1>1, <1>2, <1>3, <1>4 DEF SoundRows

\* The ids are tasks, and finitely many.
LEMMA IdsAreTasks ==
  ASSUME TypeOK
  PROVE  Ids \subseteq Tasks /\ IsFiniteSet(Ids)
<1>1. \A i \in 1..Len(rows) : rows[i] \in Row
  BY DEF TypeOK
<1>2. Ids \subseteq Tasks
  BY <1>1 DEF Ids, Row
<1>3. QED
  BY <1>2, TasksAssumption, FS_Subset

\* One iteration keeps the resolved graph acyclic: of a set that meets the tasks
\* resolved before, one of those is minimal; otherwise any member is.
LEMMA IterationKeepsAcyclic ==
  ASSUME ResolvedClosed, ResolvedAcyclic
  PROVE  Acyclic(resolved \cup ReadyToResolve, Deps)
<1> SUFFICES ASSUME NEW S \in SUBSET (resolved \cup ReadyToResolve), S # {}
             PROVE  \E t \in S : Deps[t] \cap S = {}
  BY DEF Acyclic
<1>1. CASE S \cap resolved # {}
  <2>1. PICK t \in S \cap resolved : Deps[t] \cap (S \cap resolved) = {}
    BY <1>1 DEF ResolvedAcyclic, Acyclic
  <2>2. Deps[t] \subseteq resolved
    BY <2>1 DEF ResolvedClosed
  <2>3. QED
    BY <2>1, <2>2
<1>2. CASE S \cap resolved = {}
  <2>1. PICK t \in S : t \in ReadyToResolve
    BY <1>2
  <2>2. Deps[t] \subseteq resolved
    BY <2>1 DEF ReadyToResolve
  <2>3. QED
    BY <1>2, <2>1, <2>2
<1>3. QED
  BY <1>1, <1>2

LEMMA InvInit == Init => Inv
<1> SUFFICES ASSUME Init PROVE Inv
  OBVIOUS
<1>1. rows \in Seq(Row)
  BY RepliesAssumption DEF Init
<1>2. TypeOK
  BY <1>1 DEF Init, TypeOK
<1>3. ResolvedClosed /\ ResolvedAcyclic
  BY DEF Init, ResolvedClosed, ResolvedAcyclic, Acyclic
<1>4. QED
  BY <1>2, <1>3 DEF Init, Inv

LEMMA InvNext == Inv /\ [Next]_vars => Inv'
<1> SUFFICES ASSUME Inv, [Next]_vars PROVE Inv'
  OBVIOUS
<1> USE DEF Inv
<1>1. rows' = rows
  BY DEF Next, Check, Resolve, Accept, Parsed, vars
<1>2. Ids' = Ids /\ Deps' = Deps
  BY <1>1 DEF Ids, Deps
<1>3. SoundRows' <=> SoundRows
  BY <1>1, <1>2 DEF SoundRows, KnownTier, KnownRef
<1>4. Ids \subseteq Tasks /\ IsFiniteSet(Ids)
  BY IdsAreTasks
<1>5. CASE Check
  <2>1. status' # "refused" => FirstError = "none"
    BY <1>5 DEF Check
  <2>2. error' # "cyclic" /\ TypeOK'
    BY <1>1, <1>2, <1>5 DEF Check, TypeOK, FirstError
  <2>3. (ResolvedClosed /\ ResolvedAcyclic)'
    BY <1>2, <1>5 DEF Check, ResolvedClosed, ResolvedAcyclic, Acyclic
  <2>4. status' # "accepted"
    BY <1>5 DEF Check
  <2>5. QED
    BY <1>3, <1>5, <2>1, <2>2, <2>3, <2>4, ChecksAreSound DEF Check, TypeOK
<1>6. CASE Resolve
  <2>1. SoundRows' /\ status' # "accepted"
    BY <1>3, <1>6 DEF Resolve
  <2>2. CASE ReadyToResolve = {}
    <3>1. Ids # resolved
      BY <1>4, <1>6 DEF Resolve, SoundRows
    <3>2. TypeOK' /\ (ResolvedClosed /\ ResolvedAcyclic)' /\ ReadyToResolve' = {}
      BY <1>1, <1>2, <1>6, <2>2
      DEF Resolve, TypeOK, ResolvedClosed, ResolvedAcyclic, Acyclic, ReadyToResolve
    <3>3. (Ids \ resolved # {})'
      BY <1>2, <1>6, <2>2, <3>1 DEF Resolve, TypeOK
    <3>4. status' = "refused"
      BY <1>6, <2>2 DEF Resolve
    <3>5. QED
      BY <2>1, <3>2, <3>3, <3>4
  <2>3. CASE ReadyToResolve # {}
    <3>1. resolved' = resolved \cup ReadyToResolve /\ status' = "sorting" /\ error' = error
      BY <1>6, <2>3 DEF Resolve
    <3>2. TypeOK'
      BY <1>1, <1>2, <3>1 DEF TypeOK, ReadyToResolve
    <3>3. ResolvedClosed'
      BY <1>2, <3>1 DEF ResolvedClosed, ReadyToResolve
    <3>4. ResolvedAcyclic'
      BY <1>2, <3>1, IterationKeepsAcyclic DEF ResolvedAcyclic
    <3>5. error = "none"
      BY <1>6 DEF Resolve
    <3>6. QED
      BY <2>1, <3>1, <3>2, <3>3, <3>4, <3>5
  <2>4. QED
    BY <2>2, <2>3
<1>7. CASE Accept
  <2>1. Cardinality(resolved) \in Nat /\ IsFiniteSet(resolved)
    BY <1>4, FS_Subset, FS_CardinalityType DEF TypeOK
  <2>2. Cardinality(resolved) = Cardinality(Ids)
    <3>1. Cardinality(resolved) <= Cardinality(Ids)
      BY <1>4, FS_Subset DEF TypeOK
    <3>2. QED
      BY <1>7, <2>1, <3>1 DEF Accept, SoundRows
  <2>3. resolved = Ids
    BY <1>4, <2>2, FS_Subset DEF TypeOK
  <2>4. error # "cyclic"
    BY <1>7, <2>3 DEF Accept
  <2>5. error = "none"
    BY <1>7 DEF Accept
  <2>6. QED
    BY <1>1, <1>2, <1>3, <1>7, <2>3, <2>4, <2>5
    DEF Accept, TypeOK, ResolvedClosed, ResolvedAcyclic, Acyclic
<1>8. CASE Parsed \/ UNCHANGED vars
  BY <1>1, <1>2, <1>3, <1>8
  DEF Parsed, vars, TypeOK, ResolvedClosed, ResolvedAcyclic, Acyclic, ReadyToResolve
<1>9. QED
  BY <1>5, <1>6, <1>7, <1>8 DEF Next

\* Plan.parse accepts only plans that run_tasks can execute, and refuses a plan as
\* cyclic only if some of its tasks wait for one another.
THEOREM ParseIsExact == Spec => []AcceptedPlansAreExecutable
<1>1. Inv => AcceptedPlansAreExecutable
  <2> SUFFICES ASSUME Inv PROVE AcceptedPlansAreExecutable
    OBVIOUS
  <2>1. Ids \subseteq Tasks
    BY IdsAreTasks DEF Inv
  <2>2. ASSUME status = "accepted" PROVE Accepts(PlanFromRows)
    <3> DEFINE p == PlanFromRows
    <3>1. p.ids = Ids /\ (\A t \in Ids : p.deps[t] = Deps[t])
      BY <2>1 DEF PlanFromRows
    <3>2. SoundRows
      BY <2>2 DEF Inv
    <3>3. \A t \in Ids : Deps[t] \subseteq Ids \ {t} /\ \E i \in 1..Len(Tiers) : Tiers[i] = p.tier[t]
      <4> SUFFICES ASSUME NEW t \in Ids
                   PROVE  Deps[t] \subseteq Ids \ {t} /\ \E i \in 1..Len(Tiers) : Tiers[i] = p.tier[t]
        OBVIOUS
      <4>1. PICK i \in 1..Len(rows) :
              rows[i].id = t /\ Deps[t] = rows[i].deps /\ (p.tier[t] = rows[i].tier \/ t \notin Tasks)
        BY RowOfTask
      <4>2. KnownTier(rows[i]) /\ rows[i].deps \subseteq Ids \ {rows[i].id}
        BY <3>2 DEF SoundRows
      <4>3. p.tier[t] = rows[i].tier
        BY <2>1, <4>1
      <4> HIDE DEF p
      <4>4. QED
        BY <4>1, <4>2, <4>3 DEF KnownTier
    <3>4. Acyclic(Ids, Deps)
      BY <2>2 DEF Inv, ResolvedAcyclic
    <3>5. Cardinality(Ids) \in 1..MaxTasks
      BY <3>2 DEF SoundRows
    <3> HIDE DEF p
    <3>6. Acyclic(p.ids, p.deps)
      BY <3>1, <3>4 DEF Acyclic
    <3>7. Accepts(p)
      BY <3>1, <3>3, <3>5, <3>6 DEF Accepts
    <3>8. QED
      BY <3>7 DEF p
  <2>3. ASSUME error = "cyclic" PROVE ~Acyclic(Ids, Deps)
    <3> DEFINE S == Ids \ resolved
    <3>1. S # {} /\ S \in SUBSET Ids /\ ReadyToResolve = {} /\ SoundRows
      BY <2>3 DEF Inv
    <3>2. ASSUME NEW t \in S PROVE Deps[t] \cap S # {}
      <4>1. Deps[t] \subseteq Ids
        BY <3>1, RowOfTask DEF SoundRows
      <4>2. ~(Deps[t] \subseteq resolved)
        BY <3>1 DEF ReadyToResolve
      <4>3. QED
        BY <4>1, <4>2
    <3>3. QED
      BY <3>1, <3>2 DEF Acyclic
  <2>4. QED
    BY <2>2, <2>3 DEF AcceptedPlansAreExecutable
<1>2. QED
  BY <1>1, InvInit, InvNext, PTL DEF Spec

\* Every input of an accepted plan exists when its task starts: no worker ever looks up a
\* result that no earlier task gives.
THEOREM InputsAreResolvable == Spec => []InputsResolvable
<1>1. Inv => InputsResolvable
  <2> SUFFICES ASSUME Inv, status = "accepted", NEW i \in 1..Len(rows), NEW ref \in rows[i].refs
               PROVE  \/ ref[1] = "sources" /\ ref[2] \in Sources
                      \/ ref[2] \in rows[i].deps \cap resolved
    BY DEF InputsResolvable
  <2>1. SoundRows /\ resolved = Ids
    BY DEF Inv
  <2>2. rows[i].deps \subseteq Ids /\ KnownRef(rows[i], ref)
    BY <2>1 DEF SoundRows
  <2>3. QED
    BY <2>1, <2>2 DEF KnownRef
<1>2. QED
  BY <1>1, InvInit, InvNext, PTL DEF Spec
=============================================================================
