------------------------- MODULE RelayServerProofs --------------------------
(***************************************************************************)
(* The server a deployment tests: what the installer promises of the       *)
(* pipe's row, and what the live test's use of the Tests folder promises   *)
(* of the chats, for every set of images, sources, settings, folders,      *)
(* chats and test runs, and any number of stops, database errors and       *)
(* interventions.                                                          *)
(***************************************************************************)
EXTENDS RelayServer, TLAPS

Spec == Init /\ [][Next]_vars

\* The part of the type invariant that the settings need.
RowsInv == table \subseteq Row

\* Past the loader the image's pipe is known to load.
LoadedInv == phase \in {"looking", "inserting", "updating"} => image \in Loadable

\* Unless the database refused, main inserts only where there is no row, and what it
\* updates is there.
TableInv ==
  /\ phase = "inserting" /\ ~erred => table = {}
  /\ phase = "updating" => table # {}

InstallerInv ==
  /\ image \in Images
  /\ RowsInv
  /\ OnlyLoadableIsStored
  /\ LoadedInv
  /\ TableInv

AdminStep ==
  \/ \E content \in Contents : AdminEdits(content) \/ AdminCreates(content)
  \/ AdminToggles
  \/ AdminDeletes
  \/ \E valves \in Valves : AdminSetsValves(valves)

SyncStep == Start \/ Load \/ Look \/ Insert \/ Update

\* What a step of the server does to the installer's variables.
InstallerNext == SyncStep \/ DatabaseRefuses \/ ContainerStops \/ AdminStep

\* Test runs and users leave the function table alone.
LEMMA ServerSteps == Next => [InstallerNext]_installerVars
<1>1. ASSUME Sync PROVE InstallerNext
  BY <1>1 DEF Sync, InstallerNext, SyncStep
<1>2. ASSUME NEW r \in Runs, BeginTests(r) \/ GoOn(r) PROVE UNCHANGED installerVars
  BY <1>2 DEF BeginTests, GoOn
<1>3. ASSUME Stop PROVE InstallerNext
  BY <1>3 DEF Stop, InstallerNext
<1>4. ASSUME Intervene PROVE InstallerNext
  BY <1>4 DEF Intervene, InstallerNext, AdminStep
<1>5. ASSUME Disturb PROVE UNCHANGED installerVars
  BY <1>5 DEF Disturb
<1> QED BY <1>1, <1>2, <1>3, <1>4, <1>5 DEF Next

LEMMA InstallerStarts == Init => InstallerInv
  BY DEF Init, InstallerInit, InstallerInv, RowsInv, OnlyLoadableIsStored, LoadedInv, TableInv, Row

\* What an update of the table's row changes and what it leaves.
LEMMA StoredRows ==
  ASSUME RowsInv, NEW content \in Contents, NEW active \in BOOLEAN
  PROVE  /\ Stored(content, active) \subseteq Row
         /\ \A s \in Stored(content, active) : s.content = content /\ s.active = active
         /\ {s.valves : s \in Stored(content, active)} = {r.valves : r \in table}
         /\ table # {} => Stored(content, active) # {}
<1> DEFINE Put(r) == [r EXCEPT !.content = content, !.active = active]
<1>1. \A r \in Row : /\ Put(r) \in Row /\ Put(r).content = content
                     /\ Put(r).active = active /\ Put(r).valves = r.valves
  BY DEF Row
<1>2. Stored(content, active) = {Put(r) : r \in table}
  BY DEF Stored
<1> HIDE DEF Put
<1> QED BY <1>1, <1>2 DEF RowsInv

LEMMA SwitchedRows ==
  ASSUME RowsInv, NEW active \in BOOLEAN
  PROVE  /\ Switched(active) \subseteq Row
         /\ {s.content : s \in Switched(active)} = {r.content : r \in table}
         /\ {s.valves : s \in Switched(active)} = {r.valves : r \in table}
<1> DEFINE Put(r) == [r EXCEPT !.active = active]
<1>1. \A r \in Row : Put(r) \in Row /\ Put(r).content = r.content /\ Put(r).valves = r.valves
  BY DEF Row
<1>2. Switched(active) = {Put(r) : r \in table}
  BY DEF Switched
<1> HIDE DEF Put
<1> QED BY <1>1, <1>2 DEF RowsInv

LEMMA SwitchedLoadable ==
  ASSUME RowsInv, OnlyLoadableIsStored, NEW active \in BOOLEAN
  PROVE  \A s \in Switched(active) : s.content \in Loadable
<1> TAKE s \in Switched(active)
<1>1. s.content \in {r.content : r \in table}
  BY SwitchedRows
<1> QED BY <1>1 DEF OnlyLoadableIsStored

LEMMA InsertedRow ==
  ASSUME InstallerAssumption, NEW content \in Contents
  PROVE  NewRow(content) \in Row /\ NewRow(content).content = content
  BY DEF InstallerAssumption, NewRow, Row

LEMMA InstallerStep == InstallerInv /\ [InstallerNext]_installerVars => InstallerInv'
<1> SUFFICES ASSUME InstallerInv, [InstallerNext]_installerVars PROVE InstallerInv'
  OBVIOUS
<1> USE InstallerAssumption DEF InstallerAssumption
<1> USE DEF InstallerInv, RowsInv, OnlyLoadableIsStored, LoadedInv, TableInv, GoTo
<1>1. CASE UNCHANGED installerVars
  BY <1>1 DEF installerVars
<1>2. CASE Start
  BY <1>2 DEF Start
<1>3. CASE Load
  <2>1. CASE image \in Loadable
    BY <1>3, <2>1 DEF Load
  <2>2. CASE image \notin Loadable
    <3>1. table' = Switched(FALSE) /\ phase' = "serving" /\ image' = image
      BY <1>3, <2>2 DEF Load, AfterFailure
    <3>2. Switched(FALSE) \subseteq Row /\ \A s \in Switched(FALSE) : s.content \in Loadable
      BY SwitchedRows, SwitchedLoadable
    <3> QED BY <3>1, <3>2
  <2> QED BY <2>1, <2>2
<1>4. CASE Look
  BY <1>4 DEF Look, After
<1>5. CASE Insert
  BY <1>5, InsertedRow DEF Insert, AfterFailure, InsertNewFunction
<1>6. CASE Update
  <2>1. image \in Contents /\ image \in Loadable
    BY <1>6 DEF Update
  <2>2. Stored(image, TRUE) \subseteq Row /\ \A s \in Stored(image, TRUE) : s.content = image
    BY <2>1, StoredRows
  <2> QED BY <1>6, <2>1, <2>2 DEF Update
<1>7. CASE DatabaseRefuses
  BY <1>7 DEF DatabaseRefuses, After, AfterFailure
<1>8. CASE ContainerStops
  BY <1>8 DEF ContainerStops
<1>9. CASE AdminStep
  <2>1. ASSUME NEW content \in Contents, AdminEdits(content) PROVE InstallerInv'
    <3>1. CASE content \in Loadable
      <4> DEFINE Put(r) == [r EXCEPT !.content = content]
      <4>1. \A r \in Row : Put(r) \in Row /\ Put(r).content = content
        BY DEF Row
      <4>2. table' = {Put(r) : r \in table} /\ phase = "serving" /\ UNCHANGED <<image, phase, erred>>
        BY <2>1, <3>1 DEF AdminEdits, Administer
      <4> HIDE DEF Put
      <4> QED BY <3>1, <4>1, <4>2
    <3>2. CASE content \notin Loadable
      <4>1. table' = Switched(FALSE) /\ phase = "serving" /\ UNCHANGED <<image, phase, erred>>
        BY <2>1, <3>2 DEF AdminEdits, Administer
      <4>2. Switched(FALSE) \subseteq Row /\ \A s \in Switched(FALSE) : s.content \in Loadable
        BY SwitchedRows, SwitchedLoadable
      <4> QED BY <4>1, <4>2
    <3> QED BY <3>1, <3>2
  <2>2. ASSUME NEW content \in Contents, AdminCreates(content) PROVE InstallerInv'
    BY <2>2, InsertedRow DEF AdminCreates, Administer, InsertNewFunction
  <2>3. CASE AdminToggles
    <3> DEFINE Put(r) == [r EXCEPT !.active = ~r.active]
    <3>1. \A r \in Row : Put(r) \in Row /\ Put(r).content = r.content
      BY DEF Row
    <3>2. table' = {Put(r) : r \in table} /\ phase = "serving" /\ UNCHANGED <<image, phase, erred>>
      BY <2>3 DEF AdminToggles, Administer
    <3> HIDE DEF Put
    <3> QED BY <3>1, <3>2
  <2>4. CASE AdminDeletes
    BY <2>4 DEF AdminDeletes, Administer
  <2>5. ASSUME NEW valves \in Valves, AdminSetsValves(valves) PROVE InstallerInv'
    <3> DEFINE Put(r) == [r EXCEPT !.valves = valves]
    <3>1. \A r \in Row : Put(r) \in Row /\ Put(r).content = r.content
      BY DEF Row
    <3>2. table' = {Put(r) : r \in table} /\ phase = "serving" /\ UNCHANGED <<image, phase, erred>>
      BY <2>5 DEF AdminSetsValves, Administer
    <3> HIDE DEF Put
    <3> QED BY <3>1, <3>2
  <2> QED BY <1>9, <2>1, <2>2, <2>3, <2>4, <2>5 DEF AdminStep
<1> QED
  BY <1>1, <1>2, <1>3, <1>4, <1>5, <1>6, <1>7, <1>8, <1>9 DEF InstallerNext, SyncStep

LEMMA InstallerInvariant == Spec => []InstallerInv
<1>1. InstallerInv /\ [Next]_vars => InstallerInv'
  <2> SUFFICES ASSUME InstallerInv, [Next]_vars PROVE InstallerInv'
    OBVIOUS
  <2>1. CASE Next
    BY <2>1, ServerSteps, InstallerStep
  <2>2. CASE UNCHANGED vars
    BY <2>2, InstallerStep DEF vars
  <2> QED BY <2>1, <2>2
<1> QED BY <1>1, InstallerStarts, PTL DEF Spec

\* No function row ever holds a source that does not load: sync_pipe.main and the
\* editor run a source before they store it.
THEOREM OnlyLoadedSourcesAreStored == Spec => []OnlyLoadableIsStored
<1>1. InstallerInv => OnlyLoadableIsStored
  BY DEF InstallerInv
<1> QED BY <1>1, InstallerInvariant, PTL

\* A sync without a database error ends with the image's pipe installed and active, from
\* whatever state of the volume it began.
THEOREM ImageGoesLive == Spec => SyncMakesTheImageLive
<1> DEFINE Live ==
      phase # "serving" /\ phase' = "serving" /\ image \in Loadable /\ ~erred'
      => table' # {} /\ \A r \in table' : r.content = image /\ r.active
<1>1. InstallerInv /\ InstallerNext => Live
  <2> SUFFICES ASSUME InstallerInv, InstallerNext, phase # "serving", phase' = "serving",
                      image \in Loadable, ~erred'
               PROVE  table' # {} /\ \A r \in table' : r.content = image /\ r.active
    BY Zenon
  <2> USE DEF InstallerInv, RowsInv, TableInv, GoTo
  <2>1. CASE Look
    BY <2>1 DEF Look, After
  <2>2. CASE Update
    <3>1. image \in Contents
      BY InstallerAssumption DEF InstallerAssumption
    <3>2. table # {} /\ table' = Stored(image, TRUE)
      BY <2>2 DEF Update
    <3> QED BY <3>1, <3>2, StoredRows
  <2>3. CASE Insert
    BY <2>3 DEF Insert
  <2>4. CASE Start \/ Load \/ DatabaseRefuses \/ ContainerStops
    BY <2>4 DEF Start, Load, DatabaseRefuses, ContainerStops
  <2>5. CASE AdminStep
    BY <2>5 DEF AdminStep, AdminEdits, AdminCreates, AdminToggles, AdminDeletes, AdminSetsValves, Administer
  <2> QED BY <2>1, <2>2, <2>3, <2>4, <2>5 DEF InstallerNext, SyncStep
<1>2. InstallerInv /\ [Next]_vars => [Live]_installerVars
  BY <1>1, ServerSteps DEF vars
<1> QED BY <1>2, InstallerInvariant, PTL DEF Spec, SyncMakesTheImageLive

\* Until the server runs, an installed function keeps its settings.
THEOREM SettingsAreKept == Spec => ValvesSurvive
<1> DEFINE Kept == phase # "serving" /\ table # {}
                   => {r.valves : r \in table'} = {r.valves : r \in table}
<1>1. InstallerInv /\ InstallerNext => Kept
  <2> SUFFICES ASSUME InstallerInv, InstallerNext, phase # "serving", table # {}
               PROVE  {r.valves : r \in table'} = {r.valves : r \in table}
    OBVIOUS
  <2> USE DEF InstallerInv, RowsInv
  <2>1. CASE Load
    BY <2>1, SwitchedRows DEF Load
  <2>2. CASE Insert
    BY <2>2 DEF Insert, InsertNewFunction
  <2>3. CASE Update
    <3>1. image \in Contents
      BY InstallerAssumption DEF InstallerAssumption
    <3>2. table' = Stored(image, TRUE)
      BY <2>3 DEF Update
    <3> QED BY <3>1, <3>2, StoredRows
  <2>4. CASE Start \/ Look \/ DatabaseRefuses \/ ContainerStops
    BY <2>4 DEF Start, Look, DatabaseRefuses, ContainerStops
  <2>5. CASE AdminStep
    BY <2>5 DEF AdminStep, AdminEdits, AdminCreates, AdminToggles, AdminDeletes, AdminSetsValves, Administer
  <2> QED BY <2>1, <2>2, <2>3, <2>4, <2>5 DEF InstallerNext, SyncStep
<1>2. InstallerInv /\ [Next]_vars => [Kept]_installerVars
  BY <1>1, ServerSteps DEF vars
<1> QED BY <1>2, InstallerInvariant, PTL DEF Spec, ValvesSurvive

-----------------------------------------------------------------------------
(***************************************************************************)
(* The Tests folder.  FolderInv relates what every test run holds (its     *)
(* folder, the tree below it, the chats left to clear, the chats it saved) *)
(* to what the server holds, while other runs and the user change it.      *)
(***************************************************************************)

FolderTypes ==
  /\ parent \in [Folders -> Folders \cup Statuses]
  /\ where \in [Chats -> Folders \cup {NoFolder, "deleted", "unused"}]
  /\ pc \in [Runs -> Steps]
  /\ target \in [Runs -> Folders \cup {NoFolder}]
  /\ area \in [Runs -> SUBSET Folders]
  /\ kids \in [Runs -> SUBSET Folders]
  /\ todo \in [Runs -> SUBSET Chats]
  /\ saved \in [Runs -> SUBSET Chats]
  /\ present \in [Runs -> SUBSET Chats]

\* A folder's parent is there; no chat is pinned but by the user.
TreeInv ==
  /\ \A f \in Folders : parent[f] \in Folders => Exists(parent[f])
  /\ pinned \subseteq touched

\* What a run holds at each of its steps.
PhaseOK(r) ==
  /\ target[r] \in Folders <=> pc[r] \in {"walking", "listing", "clearing", "removing", "testing"}
  /\ area[r] # {} => pc[r] \in {"listing", "clearing", "removing", "testing"}
  /\ todo[r] # {} => pc[r] = "clearing"
  /\ kids[r] # {} => pc[r] = "removing"
  /\ saved[r] # {} => pc[r] \in {"testing", "over"}

\* A run's folder is a Tests folder until the user deletes it.
TargetInv ==
  \A r \in Runs : target[r] \in Folders =>
    /\ parent[target[r]] \in {"top", "removed"}
    /\ target[r] \notin touched => parent[target[r]] = "top"

Below(r) == area[r] \ {target[r]}

Clearing(r) == pc[r] \in {"clearing", "removing"}

\* The folders a run clears: none of those below its own is, or becomes, the folder of a
\* run; what is still there of them is still below, and all that is below is among them.
AreaOK(r) ==
  /\ \A f \in Below(r) : parent[f] \in Folders \cup {"removed"} /\ \A q \in Runs : target[q] # f
  /\ pc[r] \in {"listing", "clearing", "removing"} =>
       /\ Exists(target[r]) => target[r] \in area[r]
       /\ \A f \in area[r] : Children(f) \subseteq area[r] /\ (Exists(f) => f \in Subtree(target[r]))
  /\ kids[r] \subseteq Below(r)
  /\ pc[r] = "removing" => Children(target[r]) \subseteq kids[r] \cup touched

\* The chats in them that only runs have handled: those that were there when it listed
\* them, and all those below its own folder, are still to be handled by it.
ChatsOK(r) ==
  /\ todo[r] \cup present[r] \cup saved[r] \subseteq {c \in Chats : where[c] # "unused"}
  /\ \A c \in Chats \ touched : where[c] \in Below(r) => Exists(where[c]) /\ (Clearing(r) => c \in todo[r])
  /\ \A c \in present[r] \ (touched \cup {r}) : where[c] \in area[r] /\ Clearing(r) => c \in todo[r]
  /\ r \in todo[r] \ touched => where[r] \in area[r] \cup {"deleted"}

RunOK(r) == PhaseOK(r) /\ AreaOK(r) /\ ChatsOK(r)

\* No run is about to delete what the last lister saved.
LastInv ==
  /\ lister \in Runs => \A r \in Runs : todo[r] \cap saved[lister] = {}
  /\ LastListingKeepsItsResults

FolderInv ==
  /\ FolderTypes /\ TreeInv /\ TargetInv
  /\ \A r \in Runs : RunOK(r)
  /\ NoChatIsOrphaned /\ KeepsItsOwnChat /\ LastInv

-----------------------------------------------------------------------------
(* Folder trees, as functions p from folders to their parents *)

ChildrenOf(p, f) == {g \in Folders : p[g] = f}
ClosedIn(p, S) == \A g \in S : ChildrenOf(p, g) \subseteq S
SubtreeOf(p, f) ==
  IF p[f] \notin {"unused", "removed"}
  THEN {g \in Folders : \A S \in SUBSET Folders : f \in S /\ ClosedIn(p, S) => g \in S}
  ELSE {}

LEMMA TreesNow ==
  /\ \A f : Children(f) = ChildrenOf(parent, f)
  /\ \A f : Subtree(f) = SubtreeOf(parent, f)
BY DEF Children, ChildrenOf, Subtree, SubtreeOf, ClosedIn, Exists

LEMMA TreesNext ==
  /\ \A f : Children(f)' = ChildrenOf(parent', f)
  /\ \A f : Subtree(f)' = SubtreeOf(parent', f)
BY DEF Children, ChildrenOf, Subtree, SubtreeOf, ClosedIn, Exists

LEMMA SubtreeClosed ==
  ASSUME NEW p, NEW f \in Folders
  PROVE  /\ SubtreeOf(p, f) \subseteq Folders
         /\ ClosedIn(p, SubtreeOf(p, f))
         /\ p[f] \notin {"unused", "removed"} => f \in SubtreeOf(p, f)
         /\ p[f] \in {"unused", "removed"} => SubtreeOf(p, f) = {}
<1>1. CASE p[f] \in {"unused", "removed"}
  BY <1>1 DEF SubtreeOf, ClosedIn
<1>2. CASE p[f] \notin {"unused", "removed"}
  <2>1. SubtreeOf(p, f) = {g \in Folders : \A S \in SUBSET Folders : f \in S /\ ClosedIn(p, S) => g \in S}
    BY <1>2 DEF SubtreeOf
  <2>2. ASSUME NEW g \in SubtreeOf(p, f), NEW h \in ChildrenOf(p, g)
        PROVE  h \in SubtreeOf(p, f)
    <3>1. h \in Folders
      BY DEF ChildrenOf
    <3>2. ASSUME NEW S \in SUBSET Folders, f \in S, ClosedIn(p, S)
          PROVE  h \in S
      BY <2>1, <3>2 DEF ClosedIn
    <3> QED BY <2>1, <3>1, <3>2
  <2> QED BY <1>2, <2>1, <2>2 DEF ClosedIn
<1> QED BY <1>1, <1>2

LEMMA SubtreeLeast ==
  ASSUME NEW p, NEW f \in Folders, NEW S \in SUBSET Folders, ClosedIn(p, S),
         p[f] \notin {"unused", "removed"} => f \in S
  PROVE  SubtreeOf(p, f) \subseteq S
BY DEF SubtreeOf

\* Whatever is below a folder has a folder as its parent.
LEMMA SubtreeBelow ==
  ASSUME NEW p, NEW f \in Folders
  PROVE  \A g \in SubtreeOf(p, f) : g = f \/ p[g] \in Folders
<1> DEFINE S == {g \in Folders : g = f \/ p[g] \in Folders}
<1>1. ClosedIn(p, S)
  BY DEF ClosedIn, ChildrenOf
<1>2. SubtreeOf(p, f) \subseteq S
  BY <1>1, SubtreeLeast
<1> QED BY <1>2

\* A tree is taken away: the children of the other folders stay theirs, and what was
\* below a folder and is not taken away still is.
LEMMA TreeTaken ==
  ASSUME NEW p, NEW g \in Folders, NEW p2, p2 = [f \in Folders |-> IF f \in SubtreeOf(p, g) THEN "removed" ELSE p[f]],
         \A f \in Folders : p[f] \in Folders => p[p[f]] \notin {"unused", "removed"}
  PROVE  /\ \A f \in Folders : ChildrenOf(p2, f) \subseteq ChildrenOf(p, f)
         /\ \A f \in Folders : p2[f] \in Folders => p2[p2[f]] \notin {"unused", "removed"}
         /\ \A t \in Folders : SubtreeOf(p, t) \subseteq SubtreeOf(p2, t) \cup SubtreeOf(p, g)
<1> DEFINE gone == SubtreeOf(p, g)
<1>0. "removed" \notin Folders /\ "unused" \notin Folders
  BY FolderAssumption DEF Statuses
<1>1. /\ \A f \in Folders : f \in gone => p2[f] = "removed"
      /\ \A f \in Folders : f \notin gone => p2[f] = p[f]
      /\ gone \subseteq Folders /\ ClosedIn(p, gone)
  BY SubtreeClosed
<1> HIDE DEF gone
<1>2. \A f \in Folders : ChildrenOf(p2, f) \subseteq ChildrenOf(p, f)
  BY <1>0, <1>1 DEF ChildrenOf
<1>3. \A f \in Folders : p2[f] \in Folders => p2[p2[f]] \notin {"unused", "removed"}
  <2> SUFFICES ASSUME NEW f \in Folders, p2[f] \in Folders
               PROVE  p2[p2[f]] \notin {"unused", "removed"}
    OBVIOUS
  <2>1. f \notin gone /\ p2[f] = p[f]
    BY <1>0, <1>1
  <2>2. p[f] \notin gone
    BY <1>1, <2>1 DEF ClosedIn, ChildrenOf
  <2> QED BY <1>1, <2>1, <2>2
<1>4. ASSUME NEW t \in Folders, NEW f \in SubtreeOf(p, t), f \notin gone
      PROVE  f \in SubtreeOf(p2, t)
  <2>1. p[t] \notin {"unused", "removed"}
    BY SubtreeClosed
  <2>2. t \notin gone
    <3>1. t \in gone => SubtreeOf(p, t) \subseteq gone
      BY <1>1, SubtreeLeast
    <3> QED BY <1>4, <3>1
  <2>3. p2[t] \notin {"unused", "removed"}
    BY <1>1, <2>1, <2>2
  <2>4. ASSUME NEW S \in SUBSET Folders, t \in S, ClosedIn(p2, S)
        PROVE  f \in S
    <3>1. ClosedIn(p, S \cup gone)
      BY <1>1, <2>4 DEF ClosedIn, ChildrenOf
    <3>2. S \cup gone \in SUBSET Folders
      BY <1>1
    <3>3. SubtreeOf(p, t) \subseteq S \cup gone
      BY <2>4, <3>1, <3>2, SubtreeLeast
    <3> QED BY <1>4, <3>3
  <2>5. f \in Folders
    BY SubtreeClosed
  <2> QED BY <2>3, <2>4, <2>5 DEF SubtreeOf
<1> QED BY <1>2, <1>3, <1>4 DEF gone

\* A folder is made: it has no children and is nobody's child.
LEMMA TreeMade ==
  ASSUME NEW p, NEW p2, NEW new \in Folders, p[new] = "unused",
         \A f \in Folders : p2[f] = IF f = new THEN "top" ELSE p[f],
         \A f \in Folders : p[f] \in Folders => p[p[f]] \notin {"unused", "removed"}
  PROVE  /\ \A f \in Folders : ChildrenOf(p2, f) = ChildrenOf(p, f)
         /\ \A f \in Folders : p2[f] \in Folders => p2[p2[f]] \notin {"unused", "removed"}
         /\ \A t \in Folders : SubtreeOf(p, t) \subseteq SubtreeOf(p2, t)
<1>0. "top" \notin Folders /\ "unused" \notin Folders
  BY FolderAssumption DEF Statuses
<1>1. \A f \in Folders : ChildrenOf(p2, f) = ChildrenOf(p, f)
  BY <1>0 DEF ChildrenOf
<1>2. \A f \in Folders : p2[f] \in Folders => p2[p2[f]] \notin {"unused", "removed"}
  BY <1>0
<1>3. \A S \in SUBSET Folders : ClosedIn(p2, S) => ClosedIn(p, S)
  BY <1>1 DEF ClosedIn
<1>4. \A t \in Folders : p[t] \notin {"unused", "removed"} => p2[t] \notin {"unused", "removed"}
  OBVIOUS
<1>5. \A t \in Folders : SubtreeOf(p, t) \subseteq SubtreeOf(p2, t)
  BY <1>3, <1>4 DEF SubtreeOf
<1> QED BY <1>1, <1>2, <1>5

-----------------------------------------------------------------------------
(* What the steps have in common *)

TreeMoves ==
  /\ parent' \in [Folders -> Folders \cup Statuses]
  /\ \A f \in Folders : parent'[f] \in Folders => parent'[parent'[f]] \notin {"unused", "removed"}
  /\ \A f \in Folders : Children(f)' \subseteq Children(f)
  /\ \A f \in Folders : parent'[f] \in {parent[f], "removed"} \/ (parent[f] = "unused" /\ parent'[f] = "top")
  /\ \A t \in Folders : \A f \in Subtree(t) : parent'[f] # "removed" => f \in Subtree(t)'
  /\ touched \subseteq touched' /\ pinned' \subseteq touched'
  /\ \A q \in Runs : target[q] \in Folders \ touched' => parent'[target[q]] = parent[target[q]]
  /\ \A c \in Chats \ touched' : where[c] \in Existing => parent'[where[c]] = parent[where[c]]

\* Where a chat goes that the user leaves alone.
ChatMoves ==
  /\ where' \in [Chats -> Folders \cup {NoFolder, "deleted", "unused"}]
  /\ \A c \in Chats : where[c] # "unused" => where'[c] # "unused"
  /\ \A c \in Chats \ touched' :
       \/ where'[c] = where[c]
       \/ where'[c] = "deleted" /\ \E q \in Runs : c \in todo[q] \ {q}
       \/ \E r \in Runs : /\ where'[c] = target[r] /\ target[r] \in Folders /\ target'[r] = target[r]
                          /\ where[c] = "unused" \/ (c = r /\ r \in todo[r] \ todo'[r] /\ Present(r))

RunMoves ==
  \A q \in Runs :
    /\ pc'[q] = "idle" => pc[q] = "idle"
    /\ \/ target'[q] \in {target[q], NoFolder}
       \/ target'[q] \in Folders /\ parent[target'[q]] \in {"top", "unused"} /\ parent'[target'[q]] = "top"

FolderMove == TreeMoves /\ ChatMoves /\ RunMoves

\* A run that goes on clearing the same folders.
SameArea(q) ==
  /\ target'[q] = target[q] /\ area'[q] = area[q] /\ todo'[q] = todo[q]
  /\ saved'[q] = saved[q] /\ present'[q] = present[q]
  /\ pc'[q] \in {"listing", "clearing", "removing"} => pc[q] \in {"listing", "clearing", "removing"}
  /\ Clearing(q)' => Clearing(q)

SameRun(q) ==
  /\ pc'[q] = pc[q] /\ target'[q] = target[q] /\ area'[q] = area[q] /\ todo'[q] = todo[q]
  /\ kids'[q] = kids[q] /\ saved'[q] = saved[q] /\ present'[q] = present[q]

LEMMA Apart ==
  /\ Folders \cap {"unused", "top", "removed", "deleted"} = {}
  /\ NoFolder \notin {"unused", "top", "removed", "deleted"} /\ NoFolder \notin Folders
BY FolderAssumption DEF Statuses

LEMMA TargetKept ==
  ASSUME FolderInv, FolderMove
  PROVE  TargetInv' /\ TreeInv'
<1> USE DEF FolderInv
<1>1. TreeInv'
  BY DEF FolderMove, TreeMoves, TreeInv, Exists
<1>2. ASSUME NEW r \in Runs, target'[r] \in Folders
      PROVE  /\ parent'[target'[r]] \in {"top", "removed"}
             /\ target'[r] \notin touched' => parent'[target'[r]] = "top"
  <2>1. CASE target'[r] = target[r]
    <3>1. parent[target[r]] \in {"top", "removed"} /\ (target[r] \notin touched => parent[target[r]] = "top")
      BY <1>2, <2>1 DEF TargetInv
    <3> QED BY <1>2, <2>1, <3>1 DEF FolderMove, TreeMoves
  <2>2. CASE target'[r] # target[r]
    BY <1>2, <2>2, Apart DEF FolderMove, RunMoves
  <2> QED BY <2>1, <2>2
<1> QED BY <1>1, <1>2 DEF TargetInv

\* A chat that stays, stays in a folder that is there; one that is put somewhere is put
\* into a run's folder.
LEMMA OrphanKept ==
  ASSUME FolderInv, FolderMove
  PROVE  NoChatIsOrphaned'
<1> USE DEF FolderInv
<1> SUFFICES ASSUME NEW c \in Chats, c \notin touched', where'[c] \in Folders, where'[c] \notin touched'
             PROVE  parent'[where'[c]] \notin {"unused", "removed"}
  BY DEF NoChatIsOrphaned, Exists
<1>0. c \notin pinned \cup touched /\ touched \subseteq touched'
  BY DEF FolderMove, TreeMoves, TreeInv
<1>1. CASE where'[c] = where[c]
  <2>1. where[c] \in Existing
    BY <1>0, <1>1 DEF NoChatIsOrphaned, Existing
  <2> QED BY <1>1, <2>1 DEF FolderMove, TreeMoves, Existing, Exists
<1>2. ASSUME NEW r \in Runs, where'[c] = target[r], target'[r] = target[r]
      PROVE  parent'[where'[c]] \notin {"unused", "removed"}
  BY <1>2, TargetKept DEF TargetInv
<1> QED BY <1>1, <1>2, Apart DEF FolderMove, ChatMoves

LEMMA OwnChatKept ==
  ASSUME FolderInv, FolderMove
  PROVE  KeepsItsOwnChat'
<1> USE DEF FolderInv
<1> SUFFICES ASSUME NEW r \in Runs, r \notin touched', \A q \in Runs \ {r} : pc'[q] = "idle"
             PROVE  where'[r] \notin {"unused", "deleted"}
  BY DEF KeepsItsOwnChat, Present
<1>1. /\ \A q \in Runs \ {r} : pc[q] = "idle"
      /\ r \notin touched /\ r \in Chats
  BY FolderAssumption DEF FolderMove, RunMoves, TreeMoves
<1>2. where[r] \notin {"unused", "deleted"}
  BY <1>1 DEF KeepsItsOwnChat, Present
<1>3. \A q \in Runs \ {r} : todo[q] = {}
  BY <1>1 DEF RunOK, PhaseOK
<1> QED BY <1>1, <1>2, <1>3, Apart DEF FolderMove, ChatMoves

\* What a run holds that does not move stays right.
LEMMA AreaKept ==
  ASSUME FolderInv, FolderMove, NEW q \in Runs, SameArea(q), kids'[q] \subseteq Below(q),
         pc'[q] = "removing" => Children(target[q])' \subseteq kids'[q] \cup touched'
  PROVE  AreaOK(q)'
<1> USE DEF FolderInv
<1>0. /\ AreaOK(q) /\ PhaseOK(q) /\ area[q] \subseteq Folders
      /\ (Below(q))' = Below(q) /\ Below(q) \subseteq Folders
  BY DEF RunOK, FolderTypes, SameArea, Below
<1>1. \A f \in Below(q) : parent'[f] \in Folders \cup {"removed"} /\ \A r \in Runs : target'[r] # f
  <2> SUFFICES ASSUME NEW f \in Below(q)
               PROVE  parent'[f] \in Folders \cup {"removed"} /\ \A r \in Runs : target'[r] # f
    OBVIOUS
  <2>1. parent[f] \in Folders \cup {"removed"} /\ \A r \in Runs : target[r] # f
    BY <1>0 DEF AreaOK
  <2> QED BY <1>0, <2>1, Apart DEF FolderMove, TreeMoves, RunMoves
<1>2. ASSUME pc'[q] \in {"listing", "clearing", "removing"}
      PROVE  /\ Exists(target[q])' => target[q] \in area[q]
             /\ \A f \in area[q] : Children(f)' \subseteq area[q] /\ (Exists(f)' => f \in Subtree(target[q])')
  <2>0. pc[q] \in {"listing", "clearing", "removing"}
    BY <1>2 DEF SameArea
  <2>1. target[q] \in Folders /\ target'[q] = target[q]
    BY <1>0, <2>0 DEF PhaseOK, SameArea
  <2>2. parent[target[q]] \in {"top", "removed"}
    BY <2>1 DEF TargetInv
  <2>3. Exists(target[q])' => Exists(target[q])
    BY <2>1, <2>2 DEF FolderMove, TreeMoves, Exists
  <2>4. \A f \in area[q] : Children(f)' \subseteq area[q]
    BY <1>0, <2>0 DEF AreaOK, FolderMove, TreeMoves
  <2>5. ASSUME NEW f \in area[q], Exists(f)'
        PROVE  f \in Subtree(target[q])'
    <3>1. parent[f] \in Folders \cup {"removed", "top"}
      BY <1>0, <2>2 DEF AreaOK, Below
    <3>2. Exists(f)
      BY <1>0, <2>5, <3>1, Apart DEF FolderMove, TreeMoves, Exists
    <3>3. f \in Subtree(target[q])
      BY <1>0, <2>0, <3>2 DEF AreaOK
    <3>4. \A t \in Folders : f \in Subtree(t) => f \in SubtreeOf(parent', t)
      BY <2>5, TreesNext DEF FolderMove, TreeMoves, Exists
    <3> QED BY <2>1, <3>3, <3>4, TreesNext
  <2> QED BY <1>0, <2>0, <2>1, <2>3, <2>4, <2>5 DEF AreaOK
<1> QED BY <1>0, <1>1, <1>2 DEF AreaOK, SameArea

\* What is below a run's folder now was below it when it walked the tree.
LEMMA AreaCovers ==
  ASSUME FolderInv, NEW r \in Runs, pc[r] \in {"listing", "clearing", "removing"}
  PROVE  Subtree(target[r]) \subseteq area[r]
<1>1. AreaOK(r) /\ target[r] \in Folders /\ area[r] \in SUBSET Folders
  BY DEF FolderInv, RunOK, PhaseOK, FolderTypes
<1>2. ClosedIn(parent, area[r])
  BY <1>1, TreesNow DEF AreaOK, ClosedIn
<1>3. parent[target[r]] \notin {"unused", "removed"} => target[r] \in area[r]
  BY <1>1 DEF AreaOK, Exists
<1> QED BY <1>1, <1>2, <1>3, SubtreeLeast, TreesNow

LEMMA ChatsKept ==
  ASSUME FolderInv, FolderMove, NEW q \in Runs, SameArea(q)
  PROVE  ChatsOK(q)'
<1> USE DEF FolderInv
<1>0. /\ AreaOK(q) /\ PhaseOK(q) /\ ChatsOK(q) /\ area[q] \subseteq Folders
      /\ (Below(q))' = Below(q) /\ ((Clearing(q))' => Clearing(q))
      /\ touched \subseteq touched'
      /\ todo[q] \cup present[q] \cup saved[q] \subseteq Chats
      /\ Below(q) \subseteq Folders /\ Below(q) \subseteq area[q] /\ q \in Chats
  BY FolderAssumption DEF RunOK, FolderTypes, SameArea, Below, Clearing, FolderMove, TreeMoves
<1>1. todo[q] \cup present[q] \cup saved[q] \subseteq {c \in Chats : where'[c] # "unused"}
  BY <1>0 DEF ChatsOK, FolderMove, ChatMoves
<1>2. ASSUME NEW c \in Chats \ touched', where'[c] \in Below(q)
      PROVE  Exists(where[c])' /\ (Clearing(q) => c \in todo[q])
  <2>1. where'[c] = where[c]
    BY <1>0, <1>2, Apart DEF FolderMove, ChatMoves, AreaOK
  <2>2. Exists(where[c]) /\ (Clearing(q) => c \in todo[q])
    BY <1>0, <1>2, <2>1 DEF ChatsOK
  <2>3. where[c] \in Existing
    BY <1>0, <1>2, <2>1, <2>2 DEF Existing
  <2>4. parent'[where[c]] = parent[where[c]]
    BY <1>2, <2>3 DEF FolderMove, TreeMoves
  <2> QED BY <2>1, <2>2, <2>4 DEF Exists
<1>3. ASSUME NEW c \in present[q] \ (touched' \cup {q}), where'[c] \in area[q], Clearing(q)
      PROVE  c \in todo[q]
  <2>0. c \in Chats \ touched' /\ where[c] # "unused"
    BY <1>0, <1>3 DEF ChatsOK
  <2>1. CASE where'[c] = where[c]
    BY <1>0, <1>3, <2>1 DEF ChatsOK
  <2>2. ASSUME NEW r \in Runs, where'[c] = target[r], target[r] \in Folders, c = r, r \in todo[r], Present(r),
               where'[c] # where[c]
        PROVE  c \in todo[q]
    <3>1. target[r] = target[q]
      BY <1>0, <1>3, <2>2 DEF AreaOK, Below
    <3>2. ChatsOK(r) /\ AreaOK(r) /\ pc[r] = "clearing"
      BY <2>2 DEF RunOK, PhaseOK
    <3>3. where[r] \in area[r] /\ where[r] \in Below(r)
      BY <1>0, <2>0, <2>2, <3>2 DEF ChatsOK, Present, Below
    <3>4. Exists(where[r])
      BY <1>0, <2>0, <2>2, <3>2, <3>3 DEF ChatsOK
    <3>5. where[r] \in Subtree(target[r])
      BY <3>2, <3>3, <3>4 DEF AreaOK
    <3>6. where[r] \in area[q]
      BY <1>3, <3>1, <3>5, AreaCovers DEF Clearing
    <3> QED BY <1>0, <1>3, <2>2, <3>6 DEF ChatsOK
  <2> QED BY <1>0, <1>3, <2>0, <2>1, <2>2, Apart DEF FolderMove, ChatMoves
<1>4. ASSUME q \in todo[q] \ touched'
      PROVE  where'[q] \in area[q] \cup {"deleted"}
  <2>1. where[q] \in area[q] \cup {"deleted"} /\ where[q] # "unused" /\ todo'[q] = todo[q]
    BY <1>0, <1>4 DEF ChatsOK, SameArea
  <2> QED BY <1>0, <1>4, <2>1 DEF FolderMove, ChatMoves
<1> QED BY <1>0, <1>1, <1>2, <1>3, <1>4 DEF ChatsOK, SameArea

LEMMA RunKept ==
  ASSUME FolderInv, FolderMove, NEW q \in Runs, SameRun(q)
  PROVE  RunOK(q)'
<1>0. AreaOK(q) /\ PhaseOK(q) /\ SameArea(q) /\ kids'[q] = kids[q] /\ pc'[q] = pc[q] /\ target'[q] = target[q]
  BY DEF FolderInv, RunOK, SameRun, SameArea, Clearing
<1>1. PhaseOK(q)'
  BY <1>0 DEF PhaseOK, SameRun
<1>2. kids'[q] \subseteq Below(q)
  BY <1>0 DEF AreaOK
<1>3. pc'[q] = "removing" => Children(target[q])' \subseteq kids'[q] \cup touched'
  BY <1>0 DEF AreaOK, PhaseOK, FolderMove, TreeMoves
<1> QED BY <1>0, <1>1, <1>2, <1>3, AreaKept, ChatsKept DEF RunOK

\* Unless a run lists, nobody gets more to delete, and what is saved is new.
LEMMA LastKept ==
  ASSUME FolderInv, FolderMove, lister' = lister,
         \A q \in Runs : todo'[q] \subseteq todo[q],
         \A q \in Runs : \A c \in saved'[q] : c \in saved[q] \/ (where[c] = "unused" /\ Present(c)')
  PROVE  LastInv'
<1> USE DEF FolderInv
<1>1. ASSUME lister \in Runs, NEW r \in Runs
      PROVE  todo'[r] \cap saved'[lister] = {}
  <2>1. \A c \in todo[r] : where[c] # "unused" /\ c \notin saved[lister]
    BY <1>1 DEF RunOK, ChatsOK, LastInv
  <2> QED BY <1>1, <2>1
<1>2. ASSUME lister \in Runs, NEW c \in saved'[lister] \ touched'
      PROVE  where'[c] \notin {"unused", "deleted"}
  <2>1. CASE c \in saved[lister]
    <3>1. c \in Chats /\ c \notin touched /\ where[c] \notin {"unused", "deleted"}
      BY <1>2, <2>1 DEF LastInv, LastListingKeepsItsResults, FolderTypes, Present, FolderMove, TreeMoves
    <3>2. \A q \in Runs : c \notin todo[q]
      BY <1>2, <2>1 DEF LastInv
    <3> QED BY <1>2, <3>1, <3>2, Apart DEF FolderMove, ChatMoves
  <2>2. CASE c \notin saved[lister]
    BY <1>2, <2>2 DEF Present
  <2> QED BY <2>1, <2>2
<1> QED BY <1>1, <1>2 DEF LastInv, LastListingKeepsItsResults, Present

\* The parts together.
LEMMA FolderKept ==
  ASSUME FolderInv, FolderMove, FolderTypes', LastInv',
         \A q \in Runs : SameRun(q) \/ RunOK(q)'
  PROVE  FolderInv'
BY TargetKept, OrphanKept, OwnChatKept, RunKept DEF FolderInv

\* Steps that leave the folders alone.
LEMMA TreesRest ==
  ASSUME FolderInv, parent' = parent, touched \subseteq touched', pinned' \subseteq touched'
  PROVE  /\ TreeMoves
         /\ \A f : Children(f)' = Children(f) /\ Subtree(f)' = Subtree(f) /\ (Exists(f)' <=> Exists(f))
<1> USE DEF FolderInv
<1>1. \A f : Children(f)' = Children(f) /\ Subtree(f)' = Subtree(f) /\ (Exists(f)' <=> Exists(f))
  BY TreesNow, TreesNext DEF Exists
<1>2. TreeMoves
  BY <1>1 DEF TreeMoves, FolderTypes, TreeInv, Exists
<1> QED BY <1>1, <1>2

\* Steps that leave the tables alone.
LEMMA TablesRest ==
  ASSUME FolderInv, UNCHANGED tableVars, touched \subseteq touched', RunMoves
  PROVE  FolderMove
<1> USE DEF FolderInv
<1>1. parent' = parent /\ where' = where /\ pinned' = pinned
  BY DEF tableVars
<1>3. TreeMoves
  BY <1>1, TreesRest DEF TreeInv
<1>4. ChatMoves
  BY <1>1 DEF ChatMoves, FolderTypes
<1> QED BY <1>3, <1>4 DEF FolderMove

\* A tree is removed in which no run's folder and no chat is that the user leaves alone.
LEMMA TreeRemoved ==
  ASSUME FolderInv, NEW g \in Folders, parent' = WithoutTree(g),
         touched \subseteq touched', pinned' \subseteq touched',
         \A q \in Runs : target[q] \in Subtree(g) => target[q] \in touched',
         \A c \in Chats \ touched' : where[c] \notin Subtree(g)
  PROVE  /\ TreeMoves
         /\ \A f \in Folders : parent'[f] = IF f \in Subtree(g) THEN "removed" ELSE parent[f]
<1> USE DEF FolderInv
<1>1. parent' = [f \in Folders |-> IF f \in SubtreeOf(parent, g) THEN "removed" ELSE parent[f]]
  BY TreesNow DEF WithoutTree
<1>2. \A f \in Folders : parent[f] \in Folders => parent[parent[f]] \notin {"unused", "removed"}
  BY DEF TreeInv, Exists
<1>3. /\ \A f \in Folders : ChildrenOf(parent', f) \subseteq ChildrenOf(parent, f)
      /\ \A f \in Folders : parent'[f] \in Folders => parent'[parent'[f]] \notin {"unused", "removed"}
      /\ \A t \in Folders : SubtreeOf(parent, t) \subseteq SubtreeOf(parent', t) \cup SubtreeOf(parent, g)
  BY <1>1, <1>2, TreeTaken
<1>4. \A f \in Folders : parent'[f] = IF f \in Subtree(g) THEN "removed" ELSE parent[f]
  BY <1>1, TreesNow
<1>5. \A t \in Folders : \A f \in Subtree(t) : parent'[f] # "removed" => f \in Subtree(t)'
  <2>1. \A t \in Folders : SubtreeOf(parent, t) \subseteq Folders
    BY SubtreeClosed
  <2> QED BY <1>3, <1>4, <2>1, TreesNow, TreesNext
<1>6. \A f \in Folders : Children(f)' \subseteq Children(f)
  BY <1>3, TreesNow, TreesNext
<1>7. parent' \in [Folders -> Folders \cup Statuses]
  BY <1>1 DEF FolderTypes, Statuses
<1> QED BY <1>3, <1>4, <1>5, <1>6, <1>7 DEF TreeMoves, Existing

-----------------------------------------------------------------------------
(* The steps of a run *)

LEMMA BeginStep ==
  ASSUME FolderInv, NEW r \in Runs, Begin(r)
  PROVE  FolderInv'
<1> USE DEF FolderInv
<1>0. /\ pc[r] \in {"idle", "over"} /\ pc' = [pc EXCEPT ![r] = "finding"] /\ saved' = [saved EXCEPT ![r] = {}]
      /\ UNCHANGED <<parent, where, pinned, target, area, todo, kids, present, lister, touched>>
  BY DEF Begin, Goes, tableVars, ghostVars
<1>1. FolderTypes'
  BY <1>0 DEF FolderTypes, Steps
<1>2. RunMoves
  BY <1>0 DEF RunMoves, FolderTypes
<1>3. FolderMove
  BY <1>0, <1>2, TablesRest DEF tableVars
<1>4. \A q \in Runs : q # r => SameRun(q)
  BY <1>0 DEF SameRun, FolderTypes
<1>5. RunOK(r)'
  <2>1. area[r] = {} /\ todo[r] = {} /\ kids[r] = {} /\ target[r] \notin Folders /\ saved'[r] = {} /\ pc'[r] = "finding"
    BY <1>0 DEF RunOK, PhaseOK, FolderTypes
  <2>2. PhaseOK(r)'
    BY <1>0, <2>1 DEF PhaseOK
  <2>3. AreaOK(r)'
    BY <1>0, <2>1 DEF AreaOK, Below
  <2>4. ChatsOK(r)'
    BY <1>0, <2>1 DEF RunOK, ChatsOK, Below
  <2> QED BY <2>2, <2>3, <2>4 DEF RunOK
<1>6. LastInv'
  BY <1>0, <1>3, LastKept DEF FolderTypes
<1> QED BY <1>1, <1>3, <1>4, <1>5, <1>6, FolderKept

\* Find, or the answer None of a failing database.
LEMMA FindStep ==
  ASSUME FolderInv, NEW r \in Runs, Find(r) \/ FindFails(r)
  PROVE  FolderInv'
<1> USE DEF FolderInv
<1>0. /\ pc[r] = "finding"
      /\ \/ pc' = [pc EXCEPT ![r] = "creating"] /\ target' = target
         \/ \E f \in Folders : /\ parent[f] = "top" /\ target' = [target EXCEPT ![r] = f]
                               /\ pc' = [pc EXCEPT ![r] = "walking"]
      /\ UNCHANGED <<parent, where, pinned, area, todo, kids, saved, present, lister, touched>>
  BY DEF Find, FindFails, At, Goes, tableVars, ghostVars
<1>1. FolderTypes'
  BY <1>0 DEF FolderTypes, Steps
<1>2. RunMoves
  BY <1>0 DEF RunMoves, FolderTypes
<1>3. FolderMove
  BY <1>0, <1>2, TablesRest DEF tableVars
<1>4. \A q \in Runs : q # r => SameRun(q)
  BY <1>0 DEF SameRun, FolderTypes
<1>5. RunOK(r)'
  <2>1. /\ area[r] = {} /\ todo[r] = {} /\ kids[r] = {} /\ saved[r] = {} /\ target[r] \notin Folders
        /\ \/ pc'[r] = "creating" /\ target'[r] = target[r]
           \/ pc'[r] = "walking" /\ target'[r] \in Folders
    BY <1>0 DEF RunOK, PhaseOK, FolderTypes
  <2>2. PhaseOK(r)'
    BY <1>0, <2>1 DEF PhaseOK
  <2>3. AreaOK(r)'
    BY <1>0, <2>1 DEF AreaOK, Below
  <2>4. ChatsOK(r)'
    BY <1>0, <2>1 DEF RunOK, ChatsOK, Below
  <2> QED BY <2>2, <2>3, <2>4 DEF RunOK
<1>6. LastInv'
  BY <1>0, <1>3, LastKept
<1> QED BY <1>1, <1>3, <1>4, <1>5, <1>6, FolderKept

LEMMA CreateStep ==
  ASSUME FolderInv, NEW r \in Runs, Create(r)
  PROVE  FolderInv'
<1> USE DEF FolderInv
<1> DEFINE new == CHOOSE f \in Folders : parent[f] = "unused"
<1>0. /\ pc[r] = "creating" /\ pc' = [pc EXCEPT ![r] = "walking"]
      /\ new \in Folders /\ parent[new] = "unused"
      /\ parent' = [parent EXCEPT ![new] = "top"] /\ target' = [target EXCEPT ![r] = new]
      /\ UNCHANGED <<where, pinned, area, todo, kids, saved, present, lister, touched>>
  BY DEF Create, At, Goes, ghostVars
<1> HIDE DEF new
<1>1. FolderTypes'
  BY <1>0 DEF FolderTypes, Steps, Statuses
<1>2. FolderMove
  <2>1. \A f \in Folders : parent[f] \in Folders => parent[parent[f]] \notin {"unused", "removed"}
    BY DEF TreeInv, Exists
  <2>2. /\ \A f \in Folders : ChildrenOf(parent', f) = ChildrenOf(parent, f)
        /\ \A f \in Folders : parent'[f] \in Folders => parent'[parent'[f]] \notin {"unused", "removed"}
        /\ \A t \in Folders : SubtreeOf(parent, t) \subseteq SubtreeOf(parent', t)
    <3>1. /\ new \in Folders /\ parent[new] = "unused"
          /\ \A f \in Folders : parent'[f] = IF f = new THEN "top" ELSE parent[f]
      BY <1>0 DEF FolderTypes
    <3> QED BY ONLY <2>1, <3>1, TreeMade
  <2>3. \A f \in Folders : Children(f)' \subseteq Children(f)
    BY <2>2, TreesNow, TreesNext
  <2>4. \A t \in Folders : \A f \in Subtree(t) : f \in Subtree(t)'
    BY <2>2, TreesNow, TreesNext
  <2>5. \A f \in Folders : parent'[f] = IF f = new THEN "top" ELSE parent[f]
    BY <1>0 DEF FolderTypes
  <2>6. \A q \in Runs : target[q] # new
    BY <1>0 DEF TargetInv
  <2>7. TreeMoves
    BY <1>0, <1>1, <2>2, <2>3, <2>4, <2>5, <2>6 DEF TreeMoves, FolderTypes, TreeInv, Existing, Exists
  <2>8. RunMoves
    BY <1>0, <2>5 DEF RunMoves, FolderTypes
  <2>9. ChatMoves
    BY <1>0 DEF ChatMoves, FolderTypes
  <2> QED BY <2>7, <2>8, <2>9 DEF FolderMove
<1>3. \A q \in Runs : q # r => SameRun(q)
  BY <1>0 DEF SameRun, FolderTypes
<1>4. RunOK(r)'
  <2>1. /\ area[r] = {} /\ todo[r] = {} /\ kids[r] = {} /\ saved[r] = {}
        /\ pc'[r] = "walking" /\ target'[r] \in Folders
    BY <1>0 DEF RunOK, PhaseOK, FolderTypes
  <2>2. PhaseOK(r)'
    BY <1>0, <2>1 DEF PhaseOK
  <2>3. AreaOK(r)'
    BY <1>0, <2>1 DEF AreaOK, Below
  <2>4. ChatsOK(r)'
    BY <1>0, <2>1 DEF RunOK, ChatsOK, Below
  <2> QED BY <2>2, <2>3, <2>4 DEF RunOK
<1>5. LastInv'
  BY <1>0, <1>2, LastKept
<1> QED BY <1>1, <1>2, <1>3, <1>4, <1>5, FolderKept

LEMMA WalkStep ==
  ASSUME FolderInv, NEW r \in Runs, Walk(r)
  PROVE  FolderInv'
<1> USE DEF FolderInv
<1>0. /\ pc[r] = "walking" /\ pc' = [pc EXCEPT ![r] = "listing"]
      /\ area' = [area EXCEPT ![r] = Subtree(target[r])]
      /\ UNCHANGED <<parent, where, pinned, target, todo, kids, saved, present, lister, touched>>
  BY DEF Walk, At, Goes, tableVars, ghostVars
<1>1. target[r] \in Folders /\ todo[r] = {} /\ kids[r] = {} /\ saved[r] = {}
  BY <1>0 DEF RunOK, PhaseOK
<1>2. /\ Subtree(target[r]) \subseteq Folders
      /\ \A f \in Subtree(target[r]) : Children(f) \subseteq Subtree(target[r])
      /\ Exists(target[r]) => target[r] \in Subtree(target[r])
      /\ \A f \in Subtree(target[r]) : f = target[r] \/ parent[f] \in Folders
  BY <1>1, SubtreeClosed, SubtreeBelow, TreesNow DEF ClosedIn, Exists
<1>3. FolderTypes'
  BY <1>0, <1>2 DEF FolderTypes, Steps
<1>4. FolderMove
  <2>1. RunMoves
    BY <1>0 DEF RunMoves, FolderTypes
  <2> QED BY <1>0, <2>1, TablesRest DEF tableVars
<1>5. \A q \in Runs : q # r => SameRun(q)
  BY <1>0 DEF SameRun, FolderTypes
<1>6. RunOK(r)'
  <2>1. area'[r] = Subtree(target[r]) /\ pc'[r] = "listing" /\ target'[r] = target[r]
        /\ \A f : Children(f)' = Children(f) /\ Subtree(f)' = Subtree(f) /\ (Exists(f)' <=> Exists(f))
    BY <1>0, TreesNow, TreesNext DEF FolderTypes, Exists
  <2>2. PhaseOK(r)'
    BY <1>0, <1>1, <2>1 DEF PhaseOK
  <2>3. \A f \in Below(r)' : parent[f] \in Folders /\ f \in Folders
    BY <1>2, <2>1 DEF Below
  <2>4. \A f \in Below(r)' : \A q \in Runs : target[q] # f
    BY <2>3, Apart DEF TargetInv
  <2>5. AreaOK(r)'
    BY <1>0, <1>1, <1>2, <2>1, <2>3, <2>4 DEF AreaOK
  <2>6. \A f \in Below(r)' : Exists(f)'
    BY <2>1, <2>3, Apart DEF Exists
  <2>7. ChatsOK(r)'
    BY <1>0, <1>1, <2>1, <2>6 DEF RunOK, ChatsOK, Clearing
  <2> QED BY <2>2, <2>5, <2>7 DEF RunOK
<1>7. LastInv'
  BY <1>0, <1>4, LastKept
<1> QED BY <1>3, <1>4, <1>5, <1>6, <1>7, FolderKept

LEMMA ListStep ==
  ASSUME FolderInv, NEW r \in Runs, List(r)
  PROVE  FolderInv'
<1> USE DEF FolderInv
<1>0. /\ pc[r] = "listing" /\ pc' = [pc EXCEPT ![r] = "clearing"]
      /\ todo' = [todo EXCEPT ![r] = ListedIn(area[r])]
      /\ present' = [present EXCEPT ![r] = {c \in Chats : Present(c)}]
      /\ lister' = r
      /\ UNCHANGED <<parent, where, pinned, target, area, kids, saved, touched>>
  BY DEF List, At, Goes, tableVars
<1>1. target[r] \in Folders /\ kids[r] = {} /\ saved[r] = {} /\ area[r] \subseteq Folders
  BY <1>0 DEF RunOK, PhaseOK, FolderTypes
<1>2. FolderTypes'
  BY <1>0 DEF FolderTypes, Steps, ListedIn
<1>3. FolderMove
  <2>1. RunMoves
    BY <1>0 DEF RunMoves, FolderTypes
  <2> QED BY <1>0, <2>1, TablesRest DEF tableVars
<1>4. \A q \in Runs : q # r => SameRun(q)
  BY <1>0 DEF SameRun, FolderTypes
<1>5. RunOK(r)'
  <2>1. /\ todo'[r] = {c \in Chats : where[c] \in area[r] /\ c \notin pinned}
        /\ present'[r] = {c \in Chats : Present(c)} /\ pc'[r] = "clearing"
        /\ \A f : Children(f)' = Children(f) /\ Subtree(f)' = Subtree(f) /\ (Exists(f)' <=> Exists(f))
        /\ Below(r)' = Below(r) /\ pinned \subseteq touched
        /\ "unused" \notin area[r] /\ Below(r) \subseteq area[r]
    BY <1>0, <1>1, TreesNow, TreesNext, Apart DEF FolderTypes, Exists, ListedIn, Below, TreeInv
  <2>2. PhaseOK(r)'
    BY <1>0, <1>1, <2>1 DEF PhaseOK
  <2>3. AreaOK(r)'
    BY <1>0, <1>1, <2>1 DEF RunOK, AreaOK
  <2>4. ChatsOK(r)'
    BY <1>0, <1>1, <2>1 DEF RunOK, ChatsOK, Present
  <2> QED BY <2>2, <2>3, <2>4 DEF RunOK
<1>6. LastInv'
  BY <1>0, <1>1 DEF LastInv, LastListingKeepsItsResults
<1> QED BY <1>2, <1>3, <1>4, <1>5, <1>6, FolderKept

LEMMA ClearStep ==
  ASSUME FolderInv, NEW r \in Runs, Clear(r)
  PROVE  FolderInv'
<1> USE DEF FolderInv
<1>1. PICK c \in todo[r] :
        /\ todo' = [todo EXCEPT ![r] = @ \ {c}]
        /\ IF c = r THEN where' = Refiled(c, target[r]) /\ pinned' = pinned \ {c}
                    ELSE where' = WithoutChat(c) /\ UNCHANGED pinned
  BY DEF Clear, Handled
<1>0. /\ pc[r] = "clearing" /\ UNCHANGED <<parent, pc, target, area, kids, saved, present, lister, touched>>
      /\ pinned' \subseteq touched' /\ pinned \subseteq touched
  BY <1>1 DEF Clear, At, ghostVars, TreeInv
<1>2. /\ target[r] \in Folders /\ kids[r] = {} /\ saved[r] = {} /\ area[r] \subseteq Folders
      /\ c \in Chats /\ where[c] # "unused" /\ r \in Chats
      /\ AreaOK(r) /\ ChatsOK(r) /\ PhaseOK(r)
  BY <1>0, FolderAssumption DEF RunOK, PhaseOK, FolderTypes, ChatsOK
<1>3. /\ \A d \in Chats \ {c} : where'[d] = where[d]
      /\ c # r => where'[c] = "deleted"
      /\ c = r => where'[c] = IF Present(c) THEN target[r] ELSE where[c]
      /\ where' \in [Chats -> Folders \cup {NoFolder, "deleted", "unused"}]
      /\ todo'[r] = todo[r] \ {c}
  BY <1>1, <1>2 DEF FolderTypes, Refiled, WithoutChat
<1>4. FolderTypes'
  BY <1>0, <1>1, <1>3 DEF FolderTypes
<1>5. FolderMove
  <2>1. TreeMoves
    BY <1>0, TreesRest
  <2>2. RunMoves
    BY <1>0 DEF RunMoves
  <2>3. ChatMoves
    BY <1>0, <1>1, <1>2, <1>3, Apart DEF ChatMoves
  <2> QED BY <2>1, <2>2, <2>3 DEF FolderMove
<1>6. \A q \in Runs : q # r => SameRun(q)
  BY <1>0, <1>1 DEF SameRun, FolderTypes
<1>7. RunOK(r)'
  <2>1. PhaseOK(r)'
    BY <1>0, <1>2, <1>3 DEF PhaseOK
  <2>2. AreaOK(r)'
    BY <1>0, <1>2, TreesRest DEF AreaOK, Below
  <2>3. /\ Below(r)' = Below(r) /\ Below(r) \subseteq area[r] /\ target[r] \notin Below(r)
        /\ (Clearing(r))' = Clearing(r) /\ \A f : Exists(f)' <=> Exists(f)
    BY <1>0 DEF Below, Clearing, Exists
  <2>4. where'[c] \notin Below(r)
    BY <1>2, <1>3, <2>3, Apart DEF Present
  <2>5. \A d \in Chats \ touched : where'[d] \in Below(r) =>
          parent[where'[d]] \notin {"unused", "removed"} /\ (Clearing(r) => d \in todo'[r])
    BY <1>2, <1>3, <2>4 DEF ChatsOK, Exists
  <2>6. \A d \in present[r] \ (touched \cup {r}) : where'[d] \in area[r] /\ Clearing(r) => d \in todo'[r]
    BY <1>2, <1>3, Apart DEF ChatsOK
  <2>7. r \in todo'[r] \ touched => where'[r] \in area[r] \cup {"deleted"}
    BY <1>2, <1>3 DEF ChatsOK
  <2>8. todo'[r] \cup present[r] \cup saved[r] \subseteq {d \in Chats : where'[d] # "unused"}
    BY <1>2, <1>3, Apart DEF ChatsOK
  <2>9. ChatsOK(r)'
    BY <1>0, <2>3, <2>5, <2>6, <2>7, <2>8 DEF ChatsOK, Exists
  <2> QED BY <2>1, <2>2, <2>9 DEF RunOK
<1>8. LastInv'
  <2>1. \A q \in Runs : todo'[q] \subseteq todo[q]
    BY <1>1 DEF FolderTypes
  <2> QED BY <1>0, <1>5, <2>1, LastKept
<1> QED BY <1>4, <1>5, <1>6, <1>7, <1>8, FolderKept

LEMMA ClearFailsStep ==
  ASSUME FolderInv, NEW r \in Runs, ClearFails(r)
  PROVE  FolderInv'
<1> USE DEF FolderInv
<1>1. PICK c \in todo[r] : todo' = [todo EXCEPT ![r] = @ \ {c}] /\ touched' = touched \cup {c}
  BY DEF ClearFails, Handled, Touch
<1>0. /\ pc[r] = "clearing" /\ UNCHANGED <<parent, where, pinned, pc, target, area, kids, saved, present, lister>>
      /\ todo'[r] = todo[r] \ {c}
  BY <1>1 DEF ClearFails, At, tableVars, FolderTypes
<1>2. FolderTypes'
  BY <1>0, <1>1 DEF FolderTypes
<1>3. FolderMove
  <2>1. RunMoves
    BY <1>0 DEF RunMoves
  <2> QED BY <1>0, <1>1, <2>1, TablesRest DEF tableVars
<1>4. \A q \in Runs : q # r => SameRun(q)
  BY <1>0, <1>1 DEF SameRun, FolderTypes
<1>5. RunOK(r)'
  <2>1. PhaseOK(r)'
    BY <1>0 DEF RunOK, PhaseOK
  <2>2. pinned' \subseteq touched'
    BY <1>0, <1>1 DEF TreeInv
  <2>3. \A f : Children(f)' = Children(f) /\ Subtree(f)' = Subtree(f) /\ (Exists(f)' <=> Exists(f))
    BY <1>0, <1>1, <2>2, TreesRest
  <2>4. AreaOK(r)'
    BY <1>0, <1>1, <2>3 DEF RunOK, AreaOK, Below
  <2>5. ChatsOK(r)'
    BY <1>0, <1>1, <2>3 DEF RunOK, ChatsOK, Below, Clearing
  <2> QED BY <2>1, <2>4, <2>5 DEF RunOK
<1>6. LastInv'
  <2>1. \A q \in Runs : todo'[q] \subseteq todo[q]
    BY <1>1 DEF FolderTypes
  <2> QED BY <1>0, <1>3, <2>1, LastKept
<1> QED BY <1>2, <1>3, <1>4, <1>5, <1>6, FolderKept

\* A run's children are below its folder.
LEMMA KidsBelow ==
  ASSUME FolderInv, NEW r \in Runs, pc[r] \in {"clearing", "removing"}
  PROVE  Children(target[r]) \subseteq Below(r)
<1> SUFFICES ASSUME NEW g \in Folders, parent[g] = target[r]
             PROVE  g \in Below(r)
  BY DEF Children
<1>1. target[r] \in Folders /\ AreaOK(r)
  BY DEF FolderInv, RunOK, PhaseOK
<1>2. Exists(target[r])
  BY <1>1 DEF FolderInv, TreeInv
<1>3. g \in area[r]
  BY <1>1, <1>2 DEF AreaOK, Children
<1>4. g # target[r]
  BY <1>1, Apart DEF FolderInv, TargetInv
<1> QED BY <1>3, <1>4 DEF Below

LEMMA ListKidsStep ==
  ASSUME FolderInv, NEW r \in Runs, ListKids(r)
  PROVE  FolderInv'
<1> USE DEF FolderInv
<1>0. /\ pc[r] = "clearing" /\ todo[r] = {}
      /\ kids' = [kids EXCEPT ![r] = Children(target[r])]
      /\ pc' = [pc EXCEPT ![r] = IF Children(target[r]) = {} THEN "testing" ELSE "removing"]
      /\ UNCHANGED <<parent, where, pinned, target, area, todo, saved, present, lister, touched>>
  BY DEF ListKids, At, Goes, GoesOnRemoving, tableVars, ghostVars
<1>1. /\ target[r] \in Folders /\ saved[r] = {} /\ PhaseOK(r) /\ AreaOK(r) /\ ChatsOK(r)
      /\ Children(target[r]) \subseteq Below(r) /\ Children(target[r]) \subseteq Folders
  BY <1>0, KidsBelow DEF RunOK, PhaseOK, Children
<1>2. FolderTypes'
  BY <1>0, <1>1 DEF FolderTypes, Steps
<1>3. FolderMove
  <2>1. RunMoves
    BY <1>0 DEF RunMoves, FolderTypes
  <2> QED BY <1>0, <2>1, TablesRest DEF tableVars
<1>4. \A q \in Runs : q # r => SameRun(q)
  BY <1>0 DEF SameRun, FolderTypes
<1>5. RunOK(r)'
  <2>1. /\ kids'[r] = Children(target[r])
        /\ pc'[r] = IF Children(target[r]) = {} THEN "testing" ELSE "removing"
        /\ Below(r)' = Below(r)
    BY <1>0 DEF FolderTypes, Below
  <2>2. \A f : Children(f)' = Children(f) /\ Subtree(f)' = Subtree(f) /\ (Exists(f)' <=> Exists(f))
    BY <1>0, TreesRest DEF TreeInv
  <2>3. PhaseOK(r)'
    BY <1>0, <1>1, <2>1 DEF PhaseOK
  <2>4. AreaOK(r)'
    BY <1>0, <1>1, <2>1, <2>2 DEF AreaOK
  <2>5. ChatsOK(r)'
    BY <1>0, <1>1, <2>1, <2>2 DEF ChatsOK, Clearing
  <2> QED BY <2>3, <2>4, <2>5 DEF RunOK
<1>6. LastInv'
  BY <1>0, <1>3, LastKept
<1> QED BY <1>2, <1>3, <1>4, <1>5, <1>6, FolderKept

\* All that is below a subfolder is below the run's folder.
LEMMA KidTrees ==
  ASSUME FolderInv, NEW r \in Runs, pc[r] \in {"clearing", "removing"}, NEW g \in kids[r]
  PROVE  g \in Folders /\ Subtree(g) \subseteq Below(r)
<1>1. target[r] \in Folders /\ AreaOK(r) /\ area[r] \subseteq Folders /\ parent[target[r]] \notin Folders
  BY Apart DEF FolderInv, RunOK, PhaseOK, FolderTypes, TargetInv
<1>2. g \in Below(r) /\ Below(r) \in SUBSET Folders /\ Below(r) \subseteq area[r]
  BY <1>1 DEF AreaOK, Below
<1>3. ClosedIn(parent, Below(r))
  BY <1>1, <1>2 DEF AreaOK, ClosedIn, Below, Children, ChildrenOf
<1> QED BY <1>2, <1>3, SubtreeLeast, TreesNow

\* A subfolder is removed, or its removal fails: what the run's folder still has is to be
\* removed later or was touched.
LEMMA KidLeaves ==
  ASSUME FolderInv, NEW r \in Runs, pc[r] = "removing", NEW g \in kids[r], target' = target,
         \/ parent' = WithoutTree(g) /\ touched' = touched
         \/ parent' = parent /\ touched' = touched \cup Subtree(g)
  PROVE  /\ Children(target[r])' \subseteq (kids[r] \ {g}) \cup touched'
         /\ \A f \in Folders : Children(f)' \subseteq Children(f)
<1>1. /\ target[r] \in Folders /\ g \in Folders
      /\ Children(target[r]) \subseteq kids[r] \cup touched
  BY KidTrees DEF FolderInv, RunOK, PhaseOK, AreaOK
<1>2. g \in Children(target[r]) => g \in Subtree(g)
  BY <1>1, SubtreeClosed, TreesNow, Apart DEF Children
<1>3. CASE parent' = WithoutTree(g) /\ touched' = touched
  <2>1. \A f \in Folders : parent'[f] = IF f \in Subtree(g) THEN "removed" ELSE parent[f]
    BY <1>3 DEF WithoutTree
  <2>2. \A f \in Folders : Children(f)' \subseteq Children(f)
    BY <2>1, Apart DEF Children
  <2>3. g \notin Children(target[r])'
    BY <1>1, <1>2, <2>1, Apart DEF Children
  <2>4. Children(target[r])' \subseteq Children(target[r])
    BY <1>1, <2>1, Apart DEF Children
  <2> QED BY <1>1, <1>3, <2>2, <2>3, <2>4
<1>4. CASE parent' = parent /\ touched' = touched \cup Subtree(g)
  <2>1. Children(target[r])' = Children(target[r]) /\ \A f \in Folders : Children(f)' = Children(f)
    BY <1>4 DEF Children
  <2> QED BY <1>1, <1>2, <1>4, <2>1
<1> QED BY <1>3, <1>4

LEMMA RemoveStep ==
  ASSUME FolderInv, NEW r \in Runs, Remove(r)
  PROVE  FolderInv'
<1> USE DEF FolderInv
<1>1. PICK g \in kids[r] : GoesOnRemoving(r, kids[r] \ {g}) /\ parent' = WithoutTree(g)
  BY DEF Remove
<1>0. /\ pc[r] = "removing" /\ kids' = [kids EXCEPT ![r] = kids[r] \ {g}]
      /\ pc' = [pc EXCEPT ![r] = IF kids[r] \ {g} = {} THEN "testing" ELSE "removing"]
      /\ UNCHANGED <<where, pinned, target, area, todo, saved, present, lister, touched>>
  BY <1>1 DEF Remove, At, Goes, GoesOnRemoving, ghostVars
<1>2. /\ target[r] \in Folders /\ saved[r] = {} /\ todo[r] = {} /\ PhaseOK(r) /\ AreaOK(r) /\ ChatsOK(r)
      /\ g \in Folders /\ Subtree(g) \subseteq Below(r) /\ kids[r] \subseteq Folders
  BY <1>0, KidTrees DEF RunOK, PhaseOK, FolderTypes
<1>3. \A q \in Runs : target[q] \notin Subtree(g)
  BY <1>2 DEF AreaOK
<1>4. \A c \in Chats \ touched : where[c] \notin Subtree(g)
  BY <1>0, <1>2 DEF ChatsOK, Clearing
<1>5. TreeMoves /\ \A f \in Folders : parent'[f] = IF f \in Subtree(g) THEN "removed" ELSE parent[f]
  BY <1>0, <1>1, <1>2, <1>3, <1>4, TreeRemoved DEF TreeInv
<1>6. FolderMove
  <2>1. RunMoves
    BY <1>0 DEF RunMoves, FolderTypes
  <2>2. ChatMoves
    BY <1>0 DEF ChatMoves, FolderTypes
  <2> QED BY <1>5, <2>1, <2>2 DEF FolderMove
<1>7. FolderTypes'
  BY <1>0, <1>2, <1>5 DEF FolderTypes, Steps, TreeMoves
<1>8. \A q \in Runs : q # r => SameRun(q)
  BY <1>0 DEF SameRun, FolderTypes
<1>9. RunOK(r)'
  <2>1. /\ kids'[r] = kids[r] \ {g} /\ pc'[r] \in {"testing", "removing"}
        /\ kids'[r] # {} => pc'[r] = "removing"
    BY <1>0 DEF FolderTypes
  <2>2. PhaseOK(r)'
    BY <1>0, <1>2, <2>1 DEF PhaseOK
  <2>3. SameArea(r)
    BY <1>0, <2>1 DEF SameArea, Clearing
  <2>4. kids'[r] \subseteq Below(r)
    BY <1>2, <2>1 DEF AreaOK
  <2>5. Children(target[r])' \subseteq kids'[r] \cup touched'
    BY <1>0, <1>1, <2>1, KidLeaves
  <2> QED BY <1>6, <2>2, <2>3, <2>4, <2>5, AreaKept, ChatsKept DEF RunOK
<1>10. LastInv'
  BY <1>0, <1>6, LastKept
<1> QED BY <1>6, <1>7, <1>8, <1>9, <1>10, FolderKept

LEMMA RemoveFailsStep ==
  ASSUME FolderInv, NEW r \in Runs, RemoveFails(r)
  PROVE  FolderInv'
<1> USE DEF FolderInv
<1>1. PICK g \in kids[r] : GoesOnRemoving(r, kids[r] \ {g}) /\ touched' = touched \cup Subtree(g)
  BY DEF RemoveFails, Touch
<1>0. /\ pc[r] = "removing" /\ kids' = [kids EXCEPT ![r] = kids[r] \ {g}]
      /\ pc' = [pc EXCEPT ![r] = IF kids[r] \ {g} = {} THEN "testing" ELSE "removing"]
      /\ UNCHANGED <<parent, where, pinned, target, area, todo, saved, present, lister>>
  BY <1>1 DEF RemoveFails, At, Goes, GoesOnRemoving, tableVars
<1>2. /\ target[r] \in Folders /\ saved[r] = {} /\ todo[r] = {} /\ PhaseOK(r) /\ AreaOK(r)
      /\ g \in Folders /\ kids[r] \subseteq Folders
  BY <1>0 DEF RunOK, PhaseOK, FolderTypes
<1>3. FolderMove
  <2>1. RunMoves
    BY <1>0 DEF RunMoves, FolderTypes
  <2> QED BY <1>0, <1>1, <2>1, TablesRest DEF tableVars
<1>4. FolderTypes'
  BY <1>0, <1>2 DEF FolderTypes, Steps
<1>5. \A q \in Runs : q # r => SameRun(q)
  BY <1>0 DEF SameRun, FolderTypes
<1>6. RunOK(r)'
  <2>1. /\ kids'[r] = kids[r] \ {g} /\ pc'[r] \in {"testing", "removing"}
        /\ kids'[r] # {} => pc'[r] = "removing"
    BY <1>0 DEF FolderTypes
  <2>2. PhaseOK(r)'
    BY <1>0, <1>2, <2>1 DEF PhaseOK
  <2>3. SameArea(r)
    BY <1>0, <2>1 DEF SameArea, Clearing
  <2>4. kids'[r] \subseteq Below(r)
    BY <1>2, <2>1 DEF AreaOK
  <2>5. Children(target[r])' \subseteq kids'[r] \cup touched'
    BY <1>0, <1>1, <2>1, KidLeaves
  <2> QED BY <1>3, <2>2, <2>3, <2>4, <2>5, AreaKept, ChatsKept DEF RunOK
<1>7. LastInv'
  BY <1>0, <1>3, LastKept
<1> QED BY <1>3, <1>4, <1>5, <1>6, <1>7, FolderKept

LEMMA SaveStep ==
  ASSUME FolderInv, NEW r \in Runs, Save(r)
  PROVE  FolderInv'
<1> USE DEF FolderInv
<1> DEFINE new == CHOOSE c \in Chats : where[c] = "unused"
<1>0. /\ pc[r] = "testing" /\ new \in Chats /\ where[new] = "unused"
      /\ where' = [where EXCEPT ![new] = target[r]] /\ saved' = [saved EXCEPT ![r] = @ \cup {new}]
      /\ UNCHANGED <<parent, pinned, pc, target, area, todo, kids, present, lister, touched>>
  BY DEF Save, At, ghostVars
<1> HIDE DEF new
<1>1. target[r] \in Folders /\ PhaseOK(r) /\ AreaOK(r) /\ ChatsOK(r) /\ pinned' \subseteq touched'
  BY <1>0 DEF RunOK, PhaseOK, TreeInv
<1>2. /\ \A c \in Chats \ {new} : where'[c] = where[c]
      /\ where'[new] = target[r] /\ saved'[r] = saved[r] \cup {new}
      /\ where' \in [Chats -> Folders \cup {NoFolder, "deleted", "unused"}]
  BY <1>0, <1>1 DEF FolderTypes
<1>3. FolderTypes'
  BY <1>0, <1>2 DEF FolderTypes
<1>4. FolderMove
  <2>1. TreeMoves
    BY <1>0, <1>1, TreesRest
  <2>2. RunMoves
    BY <1>0 DEF RunMoves
  <2>3. ChatMoves
    BY <1>0, <1>1, <1>2, Apart DEF ChatMoves
  <2> QED BY <2>1, <2>2, <2>3 DEF FolderMove
<1>5. \A q \in Runs : q # r => SameRun(q)
  BY <1>0 DEF SameRun, FolderTypes
<1>6. RunOK(r)'
  <2>1. PhaseOK(r)'
    BY <1>0, <1>1, <1>2 DEF PhaseOK
  <2>2. AreaOK(r)'
    BY <1>0, <1>1, TreesRest DEF AreaOK, Below
  <2>3. ChatsOK(r)'
    <3>1. todo[r] \cup present[r] \cup saved'[r] \subseteq {c \in Chats : where'[c] # "unused"}
      BY <1>0, <1>1, <1>2, Apart DEF ChatsOK
    <3>2. /\ Below(r)' = Below(r) /\ ~Clearing(r)' /\ todo[r] = {} /\ todo'[r] = {} /\ target[r] \notin Below(r)
          /\ \A f : Exists(f)' <=> Exists(f)
      BY <1>0, <1>1 DEF Below, Clearing, PhaseOK, Exists
    <3>3. \A c \in Chats \ touched : where'[c] \in Below(r) => parent[where'[c]] \notin {"unused", "removed"}
      BY <1>1, <1>2, <3>2 DEF ChatsOK, Exists
    <3> QED BY <1>0, <3>1, <3>2, <3>3 DEF ChatsOK, Exists
  <2> QED BY <2>1, <2>2, <2>3 DEF RunOK
<1>7. LastInv'
  <2>1. \A q \in Runs : \A c \in saved'[q] : c \in saved[q] \/ c = new
    BY <1>0 DEF FolderTypes
  <2>2. where'[new] \notin {"unused", "deleted"}
    BY <1>1, <1>2, Apart
  <2>3. \A q \in Runs : \A c \in saved'[q] : c \in saved[q] \/ (where[c] = "unused" /\ Present(c)')
    <3> SUFFICES ASSUME NEW q \in Runs, NEW c \in saved'[q], c \notin saved[q]
                 PROVE  where[c] = "unused" /\ Present(c)'
      OBVIOUS
    <3>1. c = new
      BY <2>1
    <3> QED BY <1>0, <2>2, <3>1 DEF Present
  <2> QED BY <1>0, <1>4, <2>3, LastKept
<1> QED BY <1>3, <1>4, <1>5, <1>6, <1>7, FolderKept

\* Runs end, are stopped, or go down with the container.
LEMMA EndsStep ==
  ASSUME FolderInv, NEW rs \in SUBSET Runs, Ends(rs)
  PROVE  FolderInv'
<1> USE DEF FolderInv
<1>0. /\ UNCHANGED <<parent, where, pinned, saved, lister, touched>>
      /\ \A r \in Runs \ rs : SameRun(r)
      /\ \A r \in rs : /\ pc'[r] = "over" /\ todo'[r] = {} /\ kids'[r] = {} /\ area'[r] = {}
                       /\ target'[r] = NoFolder /\ present'[r] = {}
  BY DEF Ends, tableVars, SameRun
<1>1. FolderTypes'
  BY DEF Ends, tableVars, FolderTypes, Steps
<1>2. FolderMove
  <2>1. RunMoves
    BY <1>0 DEF RunMoves, SameRun
  <2> QED BY <1>0, <2>1, TablesRest DEF tableVars
<1>3. ASSUME NEW r \in rs
      PROVE  RunOK(r)'
  <2>1. PhaseOK(r)'
    BY <1>0, <1>3, Apart DEF PhaseOK
  <2>2. AreaOK(r)'
    BY <1>0, <1>3 DEF AreaOK, Below
  <2>3. saved[r] \subseteq {c \in Chats : where[c] # "unused"}
    BY DEF RunOK, ChatsOK
  <2>4. ChatsOK(r)'
    BY <1>0, <1>3, <2>3 DEF ChatsOK, Below
  <2> QED BY <2>1, <2>2, <2>4 DEF RunOK
<1>4. \A q \in Runs : todo'[q] \subseteq todo[q]
  BY <1>0 DEF SameRun
<1>5. LastInv'
  BY <1>0, <1>2, <1>4, LastKept
<1> QED BY <1>0, <1>1, <1>2, <1>3, <1>5, FolderKept

-----------------------------------------------------------------------------
(* The steps of the user *)

LEMMA UserStep ==
  ASSUME FolderInv, TreeMoves, RunMoves, UNCHANGED <<pc, target, area, todo, kids, saved, present, lister>>,
         where' \in [Chats -> Folders \cup {NoFolder, "deleted", "unused"}],
         \A c \in Chats : where[c] # "unused" => where'[c] # "unused",
         \A c \in Chats \ touched' : where'[c] = where[c]
  PROVE  FolderInv'
<1> USE DEF FolderInv
<1>1. ChatMoves
  BY DEF ChatMoves
<1>2. FolderMove
  BY <1>1 DEF FolderMove
<1>3. FolderTypes'
  BY DEF FolderTypes, TreeMoves
<1>4. \A q \in Runs : SameRun(q)
  BY DEF SameRun
<1>5. LastInv'
  BY <1>2, LastKept
<1> QED BY <1>2, <1>3, <1>4, <1>5, FolderKept

LEMMA UserMovesStep ==
  ASSUME FolderInv, NEW c \in Chats, NEW f \in Folders \cup {NoFolder}, UserMoves(c, f)
  PROVE  FolderInv'
<1> USE DEF FolderInv
<1>0. /\ Present(c) /\ where' = [where EXCEPT ![c] = f] /\ pinned' = pinned \ {c}
      /\ touched' = touched \cup {c}
      /\ UNCHANGED <<parent, pc, target, area, todo, kids, saved, present, lister>>
  BY DEF UserMoves, Refiled, Touch, localVars
<1>1. TreeMoves
  BY <1>0, TreesRest DEF TreeInv
<1>2. RunMoves
  BY <1>0 DEF RunMoves
<1>3. /\ where' \in [Chats -> Folders \cup {NoFolder, "deleted", "unused"}]
      /\ \A d \in Chats : where[d] # "unused" => where'[d] # "unused"
      /\ \A d \in Chats \ touched' : where'[d] = where[d]
  BY <1>0, Apart DEF FolderTypes
<1> QED BY <1>0, <1>1, <1>2, <1>3, UserStep

LEMMA UserPinsStep ==
  ASSUME FolderInv, NEW c \in Chats, UserPins(c)
  PROVE  FolderInv'
<1> USE DEF FolderInv
<1>0. /\ pinned' \subseteq pinned \cup {c} /\ touched' = touched \cup {c}
      /\ UNCHANGED <<parent, where, pc, target, area, todo, kids, saved, present, lister>>
  BY DEF UserPins, Touch, localVars
<1>1. TreeMoves
  BY <1>0, TreesRest DEF TreeInv
<1>2. RunMoves
  BY <1>0 DEF RunMoves
<1> QED BY <1>0, <1>1, <1>2, UserStep DEF FolderTypes

LEMMA UserDeletesStep ==
  ASSUME FolderInv, NEW f \in Folders, UserDeletes(f)
  PROVE  FolderInv'
<1> USE DEF FolderInv
<1> DEFINE lost == {c \in Chats : where[c] \in Subtree(f)}
<1>0. /\ parent' = WithoutTree(f) /\ touched' = touched \cup (Subtree(f) \cup lost)
      /\ where' = [c \in Chats |-> IF c \in lost THEN "deleted" ELSE where[c]]
      /\ UNCHANGED <<pinned, pc, target, area, todo, kids, saved, present, lister>>
  BY DEF UserDeletes, Touch, localVars
<1>1. TreeMoves
  <2>1. \A c \in Chats \ touched' : where[c] \notin Subtree(f)
    BY <1>0
  <2>2. pinned' \subseteq touched' /\ touched \subseteq touched'
    BY <1>0 DEF TreeInv
  <2>3. \A q \in Runs : target[q] \in Subtree(f) => target[q] \in touched'
    BY <1>0
  <2> QED BY <1>0, <2>1, <2>2, <2>3, TreeRemoved
<1>2. RunMoves
  BY <1>0 DEF RunMoves
<1>3. /\ where' \in [Chats -> Folders \cup {NoFolder, "deleted", "unused"}]
      /\ \A d \in Chats : where[d] # "unused" => where'[d] # "unused"
      /\ \A d \in Chats \ touched' : where'[d] = where[d]
  BY <1>0 DEF FolderTypes
<1> QED BY <1>0, <1>1, <1>2, <1>3, UserStep

-----------------------------------------------------------------------------
(* The theorems *)

\* What a step of the server does to the folders and the runs.
LEMMA FolderSteps ==
  ASSUME [Next]_vars
  PROVE  \/ UNCHANGED folderVars
         \/ \E r \in Runs : \/ Begin(r) \/ Find(r) \/ Create(r) \/ Walk(r) \/ List(r) \/ Clear(r) \/ ListKids(r)
                             \/ Remove(r) \/ Save(r) \/ FindFails(r) \/ ClearFails(r) \/ RemoveFails(r)
         \/ \E rs \in SUBSET Runs : Ends(rs)
         \/ \E c \in Chats : UserPins(c) \/ \E f \in Folders \cup {NoFolder} : UserMoves(c, f)
         \/ \E f \in Folders : UserDeletes(f)
<1>1. \A r \in Runs : {r} \in SUBSET Runs
  OBVIOUS
<1>2. Underway \in SUBSET Runs
  BY DEF Underway
<1>3. CASE UNCHANGED vars
  BY <1>3 DEF vars
<1>4. CASE Sync \/ Intervene
  BY <1>4 DEF Sync, Intervene
<1>5. ASSUME NEW r \in Runs, BeginTests(r)
      PROVE  Begin(r)
  BY <1>5 DEF BeginTests
<1>6. ASSUME NEW r \in Runs, GoOn(r)
      PROVE  \/ Find(r) \/ Create(r) \/ Walk(r) \/ List(r) \/ Clear(r) \/ ListKids(r) \/ Remove(r) \/ Save(r)
             \/ Ends({r})
  BY <1>6 DEF GoOn, End
<1>7. CASE Stop
  BY <1>2, <1>7 DEF Stop
<1>8. CASE Disturb
  BY <1>1, <1>8 DEF Disturb, Break
<1> QED BY <1>1, <1>3, <1>4, <1>5, <1>6, <1>7, <1>8 DEF Next

LEMMA FolderStarts == Init => FolderInv
<1> SUFFICES ASSUME Init PROVE FolderInv
  OBVIOUS
<1> USE FolderAssumption DEF Init, FolderInit
<1>1. PICK at \in [Runs \cup Others -> Existing \cup {NoFolder}] :
        where = [c \in Chats |-> IF c \in Runs \cup Others THEN at[c] ELSE "unused"]
  OBVIOUS
<1>2. /\ Existing \subseteq Folders
      /\ \A c \in Chats : c \in Runs \cup Others => where[c] \in Existing \cup {NoFolder}
      /\ \A c \in Chats : c \notin Runs \cup Others => where[c] = "unused"
  BY <1>1 DEF Existing
<1>3. FolderTypes
  BY <1>1, <1>2 DEF FolderTypes, Steps
<1>4. TreeInv
  BY DEF TreeInv, Exists
<1>5. NoChatIsOrphaned
  BY <1>2, Apart DEF NoChatIsOrphaned, Existing
<1>6. KeepsItsOwnChat
  BY <1>2, Apart DEF KeepsItsOwnChat, Present
<1>7. ASSUME NEW r \in Runs PROVE RunOK(r)
  <2>1. PhaseOK(r)
    BY <1>7 DEF PhaseOK
  <2>2. AreaOK(r)
    BY <1>7 DEF AreaOK, Below
  <2>3. ChatsOK(r)
    BY <1>7 DEF ChatsOK, Below
  <2> QED BY <2>1, <2>2, <2>3 DEF RunOK
<1>8. TargetInv /\ LastInv
  BY DEF TargetInv, LastInv, LastListingKeepsItsResults
<1> QED BY <1>3, <1>4, <1>5, <1>6, <1>7, <1>8 DEF FolderInv

LEMMA FolderNext == FolderInv /\ [Next]_vars => FolderInv'
<1> SUFFICES ASSUME FolderInv, [Next]_vars PROVE FolderInv'
  OBVIOUS
<1>1. CASE UNCHANGED folderVars
  <2>1. /\ UNCHANGED <<parent, where, pinned, pc, target, area, todo, kids, saved, present, lister, touched>>
    BY <1>1 DEF folderVars, tableVars, localVars, ghostVars
  <2>2. TreeMoves /\ RunMoves
    BY <2>1, TreesRest DEF RunMoves, FolderInv, TreeInv
  <2> QED BY <2>1, <2>2, UserStep DEF FolderInv, FolderTypes
<1> QED BY <1>1, FolderSteps, BeginStep, FindStep, CreateStep, WalkStep, ListStep, ClearStep, ListKidsStep, RemoveStep,
           SaveStep, ClearFailsStep, RemoveFailsStep, EndsStep, UserPinsStep, UserMovesStep, UserDeletesStep

LEMMA FolderInvariant == Spec => []FolderInv
BY FolderStarts, FolderNext, PTL DEF Spec

\* clear_tests_folder loses no chat it should keep, for any folder trees, any number of
\* runs at once and wherever each of them is stopped.
THEOREM NoChatGetsLost == Spec => []NoChatIsLost
<1>1. FolderInv => NoChatIsLost
  BY DEF FolderInv, NoChatIsLost
<1> QED BY <1>1, FolderInvariant, PTL

\* The run that listed the Tests folder last keeps all the chats it saves.
THEOREM LastListerKeepsItsChats == Spec => []LastListingKeepsItsResults
<1>1. FolderInv => LastListingKeepsItsResults
  BY DEF FolderInv, LastInv
<1> QED BY <1>1, FolderInvariant, PTL

\* Nothing is left below the folder that the run should have handled.
LEMMA NoneLeft ==
  ASSUME FolderInv, NEW r \in Runs, Clearing(r), todo[r] = {}, UNCHANGED <<where, target, present>>,
         touched \subseteq touched', \A f \in Folders : Children(f)' \subseteq Children(f),
         Exists(target[r])' => Exists(target[r])
  PROVE  {c \in present'[r] : where'[c] \in Subtree(target[r])'} \subseteq {r} \cup touched'
<1>1. target[r] \in Folders /\ AreaOK(r) /\ ChatsOK(r) /\ area[r] \in SUBSET Folders
  BY DEF FolderInv, RunOK, PhaseOK, FolderTypes, Clearing
<1>2. ClosedIn(parent', area[r])
  <2>1. \A f \in area[r] : Children(f) \subseteq area[r]
    BY <1>1 DEF AreaOK, Clearing
  <2> QED BY <1>1, <2>1, TreesNext DEF ClosedIn
<1>3. parent'[target[r]] \notin {"unused", "removed"} => target[r] \in area[r]
  BY <1>1 DEF AreaOK, Clearing, Exists
<1>4. Subtree(target[r])' \subseteq area[r]
  <2>1. SubtreeOf(parent', target[r]) \subseteq area[r]
    BY <1>1, <1>2, <1>3, SubtreeLeast
  <2> QED BY <2>1, TreesNext
<1> QED BY <1>1, <1>4 DEF ChatsOK

LEMMA Emptied ==
  ASSUME FolderInv, [Next]_vars, NEW r \in Runs, pc[r] # "testing", pc'[r] = "testing"
  PROVE  /\ {c \in present'[r] : where'[c] \in Subtree(target[r])'} \subseteq {r} \cup touched'
         /\ Children(target[r])' \subseteq touched'
<1>1. ListKids(r) \/ Remove(r) \/ RemoveFails(r)
  <2>0. pc \in [Runs -> Steps]
    BY DEF FolderInv, FolderTypes
  <2>1. ~ UNCHANGED folderVars
    BY DEF folderVars, localVars
  <2>2. ASSUME NEW q \in Runs, Begin(q) \/ Find(q) \/ Create(q) \/ Walk(q) \/ List(q) \/ FindFails(q)
        PROVE  FALSE
    BY <2>0, <2>2 DEF Begin, Find, Create, Walk, List, FindFails, Goes
  <2>3. ASSUME NEW q \in Runs, Clear(q) \/ Save(q) \/ ClearFails(q)
        PROVE  FALSE
    BY <2>3 DEF Clear, Save, ClearFails
  <2>4. ASSUME NEW q \in Runs, ListKids(q) \/ Remove(q) \/ RemoveFails(q)
        PROVE  q = r
    BY <2>0, <2>4 DEF ListKids, Remove, RemoveFails, GoesOnRemoving, Goes
  <2>5. ASSUME NEW rs \in SUBSET Runs, Ends(rs)
        PROVE  FALSE
    BY <2>5 DEF Ends
  <2>6. ASSUME NEW c \in Chats, UserPins(c) \/ \E f \in Folders \cup {NoFolder} : UserMoves(c, f)
        PROVE  FALSE
    BY <2>6 DEF UserPins, UserMoves, localVars
  <2>7. ASSUME NEW f \in Folders, UserDeletes(f)
        PROVE  FALSE
    BY <2>7 DEF UserDeletes, localVars
  <2> QED BY <2>1, <2>2, <2>3, <2>4, <2>5, <2>6, <2>7, FolderSteps
<1>2. CASE ListKids(r)
  <2>1. /\ pc[r] = "clearing" /\ todo[r] = {} /\ Children(target[r]) = {}
        /\ UNCHANGED <<parent, where, target, present, touched>>
    BY <1>2 DEF ListKids, At, Goes, GoesOnRemoving, tableVars, ghostVars, FolderInv, FolderTypes
  <2>2. \A f : Children(f)' = Children(f) /\ (Exists(f)' <=> Exists(f))
    BY <2>1 DEF Children, Exists
  <2>3. Children(target[r])' = {} /\ (Exists(target[r])' <=> Exists(target[r]))
    BY <2>1 DEF Children, Exists
  <2> QED BY <2>1, <2>2, <2>3, NoneLeft DEF Clearing
<1>3. CASE Remove(r) \/ RemoveFails(r)
  <2>1. PICK g \in kids[r] : /\ GoesOnRemoving(r, kids[r] \ {g})
                             /\ \/ parent' = WithoutTree(g) /\ touched' = touched
                                \/ parent' = parent /\ touched' = touched \cup Subtree(g)
    BY <1>3 DEF Remove, RemoveFails, Touch, ghostVars, tableVars
  <2>2. pc[r] = "removing" /\ UNCHANGED <<where, target, present>> /\ kids[r] \ {g} = {}
    BY <1>3, <2>1 DEF Remove, RemoveFails, At, GoesOnRemoving, Goes, ghostVars, tableVars, FolderInv, FolderTypes
  <2>3. todo[r] = {} /\ target[r] \in Folders
    BY <2>2 DEF FolderInv, RunOK, PhaseOK
  <2>4. Exists(target[r])' => Exists(target[r])
    BY <2>1, <2>2, <2>3 DEF WithoutTree, Exists
  <2>5. /\ Children(target[r])' \subseteq (kids[r] \ {g}) \cup touched'
        /\ \A f \in Folders : Children(f)' \subseteq Children(f)
    BY <2>1, <2>2, KidLeaves
  <2> QED BY <2>1, <2>2, <2>3, <2>4, <2>5, NoneLeft DEF Clearing
<1> QED BY <1>1, <1>2, <1>3

\* Whatever other runs, the user and failing calls do meanwhile, clear_tests_folder returns
\* with the folder empty of all it found there, but for what these put elsewhere.
THEOREM TheFolderIsEmptied == Spec => EmptiesTheFolder
<1> DEFINE Emptying ==
      \A r \in Runs :
        pc[r] # "testing" /\ pc'[r] = "testing"
        => /\ {c \in present'[r] : where'[c] \in Subtree(target[r])'}
                \subseteq {r} \cup pinned' \cup touched'
           /\ Children(target[r])' \subseteq touched'
<1>1. FolderInv /\ [Next]_vars => Emptying
  BY Emptied
<1>2. FolderInv /\ [Next]_vars => [Emptying]_folderVars
  BY <1>1
<1> QED BY <1>2, FolderInvariant, PTL DEF Spec, EmptiesTheFolder
=============================================================================
