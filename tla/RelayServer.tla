---------------------------- MODULE RelayServer -----------------------------
(***************************************************************************)
(* The container of the relay over its starts and stops: the installer     *)
(* (PipeInstaller) puts the pipe into the database, the server offers it,  *)
(* and test runs (TestsFolder) go on until the container stops, which ends *)
(* all of them wherever they are.  The database outlives the container.    *)
(***************************************************************************)
EXTENDS PipeInstaller, TestsFolder

CONSTANTS
  MaxRuns,         \* bound on the test runs begun
  MaxIncidents,    \* bound on stops of the container and what befalls the function table
  MaxDisturbances  \* bound on what befalls the chats, the folders and the runs

ASSUME ServerAssumption == {MaxRuns, MaxIncidents, MaxDisturbances} \subseteq Nat

VARIABLES
  begun,        \* test runs begun so far
  incidents,    \* incidents so far
  disturbances  \* disturbances so far

vars == <<installerVars, folderVars, begun, incidents, disturbances>>

TypeOK ==
  /\ InstallerTypeOK
  /\ FolderTypeOK
  /\ begun \in 0..MaxRuns
  /\ incidents \in 0..MaxIncidents
  /\ disturbances \in 0..MaxDisturbances

Init ==
  /\ InstallerInit
  /\ FolderInit
  /\ begun = 0
  /\ incidents = 0
  /\ disturbances = 0

Sync == (Start \/ Load \/ Look \/ Insert \/ Update) /\ UNCHANGED <<folderVars, begun, incidents, disturbances>>

\* The pipe is called through the models the server offers.
BeginTests(r) ==
  /\ PipeIsOffered
  /\ begun < MaxRuns
  /\ begun' = begun + 1
  /\ Begin(r)
  /\ UNCHANGED <<installerVars, incidents, disturbances>>

\* A run under way goes on when its function is switched off or deleted.
GoOn(r) ==
  /\ phase = "serving"
  /\ \/ Find(r) \/ Create(r) \/ Walk(r) \/ List(r) \/ Clear(r)
     \/ ListKids(r) \/ Remove(r) \/ Save(r) \/ End(r)
  /\ UNCHANGED <<installerVars, begun, incidents, disturbances>>

Incident == incidents < MaxIncidents /\ incidents' = incidents + 1 /\ UNCHANGED disturbances

\* Every run ends with the process it runs in.
Stop == Incident /\ ContainerStops /\ Ends(Underway) /\ UNCHANGED begun

\* Administrators act while no test is under way: the two touch different
\* tables, so that an intervention among the steps of a run is no new case.
Intervene ==
  /\ Incident
  /\ Underway = {}
  /\ \/ DatabaseRefuses
     \/ \E content \in Contents : AdminEdits(content) \/ AdminCreates(content)
     \/ AdminToggles
     \/ AdminDeletes
     \/ \E valves \in Valves : AdminSetsValves(valves)
  /\ UNCHANGED <<folderVars, begun>>

Disturb ==
  /\ disturbances < MaxDisturbances /\ disturbances' = disturbances + 1
  /\ phase = "serving"
  /\ \/ \E r \in Runs : Break(r) \/ FindFails(r) \/ ClearFails(r) \/ RemoveFails(r)
     \/ \E c \in Chats : UserPins(c) \/ \E f \in Folders \cup {NoFolder} : UserMoves(c, f)
     \/ \E f \in Folders : UserDeletes(f)
  /\ UNCHANGED <<installerVars, begun, incidents>>

Next ==
  \/ Sync
  \/ \E r \in Runs : BeginTests(r) \/ GoOn(r)
  \/ Stop
  \/ Intervene
  \/ Disturb

\* Docker restarts the container (restart: unless-stopped), and the sync and
\* the runs go on by themselves.  Stops and disturbances are not fair.
FairSpec ==
  /\ Init /\ [][Next]_vars
  /\ WF_vars(Sync)
  /\ \A r \in Runs : WF_vars(GoOn(r))
=============================================================================
