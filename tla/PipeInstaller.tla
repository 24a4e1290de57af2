--------------------------- MODULE PipeInstaller ----------------------------
(***************************************************************************)
(* The start of the relay's container: sync_pipe.py installs the image's   *)
(* pipe in Open WebUI's function table, then start.sh runs the server,     *)
(* whether or not the installation succeeded.  Every call of the table is  *)
(* one transaction; the container can stop between any two of them, and    *)
(* the table's methods answer None when the database refuses.  While the   *)
(* server runs, its administrators change the same row.                    *)
(***************************************************************************)
EXTENDS Integers, FiniteSets

CONSTANTS
  Contents,      \* sources a function row may hold or be offered
  Images,        \* the pipes that come with the images
  Loadable,      \* sources that run and define a Pipe, Filter, Action or Event
  Configurable,  \* loadable sources with a Valves class
  Valves,        \* settings of a function
  NoValves       \* the settings of a new row

ASSUME InstallerAssumption ==
  /\ Images \subseteq Contents
  /\ Configurable \subseteq Loadable
  /\ Loadable \subseteq Contents
  /\ NoValves \in Valves

VARIABLES
  image,   \* the pipe of the image that was started last
  table,   \* the rows with id horizon_relay, at most one
  phase,   \* where the container is
  erred    \* since the start a table's method failed or the sync broke off

installerVars == <<image, table, phase, erred>>

Row    == [content : Contents, active : BOOLEAN, valves : Valves]
Phases == {"down", "loading", "looking", "inserting", "updating", "serving"}

InstallerTypeOK ==
  /\ image \in Images
  /\ table \in SUBSET Row /\ Cardinality(table) <= 1
  /\ phase \in Phases
  /\ erred \in BOOLEAN

\* A new volume, or one that earlier containers and administrators left.
InstallerInit ==
  /\ image \in Images
  /\ table \in {{}} \cup {{r} : r \in {q \in Row : q.content \in Loadable /\ q.valves # NoValves}}
  /\ phase = "down"
  /\ erred = FALSE

-----------------------------------------------------------------------------
(* The function table. *)

Stored(content, active) == {[r EXCEPT !.content = content, !.active = active] : r \in table}
Switched(active)        == {[r EXCEPT !.active = active] : r \in table}

\* is_active and valves of a new row have their defaults.
NewRow(content) == [content |-> content, active |-> FALSE, valves |-> NoValves]

\* Mutant: an insert that replaces the row with its key.
InsertOrReplace(content) == {NewRow(content)}

\* A second row with the same primary key is refused.
InsertNewFunction(content) == IF table = {} THEN {NewRow(content)} ELSE table

-----------------------------------------------------------------------------
(* sync_pipe.main, one step per call of the table. *)

GoTo(p) == phase' = p

\* Mutant: the container stops when the sync fails.
StopAfterFailure == "down"

\* Every way out of the sync leads to start.sh.
AfterFailure == "serving"

\* The image may have been replaced since the last start.
Start ==
  /\ phase = "down"
  /\ image' \in Images
  /\ erred' = FALSE
  /\ GoTo("loading")
  /\ UNCHANGED table

\* Mutant: the source is stored without having been run.
LoadUnchecked ==
  /\ phase = "loading"
  /\ GoTo("looking")
  /\ UNCHANGED <<image, table, erred>>

\* load_function_module_by_id runs the source and takes one that defines any
\* kind of function; one that does not load is switched off before the
\* exception ends the sync.
Load ==
  /\ phase = "loading"
  /\ IF image \in Loadable
       THEN GoTo("looking") /\ UNCHANGED table
       ELSE GoTo(AfterFailure) /\ table' = Switched(FALSE)
  /\ UNCHANGED <<image, erred>>

\* Mutant: an installed pipe is only compared by its source.
AfterComparing(existing) ==
  CASE existing = {} -> "inserting"
    [] \E r \in existing : r.content # image -> "updating"
    [] OTHER -> "serving"

\* Which way main goes, given what get_function_by_id answered.
After(existing) ==
  CASE existing = {} -> "inserting"
    [] \E r \in existing : r.content # image \/ ~r.active -> "updating"
    [] OTHER -> "serving"

Look ==
  /\ phase = "looking"
  /\ GoTo(After(table))
  /\ UNCHANGED <<image, table, erred>>

\* insert_new_function answers None when the key is taken: sys.exit.
Insert ==
  /\ phase = "inserting"
  /\ table' = InsertNewFunction(image)
  /\ IF table = {} THEN GoTo("updating") ELSE GoTo(AfterFailure)
  /\ UNCHANGED <<image, erred>>

Update ==
  /\ phase = "updating"
  /\ table' = Stored(image, TRUE)
  /\ GoTo("serving")
  /\ UNCHANGED <<image, erred>>

-----------------------------------------------------------------------------
(* What goes wrong. *)

\* The database refuses: a read answers None, a failed write is reported by
\* insert_new_function and ignored after update_function_by_id.  An import
\* or a migration that fails ends the sync as well.
DatabaseRefuses ==
  /\ erred' = TRUE
  /\ \/ phase = "looking" /\ GoTo(After({}))
     \/ phase \in {"loading", "inserting", "updating"} /\ GoTo(AfterFailure)
  /\ UNCHANGED <<image, table>>

ContainerStops ==
  /\ phase # "down"
  /\ GoTo("down")
  /\ UNCHANGED <<image, table, erred>>

-----------------------------------------------------------------------------
(* The administrators of a running server (routers/functions.py). *)

Administer(rows) ==
  /\ phase = "serving"
  /\ rows # table
  /\ table' = rows
  /\ UNCHANGED <<image, phase, erred>>

\* A source that does not load is not stored, but the function is off.
AdminEdits(content) ==
  Administer(IF content \in Loadable
               THEN {[r EXCEPT !.content = content] : r \in table}
               ELSE Switched(FALSE))

AdminToggles == Administer({[r EXCEPT !.active = ~r.active] : r \in table})

AdminDeletes == Administer({})

AdminCreates(content) == content \in Loadable /\ Administer(InsertNewFunction(content))

AdminSetsValves(valves) ==
  /\ \A r \in table : r.content \in Configurable
  /\ Administer({[r EXCEPT !.valves = valves] : r \in table})

\* The pipe's models are offered while its row is active.
PipeIsOffered == phase = "serving" /\ \E r \in table : r.active

-----------------------------------------------------------------------------
(* Properties. *)

(* What sync_pipe.py's head promises: "the Pipe is (re)enabled so the image's
   version is always live".  When the sync ends without a database error and
   the image's pipe loads, the row holds the image's pipe and is active,
   also after a stop between insert_new_function and update_function_by_id,
   an administrator's edit or a changed image. *)
SyncMakesTheImageLive ==
  [][ phase # "serving" /\ phase' = "serving" /\ image \in Loadable /\ ~erred'
      => table' # {} /\ \A r \in table' : r.content = image /\ r.active ]_installerVars

(* "Valves are preserved" (sync_pipe.py's head): until the server runs, no
   step changes the settings of an installed row or drops it, also when
   get_function_by_id misses the row and main goes on to insert it. *)
ValvesSurvive ==
  [][ phase # "serving" /\ table # {}
      => {r.valves : r \in table'} = {r.valves : r \in table} ]_installerVars

(* No source that fails to load is ever stored, by the sync or by an
   administrator: the server could not offer the pipe.  To load is to run
   and to define a function of some kind, not necessarily a Pipe. *)
OnlyLoadableIsStored == \A r \in table : r.content \in Loadable

(* The server comes up after every start, however the sync ends
   ("starting without it", Dockerfile.relay). *)
ServerStarts == <>[](phase = "serving")
=============================================================================
