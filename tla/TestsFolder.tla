---------------------------- MODULE TestsFolder -----------------------------
(***************************************************************************)
(* Runs of the routing tests from chats of one user (Pipe.tests): each     *)
(* empties the user's Tests folder (clear_tests_folder) and then saves one *)
(* chat per test in it (save_chat).  Every call of Open WebUI's chat and   *)
(* folder tables is one step: between two of them other runs go on, and    *)
(* the user moves and pins chats and deletes folders.  A run is named      *)
(* after the chat it was sent from, the one clear_tests_folder must keep.  *)
(***************************************************************************)
EXTENDS Integers, FiniteSets

CONSTANTS
  Runs,       \* chats the tests are sent from
  Others,     \* further chats the user has
  Chats,      \* all chat ids; bounds the chats ever saved
  Folders,    \* folder ids; bounds the folders ever made
  Trees,      \* the folders a user may have at the start: values of parent
  NoFolder,   \* a chat's folder_id None
  MaxTests    \* bound on the tests of a run

Statuses == {"unused", "top", "removed"}

ASSUME FolderAssumption ==
  /\ Runs \cup Others \subseteq Chats
  /\ (Folders \cup {NoFolder}) \cap (Statuses \cup {"deleted"}) = {}
  /\ Trees \subseteq [Folders -> Folders \cup Statuses]
  /\ \A tree \in Trees, f \in Folders : tree[f] \in Folders => tree[tree[f]] \notin {"unused", "removed"}
  /\ NoFolder \notin Folders
  /\ MaxTests \in Nat \ {0}

VARIABLES
  parent,   \* per folder: the folder it is in, top (a Tests folder), removed, or unused
  where,    \* per chat: its folder, NoFolder, deleted or unused
  pinned,   \* chats that no folder lists
  pc,       \* per run: where tests and clear_tests_folder are
  target,   \* per run: folder.id
  area,     \* per run: subtree
  todo,     \* per run: listed chats that are still to be handled
  kids,     \* per run: subfolders that are still to be deleted
  saved,    \* per run: the chats it saved
  present,  \* per run: the chats there were when it listed the folder's
  lister,   \* the run that listed last
  touched   \* chats and folders a user or a failing database put elsewhere

tableVars  == <<parent, where, pinned>>
localVars  == <<pc, target, area, todo, kids, saved>>
ghostVars  == <<present, lister, touched>>
folderVars == <<tableVars, localVars, ghostVars>>

Steps == {"idle", "finding", "creating", "walking", "listing", "clearing", "removing", "testing", "over"}

FolderTypeOK ==
  /\ parent \in [Folders -> Folders \cup Statuses]
  /\ where \in [Chats -> Folders \cup {NoFolder, "deleted", "unused"}]
  /\ pinned \subseteq Chats
  /\ pc \in [Runs -> Steps]
  /\ target \in [Runs -> Folders \cup {NoFolder}]
  /\ \A r \in Runs : /\ area[r] \subseteq Folders /\ kids[r] \subseteq Folders
                     /\ todo[r] \subseteq present[r] /\ present[r] \subseteq Chats
                     /\ saved[r] \subseteq Chats /\ Cardinality(saved[r]) <= MaxTests
  /\ lister \in Runs \cup {NoFolder}
  /\ touched \subseteq Chats \cup Folders

Exists(f)  == parent[f] \notin {"unused", "removed"}
Existing   == {f \in Folders : Exists(f)}
Present(c) == where[c] \notin {"unused", "deleted"}

\* The chats of the runs are anywhere, the others in the folders to be emptied.
FolderInit ==
  /\ parent \in Trees
  /\ \E at \in [Runs \cup Others -> Existing \cup {NoFolder}] :
       /\ \A c \in Others : at[c] = NoFolder => Existing = {}
       /\ where = [c \in Chats |-> IF c \in Runs \cup Others THEN at[c] ELSE "unused"]
  /\ pinned = {}
  /\ pc = [r \in Runs |-> "idle"]
  /\ target = [r \in Runs |-> NoFolder]
  /\ area = [r \in Runs |-> {}]
  /\ todo = [r \in Runs |-> {}]
  /\ kids = [r \in Runs |-> {}]
  /\ saved = [r \in Runs |-> {}]
  /\ present = [r \in Runs |-> {}]
  /\ lister = NoFolder
  /\ touched = {}

-----------------------------------------------------------------------------
(* Open WebUI's tables. *)

Children(f) == {g \in Folders : parent[g] = f}

\* get_folder_ids_by_id_and_user_id_in_subtree: the folder and, with a folder, its
\* children; none for a folder that is gone.
Subtree(f) ==
  LET HasChildren(S) == \A g \in S : Children(g) \subseteq S
  IN  IF Exists(f) THEN {g \in Folders : \A S \in SUBSET Folders : f \in S /\ HasChildren(S) => g \in S}
      ELSE {}

\* get_chats_by_folder_ids_and_user_id: pinned chats are not listed.
ListedIn(fs) == {c \in Chats : where[c] \in fs} \ pinned

\* delete_folder_by_id_and_user_id: the folder and all below it, not their chats.  The
\* method commits child by child, from the leaves up; here it is one step.  A stop in
\* between would leave the folder with part of what was below it, which the next run walks
\* and removes like any other tree.
WithoutTree(f) ==
  LET gone == Subtree(f)
  IN  [g \in Folders |-> IF g \in gone THEN "removed" ELSE parent[g]]

\* delete_chat_by_id_and_user_id.
WithoutChat(c) == [where EXCEPT ![c] = "deleted"]

\* update_chat_folder_id_by_id_and_user_id: None for a chat that is gone.
Refiled(c, f) == IF Present(c) THEN [where EXCEPT ![c] = f] ELSE where

-----------------------------------------------------------------------------
(* Pipe.tests and clear_tests_folder. *)

At(r, step) == pc[r] = step
Goes(r, step) == pc' = [pc EXCEPT ![r] = step]

Begin(r) ==
  /\ pc[r] \in {"idle", "over"}
  /\ Present(r)
  /\ Goes(r, "finding")
  /\ saved' = [saved EXCEPT ![r] = {}]
  /\ UNCHANGED <<tableVars, target, area, todo, kids, ghostVars>>

\* scalars().first() of an unordered query: any folder with the name.
Find(r) ==
  /\ At(r, "finding")
  /\ \/ /\ \A f \in Folders : parent[f] # "top"
        /\ Goes(r, "creating")
        /\ UNCHANGED target
     \/ \E f \in Folders : /\ parent[f] = "top"
                           /\ target' = [target EXCEPT ![r] = f]
                           /\ Goes(r, "walking")
  /\ UNCHANGED <<tableVars, area, todo, kids, saved, ghostVars>>

Create(r) ==
  LET new == CHOOSE f \in Folders : parent[f] = "unused"
  IN /\ At(r, "creating")
     /\ \E f \in Folders : parent[f] = "unused"
     /\ parent' = [parent EXCEPT ![new] = "top"]
     /\ target' = [target EXCEPT ![r] = new]
     /\ Goes(r, "walking")
     /\ UNCHANGED <<where, pinned, area, todo, kids, saved, ghostVars>>

Walk(r) ==
  /\ At(r, "walking")
  /\ area' = [area EXCEPT ![r] = Subtree(target[r])]
  /\ Goes(r, "listing")
  /\ UNCHANGED <<tableVars, target, todo, kids, saved, ghostVars>>

List(r) ==
  /\ At(r, "listing")
  /\ todo' = [todo EXCEPT ![r] = ListedIn(area[r])]
  /\ present' = [present EXCEPT ![r] = {c \in Chats : Present(c)}]
  /\ lister' = r
  /\ Goes(r, "clearing")
  /\ UNCHANGED <<tableVars, target, area, kids, saved, touched>>

Handled(r, c) == todo' = [todo EXCEPT ![r] = @ \ {c}]

\* Mutant: whatever is in the folder by now is deleted with the listed chat.
ClearWhatIsThere(r) ==
  /\ At(r, "clearing")
  /\ \E c \in todo[r] :
       /\ Handled(r, c)
       /\ LET kept == IF c = r THEN Refiled(r, target[r])[r] ELSE where[r]
          IN where' = [d \in Chats |-> CASE d = r -> kept
                                       [] d = c \/ where[d] \in area[r] -> "deleted"
                                       [] OTHER -> where[d]]
  /\ UNCHANGED <<parent, pinned, pc, target, area, kids, saved, ghostVars>>

\* One chat of the list: the run's own is moved up, any other deleted.
Clear(r) ==
  /\ At(r, "clearing")
  /\ \E c \in todo[r] :
       /\ Handled(r, c)
       /\ IF c = r
            THEN where' = Refiled(c, target[r]) /\ pinned' = pinned \ {c}
            ELSE where' = WithoutChat(c) /\ UNCHANGED pinned
  /\ UNCHANGED <<parent, pc, target, area, kids, saved, ghostVars>>

GoesOnRemoving(r, rest) ==
  /\ kids' = [kids EXCEPT ![r] = rest]
  /\ Goes(r, IF rest = {} THEN "testing" ELSE "removing")

\* Mutant: emptied subfolders are kept.
ListNoKids(r) ==
  /\ At(r, "clearing")
  /\ todo[r] = {}
  /\ GoesOnRemoving(r, {})
  /\ UNCHANGED <<tableVars, target, area, todo, saved, ghostVars>>

ListKids(r) ==
  /\ At(r, "clearing")
  /\ todo[r] = {}
  /\ GoesOnRemoving(r, Children(target[r]))
  /\ UNCHANGED <<tableVars, target, area, todo, saved, ghostVars>>

\* Mutant: the Tests folder goes with its subfolders.
RemoveAll(r) ==
  /\ At(r, "removing")
  /\ \E g \in kids[r] : GoesOnRemoving(r, kids[r] \ {g})
  /\ parent' = WithoutTree(target[r])
  /\ UNCHANGED <<where, pinned, target, area, todo, saved, ghostVars>>

Remove(r) ==
  /\ At(r, "removing")
  /\ \E g \in kids[r] : GoesOnRemoving(r, kids[r] \ {g}) /\ parent' = WithoutTree(g)
  /\ UNCHANGED <<where, pinned, target, area, todo, saved, ghostVars>>

\* A test has run: save_chat inserts its chat into the folder found before.
Save(r) ==
  LET new == CHOOSE c \in Chats : where[c] = "unused"
  IN /\ At(r, "testing")
     /\ Cardinality(saved[r]) < MaxTests
     /\ \E c \in Chats : where[c] = "unused"
     /\ where' = [where EXCEPT ![new] = target[r]]
     /\ saved' = [saved EXCEPT ![r] = @ \cup {new}]
     /\ UNCHANGED <<parent, pinned, pc, target, area, todo, kids, ghostVars>>

Ends(rs) ==
  /\ pc' = [r \in Runs |-> IF r \in rs THEN "over" ELSE pc[r]]
  /\ todo' = [r \in Runs |-> IF r \in rs THEN {} ELSE todo[r]]
  /\ kids' = [r \in Runs |-> IF r \in rs THEN {} ELSE kids[r]]
  /\ area' = [r \in Runs |-> IF r \in rs THEN {} ELSE area[r]]
  /\ target' = [r \in Runs |-> IF r \in rs THEN NoFolder ELSE target[r]]
  /\ present' = [r \in Runs |-> IF r \in rs THEN {} ELSE present[r]]
  /\ UNCHANGED <<tableVars, saved, lister, touched>>

\* All tests of the selection are saved.
End(r) == At(r, "testing") /\ saved[r] # {} /\ Ends({r})

Underway == {r \in Runs : pc[r] \notin {"idle", "over"}}

\* The user stops the run, or a table's method raises.
Break(r) == r \in Underway /\ Ends({r})

-----------------------------------------------------------------------------
(* What the tables' methods hide, and the user. *)

Touch(things) == touched' = touched \cup things

\* get_folder_by_parent_id_and_user_id_and_name answers None on an error.
FindFails(r) ==
  /\ At(r, "finding")
  /\ Goes(r, "creating")
  /\ UNCHANGED <<tableVars, target, area, todo, kids, saved, ghostVars>>

\* clear_tests_folder does not look at what the chat's delete or move answers.
ClearFails(r) ==
  /\ At(r, "clearing")
  /\ \E c \in todo[r] : Handled(r, c) /\ Touch({c})
  /\ UNCHANGED <<tableVars, pc, target, area, kids, saved, present, lister>>

RemoveFails(r) ==
  /\ At(r, "removing")
  /\ \E g \in kids[r] : GoesOnRemoving(r, kids[r] \ {g}) /\ Touch(Subtree(g))
  /\ UNCHANGED <<tableVars, target, area, todo, saved, present, lister>>

UserMoves(c, f) ==
  /\ Present(c)
  /\ f \in Existing \cup {NoFolder}
  /\ where' = Refiled(c, f)
  /\ pinned' = pinned \ {c}
  /\ Touch({c})
  /\ UNCHANGED <<parent, localVars, present, lister>>

UserPins(c) ==
  /\ Present(c)
  /\ pinned' = IF c \in pinned THEN pinned \ {c} ELSE pinned \cup {c}
  /\ Touch({c})
  /\ UNCHANGED <<parent, where, localVars, present, lister>>

\* Open WebUI's own delete takes the chats, pinned ones too.
UserDeletes(f) ==
  LET gone == Subtree(f)
      lost == {c \in Chats : where[c] \in gone}
  IN /\ Exists(f)
     /\ parent' = WithoutTree(f)
     /\ where' = [c \in Chats |-> IF c \in lost THEN "deleted" ELSE where[c]]
     /\ Touch(gone \cup lost)
     /\ UNCHANGED <<pinned, localVars, present, lister>>

-----------------------------------------------------------------------------
(* Properties. *)

(* "Each run first empties the Tests folder" (ROUTING_TESTS.md:5): when
   clear_tests_folder returns, nothing that was there when it listed the
   folder is left in it but the run's own chat and pinned chats, and no
   subfolder is left, although other runs saved and cleared meanwhile. *)
EmptiesTheFolder ==
  [][ \A r \in Runs :
        pc[r] # "testing" /\ pc'[r] = "testing"
        => /\ {c \in present'[r] : where'[c] \in Subtree(target[r])'}
                \subseteq {r} \cup pinned' \cup touched'
           /\ Children(target[r])' \subseteq touched' ]_folderVars

(* No chat is left in a folder that a run removed, where no folder of the
   sidebar shows it: neither the chat a run is kept in ("moved to the top of
   the folder if it was in a subfolder"), nor a chat a run saved into a
   folder that another run was clearing.  This is said of chats that are not
   pinned, and of chats and folders that neither the user nor a failed call
   touched. *)
NoChatIsOrphaned ==
  \A c \in Chats \ (pinned \cup touched) :
    where[c] \in Folders \ touched => Exists(where[c])

(* A run never deletes the chat it is sent from: until another run has
   begun, only the user can. *)
KeepsItsOwnChat ==
  \A r \in Runs \ touched :
    (\A q \in Runs \ {r} : pc[q] = "idle") => Present(r)

(* clear_tests_folder loses no chat that it should keep: neither by deleting
   it nor by deleting the folder under it.  Excepted are what the user or a
   failed call touched and, in NoChatIsOrphaned, pinned chats: those are not
   listed, so that a pinned chat that runs tests in a subfolder is not moved
   out of it, although the method's docstring says so of every such chat. *)
NoChatIsLost == NoChatIsOrphaned /\ KeepsItsOwnChat

(* Of several runs at once, the one that listed the folder last keeps all it
   saves: clear_tests_folder deletes what it listed, so a slower one that
   listed earlier cannot delete the results. *)
LastListingKeepsItsResults ==
  lister \in Runs => \A c \in saved[lister] \ touched : Present(c)
=============================================================================
