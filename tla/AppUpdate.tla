------------------------------ MODULE AppUpdate ------------------------------
(***************************************************************************)
(* Installer.ApplyUpdate and rollBack (internal/installer/update.go), as    *)
(* the server wires them: a rollback point by the local engine, the store's *)
(* compose written over the app's, stackup.Up, and if that fails a restore  *)
(* of the rollback point by a swap.  Nothing keeps two updates apart        *)
(* (WithBusy only counts), operators start and stop the app, archives are   *)
(* deleted and pruned, and Maison is killed.                                *)
(*                                                                         *)
(* A compose is the version it was published as.  The app's data is the     *)
(* newest version that has run on it: each one makes the data its own.      *)
(***************************************************************************)
EXTENDS Naturals

CONSTANTS
  Calls,      \* update requests
  Stamps,     \* names of archives
  None,       \* no folder, archive or compose
  Torn,       \* a compose cut short while it was written
  MaxVersion, \* bound: versions the store publishes
  Faults      \* TRUE when Docker, disk and store may fail

Composes == Nat \cup {None, Torn}
Folder == [base : Composes, data : Nat]

ASSUME UpdateAssumption ==
  /\ Stamps # {} /\ None \notin Stamps
  /\ None \notin Nat /\ Torn \notin Nat /\ None # Torn
  /\ None \notin Folder
  /\ MaxVersion \in Nat
  /\ Faults \in BOOLEAN

VARIABLES
  folder,     \* the app folder: its compose (base) and its data
  up,         \* some container of the app runs
  made,       \* the version its containers were made from
  store,      \* the version the store offers
  archive,    \* archive[s]: the folder that the archive <s> holds
  pc,         \* where each call is
  current,    \* the compose the call found on disk
  offered,    \* the store's, which it will write
  point,      \* res.Backup
  restart,    \* a restart has been deferred
  ran,        \* the app ran when the call began, and nobody else stopped it
  overlapped  \* two calls have been under way at once

vars == <<folder, up, made, store, archive, pc, current, offered, point,
          restart, ran, overlapped>>
appVars == <<folder, up, made>>
callVars == <<current, offered, point, ran, overlapped>>

Ended == {"idle", "upToDate", "applied", "rolledBack", "failed", "crashed"}
Stages == {"fetch", "stop", "copy", "rerun", "write", "up", "locate", "halt",
           "aside", "swap", "backUp", "failedUp"}

\* The types of an update's state (ApplyUpdate) and of what it works on.
TypeOK ==
  /\ folder \in Folder \cup {None}
  /\ up \in BOOLEAN
  /\ made \in Nat
  /\ store \in Nat
  /\ archive \in [Stamps -> Folder \cup {None}]
  /\ pc \in [Calls -> Ended \cup Stages]
  /\ current \in [Calls -> Composes]
  /\ offered \in [Calls -> Nat]
  /\ point \in [Calls -> Stamps \cup {None}]
  /\ restart \in [Calls -> BOOLEAN]
  /\ ran \in [Calls -> BOOLEAN]
  /\ overlapped \in BOOLEAN

\* An app that was installed, and may have been stopped since.
Init ==
  /\ folder = [base |-> 0, data |-> 0]
  /\ up \in BOOLEAN
  /\ made = 0
  /\ store = 0
  /\ archive = [s \in Stamps |-> None]
  /\ pc = [c \in Calls |-> "idle"]
  /\ current = [c \in Calls |-> None]
  /\ offered = [c \in Calls |-> 0]
  /\ point = [c \in Calls |-> None]
  /\ restart = [c \in Calls |-> FALSE]
  /\ ran = [c \in Calls |-> FALSE]
  /\ overlapped = FALSE

-----------------------------------------------------------------------------
(* Starting the app *)

Newer(v, w) == IF v > w THEN v ELSE w

\* What version <v> leaves of a folder it runs on.
Touched(f, v) == [f EXCEPT !.data = Newer(v, @)]

Managed == folder # None /\ folder.base # None

\* stackup.Up: containers of the compose on disk, one that parses.
ComposeUp ==
  /\ folder # None /\ folder.base \in Nat
  /\ up' = TRUE
  /\ made' = folder.base
  /\ folder' = Touched(folder, folder.base)

\* It fails before anything was done, or with the old containers replaced: all
\* of the new ones may be down, or some of them have run or still do.
UpFails ==
  \/ UNCHANGED appVars
  \/ /\ folder # None /\ folder.base \in Nat
     /\ made' = folder.base
     /\ up' \in BOOLEAN
     /\ folder' \in {folder, Touched(folder, folder.base)}
     /\ up' => folder' = Touched(folder, folder.base)

\* EnsureStarted: without a compose the containers there are; Docker makes the
\* folders they mount.
BringUp ==
  \/ Managed /\ ComposeUp
  \/ /\ ~Managed
     /\ up' = TRUE
     /\ folder' = IF folder = None THEN [base |-> None, data |-> made]
                  ELSE Touched(folder, made)
     /\ UNCHANGED made

\* Its error is logged, or the operator sees it.
Start ==
  \/ BringUp
  \/ Faults /\ UpFails
  \/ Managed /\ folder.base = Torn /\ UNCHANGED appVars

-----------------------------------------------------------------------------
(* The others *)

Publish ==
  /\ store < MaxVersion
  /\ store' = store + 1
  /\ UNCHANGED <<appVars, archive, pc, callVars, restart>>

\* Start, saved settings, Republish, the restart after a nightly backup.
OthersStart ==
  /\ Start
  /\ UNCHANGED <<store, archive, pc, callVars, restart>>

OthersStop ==
  /\ up
  /\ up' = FALSE
  /\ ran' = [c \in Calls |-> FALSE]
  /\ UNCHANGED <<folder, made, store, archive, pc, current, offered, point,
                 restart, overlapped>>

\* DeleteBackup, by the operator or by the nightly run's pruning.
Delete(s) ==
  /\ archive[s] # None
  /\ archive' = [archive EXCEPT ![s] = None]
  /\ UNCHANGED <<appVars, store, pc, callVars, restart>>

-----------------------------------------------------------------------------
(* ApplyUpdate, one action per blocking call *)

Goto(c, stage) == pc' = [pc EXCEPT ![c] = stage]

Busy == {c \in Calls : pc[c] \in Stages}

\* Mutant of Open: the result of the last update is used again.
OpenKeepsPoint(c) ==
  /\ pc[c] \in Ended
  /\ Managed
  /\ current' = [current EXCEPT ![c] = folder.base]
  /\ ran' = [ran EXCEPT ![c] = up]
  /\ overlapped' = (overlapped \/ Busy # {})
  /\ Goto(c, "fetch")
  /\ UNCHANGED <<appVars, store, archive, offered, point, restart>>

\* It reads the compose on disk, which says what is installed.
Open(c) ==
  /\ pc[c] \in Ended
  /\ Managed
  /\ current' = [current EXCEPT ![c] = folder.base]
  /\ point' = [point EXCEPT ![c] = None]
  /\ ran' = [ran EXCEPT ![c] = up]
  /\ overlapped' = (overlapped \/ Busy # {})
  /\ Goto(c, "fetch")
  /\ UNCHANGED <<appVars, store, archive, offered, restart>>

\* AppComposeFrom and Transform.
Fetch(c) ==
  /\ pc[c] = "fetch"
  /\ \/ /\ offered' = [offered EXCEPT ![c] = store]
        /\ Goto(c, IF current[c] = store THEN "upToDate" ELSE "stop")
     \/ Faults /\ Goto(c, "failed") /\ UNCHANGED offered
  /\ UNCHANGED <<appVars, store, archive, current, point, ran, overlapped,
                 restart>>

\* The backup's stop (after its first pass), if Docker answers that the app
\* runs.  Any failure leaves an update without a rollback point.
StopForCopy(c) ==
  /\ pc[c] = "stop"
  /\ \/ /\ folder # None /\ up
        /\ up' = FALSE
        /\ restart' = [restart EXCEPT ![c] = TRUE]
        /\ Goto(c, "copy")
     \/ /\ folder # None /\ (Faults \/ ~up)
        /\ Goto(c, "copy") /\ UNCHANGED <<up, restart>>
     \/ /\ Faults /\ up' \in {up, FALSE}
        /\ Goto(c, "write") /\ UNCHANGED restart
     \/ folder = None /\ Goto(c, "write") /\ UNCHANGED <<up, restart>>
  /\ UNCHANGED <<folder, made, store, archive, callVars>>

Captured == folder

\* The rest of the backup (module AppBackup has its passes), its stamp unused.
Copy(c) ==
  /\ pc[c] = "copy"
  /\ \/ /\ folder # None
        /\ \E s \in Stamps :
             /\ archive[s] = None
             /\ archive' = [archive EXCEPT ![s] = Captured]
             /\ point' = [point EXCEPT ![c] = s]
     \/ (Faults \/ folder = None) /\ UNCHANGED <<archive, point>>
  /\ Goto(c, IF restart[c] THEN "rerun" ELSE "write")
  /\ UNCHANGED <<appVars, store, current, offered, ran, overlapped, restart>>

\* The backup's deferred restart.
Rerun(c) ==
  /\ pc[c] = "rerun"
  /\ Start
  /\ restart' = [restart EXCEPT ![c] = FALSE]
  /\ Goto(c, "write")
  /\ UNCHANGED <<store, archive, callVars>>

\* WriteFile truncates the compose first; its error ends the update there.
Write(c) ==
  /\ pc[c] = "write"
  /\ \/ /\ folder # None
        /\ folder' = [folder EXCEPT !.base = offered[c]]
        /\ Goto(c, "up")
     \/ /\ Faults /\ folder # None
        /\ folder' = [folder EXCEPT !.base = Torn]
        /\ Goto(c, "failed")
     \/ (Faults \/ folder = None) /\ Goto(c, "failed") /\ UNCHANGED folder
  /\ UNCHANGED <<up, made, store, archive, callVars, restart>>

\* stackup.Up; without a rollback point its failure is reported as it is.
Up(c) ==
  /\ pc[c] = "up"
  /\ \/ ComposeUp /\ Goto(c, "applied")
     \/ UpFails /\ Goto(c, IF point[c] = None THEN "failed" ELSE "locate")
  /\ UNCHANGED <<store, archive, callVars, restart>>

-----------------------------------------------------------------------------
(* rollBack: Restore of the rollback point (module AppRestore has its other  *)
(* paths)                                                                    *)

Return(c, good) ==
  Goto(c, IF restart[c] THEN IF good THEN "backUp" ELSE "failedUp"
          ELSE IF good THEN "rolledBack" ELSE "failed")

Locate(c) ==
  /\ pc[c] = "locate"
  /\ \/ archive[point[c]] # None /\ Goto(c, "halt")
     \/ archive[point[c]] = None /\ Goto(c, "failed")
  /\ UNCHANGED <<appVars, store, archive, callVars, restart>>

\* Only now it is asked whether the app runs.
Halt(c) ==
  /\ pc[c] = "halt"
  /\ \/ /\ folder # None /\ up
        /\ up' = FALSE
        /\ restart' = [restart EXCEPT ![c] = TRUE]
        /\ Goto(c, "aside")
     \/ /\ folder # None /\ (Faults \/ ~up)
        /\ Goto(c, "aside") /\ UNCHANGED <<up, restart>>
     \/ folder = None /\ Goto(c, "swap") /\ UNCHANGED <<up, restart>>
     \/ /\ Faults /\ folder # None /\ up
        /\ up' \in BOOLEAN
        /\ Goto(c, "failed") /\ UNCHANGED restart
  /\ UNCHANGED <<folder, made, store, archive, callVars>>

\* The live folder becomes an archive of its own.
Aside(c) ==
  /\ pc[c] = "aside"
  /\ \/ /\ folder # None /\ archive[point[c]] # None
        /\ \E s \in Stamps :
             archive[s] = None /\ archive' = [archive EXCEPT ![s] = folder]
        /\ folder' = None
        /\ Goto(c, "swap")
     \/ /\ Faults \/ folder = None \/ archive[point[c]] = None
        /\ Return(c, FALSE) /\ UNCHANGED <<folder, archive>>
  /\ UNCHANGED <<up, made, store, callVars, restart>>

\* Mutant of Restored: only the compose is put back, over the data.
OnlyCompose(c) == [archive[point[c]] EXCEPT !.data = Newer(made, @)]

\* What the restore puts in the folder's place.
Restored(c) == archive[point[c]]

\* RestoreBackup renames the archive in; it refuses an app that has a folder.
Swap(c) ==
  /\ pc[c] = "swap"
  /\ \/ /\ folder = None /\ archive[point[c]] # None
        /\ folder' = Restored(c)
        /\ archive' = [archive EXCEPT ![point[c]] = None]
        /\ Return(c, TRUE)
     \/ /\ Faults \/ folder # None \/ archive[point[c]] = None
        /\ Return(c, FALSE) /\ UNCHANGED <<folder, archive>>
  /\ UNCHANGED <<up, made, store, callVars, restart>>

\* The restore's deferred restart.
Restart(c) ==
  /\ pc[c] \in {"backUp", "failedUp"}
  /\ Start
  /\ restart' = [restart EXCEPT ![c] = FALSE]
  /\ Goto(c, IF pc[c] = "backUp" THEN "rolledBack" ELSE "failed")
  /\ UNCHANGED <<store, archive, callVars>>

\* Maison is killed, with every call: a write may be cut, an up goes on.
Kill ==
  /\ Busy # {}
  /\ pc' = [c \in Calls |-> IF c \in Busy THEN "crashed" ELSE pc[c]]
  /\ restart' = [c \in Calls |-> FALSE]
  /\ \/ UNCHANGED appVars
     \/ /\ \E c \in Calls : pc[c] \in {"up", "rerun", "backUp", "failedUp"}
        /\ ComposeUp \/ UpFails
     \/ /\ \E c \in Calls : pc[c] = "write"
        /\ folder # None
        /\ folder' = [folder EXCEPT !.base = Torn]
        /\ UNCHANGED <<up, made>>
  /\ UNCHANGED <<store, archive, callVars>>

-----------------------------------------------------------------------------

UpdateStep(c) ==
  \/ Open(c) \/ Fetch(c) \/ StopForCopy(c) \/ Copy(c) \/ Rerun(c) \/ Write(c)
  \/ Up(c) \/ Locate(c) \/ Halt(c) \/ Aside(c) \/ Swap(c) \/ Restart(c)

Next ==
  \/ Publish \/ OthersStart \/ OthersStop \/ Kill
  \/ \E s \in Stamps : Delete(s)
  \/ \E c \in Calls : UpdateStep(c)

Spec == Init /\ [][Next]_vars

-----------------------------------------------------------------------------
(* Properties *)

RunsOnOlder == up /\ folder # None /\ made < folder.data

\* No version ever runs on data that a newer one has made its own, whatever
\* fails, is pruned or killed, unless two updates of the app have overlapped:
\* the rollback takes the old compose and the old data together.
NeverOnNewerData == RunsOnOlder => overlapped

\* An update that says "rolled back" has put back the compose it had found, on
\* data that the version it tried has not touched ("the app returns to exactly
\* the state the rollback point captured").
RolledBackIsOld ==
  [][\A c \in Calls :
       pc[c] # "rolledBack" /\ pc'[c] = "rolledBack" /\ ~overlapped
         => /\ folder' # None
            /\ folder'.base = current[c]
            /\ folder'.data < offered[c]]_vars

\* An app that ran before the update that was rolled back does so after ("the
\* app is running the old version"), or its start was tried.
RolledBackRuns ==
  [][\A c \in Calls :
       pc[c] = "swap" /\ pc'[c] = "rolledBack" /\ ran[c] => up]_vars

\* An app that is said to be up to date was brought up from what it has.
UpToDateIsUp ==
  [][\A c \in Calls : pc[c] = "fetch" /\ pc'[c] = "upToDate"
       => folder' # None /\ made' = folder'.base]_vars

\* NeverOnNewerData with no excuse for overlapping updates.
NeverOnNewerDataAtAll == ~RunsOnOlder
=============================================================================
