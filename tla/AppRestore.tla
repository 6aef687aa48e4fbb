----------------------------- MODULE AppRestore -----------------------------
(***************************************************************************)
(* Registry.Restore (internal/apps/backup.go): putting a backup back as an *)
(* app's live folder, by one of its three paths:                           *)
(*                                                                         *)
(*     on disk          rename the live folder aside, put the archive in   *)
(*     remote, room     download it beside the app, then the same          *)
(*     remote, no room  save an undo snapshot, set a marker, let the       *)
(*                      engine write over the live folder, clear it        *)
(*                                                                         *)
(* while operators start, restart, install, save, stop and delete, backups *)
(* are taken, calls fail and Maison is killed.  The app's containers are one flag; a stamp  *)
(* the clock gives is a name nobody uses (never a .zip one).               *)
(***************************************************************************)
EXTENDS Naturals

CONSTANTS
  Names,   \* names of archives and snapshots (stamps)
  Zips,    \* those ending in .zip: archives of the local engine
  None,    \* no contents
  Cut,     \* a folder the engine has begun to overwrite and not finished
  Part,    \* a folder or archive only part of which was written, or a copy of
           \* a Cut folder
  MaxGen,  \* bound: states the app's folder takes
  Faults   \* TRUE when Docker, disk and repository calls may fail

ASSUME RestoreAssumption ==
  /\ Names # {} /\ Zips \subseteq Names
  /\ None \notin Nat /\ Cut \notin Nat /\ Part \notin Nat
  /\ None # Cut /\ None # Part /\ Cut # Part
  /\ MaxGen \in Nat
  /\ Faults \in BOOLEAN

VARIABLES
  live,       \* the app folder's contents
  gen,        \* states given out so far
  up,         \* the app runs
  disk,       \* disk[n]: the archive <n> in the app's backups folder
  repo,       \* repo[n]: the snapshot <n> in the repository
  marker,     \* the .restoring marker exists
  pc,         \* where Restore is
  name,       \* the backup being restored
  src,        \* the engine Locate chose: "local" or "kopia"
  had,        \* there was a live folder when Restore began
  deferred,   \* the restart has been deferred
  looked,     \* an operator's start has found no marker, and not begun yet
  displaced,  \* what the last restore took the place of, with the app still
  still       \* the app has not run since it was stopped for this restore, nor
              \* has the user deleted a copy of its state

vars == <<live, gen, up, disk, repo, marker, pc, name, src, had, deferred,
          looked, displaced, still>>
appVars == <<live, gen, up>>
storeVars == <<disk, repo, marker>>
callVars == <<name, src, had>>

NoName == CHOOSE n \in Names : TRUE

Contents == Nat \cup {None, Cut, Part}
Ended == {"idle", "done", "failed", "crashed"}
Stages == {"stop", "choose", "fetch", "aside", "swap", "undo", "keep", "mark",
           "overwrite", "writing", "unmark", "restartDone", "restartFailed"}

\* The types of a restore's state (Registry.Restore) and of the stores it uses.
TypeOK ==
  /\ live \in Contents
  /\ gen \in Nat
  /\ up \in BOOLEAN
  /\ disk \in [Names -> Contents]
  /\ repo \in [Names -> Contents]
  /\ marker \in BOOLEAN
  /\ pc \in Ended \cup Stages
  /\ name \in Names
  /\ src \in {"local", "kopia"}
  /\ had \in BOOLEAN
  /\ deferred \in BOOLEAN
  /\ looked \in BOOLEAN
  /\ displaced \in Contents
  /\ still \in BOOLEAN

\* Some backups exist, taken of earlier states of the folder.
Init ==
  /\ gen = 1
  /\ live \in {None, 1}
  /\ up \in BOOLEAN /\ (up => live # None)
  /\ disk \in [Names -> {None, 0}]
  /\ repo \in [Names -> {None, 0}] /\ \A n \in Zips : repo[n] = None
  /\ marker = FALSE
  /\ pc = "idle"
  /\ name = NoName
  /\ src = "local"
  /\ had = FALSE
  /\ deferred = FALSE
  /\ looked = FALSE
  /\ displaced = None
  /\ still = FALSE

-----------------------------------------------------------------------------
(* The app, its operators, other backups *)

\* A state the folder never had, up to the bound.
Fresh == gen' = (IF gen < MaxGen THEN gen + 1 ELSE gen) /\ live' = gen'

\* The running app changes its folder, whatever that holds.
AppWrites ==
  /\ up /\ live # None
  /\ Fresh
  /\ UNCHANGED <<up, storeVars, pc, callVars, deferred, looked, displaced, still>>

\* Mutant of Gated: the marker is not looked at.
GatedByFolder == live = None

\* EnsureStarted refuses an app whose restore was cut short.
Gated == marker

\* Starting the app: a managed one by stackup.Up; without a folder it is
\* StartProject, and Docker makes the missing bind folders.
BringUp ==
  /\ up' = TRUE
  /\ IF live = None THEN Fresh ELSE UNCHANGED <<live, gen>>
  /\ still' = FALSE

\* Start, Republish: EnsureStarted looks at the marker, and then runs stackup.Up,
\* which does not look again and may fail.
OperatorAsks ==
  /\ ~Gated
  /\ looked' = TRUE
  /\ UNCHANGED <<appVars, storeVars, pc, callVars, deferred, displaced, still>>

OperatorStarts ==
  /\ looked
  /\ looked' = FALSE
  /\ BringUp \/ (Faults /\ UNCHANGED <<appVars, still>>)
  /\ UNCHANGED <<storeVars, pc, callVars, deferred, displaced>>

\* Restart: Docker restarts the containers, and nothing looks at the marker.
OperatorRestarts ==
  /\ BringUp
  /\ UNCHANGED <<storeVars, pc, callVars, deferred, looked, displaced>>

OperatorStops ==
  /\ up
  /\ up' = FALSE
  /\ UNCHANGED <<live, gen, storeVars, pc, callVars, deferred, looked, displaced, still>>

\* SetConfig, Install, ApplyUpdate: write into the app's folder (Install makes one if
\* there is none), then stackup.Up, which looks at no marker.
OperatorSaves ==
  /\ up' = TRUE /\ still' = FALSE
  /\ IF live \in {Cut, Part} THEN UNCHANGED <<live, gen>> ELSE Fresh
  /\ UNCHANGED <<storeVars, pc, callVars, deferred, looked, displaced>>

Unused(n) == disk[n] = None /\ repo[n] = None

\* What a copy of the live folder holds.
Copied == IF live = Cut THEN Part ELSE live

\* BackupWith, with either engine, in one step (module AppBackup has them all).
TakeBackup(n) ==
  /\ live # None
  /\ Unused(n)
  /\ \/ disk' = [disk EXCEPT ![n] = Copied] /\ UNCHANGED repo
     \/ n \notin Zips /\ repo' = [repo EXCEPT ![n] = Copied] /\ UNCHANGED disk
  /\ UNCHANGED <<appVars, marker, pc, callVars, deferred, looked, displaced, still>>

\* DeleteBackup, Provider.Delete, pruning: the user gives the contents up.
Delete(n) ==
  /\ \/ disk[n] # None /\ disk' = [disk EXCEPT ![n] = None] /\ UNCHANGED repo
     \/ repo[n] # None /\ repo' = [repo EXCEPT ![n] = None] /\ UNCHANGED disk
  /\ displaced' = IF displaced \in {disk[n], repo[n]} THEN None ELSE displaced
  /\ still' = (still /\ Copied \notin {disk[n], repo[n]})
  /\ UNCHANGED <<appVars, marker, pc, callVars, deferred, looked>>

-----------------------------------------------------------------------------
(* Restore, one action per blocking call and outcome *)

\* The call's own variables are gone when it ends.
Goto(place) ==
  /\ pc' = place
  /\ IF place \in Ended THEN name' = NoName /\ src' = "local" /\ had' = FALSE
     ELSE UNCHANGED callVars

\* Mutant of Return: the restart is only queued on success.
ReturnNoDefer(good) ==
  Goto(IF ~good THEN "failed" ELSE IF deferred THEN "restartDone" ELSE "done")

\* Returning: the deferred restart runs first.
Return(good) ==
  Goto(IF deferred THEN IF good THEN "restartDone" ELSE "restartFailed"
       ELSE IF good THEN "done" ELSE "failed")

\* Locate, enter, isRunning (an error from Docker answers "no").
Begin(n) ==
  /\ pc \in Ended
  /\ disk[n] # None \/ repo[n] # None
  /\ name' = n
  /\ src' = IF disk[n] # None THEN "local" ELSE "kopia"
  /\ had' = (live # None)
  /\ still' = ~up
  /\ displaced' = None
  /\ \/ up /\ live # None /\ pc' = "stop"
     \/ (Faults \/ ~up \/ live = None) /\ pc' = "choose"
  /\ UNCHANGED <<appVars, storeVars, deferred, looked>>

Stop ==
  /\ pc = "stop"
  /\ \/ up' = FALSE /\ deferred' = TRUE /\ still' = TRUE /\ Goto("choose")
     \/ Faults /\ up' \in {up, FALSE} /\ Return(FALSE) /\ UNCHANGED <<deferred, still>>
  /\ UNCHANGED <<live, gen, storeVars, looked, displaced>>

SwapFrom == IF had THEN "aside" ELSE "swap"

\* Mutant of Choose: a backup that is gone by now ends the call past its restart.
ChooseGone ==
  /\ pc = "choose"
  /\ \/ disk[name] # None /\ Goto(SwapFrom)
     \/ disk[name] = None /\ repo[name] # None /\ Goto("fetch")
     \/ /\ disk[name] = None /\ repo[name] # None /\ src = "kopia"
        /\ Goto("undo")
     \/ disk[name] = None /\ (repo[name] = None \/ src = "local") /\ Goto("failed")
  /\ UNCHANGED <<appVars, storeVars, deferred, looked, displaced, still>>

\* On disk, else by the room EstimateRestore finds; the engine is the one
\* Locate gave at the beginning.
Choose ==
  /\ pc = "choose"
  /\ \/ disk[name] # None /\ Goto(SwapFrom)
     \/ disk[name] = None /\ repo[name] # None /\ Goto("fetch")
     \/ /\ disk[name] = None /\ repo[name] # None /\ src = "kopia"
        /\ Goto("undo")
     \/ disk[name] = None /\ (repo[name] = None \/ src = "local") /\ Return(FALSE)
  /\ UNCHANGED <<appVars, storeVars, deferred, looked, displaced, still>>

\* Materialize downloads to <stamp> itself.
Fetch ==
  /\ pc = "fetch"
  /\ \/ /\ src = "kopia" /\ repo[name] # None
        /\ disk' = [disk EXCEPT ![name] = repo[name]]
        /\ Goto(SwapFrom)
     \/ /\ Faults /\ src = "kopia" /\ repo[name] # None
        /\ disk' = [disk EXCEPT ![name] = Part]
        /\ Return(FALSE)
     \/ /\ Faults \/ src = "local" \/ repo[name] = None
        /\ Return(FALSE) /\ UNCHANGED disk
  /\ UNCHANGED <<appVars, repo, marker, deferred, looked, displaced, still>>

Displace == displaced' = IF still THEN Copied ELSE None

\* The live folder is renamed to an archive of its own.
Aside ==
  /\ pc = "aside"
  /\ \/ /\ live # None
        /\ \E s \in Names \ Zips :
             s # name /\ Unused(s) /\ disk' = [disk EXCEPT ![s] = Copied]
        /\ live' = None
        /\ Displace
        /\ Goto("swap")
     \/ /\ Faults \/ live = None
        /\ Return(FALSE) /\ UNCHANGED <<live, disk, displaced>>
  /\ UNCHANGED <<gen, up, repo, marker, deferred, looked, still>>

\* RestoreBackup: rename a folder archive in, or extract a zip.
Swap ==
  /\ pc = "swap"
  /\ \/ /\ live = None /\ disk[name] # None
        /\ live' = disk[name]
        /\ IF name \in Zips THEN UNCHANGED disk
           ELSE disk' = [disk EXCEPT ![name] = None]
        /\ Return(TRUE)
     \/ /\ Faults /\ name \in Zips /\ live = None /\ disk[name] # None
        /\ live' = Part /\ UNCHANGED disk /\ Return(FALSE)
     \/ /\ Faults \/ live # None \/ disk[name] = None
        /\ Return(FALSE) /\ UNCHANGED <<live, disk>>
  /\ UNCHANGED <<gen, up, repo, marker, deferred, looked, displaced, still>>

\* Mutant of Undo: a failed undo snapshot is logged, the restore goes on.
UndoBestEffort ==
  /\ pc = "undo"
  /\ \/ \E s \in Names \ Zips : s # name /\ Unused(s) /\ repo' = [repo EXCEPT ![s] = Copied]
     \/ UNCHANGED repo
  /\ Goto("keep")
  /\ UNCHANGED <<appVars, disk, marker, deferred, looked, displaced, still>>

\* The undo: a pass-2 snapshot of the live folder, then its commit.  A failure
\* refuses the restore.
Undo ==
  /\ pc = "undo"
  /\ \/ /\ live # None
        /\ \E s \in Names \ Zips : s # name /\ Unused(s) /\ repo' = [repo EXCEPT ![s] = Copied]
        /\ Goto("keep")
     \/ (Faults \/ live = None) /\ UNCHANGED repo /\ Return(FALSE)
  /\ UNCHANGED <<appVars, disk, marker, deferred, looked, displaced, still>>

Keep ==
  /\ pc = "keep"
  /\ \/ Goto("mark")
     \/ Faults /\ Return(FALSE)
  /\ UNCHANGED <<appVars, storeVars, deferred, looked, displaced, still>>

\* Mutant of Mark: the marker is written after the folder, with the rest.
MarkLater ==
  /\ pc = "mark"
  /\ Goto("overwrite") /\ UNCHANGED marker
  /\ UNCHANGED <<appVars, disk, repo, deferred, looked, displaced, still>>

Mark ==
  /\ pc = "mark"
  /\ \/ marker' = TRUE /\ Goto("overwrite")
     \/ Faults /\ Return(FALSE) /\ UNCHANGED marker
  /\ UNCHANGED <<appVars, disk, repo, deferred, looked, displaced, still>>

\* The engine finds the snapshot and begins to write over the folder.
Overwrite ==
  /\ pc = "overwrite"
  /\ \/ /\ repo[name] # None
        /\ live' = Cut
        /\ Displace
        /\ Goto("writing")
     \/ /\ Faults \/ repo[name] = None
        /\ Return(FALSE) /\ UNCHANGED <<live, displaced>>
  /\ UNCHANGED <<gen, up, storeVars, deferred, looked, still>>

\* It finishes, or fails half way: then the marker stays.
Written ==
  /\ pc = "writing"
  /\ \/ repo[name] # None /\ live' = repo[name] /\ Goto("unmark")
     \/ (Faults \/ repo[name] = None) /\ Return(FALSE) /\ UNCHANGED live
  /\ UNCHANGED <<gen, up, storeVars, deferred, looked, displaced, still>>

Unmark ==
  /\ pc = "unmark"
  /\ \/ marker' = FALSE /\ Return(TRUE)
     \/ Faults /\ Return(FALSE) /\ UNCHANGED marker
  /\ UNCHANGED <<appVars, disk, repo, deferred, looked, displaced, still>>

\* The deferred EnsureStarted, whose error is logged.
RestartApp ==
  /\ pc \in {"restartDone", "restartFailed"}
  /\ \/ ~Gated /\ BringUp
     \/ (Gated \/ Faults) /\ UNCHANGED <<appVars, still>>
  /\ deferred' = FALSE
  /\ Goto(IF pc = "restartDone" THEN "done" ELSE "failed")
  /\ UNCHANGED <<storeVars, looked, displaced>>

\* Maison is killed.  A zip may be half extracted; the engine's container goes
\* on, so a download or an overwrite ends whole or part way.
Crash ==
  /\ pc \in Stages
  /\ Goto("crashed")
  /\ deferred' = FALSE /\ looked' = FALSE
  /\ \/ UNCHANGED <<live, disk>>
     \/ /\ pc = "swap" /\ name \in Zips /\ live = None /\ disk[name] # None
        /\ live' = Part /\ UNCHANGED disk
     \/ /\ pc = "fetch" /\ src = "kopia" /\ repo[name] # None
        /\ \E c \in {Part, repo[name]} : disk' = [disk EXCEPT ![name] = c]
        /\ UNCHANGED live
     \/ /\ pc = "writing" /\ repo[name] # None
        /\ live' = repo[name] /\ UNCHANGED disk
  /\ UNCHANGED <<gen, up, repo, marker, displaced, still>>

-----------------------------------------------------------------------------

RestoreStep ==
  \/ Stop \/ Choose \/ Fetch \/ Aside \/ Swap \/ Undo \/ Keep \/ Mark
  \/ Overwrite \/ Written \/ Unmark \/ RestartApp

Next ==
  \/ AppWrites \/ OperatorAsks \/ OperatorStarts \/ OperatorRestarts \/ OperatorStops
  \/ OperatorSaves \/ Crash
  \/ RestoreStep
  \/ \E n \in Names : TakeBackup(n) \/ Delete(n) \/ Begin(n)

Fairness == WF_vars(RestoreStep)

Spec == Init /\ [][Next]_vars /\ Fairness

-----------------------------------------------------------------------------
(* Properties *)

Held == {live} \cup {disk[n] : n \in Names} \cup {repo[n] : n \in Names}

\* A restore is undoable: what the live folder held when it was replaced or
\* overwritten, with the app still since it was stopped, is held by an archive
\* or a snapshot (or is live again), until the user deletes that.
DisplacedIsKept == displaced \in Held \cup {None}

\* A folder the engine is writing over, or was cut short in, by an error or a kill, has
\* its marker until the folder is something else: EnsureStarted refuses it ("the refusal
\* stands until the restore is retried or rolled back").  Restart, Install, ApplyUpdate
\* and SetConfig do not ask, and a start that asked before is not held: NotStartedCut.
RefusedWhileCut == live = Cut \/ pc = "writing" => Gated

\* Nothing blocks a restore that owes the app its restart: whatever was deleted, started
\* or failed meanwhile, a step of it can be taken.
RestoreGoesOn == deferred => ENABLED <<RestoreStep>>_vars

\* An app that was stopped for a restore is started again, or the start is
\* refused or fails: the restore never ends with it merely left down.
RestartIsTried == deferred ~> ~deferred

\* "The app must not come back up on a half-restored folder", of an in-place restore.
NotStartedCut == [][~up /\ up' => live # Cut]_vars

\* The same, whichever path restored it.
NotStartedIncomplete == [][~up /\ up' => live \notin {Cut, Part}]_vars

\* A restore that succeeded ends the refusal to start the app ("The refusal
\* stands until the restore is retried or rolled back").
RestoredCanStart == pc = "done" => ~marker
=============================================================================
