----------------------------- MODULE AppBackup -----------------------------
(***************************************************************************)
(* Registry.BackupWith (internal/apps/backup.go): the two-pass backup of   *)
(* one app, with the local engine (folder and zip archives) and the kopia  *)
(* engine, run by several callers at once, while the app writes, operators *)
(* start and stop it, Docker, the disk and the repository fail, and Maison *)
(* itself is killed.                                                       *)
(*                                                                         *)
(*     copy   app up     pass 1                                            *)
(*     check, stop       downtime starts                                   *)
(*     sync   app down   pass 2                                            *)
(*     commit            the archive becomes listable                      *)
(*     restart           deferred                                          *)
(*     abort             deferred, runs last, when nothing was committed   *)
(*                                                                         *)
(* The folder's contents are a generation number, bumped by every write.   *)
(* A pass reads the folder over an interval: it captures a generation when *)
(* nothing was written meanwhile (module Mirror shows that the local copy  *)
(* does) and is Torn otherwise.  What is copied out or removed file by     *)
(* file may end as Part of what it was: some files whole, the others gone  *)
(* or cut short.  A job stands for one invocation and for its stamp; two   *)
(* jobs take their stamps in different seconds.                            *)
(***************************************************************************)
EXTENDS Naturals, FiniteSets

CONSTANTS
  Jobs,        \* invocations of BackupWith on this app
  Containers,  \* the containers of the app's compose project
  Kinds,       \* which engine and archive form a job may use
  None, Torn,  \* no contents; contents that are no instant of the folder
  Part,        \* contents some of whose files are missing or cut short
  MaxGen,      \* bound: writes to the folder
  MaxCrashes,  \* bound: how often Maison is killed
  Faults,      \* TRUE when Docker, disk and repository calls may fail
  Operators    \* TRUE when operators act on the app while backups run

ASSUME BackupAssumption ==
  /\ Containers # {}
  /\ Kinds \subseteq {"folder", "zip", "kopia"}
  /\ None \notin Nat /\ Torn \notin Nat /\ Part \notin Nat
  /\ None # Torn /\ None # Part /\ Torn # Part
  /\ MaxGen \in Nat /\ MaxCrashes \in Nat
  /\ Faults \in BOOLEAN /\ Operators \in BOOLEAN

VARIABLES
  gen,         \* the app folder's generation
  up,          \* the app's running containers
  pc,          \* pc[j]: where job j's goroutine is
  kind,        \* kind[j]: "folder", "zip" (local engine) or "kopia"
  stamp,       \* stamp[j]: the folder's generation when the stamp was taken
  from,        \* from[j]: the folder's generation when pass 2 began to read
  stopped,     \* stopped[j]: j's StopProject ran and took containers down
  deferred,    \* deferred[j]: the restart has been deferred by j
  committed,   \* committed[j]: Commit returned without an error
  staging,     \* staging[j]: .staging-<stamp> on disk (local engine)
  tmp,         \* tmp[j]: .<stamp>.zip.partial on disk, never listed
  archive,     \* archive[j]: <stamp> or <stamp>.zip on disk
  snaps,       \* snaps[j]: <<pass-1, pass-2>> snapshots in the repository
  stray,       \* stray[j]: the pass whose container outlived its client
  disturbed,   \* disturbed[j]: the app may have run under j's pass 2
  crashes      \* how often Maison was killed

appVars == <<gen, up>>
storeVars == <<staging, tmp, archive, snaps>>
jobVars == <<pc, kind, stamp, from, stopped, deferred, committed>>
vars == <<gen, up, pc, kind, stamp, from, stopped, deferred, committed,
          staging, tmp, archive, snaps, stray, disturbed, crashes>>

Contents == Nat \cup {None, Torn, Part}
Active == {"copy", "check", "stop", "sync", "zip", "commit", "restart", "abort"}
Ended == {"done", "failed", "dirty", "crashed"}
Places == {"idle"} \cup Active \cup Ended
Strays == {"none", "first", "last", "over"}

\* The types of the two-pass backup's state (BackupWith and its engines).
TypeOK ==
  /\ gen \in Nat
  /\ up \subseteq Containers
  /\ pc \in [Jobs -> Places]
  /\ kind \in [Jobs -> {"folder", "zip", "kopia"}]
  /\ stamp \in [Jobs -> Nat]
  /\ from \in [Jobs -> Nat]
  /\ stopped \in [Jobs -> BOOLEAN]
  /\ deferred \in [Jobs -> BOOLEAN]
  /\ committed \in [Jobs -> BOOLEAN]
  /\ staging \in [Jobs -> Contents]
  /\ tmp \in [Jobs -> Contents]
  /\ archive \in [Jobs -> Contents]
  /\ snaps \in [Jobs -> Contents \X Contents]
  /\ stray \in [Jobs -> Strays]
  /\ disturbed \in [Jobs -> BOOLEAN]
  /\ crashes \in Nat

Init ==
  /\ gen = 0
  /\ up \in {{}, Containers}
  /\ pc = [j \in Jobs |-> "idle"]
  /\ kind \in [Jobs -> Kinds]
  /\ stamp = [j \in Jobs |-> 0]
  /\ from = [j \in Jobs |-> 0]
  /\ stopped = [j \in Jobs |-> FALSE]
  /\ deferred = [j \in Jobs |-> FALSE]
  /\ committed = [j \in Jobs |-> FALSE]
  /\ staging = [j \in Jobs |-> None]
  /\ tmp = [j \in Jobs |-> None]
  /\ archive = [j \in Jobs |-> None]
  /\ snaps = [j \in Jobs |-> <<None, None>>]
  /\ stray = [j \in Jobs |-> "none"]
  /\ disturbed = [j \in Jobs |-> FALSE]
  /\ crashes = 0

-----------------------------------------------------------------------------
(* The app, its operators and Docker *)

Goto(j, place) == pc' = [pc EXCEPT ![j] = place]

\* Jobs whose last pass is reading the folder: their own, or an engine container
\* that goes on reading after its client is gone.
Reading == {j \in Jobs : pc[j] = "sync" \/ stray[j] = "last"}

\* Bookkeeping: a last pass is disturbed when its folder is written, or the
\* app is up, while it reads.
Disturb ==
  disturbed' = [j \in Jobs |->
                  disturbed[j] \/ (j \in Reading /\ (up' # {} \/ gen' # gen))]

\* EnsureStarted, by stackup.Up: the declared folders, the generated routes, the
\* .env and the pre_up hook may write in the app folder; then every container is
\* up, or a failure leaves some of them up.  Nothing refuses it while a backup
\* has the app down.
BringUp ==
  /\ gen' = gen \/ (gen < MaxGen /\ gen' = gen + 1)
  /\ up' = Containers \/ (Faults /\ up' \in SUBSET Containers)

\* StopProject stops the containers in turn and gives up at the first error.
Stopped(s) == up' = s /\ s \subseteq up

\* The running app changes its folder.
AppWrites ==
  /\ up # {}
  /\ gen < MaxGen
  /\ gen' = gen + 1
  /\ UNCHANGED <<up, jobVars, storeVars, stray, disturbed, crashes>>

\* Start from the tile, the gate's start, Republish, a restart of the project.
OperatorStarts ==
  /\ Operators
  /\ BringUp
  /\ UNCHANGED <<jobVars, storeVars, stray, crashes>>
  /\ Disturb

\* Stop from the tile.
OperatorStops ==
  /\ Operators
  /\ up # {}
  /\ \E s \in SUBSET up : Stopped(s) /\ (s # {} => Faults)
  /\ UNCHANGED <<gen, jobVars, storeVars, stray, disturbed, crashes>>

\* SetConfig, SetEnv, SetWebUI: write a file in the app folder, then Up.
OperatorSaves ==
  /\ Operators
  /\ gen < MaxGen
  /\ BringUp /\ gen' = gen + 1
  /\ UNCHANGED <<jobVars, storeVars, stray, crashes>>
  /\ Disturb

-----------------------------------------------------------------------------
(* BackupWith, one action per blocking call and outcome *)

Local(j) == kind[j] \in {"folder", "zip"}

\* What a pass has read by now, if it began at generation g.
Read(g) == IF gen = g THEN gen ELSE Torn

\* Keep(j, n, c): pass n of job j has left contents c where the engine stages
\* it: one staging folder for both passes, or one snapshot each.
Keep(j, n, c) ==
  IF Local(j)
  THEN staging' = [staging EXCEPT ![j] = c] /\ UNCHANGED snaps
  ELSE snaps' = [snaps EXCEPT ![j][n] = c] /\ UNCHANGED staging

\* Mutant of GiveUp: the restart is a plain call at the end, not deferred.
GiveUpNoDefer(j) == Goto(j, "abort")

\* Where a job goes when it gives up: the deferred restart runs before the
\* deferred Abort.
GiveUp(j) == Goto(j, IF deferred[j] THEN "restart" ELSE "abort")

\* enter, take the stamp, defer the Abort, begin pass 1 (which clears the
\* staging folder).
Begin(j) ==
  /\ pc[j] = "idle"
  /\ Goto(j, "copy")
  /\ stamp' = [stamp EXCEPT ![j] = gen]
  /\ UNCHANGED <<appVars, kind, from, stopped, deferred, committed, storeVars,
                 stray, disturbed, crashes>>

\* Snapshot, pass 1: the app is up.
Copied(j) ==
  /\ pc[j] = "copy"
  /\ Keep(j, 1, Read(stamp[j]))
  /\ Goto(j, "check")
  /\ UNCHANGED <<appVars, kind, stamp, from, stopped, deferred, committed,
                 tmp, archive, stray, disturbed, crashes>>

\* Pass n's container goes on without a client.
Outlives(j, n) ==
  stray' = [stray EXCEPT ![j] = IF n = 1 THEN "first" ELSE "last"]

\* A failed pass: half a mirror stays in the staging folder; the repository
\* holds nothing, or the snapshot of a run whose end was not seen; or the docker
\* client is gone and its container is not (the removal by name is best effort,
\* and made only for a context that ended).
PassFails(j, n, seen) ==
  /\ Faults
  /\ \/ Keep(j, n, IF Local(j) THEN Torn ELSE seen) /\ UNCHANGED stray
     \/ UNCHANGED <<staging, snaps, stray>>
     \/ ~Local(j) /\ Outlives(j, n) /\ UNCHANGED <<staging, snaps>>
  /\ GiveUp(j)
  /\ UNCHANGED <<appVars, kind, stamp, from, stopped, deferred, committed,
                 tmp, archive, disturbed, crashes>>

CopyFails(j) == pc[j] = "copy" /\ PassFails(j, 1, Read(stamp[j]))

\* isRunning: any container up.  An error from Docker answers "no".
Checked(j) ==
  /\ pc[j] = "check"
  /\ \/ up # {} /\ Goto(j, "stop") /\ UNCHANGED <<from, disturbed>>
     \/ /\ up = {} \/ Faults
        /\ Goto(j, "sync")
        /\ from' = [from EXCEPT ![j] = gen]
        /\ disturbed' = [disturbed EXCEPT ![j] = @ \/ up # {}]
  /\ UNCHANGED <<appVars, kind, stamp, stopped, deferred, committed, storeVars,
                 stray, crashes>>

\* Mutant of StopApp: the stop is sent, not awaited.
StopAppNoWait(j) ==
  /\ pc[j] = "stop"
  /\ stopped' = [stopped EXCEPT ![j] = TRUE]
  /\ deferred' = [deferred EXCEPT ![j] = TRUE]
  /\ from' = [from EXCEPT ![j] = gen]
  /\ Goto(j, "sync")
  /\ UNCHANGED <<gen, up, kind, stamp, committed, storeVars, stray, disturbed,
                 crashes>>

\* StopProject succeeds: the restart is deferred, pass 2 begins.
StopApp(j) ==
  /\ pc[j] = "stop"
  /\ Stopped({})
  /\ stopped' = [stopped EXCEPT ![j] = up # {}]
  /\ deferred' = [deferred EXCEPT ![j] = TRUE]
  /\ from' = [from EXCEPT ![j] = gen]
  /\ Goto(j, "sync")
  /\ UNCHANGED <<gen, kind, stamp, committed, storeVars, stray, disturbed,
                 crashes>>

\* StopProject fails part way: BackupWith returns before deferring the restart.
StopFails(j) ==
  /\ pc[j] = "stop"
  /\ Faults
  /\ \E s \in SUBSET up :
       Stopped(s) /\ stopped' = [stopped EXCEPT ![j] = s # up]
  /\ Goto(j, "abort")
  /\ UNCHANGED <<gen, kind, stamp, from, deferred, committed, storeVars,
                 stray, disturbed, crashes>>

\* Snapshot, pass 2: the last word.
Synced(j) ==
  /\ pc[j] = "sync"
  /\ Keep(j, 2, Read(from[j]))
  /\ Goto(j, IF kind[j] = "zip" THEN "zip" ELSE "commit")
  /\ UNCHANGED <<appVars, kind, stamp, from, stopped, deferred, committed,
                 tmp, archive, stray, disturbed, crashes>>

\* Pass 2 fails, or downCtx runs out.
SyncFails(j) == pc[j] = "sync" /\ PassFails(j, 2, Read(from[j]))

\* archiveDir compresses the staging folder into a dotted temporary.  The closing
\* of the zip and of its file is deferred and its errors are dropped: what was
\* still to be written then is missing from a zip taken as whole.
Zipped(j) ==
  /\ pc[j] = "zip"
  /\ \/ tmp' = [tmp EXCEPT ![j] = staging[j]]
     \/ Faults /\ tmp' = [tmp EXCEPT ![j] = Part]
  /\ Goto(j, "commit")
  /\ UNCHANGED <<appVars, kind, stamp, from, stopped, deferred, committed,
                 staging, archive, snaps, stray, disturbed, crashes>>

\* Commit of a folder: the rename that consumes the staging folder makes it
\* listable.  Reading the archive's name back is taken to succeed.
CommitFolder(j) ==
  /\ kind[j] = "folder"
  /\ archive' = [archive EXCEPT ![j] = staging[j]]
  /\ staging' = [staging EXCEPT ![j] = None]
  /\ UNCHANGED <<tmp, snaps>>

\* Commit of a zip: the temporary is renamed, the staging folder is scratch, and
\* the error of removing it is dropped.
CommitZip(j) ==
  /\ kind[j] = "zip"
  /\ archive' = [archive EXCEPT ![j] = tmp[j]]
  /\ tmp' = [tmp EXCEPT ![j] = None]
  /\ \/ staging' = [staging EXCEPT ![j] = None]
     \/ Faults /\ staging' = [staging EXCEPT ![j] = Part]
     \/ Faults /\ UNCHANGED staging
  /\ UNCHANGED snaps

CommitLocal(j) == CommitFolder(j) \/ CommitZip(j)

\* Commit of the kopia engine: list the stamp's snapshots, drop pass 1 (a
\* failure is only logged), require the other.
CommitKopia(j) ==
  /\ ~Local(j)
  /\ snaps[j][2] # None
  /\ \/ snaps' = [snaps EXCEPT ![j][1] = None]
     \/ Faults /\ UNCHANGED snaps
  /\ UNCHANGED <<staging, tmp, archive>>

\* Mutant of Commit: a backup that is stored ends, and only one that failed
\* goes on to the restart.
CommitEnds(j) ==
  /\ pc[j] = "commit"
  /\ CommitLocal(j) \/ CommitKopia(j)
  /\ committed' = [committed EXCEPT ![j] = TRUE]
  /\ Goto(j, "done")
  /\ UNCHANGED <<appVars, kind, stamp, from, stopped, deferred, stray,
                 disturbed, crashes>>

\* The archive is stored; the deferred restart, if any, follows.
Commit(j) ==
  /\ pc[j] = "commit"
  /\ CommitLocal(j) \/ CommitKopia(j)
  /\ committed' = [committed EXCEPT ![j] = TRUE]
  /\ Goto(j, IF deferred[j] THEN "restart" ELSE "done")
  /\ UNCHANGED <<appVars, kind, stamp, from, stopped, deferred, stray,
                 disturbed, crashes>>

\* archiveDir, a rename or the repository's listing fails; or kopia finds no
\* snapshot to commit, having dropped pass 1 by then.  The error of removing a
\* zip's temporary is dropped: half of it, or all of it, may stay under its
\* dotted name, which nothing lists or cleans up.
CommitFails(j) ==
  /\ pc[j] \in {"zip", "commit"}
  /\ \/ Faults /\ kind[j] # "zip" /\ UNCHANGED <<snaps, tmp>>
     \/ /\ Faults /\ kind[j] = "zip" /\ UNCHANGED snaps
        /\ \/ tmp' = [tmp EXCEPT ![j] = None]
           \/ tmp' = [tmp EXCEPT ![j] = Part]
           \/ UNCHANGED tmp
     \/ /\ ~Local(j) /\ snaps[j][2] = None
        /\ snaps' = [snaps EXCEPT ![j][1] = None] /\ UNCHANGED tmp
  /\ GiveUp(j)
  /\ UNCHANGED <<appVars, kind, stamp, from, stopped, deferred, committed,
                 staging, archive, stray, disturbed, crashes>>

\* The deferred EnsureStarted, whose error is logged.
RestartApp(j) ==
  /\ pc[j] = "restart"
  /\ BringUp
  /\ deferred' = [deferred EXCEPT ![j] = FALSE]
  /\ stopped' = [stopped EXCEPT ![j] = FALSE]
  /\ Goto(j, IF committed[j] THEN "done" ELSE "abort")
  /\ UNCHANGED <<kind, stamp, from, committed, storeVars, stray, crashes>>
  /\ Disturb

\* Mutant of Abort: only the pass-1 snapshot of the stamp is deleted.
AbortFirst(j) ==
  /\ pc[j] = "abort"
  /\ IF Local(j)
     THEN staging' = [staging EXCEPT ![j] = None] /\ UNCHANGED snaps
     ELSE snaps' = [snaps EXCEPT ![j][1] = None] /\ UNCHANGED staging
  /\ Goto(j, "failed")
  /\ UNCHANGED <<appVars, kind, stamp, from, stopped, deferred, committed,
                 tmp, archive, stray, disturbed, crashes>>

\* The deferred Abort: remove the staging folder, or every snapshot that
\* carries the stamp.
Abort(j) ==
  /\ pc[j] = "abort"
  /\ IF Local(j)
     THEN staging' = [staging EXCEPT ![j] = None] /\ UNCHANGED snaps
     ELSE snaps' = [snaps EXCEPT ![j] = <<None, None>>] /\ UNCHANGED staging
  /\ Goto(j, "failed")
  /\ UNCHANGED <<appVars, kind, stamp, from, stopped, deferred, committed,
                 tmp, archive, stray, disturbed, crashes>>

\* Some, but perhaps not all, of what a stamp has in the repository is deleted.
DropSome(j) ==
  \/ UNCHANGED snaps
  \/ \E n \in {1, 2} : snaps' = [snaps EXCEPT ![j][n] = None]

\* Abort fails, having removed some of the files or snapshots; its error is
\* logged.
AbortFails(j) ==
  /\ pc[j] = "abort"
  /\ Faults
  /\ \/ Local(j) /\ staging' = [staging EXCEPT ![j] = Part] /\ UNCHANGED snaps
     \/ Local(j) /\ UNCHANGED <<staging, snaps>>
     \/ ~Local(j) /\ DropSome(j) /\ UNCHANGED staging
  /\ Goto(j, "dirty")
  /\ UNCHANGED <<appVars, kind, stamp, from, stopped, deferred, committed,
                 tmp, archive, stray, disturbed, crashes>>

-----------------------------------------------------------------------------
(* Listing and deleting, crashes *)

\* Mutant of Listed: pass-1 snapshots are not filtered out.
ListedAnyPass(j) ==
  IF Local(j) THEN archive[j]
  ELSE IF snaps[j][2] # None THEN snaps[j][2] ELSE snaps[j][1]

\* What List offers under j's stamp: ListBackups skips dotted names, ListSource
\* skips snapshots tagged pass 1.
Listed(j) == IF Local(j) THEN archive[j] ELSE snaps[j][2]

\* DeleteBackup and pruneLocal of a folder: its files go one by one from under
\* the listed name.  A failure, or Maison's death, leaves the others on offer.
DeleteFolder(j) ==
  /\ kind[j] = "folder"
  /\ \E left \in {None, Part} : archive' = [archive EXCEPT ![j] = left]
  /\ UNCHANGED snaps

\* DeleteBackup and pruneLocal of a zip: one file (a failure leaves it alone).
DeleteZip(j) ==
  /\ kind[j] = "zip"
  /\ archive' = [archive EXCEPT ![j] = None]
  /\ UNCHANGED snaps

\* kopia's Delete: every snapshot of the stamp, unless it fails on the way.
DeleteSnaps(j) ==
  /\ kind[j] = "kopia"
  /\ snaps' = [snaps EXCEPT ![j] = <<None, None>>] \/ (Faults /\ DropSome(j))
  /\ UNCHANGED archive

\* A listed backup is deleted, by hand or by a schedule.
Delete(j) ==
  /\ Listed(j) # None
  /\ DeleteFolder(j) \/ DeleteZip(j) \/ DeleteSnaps(j)
  /\ UNCHANGED <<appVars, jobVars, staging, tmp, stray, disturbed, crashes>>

\* What a kill leaves where a job was copying, zipping or removing; cut tells
\* whether it had come to anything.
CutStaging(j, cut) ==
  IF Local(j) /\ pc[j] \in {"copy", "sync"} THEN Torn
  ELSE IF Local(j) /\ pc[j] = "abort" /\ cut THEN Part ELSE staging[j]

CutTmp(j, cut) == IF pc[j] = "zip" /\ cut THEN Part ELSE tmp[j]

\* Maison is killed: its goroutines and their deferred calls are gone, the
\* containers and what is on disk stay, an engine container reads on.
Crash ==
  /\ crashes < MaxCrashes
  /\ crashes' = crashes + 1
  /\ pc' = [j \in Jobs |-> IF pc[j] \in Active THEN "crashed" ELSE pc[j]]
  /\ stray' = [j \in Jobs |->
                 IF kind[j] = "kopia" /\ pc[j] = "copy" THEN "first"
                 ELSE IF kind[j] = "kopia" /\ pc[j] = "sync" THEN "last"
                 ELSE stray[j]]
  /\ \E cut \in BOOLEAN :
       /\ staging' = [j \in Jobs |-> CutStaging(j, cut)]
       /\ tmp' = [j \in Jobs |-> CutTmp(j, cut)]
  /\ UNCHANGED <<appVars, kind, stamp, from, stopped, deferred, committed,
                 archive, snaps, disturbed>>

\* A container without a client ends: with its snapshot recorded, whatever has
\* become of its job meanwhile, or without.
StrayEnds(j) ==
  /\ \/ stray[j] = "first" /\ snaps' = [snaps EXCEPT ![j][1] = Read(stamp[j])]
     \/ stray[j] = "last" /\ snaps' = [snaps EXCEPT ![j][2] = Read(from[j])]
     \/ stray[j] \in {"first", "last"} /\ UNCHANGED snaps
  /\ stray' = [stray EXCEPT ![j] = "over"]
  /\ UNCHANGED <<appVars, jobVars, staging, tmp, archive, disturbed, crashes>>

-----------------------------------------------------------------------------

BackupStep(j) ==
  \/ Copied(j) \/ CopyFails(j) \/ Checked(j) \/ StopApp(j) \/ StopFails(j)
  \/ Synced(j) \/ SyncFails(j) \/ Zipped(j) \/ Commit(j) \/ CommitFails(j)
  \/ RestartApp(j) \/ Abort(j) \/ AbortFails(j)

Next ==
  \/ AppWrites \/ OperatorStarts \/ OperatorStops \/ OperatorSaves \/ Crash
  \/ \E j \in Jobs : Begin(j) \/ BackupStep(j) \/ Delete(j) \/ StrayEnds(j)

\* Once the app is down the job goes on: the stopped pass and the commit run
\* under downCtx (engine) or end with the folder (local copy), and the deferred
\* restart follows.  Pass 1 has no time limit and the app, its operators and
\* the callers owe nothing.
DownStep(j) ==
  \/ Synced(j) \/ SyncFails(j) \/ Zipped(j) \/ Commit(j) \/ CommitFails(j)
  \/ RestartApp(j)

Fair(j) == WF_vars(DownStep(j))

Fairness == \A j \in Jobs : Fair(j)

Spec == Init /\ [][Next]_vars /\ Fairness

-----------------------------------------------------------------------------
(* Properties *)

\* A backup offered for restore never mixes states of the folder, unless
\* something ran the app, or Docker misreported it stopped, during its last
\* pass (the two-pass argument of BackupWith's comment, with its exceptions).
\* Its files are then of one instant; that none of them is missing is
\* OfferedIsWhole.
TornOnlyWhenDisturbed == \A j \in Jobs : Listed(j) = Torn => disturbed[j]

\* What is offered has every file it was made of.  The comment of
\* LocalProvider.Commit says of a zip: "renamed only once whole, so an interrupted
\* compress can never be restored as though it had finished".
OfferedIsWhole == \A j \in Jobs : Listed(j) # Part

\* A backup that ended without committing and whose Abort succeeded leaves
\* nothing behind that counts: not offered, not staged, no pass-1 snapshot,
\* unless its engine's container outlived its client.  A zip's temporary may
\* stay, under a name nothing lists.
FailedLeavesNothing ==
  \A j \in Jobs : pc[j] = "failed" /\ stray[j] = "none" =>
    staging[j] = None /\ Listed(j) = None /\ snaps[j] = <<None, None>>

\* Maison has died under the job.
Killed(j) == pc[j] = "crashed"

\* Nothing blocks a job that owes the app its restart: whatever failed before, a step of
\* the stopped section, its commit or the restart can be taken.
DownGoesOn ==
  \A j \in Jobs : deferred[j] /\ ~Killed(j) => ENABLED <<DownStep(j)>>_vars

\* Whatever fails once the app was stopped by StopProject, the job goes on to
\* start it again; only the death of Maison prevents that.
ComesBack(j) == deferred[j] ~> (~deferred[j] \/ Killed(j))

AppComesBack == \A j \in Jobs : ComesBack(j)

\* A committed backup is a state the folder really had, with nobody but
\* backups acting on the app (BackupWith's comment: "The snapshot itself is
\* consistent either way").
CommittedIsPointInTime == \A j \in Jobs : committed[j] => Listed(j) # Torn

\* A backup that ended has tried to restart every app it took containers of
\* down ("Leaving an app down is a worse outcome than a missing backup").
EndedTriedRestart ==
  \A j \in Jobs : pc[j] \in {"done", "failed", "dirty"} => ~stopped[j]

\* What the caller of BackupWith can tell of a job.
Outcome(j) ==
  IF pc[j] = "idle" THEN "idle"
  ELSE IF committed[j] THEN "ok"
  ELSE CASE pc[j] \in {"failed", "dirty"} -> "failed"
         [] pc[j] = "crashed" -> "lost"
         [] OTHER -> "running"

\* The engines and the choreography together implement BackupPromise.
Promise == INSTANCE BackupPromise WITH
  listed <- [j \in Jobs |-> Listed(j)],
  outcome <- [j \in Jobs |-> Outcome(j)],
  outlived <- [j \in Jobs |-> stray[j] # "none"]

KeepsPromise == Promise!Spec
=============================================================================
