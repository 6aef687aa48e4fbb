------------------------------ MODULE AppTasks ------------------------------
(***************************************************************************)
(* The long operations on one app and the bars that show them: installs    *)
(* (internal/installer/installer.go), uninstalls (internal/apps/           *)
(* uninstall.go) and backups (StartBackup, in internal/apps/backup.go),    *)
(* each a goroutine that outlives the request, with one tracker entry per  *)
(* kind and app.  Nothing but those entries keeps operations apart.        *)
(*                                                                         *)
(* A task is one request.  The app's data is a number, new at every write. *)
(* A backup is one step here (module AppBackup has them all) and so is     *)
(* bringing the stack up with the wait until it runs.  StartRestore shares *)
(* the backups' tracker and is in module AppRestore.                       *)
(***************************************************************************)
EXTENDS Naturals

CONSTANTS
  Tasks,   \* requests
  None,    \* no folder, no archive
  Part,    \* data only part of which was written or left, or of several moments
  MaxGen,  \* bound on the app's writes (an install may make one state more)
  Faults   \* TRUE when Docker, disk and store calls may fail

ASSUME TasksAssumption ==
  /\ None \notin Nat /\ Part \notin Nat /\ None # Part
  /\ MaxGen \in Nat
  /\ Faults \in BOOLEAN

Kinds == {"install", "uninstall", "backup"}

VARIABLES
  shown,    \* shown[k]: the tracker entry: "none", "running" or "error"
  pc,       \* pc[t]: where the goroutine of task t is
  kind,     \* kind[t]: what t does
  zip,      \* zip[t]: the archive of t is compressed
  seen,     \* seen[t]: the data when t began to compress
  folder,   \* the app folder: "none", "bare" (no docker-compose.yml) or "app"
  data,     \* what it holds
  gen,      \* states the data has had
  up,       \* the app runs
  archive,  \* archive[t]: the archive made by t
  dropped,  \* dropped[k]: an entry was cleared while a task was behind it
  risks     \* "written": the app wrote its folder while a task compressed or removed it;
            \* "unflushed": a zip lost its last bytes, and nobody was told

vars == <<shown, pc, kind, zip, seen, folder, data, gen, up, archive, dropped, risks>>
appVars == <<folder, data, gen, up>>
taskVars == <<kind, zip, seen>>

Stages == [install   |-> {"restore", "write", "prepare", "up"},
           uninstall |-> {"remove", "look", "rename", "zip", "delete"},
           backup    |-> {"backup"}]
Running == Stages["install"] \cup Stages["uninstall"] \cup Stages["backup"]
Stopped == {"idle", "attached", "done", "failed", "lost"}
Contents == Nat \cup {None, Part}
Risks == {"written", "unflushed"}

\* The types of the operations' state: a task stands in a stage of its kind, and
\* there is data exactly when there is a folder (Install, Uninstall).
TypeOK ==
  /\ shown \in [Kinds -> {"none", "running", "error"}]
  /\ kind \in [Tasks -> Kinds]
  /\ pc \in [Tasks -> Running \cup Stopped]
  /\ \A t \in Tasks : pc[t] \in Stages[kind[t]] \cup Stopped
  /\ zip \in [Tasks -> BOOLEAN]
  /\ seen \in [Tasks -> Contents]
  /\ folder \in {"none", "bare", "app"}
  /\ data \in Contents
  /\ folder = "none" <=> data = None
  /\ gen \in Nat
  /\ up \in BOOLEAN
  /\ archive \in [Tasks -> Contents]
  /\ dropped \in [Kinds -> BOOLEAN]
  /\ risks \subseteq Risks

\* The app is not there yet, or installed.
Init ==
  /\ shown = [k \in Kinds |-> "none"]
  /\ pc = [t \in Tasks |-> "idle"]
  /\ kind = [t \in Tasks |-> "install"]
  /\ zip = [t \in Tasks |-> FALSE]
  /\ seen = [t \in Tasks |-> None]
  /\ \/ folder = "none" /\ data = None /\ gen = 0 /\ up = FALSE
     \/ folder = "app" /\ data = 1 /\ gen = 1 /\ up \in BOOLEAN
  /\ archive = [t \in Tasks |-> None]
  /\ dropped = [k \in Kinds |-> FALSE]
  /\ risks = {}

Live(k) == {t \in Tasks : kind[t] = k /\ pc[t] \in Stages[k]}

-----------------------------------------------------------------------------
(* The tracker *)

\* emit: progress goes to whatever entry there is, an older or newer one too.
Report(k) == shown' = [shown EXCEPT ![k] = IF @ = "none" THEN @ ELSE "running"]

\* A stage ends, the next begins.
Advance(t, stage) ==
  /\ pc' = [pc EXCEPT ![t] = stage]
  /\ Report(kind[t])
  /\ UNCHANGED <<kind, zip, dropped>>

\* Mutant of End: a failure is logged, and dropped like a success.
EndDrops(t, good) ==
  /\ pc' = [pc EXCEPT ![t] = IF good THEN "done" ELSE "failed"]
  /\ shown' = [shown EXCEPT ![kind[t]] = "none"]
  /\ UNCHANGED <<kind, zip, dropped>>

\* Mutant of End: a success leaves the entry to the next snapshot.
EndKeeps(t, good) ==
  /\ pc' = [pc EXCEPT ![t] = IF good THEN "done" ELSE "failed"]
  /\ shown' = [shown EXCEPT ![kind[t]] = IF good \/ @ = "none" THEN @ ELSE "error"]
  /\ UNCHANGED <<kind, zip, dropped>>

\* The goroutine ends: success drops the entry, failure marks it if it is there.
End(t, good) ==
  /\ pc' = [pc EXCEPT ![t] = IF good THEN "done" ELSE "failed"]
  /\ shown' = [shown EXCEPT ![kind[t]] =
                 IF good \/ @ = "none" THEN "none" ELSE "error"]
  /\ UNCHANGED <<kind, zip, dropped>>

\* Entries of kinds ks are cleared, whatever is behind them.
Clear(ks) ==
  /\ shown' = [k \in Kinds |-> IF k \in ks THEN "none" ELSE shown[k]]
  /\ dropped' = [k \in Kinds |-> dropped[k] \/ (k \in ks /\ Live(k) # {})]

Start(t, k, stage, entries) ==
  /\ pc' = [pc EXCEPT ![t] = stage]
  /\ kind' = [kind EXCEPT ![t] = k]
  /\ shown' = [entries EXCEPT ![k] = "running"]

\* An operation of the kind is tracked: the request ends there.
Attach(t, k) ==
  /\ pc' = [pc EXCEPT ![t] = "attached"]
  /\ kind' = [kind EXCEPT ![t] = k]

\* StartInstall, plain or from an archive.
RequestInstall(t) ==
  /\ pc[t] = "idle"
  /\ \/ shown["install"] # "none" /\ Attach(t, "install") /\ UNCHANGED shown
     \/ /\ shown["install"] = "none"
        /\ \E stage \in {"restore", "write"} : Start(t, "install", stage, shown)
  /\ UNCHANGED <<appVars, zip, seen, archive, dropped, risks>>

\* A tile is there to act on.
HasTile == folder = "app" \/ up

\* Mutant of RequestUninstall: a second request is not turned away.
RequestAnotherUninstall(t) ==
  /\ pc[t] = "idle" /\ HasTile
  /\ zip' \in {[zip EXCEPT ![t] = b] : b \in BOOLEAN}
  /\ LET entries == [shown EXCEPT !["install"] = "none"] IN
     Start(t, "uninstall", "remove", entries)
  /\ dropped' = [dropped EXCEPT !["install"] = @ \/ Live("install") # {}]
  /\ UNCHANGED <<appVars, seen, archive, risks>>

\* handleUninstallApp: drop the install's entry, then StartUninstall.
RequestUninstall(t) ==
  /\ pc[t] = "idle" /\ HasTile
  /\ zip' \in {[zip EXCEPT ![t] = b] : b \in BOOLEAN}
  /\ LET entries == [shown EXCEPT !["install"] = "none"] IN
     \/ shown["uninstall"] = "running" /\ Attach(t, "uninstall") /\ shown' = entries
     \/ shown["uninstall"] # "running" /\ Start(t, "uninstall", "remove", entries)
  /\ dropped' = [dropped EXCEPT !["install"] = @ \/ Live("install") # {}]
  /\ UNCHANGED <<appVars, seen, archive, risks>>

\* StartBackup.
RequestBackup(t) ==
  /\ pc[t] = "idle" /\ folder = "app"
  /\ zip' \in {[zip EXCEPT ![t] = b] : b \in BOOLEAN}
  /\ \/ shown["backup"] = "running" /\ Attach(t, "backup") /\ UNCHANGED shown
     \/ shown["backup"] # "running" /\ Start(t, "backup", "backup", shown)
  /\ UNCHANGED <<appVars, seen, archive, dropped, risks>>

\* handleDismissApp clears all three.
Dismiss ==
  /\ \E k \in Kinds : shown[k] # "none"
  /\ Clear(Kinds)
  /\ UNCHANGED <<appVars, pc, taskVars, archive, risks>>

-----------------------------------------------------------------------------
(* The app and its operators *)

AppWrites ==
  /\ up /\ folder # "none" /\ gen < MaxGen
  /\ gen' = gen + 1 /\ data' = gen'
  /\ risks' = risks \cup
       IF \E t \in Tasks : pc[t] \in {"zip", "delete"} THEN {"written"} ELSE {}
  /\ UNCHANGED <<shown, pc, taskVars, folder, up, archive, dropped>>

\* Starting and stopping from the tile.
OperatorActs ==
  /\ folder = "app"
  /\ up' = ~up
  /\ UNCHANGED <<shown, pc, taskVars, folder, data, gen, archive, dropped, risks>>

-----------------------------------------------------------------------------
(* Install *)

\* extractZip got through part of an archive.
PartlyRestored ==
  /\ folder = "none" /\ \E a \in Tasks : archive[a] # None /\ zip[a]
  /\ folder' \in {"bare", "app"} /\ data' = Part
  /\ UNCHANGED gen

\* RestoreBackup refuses an existing folder.  A folder archive is consumed; an
\* archive may lack docker-compose.yml.
Restore(t) ==
  /\ pc[t] = "restore"
  /\ \/ /\ folder = "none"
        /\ \E a \in Tasks :
             /\ archive[a] # None
             /\ folder' \in {"bare", "app"} /\ data' = archive[a]
             /\ archive' = IF zip[a] THEN archive ELSE [archive EXCEPT ![a] = None]
        /\ Advance(t, "write")
        /\ UNCHANGED gen
     \/ Faults /\ PartlyRestored /\ End(t, FALSE) /\ UNCHANGED archive
     \/ /\ Faults \/ folder # "none" \/ archive = [a \in Tasks |-> None]
        /\ End(t, FALSE) /\ UNCHANGED <<folder, data, gen, archive>>
  /\ UNCHANGED <<up, seen, risks>>

\* The folder is made when there is none: new data.
Made ==
  IF folder # "none" THEN UNCHANGED <<data, gen>>
  ELSE data' = gen + 1 /\ gen' = gen + 1

\* The folder is there; its files may not be.
PartlyWritten ==
  /\ folder' \in IF folder = "app" THEN {"app"} ELSE {"bare", "app"}
  /\ Made

\* docker-compose.yml, .env, the update reference.
Write(t) ==
  /\ pc[t] = "write"
  /\ \/ folder' = "app" /\ Made /\ Advance(t, "prepare")
     \/ /\ Faults /\ End(t, FALSE)
        /\ UNCHANGED <<folder, data, gen>> \/ PartlyWritten
  /\ UNCHANGED <<up, seen, archive, risks>>

\* Prepare makes the declared folders, the app's own with them.
Declared ==
  \/ UNCHANGED <<folder, data, gen>>
  \/ folder = "none" /\ folder' = "bare" /\ Made

\* Declared folders, image pulls, the pre_install hook.
Prepare(t) ==
  /\ pc[t] = "prepare"
  /\ Declared
  /\ \/ Advance(t, "up")
     \/ (Faults \/ folder = "none") /\ End(t, FALSE)
  /\ UNCHANGED <<up, seen, archive, risks>>

\* stackup.Up: compose needs its file; a failure may leave containers up.
BringUp(t) ==
  /\ pc[t] = "up"
  /\ \/ folder = "app" /\ up' = TRUE /\ End(t, TRUE) /\ UNCHANGED <<folder, data, gen>>
     \/ (Faults \/ folder # "app") /\ End(t, FALSE) /\ Declared
        /\ up' \in {up, up \/ folder = "app"}
  /\ UNCHANGED <<seen, archive, risks>>

-----------------------------------------------------------------------------
(* Uninstall *)

\* RemoveProject, whose error is swallowed.
Remove(t) ==
  /\ pc[t] = "remove"
  /\ up' \in {FALSE, up /\ Faults}
  /\ Advance(t, "look")
  /\ UNCHANGED <<folder, data, gen, seen, archive, risks>>

\* Without a folder there is nothing to archive.
Look(t) ==
  /\ pc[t] = "look"
  /\ \/ folder = "none" /\ End(t, TRUE) /\ UNCHANGED seen
     \/ /\ folder # "none"
        /\ Advance(t, IF zip[t] THEN "zip" ELSE "rename")
        /\ seen' = [seen EXCEPT ![t] = data]
     \/ Faults /\ folder # "none" /\ End(t, FALSE) /\ UNCHANGED seen
  /\ UNCHANGED <<appVars, archive, risks>>

Rename(t) ==
  /\ pc[t] = "rename"
  /\ \/ /\ folder # "none"
        /\ archive' = [archive EXCEPT ![t] = data]
        /\ folder' = "none" /\ data' = None
        /\ End(t, TRUE)
     \/ /\ Faults \/ folder = "none"
        /\ End(t, FALSE) /\ UNCHANGED <<folder, data, archive>>
  /\ UNCHANGED <<gen, up, seen, risks>>

\* Mutant of Zip: a file that cannot be read is passed over.
ZipIgnoresError(t) ==
  /\ pc[t] = "zip"
  /\ \E c \in {data, Part} : archive' = [archive EXCEPT ![t] = c]
  /\ Advance(t, "delete")
  /\ UNCHANGED <<appVars, seen, risks>>

\* archiveDir into <stamp>.zip; a failure leaves what it wrote, listed.  The zip is
\* closed by deferred calls whose errors nobody reads: it may lack its end.
Zip(t) ==
  /\ pc[t] = "zip"
  /\ \/ /\ folder # "none"
        /\ archive' = [archive EXCEPT ![t] = IF data = seen[t] THEN data ELSE Part]
        /\ Advance(t, "delete")
        /\ UNCHANGED risks
     \/ /\ Faults /\ folder # "none"
        /\ archive' = [archive EXCEPT ![t] = Part]
        /\ Advance(t, "delete")
        /\ risks' = risks \cup {"unflushed"}
     \/ /\ Faults \/ folder = "none"
        /\ archive' \in {archive, [archive EXCEPT ![t] = Part]}
        /\ End(t, FALSE)
        /\ UNCHANGED risks
  /\ UNCHANGED <<appVars, seen>>

\* Mutant of Delete: removing what cannot all be removed counts as emptied.
DeleteEmpty(t) ==
  /\ pc[t] = "delete"
  /\ folder' \in {"none", "bare"} /\ data' = None
  /\ End(t, TRUE)
  /\ UNCHANGED <<gen, up, seen, archive, risks>>

PartlyDeleted ==
  /\ folder # "none"
  /\ folder' \in {"bare", folder} /\ data' = Part
  /\ UNCHANGED gen

\* RemoveAll; a failure leaves part of the folder.
Delete(t) ==
  /\ pc[t] = "delete"
  /\ \/ folder' = "none" /\ data' = None /\ UNCHANGED gen /\ End(t, TRUE)
     \/ Faults /\ PartlyDeleted /\ End(t, FALSE)
  /\ UNCHANGED <<up, seen, archive, risks>>

-----------------------------------------------------------------------------

\* A backup: it commits, not always what it should (module AppBackup), or not, and
\* may restart an app it stopped.
Backup(t) ==
  /\ pc[t] = "backup"
  /\ \/ /\ folder # "none"
        /\ \E c \in {data, Part} : archive' = [archive EXCEPT ![t] = c]
        /\ End(t, TRUE)
     \/ (Faults \/ folder = "none") /\ End(t, FALSE) /\ UNCHANGED archive
  /\ up' \in {up, up \/ folder = "app"}
  /\ UNCHANGED <<folder, data, gen, seen, risks>>

\* Maison is killed: trackers and goroutines are gone, what they were at is
\* done in part.
Crash ==
  /\ \E k \in Kinds : Live(k) # {}
  /\ pc' = [t \in Tasks |-> IF pc[t] \in Stages[kind[t]] THEN "lost" ELSE pc[t]]
  /\ shown' = [k \in Kinds |-> "none"]
  /\ archive' \in {archive,
       [t \in Tasks |-> IF pc[t] = "zip" THEN Part ELSE archive[t]]}
  /\ LET At(stage) == \E t \in Tasks : pc[t] = stage IN
     \/ UNCHANGED <<folder, data, gen>>
     \/ At("restore") /\ PartlyRestored
     \/ At("write") /\ PartlyWritten
     \/ At("delete") /\ PartlyDeleted
  /\ UNCHANGED <<up, taskVars, dropped, risks>>

TaskStep(t) ==
  \/ Restore(t) \/ Write(t) \/ Prepare(t) \/ BringUp(t)
  \/ Remove(t) \/ Look(t) \/ Rename(t) \/ Zip(t) \/ Delete(t)
  \/ Backup(t)

Next ==
  \/ Dismiss \/ AppWrites \/ OperatorActs \/ Crash
  \/ \E t \in Tasks :
       RequestInstall(t) \/ RequestUninstall(t) \/ RequestBackup(t) \/ TaskStep(t)

Spec == Init /\ [][Next]_vars

-----------------------------------------------------------------------------
(* Properties *)

\* A running bar always has a running operation of its kind behind it, however
\* operations overlap and whatever was dismissed (the trackers of StartInstall,
\* StartUninstall and StartBackup).
BarHasTask == \A k \in Kinds : shown[k] = "running" => Live(k) # {}

\* "A second call while the same app is being uninstalled is a no-op", and so
\* for installs and backups: two of a kind run at once only after an entry was
\* cleared under a running one.
OneOfAKind == \A k \in Kinds : ~dropped[k] => \A t, u \in Live(k) : t = u

\* "Maison never deletes user data": the newest state of the app's data is in
\* its folder or an archive, whatever fails, overlaps or is cut short.  It takes
\* a running uninstall being dismissed (two then work on one folder), an app
\* that writes while its folder is compressed and removed, or a zip whose last
\* bytes are lost as it is closed, to lose it.
DataIsKept ==
  risks = {} /\ ~dropped["uninstall"] /\ gen > 0 =>
    gen \in {data} \cup {archive[t] : t \in Tasks}

\* What Uninstall's comment says, of an app that stays down and an uninstall nobody
\* dismisses: "Maison never deletes user data: the whole ... folder ... is moved ...
\* or, when zip is set, compressed to <stamp>.zip and the folder removed".
NeverDeletesData ==
  "written" \notin risks /\ ~dropped["uninstall"] /\ gen > 0 =>
    gen \in {data} \cup {archive[t] : t \in Tasks}

\* A failure "stays visible on the tile until it is retried or dismissed": the
\* entry turns to an error, unless it was cleared under the operation, ...
FailureIsShown ==
  [][\A t \in Tasks :
       pc[t] \in Stages[kind[t]] /\ pc'[t] = "failed" /\ ~dropped[kind[t]]
         => shown'[kind[t]] = "error"]_vars

\* A failed install can be tried again: a request is only turned away by an
\* install that is running ("until the user retries (which clears it)").
RetryStarts ==
  [][\A t \in Tasks :
       pc[t] = "idle" /\ pc'[t] = "attached" => shown[kind'[t]] = "running"]_vars
=============================================================================
