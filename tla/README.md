# A verification project for Maison

Maison is a self-hosted dashboard for Docker applications: one Go process that
installs, starts, updates, backs up, restores and removes compose projects on
one box, and serves a web interface. This directory holds TLA+ models of its
core, the TLC runs that check them on small instances, and proofs, checked by
TLAPS, that hold for every value of the constants. Everything is translated
from the source; docs and comments are used only for what they *promise*.
Paths below are relative to `src/internal/`.

## 1. Inventory

Maison keeps almost everything in the file system and in Docker. There is no
database and no write-ahead log: an operation is a goroutine, its progress is
an entry in a map, and a process that dies leaves whatever it had done.

| Component | State it keeps | Operations | What must be true |
|---|---|---|---|
| **App backup** `apps/backup.go`, `apps/provider*.go`, `backup/kopia` | live folder, containers, `.staging-<stamp>`, archives, repository snapshots, the deferred restart | `BackupWith`: pass 1, stop, pass 2, commit, restart, abort | what is offered mixes no two states of the folder; failures leave nothing on offer; the app comes back |
| **Mirror** `apps/backup.go:656-820` | staging folder, stale set | `mirror`, `upToDate`, `copyFile`, `prune` | the staged copy is exact after the stopped pass |
| **App restore** `apps/backup.go:420-640`, `apps/archive.go:262-345` | live folder, safety archives, `.restoring` marker | `Restore` by swap, download and swap, or in place | undoable; a folder being written over is refused a start by whoever asks; the restart is tried |
| **App lifecycle** `apps/apps.go`, `apps/config.go`, `apps/env.go` | compose files, override, `.env`, busy counter | start, stop, restart, republish, save configuration | no operation runs under another's feet |
| **Stack-up pipeline** `stackup/` | the app folder (declared folders, routes, `.env`) | `Up`: prepare, pre-hook, compose up, post-hook | order of the steps; a failing pre-hook stops the start |
| **Install** `installer/installer.go` | map of tracked installs, app folder | `StartInstall`, `Install`, `ClearInstall` | one install per project; failures visible and retryable |
| **Update** `installer/update.go` | reference of the store's compose, rollback point | `ApplyUpdate`, `rollBack` | a failed update ends on the old version with its data |
| **Uninstall, archives** `apps/uninstall.go`, `apps/archive.go` | archives | `Uninstall`, `DeleteBackup` | the last copy of the data is removed only when an archive is whole |
| **Engine set** `backup/set.go`, `server/backupengine.go` | registered engines, the writer; the server's Set and the scheduler's | `SetWriter`, `List`, `Locate`, `Delete`, the reset | dispatch on where a backup is, not on the selected engine; writes go where the configuration says |
| **Scheduler** `backup/schedule.go` | run state, `last-run.json` | `RunAll`, `Start`, `Reload`, `pruneLocal` | one run at a time; each night or a catch-up; one mail per change of health |
| **Settings** `usersettings/`, `backupconfig/` | a value and its file | `Get`, `Set` | the file holds the value last set |
| **App store** `appstore/appstore.go` | extracted catalogues, validators, index | `Refresh`, `RefreshStore`, `swapIn` | a failed fetch keeps the good catalogue |
| **Live hub** `live/hub.go`, throttle in `server/server.go` | client queues, subscriptions | `Broadcast`, `snapshot`, pumps | every client ends with the last state |
| **Reachability, gate** `apps/reach.go`, `apps/reached.go`, `server/gate.go` | first-reached flags | `Reach`, `derivePhase`, `gateStart` | phases follow the containers |
| **Pure algorithms** `overrideform/`, `envinject/`, `caddyroutes/` | none | `Build`/`Apply`, `PatchEnvFile`, `Sync` | applying an untouched form changes nothing; foreign lines survive |
| **Docker client** `dockerx/` | none of its own | start, stop, restart, remove a project, watch | partial failures |
| **HTTP API, web UI** `server/`, `web/` | none | decode, call, encode | - |

How they interact:

- The HTTP handlers call the registry, the installer and the scheduler. Long
  operations are goroutines that outlive the request and report through tracker
  maps (`backups`, `uninstalls`, `installs`), which the app list overlays.
- The scheduler calls `Registry.Backup` per app, *not* through the tracker.
  `ApplyUpdate` takes a backup, runs an install and on failure a restore.
- The registry calls one `Provider` per backup. The local one uses the mirror
  and the archive functions, kopia runs containers through `engine.Run`.
- Whatever starts an app ends in `stackup.Up`, `StartProject` or
  `RestartProject`; only `EnsureStarted` looks at the `.restoring` marker, and
  Restart, Install, updates and saves of the configuration do not pass by it.
- `enter`/`leave` count operations for the busy overlay. They exclude nobody,
  although comments call them a lock.

What is hard here: operations of several goroutines on one app with no lock
between them; two passes over a folder somebody is writing; choreography that
must undo itself on each of a dozen failure paths; a process that dies between
any two steps while the containers it started go on; contents that are listed
before an operation considers itself complete. `PROJECT.json` lists each such
hazard with its line and the properties aimed at it.

## 2. What is modelled

### `AppBackup` - the two-pass backup

A *job* is one invocation of `BackupWith`, with its engine and archive form
(`"folder"`, `"zip"`, `"kopia"`). Its program counter stands between two
blocking calls; each action is one call with one of its outcomes:

| Action | Code |
|---|---|
| `Begin` | stamp, deferred `Abort` (`backup.go:274-291`) |
| `Copied`, `CopyFails` | pass 1 (`backup.go:296`), kopia's pass-1 snapshot |
| `Checked` | `isRunning`; an error of Docker answers "no" (`backup.go:635`) |
| `StopApp`, `StopFails` | `StopProject` and the deferred restart (`backup.go:305-316`) |
| `Synced`, `SyncFails` | pass 2, or the time limit of the stopped window |
| `Zipped` | `archiveDir`, whose deferred `Close`s may fail unnoticed (`archive.go:359-366`): the zip is whole or `Part` |
| `Commit`, `CommitFails` | the engines' commits; a zip's dotted temporary may stay (`provider_local.go:119-126`) |
| `RestartApp`, `Abort`, `AbortFails` | the deferred calls, last in first out |
| `Delete` | deleting or pruning: `DeleteFolder` file by file from under the listed name (`archive.go:254-260`), `DeleteZip`, `DeleteSnaps` |
| `Crash` | Maison is killed |
| `StrayEnds` | a kopia container whose client is gone (killed with Maison, or dead by itself: `engine.go:261-295`) ends, having recorded its snapshot or not |
| `AppWrites`, `OperatorStarts`, `OperatorStops`, `OperatorSaves` | everybody else |

The folder's contents are a generation number. A pass captures a generation
when the folder did not change while it was read, and `Torn` otherwise. `Part` is
contents of one instant some of whose files are missing or cut short: a zip that
lost its end, an archive that has been deleted in part. A pass
of the local engine really is a walk over many files, and that it may be
abstracted to this is what module `Mirror` is for.

`disturbed[j]` is bookkeeping of the specification, not of the code: it is set
when the app is up, or its folder changes, while job `j`'s last pass reads.

### `BackupPromise` - what a backup promises

The contract of `apps.Provider` and of `BackupWith`'s comment, with storage
and choreography hidden, as far as the code keeps it: a stamp becomes listable in
one step, with contents the folder had between the stamp and now, or torn contents
if it was disturbed. They are all of those contents, or `Part` of them when the
backup succeeds at that moment (a zip closed badly). Afterwards what is listed never
changes but by files being taken away until it is gone. A caller is told "ok" only of
a backup that is listed, and one that failed is listed only if its engine outlived
it. `AppBackup` implements it under `listed <- Listed(j)`,
`outcome <- Outcome(j)`, `outlived <- stray[j] # "none"`.

### `Mirror` - the local engine's copy

`mirror` file by file: the measuring walk, the copying walk (with `Info`, open,
copy and rename as separate steps), and `prune`, for the pass on the running
app and the pass on the stopped one. `<name>.partial` names are modelled
because `copyFile` and `prune` give them a meaning. Sub-folders are flattened.
A file's contents and modification time change together; a write that
preserves size and time is what the comment of `upToDate` gives up on, and is
left out.

### `AppRestore` - the three restore paths

`Registry.Restore`: locating the engine, stopping, choosing the path, the
download, the safety archive, the swap (rename or zip), the undo snapshot, its
commit, the marker, the overwrite in two steps, the deferred restart.
Archives, snapshots and the live folder hold a state number, `Cut` (a folder
being overwritten) or `Part` (half a zip, half a download, or a copy of a `Cut`
folder). Backups are taken in one step here; archives are deleted at any moment.
Of the ways of starting an app, Start and Republish go through `EnsureStarted`,
which looks at the marker (`OperatorAsks`) and then runs an up that does not look
again (`OperatorStarts`). Restart (`OperatorRestarts`), and what writes the app's
configuration and then brings it up (`OperatorSaves`: `SetConfig`, `SetWebUI`,
`SetEnv`, `Install`, `ApplyUpdate`), look at no marker.

Two remarks on what reaches this code. `StartRestore` (`backup.go:161`) accepts
only names on disk, so through the HTTP API a restore takes the swap path;
the other two paths are reached by callers of `Registry.Restore`, as the update's
rollback is. And the app's containers are a single flag here, as
`isRunning` sees them; `AppBackup` has them one by one.

### `AppTasks` - the tracked operations on one app

Installs, uninstalls and backups each run in a goroutine of their own and are
shown by an entry in a map, one per kind and app. A *task* is one request; its
program counter walks through the stages of `Install` (restore an archive,
write the files, prepare, bring up) or `Uninstall` (remove the containers, look
for the folder, rename it, or compress and delete it). Each stage may fail, and
a kill leaves what a failing stage can leave (`PartlyRestored`, `PartlyWritten`,
`PartlyDeleted`, half a zip).

| Action | Code |
|---|---|
| `RequestInstall`, `RequestUninstall`, `RequestBackup` | `StartInstall`, `handleUninstallApp` with `StartUninstall`, `StartBackup` |
| `Dismiss` | `handleDismissApp`, which clears the three entries whatever is behind them |
| `Report`, `Advance`, `End` | the goroutines' progress callbacks and their ends |
| `Restore`, `Write`, `Prepare`, `BringUp` | `Install` |
| `Remove`, `Look`, `Rename`, `Zip`, `Delete` | `Uninstall` |
| `Backup` | `Registry.Backup`, in one step |

The data of the app is a number that grows with every write and with every
folder made from nothing. A zip may lack its end without anybody being told
(`archiveDir`), in `Zip` as in `Backup`. `dropped[k]` and `risks` are bookkeeping
of the specification: an entry was cleared while a task was behind it; the app
wrote its folder while a task compressed or removed it, or a zip lost its last
bytes. `StartRestore`, which shares
the backups' tracker, is left to `AppRestore`. A restored archive may lack
`docker-compose.yml`, which over-approximates what an archive contains.

### `Scheduler` - the nightly backups

`backup/schedule.go`: the loop of `Start`, the flag under which `RunAll` works,
the record of the last run, the mail to the operator, and
`handlePutBackupConfig`, which edits the schedule under the loop's feet.

| Action | Code |
|---|---|
| `Plan`, `Arm`, `TakeReload`, `Fire` | the loop: read the configuration, set the timer (`untilNext`, jitter, `missedARun`), be woken by a token or by the timer |
| `Ask`, `Claim` | `handleRunBackup`, and the flag: a run in progress turns the next one away |
| `Target`, `ReadLast`, `Clear`, `WriteLast`, `Mail` | the rest of `RunAll` with `record`, `writeLastRun`, `notifyOutcome` |
| `Store`, `Reload` | an edit is stored, then a token put in a channel of capacity one |
| `PowerOff`, `Boot` | the box is switched off, or Maison killed, at any moment |
| `Tick` | an hour passes, when nothing that takes no time is left to do |

Time is the hour of the day, what is left on the timer, and the age of the
record up to where it counts as old; so the state space is finite without a
bound on the nights. Two flags are the specification's own: `steady` (only a
timer or a run has moved the loop since this night's hour) and `excused` (a
record or a mail failed, or two runs ended at once).

### `AppUpdate` - an update and its rollback

`ApplyUpdate` and `rollBack` as `server.go:123-129` wires them: the rollback
point is a local backup, the rollback a restore of it by a swap. A compose is
the version it was published as; the app's data is the newest version that has
run on it, since a version that runs takes the data over and an older one may
not understand it afterwards. A *call* is one request, with what it has read:
the compose it found (`current`), the store's (`offered`), the rollback point
(`point`, `res.Backup` in the code).

| Action | Code |
|---|---|
| `Open`, `Fetch` | the compose on disk, `storeCompose`, "already up to date" (`update.go:84-104`) |
| `StopForCopy`, `Copy`, `Rerun` | the rollback point: stop, copy, deferred restart (`update.go:112-125`, `backup.go:303-364`); any failure is a warning and the update goes on |
| `Write`, `Up` | `WriteFile`, which truncates first, and `stackup.Up` (`update.go:127-143`) |
| `Locate`, `Halt`, `Aside`, `Swap`, `Restart` | `Registry.Restore` of the rollback point (`backup.go:433-527`) |
| `Publish`, `OthersStart`, `OthersStop`, `Delete`, `Kill` | the store, operators, pruning, and the process being killed |

An up that fails may have done nothing, have left the new containers down, or
have run some of them, on the data (`UpFails`). `ran` and `overlapped` are
bookkeeping of the specification. The backup's copy and the restore of an
archive are one step each (`AppBackup` and `AppRestore` have theirs); operators
do not restore archives during an update, and versions only grow.

### `Engines` - where a backup is, retention and pruning

The set that dispatches to the two engines (`backup/set.go`), kopia's
repository, and `pruneLocal`. A backup is its stamp. The repository is a
set of snapshots, each of a first or a second pass and of the time when it was
made, which need not be in the order of the stamps; `Snapshot` applies
retention as kopia does when one is made. `pruneLocal` goes through its list
from the newest stamp on (`Surplus`, `NextToPrune`). Backups, a deletion and a restore are
under way at the same time, each step by step; kopia may fail to answer any
call.

| Action | Code |
|---|---|
| `Begin`, `LocalBackup`, `Pass`, `CommitKopia`, `Abort` | a backup with either engine |
| `Prune`, `Remove` | `pruneLocal` lists, asks `heldElsewhere`, and deletes |
| `DeleteLocal`, `DeleteKopia` | `Set.Delete` |
| `Locate`, `Fetch`, `Swap`, `InPlace`, `Undone` | a restore, of which the undo snapshot also is subject to retention |
| `Restart` | Maison is killed: what was under way is gone, what it left stays |

### `Settings` - preferences, sources, domains

A request is one of the handlers that change settings, with copies of what it
has read, and stops between its calls: `ChangeSources` and `ApplySources`,
`PutDomains` then `Republish` and `WriteRoutes`, `PutSettings`,
`SetMemory` and `WriteFile` (inside `Store.Set`: under the mutex, then
after it). `OpenPage` is the dashboard, which keeps a copy and saves it whole.
`Restart` reads everything back. A republishing may miss the app, as whatever
fails in `Registry.Republish` is dropped or logged (`apps.go:589-600`): the list
of apps, the up, a start that a restore's marker refuses. `missed` says that it
has, until the app is brought up by something else (`StartApp`).

### `EngineChoice` - the engine that is backed up to

`handlePutBackupConfig` in two steps, `PutConfig` and `ApplyConfig`. There are
two Sets of engines: the server's, which the registry backs apps up with, at
night too (`Registry.Backup`), and the scheduler's, by which it backs the user's
data up and sets what is to be kept (`schedule.go:183-192`, `274-291`). They are one
Set until a choice is cleared, which builds another one for the server and the
registry only (`backupengine.go:142-145`); `Reboot` makes them one again.

### `Catalogue` - the app store

A *job* is whatever may run at once in `appstore.go`: the nightly refresh, a
change of the sources, a forced reload of one source, the check for an update,
the page of an app that needs a source. It waits for `syncMu` (`Lock`),
asks the origin (`Ask`: no answer, not modified, or a new copy), renames the
old copy away and the new one in (`Aside`, `SwapIn`, under `filesMu`), writes
the validators (`Tag`), goes to the next store or ends (`Done`), and reads what
it came for (`Read`). `Advance` is the origin publishing; `Kill` loses memory
and keeps the disk, between the two renames too. What a store holds is a
version number. The archive of a version in `Hollow` has no `Apps/` directory:
it is extracted, swapped in and tagged like any other, and only then looked into
(`appstore.go:399-406`), so that the store is left without apps. When the second
rename fails the old copy is put back, which may fail as well.

### `Live` - what the dashboard shows

The throttle in `server.go` with its leading and trailing calls (`Lead`,
`Trail`, `Fire`, `Cool`), the watcher of Docker's events (`Event`, `Watch`),
the broadcasts, which read the list and then send it (`Make`, `Send`), the
hub's clients with their bounded queues (`Subscribe`, `Snapshot`, `Answer`,
`Write`, `Unsubscribe`), and a page whose connection breaks (`Break`). The list
of apps is a version number.

### `AppFiles` with `Routes`, `OverrideForm`, `EnvFile`, `Transform`

The last four modules are the pure algorithms, as operators on records and
functions:

- `Routes`: `caddyroutes.Sync`. `Sync(base, over, doms)` drops what the last up
  generated, clones every route on the primary domain onto each additional
  one, at an index that nobody uses, and returns labels and manifest. The two
  nested loops of `generate` are stated by what they come to: the slots (a route
  and a domain) whose host nobody routes and no earlier slot has taken
  (`Vacant`), each at the index that the number of slots before it gives
  (`IndexOf`).
- `OverrideForm`: `Build` and `Apply` for one field of each kind (scalar, list,
  environment), with Compose's merge as `Effective` (external). A value the form
  cannot show is `Complex`.
- `EnvFile`: `Parse`, `Patch`, `EnsureVars` on the lines of `.env`; `Picked`
  is the lines of a file at some of its positions, in order.
- `Transform`: the rewrites of a store's compose: binds under the data root, and
  the deployment's network by reference.

`AppFiles` composes them: one app's three files, requests that rewrite them, and
`Settings` that change under them. Nothing in the code keeps these apart, so each
request reads a file in one step and writes it in another, with anything between:

| Action | Code |
|---|---|
| `FillForm`, `SaveOverride` | `SetOverrideForm`: read the two files, apply the form; validate and write |
| `OpenEditor`, `SaveOverride` | the YAML editor and `SetConfig` |
| `ReadFields`, `WriteFields` | `SetTips`, `SetWebUI` (`config.go:122-160`, `204-236`): decode, encode, write |
| `OpenEnv`, `SetEnv`, `SaveEnv` | the page of the `.env`, `SetEnv` |
| `Update` | `ApplyUpdate`'s write of the store's compose |
| `Start` | an up asked for by itself; the saves above end in one too |
| `ReadRoutes`, `WriteRoutes` | `SyncRoutes` (`routes.go:40-62`) |
| `ReadCompose`, `WriteCompose` | `Normalize`, the compose (`normalize.go:38-50`) |
| `ReadVars`, `WriteVars` | `Normalize`, the `.env` (`normalize.go:52-57`, `envinject.go`) |
| `ComposeUp` | Compose is given the files as they are by then |
| `OverrideFails`, `ComposeFails`, `EnvFails` | a write that fails or is cut short |

A file may be unreadable, or malformed because a write was cut short (`torn`); of a
`.env` that was cut short some lines are left. What fails in `SyncRoutes` and
`Normalize` is logged and the up goes on with what is on disk, as in the code. A
`.env.app` that cannot be read, or a variable left empty in it, is one that is not
there (`Loaded`), the deployment's network included (`AppNet`). `!reset` on a scalar
does not decode in `SetTips`, whose error is dropped (`Decoded`).

Bookkeeping of the specification: `stale` of a request is which of the files (and
the settings) it has not read or written, has failed at, or that others have changed
since; an up is `Undisturbed` when that is none of them as it comes to Compose.
`meant` is what the form last said where nothing else has changed it; `hand` which
labels are the operator's own: in the file before, typed, changed, or struck from
the manifest. `MaxNews` bounds the changes asked for and the failures together; an up
that is asked for while nothing else is in flight is not counted.

Reference definitions, against which the algorithms are checked: `PublishedOn`
and `NowhereElse` for routes, `Effective(base, over) = Meant` for the form,
`FollowsDeployment` for networks, the value of every variable for `.env`.

### Abstractions shared by the modules

- Stamps: two jobs take different stamps. (Two backups of one app within the
  same second share one; this is listed as a hazard.)
- Docker, disk and repository calls fail at any time when `Faults` is TRUE, also
  after having done part of their work where the code can leave part.
- A kill of Maison loses program counters and deferred calls and nothing else.
- The re-read of an archive just committed (`backupFor`) succeeds.
- The progress events, log lines and messages are left out.

## 3. Runs

| Run | Instance | Shows |
|---|---|---|
| `backup` | one job of any kind, two containers, 3 writes, 1 kill, all faults, operators; for `Mirror` three names, one of them another's `.partial`, app writes bounded by `MaxTick` (0.3 million states) | `TornOnlyWhenDisturbed`, `FailedLeavesNothing`, refinement of `BackupPromise`, `AppComesBack` and, under it, `DownGoesOn`; of the copy, exactness, soundness of `upToDate`, no failure of the stopped pass |
| `restore` | two folder names, one zip, 1 write, all faults, unlimited kills (0.9 million) | `DisplacedIsKept`, `RefusedWhileCut`, `RestartIsTried` and, under it, `RestoreGoesOn` |
| `tasks` | three requests of any kinds, 2 writes, all faults, kills, dismissals | `BarHasTask`, `OneOfAKind`, `FailureIsShown`, `DataIsKept` |
| `scheduler` | a day of 4 ticks, two hours to choose from, one run by hand, two edits at once, all faults, any number of nights (4.8 million) | `OneRun`, `EditTakesEffect`, `NoNightSkipped`, `ToldTheTruth` |
| `engines` | three stamps, no local archive kept, one snapshot asked to be kept (1.6 million) | `NewestKept`, `DeletedIsGone` |
| `settings` | two requests, a default source and one more; for `EngineChoice` three requests (0.6 million) | `WhatIsSetHolds`, `WritesWhereChosen` |
| `update` | one request, made again and again, three archives, two publications, all faults, kills (0.6 million) | `NeverOnNewerData`, `RolledBackIsOld` |
| `catalogue` | two jobs, two stores that offer the same app, one publication, which in the second store has no `Apps/` (0.3 million) | `KeepsCopy`, `CheckedIsCurrent`, `CatalogueFollowsSources`, `NothingRunsUnbounded` and, under it, `JobsGoOn` and `HoldersLetGo` |
| `live` | two workers, two trailing calls, one page with a queue of 2, two changes, one broken connection (0.3 million) | `FinalStateArrives`, `ToldShowsLast` |
| `files` | two services, two versions of a store's compose, two additional domains, two deployments (one without a network), two requests, two changes or failures (1.1 million) | `RoutesHealed`, `FormMeansWhatItSays`, `FollowsNow`, `OperatorKept` |
| `tasks_zip` (violated) | the instance of `tasks` | `NeverDeletesData`: an uninstall removes what its zip does not hold |
| `files_tags` (violated) | one request | `TweaksPreserved`: saving tips brings back what the form removed |

The runs `backup` and `settings` look at two modules each. `AppBackup` and `Mirror`
share no variable, and neither do `Settings` and `EngineChoice`; each property is
about one of the two. So it is enough to look at a step of either while the other
has not begun (`MCNext`), and the states add up where they would multiply.

Why the bounds are enough. Torn archives need two states of the folder, one
before and one during the read; three writes let both passes and the restart
see different ones. Two containers are the least that a stop can do in part.
What overlapping backups do to one another is proved for any number
(section 4), so the run has one job. In `Mirror` one file with its `.partial`
and an unrelated one cover all the relations a name can have to another. In
`AppRestore` a restore involves the archive restored and one safety archive or
undo; the third name is a zip, or a bystander that can be deleted. One kill is
enough for `AppBackup`, since nothing is resumed; in `AppRestore` kills are
unbounded. In `AppTasks` three requests let two overlap with a third before
them or after.

In `Scheduler` the day has room for both hours, the jitter and a tick besides;
two edits at once are what a channel of capacity one can merge; a run may last
any number of nights. In `Engines` retention counts at least two snapshots
(`Latest`), so three stamps make it evict. In `Settings` two requests are the
least that overlap, and one source more than the default is added or removed.
In `Catalogue` two stores with the same app make the order of the sources
matter. In `Live` a queue of two fills with two changes; a second page would
share nothing with the first but the broadcasts, which send to each on its own.
In `AppFiles` two requests and two edits let one be read, another written, and
an up follow; each of the ways to change the override can be either. Two changes or
failures are a read, and a write of another between it and the first one's; or a
write cut short under an up. In `EngineChoice` two requests overlap and a third one
comes before, between or after.
In `AppUpdate` an update may follow one that was cut short or rolled back, with
what it left; overlapping updates are let off by `NeverOnNewerData` and
`RolledBackIsOld`, and the proofs cover any number of them.

The types of `AppTasks` and `AppFiles` are among their runs' properties; those of the
other modules are only proved.

`CHECK_DEADLOCK FALSE` is set where every behaviour may end, when the bound of
writes is reached and all jobs ended. The other runs are checked for deadlock.

### Fairness

Weak fairness is assumed of what the running process does by itself once the
app has been stopped: `DownStep(j)` in `AppBackup`, `RestoreStep` in
`AppRestore`. In `AppBackup` the stopped window is bounded by
`stoppedPassTimeout` (`backup.go:330-335`), so an engine that hangs is
cancelled (`engine.Run`); the local copy and commit end with the folder. In
`AppRestore` the same time limit covers the paths after a stop. Nothing is
assumed of pass 1, operators, callers, the app, or a container that has outlived its client. No fairness is assumed of a killed process:
`AppComesBack` exempts the crash because the code does not recover from it,
and `RestartIsTried` is trivially ended by it, the deferred call being gone.

In `Catalogue` a job that waits for `syncMu` or `filesMu` gets it in the end
(strong fairness: Go's mutexes hand over to a waiter that starves), and one
that holds it works on (weak fairness), as requests are given up on when their
context ends. The instance has `Hangs = FALSE`; with a store that never answers
the nightly refresh `NothingRunsUnbounded` fails, see below. In `Live` goroutines and
timers run, and a page that is open reads what it is sent and connects again
(weak fairness of each). Changes, events, visits and broken connections owe
nothing. `Scheduler`, `Engines`, `Settings`, `EngineChoice`, `AppTasks`, `AppUpdate` and
`AppFiles` state no fairness (installs, uninstalls and backups run without a time
limit): their properties are about safety, `NoNightSkipped` included, since time cannot
pass a step that takes none.

### Where the code does something else than it says

Two runs are expected to be violated; their findings in `PROJECT.json` quote the
comments and the lines.

- `tasks_zip`: `archiveDir` drops the errors of closing the zip and its file. An
  incomplete zip is taken for whole, and an uninstall then removes the folder it was
  made of. `DataIsKept` says what is left when that is allowed for.
- `files_tags`: `SetWebUI` and `SetTips` decode the override into Go maps and lose
  `!override` and `!reset`, by which the form had removed the store's ports and
  variables.

The modules state more properties that the code does not have. Of some a
configuration beside the runs shows the behaviour (`tlc -config <cfg> <module>`):

| Configuration | Module | Property | What happens |
|---|---|---|---|
| `AppBackupZip` | `AppBackup` | `OfferedIsWhole` | the same `Close` errors in a backup: a zip without its end is renamed and offered, where `provider_local.go:99-101` says that a zip is renamed only once whole |
| `MCAppRestoreHalf` | `MCAppRestore` | `NotStartedCut` | only `EnsureStarted` looks at the marker of an in-place restore: Restart, an install, an update or a save of the configuration brings the app up on a folder that is half written, where `backup.go:563-565` says it must not come back up on one; `RefusedWhileCut` is what the marker does achieve |
| `EngineChoiceSplit` | `EngineChoice` | `UserDataWhereChosen` | clearing the chosen engine and choosing again leaves the scheduler with the Set it was made with, by which it backs up the user's data; the nightly backups of apps go through `Registry.Backup` and follow the choice (`WritesWhereChosen`) |
| `MCCatalogueHollow` | `MCCatalogue` | `CopyStaysUsable` | a downloaded zip without `Apps/` replaces the good copy before it is looked into (`appstore.go:399-406`), where `appstore.go:327-329` says that a box keeps a usable catalogue; `KeepsCopy` says that there is a copy, not what is in it |
| `MCAppFilesLost` | `MCAppFiles` | `FormsUntouched` | an up that had read the override before a form was saved writes it back without the change (`routes.go:40-59`); `FormMeansWhatItSays` and `OperatorKept` let off exactly such a request (`stale`) |
| `MCSchedulerMail` | `MCScheduler` | `MailHoldsNothingUp` | the loop sends its mail itself, over a connection without a time-out (`notify.go:82-93`): a mail server that says nothing stops every later night |
| `MCCatalogueHangs` | `MCCatalogue` | `NothingRunsUnbounded` | with `Hangs = TRUE`: the nightly refresh runs on a context that never ends and holds `syncMu`, so a store that hangs blocks every later sync |

For others the property is put into the configuration of the module's run (for the
first one with two jobs of kind `"folder"` and a single write):

| Module | Property | What happens |
|---|---|---|
| `AppBackup` | `CommittedIsPointInTime` | the second of two overlapping backups finds the app already down and does not keep it down; the first one's restart starts it under the second one's last pass, and the torn archive is committed |
| `AppBackup` | `EndedTriedRestart` | the restart is deferred only after `StopProject` succeeded: a partial stop leaves the app down |
| `Mirror` | `ExactCopy` | `prune` strips `.partial` of every name: a file called `X.partial` is lost |
| `AppRestore` | `NotStartedIncomplete` | `extractZip` writes to the live folder and leaves no marker: half an app is started |
| `AppRestore` | `RestoredCanStart` | only a successful `restoreInPlace` clears the marker: an app restored by a swap is refused its start |
| `AppTasks` | `RetryStarts` | `StartInstall` attaches to any entry, a failed one included |
| `Scheduler` | `CaughtUp` | a run counts as missed after 25 hours (`missedARun`): a box that was off at the hour and returns within that waits for the next night, where `docs/backup.md` says it backs up when it returns |
| `Settings` | `SourcesPersist` | the dashboard saves a copy of the whole settings, sources included, as they were when it was opened (`web/src/lib/stores/settings.ts:37-56`): a source added meanwhile is gone at the next start, although `store.go:134-135` says it was persisted |
| `AppUpdate` | `RolledBackRuns` | whether the app runs is asked when the new version has failed (`backup.go:453`): one whose new containers are all down is put back and left down, where `docs/lifecycle.md:158` says it is running the old version |

Also stated in the modules, and not true of the code:

- `Engines!ServesWhole`: a download that was cut is listed as a local archive,
  and `Locate` prefers it to the whole one in the repository.
- `NewestKept` with `LetOff = FALSE` and `KeepLocal = 1`: `pruneLocal` orders
  archives by their stamps. A download of an undo snapshot, which has a later
  stamp than a backup under way, counts as newer although it may be cut short,
  and the nightly archive that has just been reported as made is pruned for it.
- `Engines!UndoSparesTarget`: the undo snapshot of an in-place restore may make
  retention evict the snapshot that is to be restored.
- The same property, in the repository: what first passes and failed commits leave
  is counted by retention, and nothing sweeps it, though a comment in
  `kopia.go:487` says so.
- `Live!FinalStateShown`, `SeenUnwatched`: a message dropped on a full queue, or
  one overtaken by an older broadcast, is not sent again; and the stream of
  Docker's events is not watched again after it breaks.
- `AppUpdate!NeverOnNewerDataAtAll` (with two calls): nothing keeps two updates
  of an app apart; the slower one writes the compose it fetched earlier over a
  newer one, and the older version runs on the newer one's data.
- `AppUpdate!UpToDateIsUp`: when an update is cut between writing the compose and
  bringing it up, or has no rollback point and fails there, the next one finds
  nothing to do, and the app was never brought up from what it has. A compose
  that could be written only in part is not rolled back.
- `Catalogue!ReloadDownloads`: `RefreshStore` drops the validators before it has
  the lock, and a sync under way writes them back.

Met while reading, and modelled as they are: a reload, or a restart, within the
jitter window computes the next window and skips the night; a record that
cannot be written makes the loop catch up every minute; a last source that is
removed is back after a restart, as an empty list means the default; a kill between
`swapIn`'s renames leaves a store without a copy; routes typed by hand on a
configured domain are taken for generated ones and dropped, and generated ones
whose manifest was edited away stay when their domain goes; a line
`export FOO=1` in `.env` keeps every variable of the deployment from being
brought up to date; a variable named without a value in the override comes back
with an empty one when the form is saved; a variable removed from `.env.app`
stays in `.env`.

## 4. Proofs

All proofs are checked by TLAPS from the named assumptions of the modules
(`BackupAssumption`, `MirrorAssumption`, `TasksAssumption`,
`RestoreAssumption`, `SettingsAssumption`, `SchedulerAssumption`,
`UpdateAssumption`, `CatalogueAssumption`, `EnginesAssumption`,
`LiveAssumption`): the sets of
jobs, containers, names, requests, sources, stores and hours are arbitrary, and
the values that stand for something else (`None`, `Torn`, `Cut`, `Part`,
`NoStore`) are different from one another and from the numbers, jobs or stores
they stand beside. The proofs about `Mirror` are in `AppBackup`'s module, whose
passes it has in detail, those about `Engines` in that of `Scheduler`, which
calls its pruning, and those about `Live` in that of `Settings`, both of which
are about pages.

**`AppBackup_proofs`.** `TypeCorrect`: `Spec => []TypeOK`. `TornTheorem`:
`Spec => []TornOnlyWhenDisturbed`. The property is not inductive, since it says
nothing before a backup is listed. The invariant `IInv` adds

- `Quiet`: while the last pass of an undisturbed job reads, the app is down and
  the folder still is what it was when the pass began; a container that reads on
  without its client is such a reader;
- `StagedWhole`, `ZippedWhole`: what an undisturbed last pass staged, and the zip made
  of it, are not torn;
- `ListedWhole`: nor is what is listed of it.

That files may be missing (`Part`) is allowed throughout, by a zip closed badly, a
deletion file by file, an `Abort` that fails: that nothing is missing is
`OfferedIsWhole`, and false. They are proved per job (`Whole(j)`), in two kinds of
steps: a job's own step
changes only its own part (`OthersWhole`), and steps that change the app mark
every reading job disturbed (`DisturbWhole`).

`LeavesNothingTheorem`: `Spec => []FailedLeavesNothing`, from `Clean(j)`: each
engine stores in its own place only, an archive belongs to a committed job, and
a committed job can no longer fail. So `Abort` has only its own engine's store
to empty, and what it empties stays empty, unless a container has outlived its
client and records its snapshot afterwards.

`Refinement`: `Spec => KeepsPromise`. The mapping needs a `History` invariant:
stamps and the start of the last pass are past generations, every store holds
nothing, torn contents, a part or a generation since the stamp, and nothing is listed
of a job that has not reached its commit, except kopia's pass-2 snapshot. Each
step is shown to satisfy the promise's step for its own job (`Own`) and to leave
that of every other job unchanged (`Kept`).

Of `Mirror`, in the same module: `CopyTypeCorrect`; `UpToDateSound`: a staged copy that
`upToDate` accepts has the file's data, because `Info` is taken before the data
is read, so a file rewritten meanwhile carries an older time; `MirrorExact`:
when the stopped pass ends the staging folder is exact on every name that is
not another's `.partial`; `StoppedPass`: the stopped pass cannot fail on a
vanished name. The invariant follows the second pass through its walks: what is
behind the walk is exact, what is ahead is stale or exact.

**`AppTasks_proofs`.** `BarTheorem`, `OneTheorem`, `FailureTheorem` and
`TypeCorrect`. A step of a task either reports or ends (`TaskEffect`), a
request attaches or starts (`Asks`); with the clearing steps these are all the
ways the trackers change. The invariant is `Alone`: unless its entry was
cleared, the task behind an entry is alone and the entry says "running".

`DataTheorem`: `Spec => []DataIsKept`. Only an uninstall takes the folder away,
and by `Alone` no other one is at work. So the folder it compresses does not
move (`Still`), what it deletes is archived (`Archived`), and no archive is
written over another (`Fresh`). The three excuses in the property (a dismissed
uninstall, an app that writes under one, a zip that lost its end unnoticed) are
needed: TLC finds the loss without any one of them, without the last in `tasks_zip`.

**`AppRestore_proofs`.** `TypeTheorem`. `KeptTheorem`:
`Spec => []DisplacedIsKept`. The property alone does not say why the swap may
consume the archive it restores; the invariant `Kept` does: what was displaced
is held under a *name other than the one being restored* until the swap is
over, and before an in-place overwrite a copy of the folder as it is has been
made. `CutTheorem`: `Spec => []RefusedWhileCut`, from `Marked`: a folder
begun to be overwritten is marked, nothing but a finished overwrite clears the
marker, and no archive holds such a folder (a copy of it is `Part`).

**`Scheduler_proofs`.** `TypeCorrect`, whose invariant includes that the loop
is inside a run exactly while the schedule's run is under way; `OneRunTheorem`
(`Flagged`: who works, works under the flag); `EditTheorem` (`Heard`: a loop
that waits by an older configuration has a token, or an edit that will put one);
`NightTheorem` (`InTime`: what is left on the timer and the hours since this
night's add up to no more than the jitter); `ToldTheorem` (`Tells`: unless
excused one run at a time is past its targets, it has read the record that it
replaces, and the operator was told of that one).

Of `Engines`, in the same module: `EnginesTypeTheorem`; `NewestTheorem`:
`EnginesSpec => []NewestKept` where the losses that `LetOff` names are let off;
`DeletedTheorem`: `EnginesSpec => DeletedIsGone`. The first rests on `Spared`:
the newest backup is either the whole snapshot *made* last (`Remote`), which
retention of two or more cannot evict (`LastTwoStay`: the snapshot just made
and the last one before it stay, whatever is kept), or an archive that the
pruning under way is not about to remove (`OnDisk`). `NotYet` keeps apart what
an `Abort` will drop from what counts as newest. `OffDisk` carries a deletion
over the step between its two engines: nothing that works on the stamp puts it
back. Any number of local archives may be kept, none included.

**`Catalogue_proofs`.** `TypeCorrect` (which includes that `syncMu` and
`filesMu` are held by exactly who is at work), `CopyTheorem`
(`Spec => []KeepsCopy`, whatever is in the copy), `CheckTheorem`
(`Spec => []CheckedIsCurrent`) and `SourcesTheorem`
(`Spec => []CatalogueFollowsSources`). `Copies` counts a copy
put aside as the copy; `Safe` says what was extracted is there or put aside, and
`Honest` that the validators never claim more than the copy, so "not modified"
is never an answer about an older one (`Asked`). Most of the proof is that a
failed download or rename, and the writing of the validators, keep it so.
`Follows`: what is merged, or will be, is what is listed now, or somebody
waits who will read the list anew.

**`Settings_proofs`.** `TypeCorrect` and `SettingsTheorem`
(`Spec => []WhatIsSetHolds`), for any number of requests in flight. It rests on
`Sharp`: unless requests have overlapped or failed, at most one is in
flight, and `Halfway` says for each of its stages which of memory, file,
sources and published domain (or a republishing that missed it) it has brought up
to date. Of `EngineChoice`, in the same module: `WriterTheorem`:
`EngineSpec => []WritesWhereChosen`, for any number of requests, clearings and kills.
It rests on `Chosen`: while a choice is stored and not applied, it is the only one and
the stored one.

Of `Live`, in the same module: `LiveTypeTheorem`, and `ToldShowsTheorem`:
`LiveSpec => []ToldShowsLast`, the safety that `FinalStateArrives` rests on: when
nobody is left to tell, every page that has read its queue shows the last state.
The invariant `Told` follows the last change: as long as a page does not have it,
it is with somebody who will read the list anew, a broadcast or snapshot that has
just read it, or the page's queue, or the page is let off. That a broadcast
which ends takes no other worker's call with it needs `Led`. It assumes that
workers, timers and the watcher are different callers.

**`AppFiles_proofs`.** `RoundTrip`: for every compose and override, when the
form has been saved, Compose's merge of the two files is what the form said:
for scalars, lists and the environment, added, changed and taken away. This is
the correctness of `Apply` against the reference `Effective`, for lists and
maps of any size.

The requests of `AppFiles` read in one step and write in another. The three
invariants of this module therefore all speak of what a request *holds*: of what it
is to write (`Bearing`, `Holds`, `Page`), provided the files it was read from are not
among its `stale` ones. Another request's step either leaves those files or makes
them stale (`Told`), so each write comes to be what it was computed to be, or is let
off.

`FormTheorem`: `Spec => []FormMeansWhatItSays`. What a form's request holds comes to
what it meant (`Bearing`), and the routes that an up holds have the fields of the
override as it is, if that has not changed since. It assumes `Inputs`, the shape of
what comes from outside: the variables of a store's compose have values, overrides and
what is typed have lists where lists belong, and a form returns the fields it could
not edit as they were.

`RoutesTheorem`: `Spec => []RoutesHealed`. Under it are what the operators do, for
files of any size: where generated labels go (`NextIs`, `IndexIs`: above every
index of the two files and apart from one another), that every slot is filled or
its host routed already (`GenerateIs`, `SlotIs`), that what is dropped is on no
domain any more (`DropIs`), and so that each route is published on each domain
(`PublishedIs`, `SyncHeals`). The invariant `RoutesInv` carries `Healed` from what
`ReadRoutes` holds through `WriteRoutes` to the up, as long as the compose, the
override and the settings are not stale for it, and that labels outside the manifest
are the operator's (`ByHand`). It assumes `RouteInputs`: the
routes of a store's service have hosts of their own, files have finitely many
labels and what the operator types is a file of labels, and no two domains of a
list have the same suffix (the code does not check this; of two such domains the
second one's directives are used nowhere).

`FollowsTheorem`: `Spec => []FollowsNow`, `FilesTypeTheorem`: `Spec => []TypeOK`
and `KeptTheorem`: `Spec => OperatorKept`, from `DeployInv` (`FollowsStore` and
`FollowsVars` of what a request holds, then of the files) and from `Keeps` in
`RoutesInv`. Under them are `ParseIs`, `PatchIs` and
`EnsureIs`: for a file of any length, what `PatchEnvFile` and `EnsureVars` write
has the variables asked for, at their values, and every other variable as it was.
`Derived` says that the compose is always one of the store's with networks beside
its own, from which `WrittenFollows` shows that the next up detaches the old ones.
They assume `DeployInputs`: no store's compose declares a network under the
deployment's name with the signature of one that an older version attached, the
variables of `.env.app` are distinct identifiers, and the operator's variable is
in `.env` and not one of them. `KeptTheorem` assumes also that the operator's
"elsewhere" is not a domain of the settings, as otherwise his routes there count
as generated.

The induction that the loops over positions need is not the library's (its
theorems take an operator) but a least counterexample: the order on the naturals
is well founded (`NatLessThanWellFounded`, `WFMin`), and the least position at
which a claim fails is looked at.

**`AppUpdate_proofs`.** `TypeCorrect`; `NewerDataTheorem`:
`Spec => []NeverOnNewerData`; `RolledBackTheorem`: `Spec => RolledBackIsOld`.
No version runs on newer data because the data is never newer than the compose
beside it, nor than what the containers were made from (`Sound`); a compose cut
short lies on data older than what the store offers, so whatever is written
over it is no older. The invariant also says of the update at work (`Kept`) what
the folder is at each of its stages, and that its rollback point, until it is
deleted, holds the compose it found on data older than what it tries. `Alone`:
unless updates have overlapped, one is at work.

**Liveness.** The prover cannot look into `ENABLED`, but it reasons about `WF_` and
`SF_` once it is told where the steps they speak of are possible. So three of the
five liveness properties are theorems under an invariant that says that nothing
blocks; the runs check it, and it is about one state at a time. What is proved is
the rest: that fairness then leads there, step by step, through every path that a
failure can take and whatever others do meanwhile.

- `ComesBackTheorem`: `Spec /\ []DownGoesOn => AppComesBack`. The stages between
  the stop and the restart are ranked (`OwingTheorem`: a backup owes a restart just
  at these). Its own steps only go on, of the others only a kill touches it
  (`OwingMoves`), so weak fairness takes it through each (`StageLeft`).
- `TriedTheorem`: `Spec /\ []RestoreGoesOn => RestartIsTried`. The same through
  the stages of the three paths (`OwesTheorem`); `WithinMore` puts one after the other.
- `EndsTheorem`: `Spec /\ []JobsGoOn /\ []HoldersLetGo => NothingRunsUnbounded`. A
  job that waits finds the lock free again and again (`FreeAgain`), as each holder
  lets go; strong fairness then lets it in (`GetsIn`). A reload waits twice, a fetch
  reads after it has let go; the stages are ranked by that (`StageMoves`).
  `SourceTheorem`, from `JobsGoOn` alone, is what `HoldersLetGo` rests on: a holder
  with n sources left comes to have fewer, or has let go.

The hypotheses hold in every instance that is run, and are not assumptions about the
environment: `DownGoesOn`, `RestoreGoesOn` and `JobsGoOn` say of the modules' own
steps that one is possible. With `Hangs = TRUE` a nightly refresh may have none, and
then `JobsGoOn` does not hold and neither does what it would give.

Only model-checked: these three invariants (`ENABLED` is beyond the prover);
`HoldersLetGo`, which follows from `SourceTheorem` by counting the sources left down,
an induction whose claim is temporal; and `FinalStateArrives`, for which the changes
still queued and the messages still to be written would have to be counted in the
same way. Every other property of a passing run is stated by a theorem.

What the proofs changed. `RoutesHealed` used to ask that each route be published
on each domain, always. The attempt to prove it showed why that is not so, and TLC
found the behaviour with three edits (the run has two): the operator strikes
labels from the manifest, which makes them his; the domains change; the store's
next compose declares a route at the same index, and Compose's merge lets the
override's stale host win. The property now lets off a route that the override
has taken over, and says what generation itself answers for: it writes over no
label of the store's. `NewestKept` did not let off the downloads that take an
archive's place with `KeepLocal > 0`, since the run keeps none; the proof, which
covers every number, does not go through without (`Overtaken`).

## 5. Plan

Done: every module of section 2. Next, in this order:

1. Backups of user data: a second source that shares the engines.
2. The start gate: a start that is asked for while the app's address is probed.
3. Liveness of installs and uninstalls, once their calls have a time limit in the
   code: today a bar may run for ever.

### Not modelled

- User-data backups and the size estimates before a backup or a restore: the
  former follow the app backup without the stop, the latter are arithmetic on
  what the disk reports.
- Reachability and the start gate: phases derived from one read of Docker and
  one probe, with no state but a marker written once.
- The busy counter (`enter`/`leave`): it excludes nobody and only dims a tile.
- Metadata readers, templates in `.env.app`, rendering in the browser, process
  start-up and configuration from the environment: no state, or only text.
- Owners and modes of folders, and what hooks do: a step that may fail.
