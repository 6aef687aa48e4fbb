------------------------------- MODULE Engines -------------------------------
(***************************************************************************)
(* The backup engines of a box: the set that dispatches to them             *)
(* (internal/backup/set.go), kopia's repository with its retention          *)
(* (internal/backup/kopia/kopia.go), and the pruning of local archives by   *)
(* the scheduler (pruneLocal).  Which engine writes, and which one the       *)
(* scheduler sets retention on, is module Settings' subject: here, any.     *)
(*                                                                          *)
(* There is one app, and a backup is its stamp, a number; whether what it   *)
(* holds is consistent is module AppBackup's subject.  The retention tiers  *)
(* other than keep-latest are zero, as an operator may set them: the others *)
(* keep at most one more snapshot of each earlier day.  Kopia may fail to   *)
(* answer any call.                                                         *)
(***************************************************************************)
EXTENDS Integers, FiniteSets

CONSTANTS
  MaxStamp,   \* bound on the stamps taken
  KeepLocal,  \* local archives a scheduled backup leaves
  KeepLatest, \* the operator's Keep.Latest
  LetOff      \* TRUE to let off the losses of snapshots the code does not prevent

ASSUME EnginesAssumption ==
  /\ MaxStamp \in Nat \ {0} /\ KeepLocal \in Nat /\ KeepLatest \in Nat \ {0}
  /\ LetOff \in BOOLEAN

Stamps == 1..MaxStamp
Engine == {"local", "kopia"}

VARIABLES
  local,   \* local[s]: the archive on disk: "no", "whole" or "cut"
  snaps,   \* the repository's snapshots
  made,    \* snapshots ever made there: their times of creation
  policy,  \* retention has been set there
  taken,   \* stamps taken
  bak,     \* the backup under way
  del,     \* the deletion under way
  res,     \* the restore under way
  newest   \* the last backup: reported as made, or whole since; 0 if it may go

enginesVars == <<local, snaps, made, policy, taken, bak, del, res, newest>>
repository == <<snaps, made>>
store == <<local, repository, policy>>

NoBackup == [pc |-> "idle", stamp |-> 0, nightly |-> FALSE, todo |-> {}]
NoDelete == [stamp |-> 0, alone |-> TRUE]
NoRestore == [stamp |-> 0, fetched |-> FALSE]

EnginesInit ==
  /\ local = [s \in Stamps |-> "no"]
  /\ snaps = {} /\ made = 0 /\ policy = FALSE
  /\ taken = 0
  /\ bak = NoBackup /\ del = NoDelete /\ res = NoRestore
  /\ newest = 0

-----------------------------------------------------------------------------
(* The repository *)

\* What of a stamp is listed: not a first pass.
Held(s) == \E e \in snaps : e.stamp = s /\ e.pass = 2

Archives == {s \in Stamps : local[s] # "no"}

\* Mutant of Latest: what the operator has set.
LatestPlain == KeepLatest

\* EnsureRetention: at least two, the two passes of a backup.
Latest == IF KeepLatest < 2 THEN 2 ELSE KeepLatest

\* Creating a snapshot applies the retention of its source: the latest ones stay.
Snapshot(s, pass) ==
  LET all == snaps \cup {[at |-> made + 1, stamp |-> s, pass |-> pass]}
      Later(e) == {f \in all : f.at > e.at}
  IN /\ snaps' = IF policy THEN {e \in all : Cardinality(Later(e)) < Latest} ELSE all
     /\ made' = made + 1

\* Mutant of Drop: only what a backup that failed left.
DropFirst(s) == snaps' = {e \in snaps : e.stamp = s => e.pass = 2}

\* AbortSource: every snapshot of the stamp.
Drop(s) == snaps' = {e \in snaps : e.stamp # s}

\* The whole snapshot made last.
LastWhole(e) == e.pass = 2 /\ \A f \in snaps : f.pass = 2 => f.at <= e.at

\* A first pass nobody will remove any more, which takes a place in the retention.
Leftover == LetOff /\ \E e \in snaps : e.pass = 1 /\ e.stamp # bak.stamp

-----------------------------------------------------------------------------
(* Backups, by hand and by the scheduler *)

\* backupOne sets the retention through the scheduler's own set, then the registry
\* makes the backup with the writer of its set.
Begin ==
  /\ bak = NoBackup /\ taken < MaxStamp
  /\ taken' = taken + 1
  /\ \E nightly \in BOOLEAN, writer, sched \in Engine :
       /\ bak' = [pc |-> IF writer = "local" THEN "local" ELSE "first",
                  stamp |-> taken + 1, nightly |-> nightly, todo |-> {}]
       /\ policy' \in {policy, policy \/ (nightly /\ sched = "kopia")}
  /\ UNCHANGED <<local, repository, del, res, newest>>

\* What pruneLocal does not keep.
Surplus(archives) == {a \in archives : Cardinality({b \in archives : b > a}) >= KeepLocal}

\* The backup is made: the scheduler lists the archives to prune, the newest kept.
Made(archives) ==
  bak' = IF bak.nightly THEN [bak EXCEPT !.pc = "prune", !.todo = Surplus(archives)]
                        ELSE NoBackup

\* Archives of later stamps, downloaded meanwhile, take the places of those to be kept.
Overtaken ==
  LetOff /\ KeepLocal > 0 /\ bak.nightly /\ bak.stamp \in Surplus(Archives \cup {bak.stamp})

\* The local engine, whose passes and commit are module AppBackup's, or its failure.
LocalBackup ==
  /\ bak.pc = "local"
  /\ \/ /\ local' = [local EXCEPT ![bak.stamp] = "whole"]
        /\ newest' = IF Overtaken THEN 0 ELSE bak.stamp
        /\ Made(Archives \cup {bak.stamp})
     \/ bak' = NoBackup /\ UNCHANGED <<local, newest>>
  /\ UNCHANGED <<repository, policy, taken, del, res>>

\* A pass of kopia.
Pass(k, stage, then) ==
  /\ bak.pc = stage
  /\ \/ /\ Snapshot(bak.stamp, k)
        /\ bak' = [bak EXCEPT !.pc = then]
        /\ newest' = IF Leftover THEN 0 ELSE IF k = 2 /\ newest # 0 THEN bak.stamp ELSE newest
     \/ bak' = [bak EXCEPT !.pc = "abort"] /\ UNCHANGED <<repository, newest>>
  /\ UNCHANGED <<local, policy, taken, del, res>>

\* CommitSource drops the first pass, or is content with trying.  If it fails, the
\* snapshot it was about is dropped by Abort, though others made room for it.
CommitKopia ==
  /\ bak.pc = "commit"
  /\ \/ /\ Held(bak.stamp)
        /\ \/ snaps' = {e \in snaps : e.stamp = bak.stamp => e.pass = 2}
           \/ UNCHANGED snaps
        /\ \E e \in snaps : LastWhole(e) /\ newest' = e.stamp
        /\ Made(Archives)
     \/ /\ bak' = [bak EXCEPT !.pc = "abort"]
        /\ newest' = IF LetOff THEN 0 ELSE newest
        /\ UNCHANGED snaps
  /\ UNCHANGED <<local, made, policy, taken, del, res>>

Abort ==
  /\ bak.pc = "abort"
  /\ Drop(bak.stamp) \/ UNCHANGED snaps
  /\ bak' = NoBackup
  /\ UNCHANGED <<local, made, policy, taken, del, res, newest>>

\* Mutant of MayPrune: the floor is forgotten.
MayPruneAlways(s) == BOOLEAN

\* With nothing to be kept on disk, only what another engine has just listed.
MayPrune(s) == IF KeepLocal > 0 THEN {TRUE} ELSE {FALSE, Held(s)}

\* The next archive of pruneLocal's list.
NextToPrune(s) == s \in bak.todo /\ \A t \in bak.todo : t <= s

\* pruneLocal, one archive of its list after the other.
Prune ==
  /\ bak.pc = "prune"
  /\ \/ bak.todo = {} /\ bak' = NoBackup
     \/ \E s \in bak.todo : \E may \in MayPrune(s) :
          /\ NextToPrune(s)
          /\ bak' = IF may THEN [bak EXCEPT !.pc = "remove"] ELSE [bak EXCEPT !.todo = @ \ {s}]
  /\ UNCHANGED <<store, taken, del, res, newest>>

Remove ==
  /\ bak.pc = "remove"
  /\ \E s \in bak.todo :
       /\ NextToPrune(s)
       /\ local' = [local EXCEPT ![s] = "no"]
       /\ bak' = [bak EXCEPT !.pc = "prune", !.todo = @ \ {s}]
  /\ UNCHANGED <<repository, policy, taken, del, res, newest>>

BackupStep ==
  \/ Begin \/ LocalBackup \/ Pass(1, "first", "second") \/ Pass(2, "second", "commit")
  \/ CommitKopia \/ Abort \/ Prune \/ Remove

-----------------------------------------------------------------------------
(* Deleting a backup, from every engine that holds it *)

\* A user takes it away: what is reported as made no longer has to be there.
Undone(s) == newest' = IF s = newest THEN 0 ELSE newest

\* The local engine's turn.
DeleteLocal ==
  /\ del = NoDelete
  /\ \E s \in 1..taken :
       /\ local' = [local EXCEPT ![s] = "no"]
       /\ del' = [stamp |-> s, alone |-> s \notin {res.stamp, bak.stamp}]
       /\ IF local[s] # "no" THEN Undone(s) ELSE UNCHANGED newest
  /\ UNCHANGED <<repository, policy, taken, bak, res>>

\* Kopia's turn: an engine that cannot be listed is passed over.
DeleteKopia(answers) ==
  /\ del # NoDelete
  /\ IF answers /\ Held(del.stamp)
       THEN Drop(del.stamp) /\ Undone(del.stamp)
       ELSE UNCHANGED <<snaps, newest>>
  /\ del' = NoDelete
  /\ UNCHANGED <<local, made, policy, taken, bak, res>>

-----------------------------------------------------------------------------
(* Restoring: located where it is, fetched, swapped in or written in place *)

\* From the disk if it is there; Materialize writes to the archive's final name.
Locate ==
  /\ res = NoRestore
  /\ \E s \in 1..taken :
       /\ \/ /\ local[s] # "no"
             /\ res' = [stamp |-> s, fetched |-> TRUE]
             /\ UNCHANGED local
          \/ /\ local[s] = "no" /\ Held(s)
             /\ res' = [stamp |-> s, fetched |-> FALSE]
             /\ local' = [local EXCEPT ![s] = "cut"]
       /\ del' = IF del.stamp = s THEN [del EXCEPT !.alone = FALSE] ELSE del
  /\ UNCHANGED <<repository, policy, taken, bak, newest>>

\* The download ends, or is cut short and stays what it is.
Fetch ==
  /\ res # NoRestore /\ ~res.fetched
  /\ \/ /\ Held(res.stamp)
        /\ local' = [local EXCEPT ![res.stamp] = "whole"]
        /\ res' = [res EXCEPT !.fetched = TRUE]
     \/ res' = NoRestore /\ UNCHANGED local
  /\ UNCHANGED <<repository, policy, taken, bak, del, newest>>

\* RestoreBackup's rename uses the archive up.
Swap ==
  /\ res.fetched
  /\ local' = [local EXCEPT ![res.stamp] = "no"]
  /\ IF Held(res.stamp) THEN UNCHANGED newest ELSE Undone(res.stamp)
  /\ res' = NoRestore
  /\ UNCHANGED <<repository, policy, taken, bak, del>>

\* A restore in place: the undo snapshot, a backup like any other, comes first.
InPlace ==
  /\ res = NoRestore /\ taken < MaxStamp
  /\ \E s \in 1..taken : local[s] = "no" /\ Held(s)
  /\ Snapshot(taken + 1, 2)
  /\ taken' = taken + 1
  /\ newest' = IF Leftover THEN 0 ELSE taken + 1
  /\ UNCHANGED <<local, policy, bak, del, res>>

RestoreStep == Locate \/ Fetch \/ Swap \/ InPlace

-----------------------------------------------------------------------------
(* The end of Maison *)

\* Maison is killed and starts again.
Restart ==
  /\ bak' = NoBackup /\ del' = NoDelete /\ res' = NoRestore
  /\ UNCHANGED <<store, taken, newest>>

EnginesNext ==
  \/ BackupStep \/ DeleteLocal \/ DeleteKopia(TRUE) \/ DeleteKopia(FALSE) \/ RestoreStep
  \/ Restart

EnginesSpec == EnginesInit /\ [][EnginesNext]_enginesVars

-----------------------------------------------------------------------------
(* Properties *)

\* The types, and that whatever is under way is about a stamp that was taken.
EnginesTypeOK ==
  /\ local \in [Stamps -> {"no", "whole", "cut"}]
  /\ snaps \subseteq [at : 1..made, stamp : 1..taken, pass : {1, 2}] /\ made \in Nat
  /\ taken \in 0..MaxStamp
  /\ bak.stamp \in 0..taken /\ bak.todo \subseteq 1..taken
  /\ del.stamp \in 0..taken /\ res.stamp \in 0..taken
  /\ newest \in 0..taken
  /\ policy \in BOOLEAN

\* The backup last reported as made stays, whatever retention, pruning, aborts of
\* later backups, undo snapshots and kills do, until a later one is whole
\* (EnsureRetention: "keeping fewer than two would let retention evict the consistent
\* snapshot"; pruneLocal: "the one place in Maison where being wrong about that
\* destroys the only copy").  Let off, if LetOff: the loss when a first pass left over
\* takes a place in the retention, when a commit fails, and when downloads of later
\* stamps take the places of a nightly archive.
NewestKept == newest # 0 => local[newest] = "whole" \/ Held(newest)

\* What a user has deleted, from engines that all answered and under the feet of no
\* restore or backup of it, is offered by none of them ("deleting it has to mean what the row says").
DeletedIsGone ==
  [][\A s \in Stamps : DeleteKopia(TRUE) /\ del = [stamp |-> s, alone |-> TRUE]
       => local'[s] = "no" /\ ~Held(s)']_enginesVars

\* A restore by swap puts back a whole archive.
ServesWhole == [][Swap => local[res.stamp] # "cut"]_enginesVars

\* A restore in place finds the backup it is about after the undo snapshot.
UndoSparesTarget ==
  [][InPlace => \A s \in 1..taken : Held(s) /\ local[s] = "no" => Held(s)']_enginesVars
=============================================================================
