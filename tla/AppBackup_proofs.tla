-------------------------- MODULE AppBackup_proofs --------------------------
(***************************************************************************)
(* What holds of the two-pass backup for any number of overlapping backups, *)
(* any containers, engines and faults, however often Maison is killed.     *)
(*                                                                         *)
(* The safety argument is one invariant, Quiet: while the last pass of an  *)
(* undisturbed backup reads, the app is down and its folder has not moved, *)
(* so what the pass keeps is an instant of the folder, and what is kept is *)
(* what is committed and listed.                                           *)
(*                                                                         *)
(* That the app comes back (ComesBackTheorem) is proved from the fairness  *)
(* of the stopped section, if nothing blocks it: the stages between the    *)
(* stop and the restart are ranked, and each is left for a later one.      *)
(***************************************************************************)
EXTENDS AppBackup, Mirror, TLAPS

\* An undisturbed last pass reads a still folder.
Quiet ==
  \A j \in Jobs : j \in Reading /\ ~disturbed[j] => up = {} /\ from[j] = gen

\* What waits to be committed by the local engine is no mixture.
StagedWhole ==
  \A j \in Jobs :
    pc[j] \in {"zip", "commit"} /\ Local(j) /\ ~disturbed[j] => staging[j] # Torn

\* Nor is the zip that waits to be renamed.
ZippedWhole ==
  \A j \in Jobs : pc[j] = "commit" /\ kind[j] = "zip" /\ ~disturbed[j] => tmp[j] # Torn

\* What is listed is no mixture, on disk or in the repository.
ListedWhole ==
  \A j \in Jobs : ~disturbed[j] => archive[j] # Torn /\ snaps[j][2] # Torn

IInv == TypeOK /\ Quiet /\ StagedWhole /\ ZippedWhole /\ ListedWhole

-----------------------------------------------------------------------------

\* A pass captures a generation or a mixture.
LEMMA StampInNat ==
  ASSUME TypeOK, NEW g \in Nat PROVE Read(g) \in Contents
BY DEF TypeOK, Read, Contents

\* A job without snapshots.
LEMMA NoSnaps == <<None, None>> \in Contents \X Contents
BY DEF Contents

\* Storing what a pass captured keeps the types, in either engine.
LEMMA KeepTypes ==
  ASSUME TypeOK, NEW j \in Jobs, NEW n \in {1, 2}, NEW c \in Contents, Keep(j, n, c)
  PROVE  staging' \in [Jobs -> Contents] /\ snaps' \in [Jobs -> Contents \X Contents]
<1>1. CASE Local(j)
  BY <1>1 DEF Keep, TypeOK
<1>2. CASE ~Local(j)
  <2>1. snaps[j] \in Contents \X Contents
    BY DEF TypeOK
  <2>2. [snaps[j] EXCEPT ![n] = c] \in Contents \X Contents
    BY <2>1
  <2>3. snaps' = [snaps EXCEPT ![j] = [snaps[j] EXCEPT ![n] = c]]
    BY <1>2 DEF Keep
  <2>4. QED
    BY <1>2, <2>2, <2>3 DEF Keep, TypeOK
<1>3. QED
  BY <1>1, <1>2

\* Writing one of a job's two snapshots keeps the types, and so does dropping some.
LEMMA SnapTypes ==
  ASSUME TypeOK, NEW j \in Jobs, NEW n \in {1, 2}, NEW c \in Contents,
         snaps' = [snaps EXCEPT ![j][n] = c]
  PROVE  snaps' \in [Jobs -> Contents \X Contents]
<1>1. snaps[j] \in Contents \X Contents
  BY DEF TypeOK
<1>2. [snaps[j] EXCEPT ![n] = c] \in Contents \X Contents
  BY <1>1
<1>3. snaps' = [snaps EXCEPT ![j] = [snaps[j] EXCEPT ![n] = c]]
  OBVIOUS
<1> QED BY <1>2, <1>3 DEF TypeOK

LEMMA DropTypes ==
  ASSUME TypeOK, NEW j \in Jobs, DropSome(j)
  PROVE  snaps' \in [Jobs -> Contents \X Contents]
<1>1. None \in Contents
  BY DEF Contents
<1> QED BY <1>1, SnapTypes DEF DropSome, TypeOK

\* What dropping some of a job's snapshots may change.
LEMMA DropFrame ==
  ASSUME TypeOK, NEW j \in Jobs, DropSome(j)
  PROVE  /\ snaps'[j][2] \in {snaps[j][2], None}
         /\ \A k \in Jobs \ {j} : snaps'[k] = snaps[k]
<1>1. snaps' = snaps \/ \E n \in {1, 2} :
        snaps' = [snaps EXCEPT ![j] = [snaps[j] EXCEPT ![n] = None]]
  BY DEF DropSome
<1>2. snaps[j] \in Contents \X Contents
  BY DEF TypeOK
<1> QED BY <1>1, <1>2 DEF TypeOK

\* Every state has the types TypeOK gives (BackupWith and the engines).
THEOREM TypeCorrect == Spec => []TypeOK
<1>1. Init => TypeOK
  <2> SUFFICES ASSUME Init PROVE TypeOK
    OBVIOUS
  <2>1. snaps \in [Jobs -> Contents \X Contents]
    BY NoSnaps DEF Init
  <2>2. kind \in [Jobs -> {"folder", "zip", "kopia"}]
    BY BackupAssumption DEF Init
  <2>3. /\ staging \in [Jobs -> Contents] /\ archive \in [Jobs -> Contents]
        /\ tmp \in [Jobs -> Contents] /\ stray \in [Jobs -> Strays]
        /\ gen \in Nat /\ up \subseteq Containers /\ pc \in [Jobs -> Places]
    BY DEF Init, Contents, Places, Strays
  <2>4. QED
    BY <2>1, <2>2, <2>3 DEF Init, TypeOK
<1>2. TypeOK /\ [Next]_vars => TypeOK'
  <2> SUFFICES ASSUME TypeOK, [Next]_vars PROVE TypeOK'
    OBVIOUS
  <2> USE BackupAssumption DEF Places, Active, Ended
  <2>1. CASE AppWrites
    BY <2>1 DEF AppWrites, jobVars, storeVars, TypeOK
  <2>2. CASE OperatorStarts
    BY <2>2 DEF OperatorStarts, BringUp, Disturb, jobVars, storeVars, TypeOK
  <2>3. CASE OperatorStops
    BY <2>3 DEF OperatorStops, Stopped, jobVars, storeVars, TypeOK
  <2>4. CASE OperatorSaves
    BY <2>4 DEF OperatorSaves, BringUp, Disturb, jobVars, storeVars, TypeOK
  <2>5. CASE Crash
    <3>1. /\ gen' \in Nat /\ up' \subseteq Containers /\ pc' \in [Jobs -> Places]
          /\ kind' \in [Jobs -> {"folder", "zip", "kopia"}] /\ stray' \in [Jobs -> Strays]
          /\ stamp' \in [Jobs -> Nat] /\ from' \in [Jobs -> Nat] /\ crashes' \in Nat
      BY <2>5 DEF Crash, appVars, TypeOK, Strays
    <3>2. /\ stopped' \in [Jobs -> BOOLEAN] /\ deferred' \in [Jobs -> BOOLEAN]
          /\ committed' \in [Jobs -> BOOLEAN] /\ disturbed' \in [Jobs -> BOOLEAN]
          /\ archive' \in [Jobs -> Contents] /\ snaps' \in [Jobs -> Contents \X Contents]
      BY <2>5 DEF Crash, TypeOK
    <3>3. PICK cut \in BOOLEAN : /\ staging' = [j \in Jobs |-> CutStaging(j, cut)]
                                /\ tmp' = [j \in Jobs |-> CutTmp(j, cut)]
      BY <2>5 DEF Crash
    <3>4. \A j \in Jobs : CutStaging(j, cut) \in Contents /\ CutTmp(j, cut) \in Contents
      BY DEF CutStaging, CutTmp, Contents, TypeOK
    <3>5. staging' \in [Jobs -> Contents] /\ tmp' \in [Jobs -> Contents]
      BY <3>3, <3>4
    <3> QED BY <3>1, <3>2, <3>5 DEF TypeOK
  <2>6. ASSUME NEW j \in Jobs, Begin(j) PROVE TypeOK'
    BY <2>6 DEF Begin, Goto, appVars, storeVars, TypeOK
  <2>7. ASSUME NEW j \in Jobs, Copied(j) PROVE TypeOK'
    <3>1. Read(stamp[j]) \in Contents
      BY StampInNat DEF TypeOK
    <3>2. staging' \in [Jobs -> Contents] /\ snaps' \in [Jobs -> Contents \X Contents]
      BY <2>7, <3>1, KeepTypes DEF Copied
    <3>3. QED
      BY <2>7, <3>2 DEF Copied, Goto, appVars, TypeOK
  <2>8. ASSUME NEW j \in Jobs, NEW n \in {1, 2}, NEW c \in Contents, PassFails(j, n, c)
        PROVE  TypeOK'
    <3>1. Torn \in Contents
      BY DEF Contents
    <3>2. staging' \in [Jobs -> Contents] /\ snaps' \in [Jobs -> Contents \X Contents]
      <4>1. CASE Keep(j, n, Torn)
        BY <4>1, <3>1, KeepTypes
      <4>2. CASE Keep(j, n, c)
        BY <4>2, KeepTypes
      <4>3. CASE UNCHANGED <<staging, snaps>>
        BY <4>3 DEF TypeOK
      <4>4. QED
        BY <2>8, <4>1, <4>2, <4>3 DEF PassFails
    <3>3. stray' \in [Jobs -> Strays]
      BY <2>8 DEF PassFails, Outlives, Strays, TypeOK
    <3>4. QED
      BY <2>8, <3>2, <3>3 DEF PassFails, GiveUp, Goto, appVars, TypeOK
  <2>9. ASSUME NEW j \in Jobs, CopyFails(j) \/ SyncFails(j) PROVE TypeOK'
    <3>1. Read(stamp[j]) \in Contents /\ Read(from[j]) \in Contents
      BY StampInNat DEF TypeOK
    <3>2. QED
      BY <2>8, <2>9, <3>1 DEF CopyFails, SyncFails
  <2>10. ASSUME NEW j \in Jobs, Checked(j) PROVE TypeOK'
    <3>1. from' \in [Jobs -> Nat]
      BY <2>10 DEF Checked, TypeOK
    <3>2. disturbed' \in [Jobs -> BOOLEAN]
      <4>1. (disturbed[j] \/ up # {}) \in BOOLEAN
        OBVIOUS
      <4>2. \/ disturbed' = disturbed
            \/ disturbed' = [disturbed EXCEPT ![j] = disturbed[j] \/ up # {}]
        BY <2>10, Zenon DEF Checked
      <4>3. QED
        BY <4>1, <4>2, Zenon DEF TypeOK
    <3>3. QED
      BY <2>10, <3>1, <3>2 DEF Checked, Goto, appVars, storeVars, TypeOK
  <2>11. ASSUME NEW j \in Jobs, StopApp(j) PROVE TypeOK'
    BY <2>11 DEF StopApp, Stopped, Goto, storeVars, TypeOK
  <2>12. ASSUME NEW j \in Jobs, StopFails(j) PROVE TypeOK'
    BY <2>12 DEF StopFails, Stopped, Goto, storeVars, TypeOK
  <2>13. ASSUME NEW j \in Jobs, Synced(j) PROVE TypeOK'
    <3>1. Read(from[j]) \in Contents
      BY StampInNat DEF TypeOK
    <3>2. staging' \in [Jobs -> Contents] /\ snaps' \in [Jobs -> Contents \X Contents]
      BY <2>13, <3>1, KeepTypes DEF Synced
    <3>3. QED
      BY <2>13, <3>2 DEF Synced, Goto, appVars, TypeOK
  <2>14. ASSUME NEW j \in Jobs, Zipped(j) PROVE TypeOK'
    <3>1. tmp' \in [Jobs -> Contents]
      BY <2>14 DEF Zipped, TypeOK, Contents
    <3> QED BY <2>14, <3>1 DEF Zipped, Goto, appVars, TypeOK
  <2>15. ASSUME NEW j \in Jobs, Commit(j) PROVE TypeOK'
    <3>1. /\ staging' \in [Jobs -> Contents] /\ archive' \in [Jobs -> Contents]
          /\ tmp' \in [Jobs -> Contents] /\ snaps' \in [Jobs -> Contents \X Contents]
      <4>1. CASE CommitLocal(j)
        <5>0. None \in Contents /\ Part \in Contents
          BY DEF Contents
        <5>1. staging' \in [Jobs -> Contents]
          BY <4>1, <5>0 DEF CommitLocal, CommitFolder, CommitZip, TypeOK
        <5>2. tmp' \in [Jobs -> Contents]
          BY <4>1 DEF CommitLocal, CommitFolder, CommitZip, TypeOK, Contents
        <5>3. archive' \in [Jobs -> Contents]
          BY <4>1 DEF CommitLocal, CommitFolder, CommitZip, TypeOK
        <5>4. snaps' \in [Jobs -> Contents \X Contents]
          BY <4>1 DEF CommitLocal, CommitFolder, CommitZip, TypeOK
        <5> QED BY <5>1, <5>2, <5>3, <5>4
      <4>2. CASE CommitKopia(j)
        <5>1. snaps' = snaps \/ snaps' = [snaps EXCEPT ![j] = [snaps[j] EXCEPT ![1] = None]]
          BY <4>2 DEF CommitKopia
        <5>2. [snaps[j] EXCEPT ![1] = None] \in Contents \X Contents
          BY DEF TypeOK, Contents
        <5>3. snaps' \in [Jobs -> Contents \X Contents]
          BY <5>1, <5>2 DEF TypeOK
        <5>4. QED
          BY <4>2, <5>3 DEF CommitKopia, TypeOK
      <4>3. QED
        BY <2>15, <4>1, <4>2 DEF Commit
    <3>2. QED
      BY <2>15, <3>1 DEF Commit, Goto, appVars, TypeOK
  <2>16. ASSUME NEW j \in Jobs, CommitFails(j) PROVE TypeOK'
    <3>1. snaps' \in [Jobs -> Contents \X Contents]
      <4>1. [snaps[j] EXCEPT ![1] = None] \in Contents \X Contents
        BY DEF TypeOK, Contents
      <4>2. snaps' = snaps \/ snaps' = [snaps EXCEPT ![j] = [snaps[j] EXCEPT ![1] = None]]
        BY <2>16 DEF CommitFails
      <4>3. QED
        BY <4>1, <4>2 DEF TypeOK
    <3>2. tmp' \in [Jobs -> Contents]
      BY <2>16 DEF CommitFails, TypeOK, Contents
    <3>3. QED
      BY <2>16, <3>1, <3>2 DEF CommitFails, GiveUp, Goto, appVars, TypeOK
  <2>17. ASSUME NEW j \in Jobs, RestartApp(j) PROVE TypeOK'
    BY <2>17 DEF RestartApp, BringUp, Disturb, Goto, storeVars, TypeOK
  <2>18. ASSUME NEW j \in Jobs, Abort(j) PROVE TypeOK'
    <3>1. snaps' \in [Jobs -> Contents \X Contents] /\ staging' \in [Jobs -> Contents]
      <4>1. CASE Local(j)
        BY <2>18, <4>1 DEF Abort, TypeOK, Contents
      <4>2. CASE ~Local(j)
        BY <2>18, <4>2, NoSnaps DEF Abort, TypeOK
      <4>3. QED
        BY <4>1, <4>2
    <3>2. QED
      BY <2>18, <3>1 DEF Abort, Goto, appVars, TypeOK
  <2>19. ASSUME NEW j \in Jobs, AbortFails(j) PROVE TypeOK'
    <3>1. snaps' \in [Jobs -> Contents \X Contents]
      BY <2>19, DropTypes DEF AbortFails, TypeOK
    <3>2. staging' \in [Jobs -> Contents]
      BY <2>19 DEF AbortFails, TypeOK, Contents
    <3>3. QED
      BY <2>19, <3>1, <3>2 DEF AbortFails, Goto, appVars, TypeOK
  <2>20. ASSUME NEW j \in Jobs, Delete(j) PROVE TypeOK'
    <3>1. archive' \in [Jobs -> Contents]
      BY <2>20 DEF Delete, DeleteFolder, DeleteZip, DeleteSnaps, TypeOK, Contents
    <3>2. snaps' \in [Jobs -> Contents \X Contents]
      BY <2>20, NoSnaps, DropTypes DEF Delete, DeleteFolder, DeleteZip, DeleteSnaps, TypeOK
    <3>3. QED
      BY <2>20, <3>1, <3>2 DEF Delete, appVars, jobVars, TypeOK
  <2>21. ASSUME NEW j \in Jobs, StrayEnds(j) PROVE TypeOK'
    <3>1. Read(stamp[j]) \in Contents /\ Read(from[j]) \in Contents
      BY StampInNat DEF TypeOK
    <3>2. snaps' \in [Jobs -> Contents \X Contents]
      <4>1. ASSUME NEW n \in {1, 2}, NEW c \in Contents, snaps' = [snaps EXCEPT ![j][n] = c]
            PROVE  snaps' \in [Jobs -> Contents \X Contents]
        BY <4>1, SnapTypes
      <4> QED BY <2>21, <3>1, <4>1 DEF StrayEnds, TypeOK
    <3>3. QED
      BY <2>21, <3>2 DEF StrayEnds, appVars, jobVars, Strays, TypeOK
  <2>22. CASE UNCHANGED vars
    BY <2>22 DEF vars, TypeOK
  <2>23. QED
    BY <2>1, <2>2, <2>3, <2>4, <2>5, <2>6, <2>7, <2>9, <2>10, <2>11, <2>12,
       <2>13, <2>14, <2>15, <2>16, <2>17, <2>18, <2>19, <2>20, <2>21, <2>22
       DEF Next, BackupStep
<1>3. QED
  BY <1>1, <1>2, PTL DEF Spec

-----------------------------------------------------------------------------

\* A pass that read a still folder keeps an instant of it.
LEMMA StillRead ==
  ASSUME TypeOK, NEW g \in Nat, g = gen PROVE Read(g) # Torn
BY BackupAssumption DEF TypeOK, Read

\* What Keep leaves alone: other jobs' places, and pass 2's when keeping pass 1.
LEMMA KeepFrame ==
  ASSUME TypeOK, NEW j \in Jobs, NEW n \in {1, 2}, NEW c, Keep(j, n, c)
  PROVE  /\ Local(j) => staging'[j] = c /\ snaps' = snaps
         /\ ~Local(j) => staging' = staging
         /\ ~Local(j) => snaps'[j][2] = IF n = 2 THEN c ELSE snaps[j][2]
         /\ \A k \in Jobs \ {j} : staging'[k] = staging[k] /\ snaps'[k] = snaps[k]
<1>1. CASE Local(j)
  BY <1>1 DEF Keep, TypeOK
<1>2. CASE ~Local(j)
  <2>1. snaps' = [snaps EXCEPT ![j] = [snaps[j] EXCEPT ![n] = c]]
    BY <1>2 DEF Keep
  <2>2. snaps'[j] = [snaps[j] EXCEPT ![n] = c]
    BY <2>1 DEF TypeOK
  <2>3. snaps[j] \in Contents \X Contents
    BY DEF TypeOK
  <2>4. snaps'[j][2] = IF n = 2 THEN c ELSE snaps[j][2]
    BY <2>2, <2>3
  <2>5. QED
    BY <1>2, <2>1, <2>4 DEF Keep, TypeOK
<1>3. QED
  BY <1>1, <1>2

\* One job's share of Quiet, StagedWhole, ZippedWhole and ListedWhole.
Whole(j) ==
  /\ (pc[j] = "sync" \/ stray[j] = "last") /\ ~disturbed[j] => up = {} /\ from[j] = gen
  /\ pc[j] \in {"zip", "commit"} /\ Local(j) /\ ~disturbed[j] => staging[j] # Torn
  /\ pc[j] = "commit" /\ kind[j] = "zip" /\ ~disturbed[j] => tmp[j] # Torn
  /\ ~disturbed[j] => archive[j] # Torn /\ snaps[j][2] # Torn

\* The invariant is one statement per job.
LEMMA WholeParts ==
  (Quiet /\ StagedWhole /\ ZippedWhole /\ ListedWhole) <=> \A j \in Jobs : Whole(j)
BY DEF Quiet, StagedWhole, ZippedWhole, ListedWhole, Whole, Reading

\* A step of job j that leaves every other job's share alone.
Others(j) ==
  \A k \in Jobs \ {j} :
    /\ pc'[k] = pc[k] /\ from'[k] = from[k] /\ kind'[k] = kind[k]
    /\ staging'[k] = staging[k] /\ archive'[k] = archive[k] /\ snaps'[k] = snaps[k]
    /\ tmp'[k] = tmp[k] /\ stray'[k] = stray[k] /\ disturbed'[k] = disturbed[k]

\* A job's own step leaves the shares of the others as they are.
LEMMA OthersWhole ==
  ASSUME NEW j \in Jobs, \A k \in Jobs : Whole(k), Others(j),
         gen' = gen, up' \subseteq up, Whole(j)'
  PROVE  \A k \in Jobs : Whole(k)'
<1> SUFFICES ASSUME NEW k \in Jobs, k # j PROVE Whole(k)'
  OBVIOUS
<1>1. k \in Jobs \ {j}
  OBVIOUS
<1>2. QED
  BY <1>1 DEF Whole, Others, Local

\* Starting containers, and writing the folder, disturb every last pass.
LEMMA DisturbWhole ==
  ASSUME TypeOK, \A k \in Jobs : Whole(k), Disturb,
         NEW k \in Jobs, pc'[k] = pc[k], from'[k] = from[k], kind'[k] = kind[k],
         staging'[k] = staging[k], archive'[k] = archive[k], snaps'[k] = snaps[k],
         tmp'[k] = tmp[k], stray'[k] = stray[k]
  PROVE  Whole(k)'
<1>1. disturbed'[k] = (disturbed[k] \/ (k \in Reading /\ (up' # {} \/ gen' # gen)))
  BY DEF Disturb
<1>2. k \in Reading <=> pc[k] = "sync" \/ stray[k] = "last"
  BY DEF Reading
<1>3. QED
  BY <1>1, <1>2 DEF Whole, Local

\* What a deletion changes: nothing of other jobs, and of its own what is listed.
DeletedFrame(j) ==
  /\ snaps'[j][2] \in {snaps[j][2], None}
  /\ archive'[j] \in {archive[j], None, Part}
  /\ \A k \in Jobs \ {j} : archive'[k] = archive[k] /\ snaps'[k] = snaps[k]

LEMMA DeleteFrame ==
  ASSUME TypeOK, NEW j \in Jobs, Delete(j) PROVE DeletedFrame(j)
<1>1. CASE DeleteFolder(j) \/ DeleteZip(j)
  BY <1>1 DEF DeleteFolder, DeleteZip, DeletedFrame, TypeOK
<1>2. CASE DeleteSnaps(j)
  <2>1. CASE snaps' = [snaps EXCEPT ![j] = <<None, None>>]
    BY <1>2, <2>1 DEF DeleteSnaps, DeletedFrame, TypeOK
  <2>2. CASE DropSome(j)
    BY <1>2, <2>2, DropFrame DEF DeleteSnaps, DeletedFrame
  <2> QED BY <1>2, <2>1, <2>2 DEF DeleteSnaps
<1> QED BY <1>1, <1>2 DEF Delete

\* What a container without a client changes when it ends.
StrayFrame(j) ==
  /\ \/ snaps'[j][2] = snaps[j][2]
     \/ stray[j] = "last" /\ snaps'[j][2] = Read(from[j])
  /\ \A k \in Jobs \ {j} : snaps'[k] = snaps[k]

LEMMA StrayLeaves ==
  ASSUME TypeOK, NEW j \in Jobs, StrayEnds(j) PROVE StrayFrame(j)
<1>1. snaps[j] \in Contents \X Contents
  BY DEF TypeOK
<1>2. \/ snaps' = snaps
      \/ snaps' = [snaps EXCEPT ![j] = [snaps[j] EXCEPT ![1] = Read(stamp[j])]]
      \/ /\ stray[j] = "last"
         /\ snaps' = [snaps EXCEPT ![j] = [snaps[j] EXCEPT ![2] = Read(from[j])]]
  BY DEF StrayEnds
<1> QED BY <1>1, <1>2 DEF StrayFrame, TypeOK

\* Every step keeps every job's share of the invariant.
LEMMA WholeStep ==
  TypeOK /\ (\A k \in Jobs : Whole(k)) /\ [Next]_vars => \A k \in Jobs : Whole(k)'
<1> SUFFICES ASSUME TypeOK, \A k \in Jobs : Whole(k), [Next]_vars
             PROVE  \A k \in Jobs : Whole(k)'
  OBVIOUS
<1> USE BackupAssumption
<1>1. CASE AppWrites
  BY <1>1 DEF AppWrites, jobVars, storeVars, Whole, Local
<1>2. CASE OperatorStarts
  BY <1>2, DisturbWhole DEF OperatorStarts, jobVars, storeVars
<1>3. CASE OperatorStops
  <2>1. up' \subseteq up /\ gen' = gen
    BY <1>3 DEF OperatorStops, Stopped
  <2>2. QED
    BY <1>3, <2>1 DEF OperatorStops, jobVars, storeVars, Whole, Local
<1>4. CASE OperatorSaves
  BY <1>4, DisturbWhole DEF OperatorSaves, jobVars, storeVars
<1>5. CASE Crash
  <2> SUFFICES ASSUME NEW k \in Jobs PROVE Whole(k)'
    OBVIOUS
  <2>1. /\ pc'[k] = "sync" \/ stray'[k] = "last" => pc[k] = "sync" \/ stray[k] = "last"
        /\ pc'[k] \notin {"zip", "commit"}
        /\ gen' = gen /\ up' = up /\ from' = from /\ archive' = archive
        /\ snaps' = snaps /\ disturbed' = disturbed
    BY <1>5 DEF Crash, appVars, TypeOK, Places, Active, Ended
  <2>2. QED
    BY <2>1 DEF Whole
<1>6. ASSUME NEW j \in Jobs, Begin(j) PROVE \A k \in Jobs : Whole(k)'
  <2>1. Others(j) /\ gen' = gen /\ up' = up
    BY <1>6 DEF Begin, Goto, Others, appVars, storeVars, TypeOK
  <2>2. Whole(j)'
    BY <1>6 DEF Begin, Goto, Whole, appVars, storeVars, TypeOK
  <2>3. QED
    BY <2>1, <2>2, OthersWhole
<1>7. ASSUME NEW j \in Jobs, Copied(j) PROVE \A k \in Jobs : Whole(k)'
  <2>1. gen' = gen /\ up' = up /\ pc'[j] = "check" /\ archive' = archive
        /\ from' = from /\ stray' = stray /\ disturbed' = disturbed
        /\ Keep(j, 1, Read(stamp[j]))
    BY <1>7 DEF Copied, Goto, appVars, TypeOK
  <2>2. Others(j)
    BY <1>7, <2>1, KeepFrame DEF Copied, Goto, Others, TypeOK
  <2>3. snaps'[j][2] = snaps[j][2]
    BY <2>1, KeepFrame
  <2>4. Whole(j)'
    BY <2>1, <2>3 DEF Whole
  <2>5. QED
    BY <2>1, <2>2, <2>4, OthersWhole
<1>8. ASSUME NEW j \in Jobs, CopyFails(j) PROVE \A k \in Jobs : Whole(k)'
  <2>1. /\ gen' = gen /\ up' = up /\ from' = from /\ pc'[j] \in {"restart", "abort"}
        /\ archive' = archive /\ disturbed' = disturbed
        /\ stray'[j] = "last" => stray[j] = "last"
    BY <1>8 DEF CopyFails, PassFails, Outlives, GiveUp, Goto, appVars, TypeOK
  <2>2. Others(j) /\ snaps'[j][2] = snaps[j][2]
    <3>1. \/ Keep(j, 1, Torn) \/ Keep(j, 1, Read(stamp[j]))
          \/ UNCHANGED <<staging, snaps>>
      BY <1>8 DEF CopyFails, PassFails
    <3>2. /\ \A k \in Jobs \ {j} : staging'[k] = staging[k] /\ snaps'[k] = snaps[k]
          /\ snaps'[j][2] = snaps[j][2]
      BY <3>1, KeepFrame
    <3>3. QED
      BY <1>8, <3>2 DEF CopyFails, PassFails, Outlives, GiveUp, Goto, Others, TypeOK
  <2>3. Whole(j)'
    BY <2>1, <2>2 DEF Whole
  <2>4. QED
    BY <2>1, <2>2, <2>3, OthersWhole
<1>9. ASSUME NEW j \in Jobs, Checked(j) PROVE \A k \in Jobs : Whole(k)'
  <2>1. Others(j) /\ gen' = gen /\ up' = up
    BY <1>9 DEF Checked, Goto, Others, appVars, storeVars, TypeOK
  <2>2. /\ archive' = archive /\ snaps' = snaps /\ staging' = staging
        /\ stray' = stray /\ (disturbed[j] => disturbed'[j])
    BY <1>9 DEF Checked, storeVars, TypeOK
  <2>3. \/ pc'[j] = "stop" /\ from' = from
        \/ /\ pc'[j] = "sync" /\ from'[j] = gen
           /\ ~disturbed'[j] => up = {}
    BY <1>9 DEF Checked, Goto, TypeOK
  <2>4. Whole(j)'
    BY <2>1, <2>2, <2>3 DEF Whole
  <2>5. QED
    BY <2>1, <2>4, OthersWhole
<1>10. ASSUME NEW j \in Jobs, StopApp(j) PROVE \A k \in Jobs : Whole(k)'
  <2>1. Others(j) /\ gen' = gen /\ up' = {}
    BY <1>10 DEF StopApp, Stopped, Goto, Others, storeVars, TypeOK
  <2>2. Whole(j)'
    BY <1>10, <2>1 DEF StopApp, Goto, Whole, storeVars, TypeOK
  <2>3. QED
    BY <2>1, <2>2, OthersWhole
<1>11. ASSUME NEW j \in Jobs, StopFails(j) PROVE \A k \in Jobs : Whole(k)'
  <2>1. Others(j) /\ gen' = gen /\ up' \subseteq up
    BY <1>11 DEF StopFails, Stopped, Goto, Others, storeVars, TypeOK
  <2>2. Whole(j)'
    BY <1>11, <2>1 DEF StopFails, Goto, Whole, storeVars, TypeOK
  <2>3. QED
    BY <2>1, <2>2, OthersWhole
<1>12. ASSUME NEW j \in Jobs, Synced(j) PROVE \A k \in Jobs : Whole(k)'
  <2>1. /\ gen' = gen /\ up' = up /\ pc[j] = "sync" /\ pc'[j] \in {"zip", "commit"}
        /\ archive' = archive /\ disturbed' = disturbed /\ kind' = kind
        /\ from' = from /\ stray' = stray /\ (pc'[j] = "zip" <=> kind[j] = "zip")
        /\ Keep(j, 2, Read(from[j]))
    BY <1>12 DEF Synced, Goto, appVars, TypeOK
  <2>2. Others(j)
    BY <1>12, <2>1, KeepFrame DEF Synced, Goto, Others, TypeOK
  <2>3. ~disturbed[j] => Read(from[j]) # Torn
    BY <2>1, StillRead DEF Whole, TypeOK
  <2>4. Whole(j)'
    BY <2>1, <2>3, KeepFrame DEF Whole, Local
  <2>5. QED
    BY <2>1, <2>2, <2>4, OthersWhole
<1>13. ASSUME NEW j \in Jobs, SyncFails(j) PROVE \A k \in Jobs : Whole(k)'
  <2>1. /\ gen' = gen /\ up' = up /\ from' = from /\ pc'[j] \in {"restart", "abort"}
        /\ archive' = archive /\ disturbed' = disturbed /\ pc[j] = "sync"
    BY <1>13 DEF SyncFails, PassFails, GiveUp, Goto, appVars, TypeOK
  <2>2. \/ Local(j) /\ Keep(j, 2, Torn)
        \/ ~Local(j) /\ Keep(j, 2, Read(from[j]))
        \/ UNCHANGED <<staging, snaps>>
    BY <1>13 DEF SyncFails, PassFails
  <2>3. Others(j)
    <3>1. \A k \in Jobs \ {j} : staging'[k] = staging[k] /\ snaps'[k] = snaps[k]
      BY <2>2, KeepFrame
    <3> QED BY <1>13, <3>1 DEF SyncFails, PassFails, Outlives, GiveUp, Goto, Others, TypeOK
  <2>4. ~disturbed[j] => Read(from[j]) # Torn
    BY <2>1, StillRead DEF Whole, TypeOK
  <2>5. ~disturbed[j] => snaps'[j][2] # Torn
    BY <2>2, <2>4, KeepFrame DEF Whole
  <2>6. Whole(j)'
    BY <2>1, <2>5 DEF Whole
  <2>7. QED
    BY <2>1, <2>3, <2>6, OthersWhole
<1>14. ASSUME NEW j \in Jobs, Zipped(j) PROVE \A k \in Jobs : Whole(k)'
  <2>1. Others(j) /\ gen' = gen /\ up' = up
    BY <1>14 DEF Zipped, Goto, Others, appVars, TypeOK
  <2>2. Whole(j)'
    BY <1>14 DEF Zipped, Goto, Whole, Local, appVars, TypeOK
  <2>3. QED
    BY <2>1, <2>2, OthersWhole
<1>15. ASSUME NEW j \in Jobs, Commit(j) PROVE \A k \in Jobs : Whole(k)'
  <2>1. /\ gen' = gen /\ up' = up /\ pc[j] = "commit" /\ pc'[j] \in {"restart", "done"}
        /\ disturbed' = disturbed /\ from' = from /\ stray' = stray
    BY <1>15 DEF Commit, Goto, appVars, TypeOK
  <2>2. CASE CommitLocal(j)
    <3>1. Others(j)
      BY <1>15, <2>2 DEF Commit, CommitLocal, CommitFolder, CommitZip, Goto, Others, TypeOK
    <3>2. Whole(j)'
      <4>1. archive'[j] \in {staging[j], tmp[j]} /\ (kind[j] # "zip" => archive'[j] = staging[j])
            /\ (kind[j] = "zip" => archive'[j] = tmp[j]) /\ snaps' = snaps /\ Local(j)
        BY <2>2 DEF CommitLocal, CommitFolder, CommitZip, Local, TypeOK
      <4> QED BY <2>1, <4>1 DEF Whole
    <3>3. QED
      BY <2>1, <3>1, <3>2, OthersWhole
  <2>3. CASE CommitKopia(j)
    <3>1. snaps' = snaps \/ snaps' = [snaps EXCEPT ![j] = [snaps[j] EXCEPT ![1] = None]]
      BY <2>3 DEF CommitKopia
    <3>2. snaps[j] \in Contents \X Contents
      BY DEF TypeOK
    <3>3. snaps'[j][2] = snaps[j][2]
      BY <3>1, <3>2 DEF TypeOK
    <3>4. \A k \in Jobs \ {j} : snaps'[k] = snaps[k]
      BY <3>1 DEF TypeOK
    <3>5. Others(j)
      BY <1>15, <2>3, <3>4 DEF Commit, CommitKopia, Goto, Others, TypeOK
    <3>6. Whole(j)'
      BY <2>1, <2>3, <3>3 DEF CommitKopia, Whole
    <3>7. QED
      BY <2>1, <3>5, <3>6, OthersWhole
  <2>4. QED
    BY <1>15, <2>2, <2>3 DEF Commit
<1>16. ASSUME NEW j \in Jobs, CommitFails(j) PROVE \A k \in Jobs : Whole(k)'
  <2>1. snaps' = snaps \/ snaps' = [snaps EXCEPT ![j] = [snaps[j] EXCEPT ![1] = None]]
    BY <1>16 DEF CommitFails
  <2>2. snaps[j] \in Contents \X Contents
    BY DEF TypeOK
  <2>3. /\ snaps'[j][2] = snaps[j][2]
        /\ \A k \in Jobs \ {j} : snaps'[k] = snaps[k]
    BY <2>1, <2>2 DEF TypeOK
  <2>4. Others(j) /\ gen' = gen /\ up' = up
    BY <1>16, <2>3 DEF CommitFails, GiveUp, Goto, Others, appVars, TypeOK
  <2>5. Whole(j)'
    BY <1>16, <2>3 DEF CommitFails, GiveUp, Goto, Whole, appVars, TypeOK
  <2>6. QED
    BY <2>4, <2>5, OthersWhole
<1>17. ASSUME NEW j \in Jobs, RestartApp(j) PROVE \A k \in Jobs : Whole(k)'
  <2>1. /\ Disturb /\ pc[j] = "restart" /\ pc'[j] \in {"done", "abort"}
        /\ UNCHANGED <<from, kind, staging, tmp, archive, snaps, stray>>
        /\ \A k \in Jobs \ {j} : pc'[k] = pc[k]
    BY <1>17 DEF RestartApp, Goto, storeVars, TypeOK
  <2>2. \A k \in Jobs \ {j} : Whole(k)'
    BY <2>1, DisturbWhole
  <2>3. disturbed'[j] = (disturbed[j] \/ (stray[j] = "last" /\ (up' # {} \/ gen' # gen)))
    BY <2>1 DEF Disturb, Reading
  <2>4. Whole(j)'
    BY <2>1, <2>3 DEF Whole
  <2>5. QED
    BY <2>2, <2>4
<1>18. ASSUME NEW j \in Jobs, Abort(j) PROVE \A k \in Jobs : Whole(k)'
  <2>1. Others(j) /\ gen' = gen /\ up' = up
    BY <1>18 DEF Abort, Goto, Others, appVars, TypeOK
  <2>2. Whole(j)'
    <3>1. snaps'[j][2] \in {snaps[j][2], None}
      BY <1>18 DEF Abort, TypeOK
    <3>2. QED
      BY <1>18, <3>1 DEF Abort, Goto, Whole, appVars, TypeOK
  <2>3. QED
    BY <2>1, <2>2, OthersWhole
<1>19. ASSUME NEW j \in Jobs, AbortFails(j) PROVE \A k \in Jobs : Whole(k)'
  <2>1. /\ snaps'[j][2] \in {snaps[j][2], None}
        /\ \A k \in Jobs \ {j} : snaps'[k] = snaps[k]
    BY <1>19, DropFrame DEF AbortFails
  <2>2. Others(j) /\ gen' = gen /\ up' = up
    BY <1>19, <2>1 DEF AbortFails, Goto, Others, appVars, TypeOK
  <2>3. Whole(j)'
    BY <1>19, <2>1 DEF AbortFails, Goto, Whole, appVars, TypeOK
  <2>4. QED
    BY <2>2, <2>3, OthersWhole
<1>20. ASSUME NEW j \in Jobs, Delete(j) PROVE \A k \in Jobs : Whole(k)'
  <2>1. DeletedFrame(j)
    BY <1>20, DeleteFrame
  <2>2. Others(j) /\ gen' = gen /\ up' = up
    BY <1>20, <2>1 DEF Delete, DeletedFrame, Others, appVars, jobVars, TypeOK
  <2>3. Whole(j)'
    BY <1>20, <2>1, <2>2 DEF Delete, DeletedFrame, Whole, Local, jobVars
  <2>4. QED
    BY <2>2, <2>3, OthersWhole
<1>21. ASSUME NEW j \in Jobs, StrayEnds(j) PROVE \A k \in Jobs : Whole(k)'
  <2>1. /\ gen' = gen /\ up' = up /\ stray'[j] = "over" /\ UNCHANGED <<jobVars, disturbed>>
        /\ UNCHANGED <<staging, tmp, archive>>
    BY <1>21 DEF StrayEnds, appVars, TypeOK
  <2>2. StrayFrame(j)
    BY <1>21, StrayLeaves
  <2>3. Others(j)
    BY <1>21, <2>1, <2>2 DEF StrayEnds, StrayFrame, Others, jobVars, TypeOK
  <2>4. stray[j] = "last" /\ ~disturbed[j] => Read(from[j]) # Torn
    BY StillRead DEF Whole, TypeOK
  <2>5. ~disturbed[j] => snaps'[j][2] # Torn
    BY <2>2, <2>4 DEF Whole, StrayFrame
  <2>6. Whole(j)'
    BY <2>1, <2>5 DEF Whole, Local, jobVars
  <2>7. QED
    BY <2>1, <2>3, <2>6, OthersWhole
<1>22. CASE UNCHANGED vars
  BY <1>22 DEF vars, Whole, Local
<1>23. QED
  BY <1>1, <1>2, <1>3, <1>4, <1>5, <1>6, <1>7, <1>8, <1>9, <1>10, <1>11, <1>12,
     <1>13, <1>14, <1>15, <1>16, <1>17, <1>18, <1>19, <1>20, <1>21, <1>22
     DEF Next, BackupStep

\* The inductive invariant of BackupWith: undisturbed last passes read a still
\* folder, and what they stage, zip and list mixes no two instants of it.
THEOREM Invariance == Spec => []IInv
<1>1. Init => \A k \in Jobs : Whole(k)
  BY BackupAssumption DEF Init, Whole
<1>2. (\A k \in Jobs : Whole(k)) => Quiet /\ StagedWhole /\ ZippedWhole /\ ListedWhole
  BY WholeParts
<1>3. (\A k \in Jobs : Whole(k)) /\ TypeOK => IInv
  BY <1>2 DEF IInv
<1>4. TypeOK /\ (\A k \in Jobs : Whole(k)) /\ [Next]_vars => (\A k \in Jobs : Whole(k))'
  BY WholeStep
<1>5. QED
  BY <1>1, <1>3, <1>4, TypeCorrect, PTL DEF Spec

\* The files of a backup offered for restore are of one instant of the folder,
\* unless something ran the app or wrote its folder under the last pass: with
\* containers that outlive their clients, and deletions and zips cut short.
THEOREM TornTheorem == Spec => []TornOnlyWhenDisturbed
<1>1. IInv => TornOnlyWhenDisturbed
  BY BackupAssumption DEF IInv, ListedWhole, TornOnlyWhenDisturbed, Listed
<1>2. QED
  BY <1>1, Invariance, PTL

-----------------------------------------------------------------------------
(* The app comes back *)

\* A job that owes the app its restart is at one of four stages, or Maison has died
\* under it: no way out of the stopped section goes past the deferred restart.
Owing(j) ==
  deferred[j] => pc[j] \in {"sync", "zip", "commit", "restart", "crashed"}

OwedOnTime == \A j \in Jobs : Owing(j)

Owes(j, place) == deferred[j] /\ pc[j] = place

Home(j) == ~deferred[j] \/ Killed(j)

\* Only its own steps and a kill move a job.
LEMMA OwnMoves ==
  ASSUME TypeOK, NEW j \in Jobs, [Next]_vars
  PROVE  \/ pc'[j] = pc[j] /\ deferred'[j] = deferred[j]
         \/ Begin(j) \/ BackupStep(j) \/ Crash
<1>1. CASE AppWrites \/ OperatorStarts \/ OperatorStops \/ OperatorSaves
  BY <1>1 DEF AppWrites, OperatorStarts, OperatorStops, OperatorSaves, jobVars
<1>2. ASSUME NEW k \in Jobs, k # j, Begin(k) \/ BackupStep(k)
      PROVE  pc'[j] = pc[j] /\ deferred'[j] = deferred[j]
  <2>1. CASE Begin(k)
    BY <1>2, <2>1 DEF Begin, Goto, TypeOK
  <2>2. CASE Copied(k) \/ Checked(k) \/ StopApp(k) \/ StopFails(k) \/ Synced(k)
    BY <1>2, <2>2 DEF Copied, Checked, StopApp, StopFails, Synced, Goto, TypeOK
  <2>3. CASE CopyFails(k) \/ SyncFails(k) \/ CommitFails(k)
    BY <1>2, <2>3 DEF CopyFails, SyncFails, PassFails, CommitFails, GiveUp, Goto, TypeOK
  <2>4. CASE Zipped(k) \/ Commit(k) \/ RestartApp(k) \/ Abort(k) \/ AbortFails(k)
    BY <1>2, <2>4 DEF Zipped, Commit, RestartApp, Abort, AbortFails, Goto, TypeOK
  <2>5. QED
    BY <1>2, <2>1, <2>2, <2>3, <2>4 DEF BackupStep
<1>3. ASSUME NEW k \in Jobs, Delete(k) \/ StrayEnds(k)
      PROVE  pc'[j] = pc[j] /\ deferred'[j] = deferred[j]
  BY <1>3 DEF Delete, StrayEnds, jobVars
<1>4. CASE UNCHANGED vars
  BY <1>4 DEF vars
<1>5. QED
  BY <1>1, <1>2, <1>3, <1>4 DEF Next

\* Where a job that owes a restart goes by a step of its own: nearer to it.
LEMMA DownMoves ==
  ASSUME TypeOK, NEW j \in Jobs, deferred[j], DownStep(j)
  PROVE  /\ pc[j] = "sync" => Owes(j, "zip")' \/ Owes(j, "commit")' \/ Owes(j, "restart")'
         /\ pc[j] = "zip" => Owes(j, "commit")' \/ Owes(j, "restart")'
         /\ pc[j] = "commit" => Owes(j, "restart")'
         /\ pc[j] = "restart" => ~deferred'[j]
<1>1. CASE Synced(j) \/ SyncFails(j)
  BY <1>1 DEF Synced, SyncFails, PassFails, GiveUp, Goto, Owes, TypeOK
<1>2. CASE Zipped(j) \/ Commit(j) \/ CommitFails(j)
  BY <1>2 DEF Zipped, Commit, CommitFails, GiveUp, Goto, Owes, TypeOK
<1>3. CASE RestartApp(j)
  BY <1>3 DEF RestartApp, TypeOK
<1>4. QED
  BY <1>1, <1>2, <1>3 DEF DownStep

\* A job at one of the stages stays there, goes nearer, or is killed.
LEMMA OwingMoves ==
  ASSUME TypeOK, NEW j \in Jobs, deferred[j], [Next]_vars,
         pc[j] \in {"sync", "zip", "commit", "restart"}
  PROVE  (pc'[j] = pc[j] /\ deferred'[j] = deferred[j]) \/ Killed(j)' \/ DownStep(j)
<1>1. ~Begin(j)
  BY DEF Begin
<1>2. CASE BackupStep(j)
  <2>1. /\ ~Copied(j) /\ ~CopyFails(j) /\ ~Checked(j) /\ ~StopApp(j) /\ ~StopFails(j)
        /\ ~Abort(j) /\ ~AbortFails(j)
    BY DEF Copied, CopyFails, Checked, StopApp, StopFails, Abort, AbortFails
  <2>2. QED
    BY <1>2, <2>1 DEF BackupStep, DownStep
<1>3. CASE Crash
  BY <1>3 DEF Crash, Active, Killed
<1>4. QED
  BY <1>1, <1>2, <1>3, OwnMoves

\* Whatever happens to Maison, its jobs and their app, a job that stopped the app has the
\* restart before it (BackupWith's defer).
THEOREM OwingTheorem == Spec => []OwedOnTime
<1>1. Init => OwedOnTime
  BY DEF Init, OwedOnTime, Owing
<1>2. TypeOK /\ OwedOnTime /\ [Next]_vars => OwedOnTime'
  <2> SUFFICES ASSUME TypeOK, \A k \in Jobs : Owing(k), [Next]_vars, NEW j \in Jobs
               PROVE  Owing(j)'
    BY DEF OwedOnTime
  <2>1. CASE deferred[j] /\ pc[j] \in {"sync", "zip", "commit", "restart"}
    <3>1. CASE DownStep(j)
      BY <2>1, <3>1, DownMoves DEF Owes, Owing
    <3>2. QED
      BY <2>1, <3>1, OwingMoves DEF Owing, Killed
  <2>2. CASE deferred[j] /\ pc[j] = "crashed"
    <3>1. ~Begin(j) /\ ~BackupStep(j)
      BY <2>2 DEF Begin, BackupStep, Copied, CopyFails, Checked, StopApp, StopFails, Synced,
                  SyncFails, Zipped, Commit, CommitFails, RestartApp, Abort, AbortFails
    <3>2. Crash => pc'[j] = pc[j]
      BY <2>2 DEF Crash, Active
    <3>3. QED
      BY <2>2, <3>1, <3>2, OwnMoves DEF Owing
  <2>3. CASE ~deferred[j]
    <3>1. StopApp(j) => pc'[j] = "sync"
      BY DEF StopApp, Goto, TypeOK
    <3>2. StopApp(j) \/ deferred'[j] = deferred[j] \/ ~deferred'[j]
      <4>1. CASE BackupStep(j)
        BY <4>1, <2>3 DEF BackupStep, Copied, CopyFails, Checked, StopFails, Synced, SyncFails,
             PassFails, Zipped, Commit, CommitFails, RestartApp, Abort, AbortFails, TypeOK
      <4>2. CASE Begin(j) \/ Crash
        BY <4>2 DEF Begin, Crash
      <4>3. QED
        BY <4>1, <4>2, OwnMoves
    <3>3. QED
      BY <2>3, <3>1, <3>2 DEF Owing
  <2>4. QED
    BY <2>1, <2>2, <2>3 DEF Owing
<1>3. QED
  BY <1>1, <1>2, TypeCorrect, PTL DEF Spec

\* Every stage is left, towards the restart or by Maison's death, as long as its step is
\* not blocked.
LEMMA StageLeft ==
  ASSUME NEW j \in Jobs
  PROVE  Spec /\ []DownGoesOn =>
           /\ Owes(j, "restart") ~> Home(j)
           /\ Owes(j, "commit") ~> Owes(j, "restart") \/ Home(j)
           /\ Owes(j, "zip") ~> Owes(j, "commit") \/ Owes(j, "restart") \/ Home(j)
           /\ Owes(j, "sync") ~>
                Owes(j, "zip") \/ Owes(j, "commit") \/ Owes(j, "restart") \/ Home(j)
<1> DEFINE Can == ENABLED <<DownStep(j)>>_vars
<1>1. DownGoesOn =>
        /\ Owes(j, "restart") => Can
        /\ Owes(j, "commit") => Can
        /\ Owes(j, "zip") => Can
        /\ Owes(j, "sync") => Can
  BY DEF DownGoesOn, Owes, Killed
<1>2. TypeOK /\ [Next]_vars =>
        /\ Owes(j, "restart") => Owes(j, "restart")' \/ Home(j)'
        /\ Owes(j, "commit") => Owes(j, "commit")' \/ Owes(j, "restart")' \/ Home(j)'
        /\ Owes(j, "zip") =>
             Owes(j, "zip")' \/ Owes(j, "commit")' \/ Owes(j, "restart")' \/ Home(j)'
        /\ Owes(j, "sync") =>
             Owes(j, "sync")' \/ Owes(j, "zip")' \/ Owes(j, "commit")' \/ Owes(j, "restart")'
             \/ Home(j)'
  BY OwingMoves, DownMoves DEF Owes, Home
<1>3. TypeOK /\ <<DownStep(j)>>_vars =>
        /\ Owes(j, "restart") => Home(j)'
        /\ Owes(j, "commit") => Owes(j, "restart")'
        /\ Owes(j, "zip") => Owes(j, "commit")' \/ Owes(j, "restart")'
        /\ Owes(j, "sync") => Owes(j, "zip")' \/ Owes(j, "commit")' \/ Owes(j, "restart")'
  BY DownMoves DEF Owes, Home
<1>4. Fairness => Fair(j)
  BY DEF Fairness
<1>5. QED
  BY <1>1, <1>2, <1>3, <1>4, TypeCorrect, PTL DEF Spec, Fair

\* An app that a backup has stopped is started again, whatever fails, unless Maison is
\* killed first: any number of backups, containers and faults.  The hypothesis, that no
\* stage of the stopped section blocks, is the invariant the run checks.
THEOREM ComesBackTheorem == Spec /\ []DownGoesOn => AppComesBack
<1> SUFFICES ASSUME NEW j \in Jobs PROVE Spec /\ []DownGoesOn => ComesBack(j)
  BY DEF AppComesBack
<1>1. OwedOnTime =>
        (deferred[j] => \/ Owes(j, "sync") \/ Owes(j, "zip") \/ Owes(j, "commit")
                        \/ Owes(j, "restart") \/ Home(j))
  BY DEF OwedOnTime, Owing, Owes, Home, Killed
<1>2. Home(j) => ~deferred[j] \/ Killed(j)
  BY DEF Home
<1>3. Spec /\ []DownGoesOn =>
        /\ Owes(j, "restart") ~> Home(j)
        /\ Owes(j, "commit") ~> Owes(j, "restart") \/ Home(j)
        /\ Owes(j, "zip") ~> Owes(j, "commit") \/ Owes(j, "restart") \/ Home(j)
        /\ Owes(j, "sync") ~>
             Owes(j, "zip") \/ Owes(j, "commit") \/ Owes(j, "restart") \/ Home(j)
  BY StageLeft
<1>4. QED
  BY <1>1, <1>2, <1>3, OwingTheorem, PTL DEF ComesBack

-----------------------------------------------------------------------------
(* What a failed backup leaves *)

\* Each engine stores in its own place, an archive is a committed one's, a committed job
\* cannot fail any more, and a failed one has removed what it had stored, unless its
\* container went on without it.
Clean(j) ==
  /\ Local(j) => snaps[j] = <<None, None>> /\ stray[j] = "none"
  /\ ~Local(j) => staging[j] = None
  /\ archive[j] # None => committed[j]
  /\ committed[j] => pc[j] \in {"restart", "done", "crashed"}
  /\ pc[j] = "failed" => staging[j] = None
  /\ pc[j] = "failed" /\ stray[j] = "none" => snaps[j] = <<None, None>>

\* What Clean(k) says of another job.
Away(j) ==
  \A k \in Jobs \ {j} :
    /\ pc'[k] = pc[k] /\ kind'[k] = kind[k] /\ committed'[k] = committed[k]
    /\ staging'[k] = staging[k] /\ archive'[k] = archive[k] /\ snaps'[k] = snaps[k]
    /\ stray'[k] = stray[k]

LEMMA AwayClean ==
  ASSUME NEW j \in Jobs, \A k \in Jobs : Clean(k), Away(j), Clean(j)'
  PROVE  \A k \in Jobs : Clean(k)'
<1> SUFFICES ASSUME NEW k \in Jobs \ {j} PROVE Clean(k)'
  OBVIOUS
<1> QED BY DEF Clean, Away, Local

\* A job that has not committed goes on from a pass, having stored what the pass gave.
LEMMA PassClean ==
  ASSUME TypeOK, NEW j \in Jobs, \A k \in Jobs : Clean(k), NEW n \in {1, 2}, NEW c,
         Keep(j, n, c) \/ UNCHANGED <<staging, snaps>>,
         UNCHANGED <<kind, committed, archive>>, ~committed[j],
         UNCHANGED stray \/ (~Local(j) /\ Outlives(j, n)),
         NEW place, place # "failed", Goto(j, place)
  PROVE  \A k \in Jobs : Clean(k)'
<1>1. /\ Local(j) => snaps' = snaps
      /\ ~Local(j) => staging'[j] = staging[j]
      /\ \A k \in Jobs \ {j} : staging'[k] = staging[k] /\ snaps'[k] = snaps[k]
  BY KeepFrame
<1>2. pc'[j] = place /\ \A k \in Jobs \ {j} : pc'[k] = pc[k]
  BY DEF Goto, TypeOK
<1>3. /\ \A k \in Jobs \ {j} : stray'[k] = stray[k]
      /\ Local(j) => stray'[j] = stray[j]
  BY DEF Outlives, TypeOK
<1>4. Away(j)
  BY <1>1, <1>2, <1>3 DEF Away
<1>5. Clean(j)'
  BY <1>1, <1>2, <1>3 DEF Clean, Local
<1> QED BY <1>4, <1>5, AwayClean

LEMMA CleanStep ==
  TypeOK /\ (\A k \in Jobs : Clean(k)) /\ [Next]_vars => \A k \in Jobs : Clean(k)'
<1> SUFFICES ASSUME TypeOK, \A k \in Jobs : Clean(k), [Next]_vars
             PROVE  \A k \in Jobs : Clean(k)'
  OBVIOUS
<1>1. CASE AppWrites \/ OperatorStarts \/ OperatorStops \/ OperatorSaves \/ UNCHANGED vars
  <2>1. UNCHANGED <<jobVars, storeVars, stray>>
    BY <1>1 DEF AppWrites, OperatorStarts, OperatorStops, OperatorSaves, vars, jobVars, storeVars
  <2> QED BY <2>1 DEF jobVars, storeVars, Clean, Local
<1>2. CASE Crash
  <2> SUFFICES ASSUME NEW k \in Jobs PROVE Clean(k)'
    OBVIOUS
  <2>1. UNCHANGED <<kind, committed, archive, snaps>>
    BY <1>2 DEF Crash
  <2>2. /\ ~Local(k) => staging'[k] = staging[k]
        /\ Local(k) => stray'[k] = stray[k]
    BY <1>2 DEF Crash, CutStaging, Local
  <2>3. /\ pc'[k] = "failed" => pc[k] = "failed"
        /\ pc[k] \in {"restart", "done", "crashed"} => pc'[k] \in {"done", "crashed"}
    BY <1>2 DEF Crash, Active
  <2>4. pc[k] = "failed" => staging'[k] = staging[k] /\ stray'[k] = stray[k]
    BY <1>2 DEF Crash, CutStaging
  <2> QED BY <2>1, <2>2, <2>3, <2>4 DEF Clean, Local
<1>3. ASSUME NEW j \in Jobs, Begin(j) \/ Checked(j) \/ StopApp(j) \/ StopFails(j) \/ Zipped(j)
      PROVE  \A k \in Jobs : Clean(k)'
  <2>1. UNCHANGED <<kind, committed, staging, archive, snaps, stray>>
    BY <1>3 DEF Begin, Checked, StopApp, StopFails, Zipped, storeVars
  <2>2. ~committed[j]
    BY <1>3 DEF Begin, Checked, StopApp, StopFails, Zipped, Clean
  <2>3. PICK place \in {"copy", "stop", "sync", "abort", "commit"} : Goto(j, place)
    BY <1>3 DEF Begin, Checked, StopApp, StopFails, Zipped
  <2> QED BY <2>1, <2>2, <2>3, PassClean
<1>4. ASSUME NEW j \in Jobs, Copied(j) \/ CopyFails(j) \/ Synced(j) \/ SyncFails(j)
      PROVE  \A k \in Jobs : Clean(k)'
  <2>1. UNCHANGED <<kind, committed, archive>>
    BY <1>4 DEF Copied, CopyFails, Synced, SyncFails, PassFails
  <2>2. ~committed[j]
    BY <1>4 DEF Copied, CopyFails, Synced, SyncFails, Clean
  <2>3. PICK place \in {"check", "zip", "commit", "restart", "abort"} : Goto(j, place)
    BY <1>4 DEF Copied, CopyFails, Synced, SyncFails, PassFails, GiveUp
  <2>4. \E n \in {1, 2}, c \in {Torn, Read(stamp[j]), Read(from[j])} :
          /\ Keep(j, n, c) \/ UNCHANGED <<staging, snaps>>
          /\ UNCHANGED stray \/ (~Local(j) /\ Outlives(j, n))
    BY <1>4 DEF Copied, CopyFails, Synced, SyncFails, PassFails
  <2> QED BY <2>1, <2>2, <2>3, <2>4, PassClean
<1>5. ASSUME NEW j \in Jobs, Commit(j) PROVE \A k \in Jobs : Clean(k)'
  <2>1. /\ committed'[j] /\ pc'[j] \in {"restart", "done"} /\ kind' = kind /\ stray' = stray
        /\ \A k \in Jobs \ {j} : pc'[k] = pc[k] /\ committed'[k] = committed[k]
    BY <1>5 DEF Commit, Goto, TypeOK
  <2>2. CASE CommitLocal(j)
    <3>1. Away(j)
      BY <2>1, <2>2 DEF CommitLocal, CommitFolder, CommitZip, Away, TypeOK
    <3>2. Local(j) /\ snaps' = snaps
      BY <2>2 DEF CommitLocal, CommitFolder, CommitZip, Local
    <3>3. Clean(j)'
      BY <2>1, <3>2 DEF Clean, Local
    <3> QED BY <3>1, <3>3, AwayClean
  <2>3. CASE CommitKopia(j)
    <3>1. snaps' = snaps \/ snaps' = [snaps EXCEPT ![j] = [snaps[j] EXCEPT ![1] = None]]
      BY <2>3 DEF CommitKopia
    <3>2. \A k \in Jobs \ {j} : snaps'[k] = snaps[k]
      BY <3>1 DEF TypeOK
    <3>3. ~Local(j) /\ UNCHANGED <<staging, archive>>
      BY <2>3 DEF CommitKopia
    <3>4. Clean(j)'
      BY <2>1, <3>3 DEF Clean, Local
    <3> QED BY <2>1, <3>2, <3>3, <3>4, AwayClean DEF Away
  <2> QED BY <1>5, <2>2, <2>3 DEF Commit
<1>6. ASSUME NEW j \in Jobs, CommitFails(j) PROVE \A k \in Jobs : Clean(k)'
  <2>1. UNCHANGED <<kind, committed, staging, archive, stray>> /\ ~committed[j]
    BY <1>6 DEF CommitFails, Clean
  <2>2. /\ pc'[j] \in {"restart", "abort"}
        /\ \A k \in Jobs \ {j} : pc'[k] = pc[k]
    BY <1>6 DEF CommitFails, GiveUp, Goto, TypeOK
  <2>3. /\ \A k \in Jobs \ {j} : snaps'[k] = snaps[k]
        /\ Local(j) => snaps' = snaps
    BY <1>6 DEF CommitFails, TypeOK
  <2>4. Clean(j)'
    BY <2>1, <2>2, <2>3 DEF Clean, Local
  <2> QED BY <2>1, <2>2, <2>3, <2>4, AwayClean DEF Away
<1>7. ASSUME NEW j \in Jobs, RestartApp(j) PROVE \A k \in Jobs : Clean(k)'
  <2>1. UNCHANGED <<kind, committed, staging, archive, snaps, stray>>
    BY <1>7 DEF RestartApp, storeVars
  <2>2. /\ pc'[j] = IF committed[j] THEN "done" ELSE "abort"
        /\ \A k \in Jobs \ {j} : pc'[k] = pc[k]
    BY <1>7 DEF RestartApp, Goto, TypeOK
  <2>3. Clean(j)'
    BY <2>1, <2>2 DEF Clean, Local
  <2> QED BY <2>1, <2>2, <2>3, AwayClean DEF Away
<1>8. ASSUME NEW j \in Jobs, Abort(j) PROVE \A k \in Jobs : Clean(k)'
  <2>1. UNCHANGED <<kind, committed, archive, stray>> /\ ~committed[j]
    BY <1>8 DEF Abort, Clean
  <2>2. pc'[j] = "failed" /\ \A k \in Jobs \ {j} : pc'[k] = pc[k]
    BY <1>8 DEF Abort, Goto, TypeOK
  <2>3. /\ staging'[j] = None /\ snaps'[j] = <<None, None>>
        /\ \A k \in Jobs \ {j} : staging'[k] = staging[k] /\ snaps'[k] = snaps[k]
    <3>1. CASE Local(j)
      <4>1. snaps[j] = <<None, None>>
        BY <3>1 DEF Clean
      <4> QED BY <1>8, <3>1, <4>1 DEF Abort, TypeOK
    <3>2. CASE ~Local(j)
      <4>1. staging[j] = None
        BY <3>2 DEF Clean
      <4> QED BY <1>8, <3>2, <4>1 DEF Abort, TypeOK
    <3> QED BY <3>1, <3>2
  <2>4. Clean(j)'
    BY <2>1, <2>2, <2>3 DEF Clean, Local
  <2> QED BY <2>1, <2>2, <2>3, <2>4, AwayClean DEF Away
<1>9. ASSUME NEW j \in Jobs, AbortFails(j) PROVE \A k \in Jobs : Clean(k)'
  <2>1. UNCHANGED <<kind, committed, archive, stray>> /\ ~committed[j]
    BY <1>9 DEF AbortFails, Clean
  <2>2. pc'[j] = "dirty" /\ \A k \in Jobs \ {j} : pc'[k] = pc[k]
    BY <1>9 DEF AbortFails, Goto, TypeOK
  <2>3. /\ \A k \in Jobs \ {j} : snaps'[k] = snaps[k] /\ staging'[k] = staging[k]
        /\ Local(j) => snaps' = snaps
        /\ ~Local(j) => staging' = staging
    BY <1>9, DropFrame DEF AbortFails, TypeOK
  <2>4. Clean(j)'
    BY <2>1, <2>2, <2>3 DEF Clean, Local
  <2> QED BY <2>1, <2>2, <2>3, <2>4, AwayClean DEF Away
<1>10. ASSUME NEW j \in Jobs, Delete(j) PROVE \A k \in Jobs : Clean(k)'
  <2>1. UNCHANGED <<pc, kind, committed, staging, stray>>
    BY <1>10 DEF Delete, jobVars
  <2>2. DeletedFrame(j)
    BY <1>10, DeleteFrame
  <2>3. Local(j) => archive[j] # None /\ snaps' = snaps
    BY <1>10 DEF Delete, DeleteFolder, DeleteZip, DeleteSnaps, Local, Listed
  <2>4. ~Local(j) => snaps[j][2] # None /\ archive' = archive
    BY <1>10 DEF Delete, DeleteFolder, DeleteZip, DeleteSnaps, Local, Listed
  <2>5. Clean(j)'
    BY <2>1, <2>2, <2>3, <2>4 DEF Clean, Local
  <2> QED BY <2>1, <2>2, <2>5, AwayClean DEF Away, DeletedFrame
<1>11. ASSUME NEW j \in Jobs, StrayEnds(j) PROVE \A k \in Jobs : Clean(k)'
  <2>1. /\ UNCHANGED <<pc, kind, committed, staging, archive>>
        /\ stray[j] \in {"first", "last"} /\ stray'[j] = "over"
        /\ \A k \in Jobs \ {j} : stray'[k] = stray[k]
    BY <1>11 DEF StrayEnds, jobVars, TypeOK
  <2>2. StrayFrame(j)
    BY <1>11, StrayLeaves
  <2>3. Clean(j)'
    BY <2>1 DEF Clean, Local
  <2> QED BY <2>1, <2>2, <2>3, AwayClean DEF Away, StrayFrame
<1> QED BY <1>1, <1>2, <1>3, <1>4, <1>5, <1>6, <1>7, <1>8, <1>9, <1>10, <1>11
    DEF Next, BackupStep

\* A backup that ended without committing and could run its Abort leaves nothing behind that
\* is listed or staged, on disk or in the repository, at whatever step it failed (BackupWith's
\* deferred Abort), unless its engine's container went on without a client.
THEOREM LeavesNothingTheorem == Spec => []FailedLeavesNothing
<1>1. Init => \A k \in Jobs : Clean(k)
  BY DEF Init, Clean
<1>2. (\A k \in Jobs : Clean(k)) => FailedLeavesNothing
  <2> SUFFICES ASSUME NEW k \in Jobs, Clean(k), pc[k] = "failed", stray[k] = "none"
               PROVE  staging[k] = None /\ Listed(k) = None /\ snaps[k] = <<None, None>>
    BY DEF FailedLeavesNothing
  <2>1. archive[k] = None /\ staging[k] = None /\ snaps[k] = <<None, None>>
    BY DEF Clean
  <2> QED BY <2>1 DEF Listed
<1>3. TypeOK /\ (\A k \in Jobs : Clean(k)) /\ [Next]_vars => (\A k \in Jobs : Clean(k))'
  BY CleanStep
<1> QED BY <1>1, <1>2, <1>3, TypeCorrect, PTL DEF Spec

-----------------------------------------------------------------------------
(* The two-pass backup implements BackupPromise.  Beside the invariant above  *)
(* the argument needs each job's History: when its stamp and its last pass    *)
(* began, and that nothing is listed under the stamp before the commit point. *)

History(j) ==
  /\ stamp[j] <= gen
  /\ pc[j] = "sync" \/ stray[j] = "last" => stamp[j] <= from[j] /\ from[j] <= gen
  /\ committed[j] => pc[j] \in {"restart", "done", "crashed"}
  /\ ~committed[j] => archive[j] = None
  /\ pc[j] \in {"idle", "copy", "check", "stop", "sync"} \/ stray[j] = "last"
       => snaps[j][2] = None
  /\ stray[j] # "none" => ~committed[j] /\ pc[j] \in {"restart", "abort", "failed", "dirty",
                                                     "crashed"}
  /\ pc[j] \in {"zip", "commit"} /\ Local(j)
       => staging[j] \in (stamp[j] .. gen) \cup {Torn}
  /\ pc[j] = "commit" /\ kind[j] = "zip"
       => tmp[j] \in (stamp[j] .. gen) \cup {Torn, Part}

\* Everything the two invariants know of job j.
Sound(j) == Whole(j) /\ History(j)

-----------------------------------------------------------------------------
(* What a step does to one job, in the promise's terms *)

StampKept(j) ==
  \/ stamp'[j] = stamp[j]
  \/ Outcome(j) = "idle" /\ Outcome(j)' = "running" /\ stamp'[j] = gen

ListedKept(j) ==
  \/ Listed(j)' = Listed(j)
  \/ Listed(j) # None /\ Listed(j)' \in {None, Part}
  \/ /\ Listed(j) = None
     /\ Outcome(j) \in {"running", "lost"} \/ stray[j] # "none"
     /\ \/ Listed(j)' \in stamp[j] .. gen
        \/ Listed(j)' = Torn /\ disturbed[j]
        \/ Listed(j)' = Part /\ Outcome(j) = "running" /\ Outcome(j)' = "ok"

OutcomeKept(j) ==
  \/ Outcome(j)' = Outcome(j)
  \/ Outcome(j) = "idle" /\ Outcome(j)' = "running"
  \/ Outcome(j) = "running" /\ Outcome(j)' = "ok" /\ Listed(j)' # None
  \/ Outcome(j) = "running" /\ Outcome(j)' \in {"failed", "lost"}

Kept(j) ==
  /\ StampKept(j) /\ ListedKept(j) /\ OutcomeKept(j)
  /\ stray[j] # "none" => stray'[j] # "none"
  /\ disturbed[j] => disturbed'[j]

\* When every job's part of a step is allowed, the promise makes a step.
LEMMA KeptIsPromised ==
  ASSUME gen' \in {gen, gen + 1}, \A j \in Jobs : Kept(j)
  PROVE  Promise!Next
<1> SUFFICES ASSUME NEW j \in Jobs
             PROVE  /\ Promise!StampStep(j) /\ Promise!ListedStep(j)
                    /\ Promise!OutcomeStep(j) /\ (disturbed[j] => disturbed'[j])
                    /\ stray[j] # "none" => stray'[j] # "none"
  BY DEF Promise!Next
<1>1. Promise!StampStep(j)
  BY DEF Promise!StampStep, Kept, StampKept
<1>2. Promise!ListedStep(j)
  BY DEF Promise!ListedStep, Promise!TakenAway, Promise!Offered, Promise!Instants,
         Kept, ListedKept
<1>3. Promise!OutcomeStep(j)
  BY DEF Promise!OutcomeStep, Kept, OutcomeKept
<1>4. QED
  BY <1>1, <1>2, <1>3 DEF Kept

-----------------------------------------------------------------------------

\* Outcome in the places a job can be.
LEMMA OutcomeOf ==
  ASSUME NEW j \in Jobs
  PROVE  /\ pc[j] = "idle" => Outcome(j) = "idle"
         /\ pc[j] # "idle" /\ committed[j] => Outcome(j) = "ok"
         /\ pc[j] \in {"failed", "dirty"} /\ ~committed[j] => Outcome(j) = "failed"
         /\ pc[j] = "crashed" /\ ~committed[j] => Outcome(j) = "lost"
         /\ pc[j] \in Active /\ ~committed[j] => Outcome(j) = "running"
BY DEF Outcome, Active

\* What a job's caller is told, from where the job comes to stand.
LEMMA OutcomeOfNext ==
  ASSUME NEW j \in Jobs
  PROVE  /\ pc'[j] = "idle" => Outcome(j)' = "idle"
         /\ pc'[j] # "idle" /\ committed'[j] => Outcome(j)' = "ok"
         /\ pc'[j] \in {"failed", "dirty"} /\ ~committed'[j] => Outcome(j)' = "failed"
         /\ pc'[j] = "crashed" /\ ~committed'[j] => Outcome(j)' = "lost"
         /\ pc'[j] \in Active /\ ~committed'[j] => Outcome(j)' = "running"
BY DEF Outcome, Active

-----------------------------------------------------------------------------

\* The step leaves job k's own state alone.
Same(k) ==
  /\ pc'[k] = pc[k] /\ kind'[k] = kind[k] /\ stamp'[k] = stamp[k]
  /\ from'[k] = from[k] /\ committed'[k] = committed[k] /\ staging'[k] = staging[k]
  /\ archive'[k] = archive[k] /\ snaps'[k] = snaps[k]
  /\ tmp'[k] = tmp[k] /\ stray'[k] = stray[k]
  /\ disturbed[k] => disturbed'[k]

\* A job whose own state does not change keeps its history and its promise.
LEMMA SameKept ==
  ASSUME TypeOK, NEW k \in Jobs, History(k), Same(k), gen' \in {gen, gen + 1}
  PROVE  History(k)' /\ Kept(k)
<1>1. Outcome(k)' = Outcome(k) /\ Listed(k)' = Listed(k)
  BY DEF Same, Outcome, Listed, Local
<1>2. Kept(k)
  BY <1>1 DEF Same, Kept, StampKept, ListedKept, OutcomeKept
<1>3. stamp[k] \in Nat /\ gen \in Nat /\ from[k] \in Nat
  BY DEF TypeOK
<1>4. History(k)'
  BY <1>3 DEF Same, History, Local
<1>5. QED
  BY <1>2, <1>4

\* What Read returns when the reading began at g.
LEMMA ReadInstant ==
  ASSUME TypeOK, NEW s \in Nat, NEW g \in Nat, s <= g, g <= gen
  PROVE  Read(g) \in (s .. gen) \cup {Torn}
BY DEF TypeOK, Read

\* A step of job j alone that the promise cannot see: the pass keeps its word,
\* nothing becomes listed, and the job is still running.
LEMMA Unseen ==
  ASSUME TypeOK, NEW j \in Jobs, pc[j] \in Active, pc'[j] \in Active,
         committed' = committed, ~committed[j], stamp' = stamp, Listed(j)' = Listed(j),
         stray[j] # "none" => stray'[j] # "none", disturbed[j] => disturbed'[j]
  PROVE  Kept(j)
<1>1. Outcome(j) = "running" /\ Outcome(j)' = "running"
  BY OutcomeOf, OutcomeOfNext
<1>2. QED
  BY <1>1 DEF Kept, StampKept, ListedKept, OutcomeKept

\* Nothing was kept for pass 2, so nothing changed in what is listed.
LEMMA KeepFirst ==
  ASSUME TypeOK, NEW j \in Jobs, NEW c, kind' = kind, archive' = archive,
         Keep(j, 1, c) \/ UNCHANGED <<staging, snaps>>
  PROVE  Listed(j)' = Listed(j) /\ snaps'[j][2] = snaps[j][2]
BY KeepFrame DEF Listed, Local
-----------------------------------------------------------------------------

\* A job's own step keeps its history and its promise.
Own(j) == History(j)' /\ Kept(j)

\* A backup takes its stamp: nothing is offered yet.
LEMMA OwnBegin ==
  ASSUME TypeOK, NEW j \in Jobs, Sound(j), Begin(j) PROVE Own(j)
<1>1. /\ pc[j] = "idle" /\ pc'[j] = "copy" /\ stamp'[j] = gen /\ gen' = gen
      /\ UNCHANGED <<kind, committed, archive, snaps, stray, disturbed>>
  BY DEF Begin, Goto, appVars, storeVars, TypeOK
<1>2. ~committed[j]
  BY <1>1 DEF Sound, History
<1>3. Outcome(j) = "idle" /\ Outcome(j)' = "running" /\ Listed(j)' = Listed(j)
  BY <1>1, <1>2, OutcomeOf, OutcomeOfNext DEF Active, Listed, Local
<1>4. Kept(j)
  BY <1>1, <1>3 DEF Kept, StampKept, ListedKept, OutcomeKept
<1>5. History(j)'
  BY <1>1, <1>2 DEF Sound, History, TypeOK
<1>6. QED
  BY <1>4, <1>5 DEF Own

\* Pass 1 may leave a snapshot, which is not offered.
LEMMA OwnPassOne ==
  ASSUME TypeOK, NEW j \in Jobs, Sound(j), Copied(j) \/ CopyFails(j) PROVE Own(j)
<1>1. /\ pc[j] = "copy" /\ pc'[j] \in {"check", "restart", "abort"} /\ gen' = gen
      /\ UNCHANGED <<kind, stamp, from, committed, archive, disturbed>>
      /\ stray'[j] = stray[j] \/ (stray'[j] = "first" /\ pc'[j] \in {"restart", "abort"})
  BY DEF Copied, CopyFails, PassFails, Outlives, GiveUp, Goto, appVars, TypeOK
<1>2. ~committed[j] /\ snaps[j][2] = None /\ stray[j] = "none"
  BY <1>1 DEF Sound, History
<1>3. \/ Keep(j, 1, Read(stamp[j])) \/ Keep(j, 1, Torn) \/ UNCHANGED <<staging, snaps>>
  BY DEF Copied, CopyFails, PassFails
<1>4. Listed(j)' = Listed(j) /\ snaps'[j][2] = snaps[j][2]
  BY <1>1, <1>3, KeepFirst
<1>5. Kept(j)
  BY <1>1, <1>2, <1>4, Unseen DEF Active
<1>6. History(j)'
  BY <1>1, <1>2, <1>4 DEF Sound, History
<1>7. QED
  BY <1>5, <1>6 DEF Own

\* Asking for the app and stopping it offer nothing.
LEMMA OwnDown ==
  ASSUME TypeOK, NEW j \in Jobs, Sound(j), Checked(j) \/ StopApp(j) \/ StopFails(j)
  PROVE  Own(j)
<1>1. /\ pc[j] \in {"check", "stop"} /\ pc'[j] \in {"stop", "sync", "abort"}
      /\ gen' = gen
      /\ pc'[j] = "sync" => from'[j] = gen
      /\ UNCHANGED <<kind, stamp, committed, staging, archive, snaps, stray>>
      /\ disturbed[j] => disturbed'[j]
  BY DEF Checked, StopApp, StopFails, Goto, appVars, storeVars, TypeOK
<1>2. ~committed[j] /\ snaps[j][2] = None /\ stray[j] = "none"
  BY <1>1 DEF Sound, History
<1>3. Listed(j)' = Listed(j)
  BY <1>1 DEF Listed, Local
<1>4. Kept(j)
  BY <1>1, <1>2, <1>3, Unseen DEF Active
<1>5. History(j)'
  <2>1. stamp[j] \in Nat /\ gen \in Nat /\ stamp[j] <= gen
    BY DEF TypeOK, Sound, History
  <2>2. ~committed'[j] /\ archive'[j] = archive[j] /\ snaps'[j][2] = None
    BY <1>1, <1>2
  <2>3. archive[j] = None
    BY <1>2 DEF Sound, History
  <2>4. pc'[j] = "sync" => stamp'[j] <= from'[j] /\ from'[j] <= gen'
    BY <1>1, <2>1
  <2>5. stray'[j] = "none"
    BY <1>1, <1>2
  <2>6. QED
    BY <1>1, <2>1, <2>2, <2>3, <2>4, <2>5 DEF History
<1>6. QED
  BY <1>4, <1>5 DEF Own

\* Pass 2, by the job or by the container it left behind: what is kept is an
\* instant after the stamp, or Torn and then the pass was disturbed.
LEMMA PassTwoReads ==
  ASSUME TypeOK, NEW j \in Jobs, Sound(j), pc[j] = "sync" \/ stray[j] = "last"
  PROVE  /\ Read(from[j]) \in (stamp[j] .. gen) \cup {Torn}
         /\ Read(from[j]) = Torn => disturbed[j]
<1>1. stamp[j] \in Nat /\ from[j] \in Nat /\ gen \in Nat
  BY DEF TypeOK
<1>2. stamp[j] <= from[j] /\ from[j] <= gen
  BY DEF Sound, History
<1>3. ~disturbed[j] => Read(from[j]) # Torn
  BY <1>1, StillRead DEF Sound, Whole
<1>4. QED
  BY <1>1, <1>2, <1>3, ReadInstant

\* Pass 2 stages or stores contents the folder had since the stamp.
LEMMA OwnPassTwo ==
  ASSUME TypeOK, NEW j \in Jobs, Sound(j), Synced(j) \/ SyncFails(j) PROVE Own(j)
<1>1. /\ pc[j] = "sync" /\ pc'[j] \in {"zip", "commit", "restart", "abort"}
      /\ gen' = gen /\ UNCHANGED <<kind, stamp, from, committed, archive, disturbed>>
      /\ pc'[j] = "commit" => kind[j] # "zip"
      /\ \/ stray'[j] = stray[j]
         \/ /\ stray'[j] = "last" /\ pc'[j] \in {"restart", "abort"}
            /\ UNCHANGED <<staging, snaps>>
  BY DEF Synced, SyncFails, PassFails, Outlives, GiveUp, Goto, appVars, TypeOK
<1>2. ~committed[j] /\ snaps[j][2] = None /\ stamp[j] <= gen /\ archive[j] = None
      /\ stray[j] = "none" /\ stamp[j] <= from[j] /\ from[j] <= gen
  BY <1>1 DEF Sound, History
<1>3. \/ Keep(j, 2, Read(from[j]))
      \/ pc'[j] \in {"restart", "abort"}
           /\ ((Local(j) /\ Keep(j, 2, Torn)) \/ UNCHANGED <<staging, snaps>>)
  BY DEF Synced, SyncFails, PassFails, GiveUp, Goto, TypeOK
<1>4. /\ Read(from[j]) \in (stamp[j] .. gen) \cup {Torn}
      /\ Read(from[j]) = Torn => disturbed[j]
  BY <1>1, PassTwoReads
<1>5. Outcome(j) = "running" /\ Outcome(j)' = "running"
  BY <1>1, <1>2, OutcomeOf, OutcomeOfNext DEF Active
<1>6. ListedKept(j)
  <2>1. CASE Local(j)
    BY <1>1, <2>1 DEF ListedKept, Listed, Local
  <2>2. CASE ~Local(j)
    <3>1. Listed(j) = None /\ Listed(j)' = snaps'[j][2]
      BY <1>1, <1>2, <2>2 DEF Listed, Local
    <3>2. snaps'[j][2] \in {Read(from[j]), None}
      BY <1>2, <1>3, <2>2, KeepFrame
    <3>3. QED
      BY <1>4, <1>5, <3>1, <3>2 DEF ListedKept
  <2>3. QED
    BY <2>1, <2>2
<1>7. Kept(j)
  BY <1>1, <1>2, <1>5, <1>6 DEF Kept, StampKept, OutcomeKept
<1>8. History(j)'
  <2>1. pc'[j] \in {"zip", "commit"} /\ Local(j) => staging'[j] = Read(from[j])
    BY <1>1, <1>3, KeepFrame
  <2>2. QED
    BY <1>1, <1>2, <1>4, <2>1 DEF History, Local
<1>9. QED
  BY <1>7, <1>8 DEF Own

\* A container that outlives its client may store a snapshot, never more.
LEMMA OwnStray ==
  ASSUME TypeOK, NEW j \in Jobs, Sound(j), StrayEnds(j) PROVE Own(j)
<1>1. /\ stray[j] \in {"first", "last"} /\ stray'[j] = "over" /\ gen' = gen
      /\ UNCHANGED <<pc, kind, stamp, from, committed, archive, disturbed>>
  BY DEF StrayEnds, appVars, jobVars, TypeOK
<1>2. /\ ~committed[j] /\ stamp[j] <= gen /\ archive[j] = None
      /\ pc[j] \in {"restart", "abort", "failed", "dirty", "crashed"}
  BY <1>1 DEF Sound, History
<1>3. Outcome(j)' = Outcome(j)
  BY <1>1 DEF Outcome
<1>4. ListedKept(j)
  <2>1. StrayFrame(j)
    BY StrayLeaves
  <2>2. CASE Local(j) \/ snaps'[j][2] = snaps[j][2]
    BY <1>1, <2>2 DEF ListedKept, Listed, Local
  <2>3. CASE ~Local(j) /\ stray[j] = "last" /\ snaps'[j][2] = Read(from[j])
    <3>1. Listed(j) = None /\ Listed(j)' = Read(from[j])
      BY <1>1, <2>3 DEF Sound, History, Listed, Local
    <3>2. QED
      BY <2>3, <3>1, PassTwoReads DEF ListedKept
  <2>4. QED
    BY <2>1, <2>2, <2>3 DEF StrayFrame
<1>5. Kept(j)
  BY <1>1, <1>3, <1>4 DEF Kept, StampKept, OutcomeKept
<1>6. History(j)'
  BY <1>1, <1>2 DEF History
<1>7. QED
  BY <1>5, <1>6 DEF Own

\* Compressing, and commits that fail, offer nothing.
LEMMA OwnZip ==
  ASSUME TypeOK, NEW j \in Jobs, Sound(j), Zipped(j) \/ CommitFails(j) PROVE Own(j)
<1>1. /\ pc[j] \in {"zip", "commit"} /\ pc'[j] \in {"commit", "restart", "abort"}
      /\ gen' = gen
      /\ UNCHANGED <<kind, stamp, from, committed, staging, archive, stray, disturbed>>
      /\ pc'[j] = "commit" => tmp'[j] \in {staging[j], Part} /\ pc[j] = "zip"
  BY DEF Zipped, CommitFails, GiveUp, Goto, appVars, TypeOK
<1>2. ~committed[j] /\ stray[j] = "none"
  BY <1>1 DEF Sound, History
<1>3. snaps'[j][2] = snaps[j][2]
  <2>1. snaps' = snaps \/ snaps' = [snaps EXCEPT ![j] = [snaps[j] EXCEPT ![1] = None]]
    BY DEF Zipped, CommitFails
  <2>2. snaps[j] \in Contents \X Contents
    BY DEF TypeOK
  <2>3. QED
    BY <2>1, <2>2 DEF TypeOK
<1>4. Listed(j)' = Listed(j)
  BY <1>1, <1>3 DEF Listed, Local
<1>5. Kept(j)
  BY <1>1, <1>2, <1>4, Unseen DEF Active
<1>6. History(j)'
  BY <1>1, <1>2 DEF Sound, History, Local
<1>7. QED
  BY <1>5, <1>6 DEF Own

\* The commit offers what pass 2 captured, and is told as a success.
LEMMA OwnCommit ==
  ASSUME TypeOK, NEW j \in Jobs, Sound(j), Commit(j) PROVE Own(j)
<1>1. /\ pc[j] = "commit" /\ pc'[j] \in {"restart", "done"} /\ gen' = gen
      /\ committed'[j] /\ UNCHANGED <<kind, stamp, from, stray, disturbed>>
  BY DEF Commit, Goto, appVars, TypeOK
<1>2. ~committed[j] /\ archive[j] = None /\ stray[j] = "none"
  BY <1>1 DEF Sound, History
<1>3. Outcome(j) = "running" /\ Outcome(j)' = "ok"
  BY <1>1, <1>2, OutcomeOf, OutcomeOfNext DEF Active
<1>4. ListedKept(j) /\ Listed(j)' # None
  <2>1. CASE CommitLocal(j)
    <3>1. /\ Local(j) /\ Listed(j) = None
          /\ IF kind[j] = "zip" THEN Listed(j)' = tmp[j] ELSE Listed(j)' = staging[j]
      BY <1>1, <1>2, <2>1 DEF CommitLocal, CommitFolder, CommitZip, Listed, Local, TypeOK
    <3>2. Listed(j)' \in (stamp[j] .. gen) \cup {Torn, Part}
      BY <1>1, <3>1 DEF Sound, History
    <3>3. Listed(j)' = Torn => disturbed[j]
      BY <1>1, <3>1 DEF Sound, Whole
    <3>4. None \notin (stamp[j] .. gen) \cup {Torn, Part}
      BY BackupAssumption DEF TypeOK
    <3>5. QED
      BY <1>3, <3>1, <3>2, <3>3, <3>4 DEF ListedKept
  <2>2. CASE CommitKopia(j)
    <3>1. ~Local(j) /\ snaps[j][2] # None
      BY <2>2 DEF CommitKopia
    <3>2. snaps[j] \in Contents \X Contents
      BY DEF TypeOK
    <3>3. snaps' = snaps \/ snaps' = [snaps EXCEPT ![j] = [snaps[j] EXCEPT ![1] = None]]
      BY <2>2 DEF CommitKopia
    <3>4. snaps'[j][2] = snaps[j][2]
      BY <3>2, <3>3 DEF TypeOK
    <3>5. QED
      BY <1>1, <3>1, <3>4 DEF ListedKept, Listed, Local
  <2>3. QED
    BY <2>1, <2>2 DEF Commit
<1>5. Kept(j)
  BY <1>1, <1>3, <1>4 DEF Kept, StampKept, OutcomeKept
<1>6. History(j)'
  BY <1>1, <1>2 DEF Sound, History
<1>7. QED
  BY <1>5, <1>6 DEF Own

\* The deferred restart may touch the folder, not the archives.
LEMMA OwnRestart ==
  ASSUME TypeOK, NEW j \in Jobs, Sound(j), RestartApp(j) PROVE Own(j)
<1>1. /\ pc[j] = "restart" /\ pc'[j] = IF committed[j] THEN "done" ELSE "abort"
      /\ gen' \in {gen, gen + 1}
      /\ UNCHANGED <<kind, stamp, from, committed, staging, archive, snaps, stray>>
  BY DEF RestartApp, BringUp, Goto, storeVars, TypeOK
<1>2. disturbed[j] => disturbed'[j]
  BY DEF RestartApp, Disturb
<1>3. Outcome(j)' = Outcome(j)
  BY <1>1, OutcomeOf, OutcomeOfNext DEF Active
<1>4. Listed(j)' = Listed(j)
  BY <1>1 DEF Listed, Local
<1>5. Kept(j)
  BY <1>1, <1>2, <1>3, <1>4 DEF Kept, StampKept, ListedKept, OutcomeKept
<1>6. History(j)'
  BY <1>1 DEF Sound, History, TypeOK
<1>7. QED
  BY <1>5, <1>6 DEF Own

\* The deferred abort takes back what was not committed.
LEMMA OwnAbort ==
  ASSUME TypeOK, NEW j \in Jobs, Sound(j), Abort(j) \/ AbortFails(j) PROVE Own(j)
<1>1. /\ pc[j] = "abort" /\ pc'[j] \in {"failed", "dirty"} /\ gen' = gen
      /\ UNCHANGED <<kind, stamp, from, committed, archive, stray, disturbed>>
  BY DEF Abort, AbortFails, Goto, appVars, TypeOK
<1>2. ~committed[j]
  BY <1>1 DEF Sound, History
<1>3. Outcome(j) = "running" /\ Outcome(j)' = "failed"
  BY <1>1, <1>2, OutcomeOf, OutcomeOfNext DEF Active
<1>4. snaps'[j][2] \in {snaps[j][2], None}
  <2>1. \/ snaps' = snaps \/ snaps' = [snaps EXCEPT ![j] = <<None, None>>]
        \/ \E n \in {1, 2} :
             snaps' = [snaps EXCEPT ![j] = [snaps[j] EXCEPT ![n] = None]]
    BY DEF Abort, AbortFails, DropSome
  <2>2. snaps[j] \in Contents \X Contents
    BY DEF TypeOK
  <2>3. QED
    BY <2>1, <2>2 DEF TypeOK
<1>5. ListedKept(j)
  BY <1>1, <1>4 DEF ListedKept, Listed, Local
<1>6. Kept(j)
  BY <1>1, <1>3, <1>5 DEF Kept, StampKept, OutcomeKept
<1>7. History(j)'
  BY <1>1, <1>2, <1>4 DEF Sound, History
<1>8. QED
  BY <1>6, <1>7 DEF Own

\* Deleting takes an archive away, whole or file by file.
LEMMA OwnDelete ==
  ASSUME TypeOK, NEW j \in Jobs, Sound(j), Delete(j) PROVE Own(j)
<1>1. /\ gen' = gen
      /\ UNCHANGED <<pc, kind, stamp, from, committed, staging, tmp, stray, disturbed>>
  BY DEF Delete, appVars, jobVars
<1>2. DeletedFrame(j)
  BY DeleteFrame
<1>3. Listed(j) # None /\ Listed(j)' \in {Listed(j), None, Part}
  BY <1>1, <1>2 DEF Delete, DeletedFrame, Listed, Local
<1>4. Outcome(j)' = Outcome(j)
  BY <1>1 DEF Outcome
<1>5. Kept(j)
  BY <1>1, <1>3, <1>4 DEF Kept, StampKept, ListedKept, OutcomeKept
<1>6. ~committed[j] => archive'[j] = None
  <2>1. Local(j) => archive[j] # None
    BY DEF Delete, Listed
  <2>2. ~Local(j) => archive' = archive
    BY DEF Delete, DeleteFolder, DeleteZip, DeleteSnaps, Local
  <2> QED BY <2>1, <2>2 DEF Sound, History
<1>7. History(j)'
  BY <1>1, <1>2, <1>6 DEF Sound, History, DeletedFrame, Local
<1>8. QED
  BY <1>5, <1>7 DEF Own
-----------------------------------------------------------------------------

\* A step that moves one job leaves the others alone; only a restart may write
\* in the folder.
Alone(j) == gen' \in {gen, gen + 1} /\ \A k \in Jobs \ {j} : Same(k)

\* Storing a pass of one job is no business of the others.
LEMMA KeepAlone ==
  ASSUME TypeOK, NEW j \in Jobs, NEW n \in {1, 2}, NEW c,
         Keep(j, n, c) \/ UNCHANGED <<staging, snaps>>,
         NEW place, Goto(j, place), gen' = gen,
         UNCHANGED <<kind, stamp, from, committed, tmp, archive, disturbed>>,
         UNCHANGED stray \/ Outlives(j, n)
  PROVE  Alone(j)
<1>1. \A k \in Jobs \ {j} : staging'[k] = staging[k] /\ snaps'[k] = snaps[k]
  BY KeepFrame
<1>2. \A k \in Jobs \ {j} : pc'[k] = pc[k] /\ stray'[k] = stray[k]
  BY DEF Goto, Outlives, TypeOK
<1>3. QED
  BY <1>1, <1>2 DEF Alone, Same

\* A job's step changes nothing of another job.
LEMMA StepAlone ==
  ASSUME TypeOK, NEW j \in Jobs, Begin(j) \/ BackupStep(j) \/ Delete(j) \/ StrayEnds(j)
  PROVE  Alone(j)
<1> USE DEF Alone, Same, Goto, appVars, jobVars, storeVars
<1>1. CASE Begin(j)
  BY <1>1 DEF Begin, TypeOK
<1>2. CASE Copied(j)
  BY <1>2, KeepAlone DEF Copied
<1>3. ASSUME NEW n \in {1, 2}, NEW c, PassFails(j, n, c) PROVE Alone(j)
  BY <1>3, KeepAlone DEF PassFails, GiveUp
<1>4. CASE CopyFails(j) \/ SyncFails(j)
  BY <1>3, <1>4 DEF CopyFails, SyncFails
<1>5. CASE Checked(j)
  BY <1>5 DEF Checked, TypeOK
<1>6. CASE StopApp(j)
  BY <1>6 DEF StopApp, TypeOK
<1>7. CASE StopFails(j)
  BY <1>7 DEF StopFails, TypeOK
<1>8. CASE Synced(j)
  BY <1>8, KeepAlone DEF Synced
<1>9. CASE Zipped(j)
  BY <1>9 DEF Zipped, TypeOK
<1>10. CASE Commit(j)
  <2>1. CASE CommitLocal(j)
    BY <1>10, <2>1 DEF Commit, CommitLocal, CommitFolder, CommitZip, TypeOK
  <2>2. CASE CommitKopia(j)
    BY <1>10, <2>2 DEF Commit, CommitKopia, TypeOK
  <2>3. QED
    BY <1>10, <2>1, <2>2 DEF Commit
<1>11. CASE CommitFails(j)
  BY <1>11 DEF CommitFails, GiveUp, TypeOK
<1>12. CASE RestartApp(j)
  <2>1. \A k \in Jobs \ {j} : disturbed[k] => disturbed'[k]
    BY <1>12 DEF RestartApp, Disturb
  <2>2. QED
    BY <1>12, <2>1 DEF RestartApp, BringUp, TypeOK
<1>13. CASE Abort(j)
  BY <1>13 DEF Abort, TypeOK
<1>14. CASE AbortFails(j)
  <2>1. \A k \in Jobs \ {j} : snaps'[k] = snaps[k]
    BY <1>14, DropFrame DEF AbortFails
  <2> QED BY <1>14, <2>1 DEF AbortFails, TypeOK
<1>15. CASE Delete(j)
  BY <1>15, DeleteFrame DEF Delete, DeletedFrame
<1>16. CASE StrayEnds(j)
  <2>1. \A k \in Jobs \ {j} : snaps'[k] = snaps[k] /\ stray'[k] = stray[k]
    BY <1>16, StrayLeaves DEF StrayEnds, StrayFrame, TypeOK
  <2> QED BY <1>16, <2>1 DEF StrayEnds
<1>17. QED
  BY <1>1, <1>2, <1>4, <1>5, <1>6, <1>7, <1>8, <1>9, <1>10, <1>11, <1>12, <1>13,
     <1>14, <1>15, <1>16 DEF BackupStep

\* Every step of a job is allowed by the promise for that job.
LEMMA OwnStep ==
  ASSUME TypeOK, NEW j \in Jobs, Sound(j),
         Begin(j) \/ BackupStep(j) \/ Delete(j) \/ StrayEnds(j)
  PROVE  Own(j)
BY OwnBegin, OwnPassOne, OwnDown, OwnPassTwo, OwnStray, OwnZip, OwnCommit,
   OwnRestart, OwnAbort, OwnDelete DEF BackupStep

\* Maison dies: what was running is lost.
LEMMA CrashKept ==
  ASSUME TypeOK, NEW j \in Jobs, Sound(j), Crash PROVE Own(j)
<1>1. gen' = gen /\ UNCHANGED <<kind, stamp, from, committed, archive, snaps, disturbed>>
  BY DEF Crash, appVars
<1>2. /\ IF pc[j] \in Active THEN pc'[j] = "crashed" ELSE pc'[j] = pc[j]
      /\ \/ stray'[j] = stray[j]
         \/ pc[j] = "copy" /\ stray'[j] = "first"
         \/ pc[j] = "sync" /\ stray'[j] = "last"
  BY DEF Crash, TypeOK
<1>3. Listed(j)' = Listed(j)
  BY <1>1 DEF Listed, Local
<1>4. OutcomeKept(j)
  <2>1. CASE pc[j] \notin Active /\ pc'[j] = pc[j]
    BY <1>1, <2>1 DEF Outcome, OutcomeKept
  <2>2. CASE pc[j] \in Active /\ pc'[j] = "crashed"
    BY <1>1, <2>2, OutcomeOf, OutcomeOfNext DEF OutcomeKept, Active
  <2>3. QED
    BY <1>2, <2>1, <2>2 DEF Active
<1>5. Kept(j)
  BY <1>1, <1>2, <1>3, <1>4 DEF Kept, StampKept, ListedKept
<1>6. History(j)'
  BY <1>1, <1>2 DEF Sound, History, Active
<1>7. QED
  BY <1>5, <1>6 DEF Own

\* Every step is allowed by the promise for every job.
LEMMA KeptStep ==
  ASSUME TypeOK, \A k \in Jobs : Sound(k), [Next]_vars
  PROVE  gen' \in {gen, gen + 1} /\ \A k \in Jobs : Own(k)
<1>1. CASE \E j \in Jobs : Begin(j) \/ BackupStep(j) \/ Delete(j) \/ StrayEnds(j)
  <2>1. PICK j \in Jobs : Begin(j) \/ BackupStep(j) \/ Delete(j) \/ StrayEnds(j)
    BY <1>1
  <2>2. Alone(j) /\ Own(j)
    BY <2>1, StepAlone, OwnStep
  <2>3. ASSUME NEW k \in Jobs, k # j PROVE Own(k)
    BY <2>2, <2>3, SameKept DEF Alone, Own, Sound
  <2>4. QED
    BY <2>2, <2>3 DEF Alone
<1>2. CASE AppWrites \/ OperatorStarts \/ OperatorStops \/ OperatorSaves \/ UNCHANGED vars
  <2>1. gen' \in {gen, gen + 1}
    BY <1>2 DEF AppWrites, OperatorStarts, OperatorStops, OperatorSaves, BringUp, vars
  <2>2. ASSUME NEW k \in Jobs PROVE Same(k)
    <3>1. disturbed[k] => disturbed'[k]
      BY <1>2 DEF AppWrites, OperatorStarts, OperatorStops, OperatorSaves, Disturb, vars
    <3>2. QED
      BY <1>2, <3>1 DEF AppWrites, OperatorStarts, OperatorStops, OperatorSaves,
                        Same, jobVars, storeVars, vars
  <2>3. QED
    BY <2>1, <2>2, SameKept DEF Own, Sound
<1>3. CASE Crash
  BY <1>3, CrashKept DEF Crash, appVars
<1>4. QED
  BY <1>1, <1>2, <1>3 DEF Next

\* The engines and BackupWith's choreography together keep the promise of a
\* backup: the safety part of BackupPromise, which is all of it.
THEOREM Refinement == Spec => KeepsPromise
<1>1. Init => Promise!Init /\ \A k \in Jobs : History(k)
  <2> SUFFICES ASSUME Init PROVE Promise!Init /\ \A k \in Jobs : History(k)
    OBVIOUS
  <2>1. \A j \in Jobs : Listed(j) = None /\ Outcome(j) = "idle" /\ stray[j] = "none"
    BY DEF Init, Listed, Outcome
  <2>2. Promise!Init
    BY <2>1 DEF Init, Promise!Init
  <2>3. \A k \in Jobs : History(k)
    BY <2>1 DEF Init, History
  <2>4. QED
    BY <2>2, <2>3
<1>2. IInv /\ (\A k \in Jobs : History(k)) /\ [Next]_vars
        => (\A k \in Jobs : History(k))' /\ [Promise!Next]_(Promise!vars)
  <2> SUFFICES ASSUME IInv, \A k \in Jobs : History(k), [Next]_vars
               PROVE  (\A k \in Jobs : History(k))' /\ Promise!Next
    OBVIOUS
  <2>1. TypeOK /\ \A k \in Jobs : Sound(k)
    BY WholeParts DEF IInv, Sound
  <2>2. gen' \in {gen, gen + 1} /\ \A k \in Jobs : History(k)' /\ Kept(k)
    BY <2>1, KeptStep DEF Own
  <2>3. QED
    BY <2>2, KeptIsPromised
<1>3. QED
  BY <1>1, <1>2, Invariance, PTL DEF Spec, KeepsPromise, Promise!Spec

-----------------------------------------------------------------------------
(***************************************************************************)
(* The copy a pass of the local engine makes (module Mirror): it is exact,  *)
(* for any number of files, any .partial names among them, and any writes   *)
(* and removals during the first pass.                                      *)
(*                                                                         *)
(* Two strengthenings carry the proof.  Fresh: ticks only grow and a copy  *)
(* carries the time Info gave before the read, so equal times mean equal   *)
(* data.  Second: in the stopped pass the source stands still, each walk   *)
(* sees every present file, and what lies behind the walk is settled.      *)
(***************************************************************************)

Fresh ==
  /\ \A i \in Names : src[i] <= tick
  /\ \A i \in Names : dst[i] = Absent \/ dst[i].mtime # 0
  /\ \A i \in Names : dst[i].mtime <= tick
  /\ UpToDateIsCurrent
  /\ walk = "read" => at \in Names /\ mtime # 0 /\ mtime <= tick

\* The stopped pass, walk by walk.
Listing == walk \in {"measure", "copy", "read"} => listing = Present

MeasuredSoFar ==
  walk = "measure" =>
    \A i \in Names : src[i] # 0 /\ i < at => i \in stale \/ UpToDate(i)

CopiedSoFar ==
  walk \in {"copy", "read"} =>
    \A i \in Names : src[i] # 0 /\ ~IsPartial(i) =>
      IF i < at THEN UpToDate(i) ELSE i \in stale \/ UpToDate(i)

ReadsCurrent ==
  walk = "read" => at \in listing \cap stale /\ mtime = src[at]

PrunedSoFar ==
  walk = "prune" =>
    \A i \in Names : ~IsPartial(i) =>
      IF src[i] # 0 THEN UpToDate(i)
      ELSE IF i < at THEN dst[i] = Absent ELSE dst[i] = Absent \/ i \in listing

Second ==
  pass = 2 =>
    /\ walk # "failed"
    /\ Listing
    /\ MeasuredSoFar
    /\ CopiedSoFar
    /\ ReadsCurrent
    /\ PrunedSoFar

CopyInv ==
  /\ MirrorTypeOK /\ Fresh /\ Second
  /\ walk = "done" => pass = 2
  /\ MirrorIsExact

-----------------------------------------------------------------------------

\* A missing copy is older than every file.
LEMMA AbsentFields == Absent.data = 0 /\ Absent.mtime = 0
BY DEF Absent, Mixed

\* Every state of the model has the types TypeOK gives (mirror and its helpers).
THEOREM CopyTypeCorrect == MirrorSpec => []MirrorTypeOK
<1>1. MirrorInit => MirrorTypeOK
  BY MirrorAssumption DEF MirrorInit, MirrorTypeOK, Names, Walks, Absent, Mixed, Present
<1>2. MirrorTypeOK /\ [MirrorNext]_mirrorVars => MirrorTypeOK'
  <2> SUFFICES ASSUME MirrorTypeOK, [MirrorNext]_mirrorVars PROVE MirrorTypeOK'
    OBVIOUS
  <2> USE MirrorAssumption DEF MirrorTypeOK, Names, Walks
  <2>1. ASSUME NEW i \in Names, WriteFile(i) PROVE MirrorTypeOK'
    <3>1. src' \in [Names -> Nat] /\ tick' \in Nat
      BY <2>1 DEF WriteFile
    <3>2. UNCHANGED <<dst, pass, walk, at, listing, stale, mtime>>
      BY <2>1 DEF WriteFile
    <3>3. QED
      BY <3>1, <3>2
  <2>2. ASSUME NEW i \in Names, RemoveFile(i) PROVE MirrorTypeOK'
    BY <2>2 DEF RemoveFile
  <2>3. CASE Measure
    BY <2>3 DEF Measure
  <2>4. CASE Measured
    <3>1. walk' = "copy" /\ at' = 1 /\ listing' = Present
      BY <2>4 DEF Measured, StartWalk
    <3>2. UNCHANGED <<src, dst, tick, pass, stale, mtime>>
      BY <2>4 DEF Measured
    <3>3. 1 \in 1 .. N + 1 /\ Present \subseteq Names
      BY DEF Present
    <3>4. QED
      BY <3>1, <3>2, <3>3
  <2>5. CASE Gone
    BY <2>5 DEF Gone
  <2>6. CASE Skip
    BY <2>6 DEF Skip
  <2>7. CASE Info
    BY <2>7 DEF Info
  <2>8. CASE Copy
    <3>1. PICK data \in {src[at]} \cup (IF src[at] = mtime THEN {} ELSE {Mixed}) :
            dst' = [i \in Names |->
                      IF i = at THEN [data |-> data, mtime |-> mtime]
                      ELSE IF i = Partial[at] THEN Absent ELSE dst[i]]
      BY <2>8 DEF Copy
    <3>2. at \in Names
      BY <2>8 DEF Copy
    <3>3. data \in Nat
      BY <3>1, <3>2 DEF Mixed
    <3>4. dst' \in [Names -> [data : Nat, mtime : Nat]]
      BY <3>1, <3>3 DEF Absent, Mixed
    <3>5. QED
      BY <2>8, <3>4, <3>2 DEF Copy
  <2>9. CASE OpenFails
    BY <2>9 DEF OpenFails
  <2>10. CASE AllCopied
    BY <2>10 DEF AllCopied, Staged
  <2>11. CASE Prune
    <3>1. Absent \in [data : Nat, mtime : Nat]
      BY DEF Absent, Mixed
    <3>2. dst' \in [Names -> [data : Nat, mtime : Nat]]
      BY <2>11, <3>1 DEF Prune
    <3>3. /\ src' = src /\ tick' = tick /\ pass' = pass /\ walk' = walk
          /\ at' \in 1 .. N + 1 /\ listing' = listing /\ stale' = stale
          /\ mtime' = mtime /\ walk' # "read"
      BY <2>11 DEF Prune
    <3>4. QED
      BY <3>2, <3>3
  <2>12. CASE SecondPass
    BY <2>12 DEF SecondPass, StartWalk, Present
  <2>13. CASE Finish
    BY <2>13 DEF Finish
  <2>14. CASE UNCHANGED mirrorVars
    BY <2>14 DEF mirrorVars
  <2>15. QED
    BY <2>1, <2>2, <2>3, <2>4, <2>5, <2>6, <2>7, <2>8, <2>9, <2>10, <2>11,
       <2>12, <2>13, <2>14 DEF MirrorNext, MirrorStep
<1>3. QED
  BY <1>1, <1>2, PTL DEF MirrorSpec

-----------------------------------------------------------------------------

\* At the start nothing is staged.
LEMMA FreshInit == MirrorInit => Fresh
<1> SUFFICES ASSUME MirrorInit PROVE Fresh
  OBVIOUS
<1>1. \A i \in Names : dst[i] = Absent
  BY DEF MirrorInit
<1>2. \A i \in Names : src[i] \in {0, 1}
  BY DEF MirrorInit
<1>3. QED
  BY <1>1, <1>2, AbsentFields DEF MirrorInit, Fresh, UpToDateIsCurrent

\* No step makes upToDate accept a copy that is not current.
LEMMA FreshStep == MirrorTypeOK /\ Fresh /\ [MirrorNext]_mirrorVars => Fresh'
<1> SUFFICES ASSUME MirrorTypeOK, Fresh, [MirrorNext]_mirrorVars PROVE Fresh'
  OBVIOUS
<1> USE MirrorAssumption DEF MirrorTypeOK, Names, Walks, Fresh, UpToDateIsCurrent
<1>1. ASSUME NEW i \in Names, WriteFile(i) PROVE Fresh'
  <2>1. \A k \in Names : src'[k] = IF k = i THEN tick + 1 ELSE src[k]
    BY <1>1 DEF WriteFile
  <2>2. tick' = tick + 1 /\ dst' = dst /\ walk' = walk /\ at' = at /\ mtime' = mtime
    BY <1>1 DEF WriteFile
  <2>3. \A k \in Names : dst[k].mtime \in Nat /\ dst[k].mtime # tick + 1
    OBVIOUS
  <2>4. UpToDateIsCurrent'
    BY <2>1, <2>2, <2>3
  <2>5. \A k \in Names : src'[k] <= tick'
    <3> SUFFICES ASSUME NEW k \in Names PROVE src'[k] <= tick + 1
      BY <2>2
    <3>1. src[k] \in Nat /\ src[k] <= tick /\ tick \in Nat
      OBVIOUS
    <3>2. src'[k] = tick + 1 \/ src'[k] = src[k]
      BY <2>1
    <3>3. QED
      BY ONLY <3>1, <3>2
  <2>6. \A k \in Names : dst'[k].mtime <= tick'
    BY <2>2, <2>3
  <2>7. QED
    BY <2>2, <2>4, <2>5, <2>6
<1>2. ASSUME NEW i \in Names, RemoveFile(i) PROVE Fresh'
  <2>1. \A k \in Names : src'[k] = IF k = i THEN 0 ELSE src[k]
    BY <1>2 DEF RemoveFile
  <2>2. tick' = tick /\ dst' = dst /\ walk' = walk /\ at' = at /\ mtime' = mtime
    BY <1>2 DEF RemoveFile
  <2>3. QED
    BY <2>1, <2>2, AbsentFields
<1>3. CASE Measure
  BY <1>3 DEF Measure
<1>4. CASE Measured
  BY <1>4 DEF Measured, StartWalk
<1>5. CASE Gone
  BY <1>5 DEF Gone
<1>6. CASE Skip
  BY <1>6 DEF Skip
<1>7. CASE Info
  BY <1>7 DEF Info
<1>8. CASE Copy
  <2>1. PICK data \in {src[at]} \cup (IF src[at] = mtime THEN {} ELSE {Mixed}) :
          dst' = [i \in Names |->
                    IF i = at THEN [data |-> data, mtime |-> mtime]
                    ELSE IF i = Partial[at] THEN Absent ELSE dst[i]]
    BY <1>8 DEF Copy
  <2>2. src' = src /\ tick' = tick /\ mtime' = mtime /\ walk' = "copy"
    BY <1>8 DEF Copy
  <2>3. at \in Names /\ mtime # 0 /\ mtime <= tick
    BY <1>8 DEF Copy
  <2>4. dst'[at] = [data |-> data, mtime |-> mtime]
    BY <2>1, <2>3
  <2>5. mtime = src[at] => data = src[at]
    BY <2>1
  <2>6. \A i \in Names : i # at => dst'[i] = dst[i] \/ dst'[i] = Absent
    BY <2>1
  <2>7. \A i \in Names : src'[i] <= tick'
    BY <2>2
  <2>8. \A i \in Names : dst'[i] = Absent \/ dst'[i].mtime # 0
    <3> SUFFICES ASSUME NEW i \in Names PROVE dst'[i] = Absent \/ dst'[i].mtime # 0
      OBVIOUS
    <3>1. dst[i] = Absent \/ dst[i].mtime # 0
      OBVIOUS
    <3>2. i = at => dst'[i].mtime = mtime
      BY <2>4
    <3>3. QED
      BY ONLY <2>3, <2>6, <3>1, <3>2, i \in Names
  <2>9. \A i \in Names : dst'[i].mtime <= tick'
    <3> SUFFICES ASSUME NEW i \in Names PROVE dst'[i].mtime <= tick
      BY <2>2
    <3>1. CASE i = at
      BY <3>1, <2>3, <2>4
    <3>2. CASE dst'[i] = dst[i]
      BY <3>2
    <3>3. CASE dst'[i] = Absent
      BY <3>3, AbsentFields
    <3>4. QED
      BY <3>1, <3>2, <3>3, <2>6
  <2>10. UpToDateIsCurrent'
    <3> SUFFICES ASSUME NEW i \in Names, dst'[i] # Absent, dst'[i].mtime = src[i]
                 PROVE  dst'[i].data = src[i]
      BY <2>2
    <3>1. CASE i = at
      <4>1. dst'[i].mtime = mtime /\ dst'[i].data = data
        BY <2>4, <3>1
      <4>2. QED
        BY <2>5, <3>1, <4>1
    <3>2. CASE i # at
      <4>1. dst'[i] = dst[i]
        BY <2>6, <3>2
      <4>2. QED
        BY <4>1
    <3>3. QED
      BY <3>1, <3>2
  <2>11. QED
    BY <2>2, <2>7, <2>8, <2>9, <2>10
<1>9. CASE OpenFails
  BY <1>9 DEF OpenFails
<1>10. CASE AllCopied
  BY <1>10 DEF AllCopied
<1>11. CASE Prune
  <2>1. \A i \in Names : dst'[i] = dst[i] \/ dst'[i] = Absent
    BY <1>11 DEF Prune
  <2>2. src' = src /\ tick' = tick /\ mtime' = mtime /\ walk' = "prune"
    BY <1>11 DEF Prune
  <2>3. \A i \in Names : dst'[i].mtime <= tick'
    <3> SUFFICES ASSUME NEW i \in Names PROVE dst'[i].mtime <= tick
      BY <2>2
    <3>1. CASE dst'[i] = dst[i]
      BY <3>1
    <3>2. CASE dst'[i] = Absent
      BY <3>2, AbsentFields
    <3>3. QED
      BY <3>1, <3>2, <2>1
  <2>4. UpToDateIsCurrent'
    <3> SUFFICES ASSUME NEW i \in Names, dst'[i] # Absent, dst'[i].mtime = src[i]
                 PROVE  dst'[i].data = src[i]
      BY <2>2
    <3>1. dst'[i] = dst[i]
      BY <2>1
    <3>2. QED
      BY <3>1
  <2>5. \A i \in Names : dst'[i] = Absent \/ dst'[i].mtime # 0
    BY <2>1
  <2>6. \A i \in Names : src'[i] <= tick'
    BY <2>2
  <2>7. QED
    BY <2>2, <2>3, <2>4, <2>5, <2>6
<1>12. CASE SecondPass
  BY <1>12 DEF SecondPass, StartWalk
<1>13. CASE Finish
  BY <1>13 DEF Finish
<1>14. CASE UNCHANGED mirrorVars
  BY <1>14 DEF mirrorVars
<1>15. QED
  BY <1>1, <1>2, <1>3, <1>4, <1>5, <1>6, <1>7, <1>8, <1>9, <1>10, <1>11,
     <1>12, <1>13, <1>14 DEF MirrorNext, MirrorStep

\* What upToDate accepts is the file itself: a copy is stamped with the time
\* Info gave before the read, so no later write can hide behind it.
THEOREM UpToDateSound == MirrorSpec => []UpToDateIsCurrent
<1>1. Fresh => UpToDateIsCurrent
  BY DEF Fresh
<1>2. QED
  BY <1>1, FreshInit, FreshStep, CopyTypeCorrect, PTL DEF MirrorSpec

-----------------------------------------------------------------------------

\* prune keeps a name for its own source file unless it is a .partial name.
LEMMA OriginOfOthers ==
  ASSUME NEW i \in Names, ~IsPartial(i) PROVE Origin(i) = i
BY DEF Origin, IsPartial

\* Every step keeps what the stopped pass knows of the names behind and ahead
\* of its walk.
LEMMA SecondStep ==
  MirrorTypeOK /\ Fresh /\ Second /\ (walk = "done" => pass = 2) /\ [MirrorNext]_mirrorVars
    => Second' /\ (walk = "done" => pass = 2)'
<1> SUFFICES ASSUME MirrorTypeOK, Fresh, Second, walk = "done" => pass = 2,
                    [MirrorNext]_mirrorVars
             PROVE  Second' /\ (walk = "done" => pass = 2)'
  OBVIOUS
<1> DEFINE SecondParts == /\ walk # "failed"
                          /\ Listing
                          /\ MeasuredSoFar
                          /\ CopiedSoFar
                          /\ ReadsCurrent
                          /\ PrunedSoFar
<1>s. pass = 2 => SecondParts
  BY DEF Second
<1>q. SecondParts' => Second'
  BY DEF Second
<1> USE MirrorAssumption DEF MirrorTypeOK, Names, Walks
<1>1. ASSUME NEW i \in Names, WriteFile(i) \/ RemoveFile(i)
      PROVE  Second' /\ (walk = "done" => pass = 2)'
  BY <1>1 DEF WriteFile, RemoveFile, Second
<1>2. CASE Measure
  <2>0. walk' = "measure" /\ pass' = pass
    BY <1>2 DEF Measure
  <2>1. ASSUME pass = 2 PROVE SecondParts'
    BY <1>2, <1>s, <2>1 DEF Measure, Listing, MeasuredSoFar, CopiedSoFar,
       ReadsCurrent, PrunedSoFar, UpToDate, Present
  <2>2. QED
    BY <2>0, <2>1, <1>q DEF Second
<1>3. CASE Measured
  <2>0. walk' = "copy" /\ pass' = pass
    BY <1>3 DEF Measured, StartWalk
  <2>1. ASSUME pass = 2 PROVE SecondParts'
    BY <1>3, <1>s, <2>1 DEF Measured, StartWalk, Listing, MeasuredSoFar,
       CopiedSoFar, ReadsCurrent, PrunedSoFar, UpToDate, Present
  <2>2. QED
    BY <2>0, <2>1, <1>q DEF Second
<1>4. CASE Gone
  <2>0. walk' = "failed" /\ pass' = pass
    BY <1>4 DEF Gone
  <2>1. ASSUME pass = 2 PROVE FALSE
    BY <1>4, <1>s, <2>1 DEF Gone, Listing, Present
  <2>2. QED
    BY <2>0, <2>1 DEF Second
<1>5. CASE Skip
  <2>0. walk' = "copy" /\ pass' = pass
    BY <1>5 DEF Skip
  <2>1. ASSUME pass = 2 PROVE SecondParts'
    <3>1. /\ walk = "copy" /\ at \in Names /\ at \notin listing \cap stale
          /\ at' = at + 1 /\ src' = src /\ dst' = dst /\ stale' = stale
          /\ listing' = listing /\ listing = Present
      BY <1>5, <1>s, <2>1 DEF Skip, Listing
    <3>2. src[at] # 0 /\ ~IsPartial(at) => UpToDate(at)
      BY <3>1, <1>s, <2>1 DEF CopiedSoFar, Present
    <3>3. CopiedSoFar'
      <4> SUFFICES ASSUME NEW i \in Names, src[i] # 0, ~IsPartial(i)
                   PROVE  IF i < at + 1 THEN UpToDate(i)
                          ELSE i \in stale \/ UpToDate(i)
        BY <3>1 DEF CopiedSoFar, IsPartial, UpToDate
      <4>1. CASE i = at
        BY <4>1, <3>2
      <4>2. CASE i # at
        BY <4>2, <3>1, <2>1, <1>s DEF CopiedSoFar
      <4>3. QED
        BY <4>1, <4>2
    <3>4. QED
      BY <2>0, <3>1, <3>3 DEF Listing, MeasuredSoFar, ReadsCurrent, PrunedSoFar,
         Present
  <2>2. QED
    BY <2>0, <2>1, <1>q DEF Second
<1>6. CASE Info
  <2>0. walk' = "read" /\ pass' = pass
    BY <1>6 DEF Info
  <2>1. ASSUME pass = 2 PROVE SecondParts'
    BY <1>6, <1>s, <2>1 DEF Info, Listing, MeasuredSoFar, CopiedSoFar,
       ReadsCurrent, PrunedSoFar, UpToDate, Present
  <2>2. QED
    BY <2>0, <2>1, <1>q DEF Second
<1>7. CASE Copy
  <2>0. /\ walk = "read" /\ walk' = "copy" /\ pass' = pass /\ at' = at + 1
        /\ src' = src /\ listing' = listing /\ stale' = stale /\ at \in Names
    BY <1>7 DEF Copy
  <2>1. PICK data \in {src[at]} \cup (IF src[at] = mtime THEN {} ELSE {Mixed}) :
          dst' = [i \in Names |->
                    IF i = at THEN [data |-> data, mtime |-> mtime]
                    ELSE IF i = Partial[at] THEN Absent ELSE dst[i]]
    BY <1>7 DEF Copy
  <2>2. ASSUME pass = 2 PROVE SecondParts'
    <3>1. mtime = src[at] /\ src[at] # 0
      BY <2>0, <2>2, <1>s, <1>7 DEF ReadsCurrent, Copy
    <3>2. \A i \in Names : i = at => UpToDate(i)'
      <4>1. dst'[at] = [data |-> data, mtime |-> mtime]
        BY <2>0, <2>1
      <4>2. dst'[at].mtime = src[at] /\ dst'[at] # Absent
        BY <4>1, <3>1, AbsentFields
      <4>3. QED
        BY <4>2, <2>0, <2>2, <3>1 DEF UpToDate
    <3>3. \A i \in Names : ~IsPartial(i) /\ i # at => dst'[i] = dst[i]
      BY <2>0, <2>1 DEF IsPartial
    <3>4. CopiedSoFar'
      <4> SUFFICES ASSUME NEW i \in Names, src[i] # 0, ~IsPartial(i)
                   PROVE  IF i < at + 1 THEN UpToDate(i)'
                          ELSE i \in stale \/ UpToDate(i)'
        BY <2>0 DEF CopiedSoFar, IsPartial
      <4>1. CASE i = at
        BY <4>1, <3>2
      <4>2. CASE i # at
        BY <4>2, <3>3, <2>0, <2>2, <1>s DEF CopiedSoFar, UpToDate
      <4>3. QED
        BY <4>1, <4>2
    <3>5. QED
      BY <2>0, <2>2, <3>4, <1>s DEF Listing, MeasuredSoFar, ReadsCurrent,
         PrunedSoFar, Present
  <2>3. QED
    BY <2>0, <2>2, <1>q DEF Second
<1>8. CASE OpenFails
  <2>0. walk' = "failed" /\ pass' = pass
    BY <1>8 DEF OpenFails
  <2>1. ASSUME pass = 2 PROVE FALSE
    BY <1>8, <1>s, <2>1 DEF OpenFails, Listing, ReadsCurrent, Present
  <2>2. QED
    BY <2>0, <2>1 DEF Second
<1>9. CASE AllCopied
  <2>0. /\ walk = "copy" /\ at = N + 1 /\ walk' = "prune" /\ at' = 1 /\ pass' = pass
        /\ listing' = Staged /\ src' = src /\ dst' = dst
    BY <1>9 DEF AllCopied
  <2>1. ASSUME pass = 2 PROVE SecondParts'
    <3>1. \A i \in Names : src[i] # 0 /\ ~IsPartial(i) => UpToDate(i)
      BY <2>0, <2>1, <1>s DEF CopiedSoFar
    <3>2. PrunedSoFar'
      BY <2>0, <3>1 DEF PrunedSoFar, UpToDate, Staged, IsPartial
    <3>3. QED
      BY <2>0, <3>2 DEF Listing, MeasuredSoFar, CopiedSoFar, ReadsCurrent
  <2>2. QED
    BY <2>0, <2>1, <1>q DEF Second
<1>10. CASE Prune
  <2>0. /\ walk = "prune" /\ walk' = "prune" /\ pass' = pass /\ at \in Names
        /\ at' = at + 1 /\ src' = src /\ listing' = listing
    BY <1>10 DEF Prune
  <2>1. \A i \in Names : i # at => dst'[i] = dst[i]
    BY <1>10 DEF Prune
  <2>2. ~IsPartial(at) =>
          dst'[at] = IF at \in listing /\ src[at] = 0 THEN Absent ELSE dst[at]
    BY <1>10, <2>0, OriginOfOthers DEF Prune
  <2>3. ASSUME pass = 2 PROVE SecondParts'
    <3>1. PrunedSoFar'
      <4> SUFFICES ASSUME NEW i \in Names, ~IsPartial(i)
                   PROVE  IF src[i] # 0 THEN UpToDate(i)'
                          ELSE IF i < at + 1 THEN dst'[i] = Absent
                          ELSE dst'[i] = Absent \/ i \in listing
        BY <2>0 DEF PrunedSoFar, IsPartial
      <4>0. IF src[i] # 0 THEN UpToDate(i)
            ELSE IF i < at THEN dst[i] = Absent
            ELSE dst[i] = Absent \/ i \in listing
        BY <2>0, <2>3, <1>s DEF PrunedSoFar
      <4>1. CASE i = at
        BY <4>0, <4>1, <2>0, <2>2 DEF UpToDate
      <4>2. CASE i # at
        <5>1. dst'[i] = dst[i] /\ src'[i] = src[i]
          BY <4>2, <2>0, <2>1
        <5>2. UpToDate(i) => UpToDate(i)'
          BY <5>1 DEF UpToDate
        <5>3. i < at + 1 => i < at
          BY <4>2, <2>0
        <5>4. QED
          BY <4>0, <5>1, <5>2, <5>3
      <4>3. QED
        BY <4>1, <4>2
    <3>2. QED
      BY <2>0, <3>1 DEF Listing, MeasuredSoFar, CopiedSoFar, ReadsCurrent
  <2>4. QED
    BY <2>0, <2>3, <1>q DEF Second
<1>11. CASE SecondPass
  BY <1>11, <1>q DEF SecondPass, StartWalk, Listing, MeasuredSoFar, CopiedSoFar,
     ReadsCurrent, PrunedSoFar, Present
<1>12. CASE Finish
  BY <1>12, <1>q DEF Finish, Listing, MeasuredSoFar, CopiedSoFar, ReadsCurrent,
     PrunedSoFar
<1>13. CASE UNCHANGED mirrorVars
  BY <1>13 DEF mirrorVars, Second, Listing, MeasuredSoFar, CopiedSoFar, ReadsCurrent,
     PrunedSoFar, UpToDate, Present
<1>14. QED
  BY <1>1, <1>2, <1>3, <1>4, <1>5, <1>6, <1>7, <1>8, <1>9, <1>10, <1>11,
     <1>12, <1>13 DEF MirrorNext, MirrorStep

\* The last walk's end is the exact copy.
LEMMA ExactStep == CopyInv /\ [MirrorNext]_mirrorVars => MirrorIsExact'
<1> SUFFICES ASSUME CopyInv, [MirrorNext]_mirrorVars, walk' = "done",
                    NEW i \in Names, ~IsPartial(i)
             PROVE  SameFile(i)'
  BY DEF MirrorIsExact, IsPartial
<1> USE MirrorAssumption DEF MirrorTypeOK, Names, Walks
<1>1. CASE walk = "done"
  <2>1. src' = src /\ dst' = dst
    BY <1>1 DEF CopyInv, MirrorNext, MirrorStep, mirrorVars, Measure, Measured, Gone, Skip, Info,
       Copy, OpenFails, AllCopied, Prune, SecondPass, Finish, WriteFile, RemoveFile
  <2>2. QED
    BY <1>1, <2>1 DEF CopyInv, MirrorIsExact, SameFile
<1>2. CASE walk # "done"
  <2>1. Finish
    BY <1>2 DEF CopyInv, MirrorNext, MirrorStep, mirrorVars, Measure, Measured, Gone, Skip, Info,
       Copy, OpenFails, AllCopied, Prune, SecondPass, Finish, WriteFile, RemoveFile,
       StartWalk
  <2>2. /\ walk = "prune" /\ at = N + 1 /\ pass = 2 /\ src' = src /\ dst' = dst
    BY <2>1 DEF Finish
  <2>3. IF src[i] # 0 THEN UpToDate(i) ELSE dst[i] = Absent
    BY <2>2 DEF CopyInv, Second, PrunedSoFar
  <2>4. dst[i] \in [data : Nat, mtime : Nat]
    BY DEF CopyInv
  <2>5. src[i] # 0 => dst[i].mtime = src[i] /\ dst[i].data = src[i]
    BY <2>3 DEF CopyInv, Fresh, UpToDateIsCurrent, UpToDate
  <2>6. QED
    BY <2>2, <2>3, <2>4, <2>5 DEF SameFile
<1>3. QED
  BY <1>1, <1>2

\* The inductive invariant of the two passes of mirror.
THEOREM CopyInvariance == MirrorSpec => []CopyInv
<1>1. MirrorInit => CopyInv
  <2> SUFFICES ASSUME MirrorInit PROVE CopyInv
    OBVIOUS
  <2>1. MirrorTypeOK /\ Fresh
    BY FreshInit, MirrorAssumption
       DEF MirrorInit, MirrorTypeOK, Names, Walks, Absent, Mixed, Present
  <2>2. QED
    BY <2>1 DEF MirrorInit, CopyInv, Second, MirrorIsExact
<1>2. MirrorTypeOK /\ CopyInv /\ [MirrorNext]_mirrorVars /\ MirrorTypeOK' => CopyInv'
  BY FreshStep, SecondStep, ExactStep DEF CopyInv
<1>3. QED
  BY <1>1, <1>2, CopyTypeCorrect, PTL DEF MirrorSpec

\* After the stopped pass the staging folder is the app's folder, name by name
\* (.partial names apart), whatever was written during the first pass.
THEOREM MirrorExact == MirrorSpec => []MirrorIsExact
<1>1. CopyInv => MirrorIsExact
  BY DEF CopyInv
<1>2. QED
  BY <1>1, CopyInvariance, PTL

\* The stopped pass never fails on a name that vanished under the walk.
THEOREM StoppedPass == MirrorSpec => []StoppedPassSucceeds
<1>1. CopyInv => StoppedPassSucceeds
  BY DEF CopyInv, Second, StoppedPassSucceeds
<1>2. QED
  BY <1>1, CopyInvariance, PTL
=============================================================================
