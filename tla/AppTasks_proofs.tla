--------------------------- MODULE AppTasks_proofs ---------------------------
(***************************************************************************)
(* What the trackers promise for any number of requests, faults, kills and *)
(* dismissals: a running bar is backed by a running operation, only one of *)
(* a kind runs unless its entry was cleared under it, and a failure turns  *)
(* its entry red; and the newest state of the app's data is kept (below).  *)
(*                                                                         *)
(* All three follow from Alone.  A step of a task does one of two things   *)
(* to the trackers, whatever else it does (TaskEffect), and neither breaks *)
(* it.                                                                     *)
(***************************************************************************)
EXTENDS AppTasks, TLAPS

\* While no entry of kind k was cleared under a task, the task behind the
\* entry is alone and the entry says that it runs.
Alone ==
  \A k \in Kinds : ~dropped[k] =>
    \A t \in Live(k) : shown[k] = "running" /\ \A u \in Live(k) : t = u

IInv == TypeOK /\ BarHasTask /\ Alone

\* What a task's step does to the trackers: it reports or ends.
Effect(t) ==
  /\ pc[t] \in Stages[kind[t]]
  /\ \/ \E stage \in Stages[kind[t]] : Advance(t, stage)
     \/ End(t, TRUE)
     \/ End(t, FALSE)

\* The types of the app's part of the state, and of the tasks'.
AppTypes ==
  /\ folder \in {"none", "bare", "app"}
  /\ data \in Contents
  /\ folder = "none" <=> data = None
  /\ gen \in Nat
  /\ up \in BOOLEAN
  /\ risks \subseteq Risks

TrackTypes ==
  /\ shown \in [Kinds -> {"none", "running", "error"}]
  /\ kind \in [Tasks -> Kinds]
  /\ pc \in [Tasks -> Running \cup Stopped]
  /\ \A t \in Tasks : pc[t] \in Stages[kind[t]] \cup Stopped
  /\ dropped \in [Kinds -> BOOLEAN]

StoreTypes ==
  /\ zip \in [Tasks -> BOOLEAN]
  /\ seen \in [Tasks -> Contents]
  /\ archive \in [Tasks -> Contents]

\* The types in three parts.
LEMMA Types == TypeOK <=> AppTypes /\ TrackTypes /\ StoreTypes
BY DEF TypeOK, AppTypes, TrackTypes, StoreTypes

-----------------------------------------------------------------------------

\* A task's program counter names its kind.
LEMMA StageOfKind ==
  ASSUME TrackTypes, NEW t \in Tasks
  PROVE  /\ pc[t] \in {"restore", "write", "prepare", "up"} => kind[t] = "install"
         /\ pc[t] \in {"remove", "look", "rename", "zip", "delete"} => kind[t] = "uninstall"
         /\ pc[t] = "backup" => kind[t] = "backup"
<1>1. kind[t] \in {"install", "uninstall", "backup"}
  BY DEF TrackTypes, Kinds
<1>2. pc[t] \in Stages[kind[t]] \cup Stopped
  BY DEF TrackTypes
<1>3. QED
  BY <1>1, <1>2 DEF Stages, Stopped

\* Whatever a task's step does to the app, to the trackers it does one of two
\* things: it reports or ends.
LEMMA TaskEffect ==
  ASSUME TrackTypes, NEW t \in Tasks, TaskStep(t)
  PROVE  Effect(t)
<1>1. CASE Restore(t)
  <2>1. kind[t] = "install" /\ pc[t] = "restore"
    BY <1>1, StageOfKind DEF Restore
  <2>2. pc[t] \in Stages[kind[t]] /\ "write" \in Stages[kind[t]]
    BY <2>1 DEF Stages
  <2>3. Advance(t, "write") \/ End(t, TRUE) \/ End(t, FALSE)
    BY <1>1, Zenon DEF Restore
  <2>4. QED
    BY <2>2, <2>3, Zenon DEF Effect
<1>2. CASE Write(t)
  <2>1. kind[t] = "install" /\ pc[t] = "write"
    BY <1>2, StageOfKind DEF Write
  <2>2. pc[t] \in Stages[kind[t]] /\ "prepare" \in Stages[kind[t]]
    BY <2>1 DEF Stages
  <2>3. Advance(t, "prepare") \/ End(t, TRUE) \/ End(t, FALSE)
    BY <1>2, Zenon DEF Write
  <2>4. QED
    BY <2>2, <2>3, Zenon DEF Effect
<1>3. CASE Prepare(t)
  <2>1. kind[t] = "install" /\ pc[t] = "prepare"
    BY <1>3, StageOfKind DEF Prepare
  <2>2. pc[t] \in Stages[kind[t]] /\ "up" \in Stages[kind[t]]
    BY <2>1 DEF Stages
  <2>3. Advance(t, "up") \/ End(t, TRUE) \/ End(t, FALSE)
    BY <1>3, Zenon DEF Prepare
  <2>4. QED
    BY <2>2, <2>3, Zenon DEF Effect
<1>4. CASE BringUp(t)
  <2>1. kind[t] = "install" /\ pc[t] = "up"
    BY <1>4, StageOfKind DEF BringUp
  <2>2. pc[t] \in Stages[kind[t]]
    BY <2>1 DEF Stages
  <2>3. End(t, TRUE) \/ End(t, FALSE)
    BY <1>4, Zenon DEF BringUp
  <2>4. QED
    BY <2>2, <2>3, Zenon DEF Effect
<1>5. CASE Remove(t)
  <2>1. kind[t] = "uninstall" /\ pc[t] = "remove"
    BY <1>5, StageOfKind DEF Remove
  <2>2. pc[t] \in Stages[kind[t]] /\ "look" \in Stages[kind[t]]
    BY <2>1 DEF Stages
  <2>3. Advance(t, "look") \/ End(t, TRUE) \/ End(t, FALSE)
    BY <1>5, Zenon DEF Remove
  <2>4. QED
    BY <2>2, <2>3, Zenon DEF Effect
<1>6. CASE Look(t)
  <2>1. kind[t] = "uninstall" /\ pc[t] = "look"
    BY <1>6, StageOfKind DEF Look
  <2>2. pc[t] \in Stages[kind[t]] /\ (IF zip[t] THEN "zip" ELSE "rename") \in Stages[kind[t]]
    BY <2>1 DEF Stages
  <2>3. Advance(t, IF zip[t] THEN "zip" ELSE "rename") \/ End(t, TRUE) \/ End(t, FALSE)
    BY <1>6, Zenon DEF Look
  <2>4. QED
    BY <2>2, <2>3, Zenon DEF Effect
<1>7. CASE Rename(t)
  <2>1. kind[t] = "uninstall" /\ pc[t] = "rename"
    BY <1>7, StageOfKind DEF Rename
  <2>2. pc[t] \in Stages[kind[t]]
    BY <2>1 DEF Stages
  <2>3. End(t, TRUE) \/ End(t, FALSE)
    BY <1>7, Zenon DEF Rename
  <2>4. QED
    BY <2>2, <2>3, Zenon DEF Effect
<1>8. CASE Zip(t)
  <2>1. kind[t] = "uninstall" /\ pc[t] = "zip"
    BY <1>8, StageOfKind DEF Zip
  <2>2. pc[t] \in Stages[kind[t]] /\ "delete" \in Stages[kind[t]]
    BY <2>1 DEF Stages
  <2>3. Advance(t, "delete") \/ End(t, TRUE) \/ End(t, FALSE)
    BY <1>8, Zenon DEF Zip
  <2>4. QED
    BY <2>2, <2>3, Zenon DEF Effect
<1>9. CASE Delete(t)
  <2>1. kind[t] = "uninstall" /\ pc[t] = "delete"
    BY <1>9, StageOfKind DEF Delete
  <2>2. pc[t] \in Stages[kind[t]]
    BY <2>1 DEF Stages
  <2>3. End(t, TRUE) \/ End(t, FALSE)
    BY <1>9, Zenon DEF Delete
  <2>4. QED
    BY <2>2, <2>3, Zenon DEF Effect
<1>10. CASE Backup(t)
  <2>1. kind[t] = "backup" /\ pc[t] = "backup"
    BY <1>10, StageOfKind DEF Backup
  <2>2. pc[t] \in Stages[kind[t]]
    BY <2>1 DEF Stages
  <2>3. End(t, TRUE) \/ End(t, FALSE)
    BY <1>10, Zenon DEF Backup
  <2>4. QED
    BY <2>2, <2>3, Zenon DEF Effect
<1>11. QED
  BY <1>1, <1>2, <1>3, <1>4, <1>5, <1>6, <1>7, <1>8, <1>9, <1>10 DEF TaskStep

\* A step of a task keeps the trackers' types ...
LEMMA EffectTypes ==
  ASSUME TrackTypes, NEW t \in Tasks, Effect(t)
  PROVE  TrackTypes'
<1>1. kind' = kind /\ dropped' = dropped /\ kind[t] \in Kinds
  BY DEF Effect, Advance, End, TrackTypes
<1>2. shown' \in [Kinds -> {"none", "running", "error"}]
  BY <1>1 DEF Effect, Advance, Report, End, TrackTypes
<1>3. PICK p \in Stages[kind[t]] \cup Stopped : pc' = [pc EXCEPT ![t] = p]
  BY DEF Effect, Advance, End, Stopped
<1>4. p \in Running \cup Stopped
  BY <1>1 DEF Kinds, Running
<1>5. QED
  BY <1>1, <1>2, <1>3, <1>4 DEF TrackTypes

\* ... and what they promise.
LEMMA EffectKeeps ==
  ASSUME TrackTypes, BarHasTask, Alone, NEW t \in Tasks, Effect(t)
  PROVE  BarHasTask' /\ Alone'
<1>1. kind' = kind /\ dropped' = dropped /\ kind[t] \in Kinds /\ t \in Live(kind[t])
  BY DEF Effect, Advance, End, TrackTypes, Live
<1>2. ASSUME NEW k \in Kinds, k # kind[t]
      PROVE  Live(k)' = Live(k) /\ shown'[k] = shown[k]
  BY <1>1, <1>2 DEF Effect, Advance, Report, End, TrackTypes, Live
<1>3. CASE \E stage \in Stages[kind[t]] : Advance(t, stage)
  <2>1. Live(kind[t])' = Live(kind[t])
    BY <1>1, <1>3 DEF Effect, Advance, TrackTypes, Live
  <2>2. shown'[kind[t]] = IF shown[kind[t]] = "none" THEN "none" ELSE "running"
    BY <1>1, <1>3 DEF Advance, Report, TrackTypes
  <2>3. QED
    BY <1>1, <1>2, <2>1, <2>2 DEF BarHasTask, Alone
<1>4. CASE End(t, TRUE) \/ End(t, FALSE)
  <2>1. pc' = [pc EXCEPT ![t] = "done"] \/ pc' = [pc EXCEPT ![t] = "failed"]
    BY <1>4 DEF End
  <2>2. "done" \notin Stages[kind[t]] /\ "failed" \notin Stages[kind[t]]
    BY <1>1 DEF Stages, Kinds
  <2>3. Live(kind[t])' = Live(kind[t]) \ {t}
    BY <1>1, <2>1, <2>2 DEF TrackTypes, Live
  <2>4. shown'[kind[t]] # "running"
    BY <1>1, <1>4 DEF End, TrackTypes
  <2>5. QED
    BY <1>1, <1>2, <2>3, <2>4 DEF BarHasTask, Alone
<1>5. QED
  BY <1>3, <1>4 DEF Effect
-----------------------------------------------------------------------------
(* Requests and the operator's other acts *)

\* A request changes its own task, which was idle: it attaches to an entry or
\* starts behind a new one of its kind, from entries some of which it dropped.
Asks(t) ==
  /\ pc[t] = "idle"
  /\ \E k \in Kinds, ks \in {{}, {"install"}} :
       /\ dropped' = [i \in Kinds |-> dropped[i] \/ (i \in ks /\ Live(i) # {})]
       /\ kind' = [kind EXCEPT ![t] = k]
       /\ \/ /\ pc' = [pc EXCEPT ![t] = "attached"]
             /\ shown' = [i \in Kinds |-> IF i \in ks THEN "none" ELSE shown[i]]
          \/ /\ shown[k] # "running"
             /\ \E stage \in Stages[k] \ {"zip", "delete"} : pc' = [pc EXCEPT ![t] = stage]
             /\ shown' = [i \in Kinds |-> IF i = k THEN "running"
                                          ELSE IF i \in ks THEN "none" ELSE shown[i]]

\* StartInstall attaches or starts, and drops no entry.
LEMMA InstallAsks ==
  ASSUME TrackTypes, NEW t \in Tasks, RequestInstall(t)
  PROVE  Asks(t)
<1>1. dropped' = [i \in Kinds |-> dropped[i] \/ (i \in {} /\ Live(i) # {})]
  BY DEF RequestInstall, TrackTypes
<1>2. CASE shown["install"] # "none" /\ Attach(t, "install") /\ UNCHANGED shown
  <2>1. shown' = [i \in Kinds |-> IF i \in {} THEN "none" ELSE shown[i]]
    BY <1>2 DEF TrackTypes
  <2>2. QED
    BY <1>1, <1>2, <2>1 DEF RequestInstall, Asks, Attach, Kinds
<1>3. ASSUME NEW stage \in {"restore", "write"}, shown["install"] = "none",
             Start(t, "install", stage, shown)
      PROVE  Asks(t)
  <2>1. shown' = [i \in Kinds |-> IF i = "install" THEN "running"
                                 ELSE IF i \in {} THEN "none" ELSE shown[i]]
    BY <1>3 DEF TrackTypes, Start
  <2>2. stage \in Stages["install"] \ {"zip", "delete"} /\ pc' = [pc EXCEPT ![t] = stage]
    BY <1>3 DEF Start, Stages
  <2>3. QED
    BY <1>1, <1>3, <2>1, <2>2 DEF RequestInstall, Asks, Start, Kinds
<1>4. QED
  BY <1>2, <1>3 DEF RequestInstall

\* handleUninstallApp drops the install's entry, then attaches or starts.
LEMMA UninstallAsks ==
  ASSUME TrackTypes, NEW t \in Tasks, RequestUninstall(t)
  PROVE  Asks(t)
<1> DEFINE entries == [shown EXCEPT !["install"] = "none"]
<1>1. dropped' = [i \in Kinds |-> dropped[i] \/ (i \in {"install"} /\ Live(i) # {})]
  BY DEF RequestUninstall, TrackTypes, Kinds
<1>2. CASE Attach(t, "uninstall") /\ shown' = entries
  <2>1. shown' = [i \in Kinds |-> IF i \in {"install"} THEN "none" ELSE shown[i]]
    BY <1>2 DEF TrackTypes
  <2>2. QED
    BY <1>1, <1>2, <2>1 DEF RequestUninstall, Asks, Attach, Kinds
<1>3. CASE shown["uninstall"] # "running" /\ Start(t, "uninstall", "remove", entries)
  <2>1. shown' = [i \in Kinds |-> IF i = "uninstall" THEN "running"
                                 ELSE IF i \in {"install"} THEN "none" ELSE shown[i]]
    BY <1>3 DEF TrackTypes, Start
  <2>2. "remove" \in Stages["uninstall"] \ {"zip", "delete"} /\ pc' = [pc EXCEPT ![t] = "remove"]
    BY <1>3 DEF Start, Stages
  <2>3. QED
    BY <1>1, <1>3, <2>1, <2>2 DEF RequestUninstall, Asks, Start, Kinds
<1>4. QED
  BY <1>2, <1>3 DEF RequestUninstall

\* StartBackup attaches or starts, and drops no entry.
LEMMA BackupAsks ==
  ASSUME TrackTypes, NEW t \in Tasks, RequestBackup(t)
  PROVE  Asks(t)
<1>1. dropped' = [i \in Kinds |-> dropped[i] \/ (i \in {} /\ Live(i) # {})]
  BY DEF RequestBackup, TrackTypes
<1>2. CASE Attach(t, "backup") /\ UNCHANGED shown
  <2>1. shown' = [i \in Kinds |-> IF i \in {} THEN "none" ELSE shown[i]]
    BY <1>2 DEF TrackTypes
  <2>2. QED
    BY <1>1, <1>2, <2>1 DEF RequestBackup, Asks, Attach, Kinds
<1>3. CASE shown["backup"] # "running" /\ Start(t, "backup", "backup", shown)
  <2>1. shown' = [i \in Kinds |-> IF i = "backup" THEN "running"
                                 ELSE IF i \in {} THEN "none" ELSE shown[i]]
    BY <1>3 DEF TrackTypes, Start
  <2>2. "backup" \in Stages["backup"] \ {"zip", "delete"} /\ pc' = [pc EXCEPT ![t] = "backup"]
    BY <1>3 DEF Start, Stages
  <2>3. QED
    BY <1>1, <1>3, <2>1, <2>2 DEF RequestBackup, Asks, Start, Kinds
<1>4. QED
  BY <1>2, <1>3 DEF RequestBackup

\* A request keeps the types and what the trackers promise.
LEMMA AskKeeps ==
  ASSUME TrackTypes, BarHasTask, Alone, NEW t \in Tasks, Asks(t)
  PROVE  TrackTypes' /\ BarHasTask' /\ Alone'
<1>1. PICK k \in Kinds, ks \in {{}, {"install"}} :
        /\ dropped' = [i \in Kinds |-> dropped[i] \/ (i \in ks /\ Live(i) # {})]
        /\ kind' = [kind EXCEPT ![t] = k]
        /\ \/ /\ pc' = [pc EXCEPT ![t] = "attached"]
              /\ shown' = [i \in Kinds |-> IF i \in ks THEN "none" ELSE shown[i]]
           \/ /\ shown[k] # "running"
              /\ \E stage \in Stages[k] \ {"zip", "delete"} : pc' = [pc EXCEPT ![t] = stage]
              /\ shown' = [i \in Kinds |-> IF i = k THEN "running"
                                           ELSE IF i \in ks THEN "none" ELSE shown[i]]
  BY DEF Asks
<1>2. PICK p \in Stages[k] \cup {"attached"} : pc' = [pc EXCEPT ![t] = p]
  BY <1>1
<1>3. TrackTypes'
  <2>1. p \in Running \cup Stopped
    BY DEF Kinds, Running, Stopped
  <2>2. pc' \in [Tasks -> Running \cup Stopped]
    BY <1>2, <2>1 DEF TrackTypes
  <2>3. shown' \in [Kinds -> {"none", "running", "error"}]
    BY <1>1 DEF TrackTypes
  <2>4. dropped' \in [Kinds -> BOOLEAN]
    BY <1>1 DEF TrackTypes
  <2>5. QED
    BY <1>1, <1>2, <2>2, <2>3, <2>4 DEF TrackTypes, Stopped
<1>4. \A i \in Kinds : "idle" \notin Stages[i] /\ "attached" \notin Stages[i]
  BY DEF Kinds, Stages
<1>5. \A i \in Kinds : t \notin Live(i)
  BY <1>4 DEF Asks, Live, TrackTypes
<1>6. ASSUME NEW i \in Kinds, ~dropped'[i]
      PROVE  ~dropped[i] /\ (i \in ks => Live(i) = {})
  BY <1>1, <1>6, Zenon
<1>7. CASE pc' = [pc EXCEPT ![t] = "attached"]
           /\ shown' = [i \in Kinds |-> IF i \in ks THEN "none" ELSE shown[i]]
  <2>1. \A i \in Kinds : Live(i)' = Live(i)
    BY <1>1, <1>4, <1>5, <1>7 DEF Live, TrackTypes
  <2>2. BarHasTask'
    BY <1>7, <2>1 DEF BarHasTask
  <2>3. Alone'
    BY <1>7, <1>6, <2>1 DEF Alone, TrackTypes
  <2>4. QED
    BY <1>3, <2>2, <2>3
<1>8. CASE /\ shown[k] # "running"
           /\ \E stage \in Stages[k] \ {"zip", "delete"} : pc' = [pc EXCEPT ![t] = stage]
           /\ shown' = [i \in Kinds |-> IF i = k THEN "running"
                                        ELSE IF i \in ks THEN "none" ELSE shown[i]]
  <2>1. Live(k)' = Live(k) \cup {t}
    BY <1>1, <1>8 DEF Live, TrackTypes
  <2>2. \A i \in Kinds \ {k} : Live(i)' = Live(i)
    BY <1>1, <1>5, <1>8 DEF Live, TrackTypes
  <2>3. BarHasTask'
    BY <1>8, <2>1, <2>2 DEF BarHasTask
  <2>4. dropped[k] \/ Live(k) = {}
    BY <1>8 DEF Alone
  <2>5. Alone'
    BY <1>8, <1>6, <2>1, <2>2, <2>4 DEF Alone, TrackTypes
  <2>6. QED
    BY <1>3, <2>3, <2>5
<1>9. QED
  BY <1>1, <1>7, <1>8
\* Clearing entries, the operator and the app change no task.
LEMMA DismissKeeps ==
  ASSUME TrackTypes, BarHasTask, Alone, Dismiss
  PROVE  TrackTypes' /\ BarHasTask' /\ Alone'
<1>1. shown' = [k \in Kinds |-> "none"]
  BY DEF Dismiss, Clear
<1>2. \A k \in Kinds : Live(k)' = Live(k)
  BY DEF Dismiss, taskVars, Live
<1>3. dropped' = [k \in Kinds |-> dropped[k] \/ (k \in Kinds /\ Live(k) # {})]
  BY DEF Dismiss, Clear
<1>4. ASSUME NEW k \in Kinds, ~dropped'[k]
      PROVE  Live(k) = {}
  BY <1>3, <1>4, Zenon
<1>5. TrackTypes'
  <2>1. dropped' \in [Kinds -> BOOLEAN]
    BY <1>3 DEF TrackTypes
  <2>2. QED
    BY <1>1, <2>1 DEF Dismiss, taskVars, TrackTypes
<1>6. BarHasTask' /\ Alone'
  BY <1>1, <1>2, <1>4 DEF BarHasTask, Alone
<1>7. QED
  BY <1>5, <1>6

\* After a kill there is neither a task nor an entry.
LEMMA CrashKeeps ==
  ASSUME TrackTypes, Crash
  PROVE  TrackTypes' /\ BarHasTask' /\ Alone'
<1>1. /\ pc' = [t \in Tasks |-> IF pc[t] \in Stages[kind[t]] THEN "lost" ELSE pc[t]]
      /\ shown' = [k \in Kinds |-> "none"]
      /\ kind' = kind /\ dropped' = dropped
  BY DEF Crash, taskVars
<1>2. \A t \in Tasks : pc'[t] \in Stopped
  BY <1>1 DEF TrackTypes, Stopped
<1>3. TrackTypes'
  BY <1>1, <1>2 DEF TrackTypes
<1>4. \A k \in Kinds : Stages[k] \cap Stopped = {}
  BY DEF Kinds, Stages, Stopped
<1>5. \A k \in Kinds : Live(k)' = {}
  BY <1>1, <1>2, <1>4 DEF Live
<1>6. BarHasTask' /\ Alone'
  BY <1>1, <1>5 DEF BarHasTask, Alone
<1>7. QED
  BY <1>3, <1>6

\* Steps that touch neither tasks nor entries.
LEMMA StutterKeeps ==
  ASSUME TrackTypes, BarHasTask, Alone, UNCHANGED <<shown, pc, kind, dropped>>
  PROVE  TrackTypes' /\ BarHasTask' /\ Alone'
<1>1. \A k \in Kinds : Live(k)' = Live(k)
  BY DEF Live
<1>2. QED
  BY <1>1 DEF TrackTypes, BarHasTask, Alone

-----------------------------------------------------------------------------
(* The app and the archives *)

\* A new state of the data is data.
LEMMA NextGen == ASSUME AppTypes PROVE gen + 1 \in Contents /\ gen + 1 # None
BY TasksAssumption DEF AppTypes, Contents

\* A folder that is made has contents.
LEMMA MadeTypes ==
  ASSUME AppTypes, Made, folder' \in {"bare", "app"}
  PROVE  gen' \in Nat /\ data' \in Contents /\ data' # None
BY NextGen DEF AppTypes, Made

\* What a failing stage leaves is a folder with contents.
LEMMA PartTypes ==
  ASSUME AppTypes, PartlyRestored \/ PartlyWritten \/ PartlyDeleted
  PROVE  /\ folder' \in {"bare", "app"} /\ gen' \in Nat
         /\ data' \in Contents /\ data' # None
<1>1. Part \in Contents /\ Part # None
  BY TasksAssumption DEF Contents
<1>2. CASE PartlyRestored
  BY <1>1, <1>2 DEF PartlyRestored, AppTypes
<1>3. CASE PartlyWritten
  BY <1>3, MadeTypes DEF PartlyWritten
<1>4. CASE PartlyDeleted
  BY <1>1, <1>4 DEF PartlyDeleted, AppTypes
<1>5. QED
  BY <1>2, <1>3, <1>4

\* The folder keeps its types when it is there with contents, gone without,
\* or left alone.
LEMMA FolderTypes ==
  ASSUME AppTypes, up' \in BOOLEAN, risks' \subseteq Risks,
         \/ UNCHANGED <<folder, data, gen>>
         \/ /\ folder' \in {"bare", "app"} /\ gen' \in Nat
            /\ data' \in Contents /\ data' # None
         \/ folder' = "none" /\ data' = None /\ gen' = gen
  PROVE  AppTypes'
BY DEF AppTypes, Contents

\* Declaring folders keeps the types of the app.
LEMMA DeclaredTypes ==
  ASSUME AppTypes, Declared, up' \in BOOLEAN, risks' \subseteq Risks
  PROVE  AppTypes'
<1>1. CASE UNCHANGED <<folder, data, gen>>
  BY <1>1, FolderTypes
<1>2. CASE folder' = "bare" /\ Made
  BY <1>2, MadeTypes, FolderTypes
<1>3. QED
  BY <1>1, <1>2 DEF Declared

\* Every step of a task keeps the types of the app and of the archives.
LEMMA TaskStepTypes ==
  ASSUME TypeOK, NEW t \in Tasks, TaskStep(t)
  PROVE  AppTypes' /\ StoreTypes'
<1> USE DEF taskVars, appVars
<1>1. AppTypes /\ TrackTypes /\ StoreTypes
  BY Types
<1>2. None \in Contents /\ Part \in Contents /\ data \in Contents
  BY <1>1 DEF Contents, AppTypes
<1>3. zip' = zip
  BY <1>1, TaskEffect DEF Effect, Advance, End
<1>4. CASE Restore(t)
  <2>1. seen' = seen /\ up' = up /\ risks' = risks
    BY <1>4 DEF Restore
  <2>2. CASE /\ folder = "none"
             /\ \E a \in Tasks :
                  /\ archive[a] # None
                  /\ folder' \in {"bare", "app"} /\ data' = archive[a]
                  /\ archive' = IF zip[a] THEN archive ELSE [archive EXCEPT ![a] = None]
             /\ UNCHANGED gen
    <3>1. archive' \in [Tasks -> Contents]
      BY <1>1, <1>2, <2>2 DEF StoreTypes
    <3>2. data' \in Contents /\ data' # None
      BY <1>1, <2>2 DEF StoreTypes
    <3>3. AppTypes'
      BY <1>1, <2>1, <2>2, <3>2, FolderTypes DEF AppTypes
    <3>4. QED
      BY <1>1, <1>3, <2>1, <3>1, <3>3 DEF StoreTypes
  <2>3. CASE PartlyRestored /\ UNCHANGED archive
    <3>1. AppTypes'
      BY <1>1, <2>1, <2>3, PartTypes, FolderTypes DEF AppTypes
    <3>2. QED
      BY <1>1, <1>3, <2>1, <2>3, <3>1 DEF StoreTypes
  <2>4. CASE UNCHANGED <<folder, data, gen, archive>>
    <3>1. AppTypes'
      BY <1>1, <2>1, <2>4, FolderTypes DEF AppTypes
    <3>2. QED
      BY <1>1, <1>3, <2>1, <2>4, <3>1 DEF StoreTypes
  <2>5. QED
    BY <1>4, <2>2, <2>3, <2>4 DEF Restore
<1>5. CASE Write(t)
  <2>1. StoreTypes' /\ up' = up /\ risks' = risks
    BY <1>1, <1>3, <1>5 DEF Write, StoreTypes
  <2>2. CASE folder' = "app" /\ Made
    BY <1>1, <2>1, <2>2, MadeTypes, FolderTypes DEF AppTypes
  <2>3. CASE PartlyWritten
    BY <1>1, <2>1, <2>3, PartTypes, FolderTypes DEF AppTypes
  <2>4. CASE UNCHANGED <<folder, data, gen>>
    BY <1>1, <2>1, <2>4, FolderTypes DEF AppTypes
  <2>5. QED
    BY <1>5, <2>2, <2>3, <2>4 DEF Write
<1>6. CASE Prepare(t)
  <2>1. StoreTypes' /\ up' = up /\ risks' = risks /\ Declared
    BY <1>1, <1>3, <1>6 DEF Prepare, StoreTypes
  <2>2. QED
    BY <1>1, <2>1, DeclaredTypes DEF AppTypes
<1>7. CASE BringUp(t)
  <2>1. StoreTypes' /\ risks' = risks /\ up' \in BOOLEAN
    BY <1>1, <1>3, <1>7 DEF BringUp, StoreTypes, AppTypes
  <2>2. UNCHANGED <<folder, data, gen>> \/ Declared
    BY <1>7 DEF BringUp
  <2>3. QED
    BY <1>1, <2>1, <2>2, DeclaredTypes, FolderTypes DEF AppTypes
<1>8. CASE Remove(t)
  <2>1. UNCHANGED <<folder, data, gen, seen, archive, risks>> /\ up' \in {FALSE, up /\ Faults}
    BY <1>8 DEF Remove
  <2>2. up' \in BOOLEAN
    BY <1>1, <2>1 DEF AppTypes
  <2>3. QED
    BY <1>1, <1>3, <2>1, <2>2 DEF AppTypes, StoreTypes
<1>9. CASE Look(t)
  <2>1. UNCHANGED <<appVars, archive, risks>>
        /\ (UNCHANGED seen \/ seen' = [seen EXCEPT ![t] = data])
    BY <1>9 DEF Look
  <2>2. QED
    BY <1>1, <1>2, <1>3, <2>1 DEF AppTypes, StoreTypes
<1>10. CASE Rename(t)
  <2>1. UNCHANGED <<gen, up, seen, risks>>
    BY <1>10 DEF Rename
  <2>2. CASE archive' = [archive EXCEPT ![t] = data] /\ folder' = "none" /\ data' = None
    <3>1. AppTypes'
      BY <1>1, <2>1, <2>2, FolderTypes DEF AppTypes
    <3>2. QED
      BY <1>1, <1>2, <1>3, <2>1, <2>2, <3>1 DEF StoreTypes
  <2>3. CASE UNCHANGED <<folder, data, archive>>
    BY <1>1, <1>3, <2>1, <2>3 DEF AppTypes, StoreTypes
  <2>4. QED
    BY <1>10, <2>2, <2>3 DEF Rename
<1>11. CASE Zip(t)
  <2>1. UNCHANGED <<appVars, seen>> /\ risks' \subseteq Risks
    BY <1>1, <1>11 DEF Zip, AppTypes, Risks
  <2>2. Part \in Contents /\ data \in Contents
    BY <1>1 DEF AppTypes, Contents
  <2>3. archive' = archive \/ \E c \in {data, Part} : archive' = [archive EXCEPT ![t] = c]
    BY <1>11 DEF Zip
  <2>4. archive' \in [Tasks -> Contents]
    BY <1>1, <2>2, <2>3 DEF StoreTypes
  <2>5. QED
    BY <1>1, <1>2, <1>3, <2>1, <2>4 DEF AppTypes, StoreTypes, appVars
<1>12. CASE Delete(t)
  <2>1. StoreTypes' /\ up' = up /\ risks' = risks
    BY <1>1, <1>3, <1>12 DEF Delete, StoreTypes
  <2>2. CASE folder' = "none" /\ data' = None /\ UNCHANGED gen
    BY <1>1, <2>1, <2>2, FolderTypes DEF AppTypes
  <2>3. CASE PartlyDeleted
    BY <1>1, <2>1, <2>3, PartTypes, FolderTypes DEF AppTypes
  <2>4. QED
    BY <1>12, <2>2, <2>3 DEF Delete
<1>13. CASE Backup(t)
  <2>1. UNCHANGED <<folder, data, gen, seen, risks>>
        /\ archive' \in [Tasks -> Contents]
    <3>1. Part \in Contents /\ data \in Contents
      BY <1>1 DEF AppTypes, Contents
    <3>2. archive' = archive \/ \E c \in {data, Part} : archive' = [archive EXCEPT ![t] = c]
      BY <1>13 DEF Backup
    <3>3. QED
      BY <1>1, <1>13, <3>1, <3>2 DEF Backup, StoreTypes
  <2>2. up' \in BOOLEAN
    BY <1>1, <1>13 DEF Backup, AppTypes
  <2>3. QED
    BY <1>1, <1>2, <1>3, <2>1, <2>2 DEF AppTypes, StoreTypes
<1>14. QED
  BY <1>4, <1>5, <1>6, <1>7, <1>8, <1>9, <1>10, <1>11, <1>12, <1>13 DEF TaskStep

\* A kill keeps the types, whatever was at work.
LEMMA CrashTypes ==
  ASSUME TypeOK, Crash
  PROVE  AppTypes' /\ StoreTypes'
<1>1. AppTypes /\ StoreTypes
  BY Types
<1>2. UNCHANGED <<up, risks, seen, zip>>
  BY DEF Crash, taskVars
<1>3. AppTypes'
  <2>1. UNCHANGED <<folder, data, gen>> \/ PartlyRestored \/ PartlyWritten \/ PartlyDeleted
    BY DEF Crash
  <2>2. QED
    BY <1>1, <1>2, <2>1, PartTypes, FolderTypes DEF AppTypes
<1>4. archive' \in [Tasks -> Contents]
  <2>1. Part \in Contents
    BY DEF Contents
  <2>2. archive' = archive
        \/ archive' = [t \in Tasks |-> IF pc[t] = "zip" THEN Part ELSE archive[t]]
    BY DEF Crash
  <2>3. QED
    BY <1>1, <2>1, <2>2 DEF StoreTypes
<1>5. QED
  BY <1>1, <1>2, <1>3, <1>4 DEF StoreTypes

-----------------------------------------------------------------------------
(* The theorems *)

\* The invariant holds at the start.
LEMMA Start0 == Init => IInv
<1> SUFFICES ASSUME Init PROVE IInv
  OBVIOUS
<1>1. AppTypes /\ StoreTypes
  <2>1. None \in Contents /\ 1 \in Contents /\ 1 # None
    BY TasksAssumption DEF Contents
  <2>2. AppTypes
    <3>1. CASE folder = "none" /\ data = None /\ gen = 0 /\ up = FALSE /\ risks = {}
      BY <2>1, <3>1 DEF AppTypes
    <3>2. CASE folder = "app" /\ data = 1 /\ gen = 1 /\ up \in BOOLEAN /\ risks = {}
      BY <2>1, <3>2 DEF AppTypes
    <3>3. QED
      BY <3>1, <3>2 DEF Init
  <2>3. StoreTypes
    BY <2>1 DEF Init, StoreTypes
  <2>4. QED
    BY <2>2, <2>3
<1>2. TrackTypes
  BY DEF Init, TrackTypes, Kinds, Stopped
<1>3. BarHasTask /\ Alone
  <2>1. \A k \in Kinds : Live(k) = {}
    BY DEF Init, Live, Kinds, Stages
  <2>2. QED
    BY <2>1 DEF Init, BarHasTask, Alone
<1>4. QED
  BY <1>1, <1>2, <1>3, Types DEF IInv

\* Every step keeps the invariant.
LEMMA StepKeeps == IInv /\ [Next]_vars => IInv'
<1> SUFFICES ASSUME IInv, [Next]_vars PROVE IInv'
  OBVIOUS
<1>1. TypeOK /\ AppTypes /\ TrackTypes /\ StoreTypes /\ BarHasTask /\ Alone
  BY Types DEF IInv
<1>2. SUFFICES AppTypes' /\ StoreTypes' /\ TrackTypes' /\ BarHasTask' /\ Alone'
  BY Types DEF IInv, TypeOK, AppTypes, StoreTypes, TrackTypes
<1>3. CASE Dismiss
  <2>1. AppTypes' /\ StoreTypes'
    BY <1>1, <1>3 DEF Dismiss, appVars, taskVars, AppTypes, StoreTypes
  <2>2. QED
    BY <1>1, <1>3, <2>1, DismissKeeps
<1>4. CASE AppWrites
  <2>1. UNCHANGED <<shown, pc, kind, dropped>> /\ StoreTypes'
    BY <1>1, <1>4 DEF AppWrites, taskVars, StoreTypes
  <2>2. gen' = gen + 1 /\ data' = gen + 1 /\ folder' = folder /\ folder # "none" /\ up' = up
    BY <1>4 DEF AppWrites
  <2>3. risks' \subseteq Risks
    BY <1>1, <1>4 DEF AppWrites, AppTypes, Risks
  <2>4. AppTypes'
    BY <1>1, <2>2, <2>3, NextGen DEF AppTypes
  <2>5. QED
    BY <1>1, <2>1, <2>4, StutterKeeps
<1>5. CASE OperatorActs
  <2>1. UNCHANGED <<shown, pc, kind, dropped>> /\ StoreTypes' /\ AppTypes'
    BY <1>1, <1>5 DEF OperatorActs, taskVars, StoreTypes, AppTypes
  <2>2. QED
    BY <1>1, <2>1, StutterKeeps
<1>6. CASE Crash
  BY <1>1, <1>6, CrashTypes, CrashKeeps
<1>7. ASSUME NEW t \in Tasks, RequestInstall(t) \/ RequestUninstall(t) \/ RequestBackup(t)
      PROVE  AppTypes' /\ StoreTypes' /\ TrackTypes' /\ BarHasTask' /\ Alone'
  <2>1. AppTypes'
    BY <1>1, <1>7 DEF RequestInstall, RequestUninstall, RequestBackup, appVars, AppTypes
  <2>2. StoreTypes'
    BY <1>1, <1>7 DEF RequestInstall, RequestUninstall, RequestBackup, StoreTypes
  <2>3. Asks(t)
    BY <1>1, <1>7, InstallAsks, UninstallAsks, BackupAsks
  <2>4. QED
    BY <1>1, <2>1, <2>2, <2>3, AskKeeps
<1>8. ASSUME NEW t \in Tasks, TaskStep(t)
      PROVE  AppTypes' /\ StoreTypes' /\ TrackTypes' /\ BarHasTask' /\ Alone'
  <2>1. Effect(t)
    BY <1>1, <1>8, TaskEffect
  <2>2. QED
    BY <1>1, <1>8, <2>1, TaskStepTypes, EffectTypes, EffectKeeps
<1>9. CASE UNCHANGED vars
  <2>1. UNCHANGED <<shown, pc, kind, dropped>> /\ StoreTypes' /\ AppTypes'
    BY <1>1, <1>9 DEF vars, StoreTypes, AppTypes
  <2>2. QED
    BY <1>1, <2>1, StutterKeeps
<1>10. QED
  BY <1>3, <1>4, <1>5, <1>6, <1>7, <1>8, <1>9 DEF Next

\* The invariant of the trackers (StartInstall, StartUninstall, StartBackup,
\* and the handlers that clear their entries).
THEOREM Invariance == Spec => []IInv
BY Start0, StepKeeps, PTL DEF Spec

\* Every state has the types TypeOK gives: with and without a folder, however
\* installs and uninstalls were cut short.
THEOREM TypeCorrect == Spec => []TypeOK
<1>1. IInv => TypeOK
  BY DEF IInv
<1>2. QED
  BY <1>1, Invariance, PTL

\* No bar runs for ever: behind a running entry there is a goroutine that will
\* end it, also after dismissals and second requests.
THEOREM BarTheorem == Spec => []BarHasTask
<1>1. IInv => BarHasTask
  BY DEF IInv
<1>2. QED
  BY <1>1, Invariance, PTL

\* Two operations of a kind overlap only after an entry was cleared under one.
THEOREM OneTheorem == Spec => []OneOfAKind
<1>1. IInv => OneOfAKind
  BY DEF IInv, Alone, OneOfAKind
<1>2. QED
  BY <1>1, Invariance, PTL

\* A failure turns its entry to an error, whatever overlaps with it.
THEOREM FailureTheorem == Spec => FailureIsShown
<1>1. ASSUME IInv, [Next]_vars, NEW t \in Tasks,
             pc[t] \in Stages[kind[t]], pc'[t] = "failed", ~dropped[kind[t]]
      PROVE  shown'[kind[t]] = "error"
  <2>1. TrackTypes
    BY <1>1, Types DEF IInv
  <2>2. kind[t] \in Kinds /\ pc \in [Tasks -> Running \cup Stopped]
    BY <2>1 DEF TrackTypes
  <2>3. shown[kind[t]] = "running"
    BY <1>1, <2>2 DEF IInv, Alone, Live
  <2>4. \A k \in Kinds : "failed" \notin Stages[k] /\ "idle" \notin Stages[k]
    BY DEF Kinds, Stages
  <2>5. pc'[t] # pc[t] /\ pc[t] # "idle"
    BY <1>1, <2>2, <2>4
  <2>6. ASSUME NEW u \in Tasks, Asks(u)
        PROVE  FALSE
    BY <1>1, <2>2, <2>5, <2>6 DEF Asks
  <2>7. ASSUME NEW u \in Tasks, Effect(u)
        PROVE  shown'[kind[t]] = "error"
    <3>1. u = t
      BY <2>2, <2>5, <2>7 DEF Effect, Advance, End
    <3>2. ~\E stage \in Stages[kind[t]] : Advance(t, stage)
      BY <1>1, <2>2, <2>4 DEF Advance
    <3>3. ~End(t, TRUE)
      BY <1>1, <2>2 DEF End
    <3>4. End(t, FALSE)
      BY <2>7, <3>1, <3>2, <3>3 DEF Effect
    <3>5. QED
      BY <2>1, <2>2, <2>3, <3>4 DEF End, TrackTypes
  <2>8. ~Crash
    BY <1>1, <2>2 DEF Crash
  <2>9. ~Dismiss /\ ~AppWrites /\ ~OperatorActs /\ ~UNCHANGED vars
    BY <2>5 DEF Dismiss, AppWrites, OperatorActs, vars
  <2>10. QED
    BY <1>1, <2>1, <2>6, <2>7, <2>8, <2>9, TaskEffect,
       InstallAsks, UninstallAsks, BackupAsks DEF Next
<1>2. IInv /\ [Next]_vars =>
        [\A t \in Tasks :
           pc[t] \in Stages[kind[t]] /\ pc'[t] = "failed" /\ ~dropped[kind[t]]
             => shown'[kind[t]] = "error"]_vars
  BY <1>1, Zenon
<1>3. QED
  BY <1>2, Invariance, PTL DEF Spec, FailureIsShown

-----------------------------------------------------------------------------
(* DataIsKept for any number of installs, uninstalls and backups of an     *)
(* app: the newest state of its data is in its folder or in an archive.    *)
(*                                                                         *)
(* What carries it is that only an uninstall takes the folder away, that   *)
(* it works alone (Alone) unless its entry was cleared, and that no task   *)
(* has an archive to overwrite before it makes its own (Fresh).            *)

Calm == risks = {} /\ ~dropped["uninstall"]

\* A task has made no archive before its last stage.
Fresh ==
  \A t \in Tasks :
    pc[t] \notin {"delete", "done", "failed", "lost"} => archive[t] = None

\* The folder an uninstall compresses does not move, ...
Still ==
  \A t \in Tasks : pc[t] = "zip" => folder # "none" /\ seen[t] = data

\* ... and the folder it removes is archived.
Archived ==
  \A t \in Tasks : pc[t] = "delete" => folder # "none" /\ archive[t] = data

Kept == gen > 0 => gen = data \/ \E t \in Tasks : archive[t] = gen

Safe == Still /\ Archived /\ Kept

DInv == IInv /\ Fresh /\ (Calm => Safe)

-----------------------------------------------------------------------------

\* The types and numbers the steps below use.
LEMMA Facts ==
  ASSUME DInv
  PROVE  /\ AppTypes /\ TrackTypes /\ StoreTypes
         /\ gen \in Nat /\ None # gen
         /\ folder = "none" => data = None
BY Types, TasksAssumption DEF DInv, IInv, AppTypes

\* An uninstall has the folder to itself.
LEMMA AloneAtFolder ==
  ASSUME DInv, Calm, NEW t \in Tasks, NEW u \in Tasks,
         pc[t] \in Stages["uninstall"], pc[u] \in {"zip", "delete"}
  PROVE  t = u
<1>1. TrackTypes /\ Alone
  BY Types DEF DInv, IInv
<1>2. kind[t] = "uninstall" /\ kind[u] = "uninstall"
  BY <1>1, StageOfKind DEF Stages
<1>3. t \in Live("uninstall") /\ u \in Live("uninstall")
  BY <1>2 DEF Live, Stages
<1>4. QED
  BY <1>1, <1>3 DEF Alone, Calm, Kinds

\* What a task's step leaves alone, and where it takes its task.
LEMMA Moves ==
  ASSUME TrackTypes, NEW t \in Tasks, Effect(t)
  PROVE  /\ dropped' = dropped
         /\ \A u \in Tasks \ {t} : pc'[u] = pc[u]
         /\ pc'[t] \in Stages[kind[t]] \cup {"done", "failed"}
BY DEF Effect, Advance, End, TrackTypes

\* A step that keeps the folder, the archives and who is at them.
LEMMA Frame ==
  ASSUME Safe, UNCHANGED <<folder, data, gen, archive, seen>>,
         \A u \in Tasks : pc'[u] \in {"zip", "delete"} => pc'[u] = pc[u]
  PROVE  Safe'
BY DEF Safe, Still, Archived, Kept

\* A step that makes the folder, or finds it there.
LEMMA MadeKeeps ==
  ASSUME Safe, folder' # "none", Made, UNCHANGED <<archive, seen>>,
         \A u \in Tasks : pc'[u] \in {"zip", "delete"} => pc'[u] = pc[u]
  PROVE  Safe'
<1>1. CASE folder = "none"
  <2>1. \A u \in Tasks : pc'[u] \notin {"zip", "delete"}
    BY <1>1 DEF Safe, Still, Archived
  <2>2. data' = gen'
    BY <1>1 DEF Made
  <2>3. QED
    BY <2>1, <2>2 DEF Safe, Still, Archived, Kept
<1>2. CASE folder # "none"
  BY <1>2 DEF Made, Safe, Still, Archived, Kept
<1>3. QED
  BY <1>1, <1>2

\* A step that leaves nobody compressing or removing, and the newest state in
\* its place.
LEMMA KeptKeeps ==
  ASSUME \A u \in Tasks : pc'[u] \notin {"zip", "delete"}, Kept'
  PROVE  Safe'
BY DEF Safe, Still, Archived

-----------------------------------------------------------------------------
(* No archive is overwritten *)

\* A task that makes its archive is at its last stage.
LEMMA FreshStep ==
  ASSUME DInv, NEW t \in Tasks, TaskStep(t)
  PROVE  Fresh'
<1>1. TrackTypes /\ StoreTypes /\ Fresh
  BY Facts DEF DInv
<1>2. Effect(t)
  BY <1>1, TaskEffect
<1>3. /\ \A u \in Tasks \ {t} : pc'[u] = pc[u]
      /\ pc'[t] \notin {"delete", "done", "failed", "lost"} =>
           pc[t] \notin {"delete", "done", "failed", "lost"}
  <2>1. \A k \in Kinds : "done" \notin Stages[k] /\ "failed" \notin Stages[k]
                          /\ "lost" \notin Stages[k]
    BY DEF Kinds, Stages
  <2>2. kind[t] \in Kinds
    BY <1>1 DEF TrackTypes
  <2>3. pc[t] # "delete" \/ pc'[t] \in {"done", "failed"}
    BY <1>1 DEF TaskStep, Restore, Write, Prepare, BringUp, Remove, Look, Rename,
         Zip, Delete, Backup, End, TrackTypes
  <2>4. QED
    BY <1>1, <1>2, <2>1, <2>2, <2>3, Moves DEF Effect
<1>4. \A u \in Tasks \ {t} : archive'[u] \in {archive[u], None}
  BY <1>1 DEF TaskStep, Restore, Write, Prepare, BringUp, Remove, Look, Rename,
       Zip, Delete, Backup, StoreTypes
<1>5. archive'[t] \in {archive[t], None} \/ pc'[t] \in {"delete", "done", "failed"}
  BY <1>1 DEF TaskStep, Restore, Write, Prepare, BringUp, Remove, Look, Rename,
       Zip, Delete, Backup, StoreTypes, TrackTypes, Advance, End
<1>6. QED
  BY <1>1, <1>3, <1>4, <1>5 DEF Fresh
-----------------------------------------------------------------------------
(* Each step of a task keeps the newest state *)

\* No uninstall is at a folder that is not there, and the newest state is in
\* an archive.
LEMMA NoFolder ==
  ASSUME DInv, Safe, folder = "none"
  PROVE  /\ \A u \in Tasks : pc[u] \notin {"zip", "delete"}
         /\ gen > 0 => \E a \in Tasks : archive[a] = gen
BY Facts DEF Safe, Still, Archived, Kept

\* A restore finds no folder; it moves or copies the newest state, or leaves it.
LEMMA RestoreKeeps ==
  ASSUME DInv, Safe, NEW t \in Tasks, Restore(t)
  PROVE  Safe'
<1>1. TrackTypes /\ StoreTypes /\ gen \in Nat
  BY Facts
<1>2. \A u \in Tasks : pc'[u] \in {"zip", "delete"} => pc'[u] = pc[u]
  BY <1>1 DEF Restore, Advance, End, TrackTypes
<1>3. CASE folder = "none" /\ (PartlyRestored /\ UNCHANGED archive)
  <2>1. \A u \in Tasks : pc'[u] \notin {"zip", "delete"}
    BY <1>2, <1>3, NoFolder
  <2>2. Kept'
    BY <1>3, NoFolder DEF PartlyRestored, Kept
  <2>3. QED
    BY <2>1, <2>2, KeptKeeps
<1>4. ASSUME NEW a \in Tasks, folder = "none", archive[a] # None, gen' = gen,
             data' = archive[a],
             archive' = IF zip[a] THEN archive ELSE [archive EXCEPT ![a] = None]
      PROVE  Safe'
  <2>1. \A u \in Tasks : pc'[u] \notin {"zip", "delete"}
    BY <1>2, <1>4, NoFolder
  <2>2. Kept'
    <3>1. SUFFICES ASSUME gen > 0 PROVE data' = gen \/ \E b \in Tasks : archive'[b] = gen
      BY <1>4 DEF Kept
    <3>2. PICK b \in Tasks : archive[b] = gen
      BY <1>4, <3>1, NoFolder
    <3>3. CASE b = a
      BY <1>4, <3>2, <3>3
    <3>4. CASE b # a
      BY <1>1, <1>4, <3>2, <3>4 DEF StoreTypes
    <3>5. QED
      BY <3>3, <3>4
  <2>3. QED
    BY <2>1, <2>2, KeptKeeps
<1>5. CASE UNCHANGED <<folder, data, gen, archive, seen>>
  BY <1>2, <1>5, Frame
<1>6. QED
  BY <1>3, <1>4, <1>5 DEF Restore, PartlyRestored

\* The rest of an install keeps a folder it finds and makes one it does not.
LEMMA InstallKeeps ==
  ASSUME DInv, Safe, NEW t \in Tasks, Write(t) \/ Prepare(t) \/ BringUp(t)
  PROVE  Safe'
<1>1. \A u \in Tasks : pc'[u] \in {"zip", "delete"} => pc'[u] = pc[u]
  BY Facts DEF Write, Prepare, BringUp, Advance, End, TrackTypes
<1>2. UNCHANGED <<archive, seen>>
  BY DEF Write, Prepare, BringUp
<1>3. UNCHANGED <<folder, data, gen>> \/ (folder' # "none" /\ Made)
  BY DEF Write, Prepare, BringUp, Declared, PartlyWritten
<1>4. QED
  BY <1>1, <1>2, <1>3, Frame, MadeKeeps

\* Removing containers moves no data.
LEMMA RemoveKeeps ==
  ASSUME DInv, Safe, NEW t \in Tasks, Remove(t)
  PROVE  Safe'
<1>1. \A u \in Tasks : pc'[u] \in {"zip", "delete"} => pc'[u] = pc[u]
  BY Facts DEF Remove, Advance, TrackTypes
<1>2. QED
  BY <1>1, Frame DEF Remove

\* An uninstall that begins to compress knows the folder's state.
LEMMA LookKeeps ==
  ASSUME DInv, Safe, NEW t \in Tasks, Look(t)
  PROVE  Safe'
<1>1. TrackTypes /\ StoreTypes /\ UNCHANGED <<folder, data, gen, archive>>
  BY Facts DEF Look, appVars
<1>2. CASE folder # "none" /\ Advance(t, IF zip[t] THEN "zip" ELSE "rename")
           /\ seen' = [seen EXCEPT ![t] = data]
  <2>1. \A u \in Tasks \ {t} : pc'[u] = pc[u] /\ seen'[u] = seen[u]
    BY <1>1, <1>2 DEF Advance, TrackTypes, StoreTypes
  <2>2. pc'[t] # "delete" /\ seen'[t] = data
    BY <1>1, <1>2 DEF Advance, TrackTypes, StoreTypes
  <2>3. QED
    BY <1>1, <1>2, <2>1, <2>2 DEF Safe, Still, Archived, Kept
<1>3. CASE UNCHANGED seen /\ (End(t, TRUE) \/ End(t, FALSE))
  <2>1. \A u \in Tasks : pc'[u] \in {"zip", "delete"} => pc'[u] = pc[u]
    BY <1>1, <1>3 DEF End, TrackTypes
  <2>2. QED
    BY <1>1, <1>3, <2>1, Frame
<1>4. QED
  BY <1>2, <1>3 DEF Look

\* A new archive does not replace the newest state.
LEMMA NewArchive ==
  ASSUME DInv, Safe, NEW t \in Tasks, archive[t] = None, NEW c,
         archive' = [archive EXCEPT ![t] = c], gen' = gen, data' = data \/ c = data
  PROVE  Kept'
<1>1. StoreTypes /\ None # gen
  BY Facts
<1>2. SUFFICES ASSUME gen > 0 PROVE data' = gen \/ \E b \in Tasks : archive'[b] = gen
  BY DEF Kept
<1>3. CASE gen = data
  BY <1>1, <1>3 DEF StoreTypes
<1>4. ASSUME NEW b \in Tasks, archive[b] = gen
      PROVE  archive'[b] = gen
  BY <1>1, <1>4 DEF StoreTypes
<1>5. QED
  BY <1>2, <1>3, <1>4 DEF Safe, Kept

\* A rename moves the folder into the archive.
LEMMA RenameKeeps ==
  ASSUME DInv, Calm, Safe, NEW t \in Tasks, Rename(t)
  PROVE  Safe'
<1>1. TrackTypes /\ pc[t] = "rename"
  BY Facts DEF Rename
<1>2. \A u \in Tasks : pc'[u] \in {"zip", "delete"} => pc'[u] = pc[u]
  BY <1>1 DEF Rename, End, TrackTypes
<1>3. CASE archive' = [archive EXCEPT ![t] = data] /\ folder' = "none" /\ data' = None
  <2>1. \A u \in Tasks : pc'[u] \notin {"zip", "delete"}
    BY <1>1, <1>2, AloneAtFolder DEF Stages
  <2>2. archive[t] = None
    BY <1>1 DEF DInv, Fresh
  <2>3. gen' = gen
    BY DEF Rename
  <2>4. QED
    BY <1>3, <2>1, <2>2, <2>3, NewArchive, KeptKeeps
<1>4. CASE UNCHANGED <<folder, data, archive>>
  BY <1>2, <1>4, Frame DEF Rename
<1>5. QED
  BY <1>3, <1>4 DEF Rename

\* A zip that succeeds holds the folder's state.
LEMMA ZipKeeps ==
  ASSUME DInv, Calm, Calm', Safe, NEW t \in Tasks, Zip(t)
  PROVE  Safe'
<1>1. TrackTypes /\ StoreTypes /\ pc[t] = "zip" /\ UNCHANGED <<folder, data, gen, seen>>
  BY Facts DEF Zip, appVars
<1>2. \A u \in Tasks \ {t} : pc'[u] = pc[u] /\ pc[u] \notin {"zip", "delete"}
  <2>1. \A u \in Tasks \ {t} : pc'[u] = pc[u]
    BY <1>1 DEF Zip, Advance, End, TrackTypes
  <2>2. QED
    BY <1>1, <2>1, AloneAtFolder DEF Stages
<1>3. archive[t] = None /\ folder # "none" /\ seen[t] = data
  BY <1>1 DEF DInv, Fresh, Safe, Still
<1>4. \E c \in {None, data, Part} : archive' = [archive EXCEPT ![t] = c]
  <2>1. archive = [archive EXCEPT ![t] = None]
    BY <1>1, <1>3 DEF StoreTypes
  <2>2. QED
    BY <1>3, <2>1 DEF Zip
<1>5. Kept'
  BY <1>1, <1>3, <1>4, NewArchive
<1>6. CASE archive' = [archive EXCEPT ![t] = IF data = seen[t] THEN data ELSE Part]
           /\ Advance(t, "delete")
  <2>1. archive'[t] = data /\ pc'[t] = "delete"
    BY <1>1, <1>3, <1>6 DEF Advance, TrackTypes, StoreTypes
  <2>2. QED
    BY <1>1, <1>2, <1>3, <1>5, <2>1 DEF Safe, Still, Archived
<1>7. CASE End(t, FALSE)
  <2>1. pc'[t] = "failed"
    BY <1>1, <1>7 DEF End, TrackTypes
  <2>2. QED
    BY <1>2, <1>5, <2>1, KeptKeeps
<1>8. "unflushed" \notin risks'
  BY DEF Calm
<1>9. QED
  BY <1>6, <1>7, <1>8 DEF Zip

\* What is deleted is archived.
LEMMA DeleteKeeps ==
  ASSUME DInv, Calm, Safe, NEW t \in Tasks, Delete(t)
  PROVE  Safe'
<1>1. TrackTypes /\ pc[t] = "delete" /\ UNCHANGED <<gen, archive>>
  BY Facts DEF Delete, PartlyDeleted
<1>2. \A u \in Tasks : pc'[u] \notin {"zip", "delete"}
  <2>1. pc'[t] \in {"done", "failed"} /\ \A u \in Tasks \ {t} : pc'[u] = pc[u]
    BY <1>1 DEF Delete, End, TrackTypes
  <2>2. QED
    BY <1>1, <2>1, AloneAtFolder DEF Stages
<1>3. archive[t] = data
  BY <1>1 DEF Safe, Archived
<1>4. Kept'
  BY <1>1, <1>3 DEF Safe, Kept
<1>5. QED
  BY <1>2, <1>4, KeptKeeps

\* A backup adds an archive.
LEMMA BackupKeeps ==
  ASSUME DInv, Safe, NEW t \in Tasks, Backup(t)
  PROVE  Safe'
<1>1. TrackTypes /\ StoreTypes /\ pc[t] = "backup" /\ UNCHANGED <<folder, data, gen, seen>>
  BY Facts DEF Backup
<1>2. \A u \in Tasks : pc'[u] \in {"zip", "delete"} => pc'[u] = pc[u] /\ u # t
  BY <1>1 DEF Backup, End, TrackTypes
<1>3. CASE \E c \in {data, Part} : archive' = [archive EXCEPT ![t] = c]
  <2>1. archive[t] = None
    BY <1>1 DEF DInv, Fresh
  <2>2. Kept'
    BY <1>1, <1>3, <2>1, NewArchive
  <2>3. \A u \in Tasks \ {t} : archive'[u] = archive[u]
    BY <1>1, <1>3 DEF StoreTypes
  <2>4. QED
    BY <1>1, <1>2, <2>2, <2>3 DEF Safe, Still, Archived
<1>4. CASE UNCHANGED archive
  BY <1>1, <1>2, <1>4, Frame
<1>5. QED
  BY <1>3, <1>4 DEF Backup

\* Every step of a task keeps the newest state.
LEMMA TaskStepKeeps ==
  ASSUME DInv, Calm', NEW t \in Tasks, TaskStep(t)
  PROVE  Safe'
<1>1. Calm
  <2>1. dropped' = dropped
    BY Facts, TaskEffect, Moves
  <2>2. CASE Zip(t)
    BY <2>1, <2>2 DEF Zip, Calm
  <2>3. CASE ~Zip(t)
    <3>1. risks' = risks
      BY <2>3 DEF TaskStep, Restore, Write, Prepare, BringUp, Remove, Look, Rename,
           Delete, Backup
    <3>2. QED
      BY <2>1, <3>1 DEF Calm
  <2>4. QED
    BY <2>2, <2>3
<1>2. Safe
  BY <1>1 DEF DInv
<1>3. QED
  BY <1>1, <1>2, RestoreKeeps, InstallKeeps, RemoveKeeps, LookKeeps, RenameKeeps,
     ZipKeeps, DeleteKeeps, BackupKeeps DEF TaskStep
-----------------------------------------------------------------------------
(* The other steps *)

\* A kill leaves nobody at the folder; what was at work left its part.
LEMMA CrashSafe ==
  ASSUME DInv, Safe, Crash
  PROVE  Safe'
<1>1. TrackTypes /\ StoreTypes /\ None # gen
  BY Facts
<1>2. \A u \in Tasks : pc'[u] \notin {"zip", "delete"}
  <2>1. ASSUME NEW u \in Tasks, pc[u] \in {"zip", "delete"}
        PROVE  pc[u] \in Stages[kind[u]]
    BY <1>1, <2>1, StageOfKind DEF Stages
  <2>2. QED
    BY <2>1 DEF Crash
<1>3. ASSUME NEW a \in Tasks, archive[a] = gen \/ pc[a] = "delete"
      PROVE  archive'[a] = archive[a]
  <2>1. pc[a] # "zip"
    BY <1>1, <1>3 DEF DInv, Fresh
  <2>2. QED
    BY <2>1 DEF Crash
<1>4. CASE UNCHANGED <<folder, data, gen>>
  BY <1>2, <1>3, <1>4, KeptKeeps DEF Safe, Kept
<1>5. CASE PartlyRestored
  <2>1. gen' = gen /\ (gen > 0 => \E a \in Tasks : archive[a] = gen)
    BY <1>5, NoFolder DEF PartlyRestored
  <2>2. QED
    BY <1>2, <1>3, <2>1, KeptKeeps DEF Kept
<1>6. CASE PartlyWritten
  <2>1. CASE folder = "none"
    BY <1>2, <1>6, <2>1, KeptKeeps DEF PartlyWritten, Made, Kept
  <2>2. CASE folder # "none"
    BY <1>2, <1>3, <1>6, <2>2, KeptKeeps DEF PartlyWritten, Made, Safe, Kept
  <2>3. QED
    BY <2>1, <2>2
<1>7. ASSUME NEW t \in Tasks, pc[t] = "delete", PartlyDeleted
      PROVE  Safe'
  <2>1. archive[t] = data /\ archive'[t] = data /\ gen' = gen
    BY <1>3, <1>7 DEF PartlyDeleted, Safe, Archived
  <2>2. Kept'
    BY <1>3, <2>1 DEF Safe, Kept
  <2>3. QED
    BY <1>2, <2>2, KeptKeeps
<1>8. QED
  BY <1>4, <1>5, <1>6, <1>7 DEF Crash

\* A kill in the middle of a zip leaves its task lost.
LEMMA CrashFresh ==
  ASSUME DInv, Crash
  PROVE  Fresh'
<1>1. TrackTypes
  BY Facts
<1>2. ASSUME NEW t \in Tasks, pc'[t] \notin {"delete", "done", "failed", "lost"}
      PROVE  archive'[t] = None
  <2>1. pc'[t] = pc[t] /\ pc[t] \notin Stages[kind[t]]
    BY <1>2 DEF Crash
  <2>2. pc[t] # "zip"
    BY <1>1, <2>1, StageOfKind DEF Stages
  <2>3. archive'[t] = archive[t]
    BY <2>2 DEF Crash
  <2>4. QED
    BY <1>2, <2>1, <2>3 DEF DInv, Fresh
<1>3. QED
  BY <1>2 DEF Fresh

\* A request touches neither the folder nor the archives.
LEMMA AskKeepsData ==
  ASSUME DInv, NEW t \in Tasks, Asks(t), Calm',
         UNCHANGED <<folder, data, gen, archive, seen, risks>>
  PROVE  Safe'
<1>1. TrackTypes
  BY Facts
<1>2. ~dropped["uninstall"]
  <2>1. "uninstall" \in Kinds
    BY DEF Kinds
  <2>2. \E ks \in {{}, {"install"}} :
          dropped' = [i \in Kinds |-> dropped[i] \/ (i \in ks /\ Live(i) # {})]
    BY Zenon DEF Asks
  <2>3. QED
    BY <2>1, <2>2, Zenon DEF Calm
<1>3. Safe
  BY <1>2 DEF Calm, DInv
<1>4. \A u \in Tasks : pc'[u] \in {"zip", "delete"} => pc'[u] = pc[u]
  BY <1>1 DEF Asks, TrackTypes
<1>5. QED
  BY <1>3, <1>4, Frame

\* A request makes no archive.
LEMMA AskFresh ==
  ASSUME DInv, NEW t \in Tasks, Asks(t), UNCHANGED archive
  PROVE  Fresh'
BY Facts DEF Asks, DInv, Fresh, TrackTypes

\* Every step keeps the invariant.
LEMMA DataStep == DInv /\ [Next]_vars => DInv'
<1> SUFFICES ASSUME DInv, [Next]_vars PROVE DInv'
  OBVIOUS
<1>1. IInv'
  BY StepKeeps DEF DInv
<1>2. SUFFICES Fresh' /\ (Calm' => Safe')
  BY <1>1 DEF DInv, Calm, Safe, Still, Archived, Kept
<1>3. CASE Dismiss
  <2>1. UNCHANGED <<folder, data, gen, archive, seen, pc, risks>>
    BY <1>3 DEF Dismiss, appVars, taskVars
  <2>2. Fresh'
    BY <2>1 DEF DInv, Fresh
  <2>3. ASSUME Calm' PROVE Calm
    <3>1. "uninstall" \in Kinds
      BY DEF Kinds
    <3>2. ~dropped["uninstall"]
      BY <1>3, <2>3, <3>1, Zenon DEF Dismiss, Clear, Calm
    <3>3. QED
      BY <2>1, <2>3, <3>2 DEF Calm
  <2>4. QED
    BY <2>1, <2>2, <2>3, Frame DEF DInv
<1>4. CASE AppWrites
  <2>1. UNCHANGED <<folder, archive, seen, pc, dropped>> /\ data' = gen'
    BY <1>4 DEF AppWrites, taskVars
  <2>2. Fresh'
    BY <2>1 DEF DInv, Fresh
  <2>3. ASSUME Calm' PROVE \A u \in Tasks : pc'[u] \notin {"zip", "delete"}
    BY <1>4, <2>1, <2>3, Zenon DEF AppWrites, Calm
  <2>4. Kept'
    BY <2>1 DEF Kept
  <2>5. QED
    BY <2>2, <2>3, <2>4, KeptKeeps
<1>5. CASE OperatorActs \/ UNCHANGED vars
  <2>1. UNCHANGED <<folder, data, gen, archive, seen, pc, risks, dropped>>
    BY <1>5 DEF OperatorActs, taskVars, vars
  <2>2. Fresh' /\ (Calm' => Calm)
    BY <2>1 DEF DInv, Fresh, Calm
  <2>3. QED
    BY <2>1, <2>2, Frame DEF DInv
<1>6. CASE Crash
  <2>1. Calm' => Calm
    BY <1>6 DEF Crash, Calm
  <2>2. QED
    BY <1>6, <2>1, CrashSafe, CrashFresh DEF DInv
<1>7. ASSUME NEW t \in Tasks, RequestInstall(t) \/ RequestUninstall(t) \/ RequestBackup(t)
      PROVE  Fresh' /\ (Calm' => Safe')
  <2>1. Asks(t)
    BY <1>7, Facts, InstallAsks, UninstallAsks, BackupAsks
  <2>2. UNCHANGED <<folder, data, gen, archive, seen, risks>>
    BY <1>7 DEF RequestInstall, RequestUninstall, RequestBackup, appVars
  <2>3. QED
    BY <2>1, <2>2, AskKeepsData, AskFresh
<1>8. ASSUME NEW t \in Tasks, TaskStep(t)
      PROVE  Fresh' /\ (Calm' => Safe')
  BY <1>8, FreshStep, TaskStepKeeps
<1>9. QED
  BY <1>3, <1>4, <1>5, <1>6, <1>7, <1>8 DEF Next

\* "Maison never deletes user data": whatever number of installs, uninstalls
\* and backups of the app overlap, fail or are cut short, the newest state of
\* its data is in its folder or in an archive.
THEOREM DataTheorem == Spec => []DataIsKept
<1>1. Init => DInv
  <2> SUFFICES ASSUME Init PROVE DInv
    OBVIOUS
  <2>1. IInv /\ Fresh
    BY Start0 DEF Init, Fresh
  <2>2. Safe
    BY DEF Init, Safe, Still, Archived, Kept
  <2>3. QED
    BY <2>1, <2>2 DEF DInv
<1>2. DInv => DataIsKept
  BY DEF DInv, Calm, Safe, Kept, DataIsKept
<1>3. QED
  BY <1>1, <1>2, DataStep, PTL DEF Spec
=============================================================================
