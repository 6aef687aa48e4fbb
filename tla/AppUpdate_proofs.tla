-------------------------- MODULE AppUpdate_proofs --------------------------
(***************************************************************************)
(* No version runs on data that a newer one has made its own, and what is  *)
(* rolled back is the compose the update had found on data it has not       *)
(* touched: for any number of requests, archives and versions, whatever     *)
(* fails, is deleted or killed, as long as updates do not overlap.          *)
(***************************************************************************)
EXTENDS AppUpdate, TLAPS

\* While updates do not overlap, one call at most is under way.
Alone == \A c, d \in Busy : c = d

\* The folder's data is of no newer version than its compose, and of none that
\* the containers have not been.
Sound ==
  folder # None =>
    /\ folder.data <= made
    /\ folder.base \in Nat => folder.data <= folder.base /\ folder.base <= store
    /\ folder.base = Torn => folder.data < store

\* The data is older than the version to be written.
Before(c, f) ==
  /\ f # None /\ f.base = current[c]
  /\ f.data < offered[c]

\* What the call has found out stays so.
Found(c) ==
  /\ pc[c] \in Stages => current[c] # None
  /\ pc[c] \in Stages \ {"fetch"} =>
       /\ offered[c] <= store
       /\ current[c] \in Nat => current[c] < offered[c]

\* What the folder is at each stage of a call.
Placed(c) ==
  /\ pc[c] = "fetch" => folder # None /\ folder.base = current[c]
  /\ pc[c] \in {"stop", "copy", "rerun", "write", "backUp"} => Before(c, folder)
  /\ pc[c] \in {"up", "locate", "halt", "aside"} =>
       folder # None /\ folder.base = offered[c]
  /\ pc[c] = "swap" => folder = None \/ folder.base = None

\* The rollback point, until it is deleted, is the folder as it was found.
Pointed(c) ==
  pc[c] \in {"rerun", "write", "up", "locate", "halt", "aside", "swap"}
    /\ point[c] # None /\ archive[point[c]] # None
      => /\ Before(c, archive[point[c]])
         /\ archive[point[c]].data <= made
         /\ current[c] \in Nat => archive[point[c]].data <= current[c]

\* A restore has a rollback point.
HasPoint(c) == pc[c] \in {"locate", "halt", "aside", "swap"} => point[c] # None

\* A call begins without one.
Clear(c) == pc[c] \in {"fetch", "stop", "copy"} => point[c] = None

Kept(c) == Found(c) /\ Placed(c) /\ Pointed(c) /\ Clear(c)

Typed == TypeOK /\ \A c \in Calls : HasPoint(c)

IInv == Typed /\ (~overlapped => Alone /\ Sound /\ \A c \in Calls : Kept(c))

-----------------------------------------------------------------------------
(* Folders *)

\* What a folder consists of.
LEMMA FolderParts ==
  ASSUME NEW f \in Folder
  PROVE  f.base \in Composes /\ f.data \in Nat /\ f # None
BY UpdateAssumption DEF Folder

\* A version that runs on a folder changes its data only.
LEMMA TouchedParts ==
  ASSUME NEW f \in Folder, NEW v \in Nat
  PROVE  /\ Touched(f, v) \in Folder
         /\ Touched(f, v).base = f.base
         /\ Touched(f, v).data = Newer(v, f.data)
BY DEF Touched, Folder, Newer

\* Writing the compose changes nothing else.
LEMMA WrittenParts ==
  ASSUME NEW f \in Folder, NEW b \in Composes
  PROVE  /\ [f EXCEPT !.base = b] \in Folder
         /\ [f EXCEPT !.base = b].base = b
         /\ [f EXCEPT !.base = b].data = f.data
BY DEF Folder

\* The folder that Docker makes has no compose.
LEMMA BareParts ==
  ASSUME NEW v \in Nat
  PROVE  /\ [base |-> None, data |-> v] \in Folder
         /\ [base |-> None, data |-> v].base = None
         /\ [base |-> None, data |-> v].data = v
BY DEF Folder, Composes

-----------------------------------------------------------------------------
(* Starts *)

\* What any start of the app, finished or not, may do to it.
Started ==
  /\ folder' \in Folder \cup {None} /\ up' \in BOOLEAN /\ made' \in Nat
  /\ folder # None =>
       /\ folder' # None /\ folder'.base = folder.base
       /\ folder.base \in Nat => made' \in {made, folder.base}
       /\ folder.base \notin Nat => made' = made
       /\ folder.base = Torn => folder'.data = folder.data
  /\ folder = None => made' = made /\ (folder' = None \/ folder'.base = None)
  /\ Sound => Sound'

\* A start by the compose on disk, of which the folder keeps the mark or not.
LEMMA ComposeEffect ==
  ASSUME TypeOK, store' = store, up' \in BOOLEAN,
         folder # None, folder.base \in Nat, made' = folder.base,
         folder' \in {folder, Touched(folder, folder.base)}
  PROVE  Started
<1>1. /\ folder \in Folder /\ made \in Nat /\ store \in Nat
      /\ folder.data \in Nat /\ folder.base # Torn /\ folder # None
  BY FolderParts, UpdateAssumption DEF TypeOK
<1> DEFINE v == folder.base
           g == Touched(folder, v)
<1>2. /\ g \in Folder /\ g.base = v /\ g.data = Newer(v, folder.data) /\ g # None
  BY <1>1, TouchedParts, FolderParts
<1>3. Newer(v, folder.data) \in {v, folder.data}
  BY DEF Newer
<1>4. /\ folder' \in Folder /\ folder' # None
      /\ folder'.base = v /\ folder'.data \in {v, folder.data}
  BY <1>1, <1>2, <1>3
<1>5. Sound => Sound'
  BY <1>1, <1>4, UpdateAssumption DEF Sound
<1> QED BY <1>1, <1>4, <1>5 DEF Started

\* A start of the containers there are, on a folder without a compose.
LEMMA BareEffect ==
  ASSUME TypeOK, store' = store, BringUp, ~Managed
  PROVE  Started
<1>1. made \in Nat /\ made' = made /\ up' \in BOOLEAN /\ None \notin Nat /\ None # Torn
  BY UpdateAssumption DEF TypeOK, BringUp
<1>2. CASE folder = None
  <2>1. folder' = [base |-> None, data |-> made]
    BY <1>2 DEF BringUp
  <2>2. folder' \in Folder /\ folder'.base = None /\ folder'.data = made
    BY <1>1, <2>1, BareParts
  <2> QED BY <1>1, <1>2, <2>2 DEF Started, Sound
<1>3. CASE folder # None
  <2>1. folder \in Folder /\ folder.base = None /\ folder.data \in Nat
    BY <1>3, FolderParts DEF TypeOK, Managed
  <2>2. folder' = Touched(folder, made)
    BY <1>3 DEF BringUp, Managed
  <2>3. /\ folder' \in Folder /\ folder'.base = None
        /\ folder'.data = Newer(made, folder.data) /\ folder' # None
    BY <1>1, <2>1, <2>2, TouchedParts, FolderParts
  <2>4. Sound => Sound'
    BY <1>1, <1>3, <2>1, <2>3 DEF Sound, Newer
  <2> QED BY <1>1, <1>3, <2>1, <2>3, <2>4 DEF Started
<1> QED BY <1>2, <1>3

LEMMA StartEffect ==
  ASSUME TypeOK, ComposeUp \/ UpFails \/ Start \/ UNCHANGED appVars,
         store' = store
  PROVE  Started
<1>1. CASE UNCHANGED appVars
  BY <1>1 DEF Started, Sound, appVars, TypeOK
<1>2. CASE ComposeUp
  BY <1>2, ComposeEffect DEF ComposeUp
<1>3. CASE UpFails
  BY <1>1, <1>3, ComposeEffect DEF UpFails
<1>4. CASE BringUp
  BY <1>2, <1>4, BareEffect DEF BringUp
<1> QED BY <1>1, <1>2, <1>3, <1>4 DEF Start

-----------------------------------------------------------------------------
(* Types *)

LEMMA TypeStep ==
  ASSUME Typed, [Next]_vars
  PROVE  TypeOK'
<1> USE DEF Typed
<1>1. /\ folder # None => folder \in Folder
      /\ None \notin Nat /\ None \notin Folder /\ None \notin Stamps
  BY UpdateAssumption DEF TypeOK
<1>2. ASSUME UNCHANGED <<store, archive, pc, callVars, restart>>, Started
      PROVE  TypeOK'
  BY <1>2 DEF TypeOK, Started, callVars
<1>3. CASE Publish
  BY <1>3 DEF TypeOK, Publish, appVars, callVars
<1>4. CASE OthersStart
  BY <1>2, <1>4, StartEffect DEF OthersStart
<1>5. CASE OthersStop
  BY <1>5 DEF TypeOK, OthersStop
<1>6. CASE Kill
  <2>1. /\ pc' \in [Calls -> Ended \cup Stages]
        /\ restart' \in [Calls -> BOOLEAN]
    BY <1>6 DEF Kill, Busy, TypeOK, Ended
  <2>2. CASE Started
    BY <1>6, <2>1, <2>2 DEF TypeOK, Kill, Started, callVars
  <2>3. CASE /\ folder # None /\ folder' = [folder EXCEPT !.base = Torn]
             /\ UNCHANGED <<up, made>>
    <3>1. folder' \in Folder
      BY <1>1, <2>3, WrittenParts DEF Composes
    <3> QED BY <1>6, <2>1, <2>3, <3>1 DEF TypeOK, Kill, callVars
  <2> QED BY <1>6, <2>2, <2>3, StartEffect DEF Kill, appVars
<1>7. ASSUME NEW s \in Stamps, Delete(s)
      PROVE  TypeOK'
  BY <1>7 DEF TypeOK, Delete, appVars, callVars
<1>8. ASSUME NEW c \in Calls, UpdateStep(c)
      PROVE  TypeOK'
  <2>1. CASE Open(c)
    BY <2>1, <1>1, FolderParts
       DEF TypeOK, Open, Goto, Managed, Stages, appVars
  <2>2. CASE Fetch(c)
    BY <2>2 DEF TypeOK, Fetch, Goto, Stages, Ended, appVars
  <2>3. CASE StopForCopy(c)
    BY <2>3 DEF TypeOK, StopForCopy, Goto, Stages, callVars
  <2>4. CASE Copy(c)
    BY <2>4, <1>1 DEF TypeOK, Copy, Captured, Goto, Stages, appVars
  <2>5. CASE Rerun(c)
    BY <2>5, StartEffect DEF TypeOK, Rerun, Started, Goto, Stages, callVars
  <2>6. CASE Write(c)
    <3>1. offered[c] \in Composes /\ Torn \in Composes
      BY DEF TypeOK, Composes
    <3>2. folder' \in Folder \cup {None}
      BY <1>1, <2>6, <3>1, WrittenParts DEF Write, TypeOK
    <3> QED BY <2>6, <3>2 DEF TypeOK, Write, Goto, Stages, Ended, callVars
  <2>7. CASE Up(c)
    BY <2>7, StartEffect
       DEF TypeOK, Up, Started, Goto, Stages, Ended, callVars
  <2>8. CASE Locate(c)
    BY <2>8 DEF TypeOK, Locate, Goto, Stages, Ended, appVars, callVars
  <2>9. CASE Halt(c)
    BY <2>9 DEF TypeOK, Halt, Goto, Stages, Ended, callVars
  <2>10. CASE Aside(c)
    BY <2>10, <1>1 DEF TypeOK, Aside, Return, Goto, Stages, Ended, callVars
  <2>11. CASE Swap(c)
    <3>1. point[c] \in Stamps
      BY <2>11 DEF HasPoint, Swap, TypeOK
    <3> QED BY <2>11, <3>1
               DEF TypeOK, Swap, Restored, Return, Goto, Stages, Ended, callVars
  <2>12. CASE Restart(c)
    BY <2>12, StartEffect
       DEF TypeOK, Restart, Started, Goto, Stages, Ended, callVars
  <2> QED BY <1>8, <2>1, <2>2, <2>3, <2>4, <2>5, <2>6, <2>7, <2>8, <2>9,
             <2>10, <2>11, <2>12 DEF UpdateStep
<1>9. CASE UNCHANGED vars
  BY <1>9 DEF TypeOK, vars
<1> QED BY <1>3, <1>4, <1>5, <1>6, <1>7, <1>8, <1>9 DEF Next

\* Only an update that has a rollback point comes to restore it.
LEMMA PointStep ==
  ASSUME Typed, [Next]_vars, NEW c \in Calls
  PROVE  HasPoint(c)'
<1> USE DEF Typed
<1>1. CASE Publish \/ OthersStart \/ OthersStop \/ \E s \in Stamps : Delete(s)
  BY <1>1 DEF HasPoint, Publish, OthersStart, OthersStop, Delete, callVars
<1>2. CASE Kill
  BY <1>2 DEF HasPoint, Kill, Busy, TypeOK, callVars
<1>3. ASSUME NEW d \in Calls, UpdateStep(d)
      PROVE  HasPoint(c)'
  <2>1. CASE Open(d) \/ Fetch(d) \/ StopForCopy(d) \/ Copy(d) \/ Rerun(d)
    BY <2>1 DEF HasPoint, Open, Fetch, StopForCopy, Copy, Rerun, Goto, TypeOK,
                callVars, Stages
  <2>2. CASE Write(d) \/ Up(d) \/ Locate(d) \/ Halt(d) \/ Restart(d)
    BY <2>2 DEF HasPoint, Write, Up, Locate, Halt, Restart, Goto, TypeOK,
                callVars
  <2>3. CASE Aside(d) \/ Swap(d)
    BY <2>3 DEF HasPoint, Aside, Swap, Return, Goto, TypeOK, callVars
  <2> QED BY <1>3, <2>1, <2>2, <2>3 DEF UpdateStep
<1>4. CASE UNCHANGED vars
  BY <1>4 DEF HasPoint, vars
<1> QED BY <1>1, <1>2, <1>3, <1>4 DEF Next

-----------------------------------------------------------------------------
(* The call's own steps *)

\* A call that has ended has nothing to keep.
LEMMA EndedKeeps ==
  ASSUME NEW c \in Calls, pc'[c] \in Ended
  PROVE  Kept(c)'
BY DEF Kept, Found, Placed, Pointed, Clear, Ended, Stages

\* A start, by whomever, keeps what a call relies on.
LEMMA StartKeeps ==
  ASSUME TypeOK, Started, Sound, NEW c \in Calls, Kept(c),
         pc'[c] = pc[c] \/ (pc[c] = "rerun" /\ pc'[c] = "write"),
         UNCHANGED <<store, archive, current, offered, point>>
  PROVE  Kept(c)'
<1>1. /\ None \notin Nat /\ Torn \notin Nat /\ None # Torn /\ made \in Nat
      /\ offered[c] \in Nat /\ current[c] \in Composes /\ store \in Nat
      /\ made' \in Nat /\ Sound'
  BY UpdateAssumption DEF TypeOK, Started
<1>2. Found(c)'
  BY DEF Kept, Found, Stages
<1>3. Placed(c)'
  <2>1. ASSUME Before(c, folder), current[c] # None,
               current[c] \in Nat => current[c] < offered[c]
        PROVE  Before(c, folder)'
    <3>1. /\ folder # None /\ folder \in Folder /\ folder.base = current[c]
          /\ folder.data \in Nat /\ folder.data < offered[c]
      BY <2>1, FolderParts DEF Before, TypeOK
    <3>2. /\ folder' # None /\ folder' \in Folder /\ folder'.base = current[c]
          /\ folder'.data \in Nat
      BY <3>1, FolderParts DEF Started
    <3>3. CASE current[c] \in Nat
      <4>1. folder'.data <= current[c]
        BY <1>1, <3>2, <3>3 DEF Sound
      <4> QED BY <1>1, <2>1, <3>2, <3>3, <4>1 DEF Before
    <3>4. CASE current[c] = Torn
      <4>1. folder'.data = folder.data
        BY <3>1, <3>4 DEF Started
      <4> QED BY <3>1, <3>2, <4>1 DEF Before
    <3> QED BY <1>1, <2>1, <3>3, <3>4 DEF Composes
  <2> QED BY <1>1, <2>1 DEF Kept, Placed, Found, Stages, Started
<1>4. Pointed(c)'
  <2>1. SUFFICES ASSUME pc'[c] \in {"rerun", "write", "up", "locate", "halt",
                                    "aside", "swap"},
                        point[c] # None, archive[point[c]] # None
                 PROVE  /\ Before(c, archive[point[c]])'
                        /\ archive[point[c]].data <= made'
                        /\ current[c] \in Nat => archive[point[c]].data <= current[c]
    BY DEF Pointed
  <2>2. /\ Before(c, archive[point[c]])
        /\ archive[point[c]].data <= made
        /\ current[c] \in Nat => archive[point[c]].data <= current[c]
    BY <2>1 DEF Kept, Pointed
  <2>3. archive[point[c]].data \in Nat /\ archive[point[c]].data < offered[c]
    <3>1. archive[point[c]] \in Folder
      BY <2>1 DEF TypeOK
    <3> QED BY <2>2, <3>1, FolderParts DEF Before
  <2>4. \/ made' = made
        \/ folder # None /\ folder.base \in Nat /\ made' = folder.base
    BY DEF Started
  <2>5. folder # None => folder.base \in {current[c], offered[c], None}
    BY <2>1 DEF Kept, Placed, Before
  <2>6. archive[point[c]].data <= made'
    BY <1>1, <2>2, <2>3, <2>4, <2>5
  <2> QED BY <2>2, <2>6 DEF Before
<1> QED BY <1>2, <1>3, <1>4 DEF Kept, Clear

\* Steps that leave the app and the archives alone.
LEMMA OwnAsking ==
  ASSUME Typed, Sound, NEW c \in Calls, Kept(c),
         Open(c) \/ Fetch(c) \/ Locate(c)
  PROVE  Sound' /\ Kept(c)'
<1>1. Sound'
  BY DEF Sound, Open, Fetch, Locate, appVars
<1>2. CASE Open(c)
  <2>1. /\ pc'[c] = "fetch" /\ current'[c] = folder.base /\ folder' = folder
        /\ point'[c] = None
        /\ folder # None /\ folder.base # None
    BY <1>2 DEF Open, Goto, Managed, Typed, TypeOK, appVars
  <2> QED BY <1>1, <2>1 DEF Kept, Found, Placed, Pointed, Clear, Stages
<1>3. CASE Fetch(c)
  <2>1. CASE pc'[c] \in Ended
    BY <1>1, <2>1, EndedKeeps
  <2>2. CASE pc'[c] \notin Ended
    <3>1. /\ pc'[c] = "stop" /\ offered'[c] = store /\ current[c] # store
          /\ UNCHANGED <<current, folder, store, point>>
          /\ pc[c] = "fetch" /\ current[c] # None /\ folder # None /\ folder.base = current[c]
      BY <1>3, <2>2 DEF Fetch, Goto, Ended, Typed, TypeOK, Kept, Found, Placed,
                        Stages, appVars
    <3>2. folder.base \in Composes /\ folder.data \in Nat /\ store \in Nat
      BY <3>1, FolderParts DEF Typed, TypeOK
    <3>3. /\ folder.data < store
          /\ current[c] \in Nat => current[c] < store
      BY <3>1, <3>2 DEF Sound, Composes
    <3> QED BY <1>1, <3>1, <3>2, <3>3
               DEF Kept, Found, Placed, Pointed, Clear, Before, Stages
  <2> QED BY <2>1, <2>2
<1>4. CASE Locate(c)
  <2>1. CASE pc'[c] \in Ended
    BY <1>1, <2>1, EndedKeeps
  <2>2. CASE pc'[c] \notin Ended
    <3>1. pc[c] = "locate" /\ pc'[c] = "halt"
      BY <1>4, <2>2 DEF Locate, Goto, Ended, Typed, TypeOK
    <3>2. UNCHANGED <<folder, made, store, archive, current, offered, point>>
      BY <1>4 DEF Locate, appVars, callVars
    <3> QED BY <1>1, <3>1, <3>2
               DEF Kept, Found, Placed, Pointed, Clear, Before, Stages
  <2> QED BY <2>1, <2>2
<1> QED BY <1>2, <1>3, <1>4

\* The backup before the write: what it keeps is the folder as it was found.
LEMMA OwnBackup ==
  ASSUME Typed, Sound, NEW c \in Calls, Kept(c),
         StopForCopy(c) \/ Copy(c) \/ Rerun(c)
  PROVE  Sound' /\ Kept(c)'
<1>1. CASE StopForCopy(c)
  <2>1. /\ pc[c] = "stop" /\ pc'[c] \in {"copy", "write"} /\ point[c] = None
        /\ UNCHANGED <<folder, made, store, archive, current, offered, point>>
    BY <1>1 DEF StopForCopy, Goto, Typed, TypeOK, callVars, Kept, Clear
  <2> QED BY <2>1 DEF Sound, Kept, Found, Placed, Pointed, Clear, Before, Stages
<1>2. CASE Copy(c)
  <2>1. /\ pc[c] = "copy" /\ pc'[c] \in {"rerun", "write"}
        /\ UNCHANGED <<folder, made, store, current, offered>>
        /\ Before(c, folder) /\ point[c] = None
    BY <1>2 DEF Copy, Goto, Typed, TypeOK, appVars, Kept, Placed, Clear
  <2>2. point'[c] # None => archive'[point'[c]] = folder
    BY <1>2, <2>1 DEF Copy, Captured, Typed, TypeOK
  <2>3. Sound' /\ Found(c)' /\ Placed(c)' /\ Clear(c)'
    BY <2>1 DEF Sound, Kept, Found, Placed, Clear, Before, Stages
  <2>4. Pointed(c)'
    BY <2>1, <2>2 DEF Pointed, Before, Sound
  <2> QED BY <2>3, <2>4 DEF Kept
<1>3. CASE Rerun(c)
  <2>1. pc[c] = "rerun" /\ pc'[c] = "write" /\ Start
        /\ UNCHANGED <<store, archive, current, offered, point>>
    BY <1>3 DEF Rerun, Goto, Typed, TypeOK, callVars
  <2>2. Started
    BY <2>1, StartEffect DEF Typed
  <2> QED BY <2>1, <2>2, StartKeeps DEF Started, Typed
<1> QED BY <1>1, <1>2, <1>3

\* Writing the new compose, and bringing it up.
LEMMA OwnWrite ==
  ASSUME Typed, Sound, NEW c \in Calls, Kept(c), Write(c) \/ Up(c)
  PROVE  Sound' /\ Kept(c)'
<1>1. CASE Write(c)
  <2>1. /\ pc[c] = "write" /\ UNCHANGED <<made, store, archive, current, offered, point>>
        /\ Before(c, folder) /\ folder \in Folder /\ folder.data \in Nat
        /\ offered[c] \in Nat /\ store \in Nat /\ offered[c] <= store
        /\ current[c] # None
    BY <1>1, FolderParts
       DEF Write, Typed, TypeOK, callVars, Kept, Placed, Found, Before, Stages
  <2>2. Torn \in Composes /\ offered[c] \in Composes /\ Torn \notin Nat
    BY <2>1, UpdateAssumption DEF Composes
  <2>3. CASE folder' = [folder EXCEPT !.base = offered[c]] /\ pc'[c] = "up"
    <3>1. /\ folder' \in Folder /\ folder' # None
          /\ folder'.base = offered[c] /\ folder'.data = folder.data
      BY <2>1, <2>2, <2>3, WrittenParts, FolderParts
    <3>2. Sound'
      BY <2>1, <2>2, <3>1 DEF Sound, Before
    <3> QED BY <2>1, <2>3, <3>1, <3>2
               DEF Kept, Found, Placed, Pointed, Clear, Before, Stages
  <2>4. CASE folder' = [folder EXCEPT !.base = Torn] /\ pc'[c] \in Ended
    <3>1. /\ folder' \in Folder /\ folder' # None
          /\ folder'.base = Torn /\ folder'.data = folder.data
      BY <2>1, <2>2, <2>4, WrittenParts, FolderParts
    <3>2. Sound'
      BY <2>1, <2>2, <3>1 DEF Sound, Before
    <3> QED BY <2>4, <3>2, EndedKeeps
  <2>5. CASE folder' = folder /\ pc'[c] \in Ended
    BY <2>1, <2>5, EndedKeeps DEF Sound
  <2> QED BY <1>1, <2>3, <2>4, <2>5 DEF Write, Goto, Typed, TypeOK, Ended
<1>2. CASE Up(c)
  <2>1. /\ pc[c] = "up" /\ pc'[c] \in Ended \cup {"locate"}
        /\ UNCHANGED <<store, archive, current, offered, point>>
        /\ ComposeUp \/ UpFails
    BY <1>2 DEF Up, Goto, Typed, TypeOK, callVars, Ended
  <2>2. Started
    BY <2>1, StartEffect DEF Typed
  <2>3. CASE pc'[c] \in Ended
    BY <2>2, <2>3, EndedKeeps DEF Started
  <2>4. CASE pc'[c] = "locate"
    <3>1. folder # None /\ folder.base = offered[c] /\ offered[c] \in Nat
      BY <2>1 DEF Kept, Placed, Typed, TypeOK
    <3>2. /\ folder' # None /\ folder'.base = offered[c] /\ Sound'
          /\ made' \in {made, offered[c]}
      BY <2>2, <3>1 DEF Started
    <3>3. Found(c)' /\ Placed(c)' /\ Clear(c)'
      BY <2>1, <2>4, <3>2 DEF Kept, Found, Placed, Clear, Stages
    <3>4. ASSUME point[c] # None, archive[point[c]] # None
          PROVE  archive[point[c]].data <= made'
      <4>1. archive[point[c]] \in Folder
        BY <3>4 DEF Typed, TypeOK
      <4> QED BY <2>1, <3>1, <3>2, <3>4, <4>1, FolderParts
                 DEF Kept, Pointed, Before
    <3>5. Pointed(c)'
      BY <2>1, <2>4, <3>4 DEF Kept, Pointed, Before
    <3> QED BY <3>2, <3>3, <3>5 DEF Kept
  <2> QED BY <2>1, <2>3, <2>4
<1> QED BY <1>1, <1>2

\* The rollback.
LEMMA OwnRollback ==
  ASSUME Typed, Sound, NEW c \in Calls, Kept(c),
         Halt(c) \/ Aside(c) \/ Swap(c) \/ Restart(c)
  PROVE  Sound' /\ Kept(c)'
<1>1. CASE Halt(c)
  <2>1. /\ pc[c] = "halt" /\ pc'[c] \in {"aside", "failed"}
        /\ UNCHANGED <<folder, made, store, archive, current, offered, point>>
    BY <1>1 DEF Halt, Goto, Typed, TypeOK, callVars, Kept, Placed
  <2> QED BY <2>1 DEF Sound, Kept, Found, Placed, Pointed, Clear, Before, Stages
<1>2. CASE Aside(c)
  <2>1. /\ pc[c] = "aside"
        /\ UNCHANGED <<made, store, current, offered, point>>
    BY <1>2 DEF Aside, callVars
  <2>2. CASE UNCHANGED <<folder, archive>> /\ pc'[c] \in Ended \cup {"failedUp"}
    BY <2>1, <2>2 DEF Sound, Kept, Found, Placed, Pointed, Clear, Stages, Ended
  <2>3. CASE /\ folder' = None /\ pc'[c] = "swap" /\ archive[point[c]] # None
             /\ \E s \in Stamps :
                  archive[s] = None /\ archive' = [archive EXCEPT ![s] = folder]
    <3>1. archive'[point[c]] = archive[point[c]]
      BY <2>3 DEF Typed, TypeOK
    <3> QED BY <2>1, <2>3, <3>1
               DEF Sound, Kept, Found, Placed, Pointed, Clear, Before, Stages
  <2> QED BY <1>2, <2>2, <2>3 DEF Aside, Return, Goto, Typed, TypeOK, Ended
<1>3. CASE Swap(c)
  <2>1. /\ pc[c] = "swap"
        /\ UNCHANGED <<made, store, current, offered, point>>
        /\ point[c] \in Stamps /\ point[c] # None /\ current[c] # None
        /\ Torn \notin Nat /\ None # Torn
    BY <1>3, UpdateAssumption
       DEF Swap, callVars, Typed, TypeOK, HasPoint, Kept, Found, Stages
  <2>2. CASE UNCHANGED <<folder, archive>> /\ pc'[c] \in Ended \cup {"failedUp"}
    BY <2>1, <2>2 DEF Sound, Kept, Found, Placed, Pointed, Clear, Stages, Ended
  <2>3. CASE /\ archive[point[c]] # None /\ folder' = archive[point[c]]
             /\ pc'[c] \in Ended \cup {"backUp"}
    <3>1. /\ Before(c, archive[point[c]]) /\ folder'.data <= made
          /\ current[c] \in Nat => folder'.data <= current[c]
      BY <2>1, <2>3 DEF Kept, Pointed
    <3>2. /\ folder' \in Folder /\ folder'.data \in Nat /\ store \in Nat
          /\ offered[c] \in Nat /\ offered[c] <= store
          /\ current[c] \in Nat => current[c] < offered[c]
      BY <2>1, <2>3, FolderParts DEF Typed, TypeOK, Kept, Found, Stages
    <3>3. Sound'
      BY <2>1, <2>3, <3>1, <3>2 DEF Sound, Before
    <3>4. Kept(c)'
      BY <2>1, <2>3, <3>1
         DEF Kept, Found, Placed, Pointed, Clear, Before, Stages, Ended
    <3> QED BY <3>3, <3>4
  <2> QED BY <1>3, <2>2, <2>3
             DEF Swap, Restored, Return, Goto, Typed, TypeOK, Ended
<1>4. CASE Restart(c)
  <2>1. pc'[c] \in Ended /\ Start /\ store' = store
    BY <1>4 DEF Restart, Goto, Typed, TypeOK, Ended
  <2>2. Started
    BY <2>1, StartEffect DEF Typed
  <2> QED BY <2>1, <2>2, EndedKeeps DEF Started
<1> QED BY <1>1, <1>2, <1>3, <1>4

-----------------------------------------------------------------------------
(* The invariant *)

\* What the others do keeps what a call relies on.
LEMMA OthersKeep ==
  ASSUME Typed, Sound,
         \/ Publish \/ OthersStart \/ OthersStop
         \/ \E s \in Stamps : Delete(s)
  PROVE  Sound' /\ \A c \in Calls : Kept(c) => Kept(c)'
<1>1. CASE Publish
  <2>1. /\ store' = store + 1 /\ store \in Nat
        /\ UNCHANGED <<folder, made, archive, pc, current, offered, point>>
    BY <1>1 DEF Publish, appVars, callVars, Typed, TypeOK
  <2>2. folder # None => folder.data \in Nat /\ folder.base \in Composes
    BY FolderParts DEF Typed, TypeOK
  <2>3. Sound'
    BY <2>1, <2>2 DEF Sound, Composes
  <2>4. ASSUME NEW c \in Calls, Kept(c)
        PROVE  Kept(c)'
    BY <2>1, <2>4 DEF Kept, Found, Placed, Pointed, Clear, Before, Typed, TypeOK
  <2> QED BY <2>3, <2>4
<1>2. CASE OthersStart
  <2>1. Start /\ UNCHANGED <<store, archive, pc, current, offered, point>>
    BY <1>2 DEF OthersStart, callVars
  <2>2. Started
    BY <2>1, StartEffect DEF Typed
  <2> QED BY <2>1, <2>2, StartKeeps DEF Started, Typed
<1>3. CASE OthersStop
  BY <1>3 DEF OthersStop, Sound, Kept, Found, Placed, Pointed, Clear, Before
<1>4. CASE \E s \in Stamps : Delete(s)
  <2>1. PICK s \in Stamps : Delete(s)
    BY <1>4
  <2>2. UNCHANGED <<folder, made, store, pc, current, offered, point>>
    BY <2>1 DEF Delete, appVars, callVars
  <2>3. ASSUME NEW c \in Calls, point[c] # None, archive'[point[c]] # None
        PROVE  archive[point[c]] = archive'[point[c]]
    BY <2>1, <2>3 DEF Delete, Typed, TypeOK
  <2> QED BY <2>2, <2>3 DEF Sound, Kept, Found, Placed, Pointed, Clear, Before
<1> QED BY <1>1, <1>2, <1>3, <1>4

\* Only the call that steps changes its own part.
LEMMA OthersStay ==
  ASSUME Typed, NEW c \in Calls, UpdateStep(c), NEW d \in Calls, d # c
  PROVE  pc'[d] = pc[d]
BY DEF UpdateStep, Open, Fetch, StopForCopy, Copy, Rerun, Write, Up, Locate,
       Halt, Aside, Swap, Restart, Return, Goto, Typed, TypeOK

\* A call's step keeps its own part, and it is the only one under way.
LEMMA OwnStep ==
  ASSUME IInv, ~overlapped', NEW c \in Calls, UpdateStep(c)
  PROVE  Alone' /\ Sound' /\ \A d \in Calls : Kept(d)'
<1>1. ~overlapped /\ Sound /\ Kept(c) /\ Typed /\ Alone
  <2>1. ~overlapped
    BY DEF UpdateStep, Open, Fetch, StopForCopy, Copy, Rerun, Write, Up, Locate,
           Halt, Aside, Swap, Restart, callVars
  <2> QED BY <2>1 DEF IInv
<1>2. Sound' /\ Kept(c)'
  BY <1>1, OwnAsking, OwnBackup, OwnWrite, OwnRollback DEF UpdateStep
<1>3. ASSUME NEW d \in Calls, d # c
      PROVE  pc'[d] \in Ended /\ pc'[d] \notin Stages
  <2>1. pc[d] \notin Stages
    <3>1. CASE Open(c)
      BY <1>3, <3>1 DEF Open, Busy
    <3>2. CASE ~Open(c)
      <4>1. pc[c] \in Stages
        BY <3>2 DEF UpdateStep, Fetch, StopForCopy, Copy, Rerun, Write, Up,
                    Locate, Halt, Aside, Swap, Restart, Stages
      <4> QED BY <1>1, <1>3, <4>1 DEF Alone, Busy
    <3> QED BY <3>1, <3>2
  <2>2. pc'[d] = pc[d] /\ pc[d] \in Ended \cup Stages
    BY <1>1, <1>3, OthersStay DEF Typed, TypeOK
  <2> QED BY <2>1, <2>2
<1>4. Alone'
  BY <1>3 DEF Alone, Busy
<1>5. \A d \in Calls : Kept(d)'
  BY <1>2, <1>3, EndedKeeps
<1> QED BY <1>2, <1>4, <1>5

\* A kill may cut a write or leave an up to go on; it ends every call.
LEMMA KillKeeps ==
  ASSUME IInv, ~overlapped, Kill
  PROVE  Alone' /\ Sound' /\ \A d \in Calls : Kept(d)'
<1>1. Typed /\ Sound /\ \A c \in Calls : Kept(c)
  BY DEF IInv
<1>2. \A d \in Calls : pc'[d] \in Ended /\ pc'[d] \notin Stages
  BY <1>1 DEF Kill, Busy, Ended, Stages, Typed, TypeOK
<1>3. Alone' /\ \A d \in Calls : Kept(d)'
  BY <1>2, EndedKeeps DEF Alone, Busy
<1>4. CASE UNCHANGED appVars \/ ComposeUp \/ UpFails
  <2>1. Started
    BY <1>1, <1>4, StartEffect DEF Kill, Typed
  <2> QED BY <1>1, <1>3, <2>1 DEF Started
<1>5. CASE /\ \E c \in Calls : pc[c] = "write"
           /\ folder # None
           /\ folder' = [folder EXCEPT !.base = Torn]
           /\ UNCHANGED <<up, made>>
  <2>1. PICK c \in Calls : pc[c] = "write"
    BY <1>5
  <2>2. /\ folder \in Folder /\ folder.data < offered[c]
        /\ offered[c] <= store /\ folder.data <= made
        /\ folder.data \in Nat /\ offered[c] \in Nat /\ store \in Nat
    BY <1>1, <1>5, <2>1, FolderParts
       DEF Kept, Placed, Found, Before, Stages, Sound, Typed, TypeOK
  <2>3. Torn \in Composes /\ Torn \notin Nat
    BY UpdateAssumption DEF Composes
  <2>4. /\ folder'.base = Torn /\ folder'.data = folder.data
        /\ made' = made /\ store' = store
    BY <1>5, <2>2, <2>3, WrittenParts DEF Kill
  <2>5. Sound'
    BY <2>2, <2>3, <2>4 DEF Sound
  <2> QED BY <1>3, <2>5
<1> QED BY <1>4, <1>5 DEF Kill

LEMMA InvStep ==
  ASSUME IInv, [Next]_vars
  PROVE  IInv'
<1>1. Typed'
  BY TypeStep, PointStep DEF IInv, Typed
<1>2. ASSUME ~overlapped'
      PROVE  Alone' /\ Sound' /\ \A c \in Calls : Kept(c)'
  <2>1. CASE Publish \/ OthersStart \/ OthersStop \/ \E s \in Stamps : Delete(s)
    <3>1. ~overlapped /\ pc' = pc
      BY <1>2, <2>1 DEF Publish, OthersStart, OthersStop, Delete, callVars
    <3> QED BY <2>1, <3>1, OthersKeep DEF IInv, Alone, Busy
  <2>2. CASE Kill
    BY <1>2, <2>2, KillKeeps DEF Kill, callVars
  <2>3. CASE \E c \in Calls : UpdateStep(c)
    BY <1>2, <2>3, OwnStep
  <2>4. CASE UNCHANGED vars
    BY <1>2, <2>4 DEF vars, IInv, Alone, Busy, Sound, Kept, Found, Placed,
                      Pointed, Clear, Before
  <2> QED BY <2>1, <2>2, <2>3, <2>4 DEF Next
<1> QED BY <1>1, <1>2 DEF IInv

LEMMA InvInit == Init => IInv
<1> SUFFICES ASSUME Init PROVE IInv
  OBVIOUS
<1>1. /\ [base |-> 0, data |-> 0] \in Folder
      /\ [base |-> 0, data |-> 0].base = 0 /\ [base |-> 0, data |-> 0].data = 0
  BY DEF Folder, Composes
<1>2. TypeOK
  BY <1>1 DEF Init, TypeOK, Ended, Composes
<1>3. \A c \in Calls : pc[c] = "idle"
  BY DEF Init
<1>4. (\A c \in Calls : HasPoint(c) /\ Kept(c)) /\ Alone
  BY <1>3 DEF HasPoint, Kept, Found, Placed, Pointed, Clear, Alone, Busy, Stages
<1>5. Sound
  BY <1>1, UpdateAssumption DEF Init, Sound
<1> QED BY <1>2, <1>4, <1>5 DEF IInv, Typed

\* The inductive invariant of an update (ApplyUpdate, rollBack).
THEOREM Invariance == Spec => []IInv
<1>1. Init => IInv
  BY InvInit
<1>2. IInv /\ [Next]_vars => IInv'
  BY InvStep
<1> QED BY <1>1, <1>2, PTL DEF Spec

-----------------------------------------------------------------------------
(* The properties *)

\* The state of an update has the types it is given.
THEOREM TypeCorrect == Spec => []TypeOK
<1>1. IInv => TypeOK
  BY DEF IInv, Typed
<1> QED BY <1>1, Invariance, PTL

\* No version runs on data that a newer one has made its own.
THEOREM NewerDataTheorem == Spec => []NeverOnNewerData
<1>1. IInv => NeverOnNewerData
  <2> SUFFICES ASSUME IInv, ~overlapped, folder # None
               PROVE  ~(made < folder.data)
    BY DEF NeverOnNewerData, RunsOnOlder
  <2> QED BY FolderParts DEF IInv, Typed, TypeOK, Sound
<1> QED BY <1>1, Invariance, PTL

\* What is said to be rolled back is the compose that was found, on data that
\* the version tried has not touched.
THEOREM RolledBackTheorem == Spec => RolledBackIsOld
<1> DEFINE Old(c) == /\ folder' # None
                     /\ folder'.base = current[c]
                     /\ folder'.data < offered[c]
           Told(c) == pc[c] # "rolledBack" /\ pc'[c] = "rolledBack" /\ ~overlapped
<1>1. ASSUME IInv, [Next]_vars, NEW c \in Calls, Told(c)
      PROVE  Old(c)
  <2>1. /\ Typed /\ TypeOK /\ Sound /\ Kept(c) /\ pc[c] # "rolledBack"
        /\ pc'[c] = "rolledBack"
    BY <1>1 DEF IInv, Typed
  <2>2. Swap(c) \/ (Restart(c) /\ pc[c] = "backUp")
    <3>1. \E d \in Calls : UpdateStep(d)
      BY <1>1, <2>1 DEF Next, vars, Publish, OthersStart, OthersStop, Kill,
                        Delete, Busy, TypeOK
    <3>2. PICK d \in Calls : UpdateStep(d)
      BY <3>1
    <3>3. d = c
      BY <2>1, <3>2, OthersStay
    <3> QED BY <2>1, <3>2, <3>3
            DEF UpdateStep, Open, Fetch, StopForCopy, Copy, Rerun, Write, Up,
                Locate, Halt, Aside, Swap, Restart, Return, Goto, TypeOK
  <2>3. CASE Swap(c)
    <3>1. /\ pc[c] = "swap" /\ archive[point[c]] # None
          /\ folder' = archive[point[c]]
      BY <2>1, <2>3 DEF Swap, Return, Restored, Goto, TypeOK
    <3>2. point[c] # None
      BY <2>1, <3>1 DEF Typed, HasPoint
    <3> QED BY <2>1, <3>1, <3>2 DEF Kept, Pointed, Before
  <2>4. CASE Restart(c) /\ pc[c] = "backUp"
    <3>1. /\ Before(c, folder) /\ current[c] # None /\ current[c] \in Composes
          /\ current[c] \in Nat => current[c] < offered[c]
          /\ offered[c] \in Nat
      BY <2>1, <2>4 DEF Kept, Placed, Found, Stages, TypeOK
    <3>2. Started
      BY <2>1, <2>4, StartEffect DEF Restart
    <3>3. /\ folder' # None /\ folder'.base = current[c] /\ Sound'
          /\ folder' \in Folder /\ folder'.data \in Nat
          /\ current[c] = Torn => folder'.data = folder.data
      BY <2>1, <3>1, <3>2, FolderParts DEF Started, Before
    <3>4. CASE current[c] \in Nat
      <4>1. folder'.data <= current[c]
        BY <3>3, <3>4 DEF Sound
      <4> QED BY <3>1, <3>3, <3>4, <4>1
    <3>5. CASE current[c] = Torn
      BY <3>1, <3>3, <3>5 DEF Before
    <3> QED BY <3>1, <3>4, <3>5 DEF Composes
  <2> QED BY <2>2, <2>3, <2>4
<1>2. IInv /\ [Next]_vars => [\A c \in Calls : Told(c) => Old(c)]_vars
  BY <1>1
<1> QED BY <1>2, Invariance, PTL DEF Spec, RolledBackIsOld
=============================================================================
