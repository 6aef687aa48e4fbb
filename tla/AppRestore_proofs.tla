-------------------------- MODULE AppRestore_proofs ---------------------------
(***************************************************************************)
(* Proofs about a restore, for any backups and any contents: its types, and *)
(* that what it takes the place of is kept in an archive or a snapshot,      *)
(* whatever fails, wherever Maison is killed and whatever the operators do   *)
(* meanwhile (KeptTheorem); that a folder cut short in an overwriting keeps   *)
(* its marker (CutTheorem); and, if nothing blocks a restore, that fairness  *)
(* takes it to the restart by every path (TriedTheorem).                     *)
(***************************************************************************)
EXTENDS AppRestore, TLAPS

USE RestoreAssumption

\* What others than a restore do to the app.
Operators == \/ OperatorAsks \/ OperatorStarts \/ OperatorRestarts \/ OperatorStops
             \/ OperatorSaves

-----------------------------------------------------------------------------
(* Types *)

LEMMA NoNameIsOne == NoName \in Names
  BY DEF NoName

LEMMA TypeInit == Init => TypeOK
<1> SUFFICES ASSUME Init PROVE TypeOK
  OBVIOUS
<1>1. live \in Contents /\ gen \in Nat /\ displaced \in Contents
  BY DEF Init, Contents
<1>2. disk \in [Names -> Contents] /\ repo \in [Names -> Contents]
  <2>1. {None, 0} \subseteq Contents
    BY DEF Contents
  <2> QED BY <2>1 DEF Init
<1>3. /\ up \in BOOLEAN /\ marker \in BOOLEAN /\ had \in BOOLEAN /\ deferred \in BOOLEAN
      /\ looked \in BOOLEAN /\ still \in BOOLEAN
  BY DEF Init
<1>4. pc \in Ended \cup Stages /\ name \in Names /\ src \in {"local", "kopia"}
  BY NoNameIsOne DEF Init, Ended
<1> QED BY <1>1, <1>2, <1>3, <1>4 DEF TypeOK

\* A call goes on, or ends.
LEMMA Going ==
  ASSUME TypeOK, NEW place \in Ended \cup Stages, Goto(place)
  PROVE  /\ pc' \in Ended \cup Stages
         /\ name' \in Names /\ src' \in {"local", "kopia"} /\ had' \in BOOLEAN
  BY NoNameIsOne DEF Goto, TypeOK, callVars

LEMMA Returning ==
  ASSUME TypeOK, NEW good \in BOOLEAN, Return(good)
  PROVE  /\ pc' \in {"restartDone", "restartFailed", "done", "failed"}
         /\ name' \in Names /\ src' \in {"local", "kopia"} /\ had' \in BOOLEAN
<1>1. PICK place \in {"restartDone", "restartFailed", "done", "failed"} : Goto(place)
  BY DEF Return
<1>2. place \in Ended \cup Stages
  BY DEF Ended, Stages
<1> QED BY <1>1, <1>2, Going DEF Goto

LEMMA CopiedIs ==
  ASSUME TypeOK
  PROVE  Copied \in Contents
  BY DEF TypeOK, Copied, Contents

LEMMA FreshIs ==
  ASSUME TypeOK, Fresh
  PROVE  gen' \in Nat /\ live' \in Contents
<1>1. gen \in Nat /\ gen + 1 \in Nat
  BY DEF TypeOK
<1>2. gen' = gen + 1 \/ gen' = gen
  BY DEF Fresh
<1> QED BY <1>1, <1>2 DEF Fresh, Contents

LEMMA BringUpIs ==
  ASSUME TypeOK, BringUp
  PROVE  gen' \in Nat /\ live' \in Contents /\ up' = TRUE /\ still' = FALSE
  BY FreshIs DEF BringUp, TypeOK

\* The app and its operators.
LEMMA AppTypes ==
  ASSUME TypeOK, AppWrites \/ Operators
  PROVE  TypeOK'
<1>1. live' \in Contents /\ gen' \in Nat /\ up' \in BOOLEAN /\ still' \in BOOLEAN
  <2>1. CASE AppWrites
    BY <2>1, FreshIs DEF AppWrites, TypeOK
  <2>2. CASE OperatorStarts \/ OperatorRestarts
    BY <2>2, BringUpIs DEF OperatorStarts, OperatorRestarts, appVars, TypeOK
  <2>3. CASE OperatorAsks \/ OperatorStops
    BY <2>3 DEF OperatorAsks, OperatorStops, appVars, TypeOK
  <2>4. CASE OperatorSaves
    BY <2>4, FreshIs DEF OperatorSaves, TypeOK
  <2> QED BY <2>1, <2>2, <2>3, <2>4 DEF Operators
<1>2. UNCHANGED <<storeVars, pc, callVars, deferred, displaced>> /\ looked' \in BOOLEAN
  BY DEF AppWrites, Operators, OperatorAsks, OperatorStarts, OperatorRestarts,
         OperatorStops, OperatorSaves, TypeOK
<1> QED BY <1>1, <1>2 DEF TypeOK, storeVars, callVars

\* Other backups come and go.
LEMMA BackupTypes ==
  ASSUME TypeOK, NEW n \in Names, TakeBackup(n) \/ Delete(n)
  PROVE  TypeOK'
<1>1. disk' \in [Names -> Contents] /\ repo' \in [Names -> Contents]
  BY CopiedIs DEF TakeBackup, Delete, TypeOK, Contents
<1>2. displaced' \in Contents /\ still' \in BOOLEAN
  BY DEF TakeBackup, Delete, TypeOK, Contents
<1>3. UNCHANGED <<appVars, marker, pc, callVars, deferred, looked>>
  BY DEF TakeBackup, Delete
<1> QED BY <1>1, <1>2, <1>3 DEF TypeOK, appVars, callVars

\* A restore, by the state that each step may change.
LEMMA CallTypes ==
  ASSUME TypeOK, RestoreStep \/ Crash
  PROVE  /\ pc' \in Ended \cup Stages
         /\ name' \in Names /\ src' \in {"local", "kopia"} /\ had' \in BOOLEAN
<1>1. CASE \E place \in Ended \cup Stages : Goto(place)
  BY <1>1, Going
<1>2. CASE \E good \in BOOLEAN : Return(good)
  BY <1>2, Returning DEF Ended, Stages
<1>3. (\E place \in Ended \cup Stages : Goto(place)) \/ (\E good \in BOOLEAN : Return(good))
  <2>1. CASE Stop \/ Choose \/ Fetch \/ Aside \/ Swap
    BY <2>1 DEF Stop, Choose, Fetch, Aside, Swap, SwapFrom, Stages
  <2>2. CASE Undo \/ Keep \/ Mark \/ Overwrite \/ Written \/ Unmark
    BY <2>2 DEF Undo, Keep, Mark, Overwrite, Written, Unmark, Stages
  <2>3. CASE RestartApp \/ Crash
    BY <2>3 DEF RestartApp, Crash, Ended
  <2> QED BY <2>1, <2>2, <2>3 DEF RestoreStep
<1> QED BY <1>1, <1>2, <1>3

LEMMA RestoreTypes ==
  ASSUME TypeOK, RestoreStep \/ Crash
  PROVE  TypeOK'
<1>1. /\ pc' \in Ended \cup Stages
      /\ name' \in Names /\ src' \in {"local", "kopia"} /\ had' \in BOOLEAN
  BY CallTypes
<1>2. CASE Stop \/ RestartApp
  <2>1. /\ live' \in Contents /\ gen' \in Nat /\ up' \in BOOLEAN
        /\ deferred' \in BOOLEAN /\ still' \in BOOLEAN
    <3>1. CASE Stop
      BY <3>1 DEF Stop, TypeOK
    <3>2. CASE RestartApp
      BY <3>2, BringUpIs DEF RestartApp, appVars, TypeOK
    <3> QED BY <1>2, <3>1, <3>2
  <2>2. UNCHANGED <<storeVars, looked, displaced>>
    BY <1>2 DEF Stop, RestartApp
  <2> QED BY <1>1, <2>1, <2>2 DEF TypeOK, storeVars
<1>3. CASE Choose \/ Keep
  <2>1. UNCHANGED <<appVars, storeVars, deferred, looked, displaced, still>>
    BY <1>3 DEF Choose, Keep
  <2> QED BY <1>1, <2>1 DEF TypeOK, appVars, storeVars
<1>4. CASE Fetch \/ Undo
  <2>1. disk' \in [Names -> Contents] /\ repo' \in [Names -> Contents]
    BY <1>4, CopiedIs DEF Fetch, Undo, TypeOK, Contents
  <2>2. UNCHANGED <<appVars, marker, deferred, looked, displaced, still>>
    BY <1>4 DEF Fetch, Undo
  <2> QED BY <1>1, <2>1, <2>2 DEF TypeOK, appVars
<1>5. CASE Aside \/ Swap \/ Overwrite \/ Written
  <2>1. live' \in Contents /\ disk' \in [Names -> Contents] /\ displaced' \in Contents
    <3>1. CASE Aside \/ Overwrite
      BY <3>1, CopiedIs DEF Aside, Overwrite, Displace, TypeOK, Contents, storeVars
    <3>2. CASE Swap \/ Written
      BY <3>2 DEF Swap, Written, TypeOK, Contents, storeVars
    <3> QED BY <1>5, <3>1, <3>2
  <2>2. UNCHANGED <<gen, up, repo, marker, deferred, looked, still>>
    BY <1>5 DEF Aside, Swap, Overwrite, Written, storeVars
  <2> QED BY <1>1, <2>1, <2>2 DEF TypeOK
<1>6. CASE Mark \/ Unmark
  <2>1. marker' \in BOOLEAN /\ UNCHANGED <<appVars, disk, repo, deferred, looked, displaced, still>>
    BY <1>6 DEF Mark, Unmark, TypeOK
  <2> QED BY <1>1, <2>1 DEF TypeOK, appVars
<1>7. CASE Crash
  <2>1. live' \in Contents /\ disk' \in [Names -> Contents]
    BY <1>7 DEF Crash, TypeOK, Contents
  <2>2. deferred' \in BOOLEAN /\ looked' \in BOOLEAN /\ UNCHANGED <<gen, up, repo, marker, displaced, still>>
    BY <1>7 DEF Crash
  <2> QED BY <1>1, <2>1, <2>2 DEF TypeOK
<1> QED BY <1>2, <1>3, <1>4, <1>5, <1>6, <1>7 DEF RestoreStep

LEMMA TypeStep == TypeOK /\ [Next]_vars => TypeOK'
<1> SUFFICES ASSUME TypeOK, [Next]_vars PROVE TypeOK'
  OBVIOUS
<1>1. CASE AppWrites \/ Operators
  BY <1>1, AppTypes
<1>2. CASE RestoreStep \/ Crash
  BY <1>2, RestoreTypes
<1>3. ASSUME NEW n \in Names, TakeBackup(n) \/ Delete(n) PROVE TypeOK'
  BY <1>3, BackupTypes
<1>4. ASSUME NEW n \in Names, Begin(n) PROVE TypeOK'
  <2>1. /\ pc' \in {"stop", "choose"} /\ name' = n /\ src' \in {"local", "kopia"}
        /\ had' \in BOOLEAN /\ still' \in BOOLEAN /\ displaced' = None
        /\ UNCHANGED <<appVars, storeVars, deferred, looked>>
    BY <1>4 DEF Begin, TypeOK
  <2> QED BY <2>1 DEF TypeOK, appVars, storeVars, Stages, Contents
<1>5. CASE UNCHANGED vars
  BY <1>5 DEF vars, TypeOK, appVars, storeVars, callVars
<1> QED BY <1>1, <1>2, <1>3, <1>4, <1>5 DEF Next, Operators

\* Every reachable state of a restore and of its stores has its types.
THEOREM TypeTheorem == Spec => []TypeOK
<1> QED BY TypeInit, TypeStep, PTL DEF Spec

-----------------------------------------------------------------------------
(* What was displaced *)

\* Some archive or snapshot, of a name in S, holds c.
KeptIn(S, c) == \E n \in S : disk[n] = c \/ repo[n] = c

\* Nothing has been displaced before the folder is replaced or overwritten; when it is
\* about to be overwritten, a copy of it has been made; and what was displaced is in an
\* archive or a snapshot other than the one being put in its place.
Kept ==
  /\ still => ~up
  /\ pc \in {"stop", "choose", "fetch", "aside", "undo", "keep", "mark", "overwrite"} =>
       displaced = None
  /\ pc \in {"keep", "mark", "overwrite"} /\ still => KeptIn(Names, Copied)
  /\ pc = "swap" => displaced = None \/ KeptIn(Names \ {name}, displaced)
  /\ displaced = None \/ KeptIn(Names, displaced)

Before == {"stop", "choose", "fetch", "aside", "undo", "keep", "mark", "overwrite"}

\* Steps that touch neither what is kept nor what it is to be kept of.
LEMMA KeptOn ==
  ASSUME Kept, UNCHANGED <<disk, repo, displaced>>, still' => ~up',
         pc' \in Before => displaced = None,
         pc' = "swap" => displaced = None \/ (pc = "swap" /\ name' = name),
         pc' \in {"keep", "mark", "overwrite"} =>
           pc \in {"keep", "mark", "overwrite"} /\ (still' => still /\ live' = live)
  PROVE  Kept'
<1>1. still' /\ pc' \in {"keep", "mark", "overwrite"} => KeptIn(Names, Copied)'
  BY DEF Kept, KeptIn, Copied
<1>2. displaced' = None \/ KeptIn(Names, displaced)'
  BY DEF Kept, KeptIn
<1>3. pc' = "swap" => displaced' = None \/ KeptIn(Names \ {name}, displaced)'
  BY DEF Kept, KeptIn
<1> QED BY <1>1, <1>2, <1>3 DEF Kept, Before

LEMMA KeptStep == TypeOK /\ Kept /\ [Next]_vars => Kept'
<1> SUFFICES ASSUME TypeOK, Kept, [Next]_vars PROVE Kept'
  OBVIOUS
<1>0. disk \in [Names -> Contents] /\ repo \in [Names -> Contents] /\ name \in Names
  BY DEF TypeOK
<1>1. CASE AppWrites \/ Operators
  <2>1. /\ UNCHANGED <<disk, repo, pc, name, displaced>>
        /\ still' => still /\ ~up' /\ live' = live
    BY <1>1 DEF AppWrites, Operators, OperatorAsks, OperatorStarts, OperatorRestarts,
                OperatorStops, OperatorSaves, BringUp, Kept, storeVars, callVars, appVars
  <2> QED BY <2>1, KeptOn DEF Kept, Before
<1>2. ASSUME NEW n \in Names, TakeBackup(n) PROVE Kept'
  <2>1. /\ disk[n] = None /\ repo[n] = None
        /\ \A m \in Names \ {n} : disk'[m] = disk[m] /\ repo'[m] = repo[m]
        /\ UNCHANGED <<live, up, pc, name, displaced, still>>
    BY <1>0, <1>2 DEF TakeBackup, Unused, appVars, callVars
  <2>2. Copied' = Copied /\ (disk'[n] = Copied \/ repo'[n] = Copied)
    BY <1>0, <1>2, <2>1 DEF TakeBackup, Copied
  <2>3. KeptIn(Names, Copied)'
    BY <2>2 DEF KeptIn
  <2>4. \A S \in SUBSET Names : displaced # None /\ KeptIn(S, displaced) => KeptIn(S, displaced)'
    BY <2>1 DEF KeptIn
  <2>5. pc' = "swap" => displaced' = None \/ KeptIn(Names \ {name}, displaced)'
    <3>1. Names \ {name} \in SUBSET Names
      OBVIOUS
    <3>2. pc = "swap" /\ displaced # None => KeptIn(Names \ {name}, displaced)
      BY DEF Kept
    <3> QED BY <2>1, <3>1, <3>2 DEF KeptIn
  <2>6. displaced = None \/ KeptIn(Names, displaced)'
    BY <2>4 DEF Kept
  <2> QED BY <2>1, <2>3, <2>5, <2>6 DEF Kept
<1>3. ASSUME NEW n \in Names, Delete(n) PROVE Kept'
  <2>1. /\ \A m \in Names : disk'[m] = disk[m] \/ (m = n /\ disk'[m] = None)
        /\ \A m \in Names : repo'[m] = repo[m] \/ (m = n /\ repo'[m] = None)
        /\ displaced' = displaced \/ displaced' = None
        /\ displaced' # None => displaced' \notin {disk[n], repo[n]}
        /\ still' = (still /\ Copied \notin {disk[n], repo[n]})
        /\ UNCHANGED <<live, up, pc, name>>
    BY <1>0, <1>3 DEF Delete, appVars, callVars
  <2>2. \A c : \A S \in SUBSET Names : c \notin {disk[n], repo[n]} /\ KeptIn(S, c) =>
          \E m \in S : disk'[m] = c \/ repo'[m] = c
    BY <2>1 DEF KeptIn
  <2>3. Copied' = Copied
    BY <2>1 DEF Copied
  <2>4. pc \in {"keep", "mark", "overwrite"} /\ still' => KeptIn(Names, Copied)'
    BY <2>1, <2>2, <2>3 DEF Kept, KeptIn
  <2>5. pc = "swap" => displaced' = None \/ KeptIn(Names \ {name}, displaced)'
    BY <2>1, <2>2 DEF Kept, KeptIn
  <2>6. displaced' = None \/ KeptIn(Names, displaced)'
    BY <2>1, <2>2 DEF Kept, KeptIn
  <2> QED BY <2>1, <2>4, <2>5, <2>6 DEF Kept
<1>4. ASSUME NEW n \in Names, Begin(n) PROVE Kept'
  BY <1>4 DEF Begin, Kept, appVars
<1>5. CASE Stop \/ Choose \/ Keep \/ Mark \/ Written \/ Unmark \/ RestartApp
  <2>1. UNCHANGED <<disk, repo, displaced>>
    BY <1>5 DEF Stop, Choose, Keep, Mark, Written, Unmark, RestartApp, storeVars
  <2>2. still' => ~up'
    BY <1>5 DEF Stop, Choose, Keep, Mark, Written, Unmark, RestartApp, BringUp, appVars, Kept,
                TypeOK
  <2>3. pc' \in Before => pc \in Before
    BY <1>5 DEF Stop, Choose, Keep, Mark, Written, Unmark, RestartApp, Return, Goto, Before
  <2>4. pc' = "swap" => pc \in Before
    BY <1>5 DEF Stop, Choose, Keep, Mark, Written, Unmark, RestartApp, Return, Goto, Before
  <2>5. pc' \in {"keep", "mark", "overwrite"} =>
          pc \in {"keep", "mark", "overwrite"} /\ UNCHANGED <<still, live>>
    BY <1>5 DEF Stop, Choose, Keep, Mark, Written, Unmark, RestartApp, Return, Goto, SwapFrom,
                appVars
  <2>6. pc \in Before => displaced = None
    BY DEF Kept, Before
  <2> QED BY <2>1, <2>2, <2>3, <2>4, <2>5, <2>6, KeptOn
<1>6. CASE Fetch
  <2>1. displaced = None /\ UNCHANGED <<up, still, displaced>>
    BY <1>6 DEF Fetch, Kept, appVars
  <2>2. pc' \in {"aside", "swap"} \cup Ended \cup {"restartDone", "restartFailed"}
    BY <1>6 DEF Fetch, SwapFrom, Return, Goto, Ended
  <2> QED BY <2>1, <2>2 DEF Kept, Ended
<1>7. CASE Aside
  <2>1. CASE displaced' = None
    <3>1. UNCHANGED <<up, still>>
      BY <1>7 DEF Aside
    <3>2. pc' \in {"swap"} \cup Ended \cup {"restartDone", "restartFailed"}
      BY <1>7 DEF Aside, Return, Goto, Ended
    <3> QED BY <2>1, <3>1, <3>2 DEF Kept, Ended
  <2>2. CASE displaced' # None
    <3>1. displaced = None
      BY <1>7 DEF Aside, Kept
    <3>2. /\ displaced' = Copied /\ pc' = "swap"
          /\ UNCHANGED <<up, still, name>>
          /\ \E s \in Names : s # name /\ disk' = [disk EXCEPT ![s] = Copied]
      BY <1>7, <2>2, <3>1 DEF Aside, Displace, Goto, callVars, Ended
    <3>3. PICK s \in Names \ {name} : disk'[s] = displaced'
      BY <1>0, <3>2
    <3>4. KeptIn(Names, displaced)' /\ KeptIn(Names \ {name}, displaced)'
      BY <3>2, <3>3 DEF KeptIn
    <3> QED BY <3>2, <3>4 DEF Kept
  <2> QED BY <2>1, <2>2
<1>8. CASE Swap
  <2>1. /\ UNCHANGED <<up, still, displaced, repo>>
        /\ \A m \in Names \ {name} : disk'[m] = disk[m]
    BY <1>0, <1>8 DEF Swap
  <2>2. displaced = None \/ KeptIn(Names \ {name}, displaced)
    BY <1>8 DEF Swap, Kept
  <2>3. displaced' = None \/ KeptIn(Names, displaced)'
    BY <2>1, <2>2 DEF KeptIn
  <2>4. pc' \in Ended \cup {"restartDone", "restartFailed"}
    BY <1>8 DEF Swap, Return, Goto, Ended
  <2> QED BY <2>1, <2>3, <2>4 DEF Kept, Ended
<1>9. CASE Undo
  <2>1. displaced = None /\ UNCHANGED <<live, up, still, displaced>>
    BY <1>9 DEF Undo, Kept, appVars
  <2>2. CASE \E s \in Names : repo' = [repo EXCEPT ![s] = Copied]
    <3>1. KeptIn(Names, Copied)'
      <4>1. Copied' = Copied
        BY <2>1 DEF Copied
      <4> QED BY <1>0, <2>2, <4>1 DEF KeptIn
    <3>2. pc' \in {"keep"} \cup Ended \cup {"restartDone", "restartFailed"}
      BY <1>9 DEF Undo, Return, Goto, Ended
    <3> QED BY <2>1, <3>1, <3>2 DEF Kept, Ended
  <2>3. CASE Return(FALSE)
    <3>1. pc' \in Ended \cup {"restartDone", "restartFailed"}
      BY <2>3 DEF Return, Goto, Ended
    <3> QED BY <2>1, <3>1 DEF Kept, Ended
  <2> QED BY <1>9, <2>2, <2>3 DEF Undo
<1>10. CASE Overwrite
  <2>1. displaced = None /\ UNCHANGED <<up, still, disk, repo>>
    BY <1>10 DEF Overwrite, Kept, storeVars
  <2>2. displaced' = None \/ (displaced' = Copied /\ still)
    BY <1>10, <2>1 DEF Overwrite, Displace
  <2>3. still => KeptIn(Names, Copied)
    BY <1>10 DEF Overwrite, Kept
  <2>4. displaced' = None \/ KeptIn(Names, displaced)'
    BY <2>1, <2>2, <2>3 DEF KeptIn
  <2>5. pc' \in {"writing"} \cup Ended \cup {"restartDone", "restartFailed"}
    BY <1>10 DEF Overwrite, Return, Goto, Ended
  <2> QED BY <2>1, <2>4, <2>5 DEF Kept, Ended
<1>11. CASE Crash
  <2>1. pc' = "crashed" /\ UNCHANGED <<up, still, displaced, repo>>
    BY <1>11 DEF Crash, Goto
  <2>2. disk' = disk \/ displaced = None
    BY <1>11 DEF Crash, Kept
  <2>3. displaced' = None \/ KeptIn(Names, displaced)'
    BY <2>1, <2>2 DEF Kept, KeptIn
  <2> QED BY <2>1, <2>3 DEF Kept
<1>12. CASE UNCHANGED vars
  BY <1>12, KeptOn DEF vars, storeVars, callVars, appVars, Kept, Before
<1> QED BY <1>1, <1>2, <1>3, <1>4, <1>5, <1>6, <1>7, <1>8, <1>9, <1>10, <1>11, <1>12
        DEF Next, Operators, RestoreStep

LEMMA KeptInit == Init => Kept
  BY DEF Init, Kept

\* A restore is undoable: what it replaced or overwrote, of an app that has not run since
\* it was stopped for it, is held by an archive or a snapshot until the user deletes that
\* (Registry.Restore's rename aside, and its undo snapshot before an in-place restore).
THEOREM KeptTheorem == Spec => []DisplacedIsKept
<1>1. Kept => DisplacedIsKept
  BY DEF Kept, KeptIn, DisplacedIsKept, Held
<1> QED BY <1>1, TypeInit, TypeStep, KeptInit, KeptStep, PTL DEF Spec

-----------------------------------------------------------------------------
(* What was begun to be overwritten *)

\* A folder the engine is writing over, or was cut short in, is marked; and no archive or
\* snapshot holds such a folder.
Marked ==
  /\ live = Cut => marker /\ pc # "unmark"
  /\ pc \in {"overwrite", "writing"} => marker
  /\ \A n \in Names : disk[n] # Cut /\ repo[n] # Cut

LEMMA MarkedInit == Init => Marked
  BY DEF Init, Marked

\* A copy of such a folder is not one.
LEMMA CopiedWhole == Copied # Cut
  BY DEF Copied

LEMMA FreshWhole ==
  ASSUME TypeOK, Fresh
  PROVE  live' # Cut
  BY FreshIs DEF Fresh

\* Steps that leave the marker.
LEMMA MarkedOn ==
  ASSUME Marked, marker' = marker, live' = live \/ live' # Cut,
         pc' = "unmark" => pc = "unmark" \/ live' # Cut,
         pc' \in {"overwrite", "writing"} => pc \in {"overwrite", "writing"},
         \A n \in Names : disk'[n] # Cut /\ repo'[n] # Cut
  PROVE  Marked'
  BY DEF Marked

LEMMA MarkedStep == TypeOK /\ Marked /\ [Next]_vars => Marked'
<1> SUFFICES ASSUME TypeOK, Marked, [Next]_vars PROVE Marked'
  OBVIOUS
<1>0. disk \in [Names -> Contents] /\ repo \in [Names -> Contents] /\ name \in Names
  BY DEF TypeOK
<1>1. CASE AppWrites \/ Operators
  <2>1. UNCHANGED <<storeVars, pc>> /\ (live' = live \/ Fresh)
    BY <1>1 DEF AppWrites, Operators, OperatorAsks, OperatorStarts, OperatorRestarts,
                OperatorStops, OperatorSaves, BringUp, appVars
  <2> QED BY <2>1, FreshWhole, MarkedOn DEF storeVars, Marked
<1>2. ASSUME NEW n \in Names, TakeBackup(n) \/ Delete(n) PROVE Marked'
  <2>1. \A m \in Names : disk'[m] # Cut /\ repo'[m] # Cut
    BY <1>0, <1>2, CopiedWhole DEF TakeBackup, Delete, Marked
  <2>2. UNCHANGED <<live, marker, pc>>
    BY <1>2 DEF TakeBackup, Delete, appVars
  <2> QED BY <2>1, <2>2, MarkedOn
<1>3. ASSUME NEW n \in Names, Begin(n) PROVE Marked'
  BY <1>3 DEF Begin, Marked, appVars, storeVars
<1>4. CASE Stop \/ Choose \/ Undo \/ Keep \/ RestartApp
  <2>1. marker' = marker /\ (live' = live \/ Fresh) /\ disk' = disk
    BY <1>4 DEF Stop, Choose, Undo, Keep, RestartApp, BringUp, appVars, storeVars
  <2>2. \A n \in Names : repo'[n] # Cut
    BY <1>0, <1>4, CopiedWhole DEF Stop, Choose, Undo, Keep, RestartApp, storeVars, Marked
  <2>3. pc' \notin {"overwrite", "writing", "unmark"}
    BY <1>4 DEF Stop, Choose, Undo, Keep, RestartApp, Return, Goto, SwapFrom
  <2> QED BY <2>1, <2>2, <2>3, FreshWhole, MarkedOn DEF Marked
<1>5. CASE Fetch \/ Aside \/ Swap
  <2>1. \A n \in Names : disk'[n] # Cut /\ repo'[n] # Cut
    BY <1>0, <1>5, CopiedWhole DEF Fetch, Aside, Swap, Marked
  <2>2. marker' = marker /\ (live' = live \/ live' # Cut)
    BY <1>0, <1>5 DEF Fetch, Aside, Swap, appVars, Marked
  <2>3. pc' \notin {"overwrite", "writing", "unmark"}
    BY <1>5 DEF Fetch, Aside, Swap, Return, Goto, SwapFrom
  <2> QED BY <2>1, <2>2, <2>3, MarkedOn
<1>6. CASE Mark
  <2>1. \/ marker' = TRUE /\ pc' = "overwrite"
        \/ marker' = marker /\ pc' \notin {"overwrite", "writing", "unmark"}
    BY <1>6 DEF Mark, Return, Goto
  <2>2. UNCHANGED <<live, disk, repo>>
    BY <1>6 DEF Mark, appVars
  <2> QED BY <2>1, <2>2 DEF Marked
<1>7. CASE Overwrite
  <2>1. marker /\ UNCHANGED storeVars /\ pc' # "unmark"
    BY <1>7 DEF Overwrite, Marked, Return, Goto
  <2> QED BY <2>1 DEF Marked, storeVars
<1>8. CASE Written
  <2>1. marker /\ UNCHANGED storeVars
    BY <1>8 DEF Written, Marked
  <2>2. pc' = "unmark" => live' # Cut
    BY <1>0, <1>8 DEF Written, Marked, Return, Goto
  <2> QED BY <2>1, <2>2 DEF Marked, storeVars
<1>9. CASE Unmark
  <2>1. live # Cut /\ UNCHANGED <<live, disk, repo>>
    BY <1>9 DEF Unmark, Marked, appVars
  <2>2. pc' \notin {"overwrite", "writing", "unmark"}
    BY <1>9 DEF Unmark, Return, Goto
  <2> QED BY <2>1, <2>2 DEF Marked
<1>10. CASE Crash
  <2>1. marker' = marker /\ repo' = repo /\ pc' = "crashed"
    BY <1>10 DEF Crash, Goto
  <2>2. live' = live \/ live' # Cut
    BY <1>0, <1>10 DEF Crash, Marked
  <2>3. \A n \in Names : disk'[n] # Cut
    BY <1>0, <1>10 DEF Crash, Marked
  <2> QED BY <2>1, <2>2, <2>3, MarkedOn DEF Marked
<1>11. CASE UNCHANGED vars
  BY <1>11 DEF vars, storeVars, Marked
<1> QED BY <1>1, <1>2, <1>3, <1>4, <1>5, <1>6, <1>7, <1>8, <1>9, <1>10, <1>11
        DEF Next, Operators, RestoreStep

\* A folder that an in-place restore is writing over, or was cut short in, has its marker,
\* whatever failed, was killed or was begun again since: EnsureStarted refuses it (the
\* .restoring marker, written before the first byte and removed after the last).
THEOREM CutTheorem == Spec => []RefusedWhileCut
<1>1. Marked => RefusedWhileCut
  BY DEF Marked, RefusedWhileCut, Gated
<1> QED BY <1>1, TypeInit, TypeStep, MarkedInit, MarkedStep, PTL DEF Spec

-----------------------------------------------------------------------------
(* The restart is tried *)

\* The stages of a restore by how many steps its deferred restart is away at most.
Within0 == {"restartDone", "restartFailed"}
Within1 == Within0 \cup {"swap", "unmark"}
Within2 == Within1 \cup {"aside", "writing"}
Within3 == Within2 \cup {"fetch", "overwrite"}
Within4 == Within3 \cup {"mark"}
Within5 == Within4 \cup {"keep"}
Within6 == Within5 \cup {"undo"}
Within7 == Within6 \cup {"choose"}

\* A restore that has stopped the app still has the restart before it.
OwesRestart == deferred => pc \in Within7

Owes(places) == deferred /\ pc \in places

\* Of a restore that owes a restart only its own steps and a kill change the stage.
LEMMA OwingMoves ==
  ASSUME deferred, [Next]_vars
  PROVE  (pc' = pc /\ deferred' = deferred) \/ ~deferred' \/ RestoreStep \/ pc \in Ended
<1>1. CASE AppWrites \/ Operators
  BY <1>1 DEF AppWrites, Operators, OperatorAsks, OperatorStarts, OperatorRestarts,
              OperatorStops, OperatorSaves
<1>2. CASE Crash
  BY <1>2 DEF Crash
<1>3. ASSUME NEW n \in Names, TakeBackup(n) \/ Delete(n) PROVE pc' = pc /\ deferred' = deferred
  BY <1>3 DEF TakeBackup, Delete
<1>4. ASSUME NEW n \in Names, Begin(n) PROVE pc \in Ended
  BY <1>4 DEF Begin
<1>5. CASE UNCHANGED vars
  BY <1>5 DEF vars
<1>6. QED
  BY <1>1, <1>2, <1>3, <1>4, <1>5 DEF Next, Operators

\* A step of a restore that owes a restart takes it nearer, whichever of its paths it is
\* on and whatever fails.
LEMMA DownMoves ==
  ASSUME deferred, RestoreStep
  PROVE  /\ pc \in Within0 => ~deferred'
         /\ pc \in Within1 => ~deferred' \/ Owes(Within0)'
         /\ pc \in Within2 => ~deferred' \/ Owes(Within1)'
         /\ pc \in Within3 => ~deferred' \/ Owes(Within2)'
         /\ pc \in Within4 => ~deferred' \/ Owes(Within3)'
         /\ pc \in Within5 => ~deferred' \/ Owes(Within4)'
         /\ pc \in Within6 => ~deferred' \/ Owes(Within5)'
         /\ pc \in Within7 => ~deferred' \/ Owes(Within6)'
<1> USE DEF Owes, Within0, Within1, Within2, Within3, Within4, Within5, Within6, Within7
<1>1. \A good : Return(good) => pc' \in Within0
  BY DEF Return, Goto
<1>2. CASE Stop
  BY <1>2 DEF Stop
<1>3. CASE Choose \/ Fetch
  BY <1>1, <1>3 DEF Choose, Fetch, SwapFrom, Goto
<1>4. CASE Aside \/ Swap
  BY <1>1, <1>4 DEF Aside, Swap, Goto
<1>5. CASE Undo \/ Keep \/ Mark
  BY <1>1, <1>5 DEF Undo, Keep, Mark, Goto
<1>6. CASE Overwrite \/ Written \/ Unmark
  BY <1>1, <1>6 DEF Overwrite, Written, Unmark, Goto
<1>7. CASE RestartApp
  BY <1>7 DEF RestartApp
<1>8. QED
  BY <1>2, <1>3, <1>4, <1>5, <1>6, <1>7 DEF RestoreStep

LEMMA WithinStages == pc \in Within7 => pc \notin Ended
  BY DEF Within0, Within1, Within2, Within3, Within4, Within5, Within6, Within7, Ended

LEMMA WithinMore ==
  /\ Within0 \subseteq Within1 /\ Within1 \subseteq Within2 /\ Within2 \subseteq Within3
  /\ Within3 \subseteq Within4 /\ Within4 \subseteq Within5 /\ Within5 \subseteq Within6
  /\ Within6 \subseteq Within7
  BY DEF Within1, Within2, Within3, Within4, Within5, Within6, Within7

\* However a restore goes on after it has stopped the app, the restart is ahead of it:
\* none of its returns leaves the deferred call out (Restore).
THEOREM OwesTheorem == Spec => []OwesRestart
<1>1. Init => OwesRestart
  BY DEF Init, OwesRestart
<1>2. OwesRestart /\ [Next]_vars => OwesRestart'
  <2> SUFFICES ASSUME OwesRestart, [Next]_vars PROVE OwesRestart'
    OBVIOUS
  <2>1. CASE deferred
    <3>1. pc \in Within7 /\ pc \notin Ended
      BY <2>1, WithinStages DEF OwesRestart
    <3>2. RestoreStep => ~deferred' \/ pc' \in Within7
      BY <2>1, <3>1, DownMoves, WithinMore DEF Owes
    <3>3. QED
      BY <2>1, <3>1, <3>2, OwingMoves DEF OwesRestart
  <2>2. CASE ~deferred
    <3>1. Stop => pc' \in Within7 \/ deferred' = deferred
      BY <2>2 DEF Stop, Return, Goto, Within0, Within1, Within2, Within3, Within4, Within5, Within6, Within7
    <3>2. deferred' = deferred \/ ~deferred' \/ Stop
      BY DEF Next, vars, AppWrites, OperatorAsks, OperatorStarts, OperatorRestarts,
             OperatorStops, OperatorSaves, Crash,
             RestoreStep, Choose, Fetch, Aside, Swap, Undo, Keep, Mark, Overwrite, Written,
             Unmark, RestartApp, TakeBackup, Delete, Begin
    <3>3. QED
      BY <2>2, <3>1, <3>2 DEF OwesRestart
  <2>3. QED
    BY <2>1, <2>2
<1>3. QED
  BY <1>1, <1>2, PTL DEF Spec

\* Each stage is left for one nearer to the restart, as long as its step is not blocked.
LEMMA StageLeft ==
  Spec /\ []RestoreGoesOn =>
    /\ Owes(Within0) ~> ~deferred
    /\ Owes(Within1) ~> ~deferred \/ Owes(Within0)
    /\ Owes(Within2) ~> ~deferred \/ Owes(Within1)
    /\ Owes(Within3) ~> ~deferred \/ Owes(Within2)
    /\ Owes(Within4) ~> ~deferred \/ Owes(Within3)
    /\ Owes(Within5) ~> ~deferred \/ Owes(Within4)
    /\ Owes(Within6) ~> ~deferred \/ Owes(Within5)
    /\ Owes(Within7) ~> ~deferred \/ Owes(Within6)
<1> DEFINE Can == ENABLED <<RestoreStep>>_vars
<1>1. RestoreGoesOn => (deferred => Can)
  BY DEF RestoreGoesOn
<1>2. Owes(Within0) => deferred
  BY DEF Owes
<1>3. Owes(Within1) => deferred
  BY DEF Owes
<1>4. Owes(Within2) => deferred
  BY DEF Owes
<1>5. Owes(Within3) => deferred
  BY DEF Owes
<1>6. Owes(Within4) => deferred
  BY DEF Owes
<1>7. Owes(Within5) => deferred
  BY DEF Owes
<1>8. Owes(Within6) => deferred
  BY DEF Owes
<1>9. Owes(Within7) => deferred
  BY DEF Owes
<1>10. [Next]_vars =>
         /\ Owes(Within0) => Owes(Within0)' \/ ~deferred'
         /\ Owes(Within1) => Owes(Within1)' \/ ~deferred' \/ Owes(Within0)'
         /\ Owes(Within2) => Owes(Within2)' \/ ~deferred' \/ Owes(Within1)'
         /\ Owes(Within3) => Owes(Within3)' \/ ~deferred' \/ Owes(Within2)'
         /\ Owes(Within4) => Owes(Within4)' \/ ~deferred' \/ Owes(Within3)'
         /\ Owes(Within5) => Owes(Within5)' \/ ~deferred' \/ Owes(Within4)'
         /\ Owes(Within6) => Owes(Within6)' \/ ~deferred' \/ Owes(Within5)'
         /\ Owes(Within7) => Owes(Within7)' \/ ~deferred' \/ Owes(Within6)'
  BY OwingMoves, DownMoves, WithinMore, WithinStages DEF Owes
<1>11. <<RestoreStep>>_vars =>
         /\ Owes(Within0) => ~deferred'
         /\ Owes(Within1) => ~deferred' \/ Owes(Within0)'
         /\ Owes(Within2) => ~deferred' \/ Owes(Within1)'
         /\ Owes(Within3) => ~deferred' \/ Owes(Within2)'
         /\ Owes(Within4) => ~deferred' \/ Owes(Within3)'
         /\ Owes(Within5) => ~deferred' \/ Owes(Within4)'
         /\ Owes(Within6) => ~deferred' \/ Owes(Within5)'
         /\ Owes(Within7) => ~deferred' \/ Owes(Within6)'
  BY DownMoves DEF Owes
<1>12. QED
  BY <1>1, <1>2, <1>3, <1>4, <1>5, <1>6, <1>7, <1>8, <1>9, <1>10, <1>11, PTL
     DEF Spec, Fairness

\* An app that was stopped for a restore is started again, or its start is refused or
\* fails, on every path of Restore: any names, zips and faults.  The hypothesis, that no
\* stage blocks, is the invariant the run checks.
THEOREM TriedTheorem == Spec /\ []RestoreGoesOn => RestartIsTried
<1>1. OwesRestart => (deferred => Owes(Within7))
  BY DEF OwesRestart, Owes
<1>2. QED
  BY <1>1, StageLeft, OwesTheorem, PTL DEF RestartIsTried
=============================================================================
