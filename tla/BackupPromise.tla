--------------------------- MODULE BackupPromise ---------------------------
(***************************************************************************)
(* What a backup of one app promises, whichever engine stores it           *)
(* (the contract of apps.Provider and Registry.BackupWith, with the storage *)
(* and the stop/restart choreography hidden).                              *)
(*                                                                         *)
(* The app folder is a counter of generations: every change of the folder  *)
(* is a new one.  A backup becomes listable in one step, with files of one *)
(* state the folder really had between the moment its stamp names and now: *)
(* all of them, or, when the backup succeeds at that very moment, perhaps  *)
(* Part of them (a zip whose closing failed unnoticed).  What is listed    *)
(* never changes afterwards, but files are taken away from it until none   *)
(* is left; what once lacks files never has them again.  A mixture of      *)
(* several states (Torn) may be listed only for a backup that was          *)
(* disturbed: something ran the app while its last pass was reading.  A    *)
(* backup that has failed is listed only if its engine outlived it.        *)
(***************************************************************************)
EXTENDS Naturals

CONSTANTS
  Jobs,   \* backups of the app, one per stamp
  None,   \* nothing is listed under the stamp
  Part,   \* contents some of whose files are missing or cut short
  Torn    \* contents that are no state the folder ever had

VARIABLES
  gen,        \* generation of the app folder
  stamp,      \* stamp[j]: the folder's generation when j took its stamp
  listed,     \* listed[j]: what a user is offered for restore under j's stamp
  outcome,    \* outcome[j]: idle, running, then ok, failed or lost (a crash)
  outlived,   \* outlived[j]: the engine went on when j was over
  disturbed   \* disturbed[j]: the app may have run during j's last pass

vars == <<gen, stamp, listed, outcome, outlived, disturbed>>

Init ==
  /\ gen = 0
  /\ stamp = [j \in Jobs |-> 0]
  /\ listed = [j \in Jobs |-> None]
  /\ outcome = [j \in Jobs |-> "idle"]
  /\ outlived = [j \in Jobs |-> FALSE]
  /\ disturbed = [j \in Jobs |-> FALSE]

(***************************************************************************)
(* One job's part of a step.  Several jobs may move together: a crash ends *)
(* them all, and starting the app disturbs every backup in its last pass.  *)
(***************************************************************************)
Instants(j) == stamp[j] .. gen

StampStep(j) ==
  \/ stamp'[j] = stamp[j]
  \/ outcome[j] = "idle" /\ outcome'[j] = "running" /\ stamp'[j] = gen

\* What is on offer is kept, or taken away, whole or file by file.
TakenAway(j) == listed[j] # None /\ listed'[j] \in {None, Part}

\* A backup comes on offer, made of one state of the folder.
Offered(j) ==
  /\ listed[j] = None
  /\ outcome[j] \in {"running", "lost"} \/ outlived[j]
  /\ \/ listed'[j] \in Instants(j)
     \/ listed'[j] = Torn /\ disturbed[j]
     \/ listed'[j] = Part /\ outcome[j] = "running" /\ outcome'[j] = "ok"

ListedStep(j) == listed'[j] = listed[j] \/ TakenAway(j) \/ Offered(j)

OutcomeStep(j) ==
  \/ outcome'[j] = outcome[j]
  \/ outcome[j] = "idle" /\ outcome'[j] = "running"
  \/ outcome[j] = "running" /\ outcome'[j] = "ok" /\ listed'[j] # None
  \/ outcome[j] = "running" /\ outcome'[j] \in {"failed", "lost"}

Next ==
  /\ gen' \in {gen, gen + 1}
  /\ \A j \in Jobs :
       /\ StampStep(j)
       /\ ListedStep(j)
       /\ OutcomeStep(j)
       /\ outlived[j] => outlived'[j]
       /\ disturbed[j] => disturbed'[j]

Spec == Init /\ [][Next]_vars
=============================================================================
