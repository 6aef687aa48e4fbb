---------------------------- MODULE EngineChoice -----------------------------
(***************************************************************************)
(* The backup configuration's choice of an engine, and the two Sets of       *)
(* engines that follow it (internal/server/backupengine.go): the server's,   *)
(* which the registry backs apps up with, and the one the scheduler was made *)
(* with, by which it backs the user's data up and sets what is to be kept    *)
(* (internal/backup/schedule.go).  They are one Set until a choice is        *)
(* cleared.                                                                  *)
(***************************************************************************)
EXTENDS Integers

CONSTANT Changes \* requests in flight that change the configuration

Engine == {"local", "kopia"}
Choice == Engine \cup {"none"}

VARIABLES
  conf,    \* the configuration's engine, in memory and on disk
  writer,  \* the engine new backups go to, in the server's and the registry's Set
  nightly, \* the same in the scheduler's Set
  oneSet,  \* the two are one Set
  asked,   \* asked[r]: the choice that request r has stored and not applied
  crossed  \* a choice was stored before another was applied

engineVars == <<conf, writer, nightly, oneSet, asked, crossed>>

Applied == \A r \in Changes : asked[r] = "nothing"

\* buildEngines: the override, or kopia if it is connected.
Built(c) == IF c = "none" THEN Engine ELSE {c}

EngineInit ==
  /\ conf \in Choice
  /\ writer \in Built(conf) /\ nightly = writer /\ oneSet = TRUE
  /\ asked = [r \in Changes |-> "nothing"] /\ crossed = FALSE

\* handlePutBackupConfig stores the configuration, or fails and changes nothing ...
PutConfig(r) ==
  /\ asked[r] = "nothing"
  /\ conf' \in Choice
  /\ asked' = [asked EXCEPT ![r] = conf']
  /\ crossed' = (crossed \/ ~Applied)
  /\ UNCHANGED <<writer, nightly, oneSet>>

\* ... then sets the writer of the server's Set,
SetWriter(e) ==
  /\ writer' = e
  /\ nightly' = IF oneSet THEN e ELSE nightly
  /\ UNCHANGED oneSet

\* or, when the choice is cleared, builds the server and the registry another.
Rebuild ==
  /\ writer' \in Built(conf) /\ oneSet' = FALSE
  /\ UNCHANGED nightly

\* Mutant of ApplyConfig: what is stored waits for a restart.
ApplyConfigLater(r) ==
  /\ asked[r] # "nothing"
  /\ asked' = [asked EXCEPT ![r] = "nothing"]
  /\ UNCHANGED <<conf, writer, nightly, oneSet, crossed>>

ApplyConfig(r) ==
  /\ asked[r] # "nothing"
  /\ asked' = [asked EXCEPT ![r] = "nothing"]
  /\ \/ asked[r] # "none" /\ SetWriter(asked[r])
     \/ asked[r] = "none" /\ Rebuild
  /\ UNCHANGED <<conf, crossed>>

\* Maison is killed and starts again (New): one Set is built for all.
Reboot ==
  /\ writer' \in Built(conf) /\ nightly' = writer' /\ oneSet' = TRUE
  /\ asked' = [r \in Changes |-> "nothing"] /\ crossed' = FALSE
  /\ UNCHANGED conf

EngineNext == Reboot \/ \E r \in Changes : PutConfig(r) \/ ApplyConfig(r)

EngineSpec == EngineInit /\ [][EngineNext]_engineVars

-----------------------------------------------------------------------------
(* Properties *)

\* An app's backups go where the stored configuration says, by hand and at night
\* ("silently writing backups somewhere other than where the user asked"), whatever
\* requests overlap and whenever Maison is killed, unless two of them store a choice
\* before either is applied; and the user's data with them, until a choice is cleared.
WritesWhereChosen ==
  Applied /\ ~crossed /\ conf # "none" => writer = conf /\ (oneSet => nightly = conf)

\* The same of the user's data, also after that.
UserDataWhereChosen == Applied /\ ~crossed /\ conf # "none" => nightly = conf
=============================================================================
