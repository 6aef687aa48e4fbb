------------------------------ MODULE Transform ------------------------------
(***************************************************************************)
(* The rewrites of a store's compose (Transform in                          *)
(* internal/envinject/envinject.go): binds under the data root become       *)
(* references to it, and the main service joins the deployment's network by *)
(* reference.                                                               *)
(*                                                                          *)
(* A compose file has for each service the networks it lists and how its    *)
(* binds are spelled, and for each declared network its kind: "private",    *)
(* "joined" (external, without a name), "key" (external, the name being the *)
(* key, as older versions wrote it), "reference" (external, by a variable)  *)
(* or "named" (external, by another name).                                  *)
(***************************************************************************)
EXTENDS Integers, Sequences, SequencesExt

AppNetKey == "appnet"

\* refDataRoot: the store's /DATA and this deployment's own path are recognised.
RefDataRoot(src) == IF src \in {"/DATA", "host"} THEN "${DATA_ROOT}" ELSE src

\* Mutant of StaleNetworks: any external network is taken for ours.
StaleExternal(declared) ==
  {k \in DOMAIN declared \ {AppNetKey} : declared[k] # "private"}

\* staleNetworks: what an older version attached.
StaleNetworks(declared) ==
  {k \in DOMAIN declared \ {AppNetKey} : declared[k] \in {"key", "reference"}}

Declare(declared, key, kind) ==
  [k \in DOMAIN declared \cup {key} |-> IF k = key THEN kind ELSE declared[k]]

\* attachExternalNetwork and detachNetwork.  A list that is left empty goes.
Attach(nets, main) ==
  LET stale == StaleNetworks(nets.declared)
      declared == Restrict(nets.declared, DOMAIN nets.declared \ stale)
  IN [declared |-> Declare(declared, AppNetKey, "reference"),
      lists |-> [s \in DOMAIN nets.lists |->
                   (nets.lists[s] \ stale) \cup IF s = main THEN {AppNetKey} ELSE {}]]

\* Transform.
Transformed(nets, binds, main, appnet) ==
  [nets |-> IF appnet THEN Attach(nets, main) ELSE nets,
   binds |-> [s \in DOMAIN binds |-> {RefDataRoot(src) : src \in binds[s]}]]

-----------------------------------------------------------------------------
(* What a compose file that follows its deployment is like *)

\* The main service is on the deployment's network, no service on one that is not declared
\* or that an older version attached, and every network of the store's is still there.
FollowsDeployment(nets, store, main) ==
  /\ AppNetKey \in nets.lists[main] /\ nets.declared[AppNetKey] = "reference"
  /\ \A s \in DOMAIN nets.lists : nets.lists[s] \subseteq DOMAIN nets.declared
  /\ \A k \in DOMAIN nets.declared \ {AppNetKey} : nets.declared[k] \notin {"key", "reference"}
  /\ DOMAIN store.declared \subseteq DOMAIN nets.declared
==============================================================================
