------------------------------ MODULE MCSettings ------------------------------
(* Two requests in flight that change settings, with a default source and      *)
(* another; and three that change the engine.  The two modules share no         *)
(* variable, so that it is enough to look at a step of either while the other   *)
(* has not begun.                                                              *)
EXTENDS Settings, EngineChoice, TLC

Symmetry == Permutations(Reqs) \cup Permutations(Changes)

EngineRests == EngineInit /\ conf = "none" /\ writer = "local"

MCNext ==
  \/ EngineRests /\ Next /\ UNCHANGED engineVars
  \/ Init /\ EngineNext /\ UNCHANGED vars

MCInit == Init /\ EngineInit

MCSpec == MCInit /\ [][MCNext]_<<vars, engineVars>>
===============================================================================
