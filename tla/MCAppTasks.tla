----------------------------- MODULE MCAppTasks -----------------------------
(* AppTasks with three requests: two that overlap and one that comes before  *)
(* (an archive to install from) or after (a retry).                          *)
EXTENDS AppTasks, TLC

AnyOrder == Permutations(Tasks)
=============================================================================
