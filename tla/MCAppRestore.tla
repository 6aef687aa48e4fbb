---------------------------- MODULE MCAppRestore ----------------------------
(* AppRestore with three names: the backup being restored, a safety archive  *)
(* or undo of the running restore, and a third that is a zip or one more.    *)
EXTENDS AppRestore
=============================================================================
