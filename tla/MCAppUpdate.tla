----------------------------- MODULE MCAppUpdate -----------------------------
(* AppUpdate with one request, which is made again whenever it has ended.    *)
(* Three archives let a rollback point and the safety archive of its restore *)
(* lie beside one of an earlier update.                                      *)
EXTENDS AppUpdate
=============================================================================
