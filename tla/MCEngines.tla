------------------------------ MODULE MCEngines ------------------------------
(* Engines with three stamps.                                                *)
EXTENDS Engines
=============================================================================
