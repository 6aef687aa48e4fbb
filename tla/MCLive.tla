-------------------------------- MODULE MCLive --------------------------------
(* Live with two workers, one page and a queue of two.                       *)
EXTENDS Live
=============================================================================
