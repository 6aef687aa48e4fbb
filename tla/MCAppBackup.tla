---------------------------- MODULE MCAppBackup ----------------------------
(* One backup among operators, faults and a crash; and what its passes do to  *)
(* three names, of which the second is the first with ".partial" added.  The   *)
(* two modules share no variable, so that it is enough to look at a step of    *)
(* either while the other has not begun.                                      *)
EXTENDS AppBackup, Mirror

MCPartial == <<2, 0, 0>>

MirrorRests == MirrorInit /\ \A i \in Names : src[i] = 1
BackupRests == Init /\ up = {} /\ \A j \in Jobs : kind[j] = "folder"

MCNext ==
  \/ MirrorRests /\ Next /\ UNCHANGED mirrorVars
  \/ BackupRests /\ MirrorNext /\ UNCHANGED vars

MCInit == Init /\ MirrorInit

MCSpec == MCInit /\ [][MCNext]_<<vars, mirrorVars>> /\ Fairness
=============================================================================
