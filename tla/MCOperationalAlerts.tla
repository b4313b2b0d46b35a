------------------------ MODULE MCOperationalAlerts ------------------------
(***************************************************************************)
(* OperationalAlerts over the cleanup of one artifact.                     *)
(***************************************************************************)
EXTENDS OperationalAlerts, TLC

Alike == Permutations(Cleaners) \cup Permutations(Senders)
=============================================================================
