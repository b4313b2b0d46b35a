------------------------- MODULE MCStoreConnection -------------------------
(***************************************************************************)
(* StoreConnection for two attempts, two requests at once and as many      *)
(* rotations as there are keys and credentials.                            *)
(***************************************************************************)
EXTENDS StoreConnection, TLC

Alike ==
  Permutations(Attempts) \cup Permutations(Requests) \cup Permutations(Credentials)
    \cup Permutations(Keys)
=============================================================================
