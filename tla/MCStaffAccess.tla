--------------------------- MODULE MCStaffAccess ---------------------------
(***************************************************************************)
(* StaffAccess for one user with three sessions and two requests at once.  *)
(***************************************************************************)
EXTENDS StaffAccess, TLC

Alike ==
  Permutations(Sessions) \cup Permutations(Requests) \cup Permutations(Challenges)
    \cup Permutations(Passkeys)
=============================================================================
