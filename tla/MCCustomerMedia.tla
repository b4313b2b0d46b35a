-------------------------- MODULE MCCustomerMedia --------------------------
(***************************************************************************)
(* CustomerMedia for one upload that one revision of one session uses.     *)
(***************************************************************************)
EXTENDS CustomerMedia, TLC

CONSTANTS u1, r1, s1, q1

InSession == [r \in Revisions |-> s1]
UsesUpload == [r \in Revisions |-> {u1}]
OfUpload == [q \in Requests |-> u1]

\* A shopper's promotion and an admin's do the same to the rows and objects.
Alike ==
  Permutations(Promoters) \cup Permutations(Provers) \cup Permutations(Erasers)
=============================================================================
