------------------------- MODULE MCRelayMembership -------------------------
(***************************************************************************)
(* RelayMembership, and its implementation of RoleSlots, on small          *)
(* instances.  The elements of each constant set are interchangeable.      *)
(* (NoRequest names one session, so sessions are not permuted.)            *)
(***************************************************************************)
EXTENDS RelayMembershipRefinement, TLC

ConnPersonSymmetry == Permutations(Conn) \cup Permutations(Person)
ConnAuthSymmetry == Permutations(Conn) \cup Permutations(Auth)
=============================================================================
