-------------------------- MODULE MCRelayForwarding --------------------------
(* RelayForwarding on small instances; connections are interchangeable, and  *)
(* so are streams.                                                           *)
EXTENDS RelayForwarding, TLC

ConnStreamSymmetry == Permutations(Conn) \cup Permutations(Stream)
=============================================================================
