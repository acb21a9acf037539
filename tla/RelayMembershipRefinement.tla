---------------------- MODULE RelayMembershipRefinement ----------------------
(***************************************************************************)
(* RelayMembership implements RoleSlots.  A role of an expired session is  *)
(* empty in the abstraction, and a connection is fresh until its join      *)
(* attaches it or its task ends.                                           *)
(***************************************************************************)
EXTENDS RelayMembership

LiveHolder ==
    [s \in Session |-> [r \in Role |->
        IF sessions[s].expired THEN NoConn ELSE sessions[s].holder[r]]]

Early == {"idle", "handshake", "waiting", "validate", "attach"}
FreshConn == {c \in Conn : pc[c] \in Early}
Departing == {c \in Conn : pc[c] \in {"leaving"} \cup Removing}

Slots == INSTANCE RoleSlots WITH
    holder <- LiveHolder, listed <- participants, closed <- closed, fresh <- FreshConn,
    leaving <- Departing

(* Every step of the detailed relay is a step of RoleSlots or leaves its     *)
(* variables alone: a role is only ever handed to a connection that never    *)
(* had one, a holder is never taken out of the participants map, a role is   *)
(* vacated only by the departure of its own connection - not by the late one *)
(* of a connection it displaced - and no departure ends before the           *)
(* connection is out of both maps.                                           *)
ImplementsRoleSlots == Slots!SlotsSpec
=============================================================================
