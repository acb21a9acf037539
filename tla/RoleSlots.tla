------------------------------ MODULE RoleSlots ------------------------------
(***************************************************************************)
(* What the relay promises the tasks that forward traffic: how the roles   *)
(* of its sessions, the participants map and the open connections may      *)
(* change under them.  RelayMembership implements this specification       *)
(* (RelayMembershipRefinement); JoinedTasks is what the workers of a joined *)
(* connection see of it.                                                   *)
(*                                                                         *)
(* A role of an expired session has no holder here: peer_connection finds  *)
(* nobody in it.                                                           *)
(***************************************************************************)
EXTENDS FiniteSets

CONSTANTS Conn, Session, NoConn

VARIABLES
    holder,     \* the connection in each role of each unexpired session
    listed,     \* keys of the participants map
    closed,     \* connections whose transport is closed
    fresh,      \* connections that may still join
    leaving     \* connections whose departure is under way

slots == <<holder, listed, closed, fresh, leaving>>

Role == {"Host", "Controller"}

Other(r) == IF r = "Host" THEN "Controller" ELSE "Host"

Holding == {c \in Conn : \E s \in Session, r \in Role : holder[s][r] = c}

SlotsType ==
    /\ holder \in [Session -> [Role -> Conn \cup {NoConn}]]
    /\ listed \subseteq Conn
    /\ closed \subseteq Conn
    /\ fresh \subseteq Conn
    /\ leaving \subseteq Conn

SlotsInit ==
    /\ holder = [s \in Session |-> [r \in Role |-> NoConn]]
    /\ listed = {}
    /\ closed = {}
    /\ fresh = Conn
    /\ leaving = {}

\* A join takes a role, from its previous holder if there is one; a controller
\* needs a host.
Take(c, s, r) ==
    /\ c \in fresh
    /\ r = "Controller" => holder[s]["Host"] # NoConn
    /\ holder' = [holder EXCEPT ![s][r] = c]
    /\ fresh' = fresh \ {c}
    /\ UNCHANGED <<listed, closed, leaving>>

\* The join lists its connection, and takes out the one it displaced.
List(c, displaced) ==
    /\ c \notin fresh \cup leaving
    /\ displaced \cap Holding = {}
    /\ listed' = (listed \ displaced) \cup {c}
    /\ UNCHANGED <<holder, closed, fresh, leaving>>

\* A connection that ends before it joins.
Spend(c) ==
    /\ c \in fresh
    /\ fresh' = fresh \ {c}
    /\ closed' \in {closed, closed \cup {c}}
    /\ UNCHANGED <<holder, listed, leaving>>

Close(C) ==
    /\ closed' = closed \cup C
    /\ UNCHANGED <<holder, listed, fresh, leaving>>

\* The task of a connection is past its join and its loop.  The transport may be
\* open: one whose join failed is closed only after the departure.
BeginDeparture(c) ==
    /\ c \notin fresh
    /\ leaving' = leaving \cup {c}
    /\ UNCHANGED <<holder, listed, closed, fresh>>

\* A role is vacated by the departure of its own connection only.
Vacate(c) ==
    /\ c \in leaving
    /\ holder' = [s \in Session |-> [r \in Role |->
                     IF holder[s][r] = c THEN NoConn ELSE holder[s][r]]]
    /\ UNCHANGED <<listed, closed, fresh, leaving>>

\* When it is over, nothing of the connection is left.
EndDeparture(c) ==
    /\ c \notin listed \cup Holding
    /\ leaving' = leaving \ {c}
    /\ UNCHANGED <<holder, listed, closed, fresh>>

Expire(s) ==
    /\ holder' = [holder EXCEPT ![s] = [r \in Role |-> NoConn]]
    /\ UNCHANGED <<listed, closed, fresh, leaving>>

\* Only connections without a role leave the map; a sweep closes them too.
Delist(C) ==
    /\ C \cap Holding = {}
    /\ listed' = listed \ C
    /\ closed' \in {closed, closed \cup (C \cap listed)}
    /\ UNCHANGED <<holder, fresh, leaving>>

SlotsNext ==
    \/ \E C \in SUBSET Conn : Close(C)
    \/ \E c \in leaving : Vacate(c) \/ EndDeparture(c)
    \/ \E c \in Conn : BeginDeparture(c)
    \/ \E c \in fresh : Spend(c) \/ \E s \in Session, r \in Role : Take(c, s, r)
    \/ \E c \in Conn, d \in Conn \cup {NoConn} : List(c, {d})
    \/ \E C \in SUBSET listed : Delist(C)
    \/ \E s \in Session : Expire(s)

SlotsSpec == SlotsInit /\ [][SlotsNext]_slots
-----------------------------------------------------------------------------
(* The first half of peer_with_id: the connection in the other role of the  *)
(* session, for a connection that is still in its own.                      *)
PeerOf(c, place) ==
    IF holder[place[1]][place[2]] = c THEN holder[place[1]][Other(place[2])] ELSE NoConn
=============================================================================
