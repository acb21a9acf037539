----------------------------- MODULE JoinedTasks -----------------------------
(***************************************************************************)
(* The tasks of joined connections as their stream and media workers see   *)
(* them: how a task gets its session and role, serves, leaves and departs, *)
(* in the steps RoleSlots allows.  RelayForwarding and RelayDatagrams add  *)
(* the workers.                                                            *)
(***************************************************************************)
EXTENDS RoleSlots

CONSTANT NoPlace

\* What the "no such thing" values are: none of the things.
JoinedConstants == NoConn \notin Conn /\ NoPlace \notin Session \X Role

VARIABLES
    place,      \* session and role a joined connection's task runs with
    task        \* how far the task of each connection is

joined == <<slots, place, task>>

Phase == {"none", "joining", "serving", "left"}

JoinedType ==
    /\ SlotsType
    /\ place \in [Conn -> (Session \X Role) \cup {NoPlace}]
    /\ task \in [Conn -> Phase]

JoinedInit ==
    /\ SlotsInit
    /\ place = [c \in Conn |-> NoPlace]
    /\ task = [c \in Conn |-> "none"]

\* The first half of peer_with_id, from connection c.
Peer(c) == IF place[c] = NoPlace THEN NoConn ELSE PeerOf(c, place[c])

\* The loop of handle_connection runs; what the transport already received is
\* read even when it is closed.
Serving(c) == task[c] = "serving"

JoinRole(c, s, r) ==
    /\ Take(c, s, r)
    /\ place' = [place EXCEPT ![c] = <<s, r>>]
    /\ task' = [task EXCEPT ![c] = "joining"]

\* A join lists its connection in place of the one it displaced, if any.
JoinListed(c, d) ==
    /\ task[c] = "joining"
    /\ d = NoConn \/ (d \in listed /\ place[d] = place[c])
    /\ List(c, {d})
    /\ task' = [task EXCEPT ![c] = "serving"]
    /\ UNCHANGED place

\* The peer goes away, or a task closes it.
Disconnect(c) ==
    /\ task[c] # "none" /\ c \notin closed
    /\ Close({c})
    /\ UNCHANGED <<place, task>>

\* The transport is closed: the loop of handle_connection breaks.  Before a
\* connection asks for anything, its task may still be at its join reply: when
\* that fails, the task leaves even if the transport is open, and closes it only
\* after the departure.
Leave(c, asked) ==
    /\ task[c] = "serving"
    /\ asked => c \in closed
    /\ BeginDeparture(c)
    /\ task' = [task EXCEPT ![c] = "left"]
    /\ UNCHANGED place

\* remove_connection, in the order of its steps.
Depart(c) ==
    /\ task[c] = "left"
    /\ \/ c \in Holding /\ Vacate(c)
       \/ c \in listed \ Holding /\ Delist({c}) /\ UNCHANGED closed
    /\ UNCHANGED <<place, task>>

SessionExpires(s) ==
    /\ \E r \in Role : holder[s][r] # NoConn
    /\ Expire(s)
    /\ UNCHANGED <<place, task>>

\* A sweep delists and closes at once the connections of an expired session.
Sweep(s) ==
    LET gone == {c \in listed \ Holding : place[c] # NoPlace /\ place[c][1] = s}
    IN  /\ gone # {}
        /\ listed' = listed \ gone
        /\ closed' = closed \cup gone
        /\ UNCHANGED <<holder, fresh, leaving, place, task>>

\* Everything but Leave, which stops the workers.
Environment ==
    \/ \E c \in Conn :
          \/ Disconnect(c)
          \/ Depart(c)
          \/ \E s \in Session, r \in Role : JoinRole(c, s, r)
          \/ \E d \in Conn \cup {NoConn} : JoinListed(c, d)
    \/ \E s \in Session : SessionExpires(s) \/ Sweep(s)
=============================================================================
