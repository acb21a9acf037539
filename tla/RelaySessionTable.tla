------------------------- MODULE RelaySessionTable -------------------------
(***************************************************************************)
(* The session table of the relay (RelaySessionTable in                    *)
(* server/relay/src/lib.rs) as operators on a table value: every operator  *)
(* is what one method does while it holds the mutex around the map.  The   *)
(* table maps a session to its record; Vacant stands for "not in the map". *)
(*                                                                         *)
(* Time is abstracted to one flag per record: "expired" says that          *)
(* expires_at has passed.                                                  *)
(***************************************************************************)
EXTENDS FiniteSets, Integers

CONSTANTS
    Conn,           \* connection ids, never reused (next_connection_id)
    Session,        \* session ids
    Person,         \* participant ids
    Auth,           \* session authentication values
    NoConn, NoPerson, NoAuth,
    MaxSessions,    \* RelayConfig::max_sessions
    MaxConnections  \* RelayConfig::max_connections

ASSUME ConnAssumption == NoConn \notin Conn /\ IsFiniteSet(Conn)
ASSUME PersonAssumption == NoPerson \notin Person
ASSUME AuthAssumption == NoAuth \notin Auth
ASSUME SessionAssumption == IsFiniteSet(Session)
ASSUME LimitAssumption == MaxSessions \in Nat \ {0} /\ MaxConnections \in Nat \ {0}

Role == {"Host", "Controller"}

SessionRecord ==
    [auth    : Auth \cup {NoAuth},
     holder  : [Role -> Conn \cup {NoConn}],
     person  : [Role -> Person \cup {NoPerson}],
     expired : BOOLEAN]

Vacant ==
    [auth    |-> NoAuth,
     holder  |-> [r \in Role |-> NoConn],
     person  |-> [r \in Role |-> NoPerson],
     expired |-> FALSE]

Known(t) == {s \in Session : t[s] # Vacant}

\* active_connection_count counts these pairs.
Attached(t) == {p \in Session \X Role : t[p[1]].holder[p[2]] # NoConn}

\* The connections a set of sessions keeps attached.
HoldersOf(t, S) == {t[p[1]].holder[p[2]] : p \in {q \in Attached(t) : q[1] \in S}}

\* sessions.retain(|_, session| session.expires_at > now)
Unexpired(t) == [s \in Session |-> IF t[s].expired THEN Vacant ELSE t[s]]

Expired(t) == {s \in Session : t[s].expired}

(***************************************************************************)
(* attach_role, on a table that already dropped its expired records: the   *)
(* conditions under which it returns Ok, and the record it then writes.    *)
(* The relay always passes Some(authentication) and Some(participant_id).  *)
(***************************************************************************)
\* Fault: the session limit compared with <= .
OpensPastLimit(t, j) ==
    /\ t[j.session] = Vacant
    /\ j.role = "Host"
    /\ Cardinality(Known(t)) <= MaxSessions
    /\ Cardinality(Attached(t)) < MaxConnections

Opens(t, j) ==
    /\ t[j.session] = Vacant
    /\ j.role = "Host"
    /\ Cardinality(Known(t)) < MaxSessions
    /\ Cardinality(Attached(t)) < MaxConnections

Enters(t, j) ==
    /\ t[j.session] # Vacant
    /\ t[j.session].auth = j.auth
    /\ j.role = "Controller" => t[j.session].holder["Host"] # NoConn
    /\ t[j.session].holder[j.role] = NoConn
    /\ Cardinality(Attached(t)) < MaxConnections

Resumes(t, j) ==
    /\ t[j.session] # Vacant
    /\ t[j.session].auth = j.auth
    /\ j.role = "Controller" => t[j.session].holder["Host"] # NoConn
    /\ t[j.session].holder[j.role] # NoConn
    /\ t[j.session].person[j.role] = j.person

Admits(t, j) == Opens(t, j) \/ Enters(t, j) \/ Resumes(t, j)

AttachRole(t, j, c) ==
    [t EXCEPT ![j.session] =
        [auth    |-> j.auth,
         holder  |-> [t[j.session].holder EXCEPT ![j.role] = c],
         person  |-> [t[j.session].person EXCEPT ![j.role] = j.person],
         expired |-> FALSE]]

(***************************************************************************)
(* detach: an expired record goes as a whole, whoever is still in it;      *)
(* otherwise only the role the connection itself holds is cleared, and     *)
(* the record goes with its last holder.                                   *)
(***************************************************************************)
Without(record, c) ==
    [record EXCEPT
        !.holder = [r \in Role |-> IF record.holder[r] = c THEN NoConn ELSE record.holder[r]],
        !.person = [r \in Role |-> IF record.holder[r] = c THEN NoPerson ELSE record.person[r]]]

Deserted(record) == \A r \in Role : record.holder[r] = NoConn

Detach(t, s, c) ==
    [t EXCEPT ![s] =
        IF t[s].expired \/ Deserted(Without(t[s], c)) THEN Vacant ELSE Without(t[s], c)]
=============================================================================
