--------------------------- MODULE RelayMembership ---------------------------
(***************************************************************************)
(* Admission, join, replacement, departure, expiry and shutdown of the     *)
(* connections of one relay process (server/relay/src/lib.rs).             *)
(*                                                                         *)
(* Each connection is served by a task of its own.  Its join and its       *)
(* departure each update three maps (sessions, directory, participants)    *)
(* one after the other while they hold the membership mutex; the sweep of  *)
(* expired sessions does the same from the accept loop.  The maps have     *)
(* locks of their own, so a lookup reads them between two of these steps.  *)
(***************************************************************************)
EXTENDS RelaySessionTable

CONSTANTS
    Device,             \* device ids of the directory
    NoDevice,
    Sweeper,            \* the accept loop, as an owner of the membership mutex
    MaxRejections       \* MAX_ADMISSION_REJECTION_TASKS

ASSUME SweeperAssumption == Sweeper \notin Conn /\ Sweeper # NoConn
ASSUME DeviceAssumption == NoDevice \notin Device
ASSUME RejectionAssumption == MaxRejections \in Nat

VARIABLES
    sessions,       \* RelaySessionTable::sessions
    participants,   \* keys of RelayState::participants
    directory,      \* RelayState::directory
    membership,     \* owner of RelayState::membership, NoConn when it is free
    active,         \* RelayState::active_connections
    rejecting,      \* admission_rejection_slots in use
    stopping,       \* RelayServer::stopping
    pc,             \* where the task of each connection is
    request,        \* the RelayJoin the task read
    replaced,       \* the connection its join displaced and has yet to close
    closed,         \* connections whose transport is closed
    sweep,          \* where the sweep of the accept loop is
    due             \* connections of the sessions this sweep removed

tables == <<sessions, participants, directory>>
loop   == <<active, rejecting, stopping, sweep, due>>
tasks  == <<pc, request, replaced, closed>>
vars   == <<tables, membership, loop, tasks>>

Request ==
    [session : Session, role : Role, auth : Auth, person : Person,
     device : Device \cup {NoDevice}, persistent : BOOLEAN]

\* Only a host registers a device (with_directory_registration, decode_relay_join).
JoinRequest ==
    {j \in Request : /\ j.role = "Controller" => j.device = NoDevice
                     /\ j.device = NoDevice => ~j.persistent}

NoRequest ==
    [session |-> CHOOSE s \in Session : TRUE, role |-> "Host", auth |-> NoAuth,
     person |-> NoPerson, device |-> NoDevice, persistent |-> FALSE]

\* "never" is the ttl_s = 0 entry, whose expires_at is None.
DirectoryRecord ==
    [person : Person, conn : Conn, expiry : {"never", "pending", "passed"}]

NoRecord == [person |-> NoPerson, conn |-> NoConn, expiry |-> "never"]

\* directory.retain(expires_at is none or in the future)
Retained(d) == [x \in Device |-> IF d[x].expiry = "passed" THEN NoRecord ELSE d[x]]

(***************************************************************************)
(* The task of a connection: its program points in the order of the code.  *)
(* "waiting" is accept_join's loop over requests; "validate" to "enlist"   *)
(* run inside attach_participant, "detach" to "retain" inside              *)
(* remove_connection, both under the membership mutex.                     *)
(***************************************************************************)
Attaching == {"validate", "attach", "publish", "enlist"}
Guarded   == {"close", "ack", "joined", "leaving"}   \* a ParticipantGuard exists
Removing  == {"detach", "delist", "retain"}
PC == {"idle", "handshake", "waiting", "refused", "release", "gone"}
          \cup Attaching \cup Guarded \cup Removing

\* A task between its admission and the drop of its AdmissionGuard.
Admitted(c) == pc[c] \notin {"idle", "gone"}

TypeOK ==
    /\ sessions \in [Session -> SessionRecord]
    /\ participants \subseteq Conn
    /\ directory \in [Device -> DirectoryRecord \cup {NoRecord}]
    /\ membership \in Conn \cup {NoConn, Sweeper}
    /\ active \in Nat
    /\ rejecting \in 0..MaxRejections
    /\ stopping \in BOOLEAN
    /\ pc \in [Conn -> PC]
    /\ request \in [Conn -> JoinRequest \cup {NoRequest}]
    /\ replaced \in [Conn -> Conn \cup {NoConn}]
    /\ closed \subseteq Conn
    /\ sweep \in {"idle", "participants", "directory"}
    /\ due \subseteq Conn

Init ==
    /\ sessions = [s \in Session |-> Vacant]
    /\ participants = {}
    /\ directory = [d \in Device |-> NoRecord]
    /\ membership = NoConn
    /\ active = 0
    /\ rejecting = 0
    /\ stopping = FALSE
    /\ pc = [c \in Conn |-> "idle"]
    /\ request = [c \in Conn |-> NoRequest]
    /\ replaced = [c \in Conn |-> NoConn]
    /\ closed = {}
    /\ sweep = "idle"
    /\ due = {}

Goto(c, point) == pc' = [pc EXCEPT ![c] = point]

-----------------------------------------------------------------------------
(* The accept loop: one task, so it does not accept while it sweeps. *)

Accept(c) ==
    /\ ~stopping /\ sweep = "idle"
    /\ active < MaxConnections
    /\ pc[c] = "idle"
    /\ active' = active + 1
    /\ Goto(c, "handshake")
    /\ UNCHANGED <<tables, membership, rejecting, stopping, sweep, due, request, replaced, closed>>

\* Past the admission limit a bounded number of peers get a stable close code;
\* the others are refused without a task, which changes no state.
Reject ==
    /\ ~stopping /\ sweep = "idle"
    /\ active >= MaxConnections
    /\ rejecting < MaxRejections
    /\ rejecting' = rejecting + 1
    /\ UNCHANGED <<tables, membership, active, stopping, sweep, due, tasks>>

RejectionEnds ==
    /\ rejecting > 0
    /\ rejecting' = rejecting - 1
    /\ UNCHANGED <<tables, membership, active, stopping, sweep, due, tasks>>

SweepSessions ==
    /\ ~stopping /\ sweep = "idle"
    /\ membership = NoConn
    /\ membership' = Sweeper
    /\ sessions' = Unexpired(sessions)
    /\ due' = HoldersOf(sessions, Expired(sessions))
    /\ sweep' = "participants"
    /\ UNCHANGED <<participants, directory, active, rejecting, stopping, tasks>>

\* Fault: the sweep forgets to close what it takes out of the map.
SweepParticipantsSilently ==
    /\ sweep = "participants"
    /\ participants' = participants \ due
    /\ due' = {}
    /\ sweep' = "directory"
    /\ UNCHANGED <<sessions, directory, membership, active, rejecting, stopping, tasks>>

SweepParticipants ==
    /\ sweep = "participants"
    /\ participants' = participants \ due
    /\ closed' = closed \cup (participants \cap due)
    /\ due' = {}
    /\ sweep' = "directory"
    /\ UNCHANGED <<sessions, directory, membership, active, rejecting, stopping,
                   pc, request, replaced>>

SweepDirectory ==
    /\ sweep = "directory"
    /\ directory' = Retained(directory)
    /\ membership' = NoConn
    /\ sweep' = "idle"
    /\ UNCHANGED <<sessions, participants, active, rejecting, stopping, due, tasks>>

\* Fault: shutdown stops accepting but leaves the open transports alone.
StopAccepting ==
    /\ ~stopping
    /\ stopping' = TRUE
    /\ UNCHANGED <<tables, membership, active, rejecting, sweep, due, tasks>>

\* close(): no admission any more, and every transport of the endpoint closes.
Stop ==
    /\ ~stopping
    /\ stopping' = TRUE
    /\ closed' = closed \cup {c \in Conn : Admitted(c)}
    /\ UNCHANGED <<tables, membership, active, rejecting, sweep, due, pc, request, replaced>>

-----------------------------------------------------------------------------
(* The task of connection c, up to its join. *)

Handshake(c) ==
    /\ pc[c] = "handshake"
    /\ c \notin closed
    /\ Goto(c, "waiting")
    /\ UNCHANGED <<tables, membership, loop, request, replaced, closed>>

\* Fault: the reservation is not captured before the task is spawned, so a
\* task that ends without a join does not give it back.
GiveUpUncounted(c) ==
    /\ pc[c] \in {"handshake", "waiting", "refused"}
    /\ Goto(c, "gone")
    /\ closed' = closed \cup {c}
    /\ UNCHANGED <<tables, membership, loop, request, replaced>>

\* A failed handshake, the join deadline, an early datagram, a malformed
\* request, the end of a lookup-only connection or the reply to a refused
\* join: the task returns without a ParticipantGuard and drops the transport.
GiveUp(c) ==
    /\ pc[c] \in {"handshake", "waiting", "refused"}
    /\ Goto(c, "release")
    /\ closed' = closed \cup {c}
    /\ UNCHANGED <<tables, membership, loop, request, replaced>>

\* lookup_directory drops the expired entries it walks over. It takes the
\* directory lock only.
Lookup(c) ==
    /\ pc[c] = "waiting"
    /\ c \notin closed
    /\ directory' = Retained(directory)
    /\ UNCHANGED <<sessions, participants, membership, loop, tasks>>

LockForAttach(c, j) ==
    /\ pc[c] = "waiting"
    /\ c \notin closed
    /\ membership = NoConn
    /\ membership' = c
    /\ request' = [request EXCEPT ![c] = j]
    /\ Goto(c, IF j.device = NoDevice THEN "attach" ELSE "validate")
    /\ UNCHANGED <<tables, loop, replaced, closed>>

\* The early return of a failed attach_participant releases the mutex.
Refuse(c) ==
    /\ membership' = NoConn
    /\ Goto(c, "refused")
    /\ request' = [request EXCEPT ![c] = NoRequest]

\* validate_directory_slot
ValidateDirectory(c) ==
    /\ pc[c] = "validate"
    /\ directory' = Retained(directory)
    /\ IF directory'[request[c].device] # NoRecord
          /\ directory'[request[c].device].person # request[c].person
         THEN Refuse(c)
         ELSE /\ Goto(c, "attach")
              /\ UNCHANGED <<membership, request>>
    /\ UNCHANGED <<sessions, participants, loop, replaced, closed>>

AttachSession(c) ==
    LET kept == Unexpired(sessions)
    IN  /\ pc[c] = "attach"
        /\ IF Admits(kept, request[c])
             THEN /\ sessions' = AttachRole(kept, request[c], c)
                  /\ replaced' = [replaced EXCEPT ![c] =
                                    kept[request[c].session].holder[request[c].role]]
                  /\ Goto(c, IF request[c].device = NoDevice THEN "enlist" ELSE "publish")
                  /\ UNCHANGED <<membership, request>>
             ELSE /\ sessions' = kept
                  /\ Refuse(c)
                  /\ UNCHANGED replaced
        /\ UNCHANGED <<participants, directory, loop, closed>>

PublishDirectory(c) ==
    /\ pc[c] = "publish"
    /\ directory' = [directory EXCEPT ![request[c].device] =
                        [person |-> request[c].person,
                         conn   |-> c,
                         expiry |-> IF request[c].persistent THEN "never" ELSE "pending"]]
    /\ Goto(c, "enlist")
    /\ UNCHANGED <<sessions, participants, membership, loop, request, replaced, closed>>

\* The displaced connection leaves the map here; accept_join closes it only
\* after the mutex is released.
EnlistParticipant(c) ==
    /\ pc[c] = "enlist"
    /\ participants' = (participants \ {replaced[c]}) \cup {c}
    /\ replaced' = [replaced EXCEPT ![c] = IF @ \in participants THEN @ ELSE NoConn]
    /\ membership' = NoConn
    /\ Goto(c, "close")
    /\ UNCHANGED <<sessions, directory, loop, request, closed>>

\* Fault: the displaced connection is dropped instead of closed.
ForgetReplaced(c) ==
    /\ pc[c] = "close"
    /\ replaced' = [replaced EXCEPT ![c] = NoConn]
    /\ Goto(c, "ack")
    /\ UNCHANGED <<tables, membership, loop, request, closed>>

CloseReplaced(c) ==
    /\ pc[c] = "close"
    /\ closed' = closed \cup ({replaced[c]} \ {NoConn})
    /\ replaced' = [replaced EXCEPT ![c] = NoConn]
    /\ Goto(c, "ack")
    /\ UNCHANGED <<tables, membership, loop, request>>

-----------------------------------------------------------------------------
(* The task of connection c, from its join reply to its end. *)

Ack(c) ==
    /\ pc[c] = "ack"
    /\ c \notin closed
    /\ Goto(c, "joined")
    /\ UNCHANGED <<tables, membership, loop, request, replaced, closed>>

\* The reply cannot be written, the deadline cancels it, or a datagram arrives
\* first: the guard is dropped with accept_join, while the transport is open.
AckFails(c) ==
    /\ pc[c] = "ack"
    /\ Goto(c, "leaving")
    /\ UNCHANGED <<tables, membership, loop, request, replaced, closed>>

\* The peer goes away, or the relay closes its connection (stream limit,
\* malformed frame, peer unavailable).
Disconnect(c) ==
    /\ pc[c] \in {"waiting", "ack", "joined"}
    /\ c \notin closed
    /\ closed' = closed \cup {c}
    /\ UNCHANGED <<tables, membership, loop, pc, request, replaced>>

\* The loop of handle_connection breaks and its nested workers are drained.
Leave(c) ==
    /\ pc[c] = "joined"
    /\ c \in closed
    /\ Goto(c, "leaving")
    /\ UNCHANGED <<tables, membership, loop, request, replaced, closed>>

LockForRemoval(c) ==
    /\ pc[c] = "leaving"
    /\ membership = NoConn
    /\ membership' = c
    /\ Goto(c, "detach")
    /\ UNCHANGED <<tables, loop, request, replaced, closed>>

\* Fault: the departure clears the role it joined with, whoever holds it now.
DetachRole(c) ==
    /\ pc[c] = "detach"
    /\ sessions' = Detach(sessions, request[c].session,
                          sessions[request[c].session].holder[request[c].role])
    /\ Goto(c, "delist")
    /\ UNCHANGED <<participants, directory, membership, loop, request, replaced, closed>>

DetachSession(c) ==
    /\ pc[c] = "detach"
    /\ sessions' = Detach(sessions, request[c].session, c)
    /\ Goto(c, "delist")
    /\ UNCHANGED <<participants, directory, membership, loop, request, replaced, closed>>

RemoveParticipant(c) ==
    /\ pc[c] = "delist"
    /\ participants' = participants \ {c}
    /\ Goto(c, "retain")
    /\ UNCHANGED <<sessions, directory, membership, loop, request, replaced, closed>>

RetainDirectory(c) ==
    /\ pc[c] = "retain"
    /\ directory' = [d \in Device |-> IF directory[d].conn = c THEN NoRecord ELSE directory[d]]
    /\ membership' = NoConn
    /\ request' = [request EXCEPT ![c] = NoRequest]
    /\ Goto(c, "release")
    /\ UNCHANGED <<sessions, participants, loop, replaced, closed>>

\* Only now a connection whose join failed is closed, or its handle dropped.
\* (A forwarder may hold another one a little longer.  No task asks whether the
\* transport of a connection that left is open; the forwarders do, in JoinedTasks.)
ReleaseAdmission(c) ==
    /\ pc[c] = "release"
    /\ active' = active - 1
    /\ closed' = closed \cup {c}
    /\ Goto(c, "gone")
    /\ UNCHANGED <<tables, membership, rejecting, stopping, sweep, due, request, replaced>>

-----------------------------------------------------------------------------
(* Time. *)

SessionExpires(s) ==
    /\ sessions[s] # Vacant
    /\ ~sessions[s].expired
    /\ sessions' = [sessions EXCEPT ![s].expired = TRUE]
    /\ UNCHANGED <<participants, directory, membership, loop, tasks>>

RecordExpires(d) ==
    /\ directory[d].expiry = "pending"
    /\ directory' = [directory EXCEPT ![d].expiry = "passed"]
    /\ UNCHANGED <<sessions, participants, membership, loop, tasks>>

-----------------------------------------------------------------------------
Join(c) ==
    \/ \E j \in JoinRequest : LockForAttach(c, j)
    \/ ValidateDirectory(c)
    \/ AttachSession(c)
    \/ PublishDirectory(c)
    \/ EnlistParticipant(c)
    \/ CloseReplaced(c)
    \/ Ack(c)
    \/ AckFails(c)

Depart(c) ==
    \/ Leave(c)
    \/ LockForRemoval(c)
    \/ DetachSession(c)
    \/ RemoveParticipant(c)
    \/ RetainDirectory(c)
    \/ ReleaseAdmission(c)

AcceptLoop ==
    \/ \E c \in Conn : Accept(c)
    \/ Reject
    \/ RejectionEnds
    \/ SweepSessions
    \/ SweepParticipants
    \/ SweepDirectory
    \/ Stop

Next ==
    \/ AcceptLoop
    \/ \E c \in Conn : Handshake(c) \/ GiveUp(c) \/ Lookup(c) \/ Join(c) \/ Disconnect(c) \/ Depart(c)
    \/ \E s \in Session : SessionExpires(s)
    \/ \E d \in Device : RecordExpires(d)

Spec == Init /\ [][Next]_vars

(***************************************************************************)
(* Scheduling.  A task that can run does (tokio), every await before the   *)
(* join reply is bounded by join_timeout (GiveUp, AckFails), and a task    *)
(* that keeps finding the membership mutex released gets it eventually:    *)
(* its critical sections do not block.  Nothing makes a client join,       *)
(* leave, or a record expire.                                              *)
(***************************************************************************)
Progress(c) ==
    \/ GiveUp(c)
    \/ ValidateDirectory(c) \/ AttachSession(c) \/ PublishDirectory(c) \/ EnlistParticipant(c)
    \/ CloseReplaced(c) \/ Ack(c) \/ AckFails(c) \/ Leave(c)
    \/ DetachSession(c) \/ RemoveParticipant(c) \/ RetainDirectory(c) \/ ReleaseAdmission(c)

Fairness ==
    /\ \A c \in Conn : WF_vars(Progress(c)) /\ SF_vars(LockForRemoval(c))
    /\ SF_vars(SweepSessions) /\ WF_vars(SweepParticipants) /\ WF_vars(SweepDirectory)
    /\ WF_vars(RejectionEnds)

FairSpec == Spec /\ Fairness
-----------------------------------------------------------------------------
(* Properties. *)

Holders == HoldersOf(sessions, Session)

\* A connection inside attach_participant or remove_connection.
Inside(c) == pc[c] \in Attaching \cup Removing

(* Every admission is given back exactly once, and the limit is never        *)
(* passed: active_connections counts the tasks that hold an AdmissionGuard,  *)
(* whichever of the many ways out of handle_connection they take.            *)
AdmissionAccounting ==
    /\ active = Cardinality({c \in Conn : Admitted(c)})
    /\ active <= MaxConnections

(* The table limits hold through expiry, replacement and re-creation of      *)
(* sessions: no more sessions than max_sessions, no more attached            *)
(* connections than max_connections.                                         *)
TableLimits ==
    /\ Cardinality(Known(sessions)) <= MaxSessions
    /\ Cardinality(Attached(sessions)) <= MaxConnections

(* A connection whose task holds no ParticipantGuard and is outside the      *)
(* membership sections is in none of the three maps: no way out of the task  *)
(* (refusal, expiry, replacement, lost transport, shutdown) leaves a trace.  *)
NoResidue ==
    \A c \in Conn :
        pc[c] \in {"idle", "handshake", "waiting", "refused", "release", "gone"} =>
            /\ c \notin Holders
            /\ c \notin participants
            /\ \A d \in Device : directory[d].conn # c

(* While nobody updates the maps, the session table names only connections   *)
(* peer_with_id can find in the participants map, each in the session and    *)
(* role it joined with, and all with the authentication of the session.      *)
TablesAgree ==
    membership = NoConn =>
        \A s \in Session, r \in Role :
            LET c == sessions[s].holder[r]
            IN  c # NoConn =>
                    /\ c \in participants
                    /\ request[c].session = s /\ request[c].role = r
                    /\ request[c].auth = sessions[s].auth
                    /\ request[c].person = sessions[s].person[r]

(* A connection that joined and was then taken out of the participants map   *)
(* (replaced by its own participant, or swept with its session) is closed,   *)
(* or the join that displaced it is about to close it: nobody is left with   *)
(* an open connection the relay will never serve again.                      *)
DisplacedIsClosed ==
    \A c \in Conn :
        pc[c] \in Guarded /\ c \notin participants =>
            c \in closed \/ \E w \in Conn : replaced[w] = c /\ pc[w] = "close"

(* A directory entry names a connection whose task still holds its guard (or *)
(* is inside the section that publishes or removes it), and the participant  *)
(* and device that connection registered: an entry outlives neither its      *)
(* connection nor a replacement by another participant.                      *)
DirectoryNamesGuard ==
    \A d \in Device :
        directory[d] # NoRecord =>
            LET c == directory[d].conn
            IN  /\ pc[c] \in {"enlist"} \cup Guarded \cup Removing
                /\ request[c].device = d
                /\ request[c].person = directory[d].person

(* The three maps are never updated by two owners at once.                   *)
MembershipExclusive ==
    /\ \A c \in Conn : Inside(c) => membership = c
    /\ sweep # "idle" => membership = Sweeper

(* The role of a live session passes from one connection to another only     *)
(* when the same participant resumes on the new one, and it is vacated only  *)
(* by the departure of that very connection: the late departure of a         *)
(* replaced connection never evicts its successor.                           *)
RoleIsKept ==
    [][ \A s \in Session, r \in Role :
          LET c == sessions[s].holder[r]
              n == sessions'[s].holder[r]
          IN  c # NoConn /\ ~sessions[s].expired /\ n # c =>
                \/ n # NoConn /\ sessions'[s].person[r] = sessions[s].person[r]
                \/ n = NoConn /\ pc[c] = "detach"
      ]_vars

(* An unexpired directory entry passes to another participant never, and     *)
(* disappears only when the task of its own connection retains it away.      *)
DirectorySlotIsKept ==
    [][ \A d \in Device :
          directory[d] # NoRecord /\ directory[d].expiry # "passed" /\ directory'[d] # directory[d] =>
            \/ directory'[d].person = directory[d].person
            \/ directory'[d] = NoRecord /\ pc[directory[d].conn] = "retain"
      ]_vars

(* A session keeps the authentication it was created with until its record   *)
(* goes.                                                                     *)
AuthenticationIsKept ==
    [][ \A s \in Session :
          sessions[s] # Vacant /\ ~sessions[s].expired /\ sessions'[s] # Vacant =>
            sessions'[s].auth = sessions[s].auth
      ]_vars

(* A displaced connection's task ends, and with it its admission.            *)
DisplacedLeaves ==
    \A c \in Conn :
        (pc[c] = "joined" /\ c \notin participants) ~> (pc[c] = "gone")

(* close() drains the relay: every task ends, nothing stays in the maps and  *)
(* no admission or rejection slot is lost.                                   *)
Drained ==
    /\ \A c \in Conn : ~Admitted(c)
    /\ active = 0 /\ rejecting = 0
    /\ participants = {} /\ Known(sessions) = {}
    /\ \A d \in Device : directory[d] = NoRecord

StopDrains == stopping ~> Drained

(* What the tests of the session table say of expiry: it returns the exact   *)
(* connections of the session, which the relay then closes ("session         *)
(* expired").  A participant whose session is gone is eventually closed.     *)
ExpiryCloses ==
    \A c \in Conn :
        (membership = NoConn /\ c \in participants /\ c \notin Holders) ~> (c \in closed)
-----------------------------------------------------------------------------
(* Connections that displace one another, as one statement: whatever way a   *)
(* connection leaves, nothing of it stays in a map, nobody taken out of the  *)
(* maps stays open, and what the directory names is still guarded.           *)
MembersHold ==
    TypeOK /\ NoResidue /\ DisplacedIsClosed /\ DirectoryNamesGuard /\ MembershipExclusive

(* Neither a role nor a directory entry is taken from its owner by anybody   *)
(* but its owner.                                                            *)
SlotsKept == RoleIsKept /\ DirectorySlotIsKept

(* Sessions that are created, resumed and expire beside one another: the     *)
(* maps agree and stay within the limits.                                    *)
TablesHold == TablesAgree /\ TableLimits
-----------------------------------------------------------------------------
(* The inductive strengthening the proofs use, by the phase each task is in. *)

\* A task inside or past attach_participant knows what it asked for.
Requested ==
    \A c \in Conn :
        pc[c] \in Attaching \cup Guarded \cup Removing => request[c] \in JoinRequest

\* A role is held from AttachSession to DetachSession of its connection, as the
\* connection asked for it.
HolderPhase ==
    \A s \in Session, r \in Role :
        LET c == sessions[s].holder[r]
        IN  c # NoConn =>
                /\ pc[c] \in {"publish", "enlist", "detach"} \cup Guarded
                /\ request[c].session = s /\ request[c].role = r
                /\ request[c].auth = sessions[s].auth
                /\ request[c].person = sessions[s].person[r]

\* A connection is listed from EnlistParticipant to RemoveParticipant at most.
ListedPhase ==
    \A c \in participants : pc[c] \in {"detach", "delist"} \cup Guarded

\* A holder is listed, except while its own join is about to list it.
HolderListed ==
    \A s \in Session, r \in Role :
        LET c == sessions[s].holder[r]
        IN  c # NoConn => c \in participants \/ pc[c] \in {"publish", "enlist"}

\* What a join or a sweep is about to delist no longer holds a role.
PendingRemoval ==
    /\ \A c \in Conn : pc[c] \in {"publish", "enlist"} => replaced[c] \notin Holders \ {NoConn}
    /\ sweep = "participants" => due \cap Holders = {}

\* Between the check of a directory slot and its publication nobody takes it.
SlotReserved ==
    \A c \in Conn :
        /\ pc[c] \in {"validate", "publish"} => request[c].device # NoDevice
        /\ pc[c] \in {"attach", "publish"} /\ request[c].device # NoDevice =>
              LET entry == directory[request[c].device]
              IN  entry = NoRecord \/ entry.person = request[c].person

IInv ==
    /\ TypeOK
    /\ AdmissionAccounting
    /\ MembershipExclusive
    /\ Requested
    /\ HolderPhase
    /\ ListedPhase
    /\ HolderListed
    /\ PendingRemoval
    /\ SlotReserved
    /\ DirectoryNamesGuard
    /\ DisplacedIsClosed
=============================================================================
