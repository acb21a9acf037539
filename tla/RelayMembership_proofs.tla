----------------------- MODULE RelayMembership_proofs -----------------------
(***************************************************************************)
(* Theorems about RelayMembership, for every set of connections, sessions, *)
(* participants, devices and every limit.  The inductive invariant is IInv;*)
(* each of its conjuncts has a lemma of its own.  The last part shows that *)
(* RelayMembership implements RoleSlots: what RelayForwarding and          *)
(* RelayDatagrams assume of their environment is what joins, departures,   *)
(* expiry and sweeps do.                                                   *)
(***************************************************************************)
EXTENDS RelayMembershipRefinement, FiniteSetTheorems, TLAPS

-----------------------------------------------------------------------------
(* What the operations of the session table return. *)

(* Dropping the expired records keeps the type of the table, and every role  *)
(* either keeps its holder or is vacant (the retain of attach_role).         *)
LEMMA UnexpiredTable ==
    ASSUME NEW t \in [Session -> SessionRecord]
    PROVE  /\ Unexpired(t) \in [Session -> SessionRecord]
           /\ \A s \in Session : ~Unexpired(t)[s].expired
           /\ \A s \in Session : Unexpired(t)[s] \in {t[s], Vacant}
           /\ \A s \in Session : ~t[s].expired => Unexpired(t)[s] = t[s]
<1>1. Vacant \in SessionRecord /\ ~Vacant.expired
  BY DEF Vacant, SessionRecord
<1> QED
  BY <1>1 DEF Unexpired

(* Attaching changes the joined role of the joined session and nothing else. *)
LEMMA AttachRoleTable ==
    ASSUME NEW t \in [Session -> SessionRecord], NEW c \in Conn,
           NEW j \in JoinRequest
    PROVE  /\ AttachRole(t, j, c) \in [Session -> SessionRecord]
           /\ \A s \in Session, r \in Role :
                AttachRole(t, j, c)[s].holder[r] =
                    IF s = j.session /\ r = j.role THEN c ELSE t[s].holder[r]
           /\ \A s \in Session, r \in Role :
                AttachRole(t, j, c)[s].person[r] =
                    IF s = j.session /\ r = j.role THEN j.person ELSE t[s].person[r]
           /\ \A s \in Session :
                AttachRole(t, j, c)[s].auth = IF s = j.session THEN j.auth ELSE t[s].auth
           /\ \A s \in Session :
                AttachRole(t, j, c)[s].expired = IF s = j.session THEN FALSE ELSE t[s].expired
           /\ \A s \in Session \ {j.session} : AttachRole(t, j, c)[s] = t[s]
<1>1. /\ j.session \in Session /\ j.role \in Role
      /\ j.auth \in Auth /\ j.person \in Person
  BY DEF JoinRequest, Request
<1>2. \A s \in Session : /\ t[s].holder \in [Role -> Conn \cup {NoConn}]
                         /\ t[s].person \in [Role -> Person \cup {NoPerson}]
                         /\ t[s] \in SessionRecord
  BY DEF SessionRecord
<1> QED
  BY <1>1, <1>2 DEF AttachRole, SessionRecord

(* Detaching a connection removes it from the session it names; a role of a  *)
(* live record changes only if that connection held it.                      *)
LEMMA DetachTable ==
    ASSUME NEW t \in [Session -> SessionRecord], NEW c \in Conn, NEW x \in Session
    PROVE  /\ Detach(t, x, c) \in [Session -> SessionRecord]
           /\ \A s \in Session \ {x} : Detach(t, x, c)[s] = t[s]
           /\ \A r \in Role : Detach(t, x, c)[x].holder[r] # c
           /\ \A r \in Role : Detach(t, x, c)[x].holder[r] \in {NoConn, t[x].holder[r]}
           /\ \A r \in Role : ~t[x].expired /\ t[x].holder[r] # c =>
                    Detach(t, x, c)[x].holder[r] = t[x].holder[r]
           /\ \A r \in Role : Detach(t, x, c)[x].holder[r] # NoConn =>
                    Detach(t, x, c)[x].person[r] = t[x].person[r]
           /\ Detach(t, x, c)[x] # Vacant =>
                    /\ Detach(t, x, c)[x].auth = t[x].auth
                    /\ Detach(t, x, c)[x].expired = t[x].expired
<1>1. t[x] \in SessionRecord /\ t[x].holder \in [Role -> Conn \cup {NoConn}]
  BY DEF SessionRecord
<1>2. c # NoConn
  BY ConnAssumption
<1>3. Vacant \in SessionRecord /\ \A r \in Role : Vacant.holder[r] = NoConn
  BY DEF Vacant, SessionRecord
<1>4. /\ Without(t[x], c) \in SessionRecord
      /\ Without(t[x], c).auth = t[x].auth
      /\ Without(t[x], c).expired = t[x].expired
      /\ \A r \in Role : Without(t[x], c).holder[r] =
                            IF t[x].holder[r] = c THEN NoConn ELSE t[x].holder[r]
      /\ \A r \in Role : Without(t[x], c).person[r] =
                            IF t[x].holder[r] = c THEN NoPerson ELSE t[x].person[r]
  BY <1>1 DEF Without, SessionRecord
<1>5. Detach(t, x, c)[x] \in {Vacant, Without(t[x], c)}
  BY DEF Detach
<1>6. \A s \in Session \ {x} : Detach(t, x, c)[s] = t[s]
  BY DEF Detach
<1>7. Detach(t, x, c) \in [Session -> SessionRecord]
  BY <1>3, <1>4 DEF Detach
<1>8. ASSUME NEW r \in Role, ~t[x].expired, t[x].holder[r] # c
      PROVE  Detach(t, x, c)[x].holder[r] = t[x].holder[r]
  <2>1. CASE t[x].holder[r] = NoConn
    BY <2>1, <1>3, <1>4, <1>5
  <2>2. CASE t[x].holder[r] # NoConn
    <3>1. ~Deserted(Without(t[x], c))
      BY <2>2, <1>8, <1>4 DEF Deserted
    <3>2. Detach(t, x, c)[x] = Without(t[x], c)
      BY <3>1, <1>8 DEF Detach
    <3> QED
      BY <3>2, <1>4, <1>8
  <2> QED
    BY <2>1, <2>2
<1> QED
  BY <1>2, <1>3, <1>4, <1>5, <1>6, <1>7, <1>8

-----------------------------------------------------------------------------
(* The type invariant. *)

LEMMA RequestTypes ==
    ASSUME NEW j \in JoinRequest
    PROVE  /\ j.session \in Session /\ j.role \in Role /\ j.auth \in Auth
           /\ j.person \in Person /\ j.device \in Device \cup {NoDevice}
           /\ j.persistent \in BOOLEAN
  BY DEF JoinRequest, Request

LEMMA RetainedTable ==
    ASSUME NEW d \in [Device -> DirectoryRecord \cup {NoRecord}]
    PROVE  Retained(d) \in [Device -> DirectoryRecord \cup {NoRecord}]
  BY DEF Retained

(* The set of tasks that hold an AdmissionGuard is finite, so that it can be *)
(* counted.                                                                  *)
LEMMA AdmittedFinite ==
    /\ IsFiniteSet({c \in Conn : Admitted(c)})
    /\ Cardinality({c \in Conn : Admitted(c)}) \in Nat
<1>1. IsFiniteSet({c \in Conn : Admitted(c)})
  BY FS_Subset, ConnAssumption
<1> QED
  BY <1>1, FS_CardinalityType

LEMMA TypeOKStep ==
    ASSUME TypeOK, Requested, AdmissionAccounting, [Next]_vars
    PROVE  TypeOK'
<1> USE DEF TypeOK, tables, loop, tasks, Goto, PC, Attaching, Guarded, Removing
<1>1. ASSUME Reject PROVE TypeOK'
  BY <1>1, RejectionAssumption DEF Reject
<1>2. ASSUME RejectionEnds PROVE TypeOK'
  BY <1>2, RejectionAssumption DEF RejectionEnds
<1>3. ASSUME SweepSessions PROVE TypeOK'
  <2>1. HoldersOf(sessions, Expired(sessions)) \subseteq Conn
    BY DEF HoldersOf, Attached, SessionRecord
  <2> QED
    BY <1>3, <2>1, UnexpiredTable DEF SweepSessions
<1>4. ASSUME SweepParticipants PROVE TypeOK'
  BY <1>4 DEF SweepParticipants
<1>5. ASSUME SweepDirectory PROVE TypeOK'
  BY <1>5, RetainedTable DEF SweepDirectory
<1>6. ASSUME Stop PROVE TypeOK'
  BY <1>6 DEF Stop
<1>7. ASSUME NEW c \in Conn, Accept(c) PROVE TypeOK'
  BY <1>7 DEF Accept
<1>8. ASSUME NEW c \in Conn, Handshake(c) PROVE TypeOK'
  BY <1>8 DEF Handshake
<1>9. ASSUME NEW c \in Conn, GiveUp(c) PROVE TypeOK'
  BY <1>9 DEF GiveUp
<1>10. ASSUME NEW c \in Conn, Lookup(c) PROVE TypeOK'
  BY <1>10, RetainedTable DEF Lookup
<1>11. ASSUME NEW c \in Conn, ValidateDirectory(c) PROVE TypeOK'
  BY <1>11, RetainedTable DEF ValidateDirectory, Refuse
<1>12. ASSUME NEW c \in Conn, AttachSession(c) PROVE TypeOK'
  <2> DEFINE kept == Unexpired(sessions)
  <2>1. request[c] \in JoinRequest
    BY <1>12 DEF AttachSession, Requested
  <2>2. kept \in [Session -> SessionRecord]
    BY UnexpiredTable
  <2>3. kept[request[c].session].holder[request[c].role] \in Conn \cup {NoConn}
    BY <2>1, <2>2, RequestTypes DEF SessionRecord
  <2>4. AttachRole(kept, request[c], c) \in [Session -> SessionRecord]
    BY <2>1, <2>2, AttachRoleTable
  <2> HIDE DEF kept
  <2>5. sessions' \in [Session -> SessionRecord]
    BY <1>12, <2>2, <2>4 DEF AttachSession, kept
  <2>6. replaced' \in [Conn -> Conn \cup {NoConn}]
    BY <1>12, <2>3 DEF AttachSession, kept
  <2> QED
    BY <1>12, <2>5, <2>6 DEF AttachSession, Refuse
<1>13. ASSUME NEW c \in Conn, PublishDirectory(c) PROVE TypeOK'
  <2>1. request[c] \in JoinRequest
    BY <1>13 DEF PublishDirectory, Requested
  <2>2. [person |-> request[c].person, conn |-> c,
         expiry |-> IF request[c].persistent THEN "never" ELSE "pending"] \in DirectoryRecord
    BY <2>1, RequestTypes DEF DirectoryRecord
  <2> QED
    BY <1>13, <2>2 DEF PublishDirectory
<1>14. ASSUME NEW c \in Conn, EnlistParticipant(c) PROVE TypeOK'
  BY <1>14 DEF EnlistParticipant
<1>15. ASSUME NEW c \in Conn, CloseReplaced(c) PROVE TypeOK'
  BY <1>15 DEF CloseReplaced
<1>16. ASSUME NEW c \in Conn, Ack(c) PROVE TypeOK'
  BY <1>16 DEF Ack
<1>17. ASSUME NEW c \in Conn, AckFails(c) PROVE TypeOK'
  BY <1>17 DEF AckFails
<1>18. ASSUME NEW c \in Conn, Disconnect(c) PROVE TypeOK'
  BY <1>18 DEF Disconnect
<1>19. ASSUME NEW c \in Conn, Leave(c) PROVE TypeOK'
  BY <1>19 DEF Leave
<1>20. ASSUME NEW c \in Conn, LockForRemoval(c) PROVE TypeOK'
  BY <1>20 DEF LockForRemoval
<1>21. ASSUME NEW c \in Conn, DetachSession(c) PROVE TypeOK'
  <2>1. request[c] \in JoinRequest
    BY <1>21 DEF DetachSession, Requested
  <2> QED
    BY <1>21, <2>1, DetachTable, RequestTypes DEF DetachSession
<1>22. ASSUME NEW c \in Conn, RemoveParticipant(c) PROVE TypeOK'
  BY <1>22 DEF RemoveParticipant
<1>23. ASSUME NEW c \in Conn, RetainDirectory(c) PROVE TypeOK'
  BY <1>23 DEF RetainDirectory
<1>24. ASSUME NEW c \in Conn, ReleaseAdmission(c) PROVE TypeOK'
  <2>1. c \in {x \in Conn : Admitted(x)}
    BY <1>24 DEF ReleaseAdmission, Admitted
  <2>2. Cardinality({x \in Conn : Admitted(x)}) # 0
    BY <2>1, AdmittedFinite, FS_EmptySet
  <2>3. active - 1 \in Nat
    BY <2>2 DEF AdmissionAccounting
  <2> QED
    BY <1>24, <2>3 DEF ReleaseAdmission
<1>25. ASSUME NEW c \in Conn, NEW j \in JoinRequest, LockForAttach(c, j) PROVE TypeOK'
  BY <1>25 DEF LockForAttach
<1>26. ASSUME NEW s \in Session, SessionExpires(s) PROVE TypeOK'
  <2>1. [sessions[s] EXCEPT !.expired = TRUE] \in SessionRecord
    BY <1>26 DEF SessionRecord
  <2>2. sessions' \in [Session -> SessionRecord]
    BY <1>26, <2>1 DEF SessionExpires
  <2> QED
    BY <1>26, <2>2 DEF SessionExpires
<1>27. ASSUME NEW d \in Device, RecordExpires(d) PROVE TypeOK'
  BY <1>27 DEF RecordExpires, DirectoryRecord, NoRecord
<1>28. ASSUME UNCHANGED vars PROVE TypeOK'
  BY <1>28 DEF vars, tables, tasks, loop
<1> QED
  BY <1>1, <1>2, <1>3, <1>4, <1>5, <1>6, <1>7, <1>8, <1>9, <1>10, <1>11, <1>12, <1>13, <1>14, <1>15, <1>16, <1>17, <1>18, <1>19, <1>20, <1>21, <1>22, <1>23, <1>24, <1>25, <1>26, <1>27, <1>28 DEF Next, AcceptLoop, Join, Depart

-----------------------------------------------------------------------------
(* The conjuncts of the inductive invariant, one lemma each. *)

(* Admission is counted on every way through the task: only Accept and       *)
(* ReleaseAdmission change who holds an AdmissionGuard.                      *)
LEMMA AdmissionStep ==
    ASSUME TypeOK, TypeOK', AdmissionAccounting, [Next]_vars
    PROVE  AdmissionAccounting'
<1> USE DEF tables, loop, tasks, Goto, Attaching, Guarded, Removing, Admitted, AdmissionAccounting, TypeOK, PC
<1>1. ASSUME Reject PROVE AdmissionAccounting'
  BY <1>1 DEF Reject
<1>2. ASSUME RejectionEnds PROVE AdmissionAccounting'
  BY <1>2 DEF RejectionEnds
<1>3. ASSUME SweepSessions PROVE AdmissionAccounting'
  BY <1>3 DEF SweepSessions
<1>4. ASSUME SweepParticipants PROVE AdmissionAccounting'
  BY <1>4 DEF SweepParticipants
<1>5. ASSUME SweepDirectory PROVE AdmissionAccounting'
  BY <1>5 DEF SweepDirectory
<1>6. ASSUME Stop PROVE AdmissionAccounting'
  BY <1>6 DEF Stop
<1>7. ASSUME NEW c \in Conn, Accept(c) PROVE AdmissionAccounting'
  <2> DEFINE A == {x \in Conn : Admitted(x)}
  <2>1. A' = A \cup {c} /\ c \notin A
    BY <1>7 DEF Accept
  <2>2. IsFiniteSet(A)
    BY AdmittedFinite
  <2>3. Cardinality(A \cup {c}) = Cardinality(A) + 1
    BY <2>1, <2>2, FS_AddElement
  <2>4. /\ active = Cardinality(A) /\ active \in Nat /\ active <= MaxConnections
    OBVIOUS
  <2> HIDE DEF A
  <2>5. active' = Cardinality(A') /\ active' <= MaxConnections
    BY <1>7, <2>1, <2>3, <2>4, LimitAssumption DEF Accept
  <2> QED
    BY <2>5 DEF A
<1>8. ASSUME NEW c \in Conn, Handshake(c) PROVE AdmissionAccounting'
  BY <1>8 DEF Handshake
<1>9. ASSUME NEW c \in Conn, GiveUp(c) PROVE AdmissionAccounting'
  BY <1>9 DEF GiveUp
<1>10. ASSUME NEW c \in Conn, Lookup(c) PROVE AdmissionAccounting'
  BY <1>10 DEF Lookup
<1>11. ASSUME NEW c \in Conn, ValidateDirectory(c) PROVE AdmissionAccounting'
  BY <1>11 DEF ValidateDirectory, Refuse
<1>12. ASSUME NEW c \in Conn, AttachSession(c) PROVE AdmissionAccounting'
  BY <1>12 DEF AttachSession, Refuse
<1>13. ASSUME NEW c \in Conn, PublishDirectory(c) PROVE AdmissionAccounting'
  BY <1>13 DEF PublishDirectory
<1>14. ASSUME NEW c \in Conn, EnlistParticipant(c) PROVE AdmissionAccounting'
  BY <1>14 DEF EnlistParticipant
<1>15. ASSUME NEW c \in Conn, CloseReplaced(c) PROVE AdmissionAccounting'
  BY <1>15 DEF CloseReplaced
<1>16. ASSUME NEW c \in Conn, Ack(c) PROVE AdmissionAccounting'
  BY <1>16 DEF Ack
<1>17. ASSUME NEW c \in Conn, AckFails(c) PROVE AdmissionAccounting'
  BY <1>17 DEF AckFails
<1>18. ASSUME NEW c \in Conn, Disconnect(c) PROVE AdmissionAccounting'
  BY <1>18 DEF Disconnect
<1>19. ASSUME NEW c \in Conn, Leave(c) PROVE AdmissionAccounting'
  BY <1>19 DEF Leave
<1>20. ASSUME NEW c \in Conn, LockForRemoval(c) PROVE AdmissionAccounting'
  BY <1>20 DEF LockForRemoval
<1>21. ASSUME NEW c \in Conn, DetachSession(c) PROVE AdmissionAccounting'
  BY <1>21 DEF DetachSession
<1>22. ASSUME NEW c \in Conn, RemoveParticipant(c) PROVE AdmissionAccounting'
  BY <1>22 DEF RemoveParticipant
<1>23. ASSUME NEW c \in Conn, RetainDirectory(c) PROVE AdmissionAccounting'
  BY <1>23 DEF RetainDirectory
<1>24. ASSUME NEW c \in Conn, ReleaseAdmission(c) PROVE AdmissionAccounting'
  <2> DEFINE A == {x \in Conn : Admitted(x)}
  <2>1. A' = A \ {c} /\ c \in A
    BY <1>24 DEF ReleaseAdmission
  <2>2. IsFiniteSet(A)
    BY AdmittedFinite
  <2>3. Cardinality(A \ {c}) = Cardinality(A) - 1
    BY <2>1, <2>2, FS_RemoveElement
  <2>4. /\ active = Cardinality(A) /\ active \in Nat /\ active <= MaxConnections
    OBVIOUS
  <2> HIDE DEF A
  <2>5. active' = Cardinality(A') /\ active' <= MaxConnections
    BY <1>24, <2>1, <2>3, <2>4, LimitAssumption DEF ReleaseAdmission
  <2> QED
    BY <2>5 DEF A
<1>25. ASSUME NEW c \in Conn, NEW j \in JoinRequest, LockForAttach(c, j) PROVE AdmissionAccounting'
  BY SMTT(30), <1>25 DEF LockForAttach
<1>26. ASSUME NEW s \in Session, SessionExpires(s) PROVE AdmissionAccounting'
  BY <1>26 DEF SessionExpires
<1>27. ASSUME NEW d \in Device, RecordExpires(d) PROVE AdmissionAccounting'
  BY <1>27 DEF RecordExpires
<1>28. ASSUME UNCHANGED vars PROVE AdmissionAccounting'
  BY <1>28 DEF vars, tables, tasks, loop
<1> QED
  BY <1>1, <1>2, <1>3, <1>4, <1>5, <1>6, <1>7, <1>8, <1>9, <1>10, <1>11, <1>12, <1>13, <1>14, <1>15, <1>16, <1>17, <1>18, <1>19, <1>20, <1>21, <1>22, <1>23, <1>24, <1>25, <1>26, <1>27, <1>28 DEF Next, AcceptLoop, Join, Depart

(* The mutex: whoever is between two of the map updates owns it.             *)
LEMMA ExclusiveStep ==
    ASSUME TypeOK, MembershipExclusive, [Next]_vars
    PROVE  MembershipExclusive'
<1> USE DEF tables, loop, tasks, Goto, Attaching, Guarded, Removing, MembershipExclusive, Inside, TypeOK
<1>1. ASSUME Reject PROVE MembershipExclusive'
  BY <1>1, ConnAssumption, SweeperAssumption DEF Reject
<1>2. ASSUME RejectionEnds PROVE MembershipExclusive'
  BY <1>2, ConnAssumption, SweeperAssumption DEF RejectionEnds
<1>3. ASSUME SweepSessions PROVE MembershipExclusive'
  BY <1>3, ConnAssumption, SweeperAssumption DEF SweepSessions
<1>4. ASSUME SweepParticipants PROVE MembershipExclusive'
  BY <1>4, ConnAssumption, SweeperAssumption DEF SweepParticipants
<1>5. ASSUME SweepDirectory PROVE MembershipExclusive'
  BY <1>5, ConnAssumption, SweeperAssumption DEF SweepDirectory
<1>6. ASSUME Stop PROVE MembershipExclusive'
  BY <1>6, ConnAssumption, SweeperAssumption DEF Stop
<1>7. ASSUME NEW c \in Conn, Accept(c) PROVE MembershipExclusive'
  BY <1>7, ConnAssumption, SweeperAssumption DEF Accept
<1>8. ASSUME NEW c \in Conn, Handshake(c) PROVE MembershipExclusive'
  BY <1>8, ConnAssumption, SweeperAssumption DEF Handshake
<1>9. ASSUME NEW c \in Conn, GiveUp(c) PROVE MembershipExclusive'
  BY <1>9, ConnAssumption, SweeperAssumption DEF GiveUp
<1>10. ASSUME NEW c \in Conn, Lookup(c) PROVE MembershipExclusive'
  BY <1>10, ConnAssumption, SweeperAssumption DEF Lookup
<1>11. ASSUME NEW c \in Conn, ValidateDirectory(c) PROVE MembershipExclusive'
  BY <1>11, ConnAssumption, SweeperAssumption DEF ValidateDirectory, Refuse
<1>12. ASSUME NEW c \in Conn, AttachSession(c) PROVE MembershipExclusive'
  BY <1>12, ConnAssumption, SweeperAssumption DEF AttachSession, Refuse
<1>13. ASSUME NEW c \in Conn, PublishDirectory(c) PROVE MembershipExclusive'
  BY <1>13, ConnAssumption, SweeperAssumption DEF PublishDirectory
<1>14. ASSUME NEW c \in Conn, EnlistParticipant(c) PROVE MembershipExclusive'
  BY <1>14, ConnAssumption, SweeperAssumption DEF EnlistParticipant
<1>15. ASSUME NEW c \in Conn, CloseReplaced(c) PROVE MembershipExclusive'
  BY <1>15, ConnAssumption, SweeperAssumption DEF CloseReplaced
<1>16. ASSUME NEW c \in Conn, Ack(c) PROVE MembershipExclusive'
  BY <1>16, ConnAssumption, SweeperAssumption DEF Ack
<1>17. ASSUME NEW c \in Conn, AckFails(c) PROVE MembershipExclusive'
  BY <1>17, ConnAssumption, SweeperAssumption DEF AckFails
<1>18. ASSUME NEW c \in Conn, Disconnect(c) PROVE MembershipExclusive'
  BY <1>18, ConnAssumption, SweeperAssumption DEF Disconnect
<1>19. ASSUME NEW c \in Conn, Leave(c) PROVE MembershipExclusive'
  BY <1>19, ConnAssumption, SweeperAssumption DEF Leave
<1>20. ASSUME NEW c \in Conn, LockForRemoval(c) PROVE MembershipExclusive'
  BY <1>20, ConnAssumption, SweeperAssumption DEF LockForRemoval
<1>21. ASSUME NEW c \in Conn, DetachSession(c) PROVE MembershipExclusive'
  BY <1>21, ConnAssumption, SweeperAssumption DEF DetachSession
<1>22. ASSUME NEW c \in Conn, RemoveParticipant(c) PROVE MembershipExclusive'
  BY <1>22, ConnAssumption, SweeperAssumption DEF RemoveParticipant
<1>23. ASSUME NEW c \in Conn, RetainDirectory(c) PROVE MembershipExclusive'
  BY <1>23, ConnAssumption, SweeperAssumption DEF RetainDirectory
<1>24. ASSUME NEW c \in Conn, ReleaseAdmission(c) PROVE MembershipExclusive'
  BY <1>24, ConnAssumption, SweeperAssumption DEF ReleaseAdmission
<1>25. ASSUME NEW c \in Conn, NEW j \in JoinRequest, LockForAttach(c, j) PROVE MembershipExclusive'
  BY <1>25, ConnAssumption, SweeperAssumption DEF LockForAttach
<1>26. ASSUME NEW s \in Session, SessionExpires(s) PROVE MembershipExclusive'
  BY <1>26, ConnAssumption, SweeperAssumption DEF SessionExpires
<1>27. ASSUME NEW d \in Device, RecordExpires(d) PROVE MembershipExclusive'
  BY <1>27, ConnAssumption, SweeperAssumption DEF RecordExpires
<1>28. ASSUME UNCHANGED vars PROVE MembershipExclusive'
  BY <1>28, ConnAssumption, SweeperAssumption DEF vars, tables, tasks, loop
<1> QED
  BY <1>1, <1>2, <1>3, <1>4, <1>5, <1>6, <1>7, <1>8, <1>9, <1>10, <1>11, <1>12, <1>13, <1>14, <1>15, <1>16, <1>17, <1>18, <1>19, <1>20, <1>21, <1>22, <1>23, <1>24, <1>25, <1>26, <1>27, <1>28 DEF Next, AcceptLoop, Join, Depart

(* A task inside or past attach_participant knows its request.               *)
LEMMA RequestedStep ==
    ASSUME TypeOK, Requested, [Next]_vars
    PROVE  Requested'
<1> USE DEF tables, loop, tasks, Goto, Attaching, Guarded, Removing, Requested, TypeOK
<1>1. ASSUME Reject PROVE Requested'
  BY <1>1 DEF Reject
<1>2. ASSUME RejectionEnds PROVE Requested'
  BY <1>2 DEF RejectionEnds
<1>3. ASSUME SweepSessions PROVE Requested'
  BY <1>3 DEF SweepSessions
<1>4. ASSUME SweepParticipants PROVE Requested'
  BY <1>4 DEF SweepParticipants
<1>5. ASSUME SweepDirectory PROVE Requested'
  BY <1>5 DEF SweepDirectory
<1>6. ASSUME Stop PROVE Requested'
  BY <1>6 DEF Stop
<1>7. ASSUME NEW c \in Conn, Accept(c) PROVE Requested'
  BY <1>7 DEF Accept
<1>8. ASSUME NEW c \in Conn, Handshake(c) PROVE Requested'
  BY <1>8 DEF Handshake
<1>9. ASSUME NEW c \in Conn, GiveUp(c) PROVE Requested'
  BY <1>9 DEF GiveUp
<1>10. ASSUME NEW c \in Conn, Lookup(c) PROVE Requested'
  BY <1>10 DEF Lookup
<1>11. ASSUME NEW c \in Conn, ValidateDirectory(c) PROVE Requested'
  BY <1>11 DEF ValidateDirectory, Refuse
<1>12. ASSUME NEW c \in Conn, AttachSession(c) PROVE Requested'
  BY <1>12 DEF AttachSession, Refuse
<1>13. ASSUME NEW c \in Conn, PublishDirectory(c) PROVE Requested'
  BY <1>13 DEF PublishDirectory
<1>14. ASSUME NEW c \in Conn, EnlistParticipant(c) PROVE Requested'
  BY <1>14 DEF EnlistParticipant
<1>15. ASSUME NEW c \in Conn, CloseReplaced(c) PROVE Requested'
  BY <1>15 DEF CloseReplaced
<1>16. ASSUME NEW c \in Conn, Ack(c) PROVE Requested'
  BY <1>16 DEF Ack
<1>17. ASSUME NEW c \in Conn, AckFails(c) PROVE Requested'
  BY <1>17 DEF AckFails
<1>18. ASSUME NEW c \in Conn, Disconnect(c) PROVE Requested'
  BY <1>18 DEF Disconnect
<1>19. ASSUME NEW c \in Conn, Leave(c) PROVE Requested'
  BY <1>19 DEF Leave
<1>20. ASSUME NEW c \in Conn, LockForRemoval(c) PROVE Requested'
  BY <1>20 DEF LockForRemoval
<1>21. ASSUME NEW c \in Conn, DetachSession(c) PROVE Requested'
  BY <1>21 DEF DetachSession
<1>22. ASSUME NEW c \in Conn, RemoveParticipant(c) PROVE Requested'
  BY <1>22 DEF RemoveParticipant
<1>23. ASSUME NEW c \in Conn, RetainDirectory(c) PROVE Requested'
  BY <1>23 DEF RetainDirectory
<1>24. ASSUME NEW c \in Conn, ReleaseAdmission(c) PROVE Requested'
  BY <1>24 DEF ReleaseAdmission
<1>25. ASSUME NEW c \in Conn, NEW j \in JoinRequest, LockForAttach(c, j) PROVE Requested'
  BY <1>25 DEF LockForAttach
<1>26. ASSUME NEW s \in Session, SessionExpires(s) PROVE Requested'
  BY <1>26 DEF SessionExpires
<1>27. ASSUME NEW d \in Device, RecordExpires(d) PROVE Requested'
  BY <1>27 DEF RecordExpires
<1>28. ASSUME UNCHANGED vars PROVE Requested'
  BY <1>28 DEF vars, tables, tasks, loop
<1> QED
  BY <1>1, <1>2, <1>3, <1>4, <1>5, <1>6, <1>7, <1>8, <1>9, <1>10, <1>11, <1>12, <1>13, <1>14, <1>15, <1>16, <1>17, <1>18, <1>19, <1>20, <1>21, <1>22, <1>23, <1>24, <1>25, <1>26, <1>27, <1>28 DEF Next, AcceptLoop, Join, Depart

(* A connection is listed only while its task can still remove it.           *)
LEMMA ListedStep ==
    ASSUME TypeOK, ListedPhase, [Next]_vars
    PROVE  ListedPhase'
<1> USE DEF tables, loop, tasks, Goto, Attaching, Guarded, Removing, ListedPhase, TypeOK
<1>1. ASSUME Reject PROVE ListedPhase'
  BY <1>1 DEF Reject
<1>2. ASSUME RejectionEnds PROVE ListedPhase'
  BY <1>2 DEF RejectionEnds
<1>3. ASSUME SweepSessions PROVE ListedPhase'
  BY <1>3 DEF SweepSessions
<1>4. ASSUME SweepParticipants PROVE ListedPhase'
  BY <1>4 DEF SweepParticipants
<1>5. ASSUME SweepDirectory PROVE ListedPhase'
  BY <1>5 DEF SweepDirectory
<1>6. ASSUME Stop PROVE ListedPhase'
  BY <1>6 DEF Stop
<1>7. ASSUME NEW c \in Conn, Accept(c) PROVE ListedPhase'
  BY <1>7 DEF Accept
<1>8. ASSUME NEW c \in Conn, Handshake(c) PROVE ListedPhase'
  BY <1>8 DEF Handshake
<1>9. ASSUME NEW c \in Conn, GiveUp(c) PROVE ListedPhase'
  BY <1>9 DEF GiveUp
<1>10. ASSUME NEW c \in Conn, Lookup(c) PROVE ListedPhase'
  BY <1>10 DEF Lookup
<1>11. ASSUME NEW c \in Conn, ValidateDirectory(c) PROVE ListedPhase'
  BY <1>11 DEF ValidateDirectory, Refuse
<1>12. ASSUME NEW c \in Conn, AttachSession(c) PROVE ListedPhase'
  BY <1>12 DEF AttachSession, Refuse
<1>13. ASSUME NEW c \in Conn, PublishDirectory(c) PROVE ListedPhase'
  BY <1>13 DEF PublishDirectory
<1>14. ASSUME NEW c \in Conn, EnlistParticipant(c) PROVE ListedPhase'
  BY <1>14 DEF EnlistParticipant
<1>15. ASSUME NEW c \in Conn, CloseReplaced(c) PROVE ListedPhase'
  BY <1>15 DEF CloseReplaced
<1>16. ASSUME NEW c \in Conn, Ack(c) PROVE ListedPhase'
  BY <1>16 DEF Ack
<1>17. ASSUME NEW c \in Conn, AckFails(c) PROVE ListedPhase'
  BY <1>17 DEF AckFails
<1>18. ASSUME NEW c \in Conn, Disconnect(c) PROVE ListedPhase'
  BY <1>18 DEF Disconnect
<1>19. ASSUME NEW c \in Conn, Leave(c) PROVE ListedPhase'
  BY <1>19 DEF Leave
<1>20. ASSUME NEW c \in Conn, LockForRemoval(c) PROVE ListedPhase'
  BY <1>20 DEF LockForRemoval
<1>21. ASSUME NEW c \in Conn, DetachSession(c) PROVE ListedPhase'
  BY <1>21 DEF DetachSession
<1>22. ASSUME NEW c \in Conn, RemoveParticipant(c) PROVE ListedPhase'
  BY <1>22 DEF RemoveParticipant
<1>23. ASSUME NEW c \in Conn, RetainDirectory(c) PROVE ListedPhase'
  BY <1>23 DEF RetainDirectory
<1>24. ASSUME NEW c \in Conn, ReleaseAdmission(c) PROVE ListedPhase'
  BY <1>24 DEF ReleaseAdmission
<1>25. ASSUME NEW c \in Conn, NEW j \in JoinRequest, LockForAttach(c, j) PROVE ListedPhase'
  BY <1>25 DEF LockForAttach
<1>26. ASSUME NEW s \in Session, SessionExpires(s) PROVE ListedPhase'
  BY <1>26 DEF SessionExpires
<1>27. ASSUME NEW d \in Device, RecordExpires(d) PROVE ListedPhase'
  BY <1>27 DEF RecordExpires
<1>28. ASSUME UNCHANGED vars PROVE ListedPhase'
  BY <1>28 DEF vars, tables, tasks, loop
<1> QED
  BY <1>1, <1>2, <1>3, <1>4, <1>5, <1>6, <1>7, <1>8, <1>9, <1>10, <1>11, <1>12, <1>13, <1>14, <1>15, <1>16, <1>17, <1>18, <1>19, <1>20, <1>21, <1>22, <1>23, <1>24, <1>25, <1>26, <1>27, <1>28 DEF Next, AcceptLoop, Join, Depart

(* A directory entry names a task that will retain it away.                  *)
LEMMA DirectoryStep ==
    ASSUME TypeOK, TypeOK', Requested, DirectoryNamesGuard, [Next]_vars
    PROVE  DirectoryNamesGuard'
<1> USE DEF tables, loop, tasks, Goto, Attaching, Guarded, Removing, DirectoryNamesGuard, DirectoryRecord, NoRecord, TypeOK, Retained
<1>1. ASSUME Reject PROVE DirectoryNamesGuard'
  BY <1>1, ConnAssumption DEF Reject
<1>2. ASSUME RejectionEnds PROVE DirectoryNamesGuard'
  BY <1>2, ConnAssumption DEF RejectionEnds
<1>3. ASSUME SweepSessions PROVE DirectoryNamesGuard'
  BY <1>3, ConnAssumption DEF SweepSessions
<1>4. ASSUME SweepParticipants PROVE DirectoryNamesGuard'
  BY <1>4, ConnAssumption DEF SweepParticipants
<1>5. ASSUME SweepDirectory PROVE DirectoryNamesGuard'
  BY <1>5, ConnAssumption DEF SweepDirectory
<1>6. ASSUME Stop PROVE DirectoryNamesGuard'
  BY <1>6, ConnAssumption DEF Stop
<1>7. ASSUME NEW c \in Conn, Accept(c) PROVE DirectoryNamesGuard'
  BY <1>7, ConnAssumption DEF Accept
<1>8. ASSUME NEW c \in Conn, Handshake(c) PROVE DirectoryNamesGuard'
  BY <1>8, ConnAssumption DEF Handshake
<1>9. ASSUME NEW c \in Conn, GiveUp(c) PROVE DirectoryNamesGuard'
  BY <1>9, ConnAssumption DEF GiveUp
<1>10. ASSUME NEW c \in Conn, Lookup(c) PROVE DirectoryNamesGuard'
  BY <1>10, ConnAssumption DEF Lookup
<1>11. ASSUME NEW c \in Conn, ValidateDirectory(c) PROVE DirectoryNamesGuard'
  BY <1>11, ConnAssumption DEF ValidateDirectory, Refuse
<1>12. ASSUME NEW c \in Conn, AttachSession(c) PROVE DirectoryNamesGuard'
  BY <1>12, ConnAssumption DEF AttachSession, Refuse
<1>13. ASSUME NEW c \in Conn, PublishDirectory(c) PROVE DirectoryNamesGuard'
  BY <1>13, ConnAssumption DEF PublishDirectory
<1>14. ASSUME NEW c \in Conn, EnlistParticipant(c) PROVE DirectoryNamesGuard'
  BY <1>14, ConnAssumption DEF EnlistParticipant
<1>15. ASSUME NEW c \in Conn, CloseReplaced(c) PROVE DirectoryNamesGuard'
  BY <1>15, ConnAssumption DEF CloseReplaced
<1>16. ASSUME NEW c \in Conn, Ack(c) PROVE DirectoryNamesGuard'
  BY <1>16, ConnAssumption DEF Ack
<1>17. ASSUME NEW c \in Conn, AckFails(c) PROVE DirectoryNamesGuard'
  BY <1>17, ConnAssumption DEF AckFails
<1>18. ASSUME NEW c \in Conn, Disconnect(c) PROVE DirectoryNamesGuard'
  BY <1>18, ConnAssumption DEF Disconnect
<1>19. ASSUME NEW c \in Conn, Leave(c) PROVE DirectoryNamesGuard'
  BY <1>19, ConnAssumption DEF Leave
<1>20. ASSUME NEW c \in Conn, LockForRemoval(c) PROVE DirectoryNamesGuard'
  BY <1>20, ConnAssumption DEF LockForRemoval
<1>21. ASSUME NEW c \in Conn, DetachSession(c) PROVE DirectoryNamesGuard'
  BY <1>21, ConnAssumption DEF DetachSession
<1>22. ASSUME NEW c \in Conn, RemoveParticipant(c) PROVE DirectoryNamesGuard'
  BY <1>22, ConnAssumption DEF RemoveParticipant
<1>23. ASSUME NEW c \in Conn, RetainDirectory(c) PROVE DirectoryNamesGuard'
  BY <1>23, ConnAssumption DEF RetainDirectory
<1>24. ASSUME NEW c \in Conn, ReleaseAdmission(c) PROVE DirectoryNamesGuard'
  BY <1>24, ConnAssumption DEF ReleaseAdmission
<1>25. ASSUME NEW c \in Conn, NEW j \in JoinRequest, LockForAttach(c, j) PROVE DirectoryNamesGuard'
  BY <1>25, ConnAssumption DEF LockForAttach
<1>26. ASSUME NEW s \in Session, SessionExpires(s) PROVE DirectoryNamesGuard'
  BY <1>26, ConnAssumption DEF SessionExpires
<1>27. ASSUME NEW d \in Device, RecordExpires(d) PROVE DirectoryNamesGuard'
  BY <1>27, ConnAssumption DEF RecordExpires
<1>28. ASSUME UNCHANGED vars PROVE DirectoryNamesGuard'
  BY <1>28, ConnAssumption DEF vars, tables, tasks, loop
<1> QED
  BY <1>1, <1>2, <1>3, <1>4, <1>5, <1>6, <1>7, <1>8, <1>9, <1>10, <1>11, <1>12, <1>13, <1>14, <1>15, <1>16, <1>17, <1>18, <1>19, <1>20, <1>21, <1>22, <1>23, <1>24, <1>25, <1>26, <1>27, <1>28 DEF Next, AcceptLoop, Join, Depart

(* A displaced connection is closed or about to be.                          *)
LEMMA DisplacedStep ==
    ASSUME TypeOK, DisplacedIsClosed, [Next]_vars
    PROVE  DisplacedIsClosed'
<1> USE DEF tables, loop, tasks, Goto, Attaching, Guarded, Removing, DisplacedIsClosed, TypeOK
<1>1. ASSUME Reject PROVE DisplacedIsClosed'
  BY <1>1, ConnAssumption DEF Reject
<1>2. ASSUME RejectionEnds PROVE DisplacedIsClosed'
  BY <1>2, ConnAssumption DEF RejectionEnds
<1>3. ASSUME SweepSessions PROVE DisplacedIsClosed'
  BY <1>3, ConnAssumption DEF SweepSessions
<1>4. ASSUME SweepParticipants PROVE DisplacedIsClosed'
  BY <1>4, ConnAssumption DEF SweepParticipants
<1>5. ASSUME SweepDirectory PROVE DisplacedIsClosed'
  BY <1>5, ConnAssumption DEF SweepDirectory
<1>6. ASSUME Stop PROVE DisplacedIsClosed'
  BY <1>6, ConnAssumption DEF Stop
<1>7. ASSUME NEW c \in Conn, Accept(c) PROVE DisplacedIsClosed'
  BY <1>7, ConnAssumption DEF Accept
<1>8. ASSUME NEW c \in Conn, Handshake(c) PROVE DisplacedIsClosed'
  BY <1>8, ConnAssumption DEF Handshake
<1>9. ASSUME NEW c \in Conn, GiveUp(c) PROVE DisplacedIsClosed'
  BY <1>9, ConnAssumption DEF GiveUp
<1>10. ASSUME NEW c \in Conn, Lookup(c) PROVE DisplacedIsClosed'
  BY <1>10, ConnAssumption DEF Lookup
<1>11. ASSUME NEW c \in Conn, ValidateDirectory(c) PROVE DisplacedIsClosed'
  BY <1>11, ConnAssumption DEF ValidateDirectory, Refuse
<1>12. ASSUME NEW c \in Conn, AttachSession(c) PROVE DisplacedIsClosed'
  BY <1>12, ConnAssumption DEF AttachSession, Refuse
<1>13. ASSUME NEW c \in Conn, PublishDirectory(c) PROVE DisplacedIsClosed'
  BY <1>13, ConnAssumption DEF PublishDirectory
<1>14. ASSUME NEW c \in Conn, EnlistParticipant(c) PROVE DisplacedIsClosed'
  BY <1>14, ConnAssumption DEF EnlistParticipant
<1>15. ASSUME NEW c \in Conn, CloseReplaced(c) PROVE DisplacedIsClosed'
  BY <1>15, ConnAssumption DEF CloseReplaced
<1>16. ASSUME NEW c \in Conn, Ack(c) PROVE DisplacedIsClosed'
  BY <1>16, ConnAssumption DEF Ack
<1>17. ASSUME NEW c \in Conn, AckFails(c) PROVE DisplacedIsClosed'
  BY <1>17, ConnAssumption DEF AckFails
<1>18. ASSUME NEW c \in Conn, Disconnect(c) PROVE DisplacedIsClosed'
  BY <1>18, ConnAssumption DEF Disconnect
<1>19. ASSUME NEW c \in Conn, Leave(c) PROVE DisplacedIsClosed'
  BY <1>19, ConnAssumption DEF Leave
<1>20. ASSUME NEW c \in Conn, LockForRemoval(c) PROVE DisplacedIsClosed'
  BY <1>20, ConnAssumption DEF LockForRemoval
<1>21. ASSUME NEW c \in Conn, DetachSession(c) PROVE DisplacedIsClosed'
  BY <1>21, ConnAssumption DEF DetachSession
<1>22. ASSUME NEW c \in Conn, RemoveParticipant(c) PROVE DisplacedIsClosed'
  BY <1>22, ConnAssumption DEF RemoveParticipant
<1>23. ASSUME NEW c \in Conn, RetainDirectory(c) PROVE DisplacedIsClosed'
  BY <1>23, ConnAssumption DEF RetainDirectory
<1>24. ASSUME NEW c \in Conn, ReleaseAdmission(c) PROVE DisplacedIsClosed'
  BY <1>24, ConnAssumption DEF ReleaseAdmission
<1>25. ASSUME NEW c \in Conn, NEW j \in JoinRequest, LockForAttach(c, j) PROVE DisplacedIsClosed'
  BY <1>25, ConnAssumption DEF LockForAttach
<1>26. ASSUME NEW s \in Session, SessionExpires(s) PROVE DisplacedIsClosed'
  BY <1>26, ConnAssumption DEF SessionExpires
<1>27. ASSUME NEW d \in Device, RecordExpires(d) PROVE DisplacedIsClosed'
  BY <1>27, ConnAssumption DEF RecordExpires
<1>28. ASSUME UNCHANGED vars PROVE DisplacedIsClosed'
  BY <1>28, ConnAssumption DEF vars, tables, tasks, loop
<1> QED
  BY <1>1, <1>2, <1>3, <1>4, <1>5, <1>6, <1>7, <1>8, <1>9, <1>10, <1>11, <1>12, <1>13, <1>14, <1>15, <1>16, <1>17, <1>18, <1>19, <1>20, <1>21, <1>22, <1>23, <1>24, <1>25, <1>26, <1>27, <1>28 DEF Next, AcceptLoop, Join, Depart

(* HoldersOf collects the connections in the roles of a set of sessions.     *)
LEMMA HoldersAre ==
    ASSUME NEW t \in [Session -> SessionRecord], NEW S \in SUBSET Session
    PROVE  \A c : c \in HoldersOf(t, S) <=>
                    c # NoConn /\ \E s \in S, r \in Role : t[s].holder[r] = c
<1>1. ASSUME NEW c, c \in HoldersOf(t, S)
      PROVE  c # NoConn /\ \E s \in S, r \in Role : t[s].holder[r] = c
  BY <1>1 DEF HoldersOf, Attached
<1>2. ASSUME NEW c, NEW s \in S, NEW r \in Role, c # NoConn, t[s].holder[r] = c
      PROVE  c \in HoldersOf(t, S)
  <2>1. <<s, r>> \in {q \in Attached(t) : q[1] \in S}
    BY <1>2 DEF Attached
  <2> QED
    BY <1>2, <2>1 DEF HoldersOf
<1> QED
  BY <1>1, <1>2

LEMMA VacantHolders ==
    \A r \in Role : Vacant.holder[r] = NoConn
  BY DEF Vacant

(* What the steps that write the session table or refuse a join change.      *)
LEMMA ValidateEffect ==
    ASSUME TypeOK, NEW c \in Conn, ValidateDirectory(c)
    PROVE  /\ pc[c] = "validate" /\ pc'[c] \in {"attach", "refused"}
           /\ \A x \in Conn \ {c} : pc'[x] = pc[x] /\ request'[x] = request[x]
           /\ sessions' = sessions /\ participants' = participants
           /\ sweep' = sweep /\ due' = due /\ replaced' = replaced
<1>1. CASE membership' = membership
  BY <1>1 DEF ValidateDirectory, Refuse, TypeOK, Goto, loop
<1>2. CASE membership' # membership
  BY <1>2 DEF ValidateDirectory, Refuse, TypeOK, Goto, loop
<1> QED
  BY <1>1, <1>2

LEMMA AttachRefused ==
    ASSUME TypeOK, NEW c \in Conn, AttachSession(c),
           ~Admits(Unexpired(sessions), request[c])
    PROVE  /\ sessions' = Unexpired(sessions)
           /\ pc[c] = "attach" /\ pc' = [pc EXCEPT ![c] = "refused"]
           /\ request' = [request EXCEPT ![c] = NoRequest]
           /\ participants' = participants /\ sweep' = sweep /\ due' = due
           /\ replaced' = replaced
  BY DEF AttachSession, Refuse, Goto, loop

LEMMA AttachAdmitted ==
    ASSUME TypeOK, Requested, NEW c \in Conn, AttachSession(c),
           Admits(Unexpired(sessions), request[c]),
           NEW k, k = request[c]
    PROVE  /\ pc[c] = "attach" /\ pc'[c] \in {"enlist", "publish"}
           /\ \A x \in Conn \ {c} : pc'[x] = pc[x]
           /\ request' = request /\ participants' = participants
           /\ sweep' = sweep /\ due' = due
           /\ k \in JoinRequest /\ k.session \in Session /\ k.role \in Role
           /\ replaced' = [replaced EXCEPT ![c] = Unexpired(sessions)[k.session].holder[k.role]]
           /\ Unexpired(sessions)[k.session] = Vacant \/ Unexpired(sessions)[k.session].auth = k.auth
           /\ \A s \in Session, r \in Role :
                sessions'[s].holder[r] =
                    IF s = k.session /\ r = k.role THEN c ELSE Unexpired(sessions)[s].holder[r]
           /\ \A s \in Session, r \in Role :
                sessions'[s].person[r] =
                    IF s = k.session /\ r = k.role THEN k.person ELSE Unexpired(sessions)[s].person[r]
           /\ \A s \in Session :
                sessions'[s].auth = IF s = k.session THEN k.auth ELSE Unexpired(sessions)[s].auth
<1> DEFINE kept == Unexpired(sessions)
<1>1. k \in JoinRequest
  BY DEF AttachSession, Requested, Attaching
<1>2. kept \in [Session -> SessionRecord]
  BY UnexpiredTable DEF TypeOK
<1>3. kept[k.session] = Vacant \/ kept[k.session].auth = k.auth
  BY DEF Admits, Opens, Enters, Resumes
<1>4. /\ sessions' = AttachRole(kept, k, c)
      /\ pc[c] = "attach" /\ pc' = [pc EXCEPT ![c] = IF k.device = NoDevice THEN "enlist" ELSE "publish"]
      /\ replaced' = [replaced EXCEPT ![c] = kept[k.session].holder[k.role]]
      /\ request' = request /\ participants' = participants /\ due' = due /\ sweep' = sweep
  BY DEF AttachSession, Goto, loop
<1> HIDE DEF kept
<1>5. c \in Conn
  OBVIOUS
<1>6. /\ \A s \in Session, r \in Role :
            sessions'[s].holder[r] =
                IF s = k.session /\ r = k.role THEN c ELSE kept[s].holder[r]
      /\ \A s \in Session, r \in Role :
            sessions'[s].person[r] =
                IF s = k.session /\ r = k.role THEN k.person ELSE kept[s].person[r]
      /\ \A s \in Session :
            sessions'[s].auth = IF s = k.session THEN k.auth ELSE kept[s].auth
  <2>0. /\ k.session \in Session /\ k.role \in Role
        /\ \A s \in Session : /\ kept[s].holder \in [Role -> Conn \cup {NoConn}]
                               /\ kept[s].person \in [Role -> Person \cup {NoPerson}]
    BY <1>1, <1>2, RequestTypes DEF SessionRecord
  <2> DEFINE new == AttachRole(kept, k, c)
  <2>1. \A s \in Session, r \in Role :
            new[s].holder[r] =
                IF s = k.session /\ r = k.role THEN c ELSE kept[s].holder[r]
    BY <1>2, <2>0 DEF AttachRole
  <2>2. \A s \in Session, r \in Role :
            new[s].person[r] =
                IF s = k.session /\ r = k.role THEN k.person ELSE kept[s].person[r]
    BY <1>2, <2>0 DEF AttachRole
  <2>3. \A s \in Session : new[s].auth = IF s = k.session THEN k.auth ELSE kept[s].auth
    BY <1>2, <2>0 DEF AttachRole
  <2>4. sessions' = new
    BY <1>4
  <2> HIDE DEF new
  <2> QED
    BY <2>1, <2>2, <2>3, <2>4
<1>7. pc'[c] \in {"enlist", "publish"} /\ \A x \in Conn \ {c} : pc'[x] = pc[x]
  BY <1>4 DEF TypeOK
<1> QED
  BY <1>1, <1>3, <1>4, <1>6, <1>7, RequestTypes DEF kept

LEMMA DetachEffect ==
    ASSUME TypeOK, Requested, NEW c \in Conn, DetachSession(c),
           NEW x, x = request[c].session
    PROVE  /\ x \in Session
           /\ pc[c] = "detach" /\ pc'[c] = "delist"
           /\ \A w \in Conn \ {c} : pc'[w] = pc[w]
           /\ request' = request /\ participants' = participants /\ replaced' = replaced
           /\ sweep' = sweep /\ due' = due
           /\ \A s \in Session \ {x} : sessions'[s] = sessions[s]
           /\ \A r \in Role : sessions'[x].holder[r] # c
           /\ \A r \in Role : sessions'[x].holder[r] \in {NoConn, sessions[x].holder[r]}
           /\ \A r \in Role : ~sessions[x].expired /\ sessions[x].holder[r] # c =>
                sessions'[x].holder[r] = sessions[x].holder[r]
           /\ \A r \in Role : sessions'[x].holder[r] # NoConn =>
                sessions'[x].person[r] = sessions[x].person[r]
           /\ sessions'[x] # Vacant => sessions'[x].auth = sessions[x].auth
<1>1. request[c] \in JoinRequest /\ x \in Session
  BY RequestTypes DEF DetachSession, Requested, Removing
<1>2. sessions' = Detach(sessions, x, c) /\ sessions \in [Session -> SessionRecord]
  BY DEF DetachSession, TypeOK
<1> QED
  BY <1>1, <1>2, DetachTable DEF DetachSession, Goto, loop, TypeOK

LEMMA HolderType ==
    ASSUME TypeOK
    PROVE  \A s \in Session, r \in Role : sessions[s].holder[r] \in Conn \cup {NoConn}
  BY DEF TypeOK, SessionRecord

LEMMA ExpireEffect ==
    ASSUME TypeOK, NEW s \in Session, SessionExpires(s)
    PROVE  \A x \in Session : /\ sessions'[x].holder = sessions[x].holder
                               /\ sessions'[x].person = sessions[x].person
                               /\ sessions'[x].auth = sessions[x].auth
  BY DEF SessionExpires, TypeOK, SessionRecord

(* A role is held between AttachSession and DetachSession, by the connection *)
(* that asked for it with the authentication of the session.                 *)
LEMMA HolderStep ==
    ASSUME TypeOK, TypeOK', Requested, HolderPhase, [Next]_vars
    PROVE  HolderPhase'

<1>1. ASSUME Reject PROVE HolderPhase'
  BY <1>1, ConnAssumption DEF Reject, TypeOK, tables, loop, tasks, Goto, Attaching, Guarded, Removing, HolderPhase
<1>2. ASSUME RejectionEnds PROVE HolderPhase'
  BY <1>2, ConnAssumption DEF RejectionEnds, TypeOK, tables, loop, tasks, Goto, Attaching, Guarded, Removing, HolderPhase
<1>3. ASSUME SweepSessions PROVE HolderPhase'
  BY <1>3, UnexpiredTable, VacantHolders DEF SweepSessions, HolderPhase, TypeOK, tables, loop, tasks, Goto, Attaching, Guarded, Removing
<1>4. ASSUME SweepParticipants PROVE HolderPhase'
  BY <1>4, ConnAssumption DEF SweepParticipants, TypeOK, tables, loop, tasks, Goto, Attaching, Guarded, Removing, HolderPhase
<1>5. ASSUME SweepDirectory PROVE HolderPhase'
  BY <1>5, ConnAssumption DEF SweepDirectory, TypeOK, tables, loop, tasks, Goto, Attaching, Guarded, Removing, HolderPhase
<1>6. ASSUME Stop PROVE HolderPhase'
  BY <1>6, ConnAssumption DEF Stop, TypeOK, tables, loop, tasks, Goto, Attaching, Guarded, Removing, HolderPhase
<1>7. ASSUME NEW c \in Conn, Accept(c) PROVE HolderPhase'
  BY <1>7, ConnAssumption DEF Accept, TypeOK, tables, loop, tasks, Goto, Attaching, Guarded, Removing, HolderPhase
<1>8. ASSUME NEW c \in Conn, Handshake(c) PROVE HolderPhase'
  BY <1>8, ConnAssumption DEF Handshake, TypeOK, tables, loop, tasks, Goto, Attaching, Guarded, Removing, HolderPhase
<1>9. ASSUME NEW c \in Conn, GiveUp(c) PROVE HolderPhase'
  BY <1>9, ConnAssumption DEF GiveUp, TypeOK, tables, loop, tasks, Goto, Attaching, Guarded, Removing, HolderPhase
<1>10. ASSUME NEW c \in Conn, Lookup(c) PROVE HolderPhase'
  BY <1>10, ConnAssumption DEF Lookup, TypeOK, tables, loop, tasks, Goto, Attaching, Guarded, Removing, HolderPhase
<1>11. ASSUME NEW c \in Conn, ValidateDirectory(c) PROVE HolderPhase'
  <2>1. /\ pc[c] = "validate" /\ pc'[c] \in {"attach", "refused"}
        /\ \A x \in Conn \ {c} : pc'[x] = pc[x] /\ request'[x] = request[x]
        /\ sessions' = sessions /\ participants' = participants
        /\ sweep' = sweep /\ due' = due /\ replaced' = replaced
    BY <1>11, ValidateEffect
  <2> QED
    BY <2>1, HolderType, ConnAssumption DEF HolderPhase, Guarded
<1>12. ASSUME NEW c \in Conn, AttachSession(c) PROVE HolderPhase'
  <2> DEFINE kept == Unexpired(sessions)
             k == request[c]
  <2>1. \A s \in Session : kept[s] \in {sessions[s], Vacant}
    BY UnexpiredTable DEF TypeOK
  <2>2. CASE ~Admits(kept, k)
    <3>1. /\ sessions' = kept
          /\ pc[c] = "attach" /\ pc' = [pc EXCEPT ![c] = "refused"]
          /\ request' = [request EXCEPT ![c] = NoRequest]
          /\ participants' = participants /\ sweep' = sweep /\ due' = due
          /\ replaced' = replaced
      BY <1>12, <2>2, AttachRefused
    <3> HIDE DEF kept
    <3> QED
      BY <2>1, <3>1, VacantHolders DEF HolderPhase, TypeOK, Guarded
  <2>3. CASE Admits(kept, k)
    <3>1. /\ pc[c] = "attach" /\ pc'[c] \in {"enlist", "publish"}
          /\ \A x \in Conn \ {c} : pc'[x] = pc[x]
          /\ request' = request /\ participants' = participants
          /\ sweep' = sweep /\ due' = due
          /\ k \in JoinRequest /\ k.session \in Session /\ k.role \in Role
          /\ replaced' = [replaced EXCEPT ![c] = kept[k.session].holder[k.role]]
          /\ kept[k.session] = Vacant \/ kept[k.session].auth = k.auth
          /\ \A s \in Session, r \in Role :
                sessions'[s].holder[r] =
                    IF s = k.session /\ r = k.role THEN c ELSE kept[s].holder[r]
          /\ \A s \in Session, r \in Role :
                sessions'[s].person[r] =
                    IF s = k.session /\ r = k.role THEN k.person ELSE kept[s].person[r]
          /\ \A s \in Session :
                sessions'[s].auth = IF s = k.session THEN k.auth ELSE kept[s].auth
      BY <1>12, <2>3, AttachAdmitted
    <3> HIDE DEF kept
    <3> QED
      BY SMTT(30), <2>1, <3>1, VacantHolders, HolderType, ConnAssumption DEF HolderPhase, Guarded
  <2> QED
    BY <2>2, <2>3
<1>13. ASSUME NEW c \in Conn, PublishDirectory(c) PROVE HolderPhase'
  BY <1>13, ConnAssumption DEF PublishDirectory, TypeOK, tables, loop, tasks, Goto, Attaching, Guarded, Removing, HolderPhase
<1>14. ASSUME NEW c \in Conn, EnlistParticipant(c) PROVE HolderPhase'
  BY <1>14, ConnAssumption DEF EnlistParticipant, TypeOK, tables, loop, tasks, Goto, Attaching, Guarded, Removing, HolderPhase
<1>15. ASSUME NEW c \in Conn, CloseReplaced(c) PROVE HolderPhase'
  BY <1>15, ConnAssumption DEF CloseReplaced, TypeOK, tables, loop, tasks, Goto, Attaching, Guarded, Removing, HolderPhase
<1>16. ASSUME NEW c \in Conn, Ack(c) PROVE HolderPhase'
  BY <1>16, ConnAssumption DEF Ack, TypeOK, tables, loop, tasks, Goto, Attaching, Guarded, Removing, HolderPhase
<1>17. ASSUME NEW c \in Conn, AckFails(c) PROVE HolderPhase'
  BY <1>17, ConnAssumption DEF AckFails, TypeOK, tables, loop, tasks, Goto, Attaching, Guarded, Removing, HolderPhase
<1>18. ASSUME NEW c \in Conn, Disconnect(c) PROVE HolderPhase'
  BY <1>18, ConnAssumption DEF Disconnect, TypeOK, tables, loop, tasks, Goto, Attaching, Guarded, Removing, HolderPhase
<1>19. ASSUME NEW c \in Conn, Leave(c) PROVE HolderPhase'
  BY <1>19, ConnAssumption DEF Leave, TypeOK, tables, loop, tasks, Goto, Attaching, Guarded, Removing, HolderPhase
<1>20. ASSUME NEW c \in Conn, LockForRemoval(c) PROVE HolderPhase'
  BY <1>20, ConnAssumption DEF LockForRemoval, TypeOK, tables, loop, tasks, Goto, Attaching, Guarded, Removing, HolderPhase
<1>21. ASSUME NEW c \in Conn, DetachSession(c) PROVE HolderPhase'
  <2> DEFINE x == request[c].session
  <2>1. /\ x \in Session
        /\ pc[c] = "detach" /\ pc'[c] = "delist"
        /\ \A w \in Conn \ {c} : pc'[w] = pc[w]
        /\ request' = request /\ participants' = participants /\ replaced' = replaced
        /\ sweep' = sweep /\ due' = due
        /\ \A s \in Session \ {x} : sessions'[s] = sessions[s]
        /\ \A r \in Role : sessions'[x].holder[r] # c
        /\ \A r \in Role : sessions'[x].holder[r] \in {NoConn, sessions[x].holder[r]}
        /\ \A r \in Role : sessions'[x].holder[r] # NoConn =>
                sessions'[x].person[r] = sessions[x].person[r]
        /\ sessions'[x] # Vacant => sessions'[x].auth = sessions[x].auth
    BY <1>21, DetachEffect
  <2> HIDE DEF x
  <2>2. ASSUME NEW s \in Session \ {x}, NEW r \in Role, sessions'[s].holder[r] # NoConn
        PROVE  sessions'[s].holder[r] \in Conn \ {c}
    <3>1. sessions[s].holder[r] = c => request[c].session = s
      BY <2>2, ConnAssumption DEF HolderPhase
    <3> QED
      BY <2>1, <2>2, <3>1, HolderType DEF x
  <2>3. ASSUME NEW r \in Role, sessions'[x].holder[r] # NoConn
        PROVE  /\ sessions'[x].holder[r] \in Conn \ {c}
               /\ sessions'[x].holder[r] = sessions[x].holder[r]
               /\ sessions'[x] # Vacant
    BY <2>1, <2>3, HolderType, VacantHolders
  <2>4. ASSUME NEW s \in Session, NEW r \in Role, sessions'[s].holder[r] # NoConn
        PROVE  /\ sessions'[s].holder[r] \in Conn \ {c}
               /\ sessions'[s].holder[r] = sessions[s].holder[r]
               /\ sessions'[s].auth = sessions[s].auth
               /\ sessions'[s].person[r] = sessions[s].person[r]
    <3>1. CASE s = x
      BY <2>1, <2>3, <2>4, <3>1
    <3>2. CASE s # x
      BY <2>1, <2>2, <2>4, <3>2
    <3> QED
      BY <3>1, <3>2
  <2> QED
    BY <2>1, <2>4 DEF HolderPhase, Guarded
<1>22. ASSUME NEW c \in Conn, RemoveParticipant(c) PROVE HolderPhase'
  BY <1>22, ConnAssumption DEF RemoveParticipant, TypeOK, tables, loop, tasks, Goto, Attaching, Guarded, Removing, HolderPhase
<1>23. ASSUME NEW c \in Conn, RetainDirectory(c) PROVE HolderPhase'
  BY <1>23, ConnAssumption DEF RetainDirectory, TypeOK, tables, loop, tasks, Goto, Attaching, Guarded, Removing, HolderPhase
<1>24. ASSUME NEW c \in Conn, ReleaseAdmission(c) PROVE HolderPhase'
  BY <1>24, ConnAssumption DEF ReleaseAdmission, TypeOK, tables, loop, tasks, Goto, Attaching, Guarded, Removing, HolderPhase
<1>25. ASSUME NEW c \in Conn, NEW j \in JoinRequest, LockForAttach(c, j) PROVE HolderPhase'
  BY <1>25, ConnAssumption DEF LockForAttach, TypeOK, tables, loop, tasks, Goto, Attaching, Guarded, Removing, HolderPhase
<1>26. ASSUME NEW s \in Session, SessionExpires(s) PROVE HolderPhase'
  <2>1. \A x \in Session : /\ sessions'[x].holder = sessions[x].holder
                            /\ sessions'[x].person = sessions[x].person
                            /\ sessions'[x].auth = sessions[x].auth
    BY <1>26, ExpireEffect
  <2> QED
    BY <1>26, <2>1 DEF SessionExpires, HolderPhase, tasks
<1>27. ASSUME NEW d \in Device, RecordExpires(d) PROVE HolderPhase'
  BY <1>27, ConnAssumption DEF RecordExpires, TypeOK, tables, loop, tasks, Goto, Attaching, Guarded, Removing, HolderPhase
<1>28. ASSUME UNCHANGED vars PROVE HolderPhase'
  BY <1>28, ConnAssumption DEF vars, tables, tasks, loop, TypeOK, tables, loop, tasks, Goto, Attaching, Guarded, Removing, HolderPhase
<1> QED
  BY <1>1, <1>2, <1>3, <1>4, <1>5, <1>6, <1>7, <1>8, <1>9, <1>10, <1>11, <1>12, <1>13, <1>14, <1>15, <1>16, <1>17, <1>18, <1>19, <1>20, <1>21, <1>22, <1>23, <1>24, <1>25, <1>26, <1>27, <1>28 DEF Next, AcceptLoop, Join, Depart

(* A holder is listed as soon as its own join is over.                       *)
LEMMA HolderListedStep ==
    ASSUME TypeOK, TypeOK', Requested, HolderPhase, HolderListed, PendingRemoval, [Next]_vars
    PROVE  HolderListed'

<1>1. ASSUME Reject PROVE HolderListed'
  BY <1>1, ConnAssumption DEF Reject, TypeOK, tables, loop, tasks, Goto, Attaching, Guarded, Removing, HolderListed
<1>2. ASSUME RejectionEnds PROVE HolderListed'
  BY <1>2, ConnAssumption DEF RejectionEnds, TypeOK, tables, loop, tasks, Goto, Attaching, Guarded, Removing, HolderListed
<1>3. ASSUME SweepSessions PROVE HolderListed'
  BY <1>3, UnexpiredTable, VacantHolders DEF SweepSessions, HolderListed, TypeOK, tables, loop, tasks, Goto, Attaching, Guarded, Removing
<1>4. ASSUME SweepParticipants PROVE HolderListed'
  BY <1>4, HoldersAre DEF SweepParticipants, PendingRemoval, Holders, HolderListed, TypeOK, tables, loop, tasks, Goto, Attaching, Guarded, Removing
<1>5. ASSUME SweepDirectory PROVE HolderListed'
  BY <1>5, ConnAssumption DEF SweepDirectory, TypeOK, tables, loop, tasks, Goto, Attaching, Guarded, Removing, HolderListed
<1>6. ASSUME Stop PROVE HolderListed'
  BY <1>6, ConnAssumption DEF Stop, TypeOK, tables, loop, tasks, Goto, Attaching, Guarded, Removing, HolderListed
<1>7. ASSUME NEW c \in Conn, Accept(c) PROVE HolderListed'
  BY <1>7, ConnAssumption DEF Accept, TypeOK, tables, loop, tasks, Goto, Attaching, Guarded, Removing, HolderListed
<1>8. ASSUME NEW c \in Conn, Handshake(c) PROVE HolderListed'
  BY <1>8, ConnAssumption DEF Handshake, TypeOK, tables, loop, tasks, Goto, Attaching, Guarded, Removing, HolderListed
<1>9. ASSUME NEW c \in Conn, GiveUp(c) PROVE HolderListed'
  BY <1>9, ConnAssumption DEF GiveUp, TypeOK, tables, loop, tasks, Goto, Attaching, Guarded, Removing, HolderListed
<1>10. ASSUME NEW c \in Conn, Lookup(c) PROVE HolderListed'
  BY <1>10, ConnAssumption DEF Lookup, TypeOK, tables, loop, tasks, Goto, Attaching, Guarded, Removing, HolderListed
<1>11. ASSUME NEW c \in Conn, ValidateDirectory(c) PROVE HolderListed'
  <2>1. /\ pc[c] = "validate" /\ pc'[c] \in {"attach", "refused"}
        /\ \A x \in Conn \ {c} : pc'[x] = pc[x] /\ request'[x] = request[x]
        /\ sessions' = sessions /\ participants' = participants
        /\ sweep' = sweep /\ due' = due /\ replaced' = replaced
    BY <1>11, ValidateEffect
  <2> QED
    BY <2>1, HolderType, ConnAssumption DEF HolderListed, Guarded
<1>12. ASSUME NEW c \in Conn, AttachSession(c) PROVE HolderListed'
  <2> DEFINE kept == Unexpired(sessions)
             k == request[c]
  <2>1. \A s \in Session : kept[s] \in {sessions[s], Vacant}
    BY UnexpiredTable DEF TypeOK
  <2>2. CASE ~Admits(kept, k)
    <3>1. /\ sessions' = kept
          /\ pc[c] = "attach" /\ pc' = [pc EXCEPT ![c] = "refused"]
          /\ request' = [request EXCEPT ![c] = NoRequest]
          /\ participants' = participants /\ sweep' = sweep /\ due' = due
          /\ replaced' = replaced
      BY <1>12, <2>2, AttachRefused
    <3> HIDE DEF kept
    <3> QED
      BY <2>1, <3>1, VacantHolders DEF HolderListed, TypeOK, Guarded
  <2>3. CASE Admits(kept, k)
    <3>1. /\ pc[c] = "attach" /\ pc'[c] \in {"enlist", "publish"}
          /\ \A x \in Conn \ {c} : pc'[x] = pc[x]
          /\ request' = request /\ participants' = participants
          /\ sweep' = sweep /\ due' = due
          /\ k \in JoinRequest /\ k.session \in Session /\ k.role \in Role
          /\ replaced' = [replaced EXCEPT ![c] = kept[k.session].holder[k.role]]
          /\ kept[k.session] = Vacant \/ kept[k.session].auth = k.auth
          /\ \A s \in Session, r \in Role :
                sessions'[s].holder[r] =
                    IF s = k.session /\ r = k.role THEN c ELSE kept[s].holder[r]
          /\ \A s \in Session, r \in Role :
                sessions'[s].person[r] =
                    IF s = k.session /\ r = k.role THEN k.person ELSE kept[s].person[r]
          /\ \A s \in Session :
                sessions'[s].auth = IF s = k.session THEN k.auth ELSE kept[s].auth
      BY <1>12, <2>3, AttachAdmitted
    <3> HIDE DEF kept
    <3> QED
      BY <2>1, <3>1, VacantHolders, HolderType, ConnAssumption DEF HolderListed
  <2> QED
    BY <2>2, <2>3
<1>13. ASSUME NEW c \in Conn, PublishDirectory(c) PROVE HolderListed'
  BY <1>13, ConnAssumption DEF PublishDirectory, TypeOK, tables, loop, tasks, Goto, Attaching, Guarded, Removing, HolderListed
<1>14. ASSUME NEW c \in Conn, EnlistParticipant(c) PROVE HolderListed'
  <2>1. replaced[c] \notin Holders \ {NoConn}
    BY <1>14 DEF EnlistParticipant, PendingRemoval
  <2> QED
    BY <1>14, <2>1, HoldersAre, ConnAssumption DEF EnlistParticipant, Holders, HolderListed, TypeOK, tables, loop, tasks, Goto, Attaching, Guarded, Removing
<1>15. ASSUME NEW c \in Conn, CloseReplaced(c) PROVE HolderListed'
  BY <1>15, ConnAssumption DEF CloseReplaced, TypeOK, tables, loop, tasks, Goto, Attaching, Guarded, Removing, HolderListed
<1>16. ASSUME NEW c \in Conn, Ack(c) PROVE HolderListed'
  BY <1>16, ConnAssumption DEF Ack, TypeOK, tables, loop, tasks, Goto, Attaching, Guarded, Removing, HolderListed
<1>17. ASSUME NEW c \in Conn, AckFails(c) PROVE HolderListed'
  BY <1>17, ConnAssumption DEF AckFails, TypeOK, tables, loop, tasks, Goto, Attaching, Guarded, Removing, HolderListed
<1>18. ASSUME NEW c \in Conn, Disconnect(c) PROVE HolderListed'
  BY <1>18, ConnAssumption DEF Disconnect, TypeOK, tables, loop, tasks, Goto, Attaching, Guarded, Removing, HolderListed
<1>19. ASSUME NEW c \in Conn, Leave(c) PROVE HolderListed'
  BY <1>19, ConnAssumption DEF Leave, TypeOK, tables, loop, tasks, Goto, Attaching, Guarded, Removing, HolderListed
<1>20. ASSUME NEW c \in Conn, LockForRemoval(c) PROVE HolderListed'
  BY <1>20, ConnAssumption DEF LockForRemoval, TypeOK, tables, loop, tasks, Goto, Attaching, Guarded, Removing, HolderListed
<1>21. ASSUME NEW c \in Conn, DetachSession(c) PROVE HolderListed'
  <2> DEFINE x == request[c].session
  <2>1. /\ x \in Session
        /\ pc[c] = "detach" /\ pc'[c] = "delist"
        /\ \A w \in Conn \ {c} : pc'[w] = pc[w]
        /\ request' = request /\ participants' = participants /\ replaced' = replaced
        /\ sweep' = sweep /\ due' = due
        /\ \A s \in Session \ {x} : sessions'[s] = sessions[s]
        /\ \A r \in Role : sessions'[x].holder[r] # c
        /\ \A r \in Role : sessions'[x].holder[r] \in {NoConn, sessions[x].holder[r]}
        /\ \A r \in Role : sessions'[x].holder[r] # NoConn =>
                sessions'[x].person[r] = sessions[x].person[r]
        /\ sessions'[x] # Vacant => sessions'[x].auth = sessions[x].auth
    BY <1>21, DetachEffect
  <2> HIDE DEF x
  <2>2. ASSUME NEW s \in Session, NEW r \in Role, sessions'[s].holder[r] # NoConn
        PROVE  /\ sessions'[s].holder[r] = sessions[s].holder[r]
               /\ sessions'[s].holder[r] \in Conn
               /\ sessions'[s].holder[r] \in participants \/ sessions'[s].holder[r] # c
    <3>1. sessions'[s].holder[r] = sessions[s].holder[r]
      BY <2>1, <2>2
    <3>2. sessions[s].holder[r] \in Conn
      BY <3>1, <2>2, HolderType
    <3> QED
      BY <2>1, <2>2, <3>1, <3>2 DEF HolderListed
  <2> QED
    BY <2>1, <2>2 DEF HolderListed
<1>22. ASSUME NEW c \in Conn, RemoveParticipant(c) PROVE HolderListed'
  BY <1>22, ConnAssumption DEF RemoveParticipant, HolderPhase, HolderListed, TypeOK, tables, loop, tasks, Goto, Attaching, Guarded, Removing
<1>23. ASSUME NEW c \in Conn, RetainDirectory(c) PROVE HolderListed'
  BY <1>23, ConnAssumption DEF RetainDirectory, TypeOK, tables, loop, tasks, Goto, Attaching, Guarded, Removing, HolderListed
<1>24. ASSUME NEW c \in Conn, ReleaseAdmission(c) PROVE HolderListed'
  BY <1>24, ConnAssumption DEF ReleaseAdmission, TypeOK, tables, loop, tasks, Goto, Attaching, Guarded, Removing, HolderListed
<1>25. ASSUME NEW c \in Conn, NEW j \in JoinRequest, LockForAttach(c, j) PROVE HolderListed'
  BY <1>25, ConnAssumption DEF LockForAttach, TypeOK, tables, loop, tasks, Goto, Attaching, Guarded, Removing, HolderListed
<1>26. ASSUME NEW s \in Session, SessionExpires(s) PROVE HolderListed'
  <2>1. \A x \in Session : /\ sessions'[x].holder = sessions[x].holder
                            /\ sessions'[x].person = sessions[x].person
                            /\ sessions'[x].auth = sessions[x].auth
    BY <1>26, ExpireEffect
  <2> QED
    BY <1>26, <2>1 DEF SessionExpires, HolderListed, tasks
<1>27. ASSUME NEW d \in Device, RecordExpires(d) PROVE HolderListed'
  BY <1>27, ConnAssumption DEF RecordExpires, TypeOK, tables, loop, tasks, Goto, Attaching, Guarded, Removing, HolderListed
<1>28. ASSUME UNCHANGED vars PROVE HolderListed'
  BY <1>28, ConnAssumption DEF vars, tables, tasks, loop, TypeOK, tables, loop, tasks, Goto, Attaching, Guarded, Removing, HolderListed
<1> QED
  BY <1>1, <1>2, <1>3, <1>4, <1>5, <1>6, <1>7, <1>8, <1>9, <1>10, <1>11, <1>12, <1>13, <1>14, <1>15, <1>16, <1>17, <1>18, <1>19, <1>20, <1>21, <1>22, <1>23, <1>24, <1>25, <1>26, <1>27, <1>28 DEF Next, AcceptLoop, Join, Depart

(* What a join or the sweep is about to take out of the participants map     *)
(* holds no role any more: nobody else touches the session table meanwhile.  *)
LEMMA PendingStep ==
    ASSUME TypeOK, TypeOK', Requested, HolderPhase, MembershipExclusive, PendingRemoval, [Next]_vars
    PROVE  PendingRemoval'

<1>1. ASSUME Reject PROVE PendingRemoval'
  BY <1>1, ConnAssumption DEF Reject, TypeOK, tables, loop, tasks, Goto, Attaching, Guarded, Removing, PendingRemoval, Holders
<1>2. ASSUME RejectionEnds PROVE PendingRemoval'
  BY <1>2, ConnAssumption DEF RejectionEnds, TypeOK, tables, loop, tasks, Goto, Attaching, Guarded, Removing, PendingRemoval, Holders
<1>3. ASSUME SweepSessions PROVE PendingRemoval'
  <2>0. /\ sessions \in [Session -> SessionRecord] /\ sessions' \in [Session -> SessionRecord]
        /\ Expired(sessions) \in SUBSET Session /\ Session \in SUBSET Session
        /\ sessions' = Unexpired(sessions) /\ due' = HoldersOf(sessions, Expired(sessions))
    BY <1>3 DEF SweepSessions, TypeOK, Expired
  <2>1. ASSUME NEW x, x \in due', x \in HoldersOf(sessions', Session)
        PROVE  FALSE
    <3>1. PICK s \in Expired(sessions), r \in Role : sessions[s].holder[r] = x /\ x # NoConn
      BY <2>0, <2>1, HoldersAre
    <3>2. PICK y \in Session, q \in Role : sessions'[y].holder[q] = x
      BY <2>0, <2>1, HoldersAre
    <3>3. sessions'[y] = sessions[y] /\ ~sessions'[y].expired
      BY <2>0, <3>1, <3>2, UnexpiredTable, VacantHolders
    <3>4. s \in Session /\ sessions[s].expired
      BY DEF Expired
    <3> QED
      BY <3>1, <3>2, <3>3, <3>4 DEF HolderPhase
  <2>2. \A c \in Conn : pc[c] \notin {"publish", "enlist"}
    BY <1>3, ConnAssumption DEF SweepSessions, MembershipExclusive, Inside, Attaching
  <2> QED
    BY <1>3, <2>1, <2>2 DEF SweepSessions, PendingRemoval, Holders, tasks
<1>4. ASSUME SweepParticipants PROVE PendingRemoval'
  BY <1>4, ConnAssumption DEF SweepParticipants, TypeOK, tables, loop, tasks, Goto, Attaching, Guarded, Removing, PendingRemoval, Holders
<1>5. ASSUME SweepDirectory PROVE PendingRemoval'
  BY <1>5, ConnAssumption DEF SweepDirectory, TypeOK, tables, loop, tasks, Goto, Attaching, Guarded, Removing, PendingRemoval, Holders
<1>6. ASSUME Stop PROVE PendingRemoval'
  BY <1>6, ConnAssumption DEF Stop, TypeOK, tables, loop, tasks, Goto, Attaching, Guarded, Removing, PendingRemoval, Holders
<1>7. ASSUME NEW c \in Conn, Accept(c) PROVE PendingRemoval'
  BY <1>7, ConnAssumption DEF Accept, TypeOK, tables, loop, tasks, Goto, Attaching, Guarded, Removing, PendingRemoval, Holders
<1>8. ASSUME NEW c \in Conn, Handshake(c) PROVE PendingRemoval'
  BY <1>8, ConnAssumption DEF Handshake, TypeOK, tables, loop, tasks, Goto, Attaching, Guarded, Removing, PendingRemoval, Holders
<1>9. ASSUME NEW c \in Conn, GiveUp(c) PROVE PendingRemoval'
  BY <1>9, ConnAssumption DEF GiveUp, TypeOK, tables, loop, tasks, Goto, Attaching, Guarded, Removing, PendingRemoval, Holders
<1>10. ASSUME NEW c \in Conn, Lookup(c) PROVE PendingRemoval'
  BY <1>10, ConnAssumption DEF Lookup, TypeOK, tables, loop, tasks, Goto, Attaching, Guarded, Removing, PendingRemoval, Holders
<1>11. ASSUME NEW c \in Conn, ValidateDirectory(c) PROVE PendingRemoval'
  <2>1. /\ pc[c] = "validate" /\ pc'[c] \in {"attach", "refused"}
        /\ \A x \in Conn \ {c} : pc'[x] = pc[x] /\ request'[x] = request[x]
        /\ sessions' = sessions /\ participants' = participants
        /\ sweep' = sweep /\ due' = due /\ replaced' = replaced
    BY <1>11, ValidateEffect
  <2> QED
    BY <2>1, HolderType, ConnAssumption DEF PendingRemoval, Holders, Guarded
<1>12. ASSUME NEW c \in Conn, AttachSession(c) PROVE PendingRemoval'
  <2> DEFINE kept == Unexpired(sessions)
             k == request[c]
  <2>1. \A s \in Session : kept[s] \in {sessions[s], Vacant}
    BY UnexpiredTable DEF TypeOK
  <2>2. CASE ~Admits(kept, k)
    <3>1. /\ sessions' = kept
          /\ pc[c] = "attach" /\ pc' = [pc EXCEPT ![c] = "refused"]
          /\ request' = [request EXCEPT ![c] = NoRequest]
          /\ participants' = participants /\ sweep' = sweep /\ due' = due
          /\ replaced' = replaced
      BY <1>12, <2>2, AttachRefused
    <3> HIDE DEF kept
    <3> QED
      BY <2>1, <3>1, VacantHolders, HoldersAre DEF PendingRemoval, Holders, TypeOK, Guarded
  <2>3. CASE Admits(kept, k)
    <3>1. /\ pc[c] = "attach" /\ pc'[c] \in {"enlist", "publish"}
          /\ \A x \in Conn \ {c} : pc'[x] = pc[x]
          /\ request' = request /\ participants' = participants
          /\ sweep' = sweep /\ due' = due
          /\ k \in JoinRequest /\ k.session \in Session /\ k.role \in Role
          /\ replaced' = [replaced EXCEPT ![c] = kept[k.session].holder[k.role]]
          /\ kept[k.session] = Vacant \/ kept[k.session].auth = k.auth
          /\ \A s \in Session, r \in Role :
                sessions'[s].holder[r] =
                    IF s = k.session /\ r = k.role THEN c ELSE kept[s].holder[r]
          /\ \A s \in Session, r \in Role :
                sessions'[s].person[r] =
                    IF s = k.session /\ r = k.role THEN k.person ELSE kept[s].person[r]
          /\ \A s \in Session :
                sessions'[s].auth = IF s = k.session THEN k.auth ELSE kept[s].auth
      BY <1>12, <2>3, AttachAdmitted
    <3> HIDE DEF kept
    <3>2. membership = c /\ sweep = "idle"
      BY <3>1, SweeperAssumption DEF MembershipExclusive, Inside, Attaching
    <3>3. \A x \in Conn : pc'[x] \in {"publish", "enlist"} => x = c
      BY <3>1, <3>2 DEF MembershipExclusive, Inside, Attaching
    <3>4. replaced'[c] = kept[k.session].holder[k.role]
      BY <3>1 DEF TypeOK
    <3>5. ASSUME NEW s \in Session, NEW r \in Role,
                 sessions'[s].holder[r] = replaced'[c], replaced'[c] # NoConn
          PROVE  FALSE
      <4>1. kept[k.session] = sessions[k.session]
        BY <2>1, <3>1, <3>4, <3>5, VacantHolders
      <4>2. /\ replaced'[c] # c
            /\ request[replaced'[c]].session = k.session
            /\ request[replaced'[c]].role = k.role
        <5>1. sessions[k.session].holder[k.role] = replaced'[c] /\ k.session \in Session /\ k.role \in Role
          BY <3>1, <3>4, <4>1
        <5>2. /\ request[replaced'[c]].session = k.session
              /\ request[replaced'[c]].role = k.role
              /\ pc[replaced'[c]] \in {"publish", "enlist", "detach"} \cup Guarded
          BY <3>5, <5>1 DEF HolderPhase
        <5> QED
          BY <3>1, <5>2 DEF Guarded
      <4>3. ~(s = k.session /\ r = k.role)
        BY <3>1, <3>5, <4>2
      <4>4. kept[s].holder[r] = replaced'[c] /\ kept[s] = sessions[s]
        BY <2>1, <3>1, <3>5, <4>3, VacantHolders
      <4> QED
        BY <3>5, <4>2, <4>3, <4>4 DEF HolderPhase
    <3> QED
      BY <3>1, <3>2, <3>3, <3>5, HoldersAre DEF PendingRemoval, Holders, TypeOK
  <2> QED
    BY <2>2, <2>3
<1>13. ASSUME NEW c \in Conn, PublishDirectory(c) PROVE PendingRemoval'
  BY <1>13, ConnAssumption DEF PublishDirectory, TypeOK, tables, loop, tasks, Goto, Attaching, Guarded, Removing, PendingRemoval, Holders
<1>14. ASSUME NEW c \in Conn, EnlistParticipant(c) PROVE PendingRemoval'
  BY <1>14, ConnAssumption DEF EnlistParticipant, TypeOK, tables, loop, tasks, Goto, Attaching, Guarded, Removing, PendingRemoval, Holders
<1>15. ASSUME NEW c \in Conn, CloseReplaced(c) PROVE PendingRemoval'
  BY <1>15, ConnAssumption DEF CloseReplaced, TypeOK, tables, loop, tasks, Goto, Attaching, Guarded, Removing, PendingRemoval, Holders
<1>16. ASSUME NEW c \in Conn, Ack(c) PROVE PendingRemoval'
  BY <1>16, ConnAssumption DEF Ack, TypeOK, tables, loop, tasks, Goto, Attaching, Guarded, Removing, PendingRemoval, Holders
<1>17. ASSUME NEW c \in Conn, AckFails(c) PROVE PendingRemoval'
  BY <1>17, ConnAssumption DEF AckFails, TypeOK, tables, loop, tasks, Goto, Attaching, Guarded, Removing, PendingRemoval, Holders
<1>18. ASSUME NEW c \in Conn, Disconnect(c) PROVE PendingRemoval'
  BY <1>18, ConnAssumption DEF Disconnect, TypeOK, tables, loop, tasks, Goto, Attaching, Guarded, Removing, PendingRemoval, Holders
<1>19. ASSUME NEW c \in Conn, Leave(c) PROVE PendingRemoval'
  BY <1>19, ConnAssumption DEF Leave, TypeOK, tables, loop, tasks, Goto, Attaching, Guarded, Removing, PendingRemoval, Holders
<1>20. ASSUME NEW c \in Conn, LockForRemoval(c) PROVE PendingRemoval'
  BY <1>20, ConnAssumption DEF LockForRemoval, TypeOK, tables, loop, tasks, Goto, Attaching, Guarded, Removing, PendingRemoval, Holders
<1>21. ASSUME NEW c \in Conn, DetachSession(c) PROVE PendingRemoval'
  <2> DEFINE x == request[c].session
  <2>1. /\ x \in Session
        /\ pc[c] = "detach" /\ pc'[c] = "delist"
        /\ \A w \in Conn \ {c} : pc'[w] = pc[w]
        /\ request' = request /\ participants' = participants /\ replaced' = replaced
        /\ sweep' = sweep /\ due' = due
        /\ \A s \in Session \ {x} : sessions'[s] = sessions[s]
        /\ \A r \in Role : sessions'[x].holder[r] # c
        /\ \A r \in Role : sessions'[x].holder[r] \in {NoConn, sessions[x].holder[r]}
        /\ \A r \in Role : sessions'[x].holder[r] # NoConn =>
                sessions'[x].person[r] = sessions[x].person[r]
        /\ sessions'[x] # Vacant => sessions'[x].auth = sessions[x].auth
    BY <1>21, DetachEffect
  <2> HIDE DEF x
  <2>2. HoldersOf(sessions', Session) \subseteq HoldersOf(sessions, Session)
    BY <2>1, HoldersAre DEF TypeOK
  <2> QED
    BY <1>21, <2>1, <2>2, ConnAssumption DEF PendingRemoval, Holders, TypeOK
<1>22. ASSUME NEW c \in Conn, RemoveParticipant(c) PROVE PendingRemoval'
  BY <1>22, ConnAssumption DEF RemoveParticipant, TypeOK, tables, loop, tasks, Goto, Attaching, Guarded, Removing, PendingRemoval, Holders
<1>23. ASSUME NEW c \in Conn, RetainDirectory(c) PROVE PendingRemoval'
  BY <1>23, ConnAssumption DEF RetainDirectory, TypeOK, tables, loop, tasks, Goto, Attaching, Guarded, Removing, PendingRemoval, Holders
<1>24. ASSUME NEW c \in Conn, ReleaseAdmission(c) PROVE PendingRemoval'
  BY <1>24, ConnAssumption DEF ReleaseAdmission, TypeOK, tables, loop, tasks, Goto, Attaching, Guarded, Removing, PendingRemoval, Holders
<1>25. ASSUME NEW c \in Conn, NEW j \in JoinRequest, LockForAttach(c, j) PROVE PendingRemoval'
  BY <1>25, ConnAssumption DEF LockForAttach, TypeOK, tables, loop, tasks, Goto, Attaching, Guarded, Removing, PendingRemoval, Holders
<1>26. ASSUME NEW s \in Session, SessionExpires(s) PROVE PendingRemoval'
  <2>1. \A x \in Session : /\ sessions'[x].holder = sessions[x].holder
                            /\ sessions'[x].person = sessions[x].person
                            /\ sessions'[x].auth = sessions[x].auth
    BY <1>26, ExpireEffect
  <2>2. HoldersOf(sessions', Session) \subseteq HoldersOf(sessions, Session)
    BY <2>1, HoldersAre DEF TypeOK
  <2> QED
    BY <1>26, <2>2 DEF SessionExpires, PendingRemoval, Holders, tasks, loop
<1>27. ASSUME NEW d \in Device, RecordExpires(d) PROVE PendingRemoval'
  BY <1>27, ConnAssumption DEF RecordExpires, TypeOK, tables, loop, tasks, Goto, Attaching, Guarded, Removing, PendingRemoval, Holders
<1>28. ASSUME UNCHANGED vars PROVE PendingRemoval'
  BY <1>28, ConnAssumption DEF vars, tables, tasks, loop, TypeOK, tables, loop, tasks, Goto, Attaching, Guarded, Removing, PendingRemoval, Holders
<1> QED
  BY <1>1, <1>2, <1>3, <1>4, <1>5, <1>6, <1>7, <1>8, <1>9, <1>10, <1>11, <1>12, <1>13, <1>14, <1>15, <1>16, <1>17, <1>18, <1>19, <1>20, <1>21, <1>22, <1>23, <1>24, <1>25, <1>26, <1>27, <1>28 DEF Next, AcceptLoop, Join, Depart

LEMMA RecordEffect ==
    ASSUME TypeOK, NEW d \in Device, RecordExpires(d)
    PROVE  \A y \in Device : /\ directory'[y].person = directory[y].person
                             /\ directory[y] = NoRecord => directory'[y] = NoRecord
<1>1. directory[d] \in DirectoryRecord /\ directory[d] # NoRecord
  BY DEF RecordExpires, TypeOK, NoRecord
<1>2. directory'[d].person = directory[d].person
  BY <1>1 DEF RecordExpires, TypeOK, DirectoryRecord
<1>3. \A y \in Device \ {d} : directory'[y] = directory[y]
  BY DEF RecordExpires, TypeOK
<1> QED
  BY <1>1, <1>2, <1>3

(* Between the check of a directory slot and its publication the mutex keeps *)
(* every other publication out.                                              *)
LEMMA SlotStep ==
    ASSUME TypeOK, TypeOK', Requested, MembershipExclusive, SlotReserved, [Next]_vars
    PROVE  SlotReserved'
<1> USE DEF tables, loop, tasks, Goto, Attaching, Removing, SlotReserved, TypeOK
<1>d. \A c \in Conn : pc[c] \in Attaching => request[c].device \in Device \cup {NoDevice}
  BY RequestTypes DEF Requested
<1>e. \A d \in Device : Retained(directory)[d] \in {directory[d], NoRecord}
  BY DEF Retained
<1>1. ASSUME Reject PROVE SlotReserved'
  BY <1>1 DEF Reject
<1>2. ASSUME RejectionEnds PROVE SlotReserved'
  BY <1>2 DEF RejectionEnds
<1>3. ASSUME SweepSessions PROVE SlotReserved'
  BY <1>3 DEF SweepSessions
<1>4. ASSUME SweepParticipants PROVE SlotReserved'
  BY <1>4 DEF SweepParticipants
<1>5. ASSUME SweepDirectory PROVE SlotReserved'
  BY <1>5, <1>d, <1>e DEF SweepDirectory
<1>6. ASSUME Stop PROVE SlotReserved'
  BY <1>6 DEF Stop
<1>7. ASSUME NEW c \in Conn, Accept(c) PROVE SlotReserved'
  BY <1>7 DEF Accept
<1>8. ASSUME NEW c \in Conn, Handshake(c) PROVE SlotReserved'
  BY <1>8 DEF Handshake
<1>9. ASSUME NEW c \in Conn, GiveUp(c) PROVE SlotReserved'
  BY <1>9 DEF GiveUp
<1>10. ASSUME NEW c \in Conn, Lookup(c) PROVE SlotReserved'
  BY <1>10, <1>d, <1>e DEF Lookup
<1>11. ASSUME NEW c \in Conn, ValidateDirectory(c) PROVE SlotReserved'
  <2>1. directory' = Retained(directory) /\ pc[c] = "validate"
    BY <1>11 DEF ValidateDirectory
  <2>2. \A x \in Conn \ {c} : pc'[x] = pc[x] /\ request'[x] = request[x]
    BY <1>11, ValidateEffect
  <2>3. ASSUME NEW x \in Conn \ {c}, pc'[x] \in {"attach", "publish"}, request'[x].device # NoDevice
        PROVE  \/ directory'[request'[x].device] = NoRecord
               \/ directory'[request'[x].device].person = request'[x].person
    BY <2>1, <2>2, <2>3, <1>d, <1>e
  <2>4. ASSUME pc'[c] \in {"attach", "publish"}
        PROVE  /\ request' = request
               /\ \/ directory'[request'[c].device] = NoRecord
                  \/ directory'[request'[c].device].person = request'[c].person
    BY <1>11, <2>4 DEF ValidateDirectory, Refuse
  <2>5. pc'[c] # "validate" /\ pc'[c] # "publish"
    BY <1>11, ValidateEffect
  <2> QED
    BY <2>2, <2>3, <2>4, <2>5
<1>12. ASSUME NEW c \in Conn, AttachSession(c) PROVE SlotReserved'
  BY <1>12 DEF AttachSession, Refuse
<1>13. ASSUME NEW c \in Conn, PublishDirectory(c) PROVE SlotReserved'
  <2>1. \A x \in Conn \ {c} : pc'[x] = pc[x] /\ pc[x] \notin {"attach", "publish"}
    BY <1>13, ConnAssumption DEF PublishDirectory, MembershipExclusive, Inside
  <2> QED
    BY <1>13, <2>1 DEF PublishDirectory
<1>14. ASSUME NEW c \in Conn, EnlistParticipant(c) PROVE SlotReserved'
  BY <1>14 DEF EnlistParticipant
<1>15. ASSUME NEW c \in Conn, CloseReplaced(c) PROVE SlotReserved'
  BY <1>15 DEF CloseReplaced
<1>16. ASSUME NEW c \in Conn, Ack(c) PROVE SlotReserved'
  BY <1>16 DEF Ack
<1>17. ASSUME NEW c \in Conn, AckFails(c) PROVE SlotReserved'
  BY <1>17 DEF AckFails
<1>18. ASSUME NEW c \in Conn, Disconnect(c) PROVE SlotReserved'
  BY <1>18 DEF Disconnect
<1>19. ASSUME NEW c \in Conn, Leave(c) PROVE SlotReserved'
  BY <1>19 DEF Leave
<1>20. ASSUME NEW c \in Conn, LockForRemoval(c) PROVE SlotReserved'
  BY <1>20 DEF LockForRemoval
<1>21. ASSUME NEW c \in Conn, DetachSession(c) PROVE SlotReserved'
  BY <1>21 DEF DetachSession
<1>22. ASSUME NEW c \in Conn, RemoveParticipant(c) PROVE SlotReserved'
  BY <1>22 DEF RemoveParticipant
<1>23. ASSUME NEW c \in Conn, RetainDirectory(c) PROVE SlotReserved'
  BY <1>23, <1>d DEF RetainDirectory
<1>24. ASSUME NEW c \in Conn, ReleaseAdmission(c) PROVE SlotReserved'
  BY <1>24 DEF ReleaseAdmission
<1>25. ASSUME NEW c \in Conn, NEW j \in JoinRequest, LockForAttach(c, j) PROVE SlotReserved'
  BY <1>25 DEF LockForAttach
<1>26. ASSUME NEW s \in Session, SessionExpires(s) PROVE SlotReserved'
  BY <1>26 DEF SessionExpires
<1>27. ASSUME NEW d \in Device, RecordExpires(d) PROVE SlotReserved'
  <2>1. \A y \in Device : /\ directory'[y].person = directory[y].person
                           /\ directory[y] = NoRecord => directory'[y] = NoRecord
    BY <1>27, RecordEffect
  <2> QED
    BY <1>27, <2>1, <1>d DEF RecordExpires
<1>28. ASSUME UNCHANGED vars PROVE SlotReserved'
  BY <1>28 DEF vars, tables, tasks, loop
<1> QED
  BY <1>1, <1>2, <1>3, <1>4, <1>5, <1>6, <1>7, <1>8, <1>9, <1>10, <1>11, <1>12, <1>13, <1>14, <1>15, <1>16, <1>17, <1>18, <1>19, <1>20, <1>21, <1>22, <1>23, <1>24, <1>25, <1>26, <1>27, <1>28 DEF Next, AcceptLoop, Join, Depart

-----------------------------------------------------------------------------
(* The inductive invariant. *)

LEMMA IInvInit ==
    ASSUME Init
    PROVE  IInv
<1> USE DEF Init
<1>1. Vacant \in SessionRecord /\ \A r \in Role : Vacant.holder[r] = NoConn
  BY DEF Vacant, SessionRecord
<1>2. TypeOK
  <2>1. rejecting \in 0..MaxRejections /\ active \in Nat
    BY RejectionAssumption
  <2>2. directory \in [Device -> DirectoryRecord \cup {NoRecord}] /\ pc \in [Conn -> PC]
    BY DEF PC
  <2>3. sessions \in [Session -> SessionRecord]
    BY <1>1
  <2> QED
    BY <2>1, <2>2, <2>3 DEF TypeOK
<1>3. AdmissionAccounting
  <2>1. {c \in Conn : Admitted(c)} = {}
    BY DEF Admitted
  <2> QED
    BY <2>1, FS_EmptySet, LimitAssumption DEF AdmissionAccounting
<1>4. HoldersOf(sessions, Session) = {}
  BY <1>1, <1>2, HoldersAre DEF TypeOK
<1> QED
  BY <1>1, <1>2, <1>3, <1>4
     DEF IInv, MembershipExclusive, Inside, Attaching, Removing, Guarded, Requested, HolderPhase,
         ListedPhase, HolderListed, PendingRemoval, Holders, SlotReserved, DirectoryNamesGuard,
         DisplacedIsClosed

LEMMA IInvStep ==
    ASSUME IInv, [Next]_vars
    PROVE  IInv'
<1>1. TypeOK'
  BY TypeOKStep DEF IInv
<1>2. AdmissionAccounting' /\ MembershipExclusive' /\ Requested' /\ ListedPhase'
  BY <1>1, AdmissionStep, ExclusiveStep, RequestedStep, ListedStep DEF IInv
<1>3. HolderPhase' /\ HolderListed' /\ PendingRemoval'
  BY <1>1, HolderStep, HolderListedStep, PendingStep DEF IInv
<1>4. SlotReserved' /\ DirectoryNamesGuard' /\ DisplacedIsClosed'
  BY <1>1, SlotStep, DirectoryStep, DisplacedStep DEF IInv
<1> QED
  BY <1>1, <1>2, <1>3, <1>4 DEF IInv

(* Every reachable state of a relay with any number of connections, sessions *)
(* and devices satisfies the inductive invariant.                            *)
THEOREM Invariance == Spec => []IInv
<1>1. Init => IInv
  BY IInvInit
<1>2. IInv /\ [Next]_vars => IInv'
  BY IInvStep
<1> QED
  BY <1>1, <1>2, PTL DEF Spec

(* The variables keep their types: in particular active_connections, which   *)
(* the code decrements with no check, never goes below zero.                 *)
THEOREM TypeCorrect == Spec => []TypeOK
<1>1. IInv => TypeOK
  BY DEF IInv
<1> QED
  BY <1>1, Invariance, PTL

(* try_reserve and the AdmissionGuard agree on every path: the counter is    *)
(* the number of tasks that hold a guard and stays within max_connections.   *)
THEOREM AdmissionIsAccounted == Spec => []AdmissionAccounting
<1>1. IInv => AdmissionAccounting
  BY DEF IInv
<1> QED
  BY <1>1, Invariance, PTL

(* The joins, the departures and the sweep exclude each other (the           *)
(* membership mutex of RelayState).                                          *)
THEOREM Exclusion == Spec => []MembershipExclusive
<1>1. IInv => MembershipExclusive
  BY DEF IInv
<1> QED
  BY <1>1, Invariance, PTL

(* A task that has no ParticipantGuard is in none of the three maps,         *)
(* whatever ended it.                                                        *)
THEOREM NoTrace == Spec => []NoResidue
<1>1. IInv => NoResidue
  <2> SUFFICES ASSUME IInv, NEW c \in Conn,
                      pc[c] \in {"idle", "handshake", "waiting", "refused", "release", "gone"}
               PROVE  /\ c \notin Holders
                      /\ c \notin participants
                      /\ \A d \in Device : directory[d].conn # c
    BY DEF NoResidue
  <2>1. c \notin Holders
    <3>1. sessions \in [Session -> SessionRecord] /\ Session \in SUBSET Session
      BY DEF IInv, TypeOK
    <3>2. \A s \in Session, r \in Role : sessions[s].holder[r] # c
      BY ConnAssumption DEF IInv, HolderPhase, Guarded
    <3> QED
      BY <3>1, <3>2, HoldersAre DEF Holders
  <2>2. c \notin participants
    BY DEF IInv, ListedPhase, Guarded
  <2>3. \A d \in Device : directory[d].conn # c
    BY ConnAssumption DEF IInv, DirectoryNamesGuard, NoRecord, Guarded, Removing
  <2> QED
    BY <2>1, <2>2, <2>3
<1> QED
  BY <1>1, Invariance, PTL

(* Outside the membership mutex the session table and the participants map   *)
(* agree, and every holder is where its own join put it.                     *)
THEOREM Agreement == Spec => []TablesAgree
<1>1. IInv => TablesAgree
  <2> SUFFICES ASSUME IInv, membership = NoConn, NEW s \in Session, NEW r \in Role,
                      sessions[s].holder[r] # NoConn
               PROVE  LET c == sessions[s].holder[r]
                      IN  /\ c \in participants
                          /\ request[c].session = s /\ request[c].role = r
                          /\ request[c].auth = sessions[s].auth
                          /\ request[c].person = sessions[s].person[r]
    BY DEF TablesAgree
  <2> DEFINE c == sessions[s].holder[r]
  <2>1. c \in Conn
    BY HolderType DEF IInv
  <2>2. pc[c] \notin {"publish", "enlist"}
    BY <2>1, ConnAssumption DEF IInv, MembershipExclusive, Inside, Attaching
  <2>3. c \in participants
    BY <2>2 DEF IInv, HolderListed
  <2> QED
    BY <2>3 DEF IInv, HolderPhase
<1> QED
  BY <1>1, Invariance, PTL

(* No directory entry outlives the connection that published it, and none    *)
(* is attributed to another participant or device.                           *)
THEOREM DirectoryIsOwned == Spec => []DirectoryNamesGuard
<1>1. IInv => DirectoryNamesGuard
  BY DEF IInv
<1> QED
  BY <1>1, Invariance, PTL

(* A connection the relay took out of its maps is closed, or about to be.    *)
THEOREM DisplacementCloses == Spec => []DisplacedIsClosed
<1>1. IInv => DisplacedIsClosed
  BY DEF IInv
<1> QED
  BY <1>1, Invariance, PTL

-----------------------------------------------------------------------------
(* Action properties. *)

(* Among the steps that write the session table, only a resumption and the   *)
(* departure of the holder itself take a role of a live session away from it.*)
LEMMA RoleStep ==
    ASSUME IInv, [Next]_vars, NEW s \in Session, NEW r \in Role,
           sessions[s].holder[r] # NoConn, ~sessions[s].expired,
           sessions'[s].holder[r] # sessions[s].holder[r]
    PROVE  \/ /\ sessions'[s].holder[r] # NoConn
              /\ sessions'[s].person[r] = sessions[s].person[r]
           \/ /\ sessions'[s].holder[r] = NoConn
              /\ pc[sessions[s].holder[r]] = "detach"
<1> DEFINE goal == \/ /\ sessions'[s].holder[r] # NoConn
                      /\ sessions'[s].person[r] = sessions[s].person[r]
                   \/ /\ sessions'[s].holder[r] = NoConn
                      /\ pc[sessions[s].holder[r]] = "detach"
<1> SUFFICES goal
  OBVIOUS
<1>a. TypeOK /\ Requested /\ sessions \in [Session -> SessionRecord]
  BY DEF IInv, TypeOK
<1>b. sessions' # sessions
  OBVIOUS
<1>c. Unexpired(sessions)[s] = sessions[s]
  BY <1>a, UnexpiredTable
<1> HIDE DEF goal
<1>s. ASSUME SweepSessions PROVE goal
  BY <1>s, <1>c DEF SweepSessions
<1>t. ASSUME NEW c \in Conn, AttachSession(c) PROVE goal
  <2> DEFINE k == request[c]
             kept == Unexpired(sessions)
  <2>1. Admits(kept, k)
    BY <1>t, <1>a, <1>c, AttachRefused
  <2>2. /\ \A q \in Session, p \in Role :
              sessions'[q].holder[p] =
                  IF q = k.session /\ p = k.role THEN c ELSE kept[q].holder[p]
        /\ \A q \in Session, p \in Role :
              sessions'[q].person[p] =
                  IF q = k.session /\ p = k.role THEN k.person ELSE kept[q].person[p]
    BY <1>t, <1>a, <2>1, AttachAdmitted
  <2>3. s = k.session /\ r = k.role
    BY <2>2, <1>c
  <2>4. kept[s].person[r] = k.person
    <3>1. kept[s].holder[r] # NoConn /\ kept[s] # Vacant
      BY <1>c, VacantHolders
    <3> QED
      BY <2>1, <2>3, <3>1 DEF Admits, Opens, Enters, Resumes
  <2>5. sessions'[s].holder[r] = c /\ sessions'[s].person[r] = k.person
    BY <2>2, <2>3
  <2> QED
    BY <2>4, <2>5, <1>c, ConnAssumption DEF goal
<1>u. ASSUME NEW c \in Conn, DetachSession(c) PROVE goal
  <2> DEFINE x == request[c].session
  <2>1. /\ pc[c] = "detach"
        /\ \A q \in Session \ {x} : sessions'[q] = sessions[q]
        /\ \A p \in Role : sessions'[x].holder[p] \in {NoConn, sessions[x].holder[p]}
        /\ \A p \in Role : ~sessions[x].expired /\ sessions[x].holder[p] # c =>
                sessions'[x].holder[p] = sessions[x].holder[p]
    BY <1>u, <1>a, DetachEffect
  <2>2. s = x
    BY <2>1
  <2>3. sessions[s].holder[r] = c /\ sessions'[s].holder[r] = NoConn
    BY <2>1, <2>2
  <2> QED
    BY <2>1, <2>3 DEF goal
<1>v. ASSUME NEW x \in Session, SessionExpires(x) PROVE goal
  BY <1>v, <1>a, ExpireEffect
<1> USE <1>b DEF tables, tasks, loop
<1>1. ASSUME Reject PROVE goal
  BY <1>1 DEF Reject
<1>2. ASSUME RejectionEnds PROVE goal
  BY <1>2 DEF RejectionEnds
<1>3. ASSUME SweepSessions PROVE goal
  BY <1>s, <1>3
<1>4. ASSUME SweepParticipants PROVE goal
  BY <1>4 DEF SweepParticipants
<1>5. ASSUME SweepDirectory PROVE goal
  BY <1>5 DEF SweepDirectory
<1>6. ASSUME Stop PROVE goal
  BY <1>6 DEF Stop
<1>7. ASSUME NEW c \in Conn, Accept(c) PROVE goal
  BY <1>7 DEF Accept
<1>8. ASSUME NEW c \in Conn, Handshake(c) PROVE goal
  BY <1>8 DEF Handshake
<1>9. ASSUME NEW c \in Conn, GiveUp(c) PROVE goal
  BY <1>9 DEF GiveUp
<1>10. ASSUME NEW c \in Conn, Lookup(c) PROVE goal
  BY <1>10 DEF Lookup
<1>11. ASSUME NEW c \in Conn, ValidateDirectory(c) PROVE goal
  BY <1>11 DEF ValidateDirectory
<1>12. ASSUME NEW c \in Conn, AttachSession(c) PROVE goal
  BY <1>t, <1>12
<1>13. ASSUME NEW c \in Conn, PublishDirectory(c) PROVE goal
  BY <1>13 DEF PublishDirectory
<1>14. ASSUME NEW c \in Conn, EnlistParticipant(c) PROVE goal
  BY <1>14 DEF EnlistParticipant
<1>15. ASSUME NEW c \in Conn, CloseReplaced(c) PROVE goal
  BY <1>15 DEF CloseReplaced
<1>16. ASSUME NEW c \in Conn, Ack(c) PROVE goal
  BY <1>16 DEF Ack
<1>17. ASSUME NEW c \in Conn, AckFails(c) PROVE goal
  BY <1>17 DEF AckFails
<1>18. ASSUME NEW c \in Conn, Disconnect(c) PROVE goal
  BY <1>18 DEF Disconnect
<1>19. ASSUME NEW c \in Conn, Leave(c) PROVE goal
  BY <1>19 DEF Leave
<1>20. ASSUME NEW c \in Conn, LockForRemoval(c) PROVE goal
  BY <1>20 DEF LockForRemoval
<1>21. ASSUME NEW c \in Conn, DetachSession(c) PROVE goal
  BY <1>u, <1>21
<1>22. ASSUME NEW c \in Conn, RemoveParticipant(c) PROVE goal
  BY <1>22 DEF RemoveParticipant
<1>23. ASSUME NEW c \in Conn, RetainDirectory(c) PROVE goal
  BY <1>23 DEF RetainDirectory
<1>24. ASSUME NEW c \in Conn, ReleaseAdmission(c) PROVE goal
  BY <1>24 DEF ReleaseAdmission
<1>25. ASSUME NEW c \in Conn, NEW j \in JoinRequest, LockForAttach(c, j) PROVE goal
  BY <1>25 DEF LockForAttach
<1>26. ASSUME NEW e \in Session, SessionExpires(e) PROVE goal
  BY <1>v, <1>26
<1>27. ASSUME NEW d \in Device, RecordExpires(d) PROVE goal
  BY <1>27 DEF RecordExpires
<1>28. ASSUME UNCHANGED vars PROVE goal
  BY <1>28 DEF vars
<1> QED
  BY <1>1, <1>2, <1>3, <1>4, <1>5, <1>6, <1>7, <1>8, <1>9, <1>10, <1>11, <1>12, <1>13, <1>14, <1>15, <1>16, <1>17, <1>18, <1>19, <1>20, <1>21, <1>22, <1>23, <1>24, <1>25, <1>26, <1>27, <1>28 DEF Next, AcceptLoop, Join, Depart

(* A role of a live session is handed over only to its own participant, and  *)
(* vacated only by the departure of the connection that holds it.            *)
THEOREM RolesAreKept == Spec => RoleIsKept
<1>1. IInv /\ [Next]_vars =>
        [ \A s \in Session, r \in Role :
            LET c == sessions[s].holder[r]
                n == sessions'[s].holder[r]
            IN  c # NoConn /\ ~sessions[s].expired /\ n # c =>
                  \/ n # NoConn /\ sessions'[s].person[r] = sessions[s].person[r]
                  \/ n = NoConn /\ pc[c] = "detach" ]_vars
  BY RoleStep
<1> QED
  BY <1>1, Invariance, PTL DEF RoleIsKept, Spec

(* An unexpired directory entry changes only at its own publication or when  *)
(* its own connection retains it away.                                       *)
LEMMA SlotChange ==
    ASSUME IInv, [Next]_vars, NEW y \in Device,
           directory[y] # NoRecord, directory[y].expiry # "passed", directory'[y] # directory[y]
    PROVE  \/ directory'[y].person = directory[y].person
           \/ directory'[y] = NoRecord /\ pc[directory[y].conn] = "retain"
<1> DEFINE goal == \/ directory'[y].person = directory[y].person
                   \/ directory'[y] = NoRecord /\ pc[directory[y].conn] = "retain"
<1> SUFFICES goal
  OBVIOUS
<1>a. directory' # directory /\ TypeOK /\ SlotReserved
  BY DEF IInv
<1>b. Retained(directory)[y] = directory[y]
  BY DEF Retained
<1> HIDE DEF goal
<1> USE <1>a DEF tables, tasks, loop
<1>1. ASSUME Reject PROVE goal
  BY <1>1 DEF Reject
<1>2. ASSUME RejectionEnds PROVE goal
  BY <1>2 DEF RejectionEnds
<1>3. ASSUME SweepSessions PROVE goal
  BY <1>3 DEF SweepSessions
<1>4. ASSUME SweepParticipants PROVE goal
  BY <1>4 DEF SweepParticipants
<1>5. ASSUME SweepDirectory PROVE goal
  BY <1>5, <1>b DEF SweepDirectory
<1>6. ASSUME Stop PROVE goal
  BY <1>6 DEF Stop
<1>7. ASSUME NEW c \in Conn, Accept(c) PROVE goal
  BY <1>7 DEF Accept
<1>8. ASSUME NEW c \in Conn, Handshake(c) PROVE goal
  BY <1>8 DEF Handshake
<1>9. ASSUME NEW c \in Conn, GiveUp(c) PROVE goal
  BY <1>9 DEF GiveUp
<1>10. ASSUME NEW c \in Conn, Lookup(c) PROVE goal
  BY <1>10, <1>b DEF Lookup
<1>11. ASSUME NEW c \in Conn, ValidateDirectory(c) PROVE goal
  BY <1>11, <1>b DEF ValidateDirectory
<1>12. ASSUME NEW c \in Conn, AttachSession(c) PROVE goal
  BY <1>12 DEF AttachSession
<1>13. ASSUME NEW c \in Conn, PublishDirectory(c) PROVE goal
  <2>1. y = request[c].device
    BY <1>13 DEF PublishDirectory, TypeOK
  <2>2. request[c].person = directory[y].person
    BY <1>13, <2>1 DEF PublishDirectory, SlotReserved
  <2>3. directory'[y].person = request[c].person
    BY <1>13, <2>1 DEF PublishDirectory, TypeOK
  <2> QED
    BY <2>2, <2>3 DEF goal
<1>14. ASSUME NEW c \in Conn, EnlistParticipant(c) PROVE goal
  BY <1>14 DEF EnlistParticipant
<1>15. ASSUME NEW c \in Conn, CloseReplaced(c) PROVE goal
  BY <1>15 DEF CloseReplaced
<1>16. ASSUME NEW c \in Conn, Ack(c) PROVE goal
  BY <1>16 DEF Ack
<1>17. ASSUME NEW c \in Conn, AckFails(c) PROVE goal
  BY <1>17 DEF AckFails
<1>18. ASSUME NEW c \in Conn, Disconnect(c) PROVE goal
  BY <1>18 DEF Disconnect
<1>19. ASSUME NEW c \in Conn, Leave(c) PROVE goal
  BY <1>19 DEF Leave
<1>20. ASSUME NEW c \in Conn, LockForRemoval(c) PROVE goal
  BY <1>20 DEF LockForRemoval
<1>21. ASSUME NEW c \in Conn, DetachSession(c) PROVE goal
  BY <1>21 DEF DetachSession
<1>22. ASSUME NEW c \in Conn, RemoveParticipant(c) PROVE goal
  BY <1>22 DEF RemoveParticipant
<1>23. ASSUME NEW c \in Conn, RetainDirectory(c) PROVE goal
  BY <1>23 DEF RetainDirectory, TypeOK, goal
<1>24. ASSUME NEW c \in Conn, ReleaseAdmission(c) PROVE goal
  BY <1>24 DEF ReleaseAdmission
<1>25. ASSUME NEW c \in Conn, NEW j \in JoinRequest, LockForAttach(c, j) PROVE goal
  BY <1>25 DEF LockForAttach
<1>26. ASSUME NEW s \in Session, SessionExpires(s) PROVE goal
  BY <1>26 DEF SessionExpires
<1>27. ASSUME NEW d \in Device, RecordExpires(d) PROVE goal
  <2>1. directory'[y].person = directory[y].person
    BY <1>27, RecordEffect DEF IInv
  <2> QED
    BY <2>1 DEF goal
<1>28. ASSUME UNCHANGED vars PROVE goal
  BY <1>28 DEF vars
<1> QED
  BY <1>1, <1>2, <1>3, <1>4, <1>5, <1>6, <1>7, <1>8, <1>9, <1>10, <1>11, <1>12, <1>13, <1>14, <1>15, <1>16, <1>17, <1>18, <1>19, <1>20, <1>21, <1>22, <1>23, <1>24, <1>25, <1>26, <1>27, <1>28 DEF Next, AcceptLoop, Join, Depart

(* A device id that is registered and has not expired is never taken over by *)
(* another participant, however joins and departures interleave.             *)
THEOREM DirectorySlotsAreKept == Spec => DirectorySlotIsKept
<1>1. IInv /\ [Next]_vars =>
        [ \A d \in Device :
            directory[d] # NoRecord /\ directory[d].expiry # "passed" /\ directory'[d] # directory[d] =>
              \/ directory'[d].person = directory[d].person
              \/ directory'[d] = NoRecord /\ pc[directory[d].conn] = "retain" ]_vars
  BY SlotChange
<1> QED
  BY <1>1, Invariance, PTL DEF DirectorySlotIsKept, Spec

-----------------------------------------------------------------------------
(* The limits of the session table. *)

(* The sessions and the attached roles of a table can be counted.            *)
LEMMA TableFinite ==
    ASSUME NEW t \in [Session -> SessionRecord]
    PROVE  /\ IsFiniteSet(Known(t)) /\ Cardinality(Known(t)) \in Nat
           /\ IsFiniteSet(Attached(t)) /\ Cardinality(Attached(t)) \in Nat
<1>1. IsFiniteSet(Session)
  BY SessionAssumption
<1>2. IsFiniteSet(Role)
  <2>1. Role = {"Host"} \cup {"Controller"}
    BY DEF Role
  <2> QED
    BY <2>1, FS_Singleton, FS_Union
<1>3. IsFiniteSet(Session \X Role)
  BY <1>1, <1>2, FS_Product
<1>4. IsFiniteSet(Known(t))
  BY <1>1, FS_Subset DEF Known
<1>5. IsFiniteSet(Attached(t))
  BY <1>3, FS_Subset DEF Attached
<1> QED
  BY <1>4, <1>5, FS_CardinalityType

(* A table that knows no session and no attached role another one does not   *)
(* know is within the limits if that one is.                                 *)
LEMMA SmallerTable ==
    ASSUME NEW t \in [Session -> SessionRecord], NEW u \in [Session -> SessionRecord],
           \A s \in Session : t[s] = Vacant => u[s] = Vacant,
           \A s \in Session, r \in Role : t[s].holder[r] = NoConn => u[s].holder[r] = NoConn
    PROVE  /\ Cardinality(Known(u)) <= Cardinality(Known(t))
           /\ Cardinality(Attached(u)) <= Cardinality(Attached(t))
<1>1. Known(u) \in SUBSET Known(t)
  BY DEF Known
<1>2. Attached(u) \in SUBSET Attached(t)
  BY DEF Attached
<1> QED
  BY <1>1, <1>2, TableFinite, FS_Subset

(* An accepted join stays within both limits.                                *)
LEMMA AttachWithinLimits ==
    ASSUME NEW t \in [Session -> SessionRecord], NEW j \in JoinRequest, NEW c \in Conn,
           Admits(t, j),
           Cardinality(Known(t)) <= MaxSessions, Cardinality(Attached(t)) <= MaxConnections
    PROVE  /\ Cardinality(Known(AttachRole(t, j, c))) <= MaxSessions
           /\ Cardinality(Attached(AttachRole(t, j, c))) <= MaxConnections
<1> DEFINE u == AttachRole(t, j, c)
           K == Known(t)
           A == Attached(t)
           slot == <<j.session, j.role>>
<1>1. j.session \in Session /\ j.role \in Role
  BY RequestTypes
<1>2. /\ u \in [Session -> SessionRecord]
      /\ \A s \in Session, r \in Role :
            u[s].holder[r] = IF s = j.session /\ r = j.role THEN c ELSE t[s].holder[r]
      /\ \A s \in Session \ {j.session} : u[s] = t[s]
  <2>1. u \in [Session -> SessionRecord]
    BY AttachRoleTable
  <2>2. \A s \in Session : t[s].holder \in [Role -> Conn \cup {NoConn}]
    BY DEF SessionRecord
  <2> QED
    BY <1>1, <2>1, <2>2 DEF AttachRole
<1> HIDE DEF u
<1>3. Known(u) \in SUBSET (K \cup {j.session})
  BY <1>2 DEF Known
<1>4. Attached(u) \in SUBSET (A \cup {slot})
  <2>1. ASSUME NEW p \in Session \X Role, u[p[1]].holder[p[2]] # NoConn, p # slot
        PROVE  t[p[1]].holder[p[2]] # NoConn
    BY <1>2, <2>1
  <2> QED
    BY <2>1 DEF Attached
<1>5. /\ IsFiniteSet(K) /\ Cardinality(K) \in Nat
      /\ IsFiniteSet(A) /\ Cardinality(A) \in Nat
      /\ Cardinality(Known(u)) \in Nat /\ Cardinality(Attached(u)) \in Nat
  BY <1>2, TableFinite
<1>6. ASSUME Cardinality(K \cup {j.session}) <= MaxSessions
      PROVE  Cardinality(Known(u)) <= MaxSessions
  <2>1. /\ IsFiniteSet(K \cup {j.session})
        /\ Cardinality(K \cup {j.session}) \in Nat
    BY <1>5, FS_AddElement, FS_CardinalityType
  <2>2. Cardinality(Known(u)) <= Cardinality(K \cup {j.session})
    BY <1>3, <2>1, FS_Subset
  <2> QED
    BY <1>5, <1>6, <2>1, <2>2, LimitAssumption
<1>7. ASSUME Cardinality(A \cup {slot}) <= MaxConnections
      PROVE  Cardinality(Attached(u)) <= MaxConnections
  <2>1. IsFiniteSet(A \cup {slot}) /\ Cardinality(A \cup {slot}) \in Nat
    BY <1>5, FS_AddElement, FS_CardinalityType
  <2>2. Cardinality(Attached(u)) <= Cardinality(A \cup {slot})
    BY <1>4, <2>1, FS_Subset
  <2> QED
    BY <1>5, <1>7, <2>1, <2>2, LimitAssumption
<1>8. Cardinality(A \cup {slot}) <= MaxConnections
  <2>1. CASE Opens(t, j) \/ Enters(t, j)
    <3>1. Cardinality(A) < MaxConnections
      BY <2>1 DEF Opens, Enters
    <3>2. Cardinality(A \cup {slot}) \in {Cardinality(A), Cardinality(A) + 1}
      BY <1>5, FS_AddElement
    <3> QED
      BY <1>5, <3>1, <3>2, LimitAssumption
  <2>2. CASE Resumes(t, j)
    <3>1. A \cup {slot} = A
      BY <1>1, <2>2 DEF Resumes, Attached
    <3> QED
      BY <3>1
  <2> QED
    BY <2>1, <2>2 DEF Admits
<1>9. Cardinality(K \cup {j.session}) <= MaxSessions
  <2>1. CASE t[j.session] # Vacant
    <3>1. K \cup {j.session} = K
      BY <1>1, <2>1 DEF Known
    <3> QED
      BY <3>1
  <2>2. CASE t[j.session] = Vacant
    <3>1. Cardinality(K) < MaxSessions
      BY <2>2 DEF Admits, Opens, Enters, Resumes
    <3>2. Cardinality(K \cup {j.session}) \in {Cardinality(K), Cardinality(K) + 1}
      BY <1>5, FS_AddElement
    <3> QED
      BY <1>5, <3>1, <3>2, LimitAssumption
  <2> QED
    BY <2>1, <2>2
<1> QED
  BY <1>6, <1>7, <1>8, <1>9 DEF u

LEMMA LimitsStep ==
    ASSUME TypeOK, TypeOK', Requested, TableLimits, [Next]_vars
    PROVE  TableLimits'
<1>a. /\ sessions \in [Session -> SessionRecord] /\ sessions' \in [Session -> SessionRecord]
      /\ Unexpired(sessions) \in [Session -> SessionRecord]
  BY UnexpiredTable DEF TypeOK
<1>b. ASSUME \A s \in Session : sessions[s] = Vacant => sessions'[s] = Vacant,
             \A s \in Session, r \in Role :
                sessions[s].holder[r] = NoConn => sessions'[s].holder[r] = NoConn
      PROVE  TableLimits'
  <2>1. /\ Cardinality(Known(sessions')) <= Cardinality(Known(sessions))
        /\ Cardinality(Attached(sessions')) <= Cardinality(Attached(sessions))
    BY <1>a, <1>b, SmallerTable
  <2> QED
    BY <1>a, <2>1, TableFinite, LimitAssumption DEF TableLimits
<1>c. ASSUME sessions' = Unexpired(sessions) PROVE TableLimits'
  BY <1>a, <1>b, <1>c, UnexpiredTable, VacantHolders
<1>d. ASSUME sessions' = sessions PROVE TableLimits'
  BY <1>b, <1>d
<1>e. ASSUME NEW c \in Conn, AttachSession(c) PROVE TableLimits'
  <2> DEFINE kept == Unexpired(sessions)
             k == request[c]
  <2>1. CASE ~Admits(kept, k)
    BY <1>c, <1>e, <2>1, AttachRefused
  <2>2. CASE Admits(kept, k)
    <3>1. k \in JoinRequest /\ sessions' = AttachRole(kept, k, c)
      BY <1>e, <2>2 DEF AttachSession, Requested, Attaching
    <3>2. /\ Cardinality(Known(kept)) <= Cardinality(Known(sessions))
          /\ Cardinality(Attached(kept)) <= Cardinality(Attached(sessions))
      BY <1>a, UnexpiredTable, VacantHolders, SmallerTable
    <3>3. Cardinality(Known(kept)) <= MaxSessions /\ Cardinality(Attached(kept)) <= MaxConnections
      BY <1>a, <3>2, TableFinite, LimitAssumption DEF TableLimits
    <3>4. kept \in [Session -> SessionRecord]
      BY <1>a
    <3> HIDE DEF kept, k
    <3> QED
      BY <2>2, <3>1, <3>3, <3>4, AttachWithinLimits DEF TableLimits
  <2> QED
    BY <2>1, <2>2
<1>f. ASSUME NEW c \in Conn, DetachSession(c) PROVE TableLimits'
  <2> DEFINE x == request[c].session
  <2>1. x \in Session /\ sessions' = Detach(sessions, x, c)
    BY <1>f, RequestTypes DEF DetachSession, Requested, Removing
  <2>2. Deserted(Without(Vacant, c)) /\ \A r \in Role : Vacant.holder[r] = NoConn
    BY DEF Deserted, Without, Vacant
  <2>3. \A s \in Session : sessions[s] = Vacant => sessions'[s] = Vacant
    BY <1>a, <2>1, <2>2 DEF Detach
  <2>4. \A s \in Session, r \in Role : sessions[s].holder[r] = NoConn => sessions'[s].holder[r] = NoConn
    BY <1>a, <1>f, DetachEffect
  <2> QED
    BY <1>b, <2>3, <2>4
<1>g. ASSUME NEW s \in Session, SessionExpires(s) PROVE TableLimits'
  <2>1. \A x \in Session : sessions'[x].holder = sessions[x].holder
    BY <1>g, ExpireEffect
  <2>2. \A x \in Session : sessions[x] = Vacant => sessions'[x] = Vacant
    BY <1>g, <1>a DEF SessionExpires
  <2> QED
    BY <1>b, <2>1, <2>2
<1> USE <1>d DEF tables, tasks, loop
<1>1. ASSUME Reject PROVE TableLimits'
  BY <1>1 DEF Reject
<1>2. ASSUME RejectionEnds PROVE TableLimits'
  BY <1>2 DEF RejectionEnds
<1>3. ASSUME SweepSessions PROVE TableLimits'
  BY <1>c, <1>3 DEF SweepSessions
<1>4. ASSUME SweepParticipants PROVE TableLimits'
  BY <1>4 DEF SweepParticipants
<1>5. ASSUME SweepDirectory PROVE TableLimits'
  BY <1>5 DEF SweepDirectory
<1>6. ASSUME Stop PROVE TableLimits'
  BY <1>6 DEF Stop
<1>7. ASSUME NEW c \in Conn, Accept(c) PROVE TableLimits'
  BY <1>7 DEF Accept
<1>8. ASSUME NEW c \in Conn, Handshake(c) PROVE TableLimits'
  BY <1>8 DEF Handshake
<1>9. ASSUME NEW c \in Conn, GiveUp(c) PROVE TableLimits'
  BY <1>9 DEF GiveUp
<1>10. ASSUME NEW c \in Conn, Lookup(c) PROVE TableLimits'
  BY <1>10 DEF Lookup
<1>11. ASSUME NEW c \in Conn, ValidateDirectory(c) PROVE TableLimits'
  BY <1>11 DEF ValidateDirectory
<1>12. ASSUME NEW c \in Conn, AttachSession(c) PROVE TableLimits'
  BY <1>e, <1>12
<1>13. ASSUME NEW c \in Conn, PublishDirectory(c) PROVE TableLimits'
  BY <1>13 DEF PublishDirectory
<1>14. ASSUME NEW c \in Conn, EnlistParticipant(c) PROVE TableLimits'
  BY <1>14 DEF EnlistParticipant
<1>15. ASSUME NEW c \in Conn, CloseReplaced(c) PROVE TableLimits'
  BY <1>15 DEF CloseReplaced
<1>16. ASSUME NEW c \in Conn, Ack(c) PROVE TableLimits'
  BY <1>16 DEF Ack
<1>17. ASSUME NEW c \in Conn, AckFails(c) PROVE TableLimits'
  BY <1>17 DEF AckFails
<1>18. ASSUME NEW c \in Conn, Disconnect(c) PROVE TableLimits'
  BY <1>18 DEF Disconnect
<1>19. ASSUME NEW c \in Conn, Leave(c) PROVE TableLimits'
  BY <1>19 DEF Leave
<1>20. ASSUME NEW c \in Conn, LockForRemoval(c) PROVE TableLimits'
  BY <1>20 DEF LockForRemoval
<1>21. ASSUME NEW c \in Conn, DetachSession(c) PROVE TableLimits'
  BY <1>f, <1>21
<1>22. ASSUME NEW c \in Conn, RemoveParticipant(c) PROVE TableLimits'
  BY <1>22 DEF RemoveParticipant
<1>23. ASSUME NEW c \in Conn, RetainDirectory(c) PROVE TableLimits'
  BY <1>23 DEF RetainDirectory
<1>24. ASSUME NEW c \in Conn, ReleaseAdmission(c) PROVE TableLimits'
  BY <1>24 DEF ReleaseAdmission
<1>25. ASSUME NEW c \in Conn, NEW j \in JoinRequest, LockForAttach(c, j) PROVE TableLimits'
  BY <1>25 DEF LockForAttach
<1>26. ASSUME NEW s \in Session, SessionExpires(s) PROVE TableLimits'
  BY <1>g, <1>26
<1>27. ASSUME NEW d \in Device, RecordExpires(d) PROVE TableLimits'
  BY <1>27 DEF RecordExpires
<1>28. ASSUME UNCHANGED vars PROVE TableLimits'
  BY <1>28 DEF vars
<1> QED
  BY <1>1, <1>2, <1>3, <1>4, <1>5, <1>6, <1>7, <1>8, <1>9, <1>10, <1>11, <1>12, <1>13, <1>14, <1>15, <1>16, <1>17, <1>18, <1>19, <1>20, <1>21, <1>22, <1>23, <1>24, <1>25, <1>26, <1>27, <1>28 DEF Next, AcceptLoop, Join, Depart

(* No interleaving of joins, replacements, expiry and departures takes the   *)
(* table past max_sessions or max_connections.                               *)
THEOREM LimitsHold == Spec => []TableLimits
<1>1. Init => TableLimits
  <2> SUFFICES ASSUME Init PROVE TableLimits
    OBVIOUS
  <2>1. Known(sessions) = {} /\ Attached(sessions) = {}
    BY VacantHolders DEF Init, Known, Attached
  <2> QED
    BY <2>1, FS_EmptySet, LimitAssumption DEF TableLimits
<1>2. IInv /\ IInv' /\ TableLimits /\ [Next]_vars => TableLimits'
  BY LimitsStep DEF IInv
<1> QED
  BY <1>1, <1>2, Invariance, PTL DEF Spec

(* A session is never re-keyed while its record lives.                       *)
LEMMA AuthStep ==
    ASSUME IInv, [Next]_vars, NEW s \in Session,
           sessions[s] # Vacant, ~sessions[s].expired, sessions'[s] # Vacant
    PROVE  sessions'[s].auth = sessions[s].auth
<1> DEFINE goal == sessions'[s].auth = sessions[s].auth
<1> SUFFICES goal
  OBVIOUS
<1>a. TypeOK /\ Requested /\ sessions \in [Session -> SessionRecord]
  BY DEF IInv, TypeOK
<1>b. Unexpired(sessions)[s] = sessions[s]
  BY <1>a, UnexpiredTable
<1>d. sessions' = sessions => goal
  OBVIOUS
<1>e. ASSUME NEW c \in Conn, AttachSession(c) PROVE goal
  <2> DEFINE kept == Unexpired(sessions)
             k == request[c]
  <2>1. CASE ~Admits(kept, k)
    BY <1>a, <1>b, <1>e, <2>1, AttachRefused
  <2>2. CASE Admits(kept, k)
    <3>1. /\ kept[k.session] = Vacant \/ kept[k.session].auth = k.auth
          /\ \A q \in Session :
                sessions'[q].auth = IF q = k.session THEN k.auth ELSE kept[q].auth
      BY <1>a, <1>e, <2>2, AttachAdmitted
    <3> QED
      BY <1>b, <3>1
  <2> QED
    BY <2>1, <2>2
<1>f. ASSUME NEW c \in Conn, DetachSession(c) PROVE goal
  BY <1>a, <1>f, DetachEffect
<1>g. ASSUME NEW x \in Session, SessionExpires(x) PROVE goal
  BY <1>a, <1>g, ExpireEffect
<1> HIDE DEF goal
<1> USE <1>d DEF tables, tasks, loop
<1>1. ASSUME Reject PROVE goal
  BY <1>1 DEF Reject
<1>2. ASSUME RejectionEnds PROVE goal
  BY <1>2 DEF RejectionEnds
<1>3. ASSUME SweepSessions PROVE goal
  BY <1>b, <1>3 DEF SweepSessions, goal
<1>4. ASSUME SweepParticipants PROVE goal
  BY <1>4 DEF SweepParticipants
<1>5. ASSUME SweepDirectory PROVE goal
  BY <1>5 DEF SweepDirectory
<1>6. ASSUME Stop PROVE goal
  BY <1>6 DEF Stop
<1>7. ASSUME NEW c \in Conn, Accept(c) PROVE goal
  BY <1>7 DEF Accept
<1>8. ASSUME NEW c \in Conn, Handshake(c) PROVE goal
  BY <1>8 DEF Handshake
<1>9. ASSUME NEW c \in Conn, GiveUp(c) PROVE goal
  BY <1>9 DEF GiveUp
<1>10. ASSUME NEW c \in Conn, Lookup(c) PROVE goal
  BY <1>10 DEF Lookup
<1>11. ASSUME NEW c \in Conn, ValidateDirectory(c) PROVE goal
  BY <1>11 DEF ValidateDirectory
<1>12. ASSUME NEW c \in Conn, AttachSession(c) PROVE goal
  BY <1>e, <1>12
<1>13. ASSUME NEW c \in Conn, PublishDirectory(c) PROVE goal
  BY <1>13 DEF PublishDirectory
<1>14. ASSUME NEW c \in Conn, EnlistParticipant(c) PROVE goal
  BY <1>14 DEF EnlistParticipant
<1>15. ASSUME NEW c \in Conn, CloseReplaced(c) PROVE goal
  BY <1>15 DEF CloseReplaced
<1>16. ASSUME NEW c \in Conn, Ack(c) PROVE goal
  BY <1>16 DEF Ack
<1>17. ASSUME NEW c \in Conn, AckFails(c) PROVE goal
  BY <1>17 DEF AckFails
<1>18. ASSUME NEW c \in Conn, Disconnect(c) PROVE goal
  BY <1>18 DEF Disconnect
<1>19. ASSUME NEW c \in Conn, Leave(c) PROVE goal
  BY <1>19 DEF Leave
<1>20. ASSUME NEW c \in Conn, LockForRemoval(c) PROVE goal
  BY <1>20 DEF LockForRemoval
<1>21. ASSUME NEW c \in Conn, DetachSession(c) PROVE goal
  BY <1>f, <1>21
<1>22. ASSUME NEW c \in Conn, RemoveParticipant(c) PROVE goal
  BY <1>22 DEF RemoveParticipant
<1>23. ASSUME NEW c \in Conn, RetainDirectory(c) PROVE goal
  BY <1>23 DEF RetainDirectory
<1>24. ASSUME NEW c \in Conn, ReleaseAdmission(c) PROVE goal
  BY <1>24 DEF ReleaseAdmission
<1>25. ASSUME NEW c \in Conn, NEW j \in JoinRequest, LockForAttach(c, j) PROVE goal
  BY <1>25 DEF LockForAttach
<1>26. ASSUME NEW x \in Session, SessionExpires(x) PROVE goal
  BY <1>g, <1>26
<1>27. ASSUME NEW d \in Device, RecordExpires(d) PROVE goal
  BY <1>27 DEF RecordExpires
<1>28. ASSUME UNCHANGED vars PROVE goal
  BY <1>28 DEF vars
<1> QED
  BY <1>1, <1>2, <1>3, <1>4, <1>5, <1>6, <1>7, <1>8, <1>9, <1>10, <1>11, <1>12, <1>13, <1>14, <1>15, <1>16, <1>17, <1>18, <1>19, <1>20, <1>21, <1>22, <1>23, <1>24, <1>25, <1>26, <1>27, <1>28 DEF Next, AcceptLoop, Join, Depart

(* The authentication that opened a session is the only one that can join it.*)
THEOREM AuthenticationsAreKept == Spec => AuthenticationIsKept
<1>1. IInv /\ [Next]_vars =>
        [ \A s \in Session :
            sessions[s] # Vacant /\ ~sessions[s].expired /\ sessions'[s] # Vacant =>
              sessions'[s].auth = sessions[s].auth ]_vars
  BY AuthStep
<1> QED
  BY <1>1, Invariance, PTL DEF AuthenticationIsKept, Spec

-----------------------------------------------------------------------------
(* What the runs check, in one piece each. *)

(* No way out of a task leaves a trace in the maps, and nobody the maps lost *)
(* stays open.                                                               *)
THEOREM MembershipHolds == Spec => []MembersHold
<1>1. TypeOK /\ NoResidue /\ DisplacedIsClosed /\ DirectoryNamesGuard /\ MembershipExclusive
        => MembersHold
  BY DEF MembersHold
<1> QED
  BY <1>1, TypeCorrect, NoTrace, DisplacementCloses, DirectoryIsOwned, Exclusion, PTL

(* Roles and directory entries are kept for their owners.                    *)
THEOREM SlotsAreKept == Spec => SlotsKept
<1>1. SlotsKept <=> RoleIsKept /\ DirectorySlotIsKept
  BY DEF SlotsKept
<1> QED
  BY <1>1, RolesAreKept, DirectorySlotsAreKept

(* The maps agree whenever nobody updates them, and stay within the limits.  *)
THEOREM TablesStayTogether == Spec => []TablesHold
<1>1. TablesAgree /\ TableLimits => TablesHold
  BY DEF TablesHold
<1> QED
  BY <1>1, Agreement, LimitsHold, PTL

-----------------------------------------------------------------------------
(* The steps of RoleSlots. *)

slotvars == <<LiveHolder, participants, closed, FreshConn, Departing>>

-----------------------------------------------------------------------------
(* The mapped variables. *)

LEMMA SameHolders ==
    ASSUME sessions' = sessions
    PROVE  LiveHolder' = LiveHolder
  BY DEF LiveHolder

(* Dropping the expired records vacates no role of a live session.           *)
LEMMA UnexpiredHolders ==
    ASSUME TypeOK, sessions' = Unexpired(sessions)
    PROVE  LiveHolder' = LiveHolder
<1>1. ASSUME NEW s \in Session, NEW r \in Role
      PROVE  LiveHolder'[s][r] = LiveHolder[s][r]
  <2>1. CASE sessions[s].expired
    <3>1. sessions'[s] = Vacant /\ Vacant.holder[r] = NoConn
      BY <2>1, VacantHolders DEF Unexpired
    <3> QED
      BY <2>1, <3>1 DEF LiveHolder
  <2>2. CASE ~sessions[s].expired
    <3>1. sessions'[s] = sessions[s]
      BY <2>2 DEF Unexpired
    <3> QED
      BY <3>1 DEF LiveHolder
  <2> QED
    BY <2>1, <2>2
<1> QED
  BY <1>1 DEF LiveHolder

LEMMA SameFresh ==
    ASSUME NEW c \in Conn, NEW p, TypeOK, pc' = [pc EXCEPT ![c] = p],
           pc[c] \in Early <=> p \in Early
    PROVE  FreshConn' = FreshConn
  BY DEF TypeOK, FreshConn

OnTheWay == {"leaving"} \cup Removing

LEMMA SameDeparting ==
    ASSUME NEW c \in Conn, TypeOK, \A x \in Conn \ {c} : pc'[x] = pc[x],
           pc[c] \in OnTheWay <=> pc'[c] \in OnTheWay
    PROVE  Departing' = Departing
  BY DEF TypeOK, Departing, OnTheWay

LEMMA LostFresh ==
    ASSUME NEW c \in Conn, TypeOK,
           \A x \in Conn \ {c} : pc'[x] = pc[x], pc'[c] \notin Early
    PROVE  FreshConn' = FreshConn \ {c}
  BY DEF FreshConn

(* Whoever has a role in the abstraction is a holder.                        *)
LEMMA HoldingAreHolders ==
    ASSUME TypeOK
    PROVE  Slots!Holding \subseteq Holders \ {NoConn}
<1>1. ASSUME NEW c \in Conn, NEW s \in Session, NEW r \in Role, LiveHolder[s][r] = c
      PROVE  c \in Holders \ {NoConn}
  <2>1. c # NoConn
    BY ConnAssumption
  <2>2. sessions[s].holder[r] = c
    BY <1>1, <2>1 DEF LiveHolder
  <2>3. sessions \in [Session -> SessionRecord]
    BY DEF TypeOK
  <2> QED
    BY <2>1, <2>2, <2>3, HoldersAre DEF Holders
<1> QED
  BY <1>1 DEF Slots!Holding, Slots!Role, Role

LEMMA HoldingPhase ==
    ASSUME TypeOK, HolderPhase, NEW c \in Slots!Holding
    PROVE  /\ c \in Conn
           /\ pc[c] \in {"publish", "enlist", "detach"} \cup Guarded
<1>1. PICK s \in Session, r \in Role : LiveHolder[s][r] = c /\ c \in Conn
  BY DEF Slots!Holding, Slots!Role, Role
<1>2. sessions[s].holder[r] = c /\ c # NoConn
  BY <1>1, ConnAssumption DEF LiveHolder
<1> QED
  BY <1>1, <1>2 DEF HolderPhase

-----------------------------------------------------------------------------
(* The steps of the relay as steps of RoleSlots. *)

(* A join takes its role, from nobody or from its own participant.           *)
LEMMA AttachTakes ==
    ASSUME TypeOK, Requested, NEW c \in Conn, AttachSession(c),
           Admits(Unexpired(sessions), request[c])
    PROVE  Slots!Take(c, request[c].session, request[c].role)
<1> DEFINE k == request[c]
           kept == Unexpired(sessions)
<1>1. /\ pc[c] = "attach" /\ pc'[c] \in {"enlist", "publish"}
      /\ \A x \in Conn \ {c} : pc'[x] = pc[x]
      /\ k \in JoinRequest /\ k.session \in Session /\ k.role \in Role
      /\ \A s \in Session, r \in Role :
            sessions'[s].holder[r] =
                IF s = k.session /\ r = k.role THEN c ELSE kept[s].holder[r]
  BY AttachAdmitted
<1>2. kept \in [Session -> SessionRecord] /\ \A s \in Session : ~kept[s].expired
  BY UnexpiredTable DEF TypeOK
<1>3. \A s \in Session : ~sessions'[s].expired
  <2>1. sessions' = AttachRole(kept, k, c)
    BY DEF AttachSession
  <2> HIDE DEF k, kept
  <2> QED
    BY <1>1, <1>2, <2>1 DEF AttachRole, SessionRecord
<1>4. \A s \in Session, r \in Role : kept[s].holder[r] = LiveHolder[s][r]
  BY VacantHolders DEF Unexpired, LiveHolder
<1>5. k.role = "Controller" => LiveHolder[k.session]["Host"] # NoConn
  BY <1>1, <1>4 DEF Admits, Opens, Enters, Resumes, Role
<1>6. LiveHolder' = [LiveHolder EXCEPT ![k.session][k.role] = c]
  <2> HIDE DEF k, kept
  <2>1. \A s \in Session, r \in Role :
           LiveHolder'[s][r] = IF s = k.session /\ r = k.role THEN c ELSE LiveHolder[s][r]
    <3>1. \A s \in Session, r \in Role : LiveHolder'[s][r] = sessions'[s].holder[r]
      BY <1>3 DEF LiveHolder
    <3> QED
      BY <1>1, <1>4, <3>1
  <2>2. [LiveHolder EXCEPT ![k.session][k.role] = c] =
          [s \in Session |-> [r \in Role |->
              IF s = k.session /\ r = k.role THEN c ELSE LiveHolder[s][r]]]
    BY <1>1 DEF LiveHolder
  <2>3. \A s \in Session :
           LiveHolder'[s] = [r \in Role |->
              IF s = k.session /\ r = k.role THEN c ELSE LiveHolder[s][r]]
    <3>1. \A s \in Session : LiveHolder'[s] = [r \in Role |-> LiveHolder'[s][r]]
      BY DEF LiveHolder
    <3> QED
      BY <2>1, <3>1
  <2>4. LiveHolder' = [s \in Session |-> LiveHolder'[s]]
    BY DEF LiveHolder
  <2> HIDE DEF LiveHolder
  <2> QED
    BY <2>2, <2>3, <2>4
<1>7. FreshConn' = FreshConn \ {c} /\ c \in FreshConn
  BY <1>1, LostFresh DEF FreshConn, Early
<1>8. UNCHANGED <<participants, closed>>
  BY DEF AttachSession
<1>9. Departing' = Departing
  BY <1>1, SameDeparting DEF OnTheWay, Removing
<1> QED
  BY <1>5, <1>6, <1>7, <1>8, <1>9 DEF Slots!Take

(* The departure of a connection vacates its role and no other.              *)
LEMMA DetachVacates ==
    ASSUME TypeOK, Requested, HolderPhase, NEW c \in Conn, DetachSession(c)
    PROVE  c \in Departing /\ Slots!Vacate(c)
<1> DEFINE x == request[c].session
<1>1. /\ x \in Session /\ pc[c] = "detach"
      /\ \A s \in Session \ {x} : sessions'[s] = sessions[s]
      /\ \A r \in Role : sessions'[x].holder[r] # c
      /\ \A r \in Role : sessions'[x].holder[r] \in {NoConn, sessions[x].holder[r]}
      /\ \A r \in Role : ~sessions[x].expired /\ sessions[x].holder[r] # c =>
           sessions'[x].holder[r] = sessions[x].holder[r]
  BY DetachEffect
<1>2. participants' = participants /\ closed' = closed
  BY DEF DetachSession, loop
<1>3. c # NoConn
  BY ConnAssumption
<1>4. sessions[x].expired => sessions'[x] = Vacant
  BY <1>1 DEF DetachSession, Detach, TypeOK
<1>5. sessions'[x].expired => sessions[x].expired
  <2>1. sessions'[x] \in {Vacant, Without(sessions[x], c)}
    BY <1>1 DEF DetachSession, Detach, TypeOK
  <2>2. ~Vacant.expired /\ Without(sessions[x], c).expired = sessions[x].expired
    BY <1>1 DEF Vacant, Without, TypeOK, SessionRecord
  <2> QED
    BY <2>1, <2>2
<1>6. ASSUME NEW s \in Session, NEW r \in Role
      PROVE  LiveHolder'[s][r] = IF LiveHolder[s][r] = c THEN NoConn ELSE LiveHolder[s][r]
  <2>1. CASE s # x
    <3>1. LiveHolder[s][r] # c
      BY <2>1, <1>3 DEF LiveHolder, HolderPhase
    <3> QED
      BY <2>1, <3>1, <1>1 DEF LiveHolder
  <2>2. CASE s = x /\ sessions[x].expired
    BY <2>2, <1>3, <1>4, VacantHolders DEF LiveHolder
  <2>3. CASE s = x /\ ~sessions[x].expired
    BY <2>3, <1>1, <1>5 DEF LiveHolder
  <2> QED
    BY <2>1, <2>2, <2>3
<1>7. LiveHolder' = [s \in Session |-> [r \in Role |->
                        IF LiveHolder[s][r] = c THEN NoConn ELSE LiveHolder[s][r]]]
  BY <1>6 DEF LiveHolder
<1>8. FreshConn' = FreshConn /\ Departing' = Departing
  BY <1>1, SameFresh, SameDeparting DEF DetachSession, Goto, Early, OnTheWay, Removing, TypeOK
<1>9. c \in Departing
  BY <1>1 DEF Departing, Removing
<1> QED
  BY <1>2, <1>7, <1>8, <1>9 DEF Slots!Vacate, Slots!Role, Role

(* What a join or a sweep takes out of the map has no role.                  *)
LEMMA EnlistLists ==
    ASSUME TypeOK, PendingRemoval, NEW c \in Conn, EnlistParticipant(c)
    PROVE  Slots!List(c, {replaced[c]})
<1>1. replaced[c] \notin Slots!Holding
  BY HoldingAreHolders DEF PendingRemoval, EnlistParticipant
<1>2. LiveHolder' = LiveHolder /\ FreshConn' = FreshConn /\ Departing' = Departing
  BY SameHolders, SameFresh, SameDeparting
     DEF EnlistParticipant, Goto, Early, OnTheWay, Removing, TypeOK
<1>3. c \notin FreshConn \cup Departing
  BY DEF FreshConn, Early, Departing, Removing, EnlistParticipant
<1> QED
  BY <1>1, <1>2, <1>3 DEF Slots!List, EnlistParticipant

LEMMA SweepDelists ==
    ASSUME TypeOK, PendingRemoval, SweepParticipants
    PROVE  Slots!Delist(due \cap participants)
<1>1. due \cap Slots!Holding = {}
  BY HoldingAreHolders DEF PendingRemoval, SweepParticipants
<1>2. LiveHolder' = LiveHolder /\ FreshConn' = FreshConn /\ Departing' = Departing
  BY DEF LiveHolder, FreshConn, Departing, SweepParticipants
<1>3. closed' = closed \cup (due \cap participants)
  BY DEF SweepParticipants
<1> QED
  BY <1>1, <1>2, <1>3 DEF Slots!Delist, SweepParticipants

LEMMA RemoveDelists ==
    ASSUME TypeOK, HolderPhase, NEW c \in Conn, RemoveParticipant(c)
    PROVE  Slots!Delist({c} \cap participants)
<1>1. c \notin Slots!Holding
  BY HoldingPhase DEF RemoveParticipant, Guarded
<1>2. LiveHolder' = LiveHolder /\ FreshConn' = FreshConn /\ Departing' = Departing
  BY SameHolders, SameFresh, SameDeparting
     DEF RemoveParticipant, Goto, Early, OnTheWay, Removing, TypeOK
<1> QED
  BY <1>1, <1>2 DEF Slots!Delist, RemoveParticipant, loop

LEMMA ExpiryExpires ==
    ASSUME TypeOK, NEW s \in Session, SessionExpires(s)
    PROVE  Slots!Expire(s)
<1>1. \A x \in Session : /\ sessions'[x].holder = sessions[x].holder
                          /\ sessions'[x].expired = (x = s \/ sessions[x].expired)
  BY DEF SessionExpires, TypeOK, SessionRecord
<1>2. LiveHolder' = [LiveHolder EXCEPT ![s] = [r \in Role |-> NoConn]]
  BY <1>1 DEF LiveHolder
<1> QED
  BY <1>2 DEF Slots!Expire, Slots!Role, Role, SessionExpires, tasks, FreshConn, Departing

(* The other steps of a join: a connection is fresh until it is attached or  *)
(* its task gives up.                                                        *)
LEMMA GiveUpSpends ==
    ASSUME TypeOK, NEW c \in Conn, GiveUp(c)
    PROVE  Slots!Spend(c) \/ Slots!Close({c})
<1>1. /\ LiveHolder' = LiveHolder /\ participants' = participants /\ closed' = closed \cup {c}
      /\ Departing' = Departing
  BY SameHolders, SameDeparting DEF GiveUp, tables, Goto, OnTheWay, Removing, TypeOK
<1>2. CASE pc[c] = "refused"
  <2>1. FreshConn' = FreshConn
    BY <1>2, SameFresh DEF GiveUp, Goto, Early
  <2> QED
    BY <1>1, <2>1 DEF Slots!Close
<1>3. CASE pc[c] # "refused"
  <2>1. FreshConn' = FreshConn \ {c} /\ c \in FreshConn
    BY <1>3, LostFresh DEF GiveUp, Goto, Early, FreshConn, TypeOK
  <2> QED
    BY <1>1, <2>1 DEF Slots!Spend
<1> QED
  BY <1>2, <1>3

LEMMA ValidateSpends ==
    ASSUME TypeOK, NEW c \in Conn, ValidateDirectory(c)
    PROVE  Slots!Spend(c) \/ UNCHANGED slotvars
<1>1. /\ pc[c] = "validate" /\ pc'[c] \in {"attach", "refused"}
      /\ \A x \in Conn \ {c} : pc'[x] = pc[x]
      /\ sessions' = sessions /\ participants' = participants
  BY ValidateEffect
<1>2. closed' = closed /\ LiveHolder' = LiveHolder /\ Departing' = Departing
  BY <1>1, SameHolders, SameDeparting DEF ValidateDirectory, OnTheWay, Removing
<1>3. CASE pc'[c] = "attach"
  <2>1. FreshConn' = FreshConn
    BY <1>1, <1>3 DEF FreshConn, Early
  <2> QED
    BY <1>1, <1>2, <2>1 DEF slotvars
<1>4. CASE pc'[c] = "refused"
  <2>1. FreshConn' = FreshConn \ {c} /\ c \in FreshConn
    BY <1>1, <1>4, LostFresh DEF FreshConn, Early
  <2> QED
    BY <1>1, <1>2, <2>1 DEF Slots!Spend
<1> QED
  BY <1>1, <1>3, <1>4

LEMMA RefusalSpends ==
    ASSUME TypeOK, NEW c \in Conn, AttachSession(c),
           ~Admits(Unexpired(sessions), request[c])
    PROVE  Slots!Spend(c)
<1>1. /\ sessions' = Unexpired(sessions)
      /\ pc[c] = "attach" /\ pc' = [pc EXCEPT ![c] = "refused"]
      /\ participants' = participants
  BY AttachRefused
<1>2. FreshConn' = FreshConn \ {c} /\ c \in FreshConn /\ Departing' = Departing
  BY <1>1, LostFresh, SameDeparting DEF FreshConn, Early, OnTheWay, Removing, TypeOK
<1> QED
  BY <1>1, <1>2, UnexpiredHolders DEF Slots!Spend, AttachSession

(* Steps that only close transports.                                         *)
LEMMA Closes ==
    ASSUME TypeOK,
           \/ Stop
           \/ \E c \in Conn : CloseReplaced(c) \/ ReleaseAdmission(c) \/ Disconnect(c)
    PROVE  \E C \in SUBSET Conn : Slots!Close(C)
<1>1. CASE Stop
  BY <1>1 DEF Stop, tables, LiveHolder, FreshConn, Departing, Slots!Close
<1>2. ASSUME NEW c \in Conn, CloseReplaced(c)
      PROVE  \E C \in SUBSET Conn : Slots!Close(C)
  <2>1. {replaced[c]} \ {NoConn} \in SUBSET Conn
    BY DEF TypeOK
  <2>2. LiveHolder' = LiveHolder /\ FreshConn' = FreshConn /\ Departing' = Departing
    BY <1>2, SameHolders, SameFresh, SameDeparting
       DEF CloseReplaced, Goto, Early, tables, OnTheWay, Removing, TypeOK
  <2> QED
    BY <1>2, <2>1, <2>2 DEF Slots!Close, CloseReplaced, tables
<1>3. ASSUME NEW c \in Conn, ReleaseAdmission(c) \/ Disconnect(c)
      PROVE  \E C \in SUBSET Conn : Slots!Close(C)
  <2>1. LiveHolder' = LiveHolder
    BY <1>3, SameHolders DEF ReleaseAdmission, Disconnect, tables
  <2>2. FreshConn' = FreshConn /\ Departing' = Departing
    <3>1. CASE ReleaseAdmission(c)
      BY <3>1, SameFresh, SameDeparting
         DEF ReleaseAdmission, Goto, Early, OnTheWay, Removing, TypeOK
    <3>2. CASE Disconnect(c)
      BY <3>2 DEF Disconnect, FreshConn, Departing
    <3> QED
      BY <1>3, <3>1, <3>2
  <2>3. closed' = closed \cup {c} /\ participants' = participants /\ {c} \in SUBSET Conn
    BY <1>3 DEF ReleaseAdmission, Disconnect, tables
  <2> QED
    BY <2>1, <2>2, <2>3 DEF Slots!Close
<1> QED
  BY <1>1, <1>2, <1>3

(* A task on its way out, and one whose departure is over.                   *)
LEMMA DepartureBegins ==
    ASSUME TypeOK, NEW c \in Conn, AckFails(c) \/ Leave(c)
    PROVE  Slots!BeginDeparture(c)
<1>1. /\ pc[c] \in {"ack", "joined"} /\ pc' = [pc EXCEPT ![c] = "leaving"]
      /\ UNCHANGED <<tables, closed>>
  BY DEF AckFails, Leave, Goto
<1>2. FreshConn' = FreshConn /\ c \notin FreshConn
  BY <1>1, SameFresh DEF Early, FreshConn
<1>3. Departing' = Departing \cup {c}
  BY <1>1 DEF Departing, TypeOK
<1> QED
  BY <1>1, <1>2, <1>3, SameHolders DEF Slots!BeginDeparture, tables

LEMMA DepartureEnds ==
    ASSUME TypeOK, HolderPhase, ListedPhase, NEW c \in Conn, RetainDirectory(c)
    PROVE  c \in Departing /\ Slots!EndDeparture(c)
<1>1. /\ pc[c] = "retain" /\ pc' = [pc EXCEPT ![c] = "release"]
      /\ UNCHANGED <<sessions, participants, closed>>
  BY DEF RetainDirectory, Goto
<1>2. FreshConn' = FreshConn
  BY <1>1, SameFresh DEF Early
<1>3. c \in Departing /\ Departing' = Departing \ {c}
  BY <1>1 DEF Departing, Removing, TypeOK
<1>4. c \notin participants \cup Slots!Holding
  BY <1>1, HoldingPhase DEF ListedPhase, Guarded
<1> QED
  BY <1>1, <1>2, <1>3, <1>4, SameHolders DEF Slots!EndDeparture

(* Steps that change nothing RoleSlots can see.                              *)
LEMMA LoopStutters ==
    ASSUME TypeOK,
           \/ Reject \/ RejectionEnds \/ SweepSessions \/ SweepDirectory
           \/ \E d \in Device : RecordExpires(d)
           \/ UNCHANGED vars
    PROVE  UNCHANGED slotvars
<1>1. participants' = participants /\ closed' = closed /\ pc' = pc
  BY DEF Reject, RejectionEnds, SweepSessions, SweepDirectory, RecordExpires, vars, tables, tasks
<1>2. sessions' = sessions \/ sessions' = Unexpired(sessions)
  BY DEF Reject, RejectionEnds, SweepSessions, SweepDirectory, RecordExpires, vars, tables
<1>3. LiveHolder' = LiveHolder
  BY <1>2, SameHolders, UnexpiredHolders
<1> QED
  BY <1>1, <1>3 DEF slotvars, FreshConn, Departing

LEMMA TaskStutters ==
    ASSUME TypeOK, NEW c \in Conn,
           \/ Accept(c) \/ Handshake(c) \/ Lookup(c)
           \/ \E j \in JoinRequest : LockForAttach(c, j)
           \/ PublishDirectory(c) \/ Ack(c) \/ LockForRemoval(c)
    PROVE  UNCHANGED slotvars
<1>1. sessions' = sessions /\ participants' = participants /\ closed' = closed
  BY DEF Accept, Handshake, Lookup, LockForAttach, PublishDirectory, Ack,
         LockForRemoval, tables, tasks
<1>2. \/ pc' = pc
      \/ \E p \in PC : /\ pc' = [pc EXCEPT ![c] = p]
                       /\ pc[c] \in Early <=> p \in Early
                       /\ pc[c] \in OnTheWay <=> p \in OnTheWay
  BY DEF Accept, Handshake, Lookup, LockForAttach, PublishDirectory, Ack,
         LockForRemoval, tasks, Goto, Early, PC,
         Attaching, Guarded, Removing, OnTheWay
<1>3. FreshConn' = FreshConn /\ Departing' = Departing
  <2>1. CASE pc' = pc
    BY <2>1 DEF FreshConn, Departing
  <2>2. CASE pc' # pc
    <3>1. PICK p \in PC : /\ pc' = [pc EXCEPT ![c] = p]
                          /\ pc[c] \in Early <=> p \in Early
                          /\ pc[c] \in OnTheWay <=> p \in OnTheWay
      BY <1>2, <2>2
    <3> QED
      BY <3>1, SameFresh, SameDeparting DEF TypeOK
  <2> QED
    BY <2>1, <2>2
<1> QED
  BY <1>1, <1>3, SameHolders DEF slotvars

-----------------------------------------------------------------------------
LEMMA StepRefines ==
    ASSUME IInv, [Next]_vars
    PROVE  [Slots!SlotsNext]_slotvars
<1> USE DEF IInv
<1>1. ASSUME NEW c \in Conn, AttachSession(c)
      PROVE  Slots!SlotsNext
  <2>1. CASE Admits(Unexpired(sessions), request[c])
    <3>1. request[c].session \in Session /\ request[c].role \in Slots!Role
      BY <1>1, <2>1, AttachAdmitted DEF Slots!Role, Role
    <3> QED
      BY <1>1, <2>1, <3>1, AttachTakes DEF Slots!SlotsNext, Slots!Take
  <2>2. CASE ~Admits(Unexpired(sessions), request[c])
    <3>1. Slots!Spend(c) => c \in FreshConn
      BY DEF Slots!Spend
    <3> QED
      BY <1>1, <2>2, <3>1, RefusalSpends DEF Slots!SlotsNext
  <2> QED
    BY <2>1, <2>2
<1>2. ASSUME NEW c \in Conn, EnlistParticipant(c)
      PROVE  Slots!SlotsNext
  <2>1. replaced[c] \in Conn \cup {NoConn}
    BY DEF TypeOK
  <2> QED
    BY <1>2, <2>1, EnlistLists DEF Slots!SlotsNext
<1>3. ASSUME NEW c \in Conn, \/ GiveUp(c) \/ DetachSession(c) \/ RemoveParticipant(c)
                             \/ AckFails(c) \/ Leave(c) \/ RetainDirectory(c)
      PROVE  Slots!SlotsNext
  <2>1. CASE GiveUp(c)
    <3>1. {c} \in SUBSET Conn /\ (Slots!Spend(c) => c \in FreshConn)
      BY DEF Slots!Spend
    <3> QED
      BY <2>1, <3>1, GiveUpSpends DEF Slots!SlotsNext
  <2>2. CASE DetachSession(c) \/ RetainDirectory(c)
    BY <2>2, DetachVacates, DepartureEnds DEF Slots!SlotsNext
  <2>3. CASE RemoveParticipant(c)
    <3>1. {c} \cap participants \in SUBSET participants
      OBVIOUS
    <3> QED
      BY <2>3, <3>1, RemoveDelists DEF Slots!SlotsNext
  <2>4. CASE AckFails(c) \/ Leave(c)
    BY <2>4, DepartureBegins DEF Slots!SlotsNext
  <2> QED
    BY <1>3, <2>1, <2>2, <2>3, <2>4
<1>4. ASSUME NEW c \in Conn, ValidateDirectory(c)
      PROVE  Slots!SlotsNext \/ UNCHANGED slotvars
  <2>1. Slots!Spend(c) => c \in FreshConn
    BY DEF Slots!Spend
  <2> QED
    BY <1>4, <2>1, ValidateSpends DEF Slots!SlotsNext
<1>5. ASSUME SweepParticipants
      PROVE  Slots!SlotsNext
  <2>1. due \cap participants \in SUBSET participants
    OBVIOUS
  <2> QED
    BY <1>5, <2>1, SweepDelists DEF Slots!SlotsNext
<1>6. ASSUME NEW s \in Session, SessionExpires(s)
      PROVE  Slots!SlotsNext
  BY <1>6, ExpiryExpires DEF Slots!SlotsNext
<1>7. ASSUME \/ Stop
             \/ \E c \in Conn : CloseReplaced(c) \/ ReleaseAdmission(c) \/ Disconnect(c)
      PROVE  Slots!SlotsNext
  BY <1>7, Closes DEF Slots!SlotsNext
<1>8. ASSUME \/ Reject \/ RejectionEnds \/ SweepSessions \/ SweepDirectory
             \/ \E d \in Device : RecordExpires(d)
             \/ UNCHANGED vars
      PROVE  UNCHANGED slotvars
  BY <1>8, LoopStutters
<1>9. ASSUME NEW c \in Conn,
             \/ Accept(c) \/ Handshake(c) \/ Lookup(c)
             \/ \E j \in JoinRequest : LockForAttach(c, j)
             \/ PublishDirectory(c) \/ Ack(c) \/ LockForRemoval(c)
      PROVE  UNCHANGED slotvars
  BY <1>9, TaskStutters
<1> QED
  BY <1>1, <1>2, <1>3, <1>4, <1>5, <1>6, <1>7, <1>8, <1>9
     DEF Next, AcceptLoop, Join, Depart

LEMMA InitRefines ==
    ASSUME Init
    PROVE  Slots!SlotsInit
<1>1. LiveHolder = [s \in Session |-> [r \in Role |-> NoConn]]
  BY DEF Init, LiveHolder, Vacant
<1>2. FreshConn = Conn /\ Departing = {}
  BY DEF Init, FreshConn, Early, Departing, Removing
<1> QED
  BY <1>1, <1>2 DEF Init, Slots!SlotsInit, Slots!Role, Role

(* Whatever joins, replacements, departures, expiry and sweeps do, the       *)
(* forwarding workers see the roles and the participants map change as       *)
(* RoleSlots says: a role is handed over once, to a connection that never    *)
(* had one, it is vacated only by the departure of its own connection, and   *)
(* a departure that is over leaves nothing of the connection behind.         *)
THEOREM MembershipImplementsSlots == Spec => ImplementsRoleSlots
<1>1. Init => Slots!SlotsInit
  BY InitRefines
<1>2. IInv /\ [Next]_vars => [Slots!SlotsNext]_(Slots!slots)
  BY StepRefines DEF slotvars, Slots!slots
<1> QED
  BY <1>1, <1>2, Invariance, PTL DEF Spec, ImplementsRoleSlots, Slots!SlotsSpec
=============================================================================
