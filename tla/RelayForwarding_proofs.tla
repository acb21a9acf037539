----------------------- MODULE RelayForwarding_proofs -----------------------
(***************************************************************************)
(* Reliable streams reach the peer they are for, with any number of        *)
(* connections, sessions, streams and messages, and however the roles      *)
(* change hands meanwhile.                                                 *)
(***************************************************************************)
EXTENDS RelayForwarding, FiniteSetTheorems, SequenceTheorems, TLAPS

Wire == [message : 1..MaxMessages, to : Conn]

\* A stream task with its source, which has joined and is served while the
\* task lives.
Owned(x) ==
    stream[x].at # "unused" =>
        /\ stream[x].source \in Conn /\ place[stream[x].source] # NoPlace
        /\ stream[x].at \in Live => task[stream[x].source] = "serving"

\* What is in hand: a message while the task is busy, and a peer that fits the
\* header and the destination when the message is to be written.
InHand(x) ==
    /\ stream[x].at = "unused" => stream[x] = Unused /\ wire[x] = <<>>
    /\ stream[x].at \in Busy => stream[x].message >= 1
    /\ stream[x].at \in {"resolve", "open", "write"} =>
           stream[x].peer # NoConn /\ stream[x].peer \in paired[x]
    /\ stream[x].at \in {"open", "write"} => stream[x].target \in {Anyone, stream[x].peer}
    /\ stream[x].at = "open" => stream[x].dest = NoConn
    /\ stream[x].at = "write" => stream[x].dest = stream[x].peer

\* What was written is older than the message in hand ...
Older(x) ==
    \A i \in DOMAIN wire[x] :
        /\ wire[x][i].message <= stream[x].message
        /\ stream[x].at \in Busy => wire[x][i].message < stream[x].message

\* ... and went where the stream of a host is still bound to.
Bound(x) ==
    stream[x].at \in Live /\ RoleOf(x) = "Host" =>
        \A i \in DOMAIN wire[x] : wire[x][i].to = stream[x].dest

\* The four properties, for one stream.
Addressed(x) ==
    stream[x].target # Anyone => \A i \in DOMAIN wire[x] : wire[x][i].to = stream[x].target
HostBound(x) ==
    stream[x].at # "unused" /\ RoleOf(x) = "Host" =>
        \A i, j \in DOMAIN wire[x] : wire[x][i].to = wire[x][j].to
Ordered(x) ==
    \A i, j \in DOMAIN wire[x] : i < j => wire[x][i].message < wire[x][j].message
Paired(x) ==
    \A i \in DOMAIN wire[x] :
        wire[x][i].message = stream[x].message => wire[x][i].to \in paired[x]

Delivery(x) ==
    /\ Owned(x) /\ InHand(x) /\ Older(x) /\ Bound(x)
    /\ Addressed(x) /\ HostBound(x) /\ Ordered(x) /\ Paired(x)

\* Only connections that have not joined lack a place.
Placed == \A c \in Conn : (task[c] = "none" <=> c \in fresh) /\ (place[c] = NoPlace <=> c \in fresh)

IInv == TypeOK /\ Placed /\ \A x \in Stream : Delivery(x)

-----------------------------------------------------------------------------
(* The tasks of the connections. *)

\* A step of the environment gives a place to a connection that joins and takes
\* none away, and stops no loop that serves.
LEMMA EnvironmentKeeps ==
    ASSUME ForwardingConstants, JoinedType, Placed, Environment
    PROVE  /\ JoinedType' /\ Placed'
           /\ \A c \in Conn : place[c] # NoPlace => place'[c] = place[c]
           /\ \A c \in Conn : task[c] = "serving" => task'[c] = "serving"
<1> USE DEF ForwardingConstants, JoinedConstants, JoinedType, SlotsType, Phase, Placed
<1>1. ASSUME NEW c \in Conn, Disconnect(c)
      PROVE  /\ JoinedType' /\ Placed' /\ UNCHANGED <<place, task>>
  BY <1>1 DEF Disconnect, Close
<1>2. ASSUME NEW c \in Conn, Depart(c)
      PROVE  /\ JoinedType' /\ Placed' /\ UNCHANGED <<place, task>>
  <2>1. CASE Vacate(c)
    BY <1>2, <2>1 DEF Depart, Vacate
  <2>2. CASE Delist({c})
    BY <1>2, <2>2 DEF Depart, Delist
  <2> QED
    BY <1>2, <2>1, <2>2 DEF Depart
<1>3. ASSUME NEW c \in Conn, NEW s \in Session, NEW r \in Role, JoinRole(c, s, r)
      PROVE  /\ JoinedType' /\ Placed'
             /\ c \in fresh /\ \A d \in Conn \ {c} : place'[d] = place[d] /\ task'[d] = task[d]
  BY <1>3 DEF JoinRole, Take
<1>4. ASSUME NEW c \in Conn, NEW d \in Conn \cup {NoConn}, JoinListed(c, d)
      PROVE  /\ JoinedType' /\ Placed' /\ UNCHANGED place
             /\ task' = [task EXCEPT ![c] = "serving"]
  BY <1>4 DEF JoinListed, List
<1>5. ASSUME NEW s \in Session, SessionExpires(s)
      PROVE  JoinedType' /\ Placed' /\ UNCHANGED <<place, task>>
  BY <1>5 DEF SessionExpires, Expire
<1>6. ASSUME NEW s \in Session, Sweep(s)
      PROVE  JoinedType' /\ Placed' /\ UNCHANGED <<place, task>>
  BY <1>6 DEF Sweep
<1>7. CASE \E c \in Conn : Disconnect(c) \/ Depart(c)
  BY <1>1, <1>2, <1>7
<1>8. CASE \E c \in Conn, s \in Session, r \in Role : JoinRole(c, s, r)
  BY <1>3, <1>8
<1>9. CASE \E c \in Conn, d \in Conn \cup {NoConn} : JoinListed(c, d)
  BY <1>4, <1>9
<1>10. CASE \E s \in Session : SessionExpires(s) \/ Sweep(s)
  BY <1>5, <1>6, <1>10
<1> QED
  BY <1>7, <1>8, <1>9, <1>10 DEF Environment

LEMMA CloseKeeps ==
    ASSUME ForwardingConstants, JoinedType, Placed, NEW c \in Conn, Close({c}), UNCHANGED <<place, task>>
    PROVE  JoinedType' /\ Placed'
  BY DEF JoinedType, SlotsType, Placed, Close

LEMMA LeaveKeeps ==
    ASSUME ForwardingConstants, JoinedType, Placed, NEW c \in Conn, NEW asked, Leave(c, asked)
    PROVE  /\ JoinedType' /\ Placed' /\ UNCHANGED <<holder, listed, closed, fresh, place>>
           /\ task' = [task EXCEPT ![c] = "left"]
  BY DEF JoinedType, SlotsType, Phase, Placed, Leave, BeginDeparture

LEMMA RestKeeps ==
    ASSUME JoinedType, Placed, UNCHANGED joined
    PROVE  JoinedType' /\ Placed' /\ UNCHANGED <<slots, place, task>>
  BY DEF JoinedType, SlotsType, Placed, joined, slots

LEMMA PeerTyped ==
    ASSUME ForwardingConstants, JoinedType, NEW c \in Conn
    PROVE  Peer(c) \in Conn \cup {NoConn}
  BY DEF ForwardingConstants, JoinedConstants, JoinedType, SlotsType, Peer, PeerOf, Role, Other

-----------------------------------------------------------------------------
(* One stream. *)

\* A stream that a step leaves alone, whatever else the step does.
LEMMA Steady ==
    ASSUME TypeOK, NEW x \in Stream, Delivery(x),
           stream'[x] = stream[x], wire'[x] = wire[x], paired[x] \subseteq paired'[x],
           \A c \in Conn : place[c] # NoPlace => place'[c] = place[c],
           stream[x].at \in Live /\ task[stream[x].source] = "serving" =>
               task'[stream[x].source] = "serving"
    PROVE  Delivery(x)'
<1> USE DEF Delivery
<1>1. Owned(x)'
  BY DEF Owned
<1>2. stream[x].at # "unused" => RoleOf(x)' = RoleOf(x)
  BY DEF RoleOf, Owned
<1>3. InHand(x)' /\ Older(x)' /\ Addressed(x)' /\ Ordered(x)' /\ Paired(x)'
  BY DEF InHand, Older, Addressed, Ordered, Paired
<1>4. Bound(x)' /\ HostBound(x)'
  BY <1>2 DEF Bound, HostBound, Live, Busy
<1> QED
  BY <1>1, <1>3, <1>4

\* A stream that a step ends.
LEMMA Ended ==
    ASSUME TypeOK, NEW x \in Stream, Delivery(x), stream[x].at \in Live,
           stream'[x] = End(x), wire'[x] = wire[x], paired[x] \subseteq paired'[x],
           \A c \in Conn : place[c] # NoPlace => place'[c] = place[c]
    PROVE  Delivery(x)'
<1> USE DEF Delivery
<1>0. /\ stream[x] \in StreamTask
      /\ stream'[x] = [stream[x] EXCEPT !.at = "ended", !.peer = NoConn, !.dest = NoConn]
  BY DEF End, TypeOK
<1>1. /\ stream'[x].at = "ended" /\ stream'[x].source = stream[x].source
      /\ stream'[x].target = stream[x].target /\ stream'[x].message = stream[x].message
  BY <1>0 DEF StreamTask
<1>2. Owned(x)' /\ RoleOf(x)' = RoleOf(x)
  BY <1>1 DEF Owned, RoleOf, Live, Busy
<1>3. InHand(x)' /\ Older(x)' /\ Addressed(x)' /\ Ordered(x)' /\ Paired(x)'
  BY <1>1 DEF InHand, Older, Addressed, Ordered, Paired, Busy
<1>4. Bound(x)' /\ HostBound(x)'
  BY <1>1, <1>2 DEF Bound, HostBound, Live, Busy
<1> QED
  BY <1>2, <1>3, <1>4

-----------------------------------------------------------------------------
(* The shape of a step of stream x: only its own task, message and wire      *)
(* change.                                                                   *)

Others(x) ==
    /\ stream' \in [Stream -> StreamTask] /\ wire' \in [Stream -> Seq(Wire)]
    /\ \A y \in Stream \ {x} : stream'[y] = stream[y] /\ wire'[y] = wire[y]

\* Stream x has the fields of t.
Fields(x, t) ==
    /\ stream'[x].at = t.at /\ stream'[x].source = t.source
    /\ stream'[x].target = t.target /\ stream'[x].message = t.message
    /\ stream'[x].peer = t.peer /\ stream'[x].dest = t.dest

LEMMA WireTyped ==
    ASSUME TypeOK, NEW x \in Stream
    PROVE  \A i \in DOMAIN wire[x] : wire[x][i].message \in Nat /\ wire[x][i].to \in Conn
<1>1. wire[x] \in Seq(Wire)
  BY DEF TypeOK, Wire
<1>2. \A i \in DOMAIN wire[x] : wire[x][i] \in Wire
  BY <1>1, ElementOfSeq
<1> QED
  BY <1>2 DEF Wire

LEMMA Becoming ==
    ASSUME TypeOK, NEW x \in Stream, NEW t \in StreamTask, stream' = [stream EXCEPT ![x] = t],
           UNCHANGED wire
    PROVE  Others(x) /\ Fields(x, t) /\ wire'[x] = wire[x]
  BY DEF TypeOK, Others, Wire, Fields

LEMMA EndTyped ==
    ASSUME TypeOK, NEW x \in Stream
    PROVE  End(x) \in StreamTask
  BY DEF TypeOK, StreamTask, End

LEMMA Writing ==
    ASSUME TypeOK, NEW x \in Stream, InHand(x), Write(x)
    PROVE  /\ Others(x) /\ UNCHANGED joined
           /\ stream[x].at = "write" /\ Fields(x, [stream[x] EXCEPT !.at = "reading"])
           /\ Len(wire'[x]) = Len(wire[x]) + 1
           /\ \A i \in 1..Len(wire[x]) : wire'[x][i] = wire[x][i]
           /\ wire'[x][Len(wire[x]) + 1] = [message |-> stream[x].message, to |-> stream[x].dest]
<1> DEFINE entry == [message |-> stream[x].message, to |-> stream[x].dest]
<1>1. /\ stream[x].at = "write" /\ stream' = [stream EXCEPT ![x].at = "reading"]
      /\ wire' = [wire EXCEPT ![x] = Append(@, entry)] /\ UNCHANGED joined
  BY DEF Write
<1>2. stream[x] \in StreamTask /\ wire[x] \in Seq(Wire)
  BY DEF TypeOK, Wire
<1>3. entry \in Wire
  BY <1>1, <1>2 DEF InHand, Busy, StreamTask, Wire
<1>4. /\ Append(wire[x], entry) \in Seq(Wire)
      /\ Len(Append(wire[x], entry)) = Len(wire[x]) + 1
      /\ \A i \in 1..Len(wire[x]) : Append(wire[x], entry)[i] = wire[x][i]
      /\ Append(wire[x], entry)[Len(wire[x]) + 1] = entry
  BY <1>2, <1>3, AppendProperties
<1>5. Others(x)
  BY <1>1, <1>2, <1>4 DEF TypeOK, Others, Wire, StreamTask, Live
<1>6. Fields(x, [stream[x] EXCEPT !.at = "reading"])
  BY <1>1, <1>2 DEF TypeOK, Fields, StreamTask
<1> HIDE DEF entry
<1>7. wire'[x] = Append(wire[x], entry)
  BY <1>1 DEF TypeOK
<1> QED
  BY <1>1, <1>4, <1>5, <1>6, <1>7 DEF entry

\* What Observe adds to the history.
LEMMA Observing ==
    ASSUME ForwardingConstants, TypeOK, Observe, JoinedType', stream' \in [Stream -> StreamTask],
           \A x \in Stream : stream'[x].at # "unused" => stream'[x].source \in Conn
    PROVE  /\ paired' \in [Stream -> SUBSET Conn]
           /\ \A x \in Stream : stream'[x].message = stream[x].message =>
                                    paired[x] \subseteq paired'[x]
           /\ \A x \in Stream : stream'[x].at # "unused" =>
                                    ({Peer(stream[x].source)} \ {NoConn})' \subseteq paired'[x]
<1>1. \A x \in Stream : PeersOf(x)' \subseteq Conn
  <2>1. \A c \in Conn : Peer(c)' \in Conn \cup {NoConn}
    BY
      DEF ForwardingConstants, JoinedConstants, JoinedType, SlotsType, Peer, PeerOf, Role,
          Other
  <2> QED
    BY <2>1 DEF PeersOf
<1>2. \A x \in Stream :
        paired'[x] = (IF stream'[x].message # stream[x].message THEN {} ELSE paired[x])
                         \cup PeersOf(x)'
  BY DEF Observe
<1>3. paired' \in [Stream -> SUBSET Conn]
  <2>1. \A x \in Stream : paired[x] \subseteq Conn
    BY DEF TypeOK
  <2> QED
    BY <1>1, <2>1 DEF Observe
<1> QED
  BY <1>2, <1>3 DEF PeersOf

-----------------------------------------------------------------------------
(* The actions of a stream.  Each lemma gives the new stream task, what      *)
(* became of the relay, and that the properties of the stream are kept when  *)
(* its history is.                                                           *)

\* The relay's tasks and places stay, whether or not a transport is closed.
TasksStay == JoinedType' /\ Placed' /\ UNCHANGED <<place, task>>

\* The history of stream x grows while it has the same message in hand.
Grows(x) == stream'[x].message = stream[x].message => paired[x] \subseteq paired'[x]

StreamStep(x) ==
    /\ Others(x) /\ TasksStay
    /\ stream'[x].at # "unused" /\ stream'[x].source \in Conn

LEMMA Ending ==
    ASSUME ForwardingConstants, TypeOK, Placed, NEW x \in Stream, Delivery(x),
           stream[x].at \in Live, stream' = [stream EXCEPT ![x] = End(x)], UNCHANGED wire,
           UNCHANGED joined \/ (Close({stream[x].source}) /\ UNCHANGED <<place, task>>)
    PROVE  StreamStep(x) /\ (Grows(x) => Delivery(x)')
<1>1. Others(x) /\ Fields(x, End(x)) /\ wire'[x] = wire[x] /\ stream'[x] = End(x)
  BY Becoming, EndTyped DEF TypeOK
<1>2. stream[x] \in StreamTask /\ stream[x].source \in Conn
  BY DEF TypeOK, Delivery, Owned, Live, Busy
<1>3. TasksStay
  BY <1>2, CloseKeeps, RestKeeps DEF TasksStay, TypeOK
<1>4. StreamStep(x) /\ stream'[x].message = stream[x].message
  BY <1>1, <1>2, <1>3 DEF StreamStep, End, StreamTask, Fields
<1>5. Grows(x) => Delivery(x)'
  BY <1>1, <1>3, <1>4, Ended DEF TasksStay, Grows
<1> QED
  BY <1>4, <1>5

LEMMA Opening ==
    ASSUME ForwardingConstants, TypeOK, Placed, NEW x \in Stream, Delivery(x),
           NEW c \in Conn, NEW g \in (Conn \ fresh) \cup {Anyone}, Open(x, c, g)
    PROVE  StreamStep(x) /\ (Grows(x) => Delivery(x)')
<1> DEFINE t == [Unused EXCEPT !.at = "reading", !.source = c, !.target = g]
<1>1. t \in StreamTask
  <2>1. 0 \in 0..MaxMessages
    BY DEF ForwardingConstants
  <2>2. Unused \in StreamTask
    BY <2>1 DEF Unused, StreamTask
  <2> QED
    BY <2>2 DEF StreamTask, Live
<1>2. /\ stream[x].at = "unused" /\ task[c] = "serving"
      /\ stream' = [stream EXCEPT ![x] = t] /\ UNCHANGED <<joined, wire>>
  BY DEF Open, Becomes, Serving
<1>3. Others(x) /\ Fields(x, t) /\ wire'[x] = wire[x]
  BY <1>1, <1>2, Becoming
<1>4. wire[x] = <<>> /\ place[c] # NoPlace
  BY <1>2 DEF Delivery, InHand, Placed
<1>5. /\ stream'[x].at = "reading" /\ stream'[x].source = c /\ stream'[x].target = g
  BY <1>3 DEF Fields, Unused
<1>6. StreamStep(x)
  BY <1>2, <1>3, <1>5, RestKeeps DEF StreamStep, TasksStay, TypeOK
<1>7. Delivery(x)'
  <2>1. Owned(x)'
    BY <1>2, <1>4, <1>5 DEF Owned, joined
  <2> QED
    BY <1>3, <1>4, <1>5, <2>1 DEF Delivery, InHand, Older, Bound, Addressed, HostBound,
                                   Ordered, Paired, Busy
<1> QED
  BY <1>6, <1>7

LEMMA Reading ==
    ASSUME ForwardingConstants, TypeOK, Placed, NEW x \in Stream, Delivery(x), Read(x)
    PROVE  StreamStep(x) /\ (Grows(x) => Delivery(x)')
<1> DEFINE t == [stream[x] EXCEPT !.at = "lookup", !.message = @ + 1]
<1>0. stream[x] \in StreamTask
  BY DEF TypeOK
<1>1. /\ stream[x].at = "reading" /\ stream[x].message < MaxMessages
      /\ stream' = [stream EXCEPT ![x] = t] /\ UNCHANGED <<joined, wire>>
  BY DEF Read, Becomes
<1>2. t \in StreamTask
  <2>1. stream[x].message + 1 \in 0..MaxMessages
    BY <1>0, <1>1 DEF StreamTask, ForwardingConstants
  <2> QED
    BY <1>0, <2>1 DEF StreamTask, Live, Busy
<1>3. Others(x) /\ Fields(x, t) /\ wire'[x] = wire[x]
  BY <1>1, <1>2, Becoming
<1>4. /\ stream'[x].at = "lookup" /\ stream'[x].source = stream[x].source
      /\ stream'[x].target = stream[x].target /\ stream'[x].dest = stream[x].dest
      /\ stream'[x].message = stream[x].message + 1
  BY <1>0, <1>3 DEF Fields, StreamTask
<1>5. stream[x].source \in Conn /\ stream[x].message \in Nat
  BY <1>0, <1>1 DEF Delivery, Owned, StreamTask
<1>6. StreamStep(x)
  BY <1>1, <1>3, <1>4, <1>5, RestKeeps DEF StreamStep, TasksStay, TypeOK
<1>7. \A i \in DOMAIN wire[x] : wire[x][i].message \in Nat
  BY WireTyped
<1>8. Delivery(x)'
  <2>1. Owned(x)' /\ RoleOf(x)' = RoleOf(x)
    BY <1>1, <1>4 DEF Delivery, Owned, RoleOf, joined, Live, Busy
  <2> QED
    BY <1>1, <1>3, <1>4, <1>5, <1>7, <2>1
      DEF Delivery, InHand, Older, Bound, Addressed, HostBound, Ordered, Paired, Live, Busy
<1> QED
  BY <1>6, <1>8

\* A step that keeps the message and, while the stream may still be written
\* to, its destination: a lookup, or a way back to one.
Moves(x, t) ==
    /\ t \in StreamTask
    /\ stream[x].at \in Busy
    /\ stream' = [stream EXCEPT ![x] = t] /\ UNCHANGED <<joined, wire>>
    /\ t.source = stream[x].source /\ t.target = stream[x].target
    /\ t.message = stream[x].message
    /\ t.at \in Live
    /\ t.dest # stream[x].dest => RoleOf(x) # "Host" \/ \A i \in DOMAIN wire[x] : FALSE

LEMMA Moving ==
    ASSUME ForwardingConstants, TypeOK, Placed, NEW x \in Stream, Delivery(x),
           NEW t, Moves(x, t)
    PROVE  /\ StreamStep(x) /\ Fields(x, t) /\ stream[x].source \in Conn
           /\ Grows(x) /\ InHand(x)' => Delivery(x)'
<1>1. Others(x) /\ Fields(x, t) /\ wire'[x] = wire[x]
  BY Becoming DEF Moves
<1>2. stream[x].source \in Conn /\ stream[x].at \in Live
  BY DEF Delivery, Owned, Moves, Live, Busy
<1>3. StreamStep(x)
  BY <1>1, <1>2, RestKeeps DEF StreamStep, TasksStay, Moves, Fields, TypeOK, Live, Busy
<1>4. Owned(x)' /\ RoleOf(x)' = RoleOf(x)
  BY <1>1, <1>2 DEF Delivery, Owned, RoleOf, Moves, Fields, joined, Live, Busy
<1>5. \A i \in DOMAIN wire[x] : wire[x][i].message < stream[x].message
  BY DEF Delivery, Older, Moves
<1>6. stream[x].message \in Nat /\ \A i \in DOMAIN wire[x] : wire[x][i].message \in Nat
  <2>1. stream[x] \in StreamTask
    BY DEF TypeOK
  <2> QED
    BY <2>1, WireTyped DEF StreamTask
<1>7. Grows(x) => Older(x)' /\ Addressed(x)' /\ Ordered(x)' /\ Paired(x)'
  BY <1>1, <1>5, <1>6 DEF Delivery, Older, Addressed, Ordered, Paired, Moves, Fields
<1>8. Bound(x)' /\ HostBound(x)'
  BY <1>1, <1>2, <1>4 DEF Delivery, Bound, HostBound, Moves, Fields, Live, Busy
<1> QED
  BY <1>1, <1>2, <1>3, <1>4, <1>7, <1>8 DEF Delivery

LEMMA LookingUp ==
    ASSUME ForwardingConstants, TypeOK, Placed, NEW x \in Stream, Delivery(x), LookUpPeer(x)
    PROVE  /\ StreamStep(x)
           /\ Grows(x) /\ ({Peer(stream[x].source)} \ {NoConn})' \subseteq paired'[x] => Delivery(x)'
<1> DEFINE p == Peer(stream[x].source)
           t == [stream[x] EXCEPT !.peer = p, !.at = IF p = NoConn THEN "absent" ELSE "resolve"]
<1>0. stream[x] \in StreamTask
  BY DEF TypeOK
<1>1. /\ stream[x].at = "lookup" /\ stream' = [stream EXCEPT ![x] = t]
      /\ UNCHANGED <<joined, wire>>
  BY DEF LookUpPeer, Becomes
<1>2. stream[x].source \in Conn /\ p \in Conn \cup {NoConn}
  BY <1>1, PeerTyped DEF Delivery, Owned, Live, Busy, TypeOK
<1>3. Moves(x, t)
  BY <1>0, <1>1, <1>2 DEF Moves, StreamTask, Live, Busy
<1>4. /\ StreamStep(x) /\ Fields(x, t)
      /\ Grows(x) /\ InHand(x)' => Delivery(x)'
  BY <1>3, Moving
<1>5. /\ stream'[x].message = stream[x].message /\ stream'[x].peer = p
      /\ stream'[x].at \in {"absent", "resolve"} /\ (stream'[x].at = "resolve" => p # NoConn)
      /\ stream'[x].source = stream[x].source
  BY <1>0, <1>4 DEF Fields, StreamTask
<1>6. p' = p
  <2>1. holder' = holder /\ place' = place
    BY <1>1 DEF joined, slots
  <2> QED
    BY <1>5, <2>1 DEF Peer, PeerOf
<1>7. ({p} \ {NoConn})' \subseteq paired'[x] => InHand(x)'
  BY <1>1, <1>5, <1>6 DEF InHand, Busy, Delivery
<1> QED
  BY <1>4, <1>7

LEMMA Resolving ==
    ASSUME ForwardingConstants, TypeOK, Placed, NEW x \in Stream, Delivery(x), Resolve(x)
    PROVE  StreamStep(x) /\ (Grows(x) => Delivery(x)')
<1>0. stream[x] \in StreamTask
  BY DEF TypeOK
<1>1. stream[x].at = "resolve" /\ UNCHANGED <<joined, wire>>
  BY DEF Resolve, Becomes
<1>2. CASE stream' = [stream EXCEPT ![x] = End(x)]
  BY <1>1, <1>2, Ending DEF Live, Busy
<1>3. CASE stream' = [stream EXCEPT ![x] = [stream[x] EXCEPT !.at = "absent"]]
  <2> DEFINE t == [stream[x] EXCEPT !.at = "absent"]
  <2>1. Moves(x, t)
    BY <1>0, <1>1, <1>3 DEF Moves, StreamTask, Live, Busy
  <2>2. /\ StreamStep(x) /\ Fields(x, t)
        /\ Grows(x) /\ InHand(x)' => Delivery(x)'
    BY <2>1, Moving
  <2>3. InHand(x)'
    BY <1>0, <1>1, <2>2 DEF Fields, StreamTask, Delivery, InHand, Busy
  <2> QED
    BY <2>2, <2>3
<1>4. CASE /\ ~Misdirected(x) /\ ~Replaced(x)
           /\ stream' = [stream EXCEPT ![x] = [stream[x] EXCEPT
                            !.at = IF stream[x].dest = NoConn THEN "open" ELSE "write"]]
  <2> DEFINE t == [stream[x] EXCEPT !.at = IF stream[x].dest = NoConn THEN "open" ELSE "write"]
  <2>1. Moves(x, t)
    BY <1>0, <1>1, <1>4 DEF Moves, StreamTask, Live, Busy
  <2>2. /\ StreamStep(x) /\ Fields(x, t)
        /\ Grows(x) /\ InHand(x)' => Delivery(x)'
    BY <2>1, Moving
  <2>3. /\ stream'[x].at = IF stream[x].dest = NoConn THEN "open" ELSE "write"
        /\ stream'[x].target = stream[x].target /\ stream'[x].message = stream[x].message
        /\ stream'[x].peer = stream[x].peer /\ stream'[x].dest = stream[x].dest
    BY <1>0, <2>2 DEF Fields, StreamTask
  <2>4. Grows(x) => InHand(x)'
    BY <1>1, <1>4, <2>3 DEF Delivery, InHand, Grows, Misdirected, Replaced, Busy
  <2> QED
    BY <2>2, <2>4
<1> QED
  BY <1>2, <1>3, <1>4 DEF Resolve, Becomes

LEMMA LookingAgain ==
    ASSUME ForwardingConstants, TypeOK, Placed, NEW x \in Stream, Delivery(x),
           LookAgain(x) \/ OpenFails(x) \/ (HeaderFails(x) /\ RoleOf(x) # "Host")
    PROVE  StreamStep(x) /\ (Grows(x) => Delivery(x)')
<1>0. stream[x] \in StreamTask
  BY DEF TypeOK
<1> PICK a \in {"reading", "lookup"} :
         stream' = [stream EXCEPT ![x] = [stream[x] EXCEPT !.at = a]]
  BY DEF LookAgain, OpenFails, HeaderFails, Becomes
<1> DEFINE t == [stream[x] EXCEPT !.at = a]
<1>1. stream[x].at \in {"absent", "open"} /\ UNCHANGED <<joined, wire>>
  BY DEF LookAgain, OpenFails, HeaderFails, Becomes
<1>2. Moves(x, t)
  BY <1>0, <1>1 DEF Moves, StreamTask, Live, Busy
<1>3. /\ StreamStep(x) /\ Fields(x, t)
      /\ Grows(x) /\ InHand(x)' => Delivery(x)'
  BY <1>2, Moving
<1>4. InHand(x)'
  BY <1>0, <1>1, <1>3 DEF Fields, StreamTask, Delivery, InHand, Busy
<1> QED
  BY <1>3, <1>4

LEMMA Binding ==
    ASSUME ForwardingConstants, TypeOK, Placed, NEW x \in Stream, Delivery(x), BindPeer(x)
    PROVE  StreamStep(x) /\ (Grows(x) => Delivery(x)')
<1> DEFINE t == [stream[x] EXCEPT !.at = "write", !.dest = stream[x].peer]
<1>0. stream[x] \in StreamTask
  BY DEF TypeOK
<1>1. /\ stream[x].at = "open" /\ stream' = [stream EXCEPT ![x] = t]
      /\ UNCHANGED <<joined, wire>>
  BY DEF BindPeer, Becomes
<1>2. RoleOf(x) = "Host" => \A i \in DOMAIN wire[x] : FALSE
  <2>1. stream[x].dest \notin Conn
    BY <1>1 DEF Delivery, InHand, ForwardingConstants, JoinedConstants
  <2> QED
    BY <1>1, <2>1, WireTyped DEF Delivery, Bound, Live, Busy
<1>3. Moves(x, t)
  BY <1>0, <1>1, <1>2 DEF Moves, StreamTask, Live, Busy
<1>4. /\ StreamStep(x) /\ Fields(x, t)
      /\ Grows(x) /\ InHand(x)' => Delivery(x)'
  BY <1>3, Moving
<1>5. /\ stream'[x].at = "write" /\ stream'[x].target = stream[x].target
      /\ stream'[x].message = stream[x].message
      /\ stream'[x].peer = stream[x].peer /\ stream'[x].dest = stream[x].peer
  BY <1>0, <1>4 DEF Fields, StreamTask
<1>6. Grows(x) => InHand(x)'
  BY <1>1, <1>5 DEF Delivery, InHand, Grows, Busy
<1> QED
  BY <1>4, <1>6

LEMMA WritingAgain ==
    ASSUME ForwardingConstants, TypeOK, Placed, NEW x \in Stream, Delivery(x),
           WriteFails(x), RoleOf(x) # "Host"
    PROVE  StreamStep(x) /\ (Grows(x) => Delivery(x)')
<1> DEFINE t == [stream[x] EXCEPT !.at = "lookup", !.dest = NoConn]
<1>0. stream[x] \in StreamTask
  BY DEF TypeOK
<1>1. /\ stream[x].at = "write" /\ stream' = [stream EXCEPT ![x] = t]
      /\ UNCHANGED <<joined, wire>>
  BY DEF WriteFails, Becomes
<1>2. Moves(x, t)
  BY <1>0, <1>1 DEF Moves, StreamTask, Live, Busy
<1>3. /\ StreamStep(x) /\ Fields(x, t)
      /\ Grows(x) /\ InHand(x)' => Delivery(x)'
  BY <1>2, Moving
<1>4. InHand(x)'
  BY <1>0, <1>1, <1>3 DEF Fields, StreamTask, Delivery, InHand, Busy
<1> QED
  BY <1>3, <1>4

\* The one step that reaches a peer.
LEMMA Delivering ==
    ASSUME ForwardingConstants, TypeOK, Placed, NEW x \in Stream, Delivery(x), Write(x)
    PROVE  StreamStep(x) /\ (Grows(x) => Delivery(x)')
<1> DEFINE n == Len(wire[x])
           t == [stream[x] EXCEPT !.at = "reading"]
<1>1. /\ Others(x) /\ UNCHANGED joined /\ stream[x].at = "write" /\ Fields(x, t)
      /\ Len(wire'[x]) = n + 1 /\ \A i \in 1..n : wire'[x][i] = wire[x][i]
      /\ wire'[x][n + 1] = [message |-> stream[x].message, to |-> stream[x].dest]
  BY Writing DEF Delivery
<1>2. /\ stream[x] \in StreamTask /\ n \in Nat /\ DOMAIN wire[x] = 1..n
      /\ DOMAIN wire'[x] = 1..(n + 1)
  <2>1. wire[x] \in Seq(Wire) /\ wire'[x] \in Seq(Wire)
    BY <1>1 DEF TypeOK, Wire, Others
  <2> QED
    BY <1>1, <2>1, LenProperties DEF TypeOK
<1>3. /\ stream'[x].at = "reading" /\ stream'[x].source = stream[x].source
      /\ stream'[x].target = stream[x].target /\ stream'[x].message = stream[x].message
      /\ stream'[x].dest = stream[x].dest
  BY <1>1, <1>2 DEF Fields, StreamTask
<1>4. StreamStep(x) /\ RoleOf(x)' = RoleOf(x) /\ Owned(x)'
  BY <1>1, <1>3, RestKeeps
    DEF StreamStep, TasksStay, TypeOK, Delivery, Owned, RoleOf, joined, Live, Busy
<1>5. /\ stream[x].dest = stream[x].peer /\ stream[x].dest \in paired[x]
      /\ stream[x].target \in {Anyone, stream[x].dest}
      /\ \A i \in 1..n : wire[x][i].message < stream[x].message
  BY <1>1, <1>2 DEF Delivery, InHand, Older, Busy
<1>6. \A i \in 1..n : wire[x][i].message \in Nat /\ stream[x].message \in Nat
  BY <1>2, WireTyped DEF StreamTask
<1> HIDE DEF n, t
<1>7. /\ wire'[x][n + 1].message = stream[x].message /\ wire'[x][n + 1].to = stream[x].dest
      /\ stream[x].message \in Nat
  BY <1>1, <1>2 DEF StreamTask
<1>8. \A i \in 1..(n + 1) : i \in 1..n \/ i = n + 1
  BY <1>2
<1>9. InHand(x)'
  BY <1>3 DEF InHand, Busy
<1>10. Older(x)'
  BY <1>1, <1>2, <1>3, <1>5, <1>6, <1>7, <1>8 DEF Older, Busy
<1>11. Ordered(x)'
  <2> SUFFICES ASSUME NEW i \in 1..(n + 1), NEW j \in 1..(n + 1), i < j
               PROVE  wire'[x][i].message < wire'[x][j].message
    BY <1>2 DEF Ordered
  <2>1. i \in 1..n
    BY <1>2
  <2>2. CASE j = n + 1
    BY <1>1, <1>5, <1>7, <2>1, <2>2
  <2>3. CASE j \in 1..n
    BY <1>1, <1>2, <2>1, <2>3 DEF Delivery, Ordered
  <2> QED
    BY <1>8, <2>2, <2>3
<1>12. Addressed(x)'
  BY <1>1, <1>2, <1>3, <1>5, <1>7, <1>8 DEF Delivery, Addressed
<1>13. Bound(x)' /\ HostBound(x)'
  BY SMTT(30), <1>1, <1>2, <1>3, <1>4, <1>7, <1>8 DEF Delivery, Bound, HostBound, Live, Busy
<1>14. Grows(x) => Paired(x)'
  BY <1>1, <1>2, <1>3, <1>5, <1>6, <1>7, <1>8 DEF Grows, Paired
<1> QED
  BY <1>4, <1>9, <1>10, <1>11, <1>12, <1>13, <1>14 DEF Delivery

-----------------------------------------------------------------------------
(* The invariant. *)

LEMMA StreamKeeps ==
    ASSUME ForwardingConstants, TypeOK, Placed, NEW x \in Stream, Delivery(x), Forward(x)
    PROVE  /\ StreamStep(x)
           /\ Grows(x) /\ ({Peer(stream[x].source)} \ {NoConn})' \subseteq paired'[x] => Delivery(x)'
<1>0. stream[x] \in StreamTask
  BY DEF TypeOK
<1>1. CASE \E c \in Conn, g \in (Conn \ fresh) \cup {Anyone} : Open(x, c, g)
  BY <1>1, Opening
<1>2. CASE Read(x)
  BY <1>2, Reading
<1>3. CASE Finish(x) \/ AbandonHost(x)
  BY <1>3, Ending DEF Finish, AbandonHost, Becomes, Live, Busy
<1>4. CASE ReadFails(x) \/ PeerUnavailable(x)
  BY <1>4, Ending DEF ReadFails, PeerUnavailable, Live, Busy
<1>5. CASE LookUpPeer(x)
  BY <1>5, LookingUp
<1>6. CASE Resolve(x)
  BY <1>6, Resolving
<1>7. CASE LookAgain(x) \/ OpenFails(x)
  <2>1. CASE LookAgain(x)
    BY <2>1, LookingAgain
  <2>2. CASE OpenFails(x)
    BY <2>2, LookingAgain
  <2> QED
    BY <1>7, <2>1, <2>2
<1>8. CASE HeaderFails(x)
  <2>1. CASE RoleOf(x) = "Host"
    BY <1>8, <2>1, Ending DEF HeaderFails, Becomes, Live, Busy
  <2> QED
    BY <1>8, <2>1, LookingAgain
<1>9. CASE BindPeer(x)
  BY <1>9, Binding
<1>10. CASE Write(x)
  BY <1>10, Delivering
<1>11. CASE WriteFails(x)
  <2>1. CASE RoleOf(x) = "Host"
    BY <1>11, <2>1, Ending DEF WriteFails, Becomes, Live, Busy
  <2> QED
    BY <1>11, <2>1, WritingAgain
<1> QED
  BY <1>1, <1>2, <1>3, <1>4, <1>5, <1>6, <1>7, <1>8, <1>9, <1>10, <1>11 DEF Forward

LEMMA Initially == ForwardingConstants /\ Init => IInv
<1> SUFFICES ASSUME ForwardingConstants, Init PROVE IInv
  OBVIOUS
<1> USE DEF ForwardingConstants, JoinedConstants, Init, JoinedInit, SlotsInit
<1>1. Unused \in StreamTask
  <2>1. 0 \in 0..MaxMessages
    OBVIOUS
  <2> QED
    BY <2>1 DEF Unused, StreamTask
<1>2. JoinedType
  BY DEF JoinedType, SlotsType, Phase
<1>3. TypeOK
  BY <1>1, <1>2 DEF TypeOK
<1>4. Placed
  BY DEF Placed
<1>5. ASSUME NEW x \in Stream PROVE Delivery(x)
  BY DEF Delivery, Owned, InHand, Older, Bound, Addressed, HostBound, Ordered, Paired,
         Unused, Live, Busy
<1> QED
  BY <1>3, <1>4, <1>5 DEF IInv

LEMMA Inductive == ForwardingConstants /\ IInv /\ [Next]_vars => IInv'
<1> SUFFICES ASSUME ForwardingConstants, IInv, [Next]_vars PROVE IInv'
  OBVIOUS
<1>0. TypeOK /\ Placed /\ JoinedType /\ \A x \in Stream : Delivery(x)
  BY DEF IInv, TypeOK
<1>1. ASSUME JoinedType', stream' \in [Stream -> StreamTask], wire' \in [Stream -> Seq(Wire)],
             \A x \in Stream : stream'[x].at # "unused" => stream'[x].source \in Conn, Observe
      PROVE  /\ TypeOK'
             /\ \A x \in Stream : Grows(x)
             /\ \A x \in Stream : stream'[x].at # "unused" =>
                    ({Peer(stream[x].source)} \ {NoConn})' \subseteq paired'[x]
  BY <1>0, <1>1, Observing DEF TypeOK, Wire, Grows
<1>2. CASE Environment /\ UNCHANGED <<stream, wire>> /\ Observe
  <2>1. /\ JoinedType' /\ Placed'
        /\ \A c \in Conn : place[c] # NoPlace => place'[c] = place[c]
        /\ \A c \in Conn : task[c] = "serving" => task'[c] = "serving"
    BY <1>0, <1>2, EnvironmentKeeps
  <2>2. \A x \in Stream : stream[x].at # "unused" => stream[x].source \in Conn
    BY <1>0 DEF Delivery, Owned
  <2>3. TypeOK' /\ \A x \in Stream : paired[x] \subseteq paired'[x]
    BY <1>0, <1>1, <1>2, <2>1, <2>2 DEF TypeOK, Wire, Grows
  <2>4. ASSUME NEW x \in Stream PROVE Delivery(x)'
    BY <1>0, <1>2, <2>1, <2>2, <2>3, Steady DEF Live, Busy
  <2> QED
    BY <2>1, <2>3, <2>4 DEF IInv
<1>3. ASSUME NEW c \in Conn, RejectStream(c), Observe PROVE IInv'
  <2>1. JoinedType' /\ Placed' /\ UNCHANGED <<place, task, stream, wire>>
    BY <1>0, <1>3, CloseKeeps DEF RejectStream
  <2>2. \A x \in Stream : stream[x].at # "unused" => stream[x].source \in Conn
    BY <1>0 DEF Delivery, Owned
  <2>3. TypeOK' /\ \A x \in Stream : paired[x] \subseteq paired'[x]
    BY <1>0, <1>1, <1>3, <2>1, <2>2 DEF TypeOK, Wire, Grows
  <2>4. ASSUME NEW x \in Stream PROVE Delivery(x)'
    BY <1>0, <2>1, <2>3, Steady
  <2> QED
    BY <2>1, <2>3, <2>4 DEF IInv
<1>4. ASSUME NEW c \in Conn, LeaveDrained(c), Observe PROVE IInv'
  <2>1. /\ JoinedType' /\ Placed' /\ UNCHANGED <<place, wire>>
        /\ task' = [task EXCEPT ![c] = "left"]
    BY <1>0, <1>4, LeaveKeeps DEF LeaveDrained
  <2>2. stream' = [x \in Stream |-> IF x \in LiveStreams(c) THEN End(x) ELSE stream[x]]
    BY <1>4 DEF LeaveDrained
  <2>3. stream' \in [Stream -> StreamTask]
    BY <1>0, <2>2, EndTyped DEF TypeOK
  <2>4. \A x \in Stream : End(x).source = stream[x].source /\ End(x).message = stream[x].message
    BY <1>0 DEF TypeOK, StreamTask, End
  <2>5. \A x \in Stream : stream'[x].at # "unused" => stream'[x].source \in Conn
    BY <1>0, <2>2, <2>4 DEF Delivery, Owned, LiveStreams
  <2>6. TypeOK' /\ \A x \in Stream : paired[x] \subseteq paired'[x]
    BY <1>0, <1>1, <1>4, <2>1, <2>2, <2>3, <2>4, <2>5 DEF TypeOK, Wire, Grows
  <2>7. ASSUME NEW x \in Stream PROVE Delivery(x)'
    <3>1. CASE x \in LiveStreams(c)
      BY <1>0, <2>1, <2>2, <2>6, <3>1, Ended DEF LiveStreams
    <3>2. CASE x \notin LiveStreams(c)
      <4>1. stream'[x] = stream[x] /\ (stream[x].at \in Live => stream[x].source # c)
        BY <2>2, <3>2 DEF LiveStreams
      <4>2. stream[x].at \in Live => task'[stream[x].source] = task[stream[x].source]
        BY <1>0, <2>1, <4>1 DEF TypeOK, JoinedType, Delivery, Owned, Live, Busy
      <4> QED
        BY <1>0, <2>1, <2>6, <4>1, <4>2, Steady
    <3> QED
      BY <3>1, <3>2
  <2> QED
    BY <2>1, <2>6, <2>7 DEF IInv
<1>5. ASSUME NEW x \in Stream, Forward(x), Observe PROVE IInv'
  <2>1. /\ StreamStep(x)
        /\ Grows(x) /\ ({Peer(stream[x].source)} \ {NoConn})' \subseteq paired'[x] => Delivery(x)'
    BY <1>0, <1>5, StreamKeeps
  <2>2. \A y \in Stream : stream'[y].at # "unused" => stream'[y].source \in Conn
    BY <1>0, <2>1 DEF StreamStep, Others, Delivery, Owned
  <2>3. /\ TypeOK' /\ \A y \in Stream : Grows(y)
        /\ ({Peer(stream[x].source)} \ {NoConn})' \subseteq paired'[x]
    BY <1>1, <1>5, <2>1, <2>2 DEF StreamStep, Others, TasksStay
  <2>4. ASSUME NEW y \in Stream \ {x} PROVE Delivery(y)'
    <3>1. stream'[y] = stream[y] /\ wire'[y] = wire[y] /\ UNCHANGED <<place, task>>
      BY <2>1 DEF StreamStep, Others, TasksStay
    <3> QED
      BY <1>0, <2>3, <3>1, Steady DEF Grows
  <2> QED
    BY <2>1, <2>3, <2>4 DEF IInv, StreamStep, TasksStay
<1>6. CASE UNCHANGED vars
  <2>1. JoinedType' /\ Placed' /\ UNCHANGED <<place, task, stream, wire, paired>>
    BY <1>0, <1>6, RestKeeps DEF vars
  <2>2. TypeOK'
    BY <1>0, <2>1 DEF TypeOK
  <2>3. ASSUME NEW x \in Stream PROVE Delivery(x)'
    BY <1>0, <2>1, Steady
  <2> QED
    BY <2>1, <2>2, <2>3 DEF IInv
<1> QED
  BY <1>2, <1>3, <1>4, <1>5, <1>6 DEF Next, Connection

-----------------------------------------------------------------------------
(* The limit of streams.                                                     *)

\* A task that has begun keeps its source, and none begins twice.
LEMMA SourceKept ==
    ASSUME TypeOK, NEW x \in Stream, Forward(x), stream[x].at # "unused"
    PROVE  stream[x].at \in Live /\ stream'[x].source = stream[x].source
<1>0. stream[x] \in StreamTask /\ stream \in [Stream -> StreamTask]
  BY DEF TypeOK
<1>1. End(x).source = stream[x].source
  BY <1>0 DEF End, StreamTask
<1>2. CASE Read(x) \/ LookUpPeer(x) \/ LookAgain(x)
  BY ZenonT(30), <1>0, <1>2 DEF Read, LookUpPeer, LookAgain, Becomes, Live, Busy, StreamTask
<1>3. CASE Finish(x) \/ ReadFails(x) \/ AbandonHost(x) \/ PeerUnavailable(x)
  BY <1>0, <1>1, <1>3
    DEF Finish, ReadFails, AbandonHost, PeerUnavailable, Becomes, Live, Busy, StreamTask
<1>4. CASE Resolve(x)
  <2>1. \/ stream'[x] = End(x)
        \/ \E a : stream'[x] = [stream[x] EXCEPT !.at = a]
    BY <1>0, <1>4 DEF Resolve, Becomes
  <2> QED
    BY <1>0, <1>1, <1>4, <2>1 DEF Resolve, Live, Busy, StreamTask
<1>5. CASE HeaderFails(x)
  <2>1. \/ stream'[x] = End(x)
        \/ stream'[x] = [stream[x] EXCEPT !.at = "lookup"]
    BY <1>0, <1>5 DEF HeaderFails, Becomes
  <2> QED
    BY <1>0, <1>1, <1>5, <2>1 DEF HeaderFails, Live, Busy, StreamTask
<1>6. CASE WriteFails(x)
  <2>1. \/ stream'[x] = End(x)
        \/ stream'[x] = [stream[x] EXCEPT !.at = "lookup", !.dest = NoConn]
    BY <1>0, <1>6 DEF WriteFails, Becomes
  <2> QED
    BY <1>0, <1>1, <1>6, <2>1 DEF WriteFails, Live, Busy, StreamTask
<1>7. CASE BindPeer(x)
  BY <1>0, <1>7 DEF BindPeer, Becomes, Live, Busy, StreamTask
<1>8. CASE OpenFails(x)
  <2>1. \E a : stream'[x] = [stream[x] EXCEPT !.at = a]
    BY <1>0, <1>8 DEF OpenFails, Becomes
  <2> QED
    BY <1>0, <1>8, <2>1 DEF OpenFails, Live, Busy, StreamTask
<1>9. CASE Write(x)
  BY <1>0, <1>9 DEF Write, Live, Busy, StreamTask
<1> QED
  BY <1>2, <1>3, <1>4, <1>5, <1>6, <1>7, <1>8, <1>9 DEF Forward, Open

Limited == \A c \in Conn : Cardinality(LiveStreams(c)) <= MaxStreams

LEMMA LiveFinite ==
    ASSUME ForwardingConstants, NEW c
    PROVE  /\ IsFiniteSet(LiveStreams(c)) /\ Cardinality(LiveStreams(c)) \in Nat
           /\ \A T \in SUBSET LiveStreams(c) : Cardinality(T) <= Cardinality(LiveStreams(c))
<1>1. IsFiniteSet(LiveStreams(c))
  BY FS_Subset DEF ForwardingConstants, LiveStreams
<1> QED
  BY <1>1, FS_Subset, FS_CardinalityType

LEMMA LimitKept == ForwardingConstants /\ IInv /\ Limited /\ [Next]_vars => Limited'
<1> SUFFICES ASSUME ForwardingConstants, IInv, Limited, [Next]_vars, NEW c \in Conn
             PROVE  Cardinality(LiveStreams(c)') <= MaxStreams
  BY DEF Limited
<1>0. TypeOK /\ MaxStreams \in Nat
  BY DEF IInv, ForwardingConstants
<1>1. ASSUME LiveStreams(c)' \subseteq LiveStreams(c)
      PROVE  Cardinality(LiveStreams(c)') <= MaxStreams
  <2>1. Cardinality(LiveStreams(c)) \in Nat /\ Cardinality(LiveStreams(c)) <= MaxStreams
    BY LiveFinite DEF Limited
  <2>2. IsFiniteSet(LiveStreams(c)')
    BY <1>1, LiveFinite, FS_Subset
  <2>3. Cardinality(LiveStreams(c)') \in Nat
    BY <2>2, FS_CardinalityType
  <2> QED
    BY <1>0, <1>1, <2>1, <2>3, LiveFinite
<1>2. CASE Environment /\ UNCHANGED <<stream, wire>> /\ Observe
  BY <1>1, <1>2 DEF LiveStreams
<1>3. ASSUME NEW d \in Conn, Connection(d) PROVE Cardinality(LiveStreams(c)') <= MaxStreams
  <2>1. CASE RejectStream(d)
    BY <1>1, <2>1 DEF RejectStream, LiveStreams
  <2>2. CASE LeaveDrained(d)
    <3>1. \A x \in Stream : End(x).at = "ended"
      BY <1>0 DEF End, TypeOK, StreamTask
    <3>2. \A x \in Stream : stream'[x] = IF x \in LiveStreams(d) THEN End(x) ELSE stream[x]
      BY <2>2 DEF LeaveDrained
    <3> QED
      BY <1>1, <3>1, <3>2 DEF LiveStreams, Live, Busy
  <2> QED
    BY <1>3, <2>1, <2>2 DEF Connection
<1>4. ASSUME NEW x \in Stream, Forward(x) PROVE Cardinality(LiveStreams(c)') <= MaxStreams
  <2>1. \A y \in Stream \ {x} : stream'[y] = stream[y]
    BY <1>4, StreamKeeps DEF IInv, StreamStep, Others
  <2>2. CASE stream[x].at # "unused"
    BY <1>0, <1>1, <1>4, <2>1, <2>2, SourceKept DEF LiveStreams
  <2>3. CASE stream[x].at = "unused"
    <3>1. PICK d \in Conn, g \in (Conn \ fresh) \cup {Anyone} : Open(x, d, g)
      BY <1>4, <2>3 DEF Forward, Read, Finish, ReadFails, LookUpPeer, Resolve, AbandonHost,
           LookAgain, PeerUnavailable, BindPeer, OpenFails, HeaderFails, Write, WriteFails
    <3>2. stream'[x].source = d
      BY <1>0, <3>1 DEF Open, Becomes, Unused, TypeOK
    <3>3. CASE d # c
      BY <1>1, <2>1, <3>2, <3>3 DEF LiveStreams
    <3>4. CASE d = c
      <4>1. LiveStreams(c)' \subseteq LiveStreams(c) \cup {x}
        BY <2>1 DEF LiveStreams
      <4>2. Cardinality(LiveStreams(c)) + 1 <= MaxStreams
        BY <1>0, <3>1, <3>4, LiveFinite DEF Open
      <4>3. /\ IsFiniteSet(LiveStreams(c) \cup {x})
            /\ Cardinality(LiveStreams(c) \cup {x}) <= Cardinality(LiveStreams(c)) + 1
        BY SMTT(30), LiveFinite, FS_AddElement
      <4>4. Cardinality(LiveStreams(c)') <= Cardinality(LiveStreams(c) \cup {x})
        BY <4>1, <4>3, FS_Subset
      <4>5. /\ Cardinality(LiveStreams(c)) \in Nat /\ Cardinality(LiveStreams(c)') \in Nat
            /\ Cardinality(LiveStreams(c) \cup {x}) \in Nat
        BY <4>1, <4>3, LiveFinite, FS_Subset, FS_CardinalityType
      <4> QED
        BY <1>0, <4>2, <4>3, <4>4, <4>5
    <3> QED
      BY <3>3, <3>4
  <2> QED
    BY <2>2, <2>3
<1>5. CASE UNCHANGED vars
  BY <1>1, <1>5 DEF vars, LiveStreams
<1> QED
  BY <1>2, <1>3, <1>4, <1>5 DEF Next

-----------------------------------------------------------------------------
(* What the streams may rely on. *)

\* The inductive invariant holds in every reachable state of the streams.
THEOREM StreamInvariant == ASSUME ForwardingConstants PROVE Spec => []IInv
<1>1. Init => IInv
  BY Initially
<1>2. IInv /\ [Next]_vars => IInv'
  BY Inductive
<1> QED
  BY <1>1, <1>2, PTL DEF Spec

(* Types are kept: every stream task, message and history is one. *)
THEOREM StreamTypes == ASSUME ForwardingConstants PROVE Spec => []TypeOK
<1>1. IInv => TypeOK
  BY DEF IInv
<1> QED
  BY <1>1, StreamInvariant, PTL

(* A stream whose header names a peer reaches that connection and no other:  *)
(* every lookup compares what it finds with the header.                      *)
THEOREM AddressedStays == ASSUME ForwardingConstants PROVE Spec => []AddressedDelivery
<1>1. IInv => AddressedDelivery
  BY DEF IInv, Delivery, Addressed, AddressedDelivery, Reached
<1> QED
  BY <1>1, StreamInvariant, PTL

(* The stream of a host reaches one connection at most: its destination is   *)
(* only forgotten when the stream ends.                                      *)
THEOREM HostStaysBound == ASSUME ForwardingConstants PROVE Spec => []HostStreamBound
<1>1. IInv => HostStreamBound
  <2> SUFFICES ASSUME IInv, NEW x \in Stream, stream[x].at # "unused", RoleOf(x) = "Host"
               PROVE  Cardinality(Reached(x)) <= 1
    BY DEF HostStreamBound
  <2>1. \A i, j \in DOMAIN wire[x] : wire[x][i].to = wire[x][j].to
    BY DEF IInv, Delivery, HostBound
  <2>2. CASE Reached(x) = {}
    BY <2>2, FS_EmptySet
  <2>3. CASE \E i \in DOMAIN wire[x] : TRUE
    <3>1. PICK i \in DOMAIN wire[x] : TRUE
      BY <2>3
    <3>2. Reached(x) = {wire[x][i].to}
      BY <2>1, <3>1 DEF Reached
    <3>3. Cardinality({wire[x][i].to}) = 1
      BY FS_Singleton
    <3> QED
      BY <3>2, <3>3
  <2> QED
    BY <2>2, <2>3 DEF Reached
<1> QED
  BY <1>1, StreamInvariant, PTL

(* The messages of a stream are forwarded in order, and each at most once.   *)
THEOREM OrderIsKept == ASSUME ForwardingConstants PROVE Spec => []InOrderOnce
<1>1. IInv => InOrderOnce
  BY DEF IInv, Delivery, Ordered, InOrderOnce
<1> QED
  BY <1>1, StreamInvariant, PTL

(* A message is only written to a connection that was the peer of its source *)
(* at some moment after it was read.                                         *)
THEOREM PeersWerePaired == ASSUME ForwardingConstants PROVE Spec => []PairedDelivery
<1>1. IInv => PairedDelivery
  BY DEF IInv, Delivery, Paired, PairedDelivery
<1> QED
  BY <1>1, StreamInvariant, PTL

(* No stream is forwarded for a connection that has left, and none has more  *)
(* of them than its limit.                                                   *)
THEOREM NoneForwardsAlone == ASSUME ForwardingConstants PROVE Spec => []NoOrphanForwarder
<1>1. Init => Limited
  <2> SUFFICES ASSUME Init, NEW c \in Conn PROVE Cardinality(LiveStreams(c)) <= MaxStreams
    BY DEF Limited
  <2>1. LiveStreams(c) = {}
    BY DEF Init, Unused, LiveStreams, Live, Busy
  <2> QED
    BY <2>1, FS_EmptySet DEF ForwardingConstants
<1>2. IInv /\ Limited /\ [Next]_vars => Limited'
  BY LimitKept
<1>3. IInv /\ Limited => NoOrphanForwarder
  BY DEF IInv, Delivery, Owned, Limited, NoOrphanForwarder, LiveStreams, Live, Busy
<1> QED
  BY <1>1, <1>2, <1>3, StreamInvariant, PTL DEF Spec
=============================================================================
