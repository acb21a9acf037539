------------------------ MODULE RelayDatagrams_proofs ------------------------
(***************************************************************************)
(* Datagrams reach the peer they were bound to, in the order of their      *)
(* channel and out of a bounded queue, with any number of connections,     *)
(* sessions, channels and datagrams.                                       *)
(***************************************************************************)
EXTENDS RelayDatagrams, SequenceTheorems, TLAPS

Sent == [number : 1..MaxDatagrams, to : Conn]

\* Datagram n of lane l was bound to p when it arrived, and may go there.
Genuine(l, n, p) ==
    /\ n \in 1..Len(arrived[l[1]])
    /\ arrived[l[1]][n].channel = l[2]
    /\ arrived[l[1]][n].peer = p
    /\ arrived[l[1]][n].target \in {Anyone, p}

\* Wherever a datagram is, it is what it was when it arrived.
Kept(l) ==
    /\ \A i \in 1..Len(queue[l]) : Genuine(l, queue[l][i].number, queue[l][i].peer)
    /\ ~Idle(l) => Genuine(l, hand[l].number, hand[l].peer)
    /\ \A i \in 1..Len(sent[l]) : Genuine(l, sent[l][i].number, sent[l][i].to)

\* What was sent is older than what is in hand, that is older than the queue,
\* and the queue is older than what is bound next.
InOrder(l) ==
    /\ \A i, j \in 1..Len(sent[l]) : i < j => sent[l][i].number < sent[l][j].number
    /\ \A i, j \in 1..Len(queue[l]) : i < j => queue[l][i].number < queue[l][j].number
    /\ \A i \in 1..Len(sent[l]), j \in 1..Len(queue[l]) : sent[l][i].number < queue[l][j].number
    /\ ~Idle(l) =>
          /\ \A i \in 1..Len(sent[l]) : sent[l][i].number < hand[l].number
          /\ \A j \in 1..Len(queue[l]) : hand[l].number < queue[l][j].number
    /\ ingress[l[1]] =>
          /\ \A i \in 1..Len(sent[l]) : sent[l][i].number < Len(arrived[l[1]])
          /\ \A j \in 1..Len(queue[l]) : queue[l][j].number < Len(arrived[l[1]])
          /\ ~Idle(l) => hand[l].number < Len(arrived[l[1]])

\* The worker holds a datagram whose peer was the peer when it was taken.
ForPeer(l) == ~Idle(l) => hand[l].peer \in paired[l]

\* A queue is within its capacity, and gone with the loop of its connection.
Within(l) ==
    /\ Len(queue[l]) <= Capacity[l[2]]
    /\ task[l[1]] # "serving" => queue[l] = <<>> /\ Idle(l)

\* A datagram is only bound while the loop of its connection runs.
Binds(c) ==
    /\ Len(arrived[c]) <= MaxDatagrams
    /\ ingress[c] => /\ task[c] = "serving" /\ arrived[c] # <<>>
                     /\ Last(arrived[c]).peer # NoConn

LaneHolds(l) == Kept(l) /\ InOrder(l) /\ ForPeer(l) /\ Within(l)

\* A connection that may still join has no task.
Unjoined == \A c \in fresh : task[c] = "none"

IInv ==
    /\ TypeOK /\ Unjoined
    /\ \A c \in Source : Binds(c)
    /\ \A l \in Lane : LaneHolds(l)

-----------------------------------------------------------------------------
(* The tasks of the connections. *)

LEMMA EnvironmentKeeps ==
    ASSUME DatagramConstants, JoinedType, Unjoined, Environment
    PROVE  /\ JoinedType' /\ Unjoined'
           /\ \A c \in Conn : task[c] = "serving" => task'[c] = "serving"
<1> USE DEF DatagramConstants, JoinedConstants, JoinedType, SlotsType, Phase, Unjoined
<1>1. CASE \E c \in Conn : Disconnect(c)
  BY <1>1 DEF Disconnect, Close
<1>2. CASE \E c \in Conn : Depart(c)
  BY <1>2 DEF Depart, Vacate, Delist
<1>3. ASSUME NEW c \in Conn, NEW s \in Session, NEW r \in Role, JoinRole(c, s, r)
      PROVE  JoinedType' /\ Unjoined' /\ c \in fresh /\ task' = [task EXCEPT ![c] = "joining"]
  BY <1>3 DEF JoinRole, Take
<1>4. ASSUME NEW c \in Conn, NEW d \in Conn \cup {NoConn}, JoinListed(c, d)
      PROVE  JoinedType' /\ Unjoined' /\ task' = [task EXCEPT ![c] = "serving"]
  BY <1>4 DEF JoinListed, List
<1>5. CASE \E s \in Session : SessionExpires(s) \/ Sweep(s)
  BY <1>5 DEF SessionExpires, Expire, Sweep
<1>6. CASE \E c \in Conn, s \in Session, r \in Role : JoinRole(c, s, r)
  BY <1>3, <1>6
<1>7. CASE \E c \in Conn, d \in Conn \cup {NoConn} : JoinListed(c, d)
  BY <1>4, <1>7
<1> QED
  BY <1>1, <1>2, <1>5, <1>6, <1>7 DEF Environment

LEMMA LeaveKeeps ==
    ASSUME JoinedType, Unjoined, NEW c \in Conn, NEW asked, Leave(c, asked)
    PROVE  /\ JoinedType' /\ Unjoined' /\ task[c] = "serving"
           /\ task' = [task EXCEPT ![c] = "left"]
  BY DEF JoinedType, SlotsType, Phase, Unjoined, Leave, BeginDeparture

LEMMA RestKeeps ==
    ASSUME JoinedType, Unjoined, UNCHANGED joined
    PROVE  /\ JoinedType' /\ Unjoined' /\ UNCHANGED <<holder, place, task>>
  BY DEF JoinedType, SlotsType, Unjoined, joined, slots

LEMMA PeerTyped ==
    ASSUME DatagramConstants, JoinedType, NEW c \in Conn
    PROVE  Peer(c) \in Conn \cup {NoConn}
  BY DEF DatagramConstants, JoinedConstants, JoinedType, SlotsType, Peer, PeerOf, Role, Other

LEMMA PeerStays ==
    ASSUME UNCHANGED <<holder, place>>, NEW c
    PROVE  Peer(c)' = Peer(c)
  BY DEF Peer, PeerOf

-----------------------------------------------------------------------------
(* What a lane holds. *)

LEMMA LaneTyped ==
    ASSUME TypeOK, NEW l \in Lane
    PROVE  /\ l[1] \in Source /\ l[2] \in Channel
           /\ queue[l] \in Seq(Datagram) /\ sent[l] \in Seq(Sent) /\ hand[l] \in InHand
           /\ arrived[l[1]] \in Seq(Arrival)
           /\ Len(queue[l]) \in Nat /\ Len(sent[l]) \in Nat /\ Len(arrived[l[1]]) \in Nat
           /\ \A i \in 1..Len(queue[l]) : queue[l][i] \in Datagram
           /\ \A i \in 1..Len(sent[l]) : sent[l][i] \in Sent
           /\ ~Idle(l) => hand[l] \in [number : 1..MaxDatagrams, peer : Conn, late : BOOLEAN,
                                       at : {"resolve", "sending"}]
<1>1. /\ l[1] \in Source /\ l[2] \in Channel
      /\ queue[l] \in Seq(Datagram) /\ sent[l] \in Seq(Sent) /\ hand[l] \in InHand
      /\ arrived[l[1]] \in Seq(Arrival)
  BY DEF TypeOK, Lane, Sent
<1>2. /\ \A i \in 1..Len(queue[l]) : queue[l][i] \in Datagram
      /\ \A i \in 1..Len(sent[l]) : sent[l][i] \in Sent
  BY <1>1, ElementOfSeq
<1>3. Len(queue[l]) \in Nat /\ Len(sent[l]) \in Nat /\ Len(arrived[l[1]]) \in Nat
  BY <1>1, LenProperties
<1> QED
  BY <1>1, <1>2, <1>3 DEF InHand, Idle

\* The queue of l holds what it held, late or not; its worker has what it had
\* or nothing.
Same(l) ==
    /\ Len(queue'[l]) = Len(queue[l])
    /\ \A i \in 1..Len(queue[l]) : /\ queue'[l][i].number = queue[l][i].number
                                   /\ queue'[l][i].peer = queue[l][i].peer
    /\ \/ hand'[l] = NoDatagram
       \/ /\ ~Idle(l) /\ hand'[l].number = hand[l].number /\ hand'[l].peer = hand[l].peer
          /\ paired[l] \subseteq paired'[l]
    /\ sent'[l] = sent[l]

\* Genuine in the next state.
Later(l, n, p) ==
    /\ n \in 1..Len(arrived'[l[1]])
    /\ arrived'[l[1]][n].channel = l[2]
    /\ arrived'[l[1]][n].peer = p
    /\ arrived'[l[1]][n].target \in {Anyone, p}

LEMMA KeptLater ==
    ASSUME NEW l,
           \A i \in 1..Len(queue'[l]) : Later(l, queue'[l][i].number, queue'[l][i].peer),
           hand'[l] # NoDatagram => Later(l, hand'[l].number, hand'[l].peer),
           \A i \in 1..Len(sent'[l]) : Later(l, sent'[l][i].number, sent'[l][i].to)
    PROVE  Kept(l)'
<1>1. (\A i \in 1..Len(queue[l]) : Genuine(l, queue[l][i].number, queue[l][i].peer))'
  BY DEF Later, Genuine
<1>2. (~Idle(l) => Genuine(l, hand[l].number, hand[l].peer))'
  BY DEF Later, Genuine, Idle
<1>3. (\A i \in 1..Len(sent[l]) : Genuine(l, sent[l][i].number, sent[l][i].to))'
  BY DEF Later, Genuine
<1> QED
  BY <1>1, <1>2, <1>3 DEF Kept

\* What arrived stays where it is.
LEMMA Remains ==
    ASSUME NEW l,
           \A n \in 1..Len(arrived[l[1]]) :
               n \in 1..Len(arrived'[l[1]]) /\ arrived'[l[1]][n] = arrived[l[1]][n]
    PROVE  \A n, p : Genuine(l, n, p) => Later(l, n, p)
  BY DEF Genuine, Later

LEMMA Steady ==
    ASSUME TypeOK, NEW l \in Lane, LaneHolds(l), Same(l),
           arrived'[l[1]] = arrived[l[1]], ingress'[l[1]] => ingress[l[1]],
           task[l[1]] = "serving" => task'[l[1]] = "serving"
    PROVE  LaneHolds(l)'
<1>1. Idle(l) => Idle(l)'
  BY DEF Same, Idle
<1>2. Kept(l)'
  <2>1. \A n, p : Genuine(l, n, p) => Later(l, n, p)
    BY Remains
  <2> QED
    BY <2>1, KeptLater DEF LaneHolds, Kept, Same, Idle
<1>3. InOrder(l)'
  BY <1>1 DEF LaneHolds, InOrder, Same, Idle
<1>4. ForPeer(l)'
  BY <1>1 DEF LaneHolds, ForPeer, Same, Idle
<1>5. Within(l)'
  <2>1. queue[l] = <<>> /\ Idle(l) => queue'[l] = <<>> /\ Idle(l)'
    BY <1>1 DEF Same
  <2> QED
    BY <2>1 DEF LaneHolds, Within, Same
<1> QED
  BY <1>2, <1>3, <1>4, <1>5 DEF LaneHolds

\* The history of a worker only grows while it has a datagram in hand.
LEMMA Observed ==
    ASSUME DatagramConstants, TypeOK, JoinedType', Observe
    PROVE  /\ paired' \in [Lane -> SUBSET Conn]
           /\ \A l \in Lane : hand'[l] # NoDatagram =>
                 /\ Peer(l[1])' \in paired'[l] \cup {NoConn}
                 /\ ~Idle(l) => paired[l] \subseteq paired'[l]
<1>1. ASSUME NEW l \in Lane
      PROVE  /\ Peer(l[1])' \in Conn \cup {NoConn}
             /\ paired[l] \subseteq Conn
  BY DEF Lane, TypeOK, DatagramConstants, JoinedConstants, JoinedType, SlotsType, Peer, PeerOf,
         Role, Other
<1>2. \A l \in Lane : paired'[l] =
          IF hand'[l] = NoDatagram THEN {}
          ELSE (IF Idle(l) THEN {} ELSE paired[l]) \cup ({Peer(l[1])'} \ {NoConn})
  BY DEF Observe
<1>3. \A l \in Lane : paired'[l] \subseteq Conn
  BY <1>1, <1>2
<1>4. paired' \in [Lane -> SUBSET Conn]
  BY <1>3 DEF Observe
<1> QED
  BY <1>2, <1>4

\* A lane no action is about.
LEMMA Untouched ==
    ASSUME DatagramConstants, TypeOK, JoinedType', Observe, NEW l \in Lane,
           queue'[l] = queue[l], hand'[l] \in {hand[l], NoDatagram}, sent'[l] = sent[l]
    PROVE  Same(l)
  BY Observed DEF Same, Idle

LanesType ==
    /\ ingress \in [Source -> BOOLEAN]
    /\ queue \in [Lane -> Seq(Datagram)]
    /\ hand \in [Lane -> InHand]
    /\ arrived \in [Source -> Seq(Arrival)]
    /\ sent \in [Lane -> Seq(Sent)]

Keeps ==
    /\ LanesType'
    /\ \A c \in Source : Binds(c)'
    /\ \A l \in Lane : LaneHolds(l)'

-----------------------------------------------------------------------------
(* The steps. *)

\* A step of the environment, or a Malformed datagram: only the connections.
LEMMA OthersStep ==
    ASSUME DatagramConstants, IInv, JoinedType', Observe, UNCHANGED lanes,
           \A c \in Conn : task[c] = "serving" => task'[c] = "serving"
    PROVE  Keeps
<1> USE DEF IInv
<1>1. UNCHANGED ingress /\ UNCHANGED queue /\ UNCHANGED hand /\ UNCHANGED arrived /\ UNCHANGED sent
  BY DEF lanes
<1>2. Source \subseteq Conn
  BY DEF DatagramConstants
<1>3. LanesType'
  BY <1>1 DEF TypeOK, LanesType, Sent
<1>4. \A c \in Source : Binds(c)'
  BY <1>1, <1>2 DEF Binds
<1>5. ASSUME NEW l \in Lane  PROVE  LaneHolds(l)'
  <2>1. Same(l)
    BY <1>1, Untouched
  <2>2. l[1] \in Conn
    BY <1>2, LaneTyped
  <2> QED
    BY <1>1, <2>1, <2>2, Steady
<1> QED
  BY <1>3, <1>4, <1>5 DEF Keeps

LEMMA LeaveStep ==
    ASSUME DatagramConstants, IInv, JoinedType', Observe, NEW c \in Conn, LeaveDrained(c)
    PROVE  Keeps
<1> USE DEF IInv
<1>1. /\ UNCHANGED ingress /\ UNCHANGED arrived /\ UNCHANGED sent
      /\ task' = [task EXCEPT ![c] = "left"]
      /\ c \in Source => ~ingress[c]
      /\ \A l \in Lane : queue'[l] = IF l[1] = c THEN <<>> ELSE queue[l]
      /\ \A l \in Lane : hand'[l] = IF l[1] = c THEN NoDatagram ELSE hand[l]
  BY DEF LeaveDrained, Leave
<1>2. Source \subseteq Conn /\ task \in [Conn -> Phase]
  BY DEF DatagramConstants, TypeOK, JoinedType
<1>3. LanesType'
  <2>1. <<>> \in Seq(Datagram) /\ NoDatagram \in InHand
    BY DEF InHand
  <2>2. \A l \in Lane : queue'[l] \in Seq(Datagram) /\ hand'[l] \in InHand
    BY <1>1, <2>1, LaneTyped
  <2>3. queue' \in [Lane -> Seq(Datagram)] /\ hand' \in [Lane -> InHand]
    BY <2>2 DEF LeaveDrained
  <2> QED
    BY <1>1, <2>3 DEF TypeOK, LanesType, Sent
<1>4. \A d \in Source : Binds(d)'
  BY <1>1, <1>2 DEF Binds
<1>5. ASSUME NEW l \in Lane, l[1] # c  PROVE  LaneHolds(l)'
  <2>1. Same(l)
    BY <1>1, <1>5, Untouched
  <2> QED
    BY <1>1, <1>2, <1>5, <2>1, Steady, LaneTyped
<1>6. ASSUME NEW l \in Lane, l[1] = c  PROVE  LaneHolds(l)'
  <2>1. queue'[l] = <<>> /\ hand'[l] = NoDatagram /\ sent'[l] = sent[l] /\ arrived' = arrived
        /\ Len(queue'[l]) = 0 /\ ~ingress'[l[1]]
    BY <1>1, <1>6, LaneTyped
  <2>2. LaneHolds(l)
    OBVIOUS
  <2>3. Kept(l)'
    <3>1. \A i \in 1..Len(sent[l]) : Genuine(l, sent[l][i].number, sent[l][i].to)
      BY <2>2 DEF LaneHolds, Kept
    <3>2. (\A i \in 1..Len(sent[l]) : Genuine(l, sent[l][i].number, sent[l][i].to))'
      BY <2>1, <3>1 DEF Genuine
    <3>3. (\A i \in 1..Len(queue[l]) : Genuine(l, queue[l][i].number, queue[l][i].peer))'
      BY <2>1
    <3> QED
      BY <2>1, <3>2, <3>3 DEF Kept, Idle
  <2>4. InOrder(l)'
    BY <2>1, <2>2 DEF LaneHolds, InOrder, Idle
  <2>5. ForPeer(l)'
    BY <2>1 DEF ForPeer, Idle
  <2>6. Within(l)'
    BY <2>1, LaneTyped DEF Within, Idle, DatagramConstants
  <2> QED
    BY <2>3, <2>4, <2>5, <2>6 DEF LaneHolds
<1> QED
  BY <1>3, <1>4, <1>5, <1>6 DEF Keeps

LEMMA ReceiveStep ==
    ASSUME DatagramConstants, IInv, JoinedType', Observe,
           NEW c \in Source, NEW ch \in Channel, NEW g \in Conn \cup {Anyone}, Receive(c, ch, g)
    PROVE  Keeps
<1> USE DEF IInv
<1> DEFINE a == [channel |-> ch, target |-> g, peer |-> Peer(c)]
<1>1. /\ UNCHANGED joined /\ UNCHANGED queue /\ UNCHANGED hand /\ UNCHANGED sent
      /\ Serving(c) /\ Len(arrived[c]) < MaxDatagrams
      /\ ingress' = [ingress EXCEPT ![c] = Peer(c) # NoConn]
      /\ arrived' = [arrived EXCEPT ![c] = Append(@, a)]
  BY DEF Receive
<1>2. c \in Conn /\ task' = task
  BY <1>1, RestKeeps DEF DatagramConstants, TypeOK
<1>3. a \in Arrival
  BY <1>2, PeerTyped DEF TypeOK, Arrival
<1>4. /\ arrived[c] \in Seq(Arrival) /\ Len(arrived[c]) \in Nat /\ MaxDatagrams \in Nat
      /\ arrived \in [Source -> Seq(Arrival)] /\ ingress \in [Source -> BOOLEAN]
  BY LenProperties DEF TypeOK, DatagramConstants
<1> DEFINE s == Append(arrived[c], a)
<1>5. /\ s \in Seq(Arrival) /\ Len(s) = Len(arrived[c]) + 1 /\ s[Len(arrived[c]) + 1] = a
      /\ \A n \in 1..Len(arrived[c]) : s[n] = arrived[c][n]
  BY <1>3, <1>4, AppendProperties
<1>6. arrived'[c] = s /\ \A d \in Source \ {c} : arrived'[d] = arrived[d]
  BY <1>1, <1>4
<1> HIDE DEF s, a
<1>7. LanesType'
  <2>1. arrived' \in [Source -> Seq(Arrival)]
    BY <1>1, <1>4, <1>5 DEF s
  <2>2. (Peer(c) # NoConn) \in BOOLEAN
    OBVIOUS
  <2>3. ingress' \in [Source -> BOOLEAN]
    BY <1>1, <1>4, <2>2
  <2> QED
    BY <1>1, <2>1, <2>3 DEF TypeOK, LanesType, Sent
<1>8. Binds(c)'
  <2>1. Len(s) <= MaxDatagrams /\ s # <<>> /\ s[Len(s)].peer = Peer(c)
    BY <1>1, <1>4, <1>5 DEF a
  <2>2. ingress'[c] => Peer(c) # NoConn
    BY <1>1, <1>4
  <2> QED
    BY <1>1, <1>2, <1>6, <2>1, <2>2 DEF Binds, Last, Serving
<1>9. ASSUME NEW d \in Source, d # c  PROVE  Binds(d)'
  BY <1>1, <1>2, <1>4, <1>6, <1>9 DEF Binds
<1>10. ASSUME NEW l \in Lane, l[1] # c  PROVE  LaneHolds(l)'
  <2>1. ingress'[l[1]] => ingress[l[1]]
    BY <1>1, <1>4, <1>10, LaneTyped
  <2>2. arrived'[l[1]] = arrived[l[1]]
    BY <1>6, <1>10, LaneTyped
  <2> QED
    BY <1>1, <1>2, <2>1, <2>2, Untouched, Steady
<1>11. ASSUME NEW l \in Lane, l[1] = c  PROVE  LaneHolds(l)'
  <2>1. LaneHolds(l) /\ Kept(l)
    BY DEF LaneHolds
  <2>2. /\ Len(queue[l]) \in Nat /\ Len(sent[l]) \in Nat
        /\ UNCHANGED <<queue[l], hand[l], sent[l]>>
    BY <1>1, LaneTyped
  <2>3. \A n \in 1..Len(arrived[c]) :
            /\ n \in 1..Len(arrived'[c]) /\ arrived'[c][n] = arrived[c][n]
            /\ n < Len(arrived'[c])
    BY <1>4, <1>5, <1>6
  <2>4. Kept(l)'
    <3>1. \A n, p : Genuine(l, n, p) => Later(l, n, p)
      BY <1>11, <2>3, Remains
    <3> QED
      BY <2>1, <2>2, <3>1, KeptLater DEF Kept, Idle
  <2>5. InOrder(l)'
    <3>1. /\ \A i \in 1..Len(sent[l]) : sent[l][i].number < Len(arrived'[c])
          /\ \A j \in 1..Len(queue[l]) : queue[l][j].number < Len(arrived'[c])
          /\ ~Idle(l) => hand[l].number < Len(arrived'[c])
      BY <1>11, <2>1, <2>3 DEF Kept, Genuine
    <3> QED
      BY <1>11, <2>1, <2>2, <3>1 DEF LaneHolds, InOrder, Idle
  <2>6. ForPeer(l)'
    BY <1>1, <2>1, Observed DEF LaneHolds, ForPeer, Idle
  <2>7. Within(l)'
    BY <1>1, <1>2, <2>1 DEF LaneHolds, Within, Idle
  <2> QED
    BY <2>4, <2>5, <2>6, <2>7 DEF LaneHolds
<1> QED
  BY <1>7, <1>8, <1>9, <1>10, <1>11 DEF Keeps

LEMMA EnqueueStep ==
    ASSUME DatagramConstants, IInv, JoinedType', Observe, NEW c \in Source, Enqueue(c)
    PROVE  Keeps
<1> USE DEF IInv
<1>0. PICK a, k, d :
          /\ a = Last(arrived[c])
          /\ k = <<c, a.channel>>
          /\ d = [number |-> Len(arrived[c]), peer |-> a.peer, late |-> FALSE]
  OBVIOUS
<1>1. /\ UNCHANGED joined /\ UNCHANGED hand /\ UNCHANGED arrived /\ UNCHANGED sent
      /\ ingress[c] /\ ingress' = [ingress EXCEPT ![c] = FALSE]
      /\ \/ UNCHANGED queue
         \/ /\ a.target \in {Anyone, a.peer} /\ Len(queue[k]) < Capacity[a.channel]
            /\ queue' = [queue EXCEPT ![k] = Append(@, d)]
  BY <1>0 DEF Enqueue, Welcome
<1>2. task' = task
  BY <1>1, RestKeeps DEF TypeOK
<1>3. /\ arrived[c] \in Seq(Arrival) /\ Len(arrived[c]) \in Nat /\ MaxDatagrams \in Nat
      /\ ingress \in [Source -> BOOLEAN] /\ queue \in [Lane -> Seq(Datagram)]
      /\ arrived[c] # <<>> /\ a.peer # NoConn /\ Len(arrived[c]) <= MaxDatagrams
      /\ task[c] = "serving"
  BY <1>0, <1>1, LenProperties DEF TypeOK, DatagramConstants, Binds
<1>4. a = arrived[c][Len(arrived[c])] /\ a \in Arrival /\ Len(arrived[c]) \in 1..MaxDatagrams
  <2>1. Len(arrived[c]) # 0
    BY <1>3, EmptySeq
  <2> QED
    BY <1>0, <1>3, <2>1, ElementOfSeq DEF Last
<1>5. k \in Lane /\ k[1] = c /\ k[2] = a.channel /\ d \in Datagram
  BY <1>0, <1>3, <1>4 DEF Lane, Arrival, Datagram
<1> DEFINE q == Append(queue[k], d)
<1>6. /\ q \in Seq(Datagram) /\ Len(q) = Len(queue[k]) + 1 /\ q[Len(queue[k]) + 1] = d
      /\ \A i \in 1..Len(queue[k]) : q[i] = queue[k][i]
  BY <1>5, LaneTyped, AppendProperties
<1>7. /\ d.number = Len(arrived[c]) /\ d.peer = a.peer
      /\ Genuine(k, d.number, d.peer) \/ UNCHANGED queue
  BY <1>0, <1>1, <1>3, <1>4, <1>5 DEF Genuine
<1>8. /\ \A l \in Lane : l # k => queue'[l] = queue[l]
      /\ (queue'[k] = q /\ Len(queue[k]) < Capacity[a.channel]) \/ UNCHANGED queue
  BY <1>1, <1>3, <1>5
<1> HIDE DEF q
<1>9. LanesType'
  <2>1. queue' \in [Lane -> Seq(Datagram)]
    BY <1>1, <1>3, <1>5, <1>6 DEF q
  <2>2. ingress' \in [Source -> BOOLEAN]
    BY <1>1, <1>3
  <2> QED
    BY <1>1, <2>1, <2>2 DEF TypeOK, LanesType, Sent
<1>10. ASSUME NEW e \in Source  PROVE  Binds(e)'
  BY <1>1, <1>2, <1>3 DEF Binds
<1>11. ASSUME NEW l \in Lane, l # k \/ UNCHANGED queue  PROVE  LaneHolds(l)'
  <2>1. ingress'[l[1]] => ingress[l[1]]
    BY <1>1, <1>3, LaneTyped
  <2>2. Same(l)
    BY <1>1, <1>8, <1>11, Untouched
  <2> QED
    BY <1>1, <1>2, <2>1, <2>2, Steady
<1>12. CASE ~UNCHANGED queue
  <2>1. LaneHolds(k) /\ Kept(k) /\ Genuine(k, d.number, d.peer)
    BY <1>5, <1>7, <1>12 DEF LaneHolds
  <2>2. /\ Len(queue[k]) \in Nat /\ Len(sent[k]) \in Nat
        /\ UNCHANGED <<hand[k], sent[k]>> /\ queue'[k] = q
        /\ ingress[k[1]] /\ ~ingress'[k[1]]
    <3>1. Len(queue[k]) \in Nat /\ Len(sent[k]) \in Nat
      BY <1>5, LaneTyped
    <3>2. ~ingress'[c]
      BY <1>1, <1>3
    <3> QED
      BY <1>1, <1>5, <1>8, <1>12, <3>1, <3>2
  <2>3. Kept(k)'
    <3>1. \A n, p : Genuine(k, n, p) => Later(k, n, p)
      BY <1>1, Remains
    <3>2. \A i \in 1..Len(q) : Genuine(k, q[i].number, q[i].peer)
      BY <1>6, <2>1, <2>2 DEF Kept
    <3> QED
      BY <2>1, <2>2, <3>1, <3>2, KeptLater DEF Kept, Idle
  <2>4. InOrder(k)'
    <3>1. /\ \A i \in 1..Len(sent[k]) : sent[k][i].number < d.number
          /\ \A j \in 1..Len(queue[k]) : queue[k][j].number < d.number
          /\ ~Idle(k) => hand[k].number < d.number
      BY <1>5, <1>7, <2>1, <2>2 DEF LaneHolds, InOrder
    <3>2. /\ \A i, j \in 1..Len(q) : i < j => q[i].number < q[j].number
          /\ \A i \in 1..Len(sent[k]), j \in 1..Len(q) : sent[k][i].number < q[j].number
          /\ ~Idle(k) => \A j \in 1..Len(q) : hand[k].number < q[j].number
      <4>1. \A i \in 1..Len(q) : \/ i \in 1..Len(queue[k]) /\ q[i] = queue[k][i]
                                 \/ i = Len(queue[k]) + 1 /\ q[i] = d
        BY <1>6, <2>2
      <4>2. InOrder(k)
        BY <2>1 DEF LaneHolds
      <4>3. \A i, j \in 1..Len(q) : i < j => q[i].number < q[j].number
        <5>1. \A i, j \in 1..Len(q) : i < j => i \in 1..Len(queue[k])
          BY <1>6, <2>2
        <5> QED
          BY <3>1, <4>1, <4>2, <5>1 DEF InOrder
      <4> QED
        BY <3>1, <4>1, <4>2, <4>3 DEF InOrder
    <3> QED
      BY <2>1, <2>2, <3>2 DEF LaneHolds, InOrder, Idle
  <2>5. ForPeer(k)'
    BY <1>1, <1>5, <2>1, Observed DEF LaneHolds, ForPeer, Idle
  <2>6. Within(k)'
    <3>1. Capacity[k[2]] \in Nat /\ Len(q) <= Capacity[k[2]] /\ task'[k[1]] = "serving"
      BY <1>2, <1>3, <1>5, <1>6, <1>8, <1>12, <2>2, LaneTyped DEF DatagramConstants
    <3> QED
      BY <2>2, <3>1 DEF Within
  <2>7. LaneHolds(k)'
    BY <2>3, <2>4, <2>5, <2>6 DEF LaneHolds
  <2> QED
    BY <1>9, <1>10, <1>11, <2>7 DEF Keeps
<1> QED
  BY <1>9, <1>10, <1>11, <1>12 DEF Keeps

-----------------------------------------------------------------------------
(* The steps of the worker of one lane. *)

\* A worker only changes its own lane.
LEMMA OneLane ==
    ASSUME DatagramConstants, IInv, JoinedType', Observe, NEW l \in Lane,
           UNCHANGED joined, UNCHANGED arrived, UNCHANGED ingress, LanesType',
           \A k \in Lane \ {l} : queue'[k] = queue[k] /\ hand'[k] = hand[k] /\ sent'[k] = sent[k],
           LaneHolds(l)'
    PROVE  Keeps
<1> USE DEF IInv
<1>1. task' = task
  BY RestKeeps DEF TypeOK
<1>2. \A c \in Source : Binds(c)'
  BY <1>1 DEF Binds
<1>3. ASSUME NEW k \in Lane, k # l  PROVE  LaneHolds(k)'
  BY <1>1, <1>3, Untouched, Steady
<1> QED
  BY <1>2, <1>3 DEF Keeps

LEMMA SameLane ==
    ASSUME DatagramConstants, IInv, JoinedType', Observe, NEW l \in Lane,
           UNCHANGED joined, UNCHANGED arrived, UNCHANGED ingress, UNCHANGED sent, LanesType',
           \A k \in Lane \ {l} : queue'[k] = queue[k] /\ hand'[k] = hand[k], Same(l)
    PROVE  Keeps
<1>1. task' = task
  BY RestKeeps DEF IInv, TypeOK
<1>2. LaneHolds(l)'
  BY <1>1, Steady DEF IInv
<1> QED
  BY <1>2, OneLane

\* The worker drops its datagram.
LEMMA DropStep ==
    ASSUME DatagramConstants, IInv, JoinedType', Observe, NEW l \in Lane, Drop(l)
    PROVE  Keeps
<1>1. /\ UNCHANGED joined /\ UNCHANGED ingress /\ UNCHANGED queue /\ UNCHANGED arrived
      /\ UNCHANGED sent /\ hand' = [hand EXCEPT ![l] = NoDatagram]
  BY DEF Drop
<1>2. LanesType'
  BY <1>1 DEF LanesType, IInv, TypeOK, Sent, InHand
<1>3. hand'[l] = NoDatagram /\ \A k \in Lane \ {l} : hand'[k] = hand[k]
  BY <1>1 DEF IInv, TypeOK
<1>4. Same(l)
  BY <1>1, <1>3, Untouched DEF IInv
<1> QED
  BY <1>1, <1>2, <1>3, <1>4, SameLane

LEMMA ResolveStep ==
    ASSUME DatagramConstants, IInv, JoinedType', Observe, NEW l \in Lane, Resolve(l)
    PROVE  Keeps
<1> DEFINE h == [hand[l] EXCEPT !.at = "sending"]
<1>1. /\ UNCHANGED joined /\ UNCHANGED ingress /\ UNCHANGED queue /\ UNCHANGED arrived
      /\ UNCHANGED sent
      /\ \/ hand' = [hand EXCEPT ![l] = h]
         \/ Drop(l)
      /\ hand[l].at = "resolve"
  BY DEF Resolve, Drop
<1>2. CASE Drop(l)
  BY <1>2, DropStep
<1>3. CASE hand' = [hand EXCEPT ![l] = h]
  <2>1. ~Idle(l)
    BY <1>1 DEF Idle, NoDatagram
  <2>2. hand[l] \in [number : 1..MaxDatagrams, peer : Conn, late : BOOLEAN, at : {"resolve", "sending"}]
    BY <2>1, LaneTyped DEF IInv
  <2>3. h \in InHand /\ h.number = hand[l].number /\ h.peer = hand[l].peer /\ h # NoDatagram
    BY <2>2 DEF InHand, NoDatagram
  <2> HIDE DEF h
  <2>4. hand'[l] = h /\ \A k \in Lane \ {l} : hand'[k] = hand[k]
    BY <1>3 DEF IInv, TypeOK
  <2>5. LanesType'
    BY <1>1, <1>3, <2>3 DEF LanesType, IInv, TypeOK, Sent
  <2>6. Same(l)
    BY <1>1, <2>1, <2>3, <2>4, Observed DEF Same, IInv
  <2> QED
    BY <1>1, <2>4, <2>5, <2>6, SameLane
<1> QED
  BY <1>1, <1>2, <1>3

LEMMA DeadlineStep ==
    ASSUME DatagramConstants, IInv, JoinedType', Observe, NEW l \in Lane, DeadlinePasses(l)
    PROVE  Keeps
<1>1. /\ UNCHANGED joined /\ UNCHANGED ingress /\ UNCHANGED arrived /\ UNCHANGED sent
  BY DEF DeadlinePasses
<1>2. CASE ~Idle(l) /\ UNCHANGED queue /\ hand' = [hand EXCEPT ![l].late = TRUE]
  <2> DEFINE h == [hand[l] EXCEPT !.late = TRUE]
  <2>2. hand[l] \in [number : 1..MaxDatagrams, peer : Conn, late : BOOLEAN, at : {"resolve", "sending"}]
    BY <1>2, LaneTyped DEF IInv
  <2>3. h \in InHand /\ h.number = hand[l].number /\ h.peer = hand[l].peer /\ h.late
    BY <2>2 DEF InHand
  <2>4. hand' = [hand EXCEPT ![l] = h]
    BY <1>2
  <2>5. h # NoDatagram
    BY <2>3 DEF NoDatagram
  <2> HIDE DEF h
  <2>6. hand'[l] = h /\ \A k \in Lane \ {l} : hand'[k] = hand[k]
    BY <2>4 DEF IInv, TypeOK
  <2>7. LanesType'
    BY <1>1, <1>2, <2>3, <2>4 DEF LanesType, IInv, TypeOK, Sent
  <2>8. Same(l)
    BY <1>1, <1>2, <2>3, <2>5, <2>6, Observed DEF Same, IInv
  <2> QED
    BY <1>1, <1>2, <2>6, <2>7, <2>8, SameLane
<1>3. ASSUME NEW i \in DOMAIN queue[l], queue' = [queue EXCEPT ![l][i].late = TRUE], UNCHANGED hand
      PROVE  Keeps
  <2> DEFINE d == [queue[l][i] EXCEPT !.late = TRUE]
             q == [queue[l] EXCEPT ![i] = d]
  <2>1. queue[l] \in Seq(Datagram) /\ i \in 1..Len(queue[l]) /\ queue[l][i] \in Datagram
    BY LaneTyped, LenProperties, ElementOfSeq DEF IInv
  <2>2. d \in Datagram /\ d.number = queue[l][i].number /\ d.peer = queue[l][i].peer
    BY <2>1 DEF Datagram
  <2>3. queue' = [queue EXCEPT ![l] = q]
    BY <1>3
  <2> HIDE DEF d
  <2>4. q \in Seq(Datagram) /\ Len(q) = Len(queue[l])
        /\ \A j \in 1..Len(queue[l]) : q[j] = IF j = i THEN d ELSE queue[l][j]
    BY <2>1, <2>2, ExceptSeq
  <2> HIDE DEF q
  <2>5. queue'[l] = q /\ \A k \in Lane \ {l} : queue'[k] = queue[k]
    BY <2>3 DEF IInv, TypeOK
  <2>6. LanesType'
    BY <1>1, <1>3, <2>3, <2>4 DEF LanesType, IInv, TypeOK, Sent
  <2>7. \A j \in 1..Len(queue[l]) : q[j].number = queue[l][j].number /\ q[j].peer = queue[l][j].peer
    BY <2>2, <2>4
  <2>8. Same(l)
    BY <1>1, <1>3, <2>4, <2>5, <2>7, Observed DEF Same, IInv, Idle
  <2> QED
    BY <1>1, <1>3, <2>5, <2>6, <2>8, SameLane
<1> QED
  BY <1>2, <1>3 DEF DeadlinePasses

LEMMA DequeueStep ==
    ASSUME DatagramConstants, IInv, JoinedType', Observe, NEW l \in Lane, Dequeue(l)
    PROVE  Keeps
<1> USE DEF IInv
<1>0. PICK d, q, h :
          /\ d = Head(queue[l]) /\ q = Tail(queue[l])
          /\ h = [number |-> d.number, peer |-> d.peer, late |-> FALSE, at |-> "resolve"]
  OBVIOUS
<1>1. /\ UNCHANGED joined /\ UNCHANGED ingress /\ UNCHANGED arrived /\ UNCHANGED sent
      /\ Idle(l) /\ queue[l] # <<>> /\ queue' = [queue EXCEPT ![l] = q]
      /\ \/ UNCHANGED hand
         \/ Peer(l[1]) = d.peer /\ hand' = [hand EXCEPT ![l] = h]
  BY <1>0 DEF Dequeue
<1>2. /\ queue[l] \in Seq(Datagram) /\ Len(queue[l]) \in Nat /\ Len(sent[l]) \in Nat
      /\ queue \in [Lane -> Seq(Datagram)] /\ hand \in [Lane -> InHand]
      /\ task' = task
  BY <1>1, LaneTyped, RestKeeps DEF TypeOK
<1>3. /\ d \in Datagram /\ d = queue[l][1] /\ 1 \in 1..Len(queue[l])
      /\ q \in Seq(Datagram) /\ Len(q) = Len(queue[l]) - 1
      /\ \A i \in 1..Len(q) : q[i] = queue[l][i + 1] /\ i + 1 \in 1..Len(queue[l])
  BY <1>0, <1>1, <1>2, HeadTailProperties, EmptySeq
<1>4. h \in InHand /\ h # NoDatagram /\ h.number = d.number /\ h.peer = d.peer /\ d.peer \in Conn
  BY <1>0, <1>3 DEF InHand, Datagram, NoDatagram
<1>5. LanesType'
  BY <1>1, <1>2, <1>3, <1>4 DEF LanesType, TypeOK, Sent
<1>6. \A k \in Lane \ {l} : queue'[k] = queue[k] /\ hand'[k] = hand[k] /\ sent'[k] = sent[k]
  BY <1>1, <1>2
<1>7. queue'[l] = q /\ (hand'[l] = NoDatagram \/ (hand'[l] = h /\ Peer(l[1]) = d.peer))
  BY <1>1, <1>2 DEF Idle
<1>8. LaneHolds(l) /\ Kept(l) /\ InOrder(l)
  BY DEF LaneHolds
<1>9. Kept(l)'
  <2>1. \A n, p : Genuine(l, n, p) => Later(l, n, p)
    BY <1>1, Remains
  <2>2. \A i \in 1..Len(q) : Genuine(l, q[i].number, q[i].peer)
    BY <1>3, <1>8 DEF Kept
  <2>3. Genuine(l, h.number, h.peer)
    BY <1>3, <1>4, <1>8 DEF Kept
  <2> QED
    BY <1>1, <1>7, <1>8, <2>1, <2>2, <2>3, KeptLater DEF Kept
<1>10. InOrder(l)'
  <2>1. \A i, j \in 1..Len(q) : i < j => q[i].number < q[j].number
    <3>1. ASSUME NEW i \in 1..Len(q), NEW j \in 1..Len(q), i < j
          PROVE  q[i].number < q[j].number
      <4>1. i + 1 \in 1..Len(queue[l]) /\ j + 1 \in 1..Len(queue[l]) /\ i + 1 < j + 1
        BY <1>2, <1>3, <3>1
      <4>2. queue[l][i + 1].number < queue[l][j + 1].number
        BY <1>8, <4>1 DEF InOrder
      <4> QED
        BY <1>3, <4>2
    <3> QED
      BY <3>1
  <2>2. \A i \in 1..Len(sent[l]) :
            sent[l][i].number < h.number /\ \A j \in 1..Len(q) : sent[l][i].number < q[j].number
    BY <1>3, <1>4, <1>8 DEF InOrder
  <2>3. \A j \in 1..Len(q) : h.number < q[j].number
    <3>1. ASSUME NEW j \in 1..Len(q)  PROVE  h.number < q[j].number
      <4>1. j + 1 \in 1..Len(queue[l]) /\ 1 < j + 1
        BY <1>2, <1>3
      <4>2. queue[l][1].number < queue[l][j + 1].number
        BY <1>3, <1>8, <4>1 DEF InOrder
      <4> QED
        BY <1>3, <1>4, <4>2
    <3> QED
      BY <3>1
  <2>4. ingress[l[1]] =>
            /\ \A j \in 1..Len(q) : q[j].number < Len(arrived[l[1]])
            /\ h.number < Len(arrived[l[1]])
    BY <1>3, <1>4, <1>8 DEF InOrder
  <2> QED
    BY <1>1, <1>7, <1>8, <2>1, <2>2, <2>3, <2>4 DEF InOrder, Idle
<1>11. ForPeer(l)'
  <2>1. Peer(l[1])' = Peer(l[1])
    BY <1>1, RestKeeps, PeerStays DEF TypeOK
  <2>2. NoConn \notin Conn
    BY DEF DatagramConstants, JoinedConstants
  <2> QED
    BY <1>4, <1>7, <2>1, <2>2, Observed DEF ForPeer, Idle
<1>12. Within(l)'
  <2>1. Capacity[l[2]] \in Nat /\ Len(queue[l]) <= Capacity[l[2]] /\ task[l[1]] = "serving"
    BY <1>1, <1>8, LaneTyped DEF LaneHolds, Within, DatagramConstants
  <2> QED
    BY <1>2, <1>3, <1>7, <2>1 DEF Within
<1>13. LaneHolds(l)'
  BY <1>9, <1>10, <1>11, <1>12 DEF LaneHolds
<1> QED
  BY <1>1, <1>5, <1>6, <1>13, OneLane

LEMMA SendStep ==
    ASSUME DatagramConstants, IInv, JoinedType', Observe, NEW l \in Lane, Send(l)
    PROVE  Keeps
<1> USE DEF IInv
<1>0. PICK m, s : m = [number |-> hand[l].number, to |-> hand[l].peer] /\ s = Append(sent[l], m)
  OBVIOUS
<1>1. /\ UNCHANGED joined /\ UNCHANGED ingress /\ UNCHANGED arrived /\ UNCHANGED queue
      /\ ~Idle(l) /\ sent' = [sent EXCEPT ![l] = s] /\ hand' = [hand EXCEPT ![l] = NoDatagram]
  BY <1>0 DEF Send, Idle, NoDatagram
<1>2. /\ sent[l] \in Seq(Sent) /\ Len(queue[l]) \in Nat /\ Len(sent[l]) \in Nat
      /\ sent \in [Lane -> Seq(Sent)] /\ hand \in [Lane -> InHand]
      /\ m \in Sent /\ m.number = hand[l].number /\ m.to = hand[l].peer
      /\ task' = task
  BY <1>0, <1>1, LaneTyped, RestKeeps DEF TypeOK, Sent
<1>3. /\ s \in Seq(Sent) /\ Len(s) = Len(sent[l]) + 1
      /\ \A i \in 1..Len(s) : \/ i \in 1..Len(sent[l]) /\ s[i] = sent[l][i]
                              \/ i = Len(sent[l]) + 1 /\ s[i] = m
  BY <1>0, <1>2, AppendProperties
<1>4. LanesType'
  BY <1>1, <1>2, <1>3 DEF LanesType, TypeOK, InHand
<1>5. \A k \in Lane \ {l} : queue'[k] = queue[k] /\ hand'[k] = hand[k] /\ sent'[k] = sent[k]
  BY <1>1, <1>2
<1>6. hand'[l] = NoDatagram /\ sent'[l] = s
  BY <1>1, <1>2
<1>7. LaneHolds(l) /\ Kept(l) /\ InOrder(l)
  BY DEF LaneHolds
<1>8. Kept(l)'
  <2>1. \A n, p : Genuine(l, n, p) => Later(l, n, p)
    BY <1>1, Remains
  <2>2. \A i \in 1..Len(s) : Genuine(l, s[i].number, s[i].to)
    BY <1>1, <1>2, <1>3, <1>7 DEF Kept
  <2> QED
    BY <1>1, <1>6, <1>7, <2>1, <2>2, KeptLater DEF Kept
<1>9. InOrder(l)'
  <2>1. \A i \in 1..Len(sent[l]) : sent[l][i].number < m.number
    BY <1>1, <1>2, <1>7 DEF InOrder
  <2>2. \A j \in 1..Len(queue[l]) : m.number < queue[l][j].number
    BY <1>1, <1>2, <1>7 DEF InOrder
  <2>3. \A i, j \in 1..Len(s) : i < j => s[i].number < s[j].number
    <3>1. \A i, j \in 1..Len(s) : i < j => i \in 1..Len(sent[l])
      BY <1>2, <1>3
    <3> QED
      BY SMTT(30), <1>3, <1>7, <2>1, <3>1 DEF InOrder
  <2>4. \A i \in 1..Len(s), j \in 1..Len(queue[l]) : s[i].number < queue[l][j].number
    BY <1>3, <1>7, <2>2 DEF InOrder
  <2>5. ingress[l[1]] => \A i \in 1..Len(s) : s[i].number < Len(arrived[l[1]])
    BY <1>1, <1>2, <1>3, <1>7 DEF InOrder
  <2> QED
    BY <1>1, <1>6, <1>7, <2>3, <2>4, <2>5 DEF InOrder, Idle
<1>10. ForPeer(l)' /\ Within(l)'
  BY <1>1, <1>2, <1>6, <1>7 DEF LaneHolds, ForPeer, Within, Idle
<1> QED
  BY <1>1, <1>4, <1>5, <1>8, <1>9, <1>10, OneLane DEF LaneHolds

-----------------------------------------------------------------------------
(* The invariant. *)

LEMMA Initially ==
    ASSUME DatagramConstants, Init
    PROVE  IInv
<1>1. JoinedType /\ Unjoined
  BY DEF Init, JoinedInit, SlotsInit, JoinedType, SlotsType, Phase, Unjoined
<1>2. TypeOK
  BY <1>1 DEF Init, TypeOK, InHand
<1>3. \A c \in Source : Len(arrived[c]) = 0 /\ ~ingress[c]
  BY DEF Init
<1>4. \A l \in Lane :
          /\ l[1] \in Source /\ l[2] \in Channel /\ ~ingress[l[1]]
          /\ queue[l] = <<>> /\ sent[l] = <<>> /\ Idle(l)
          /\ Len(queue[l]) = 0 /\ Len(sent[l]) = 0
  BY DEF Init, Lane, Idle
<1>5. \A c \in Source : Binds(c)
  BY <1>3 DEF Binds, DatagramConstants
<1>6. \A l \in Lane : LaneHolds(l)
  BY <1>4 DEF LaneHolds, Kept, InOrder, ForPeer, Within, DatagramConstants
<1> QED
  BY <1>1, <1>2, <1>5, <1>6 DEF IInv

LEMMA Inductive ==
    ASSUME DatagramConstants, IInv, [Next]_vars
    PROVE  IInv'
<1>1. JoinedType /\ Unjoined /\ Source \subseteq Conn
  BY DEF IInv, TypeOK, DatagramConstants
<1>2. SUFFICES ASSUME Observe PROVE (JoinedType' /\ Unjoined' /\ Keeps) \/ UNCHANGED vars
  <2>1. CASE UNCHANGED vars
    <3>1. /\ UNCHANGED joined /\ UNCHANGED paired /\ UNCHANGED ingress /\ UNCHANGED queue
          /\ UNCHANGED hand /\ UNCHANGED arrived /\ UNCHANGED sent
      BY <2>1 DEF vars, lanes
    <3>2. JoinedType' /\ Unjoined' /\ UNCHANGED task
      BY <1>1, <3>1, RestKeeps
    <3>3. TypeOK'
      BY <3>1, <3>2 DEF IInv, TypeOK
    <3>4. (\A c \in Source : Binds(c))'
      BY <3>1, <3>2 DEF IInv, Binds
    <3>5. ASSUME NEW l \in Lane  PROVE  LaneHolds(l)'
      <4>1. Same(l)
        BY <3>1 DEF Same, Idle
      <4> QED
        BY <3>1, <3>2, <3>5, <4>1, Steady DEF IInv
    <3> QED
      BY <3>2, <3>3, <3>4, <3>5 DEF IInv
  <2>2. CASE Observe /\ JoinedType' /\ Unjoined' /\ Keeps
    <3>1. paired' \in [Lane -> SUBSET Conn]
      BY <2>2, Observed DEF IInv
    <3> QED
      BY <2>2, <3>1 DEF Keeps, LanesType, Sent, IInv, TypeOK
  <2> QED
    BY <1>2, <2>1, <2>2 DEF Next
<1>3. CASE Environment /\ UNCHANGED lanes
  BY <1>1, <1>2, <1>3, EnvironmentKeeps, OthersStep
<1>4. ASSUME NEW c \in Conn, LeaveDrained(c)
      PROVE  JoinedType' /\ Unjoined' /\ Keeps
  BY <1>1, <1>2, <1>4, LeaveKeeps, LeaveStep DEF LeaveDrained
<1>5. ASSUME NEW c \in Source, Malformed(c)
      PROVE  JoinedType' /\ Unjoined' /\ Keeps
  <2>1. /\ JoinedType' /\ Unjoined'
        /\ \A d \in Conn : task[d] = "serving" => task'[d] = "serving"
    BY <1>1, <1>5 DEF Malformed, Close, JoinedType, SlotsType, Unjoined
  <2>2. UNCHANGED lanes
    BY <1>5 DEF Malformed
  <2> QED
    BY <1>2, <2>1, <2>2, OthersStep
<1>6. ASSUME NEW c \in Source,
             Enqueue(c) \/ \E ch \in Channel, g \in (Conn \ fresh) \cup {Anyone} : Receive(c, ch, g)
      PROVE  JoinedType' /\ Unjoined' /\ Keeps
  <2>1. UNCHANGED joined
    BY <1>6 DEF Enqueue, Receive
  <2>2. JoinedType' /\ Unjoined'
    BY <1>1, <2>1, RestKeeps
  <2> QED
    BY <1>2, <1>6, <2>2, EnqueueStep, ReceiveStep
<1>7. ASSUME NEW l \in Lane, Worker(l)
      PROVE  JoinedType' /\ Unjoined' /\ Keeps
  <2>1. UNCHANGED joined
    BY <1>7 DEF Worker, Dequeue, Resolve, Send, SendFails, SendTimesOut, Drop, DeadlinePasses
  <2>2. JoinedType' /\ Unjoined'
    BY <1>1, <2>1, RestKeeps
  <2> QED
    BY <1>2, <1>7, <2>2, DequeueStep, ResolveStep, SendStep, DropStep, DeadlineStep
       DEF Worker, SendFails, SendTimesOut
<1> QED
  BY <1>3, <1>4, <1>5, <1>6, <1>7 DEF Next, Connection

\* What every lane of every source holds, however its connections come and go.
THEOREM DatagramInvariant ==
    ASSUME DatagramConstants PROVE Spec => []IInv
<1> QED
  BY Initially, Inductive, PTL DEF Spec

\* Every variable of the datagram workers keeps its type.
THEOREM DatagramTypes ==
    ASSUME DatagramConstants PROVE Spec => []TypeOK
<1>1. IInv => TypeOK
  BY DEF IInv
<1> QED
  BY <1>1, DatagramInvariant, PTL

\* A datagram goes to the peer it was bound to when it arrived and to no other,
\* whatever happened to the roles while it waited (enqueue_datagram).
THEOREM AddressKept ==
    ASSUME DatagramConstants PROVE Spec => []NeverReaddressed
<1>1. ASSUME IInv PROVE NeverReaddressed
  <2>1. ASSUME NEW l \in Lane, NEW i \in DOMAIN sent[l]
        PROVE  Genuine(l, sent[l][i].number, sent[l][i].to)
    <3>1. i \in 1..Len(sent[l])
      BY <1>1, LaneTyped, LenProperties DEF IInv
    <3> QED
      BY <1>1, <3>1 DEF IInv, LaneHolds, Kept
  <2> QED
    BY <2>1 DEF NeverReaddressed, Genuine
<1> QED
  BY <1>1, DatagramInvariant, PTL

\* The worker only waits for a connection that was the peer while it had the
\* datagram in hand (forward_queued_datagram).
THEOREM PeerAtDequeue ==
    ASSUME DatagramConstants PROVE Spec => []QueuedForPeer
<1>1. IInv => QueuedForPeer
  BY DEF IInv, LaneHolds, ForPeer, QueuedForPeer, Idle, NoDatagram
<1> QED
  BY <1>1, DatagramInvariant, PTL

\* A channel delivers what it delivers once and in the order of arrival.
THEOREM ChannelOrder ==
    ASSUME DatagramConstants PROVE Spec => []LaneOrder
<1>1. ASSUME IInv PROVE LaneOrder
  <2>1. ASSUME NEW l \in Lane PROVE DOMAIN sent[l] = 1..Len(sent[l]) /\ InOrder(l)
    BY <1>1, LaneTyped, LenProperties DEF IInv, LaneHolds
  <2> QED
    BY <2>1 DEF LaneOrder, InOrder
<1> QED
  BY <1>1, DatagramInvariant, PTL

\* The memory of a channel is its capacity and one datagram (MEDIA_BUDGETS), and
\* none when its connection is gone.
THEOREM ChannelBudget ==
    ASSUME DatagramConstants PROVE Spec => []LaneBudget
<1>1. ASSUME IInv PROVE LaneBudget
  <2>1. ASSUME NEW l \in Lane
        PROVE  /\ Len(queue[l]) + InWork(l) <= Capacity[l[2]] + 1
               /\ task[l[1]] # "serving" => Len(queue[l]) + InWork(l) = 0
    <3>1. /\ Len(queue[l]) \in Nat /\ Capacity[l[2]] \in Nat /\ Within(l)
      BY <1>1, LaneTyped DEF IInv, LaneHolds, DatagramConstants
    <3>2. queue[l] = <<>> => Len(queue[l]) = 0
      OBVIOUS
    <3>3. InWork(l) \in {0, 1} /\ (Idle(l) => InWork(l) = 0)
      BY DEF InWork
    <3> QED
      BY <3>1, <3>2, <3>3 DEF Within
  <2> QED
    BY <2>1 DEF LaneBudget
<1> QED
  BY <1>1, DatagramInvariant, PTL
=============================================================================
