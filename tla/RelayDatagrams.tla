--------------------------- MODULE RelayDatagrams ---------------------------
(***************************************************************************)
(* The media datagrams of joined connections (enqueue_datagram and         *)
(* forward_queued_datagram in server/relay/src/lib.rs, the queues of       *)
(* server/relay/src/media_scheduler.rs).  The task of a connection binds   *)
(* each datagram it receives to the peer of the moment and puts it in the  *)
(* bounded queue of its channel; one worker per channel takes it out, asks *)
(* again who the peer is, and waits for room in the peer's send buffer.    *)
(*                                                                         *)
(* Time is one flag per datagram: its deadline has passed.  A queue has    *)
(* one age for all, so deadlines pass in its order.                        *)
(*                                                                         *)
(* Connections share no queue, so it is enough to follow the datagrams of  *)
(* some of them, the sources; the others only take roles and leave.        *)
(***************************************************************************)
EXTENDS JoinedTasks, Integers, SequencesExt

CONSTANTS
    Source,         \* the connections whose datagrams are followed
    Channel,        \* media channels, MEDIA_BUDGETS
    Capacity,       \* MediaBudget::capacity of a channel
    Anyone,         \* target generation 0
    MaxDatagrams    \* bound: datagrams one connection sends

DatagramConstants ==
    /\ JoinedConstants
    /\ Source \subseteq Conn /\ Anyone \notin Conn
    /\ Capacity \in [Channel -> Nat]
    /\ MaxDatagrams \in Nat

VARIABLES
    ingress,    \* the datagram the task of a connection binds, if any
    queue,      \* the queue of each channel
    hand,       \* the datagram the worker of each channel forwards, if any
    arrived,    \* history: what each connection sent, in order
    sent,       \* history: what each worker handed to a peer
    paired      \* history: peers since the worker took the datagram in hand

lanes == <<ingress, queue, hand, arrived, sent>>
vars  == <<joined, lanes, paired>>

Lane == Source \X Channel

\* One datagram: its place in the order of its source, the connection it is
\* bound to, whether its deadline has passed.
Datagram == [number : 1..MaxDatagrams, peer : Conn, late : BOOLEAN]
Arrival  == [channel : Channel, target : Conn \cup {Anyone}, peer : Conn \cup {NoConn}]

NoDatagram == [number |-> 0, peer |-> NoConn, late |-> FALSE, at |-> "none"]

\* "lookup" has the queue's datagram, "resolve" knows the role still has its
\* peer, "sending" waits for the peer.
InHand == {NoDatagram} \cup
    [number : 1..MaxDatagrams, peer : Conn, late : BOOLEAN, at : {"resolve", "sending"}]

TypeOK ==
    /\ JoinedType
    /\ ingress \in [Source -> BOOLEAN]
    /\ queue \in [Lane -> Seq(Datagram)]
    /\ hand \in [Lane -> InHand]
    /\ arrived \in [Source -> Seq(Arrival)]
    /\ sent \in [Lane -> Seq([number : 1..MaxDatagrams, to : Conn])]
    /\ paired \in [Lane -> SUBSET Conn]

Init ==
    /\ JoinedInit
    /\ ingress = [c \in Source |-> FALSE]
    /\ queue = [l \in Lane |-> <<>>]
    /\ hand = [l \in Lane |-> NoDatagram]
    /\ arrived = [c \in Source |-> <<>>]
    /\ sent = [l \in Lane |-> <<>>]
    /\ paired = [l \in Lane |-> {}]

Idle(l) == hand[l] = NoDatagram
InWork(l) == IF Idle(l) THEN 0 ELSE 1

\* The worker is done with its datagram.
Drop(l) ==
    /\ hand' = [hand EXCEPT ![l] = NoDatagram]
    /\ UNCHANGED <<joined, ingress, queue, arrived, sent>>
-----------------------------------------------------------------------------
(* The task of connection c. *)

\* A datagram of the wrong size or channel closes its connection.
Malformed(c) ==
    /\ Serving(c) /\ ~ingress[c]
    /\ Close({c})
    /\ UNCHANGED <<place, task, lanes>>

\* A datagram arrives and the session table names the peer, if there is one.
Receive(c, ch, g) ==
    /\ Serving(c) /\ ~ingress[c]
    /\ Len(arrived[c]) < MaxDatagrams
    /\ arrived' = [arrived EXCEPT ![c] = Append(@, [channel |-> ch, target |-> g, peer |-> Peer(c)])]
    /\ ingress' = [ingress EXCEPT ![c] = Peer(c) # NoConn]
    /\ UNCHANGED <<joined, queue, hand, sent>>

Welcome(a) == a.peer \in listed /\ a.target \in {Anyone, a.peer}

\* The participants map has the peer and the datagram is for it: it is queued,
\* or dropped when the queue of its channel is full.
Enqueue(c) ==
    LET a == Last(arrived[c])
        l == <<c, a.channel>>
    IN  /\ ingress[c]
        /\ ingress' = [ingress EXCEPT ![c] = FALSE]
        /\ queue' = IF Welcome(a) /\ Len(queue[l]) < Capacity[a.channel]
                      THEN [queue EXCEPT ![l] = Append(@, [number |-> Len(arrived[c]),
                                                           peer |-> a.peer, late |-> FALSE])]
                      ELSE queue
        /\ UNCHANGED <<joined, hand, arrived, sent>>

\* Both worker sets are shut down before the participant guard is dropped; the
\* queues go with them.
LeaveDrained(c) ==
    /\ Leave(c, c \in Source /\ arrived[c] # <<>>)
    /\ c \in Source => ~ingress[c]
    /\ queue' = [l \in Lane |-> IF l[1] = c THEN <<>> ELSE queue[l]]
    /\ hand' = [l \in Lane |-> IF l[1] = c THEN NoDatagram ELSE hand[l]]
    /\ UNCHANGED <<ingress, arrived, sent>>
-----------------------------------------------------------------------------
(* The worker of lane l. *)

DequeueTrusting(l) ==           \* Fault: the peer bound at ingress is not asked for again.
    /\ Idle(l) /\ queue[l] # <<>> /\ l[1] \notin closed
    /\ queue' = [queue EXCEPT ![l] = Tail(@)]
    /\ LET d == Head(queue[l])
       IN  hand' = IF d.late THEN hand
                   ELSE [hand EXCEPT ![l] = [number |-> d.number, peer |-> d.peer,
                                             late |-> FALSE, at |-> "sending"]]
    /\ UNCHANGED <<joined, ingress, arrived, sent>>

\* The oldest datagram leaves the queue; it is dropped when it is late or the
\* session table names another peer by now.
Dequeue(l) ==
    /\ Idle(l) /\ queue[l] # <<>> /\ l[1] \notin closed
    /\ queue' = [queue EXCEPT ![l] = Tail(@)]
    /\ LET d == Head(queue[l])
       IN  hand' = IF d.late \/ Peer(l[1]) # d.peer THEN hand
                   ELSE [hand EXCEPT ![l] = [number |-> d.number, peer |-> d.peer,
                                             late |-> FALSE, at |-> "resolve"]]
    /\ UNCHANGED <<joined, ingress, arrived, sent>>

\* The participants map still has the peer, or the datagram is dropped.
Resolve(l) ==
    /\ hand[l].at = "resolve"
    /\ hand' = [hand EXCEPT ![l] = IF @.peer \in listed THEN [@ EXCEPT !.at = "sending"]
                                   ELSE NoDatagram]
    /\ UNCHANGED <<joined, ingress, queue, arrived, sent>>

\* The send is asked before its deadline, so it may still succeed when that
\* has just passed.
Send(l) ==
    /\ hand[l].at = "sending" /\ l[1] \notin closed
    /\ hand[l].peer \notin closed
    /\ sent' = [sent EXCEPT ![l] = Append(@, [number |-> hand[l].number, to |-> hand[l].peer])]
    /\ hand' = [hand EXCEPT ![l] = NoDatagram]
    /\ UNCHANGED <<joined, ingress, queue, arrived>>

\* The source or the peer is closed.
SendFails(l) ==
    /\ hand[l].at = "sending"
    /\ {l[1], hand[l].peer} \cap closed # {}
    /\ Drop(l)

SendTimesOut(l) ==
    /\ hand[l].at = "sending" /\ hand[l].late
    /\ Drop(l)

\* The deadline of the oldest datagram that is not late passes.
DeadlinePasses(l) ==
    /\ IF ~Idle(l) /\ ~hand[l].late
         THEN /\ hand' = [hand EXCEPT ![l].late = TRUE]
              /\ UNCHANGED queue
         ELSE /\ \E i \in DOMAIN queue[l] :
                    /\ ~queue[l][i].late
                    /\ \A j \in 1..(i - 1) : queue[l][j].late
                    /\ queue' = [queue EXCEPT ![l][i].late = TRUE]
              /\ UNCHANGED hand
    /\ UNCHANGED <<joined, ingress, arrived, sent>>
-----------------------------------------------------------------------------
Connection(c) ==
    \/ Malformed(c)
    \/ \E ch \in Channel, g \in (Conn \ fresh) \cup {Anyone} : Receive(c, ch, g)
    \/ Enqueue(c)

Worker(l) ==
    \/ Dequeue(l) \/ Resolve(l)
    \/ Send(l) \/ SendFails(l) \/ SendTimesOut(l)
    \/ DeadlinePasses(l)

\* The history restarts with every datagram a worker takes.
Observe ==
    paired' = [l \in Lane |->
                 IF hand'[l] = NoDatagram THEN {}
                 ELSE (IF Idle(l) THEN {} ELSE paired[l]) \cup ({Peer(l[1])'} \ {NoConn})]

Next ==
    /\ \/ Environment /\ UNCHANGED lanes
       \/ \E c \in Conn : LeaveDrained(c)
       \/ \E c \in Source : Connection(c)
       \/ \E l \in Lane : Worker(l)
    /\ Observe

Spec == Init /\ [][Next]_vars

(***************************************************************************)
(* Scheduling.  A worker with something to do does it, deadlines pass, and *)
(* the loop of a closed connection ends.  Nothing makes a peer take what   *)
(* it is sent.                                                             *)
(***************************************************************************)
Goes(l) == Dequeue(l) \/ Resolve(l) \/ SendFails(l) \/ SendTimesOut(l)

Fairness ==
    /\ \A l \in Lane : WF_vars(Goes(l) /\ Observe) /\ WF_vars(DeadlinePasses(l) /\ Observe)
    /\ \A c \in Source : WF_vars(Enqueue(c) /\ Observe)
    /\ \A c \in Conn : WF_vars(c \in closed /\ LeaveDrained(c) /\ Observe)

FairSpec == Spec /\ Fairness
-----------------------------------------------------------------------------
(* Properties. *)

(* A datagram reaches the connection that was its source's peer when it      *)
(* arrived and no other, and only if it was sealed for that one or for       *)
(* nobody in particular: the comment in enqueue_datagram, queued ciphertext  *)
(* must never be re-addressed to a replacement controller or host.           *)
NeverReaddressed ==
    \A l \in Lane : \A i \in DOMAIN sent[l] :
        LET a == arrived[l[1]][sent[l][i].number]
        IN  /\ a.channel = l[2]
            /\ sent[l][i].to = a.peer
            /\ a.target \in {Anyone, a.peer}

(* What a worker waits to send was for a peer that still was the peer when   *)
(* the worker took it: the time in the queue never delivers to a connection  *)
(* that lost its role meanwhile.                                             *)
QueuedForPeer ==
    \A l \in Lane : hand[l].at = "sending" => hand[l].peer \in paired[l]

(* A channel delivers in the order of arrival, each datagram at most once,   *)
(* whatever was dropped in between.                                          *)
LaneOrder ==
    \A l \in Lane : \A i, j \in DOMAIN sent[l] : i < j => sent[l][i].number < sent[l][j].number

(* A channel of a connection never holds more than its capacity and the one  *)
(* in flight (the reservation computed above MEDIA_BUDGETS), and nothing     *)
(* once the loop of its connection is over.                                  *)
LaneBudget ==
    \A l \in Lane :
        /\ Len(queue[l]) + InWork(l) <= Capacity[l[2]] + 1
        /\ task[l[1]] # "serving" => Len(queue[l]) + InWork(l) = 0

(* No datagram lingers: a stalled peer delays its channel until the deadline *)
(* of the datagram in hand, and the channel is empty or has moved on.        *)
NothingLingers ==
    \A l \in Lane, n \in 1..MaxDatagrams :
        (hand[l].number = n \/ \E i \in DOMAIN queue[l] : queue[l][i].number = n) ~>
            (hand[l].number # n /\ \A i \in DOMAIN queue[l] : queue[l][i].number # n)
=============================================================================
