--------------------------- MODULE RelayForwarding ---------------------------
(***************************************************************************)
(* The reliable streams of joined connections (forward_reliable and        *)
(* forward_reliable_message in server/relay/src/lib.rs).  A task per       *)
(* stream reads a message, looks up the peer of its connection - first in  *)
(* the session table, then in the participants map - and writes the        *)
(* message to a stream it opens to that peer.  Roles change hands,         *)
(* sessions expire and transports close between any two of these steps, as *)
(* JoinedTasks allows.                                                     *)
(***************************************************************************)
EXTENDS JoinedTasks, Integers, Sequences

CONSTANTS
    Stream,         \* reliable streams the clients open
    Anyone,         \* target generation 0
    MaxStreams,     \* MAX_RELIABLE_FORWARD_TASKS_PER_CONNECTION
    MaxMessages     \* bound: messages read from one stream

ForwardingConstants ==
    /\ JoinedConstants
    /\ Anyone \notin Conn
    /\ IsFiniteSet(Stream)
    /\ MaxStreams \in Nat /\ MaxMessages \in Nat

VARIABLES
    stream,     \* the task of each stream
    wire,       \* messages the relay wrote, by the stream they came from
    paired      \* history: peers of the source since it sent the message in hand

vars == <<joined, stream, wire, paired>>

\* Where a stream task is: "reading" waits for a frame, "lookup" and "resolve"
\* are the two halves of peer_with_id, "absent" is a controller between two
\* looks, "open" and "write" await the peer.
Busy == {"lookup", "resolve", "absent", "open", "write"}
Live == {"reading"} \cup Busy

StreamTask ==
    [at      : {"unused", "ended"} \cup Live,
     source  : Conn \cup {NoConn},
     target  : Conn \cup {Anyone},          \* target_generation
     message : 0..MaxMessages,              \* the frame in hand
     peer    : Conn \cup {NoConn},          \* what the lookup found
     dest    : Conn \cup {NoConn}]          \* whom the open destination stream reaches

Unused ==
    [at |-> "unused", source |-> NoConn, target |-> Anyone, message |-> 0,
     peer |-> NoConn, dest |-> NoConn]

TypeOK ==
    /\ JoinedType
    /\ stream \in [Stream -> StreamTask]
    /\ wire \in [Stream -> Seq([message : 1..MaxMessages, to : Conn])]
    /\ paired \in [Stream -> SUBSET Conn]

Init ==
    /\ JoinedInit
    /\ stream = [x \in Stream |-> Unused]
    /\ wire = [x \in Stream |-> <<>>]
    /\ paired = [x \in Stream |-> {}]

RoleOf(x) == place[stream[x].source][2]
LiveStreams(c) == {x \in Stream : stream[x].source = c /\ stream[x].at \in Live}

\* Task x takes the value t; nothing else of the relay changes.
Becomes(x, t) ==
    /\ stream' = [stream EXCEPT ![x] = t]
    /\ UNCHANGED <<joined, wire>>

End(x) == [stream[x] EXCEPT !.at = "ended", !.peer = NoConn, !.dest = NoConn]
-----------------------------------------------------------------------------
(* The loop of handle_connection. *)

\* A client opens a stream; its header names the peer it is sealed for, a
\* connection id it has learnt from the relay, or nobody in particular.
Open(x, c, g) ==
    /\ stream[x].at = "unused"
    /\ Serving(c)
    /\ Cardinality(LiveStreams(c)) < MaxStreams
    /\ Becomes(x, [Unused EXCEPT !.at = "reading", !.source = c, !.target = g])

\* A stream past the limit closes its connection.
RejectStream(c) ==
    /\ Serving(c)
    /\ Cardinality(LiveStreams(c)) >= MaxStreams
    /\ Close({c})
    /\ UNCHANGED <<place, task, stream, wire>>

\* Both worker sets are shut down before the participant guard is dropped.
LeaveDrained(c) ==
    /\ Leave(c, \E x \in Stream : stream[x].source = c)
    /\ stream' = [x \in Stream |-> IF x \in LiveStreams(c) THEN End(x) ELSE stream[x]]
    /\ UNCHANGED wire
-----------------------------------------------------------------------------
(* The task of stream x. *)

Read(x) ==
    /\ stream[x].at = "reading" /\ stream[x].message < MaxMessages
    /\ Becomes(x, [stream[x] EXCEPT !.at = "lookup", !.message = @ + 1])

\* End of the stream, or a reset: only this stream is over.
Finish(x) ==
    /\ stream[x].at = "reading"
    /\ Becomes(x, End(x))

\* A malformed, late or truncated frame or header closes the whole connection.
ReadFails(x) ==
    /\ stream[x].at = "reading"
    /\ stream' = [stream EXCEPT ![x] = End(x)]
    /\ Close({stream[x].source})
    /\ UNCHANGED <<place, task, wire>>

LookUpPeer(x) ==
    LET p == Peer(stream[x].source)
    IN  /\ stream[x].at = "lookup"
        /\ Becomes(x, [stream[x] EXCEPT !.peer = p,
                                        !.at = IF p = NoConn THEN "absent" ELSE "resolve"])

Misdirected(x) == stream[x].target \notin {Anyone, stream[x].peer}
Replaced(x) == stream[x].dest \notin {NoConn, stream[x].peer}

ResolveUnaddressed(x) ==        \* Fault: the target generation is not compared.
    LET t == stream[x]
    IN  /\ t.at = "resolve"
        /\ Becomes(x, IF t.peer \notin listed THEN [t EXCEPT !.at = "absent"]
                      ELSE IF Replaced(x) THEN End(x)
                      ELSE [t EXCEPT !.at = IF t.dest = NoConn THEN "open" ELSE "write"])

\* The participants map has the peer or not; a peer other than the one the
\* stream is addressed or bound to ends the stream.
Resolve(x) ==
    LET t == stream[x]
    IN  /\ t.at = "resolve"
        /\ Becomes(x, IF t.peer \notin listed THEN [t EXCEPT !.at = "absent"]
                      ELSE IF Misdirected(x) \/ Replaced(x) THEN End(x)
                      ELSE [t EXCEPT !.at = IF t.dest = NoConn THEN "open" ELSE "write"])

\* A host's message without a controller belongs to a controller that is gone.
AbandonHost(x) ==
    /\ stream[x].at = "absent" /\ RoleOf(x) = "Host"
    /\ Becomes(x, End(x))

\* A controller looks again every 25 ms ...
LookAgain(x) ==
    /\ stream[x].at = "absent" /\ RoleOf(x) = "Controller"
    /\ stream[x].source \notin closed
    /\ Becomes(x, [stream[x] EXCEPT !.at = "lookup"])

NeverGiveUp(x) == FALSE         \* Fault: the wait has no deadline.

\* ... until 5 s are over or its own transport is closed.
PeerUnavailable(x) ==
    /\ stream[x].at = "absent" /\ RoleOf(x) = "Controller"
    /\ stream' = [stream EXCEPT ![x] = End(x)]
    /\ Close({stream[x].source})
    /\ UNCHANGED <<place, task, wire>>

\* open_bi and the header of the destination stream.
BindPeer(x) ==
    /\ stream[x].at = "open" /\ stream[x].peer \notin closed
    /\ Becomes(x, [stream[x] EXCEPT !.at = "write", !.dest = stream[x].peer])

\* open_bi fails: a host drops the message, a controller looks again.
OpenFails(x) ==
    /\ stream[x].at = "open" /\ stream[x].peer \in closed
    /\ Becomes(x, [stream[x] EXCEPT !.at = IF RoleOf(x) = "Host" THEN "reading" ELSE "lookup"])

\* The header cannot be written: the peer stopped the stream or closed.
HeaderFails(x) ==
    /\ stream[x].at = "open"
    /\ Becomes(x, IF RoleOf(x) = "Host" THEN End(x) ELSE [stream[x] EXCEPT !.at = "lookup"])

Write(x) ==
    /\ stream[x].at = "write" /\ stream[x].dest \notin closed
    /\ stream' = [stream EXCEPT ![x].at = "reading"]
    /\ wire' = [wire EXCEPT ![x] = Append(@, [message |-> stream[x].message, to |-> stream[x].dest])]
    /\ UNCHANGED joined

\* The peer stopped the stream or its transport is closed.  A host's message
\* belongs to that peer; a controller's is tried again on a new stream.
WriteFails(x) ==
    /\ stream[x].at = "write"
    /\ Becomes(x, IF RoleOf(x) = "Host" THEN End(x)
                  ELSE [stream[x] EXCEPT !.at = "lookup", !.dest = NoConn])
-----------------------------------------------------------------------------
Forward(x) ==
    \/ \E c \in Conn, g \in (Conn \ fresh) \cup {Anyone} : Open(x, c, g)
    \/ Read(x) \/ Finish(x) \/ ReadFails(x)
    \/ LookUpPeer(x) \/ Resolve(x)
    \/ AbandonHost(x) \/ LookAgain(x) \/ PeerUnavailable(x)
    \/ BindPeer(x) \/ OpenFails(x) \/ HeaderFails(x)
    \/ Write(x) \/ WriteFails(x)

Connection(c) == RejectStream(c) \/ LeaveDrained(c)

\* The history restarts with every message.
PeersOf(x) == IF stream[x].at = "unused" THEN {} ELSE {Peer(stream[x].source)} \ {NoConn}

Observe ==
    paired' = [x \in Stream |->
                 (IF stream'[x].message # stream[x].message THEN {} ELSE paired[x]) \cup PeersOf(x)']

Next ==
    /\ \/ Environment /\ UNCHANGED <<stream, wire>>
       \/ \E c \in Conn : Connection(c)
       \/ \E x \in Stream : Forward(x)
    /\ Observe

Spec == Init /\ [][Next]_vars

(***************************************************************************)
(* Scheduling.  A stream task that need not wait for a client goes on; the *)
(* 5 s deadline falls due; a write to a closed transport fails; the task   *)
(* of a closed connection leaves and departs.  Nothing makes an open peer  *)
(* grant stream or flow control credit, or a client send.                  *)
(***************************************************************************)
Goes(x) ==
    \/ LookUpPeer(x) \/ Resolve(x) \/ AbandonHost(x) \/ OpenFails(x)
    \/ WriteFails(x) /\ stream[x].dest \in closed

Fairness ==
    /\ \A x \in Stream : WF_vars(Goes(x) /\ Observe) /\ SF_vars(PeerUnavailable(x) /\ Observe)
    /\ \A c \in Conn : WF_vars(c \in closed /\ LeaveDrained(c) /\ Observe)
                        /\ WF_vars(Depart(c) /\ UNCHANGED <<stream, wire>> /\ Observe)

FairSpec == Spec /\ Fairness
-----------------------------------------------------------------------------
(* Properties. *)

Reached(x) == {wire[x][i].to : i \in DOMAIN wire[x]}

(* A stream whose header names a peer generation reaches that connection and *)
(* no other, however often the role changes hands meanwhile.                 *)
AddressedDelivery ==
    \A x \in Stream : stream[x].target # Anyone => Reached(x) \subseteq {stream[x].target}

(* A host's stream reaches one connection at most, even if it is addressed   *)
(* to nobody in particular: what it carries is never replayed to a later     *)
(* controller.                                                               *)
HostStreamBound ==
    \A x \in Stream :
        stream[x].at # "unused" /\ RoleOf(x) = "Host" => Cardinality(Reached(x)) <= 1

(* The messages of one stream are forwarded in order and each at most once,  *)
(* through every retry; some may be dropped.                                 *)
InOrderOnce ==
    \A x \in Stream : \A i, j \in DOMAIN wire[x] :
        i < j => wire[x][i].message < wire[x][j].message

(* A message is only ever written to a connection that was the peer of its   *)
(* source, both in their roles of one session, at some moment after the      *)
(* message was read: a displaced or expired source reaches nobody new, and a *)
(* peer that was gone before gets nothing.                                   *)
PairedDelivery ==
    \A x \in Stream : \A i \in DOMAIN wire[x] :
        wire[x][i].message = stream[x].message => wire[x][i].to \in paired[x]

(* The stream workers of a connection end before its departure begins, and   *)
(* never exceed their limit: no task forwards for a connection the relay has *)
(* already forgotten.                                                        *)
NoOrphanForwarder ==
    \A c \in Conn :
        /\ task[c] # "serving" => LiveStreams(c) = {}
        /\ Cardinality(LiveStreams(c)) <= MaxStreams

(* A message is not retried for ever: it is written or dropped, its stream   *)
(* ends, or it waits for credit of a peer whose transport is open.           *)
Blocked(x) == stream[x].at \in {"open", "write"} /\ stream[x].peer \notin closed

ForwardingSettles ==
    \A x \in Stream : stream[x].at \in Busy ~> (stream[x].at \notin Busy \/ Blocked(x))

(* The comment in forward_reliable_message: every reliable source stream is  *)
(* bound to the peer it first reached, including a controller's generation-  *)
(* zero bootstrap stream, and never rebound to a replacement connection.     *)
StreamsNeverRebind ==
    \A x \in Stream : Cardinality(Reached(x)) <= 1
=============================================================================
