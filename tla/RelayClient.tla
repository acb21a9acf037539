----------------------------- MODULE RelayClient -----------------------------
(***************************************************************************)
(* How a relay client receives (quic.rs).  The relay joins a client to one *)
(* peer after the other; each has a generation, and each of its reliable   *)
(* streams starts with it.  A task per stream reads it into the lane of    *)
(* its channel, so that what an old peer sent may follow what the new one  *)
(* did; active_peer_generation tells the stale events.  A lane is read by  *)
(* next_event (the controllers and the FFI host) or by a host's session    *)
(* that is bound to one generation.  Datagrams, the loss of the relay      *)
(* connection and sending are left out.                                    *)
(***************************************************************************)
EXTENDS Naturals, Sequences, SequencesExt

CONSTANTS
  MaxPeers,    \* bound: peers, one after the other
  MaxMessages, \* bound: messages on one stream
  Capacity     \* INBOUND_RELIABLE_QUEUE_CAPACITY

VARIABLES
  peers,    \* peers the relay has joined the client to so far
  present,  \* the last of them is there
  stream,   \* by channel and generation: sent by the peer, and what is read
  active,   \* active_peer_generation
  lane,     \* the queue of each channel
  open,     \* lane_open
  caller,   \* the call of next_event
  session,  \* the generation the host's session is bound to, or 0
  pending,  \* pending_control
  taken     \* history: by channel and generation, the messages the client got

receiving == <<peers, present, stream, active, lane>>
vars == <<receiving, open, caller, session, pending, taken>>

Channels == {"control", "input"}
Generations == 1..MaxPeers
Bye == 0                                   \* TransportEvent::PeerDisconnected
Event(g, n) == [generation |-> g, message |-> n]
NoEvent == Event(0, Bye)
Calling == [at |-> "call", channel |-> "control", event |-> NoEvent, selected |-> FALSE]

Init ==
  /\ peers = 1 /\ present = TRUE
  /\ stream = [c \in Channels |-> [g \in Generations |->
                 [sent |-> 0, read |-> 0, header |-> FALSE, over |-> FALSE]]]
  /\ active = 0
  /\ lane = [c \in Channels |-> <<>>]
  /\ open = [c \in Channels |-> TRUE]
  /\ caller = Calling
  /\ session = 0 /\ pending = NoEvent
  /\ taken = [c \in Channels |-> [g \in Generations |-> 0]]

-----------------------------------------------------------------------------
(* The peers, and the relay.                                               *)

unread == <<active, lane, open, caller, session, pending, taken>>

\* The first message on the control channel is the peer's hello; it sends
\* input in a session only.
PeerSends(c, inSession) ==
  /\ present /\ stream[c][peers].sent < MaxMessages
  /\ c = "input" => inSession
  /\ stream' = [stream EXCEPT ![c][peers].sent = @ + 1]
  /\ UNCHANGED <<peers, present, unread>>

\* The relay ends the streams of a peer that is gone or replaced.
PeerLeaves == present /\ present' = FALSE /\ UNCHANGED <<peers, stream, unread>>

PeerJoins ==
  /\ peers < MaxPeers
  /\ peers' = peers + 1 /\ present' = TRUE
  /\ UNCHANGED <<stream, unread>>

-----------------------------------------------------------------------------
(* read_reliable_stream                                                    *)

reader == <<peers, present, open, caller, session, pending, taken>>

ReadHeader(c, g) ==
  /\ stream[c][g].sent > 0 /\ ~stream[c][g].header
  /\ stream' = [stream EXCEPT ![c][g].header = TRUE]
  /\ active' = IF g > active THEN g ELSE active
  /\ UNCHANGED <<lane, reader>>

ReadMessage(c, g) ==
  /\ stream[c][g].header /\ stream[c][g].read < stream[c][g].sent
  /\ Len(lane[c]) < Capacity
  /\ stream' = [stream EXCEPT ![c][g].read = @ + 1]
  /\ lane' = [lane EXCEPT ![c] = Append(@, Event(g, stream[c][g].read + 1))]
  /\ UNCHANGED <<active, reader>>

ReadEnd(c, g) ==
  /\ stream[c][g].header /\ ~stream[c][g].over /\ stream[c][g].read = stream[c][g].sent
  /\ g < peers \/ (g = peers /\ ~present)
  /\ Len(lane[c]) < Capacity
  /\ stream' = [stream EXCEPT ![c][g].over = TRUE]
  /\ lane' = [lane EXCEPT ![c] = Append(@, Event(g, Bye))]
  /\ UNCHANGED <<active, reader>>

Reads(c, g) == ReadHeader(c, g) \/ ReadMessage(c, g) \/ ReadEnd(c, g)

-----------------------------------------------------------------------------

\* receive_current_inbound, try_recv_lane: what is left once the events of other
\* generations at the front are thrown away.
Fresh(q) ==
  LET current == {i \in DOMAIN q : q[i].generation = active}
  IN IF current = {} THEN <<>> ELSE SubSeq(q, CHOOSE i \in current : \A j \in current : i <= j, Len(q))

Takes(e, c) == taken' = [taken EXCEPT ![c][e.generation] = e.message]

-----------------------------------------------------------------------------
(* next_event and settle_peer_event                                        *)

idle == <<peers, present, stream, active, session, pending>>

\* An event is handed over, but a disconnect waits for a replacement.
Settles(c, e, selected) ==
  IF e.message = Bye
  THEN caller' = [at |-> "settle", channel |-> c, event |-> e, selected |-> selected]
       /\ UNCHANGED taken
  ELSE caller' = Calling /\ Takes(e, c)

\* try_recv_lane in the round over the lanes, or the select! after it.
TakeEvent(c) ==
  /\ caller.at \in {"call", "wait"} /\ open[c]
  /\ Fresh(lane[c]) # <<>>
  /\ lane' = [lane EXCEPT ![c] = Tail(Fresh(lane[c]))]
  /\ Settles(c, Head(Fresh(lane[c])), caller.at = "wait")
  /\ UNCHANGED <<idle, open>>

\* No lane has an event of the active peer.
Waits ==
  /\ caller.at \in {"call", "wait"}
  /\ \A c \in Channels : open[c] => Fresh(lane[c]) = <<>>
  /\ lane' = [c \in Channels |-> IF open[c] THEN <<>> ELSE lane[c]]
  /\ caller' = [caller EXCEPT !.at = "wait"]
  /\ UNCHANGED <<idle, open, taken>>

\* A newer peer has been heard of.  The round goes on with the next lane; the
\* select! takes it for the end of the lane (close_lane).
Superseded ==
  /\ caller.at = "settle" /\ active > caller.event.generation
  /\ \E at \in IF caller.selected THEN {"call"} ELSE {"call", "wait"} :
       caller' = [Calling EXCEPT !.at = at]
  /\ open' = [open EXCEPT ![caller.channel] = ~caller.selected]
  /\ UNCHANGED <<idle, lane, taken>>

\* PEER_REPLACEMENT_GRACE is over: the caller is told, and drops the client.
GraceEnds ==
  /\ caller.at = "settle"
  /\ caller' = [caller EXCEPT !.at = "told"]
  /\ UNCHANGED <<idle, lane, open, taken>>

\* Another branch of the caller's own select! is taken, the call is dropped and
\* made again.
Dropped ==
  /\ caller.at \in {"wait", "settle"}
  /\ caller' = Calling
  /\ UNCHANGED <<idle, lane, open, taken>>

Peer(inSession) == PeerLeaves \/ PeerJoins \/ \E c \in Channels : PeerSends(c, inSession)
Reader == \E c \in Channels, g \in Generations : Reads(c, g)
NextEvent == Waits \/ Superseded \/ GraceEnds \/ \E c \in Channels : TakeEvent(c)

ReaderFair == \A c \in Channels, g \in Generations : WF_vars(Reads(c, g))

EventNext == Peer(TRUE) \/ Reader \/ NextEvent
EventFairness == ReaderFair /\ WF_vars(NextEvent)
EventSpec == Init /\ [][EventNext]_vars /\ EventFairness

DropNext == EventNext \/ Dropped
DropSpec == Init /\ [][DropNext]_vars /\ EventFairness

-----------------------------------------------------------------------------
(* A durable host: next_initiator_hello, then a session that is bound to   *)
(* the generation of the hello.                                            *)

host == <<peers, present, stream, active, open, caller>>

\* next_current_control_event: the preserved event, if its peer is still the
\* active one, or the lane's.
FromPending == pending # NoEvent /\ pending.generation = active
ControlLane == IF FromPending THEN <<pending>> \o lane["control"] ELSE Fresh(lane["control"])

TakeControl ==
  /\ ControlLane # <<>>
  /\ lane' = [lane EXCEPT !["control"] = Tail(ControlLane)]
  /\ UNCHANGED host

\* A hello starts a session; a disconnect rearms, and what is left of an older
\* session is skipped.
Hears(e) ==
  /\ pending' = NoEvent
  /\ IF e.message = 1
     THEN session' = e.generation /\ Takes(e, "control")
     ELSE UNCHANGED <<session, taken>>

Listen == session = 0 /\ TakeControl /\ Hears(Head(ControlLane))

\* Fault: the event of the new peer is used up.
BoundControlLosing(e) ==
  /\ pending' = NoEvent
  /\ IF e.generation = session /\ e.message # Bye
     THEN Takes(e, "control") /\ UNCHANGED session
     ELSE session' = 0 /\ UNCHANGED taken

\* Fault: any peer's messages are taken.
BoundControlAny(e) ==
  /\ pending' = NoEvent
  /\ IF e.message # Bye
     THEN Takes(e, "control") /\ UNCHANGED session
     ELSE session' = 0 /\ UNCHANGED taken

\* next_control_for_generation: "the newer event is preserved for the next host
\* runtime".
BoundControl(e) ==
  /\ pending' = IF e.generation > session THEN e ELSE NoEvent
  /\ IF e.generation = session /\ e.message # Bye
     THEN Takes(e, "control") /\ UNCHANGED session
     ELSE session' = 0 /\ UNCHANGED taken

ReceiveControl == session # 0 /\ TakeControl /\ BoundControl(Head(ControlLane))

\* next_input_for_generation
ReceiveInput ==
  /\ session # 0 /\ Fresh(lane["input"]) # <<>>
  /\ LET e == Head(Fresh(lane["input"])) IN
     IF e.generation = session /\ e.message # Bye
     THEN Takes(e, "input") /\ UNCHANGED session
     ELSE session' = 0 /\ UNCHANGED taken
  /\ lane' = [lane EXCEPT !["input"] = Tail(Fresh(lane["input"]))]
  /\ UNCHANGED <<host, pending>>

\* A session may fail for a reason of its own (host_error_rearms_on_connected_relay).
SessionFails == session # 0 /\ session' = 0 /\ UNCHANGED <<receiving, open, caller, pending, taken>>

\* What waits on a lane throws stale events away as they come in.
Discards(c) ==
  /\ c = "input" => session # 0
  /\ lane[c] # <<>> /\ Fresh(lane[c]) = <<>> /\ (c = "control" => ~FromPending)
  /\ lane' = [lane EXCEPT ![c] = <<>>]
  /\ UNCHANGED <<host, session, pending, taken>>

HostReceives == Listen \/ ReceiveControl \/ ReceiveInput \/ \E c \in Channels : Discards(c)
HostNext == Peer(session = peers) \/ Reader \/ HostReceives \/ SessionFails
HostFairness ==
  /\ ReaderFair /\ WF_vars(Listen) /\ WF_vars(ReceiveControl) /\ WF_vars(ReceiveInput)
  /\ \A c \in Channels : WF_vars(Discards(c))
HostSpec == Init /\ [][HostNext]_vars /\ HostFairness

-----------------------------------------------------------------------------
TypeOK ==
  /\ active \in 0..MaxPeers
  /\ \A c \in Channels : Len(lane[c]) <= Capacity
  /\ session \in 0..MaxPeers
  /\ caller.at \in {"call", "wait", "settle", "told"}

\* What the application gets of a stream is a prefix of what was sent on it:
\* messages are thrown away only once a newer peer has been heard of, and then
\* all that follow.
KeepsOrder ==
  \A c \in Channels, g \in Generations :
    taken'[c][g] # taken[c][g] => taken'[c][g] = taken[c][g] + 1

\* Nor does it get anything of a peer, its disconnect included, once it has got
\* something of a later one, on whichever lane.
Heard(g) == \E c \in Channels : taken[c][g] > 0

KeepsPeers ==
  \A g \in Generations, h \in Generations :
    g < h /\ Heard(h) =>
      /\ \A c \in Channels : taken'[c][g] = taken[c][g]
      /\ ~(caller'.at = "told" /\ caller.at # "told" /\ caller.event.generation = g)

\* "This does not hide a real disconnect indefinitely: after the grace window the
\* original event is delivered unchanged."  While its lanes are open, next_event
\* tells of a peer that is gone for good.
DisconnectTold ==
  (/\ [](\A c \in Channels : open[c])
   /\ <>[](~present /\ stream["control"][peers].sent > 0)) => <>(caller.at = "told")

\* "the old stream's disconnect must not terminate the replacement handshake":
\* the hello of a peer that stays reaches the caller of next_event.
ReplacementHeard ==
  \A g \in Generations :
    (peers = g /\ present /\ stream["control"][g].sent > 0)
      ~> (taken["control"][g] > 0 \/ peers # g \/ ~present \/ caller.at = "told")

\* A host's session gets nothing that another peer sent ("bind a Noise session to
\* exactly one controller connection").
StaysBound ==
  \A c \in Channels, g \in Generations :
    taken'[c][g] # taken[c][g] => g \in {session, session'}

\* A later session is one with a later peer.
Ascends == session' # session /\ session' # 0 => \A g \in session'..MaxPeers : ~Heard(g)

\* No hello is lost: the last peer's starts a session, though it may have come
\* in while the session of an earlier one was reading, or ahead of what that
\* earlier one had sent.
HelloHeard ==
  \A g \in Generations :
    (peers = g /\ present /\ stream["control"][g].sent > 0) ~> (taken["control"][g] > 0 \/ peers # g \/ ~present)

\* And the session with a peer that is gone ends.
SessionEnds ==
  \A g \in Generations : (session = g /\ (peers # g \/ ~present)) ~> session # g
=============================================================================
