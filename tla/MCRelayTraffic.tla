---------------------------- MODULE MCRelayTraffic ---------------------------
(***************************************************************************)
(* What the relay does for its connections beside their sessions, on small *)
(* instances: the lookups of the directory, the forwarding of reliable     *)
(* streams, and the media datagrams. A behaviour is of one of them, chosen *)
(* at its beginning, with the others at rest.                              *)
(***************************************************************************)
EXTENDS DirectoryLookup

CONSTANTS
  Conn, Pair, Source, Sender, Session, Stream, Streams, NoConn, NoPlace, Anyone, SomeKey,
  MaxStreams, MaxMessages, PairMessages,   \* streams of a connection, messages of a stream
  Channel, QueueLimit, MaxDatagrams, BurstDatagrams

Limits == [channel \in Channel |-> QueueLimit]

VARIABLES
  component,  \* the one this behaviour is of
  holder, listed, closed, fresh, leaving, place, task, stream, wire, paired,
  mediaHolder, mediaListed, mediaClosed, mediaFresh, mediaLeaving, mediaPlace, mediaTask,
  ingress, queue, hand, arrived, sent, mediaPaired

Forwarding == INSTANCE RelayForwarding_proofs
Media == INSTANCE RelayDatagrams_proofs WITH
  Capacity <- Limits, holder <- mediaHolder, listed <- mediaListed,
  closed <- mediaClosed, fresh <- mediaFresh, leaving <- mediaLeaving,
  place <- mediaPlace, task <- mediaTask, paired <- mediaPaired
Paired == INSTANCE RelayForwarding_proofs WITH
  Conn <- Pair, Stream <- Streams, MaxMessages <- PairMessages
Burst == INSTANCE RelayDatagrams_proofs WITH
  Conn <- Pair, Source <- Sender, Capacity <- Limits, MaxDatagrams <- BurstDatagrams,
  holder <- mediaHolder, listed <- mediaListed, closed <- mediaClosed,
  fresh <- mediaFresh, leaving <- mediaLeaving, place <- mediaPlace, task <- mediaTask,
  paired <- mediaPaired

forwardingVars == <<holder, listed, closed, fresh, leaving, place, task, stream, wire,
                    paired>>
mediaVars == <<mediaHolder, mediaListed, mediaClosed, mediaFresh, mediaLeaving,
               mediaPlace, mediaTask, ingress, queue, hand, arrived, sent, mediaPaired>>

parts == <<component, vars, forwardingVars, mediaVars>>

TrafficInit ==
  /\ component \in {"directory", "forwarding", "media", "pair", "burst"}
  /\ Init
  /\ IF component = "pair" THEN Paired!Init ELSE Forwarding!Init
  /\ IF component = "burst" THEN Burst!Init ELSE Media!Init
  /\ component # "directory" => \A l \in Lookup : key[l] = SomeKey

TrafficNext ==
  \/ /\ component = "directory" /\ Next
     /\ UNCHANGED <<forwardingVars, mediaVars, component>>
  \/ /\ component = "forwarding" /\ Forwarding!Next
     /\ UNCHANGED <<vars, mediaVars, component>>
  \/ /\ component = "media" /\ Media!Next
     /\ UNCHANGED <<vars, forwardingVars, component>>
  \/ /\ component = "pair" /\ Paired!Next
     /\ UNCHANGED <<vars, mediaVars, component>>
  \/ /\ component = "burst" /\ Burst!Next
     /\ UNCHANGED <<vars, forwardingVars, component>>

TrafficSpec == TrafficInit /\ [][TrafficNext]_parts

\* Connections that never joined differ in their names only: in the run those of
\* the forwarding instances, and the receivers of the media one, join in one order.
JoinsInTurn ==
  /\ \A c \in fresh \ fresh' : c = CHOOSE d \in fresh : TRUE
  /\ component = "media" =>
       \A c \in (mediaFresh \ mediaFresh') \ Source : c = CHOOSE d \in mediaFresh \ Source : TRUE

InTurnSpec == TrafficInit /\ [][TrafficNext /\ JoinsInTurn]_parts

\* The instances are some of those the theorems are about.
ASSUME TrafficConstants ==
  /\ Forwarding!ForwardingConstants /\ Paired!ForwardingConstants
  /\ Media!DatagramConstants /\ Burst!DatagramConstants

-----------------------------------------------------------------------------
\* A reliable message reaches the peer it is for, a host's never a later one,
\* each once and in order, and none by a task its connection has outlived.
ForwardedToPeer ==
  /\ component = "pair" =>
        Paired!TypeOK /\ Paired!NoOrphanForwarder /\ Paired!PairedDelivery
  /\ component = "forwarding" =>
        /\ Forwarding!TypeOK /\ Forwarding!AddressedDelivery /\ Forwarding!HostStreamBound
        /\ Forwarding!InOrderOnce /\ Forwarding!PairedDelivery /\ Forwarding!NoOrphanForwarder

\* A datagram reaches the peer it was bound to, in the order of its channel,
\* out of a queue within its budget.
DatagramsToPeer ==
  /\ component = "burst" =>
        Burst!TypeOK /\ Burst!LaneBudget /\ Burst!LaneOrder
  /\ component = "media" =>
        /\ Media!TypeOK /\ Media!NeverReaddressed /\ Media!QueuedForPeer
        /\ Media!LaneOrder /\ Media!LaneBudget
==============================================================================
