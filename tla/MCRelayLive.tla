----------------------------- MODULE MCRelayLive -----------------------------
(***************************************************************************)
(* What the relay must bring to an end, on small instances and under the   *)
(* fairness of its scheduling: connections that are displaced or shut      *)
(* down, reliable messages on their way, and queued datagrams. A behaviour *)
(* is of one of them, chosen at its beginning, with the others at rest.    *)
(***************************************************************************)
EXTENDS RelayMembership

CONSTANTS Pair, Source, Stream, NoPlace, Anyone

VARIABLES
  component,  \* the one this behaviour is of
  holder, listed, forwardingClosed, fresh, leaving, place, task, stream, wire,
  paired,
  mediaHolder, mediaListed, mediaClosed, mediaFresh, mediaLeaving, mediaPlace, mediaTask,
  ingress, queue, hand, arrived, sent, mediaPaired

Forwarding == INSTANCE RelayForwarding WITH
  Conn <- Pair, MaxStreams <- 1, MaxMessages <- 1, closed <- forwardingClosed
Media == INSTANCE RelayDatagrams WITH
  Conn <- Pair, Channel <- {"video"}, Capacity <- [channel \in {"video"} |-> 1],
  MaxDatagrams <- 2, holder <- mediaHolder, listed <- mediaListed,
  closed <- mediaClosed, fresh <- mediaFresh, leaving <- mediaLeaving,
  place <- mediaPlace, task <- mediaTask, paired <- mediaPaired

forwardingVars == <<holder, listed, forwardingClosed, fresh, leaving, place, task,
                    stream, wire, paired>>
mediaVars == <<mediaHolder, mediaListed, mediaClosed, mediaFresh, mediaLeaving,
               mediaPlace, mediaTask, ingress, queue, hand, arrived, sent, mediaPaired>>

parts == <<component, vars, forwardingVars, mediaVars>>

LiveInit ==
  /\ component \in {"membership", "forwarding", "media"}
  /\ Init /\ Forwarding!Init /\ Media!Init

LiveNext ==
  \/ /\ component = "membership" /\ Next
     /\ UNCHANGED <<forwardingVars, mediaVars, component>>
  \/ /\ component = "forwarding" /\ Forwarding!Next
     /\ UNCHANGED <<vars, mediaVars, component>>
  \/ /\ component = "media" /\ Media!Next
     /\ UNCHANGED <<vars, forwardingVars, component>>

LiveSpec == LiveInit /\ [][LiveNext]_parts

-----------------------------------------------------------------------------
\* A connection that was displaced is gone in the end.
DisplacedEnd == Fairness => DisplacedLeaves

\* A relay that stops drains.
StopEnds == Fairness => StopDrains

\* A reliable message is not retried for ever, and no datagram lingers.
TrafficSettles ==
  /\ Forwarding!Fairness => Forwarding!ForwardingSettles
  /\ Media!Fairness => Media!NothingLingers
==============================================================================
