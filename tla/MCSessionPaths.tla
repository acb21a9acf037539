---------------------------- MODULE MCSessionPaths ---------------------------
(***************************************************************************)
(* The paths of a session on small instances: a lane that moves between    *)
(* relay and LAN, the agreement on a LAN connection, the direct path for   *)
(* video of older peers, and a participant on the relay, as next_event     *)
(* serves a controller and as a durable host reads its lanes. The          *)
(* components share no state: a behaviour is of one of them, chosen at its *)
(* beginning, with the others at rest.                                     *)
(***************************************************************************)
EXTENDS SessionDataPlane

CONSTANTS
  ClientPeers,                   \* peers on the relay, one after the other
  ClientMessages, HostMessages,  \* what a peer sends to next_event, and to a host
  ClientLane                     \* places of a lane

ASSUME PathsBounds == ClientPeers \in Nat \ {0}

VARIABLES
  component,  \* the one this behaviour is of
  control, expired, ended, probe, accepted, up, connection, parked, failed,
  pending, stage, attached,
  directWire, conn, machine, controller, session, directDirect, slot,
  enabled, task, plane, generation,
  peers, present, stream, active, lane, clientOpen, caller, clientSession,
  clientPending, clientTaken

Switch == INSTANCE LanSwitch
Direct == INSTANCE DirectVideoPath WITH
  wire <- directWire, direct <- directDirect
Client == INSTANCE RelayClient WITH
  MaxPeers <- ClientPeers, MaxMessages <- ClientMessages, Capacity <- ClientLane,
  open <- clientOpen, session <- clientSession, pending <- clientPending,
  taken <- clientTaken
Durable == INSTANCE RelayClient WITH
  MaxPeers <- ClientPeers, MaxMessages <- HostMessages, Capacity <- ClientLane,
  open <- clientOpen, session <- clientSession, pending <- clientPending,
  taken <- clientTaken

switchVars == <<control, expired, ended, probe, accepted, up, connection,
                parked, failed, pending, stage, attached>>
directVars == <<directWire, conn, machine, controller, session, directDirect,
                slot, enabled, task, plane, generation>>
clientVars == <<peers, present, stream, active, lane, clientOpen, caller,
                clientSession, clientPending, clientTaken>>

parts == <<component, vars, switchVars, directVars, clientVars>>

PathsInit ==
  /\ component \in {"lane", "switch", "direct", "client", "host"}
  /\ Init /\ Switch!Init /\ Direct!Init /\ Client!Init
  /\ component # "direct" => session = [e \in Direct!Conns |-> TRUE]

PathsNext ==
  \/ /\ component = "lane" /\ Next
     /\ UNCHANGED <<switchVars, directVars, clientVars, component>>
  \/ /\ component = "switch" /\ Switch!Next
     /\ UNCHANGED <<vars, directVars, clientVars, component>>
  \/ /\ component = "direct" /\ Direct!Next
     /\ UNCHANGED <<vars, switchVars, clientVars, component>>
  \/ /\ component = "client" /\ Client!EventNext
     /\ UNCHANGED <<vars, switchVars, directVars, component>>
  \/ /\ component = "host" /\ Durable!HostNext
     /\ UNCHANGED <<vars, switchVars, directVars, component>>

PathsSpec == PathsInit /\ [][PathsNext]_parts

-----------------------------------------------------------------------------
\* A LAN connection is used by both ends or by none, and a probe that was given
\* up changes nothing.
SwitchIsAgreed == Switch!AttachNeedsBoth /\ Switch!RetiredProbeIsHarmless

\* Video goes by the path of the slot, no path is left behind by a listener that
\* ended, and a controller on the direct path has one.
SlotIsTruth == Direct!PlaneFollowsSlot /\ Direct!NothingAfterStop /\ Direct!DirectHasPath

\* A late failure of a path leaves a newer one alone.
LateFailureHarmless == Direct!LateFailureHarmless

\* Events of the peers, one after the other, keep their order; a host's session
\* is with one peer, and the next with a later one.
PeersKeptApart ==
  [][/\ component = "client" => Client!KeepsOrder /\ Client!KeepsPeers
     /\ component = "host" => Durable!KeepsOrder /\ Durable!StaysBound /\ Durable!Ascends]_parts
==============================================================================
