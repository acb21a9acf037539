---------------------------- MODULE MCStreamsLive ----------------------------
(***************************************************************************)
(* What the streams of a session must come to, on small instances: a       *)
(* message that was sent, a switch to LAN, a direct path that failed, a    *)
(* peer that comes or goes, a video stream that lost a frame, and input    *)
(* that was suspended. A behaviour is of one component, chosen at its      *)
(* beginning, with the others at rest; the fairness of a component is the  *)
(* antecedent of what it must come to.                                     *)
(***************************************************************************)
EXTENDS VideoStream

VARIABLES
  component,  \* the one this behaviour is of
  route, relayUp, closed, op, fencing, given, writer, link, wire, open,
  direct, last, lan, receipts, allowed, admitted, fence, opened, delivered,
  taken,
  control, expired, ended, probe, accepted, up, connection, parked, failed,
  pending, stage, attached,
  directWire, conn, machine, controller, session, directDirect, slot,
  enabled, task, plane, generation,
  os, blocked, selected, suspended, pressed, down, fresh, media, worker,
  inputControl, stream, viewer, inputWire, used,
  mediaQueue, work, capture, mediaWanted, rate, selecting, told, asked,
  missed, messages,
  peers, present, relayStream, active, lane, relayOpen, caller,
  relaySession, relayPending, relayTaken

Lane == INSTANCE SessionDataPlane WITH
  MaxMessages <- 2, MaxGeneration <- 1, Capacity <- 1, Continuation <- TRUE
Switch == INSTANCE LanSwitch
Direct == INSTANCE DirectVideoPath WITH
  wire <- directWire, direct <- directDirect
Input == INSTANCE HostInput WITH
  Keys <- {1}, Displays <- {1, 2}, Layouts <- {1}, MaxChanges <- 1, MaxSelections <- 1,
  MaxInputs <- 1, MaxBlocks <- 1, control <- inputControl, wire <- inputWire
Media == INSTANCE MediaConfiguration WITH
  MaxSerial <- 15, Displays <- {"d1", "d2"}, Messages <- 2, queue <- mediaQueue,
  wanted <- mediaWanted
Relay == INSTANCE RelayClient WITH
  MaxPeers <- 2, MaxMessages <- 1, Capacity <- 2, stream <- relayStream,
  open <- relayOpen, session <- relaySession, pending <- relayPending,
  taken <- relayTaken
Moved == INSTANCE VideoStream WITH MaxChanges <- 0, MaxSwitches <- 1, MaxCongestions <- 1

laneVars == <<route, relayUp, closed, op, fencing, given, writer, link, wire,
              open, direct, last, lan, receipts, allowed, admitted, fence,
              opened, delivered, taken>>
switchVars == <<control, expired, ended, probe, accepted, up, connection,
                parked, failed, pending, stage, attached>>
directVars == <<directWire, conn, machine, controller, session, directDirect,
                slot, enabled, task, plane, generation>>
inputVars == <<os, blocked, selected, suspended, pressed, down, fresh, media,
               worker, inputControl, stream, viewer, inputWire, used>>
mediaVars == <<mediaQueue, work, capture, mediaWanted, rate, selecting, told,
               asked, missed, messages>>
relayVars == <<peers, present, relayStream, active, lane, relayOpen, caller,
               relaySession, relayPending, relayTaken>>

parts == <<component, vars, laneVars, switchVars, directVars, inputVars,
                      mediaVars, relayVars>>

LiveInit ==
  /\ component \in {"video", "lane", "switch", "direct", "input", "media",
                    "relay", "moved"}
  /\ Lane!Init /\ Switch!Init /\ Direct!Init /\ Input!Init /\ Media!Init /\ Relay!Init
  /\ IF component = "moved" THEN Moved!Init ELSE Init
  /\ component \notin {"video", "moved"} => ~isDirect
  /\ component # "direct" => session = [e \in Direct!Conns |-> TRUE]
  /\ component # "media" => mediaQueue.serial = 0 /\ capture = CHOOSE c \in Media!Captures : TRUE

LiveNext ==
  \/ /\ component = "video" /\ Next
     /\ UNCHANGED <<laneVars, switchVars, directVars, inputVars, mediaVars,
                    relayVars, component>>
  \/ /\ component = "lane" /\ Lane!Next
     /\ UNCHANGED <<vars, switchVars, directVars, inputVars, mediaVars,
                    relayVars, component>>
  \/ /\ component = "switch" /\ Switch!Next
     /\ UNCHANGED <<vars, laneVars, directVars, inputVars, mediaVars,
                    relayVars, component>>
  \/ /\ component = "direct" /\ Direct!Next
     /\ UNCHANGED <<vars, laneVars, switchVars, inputVars, mediaVars,
                    relayVars, component>>
  \/ /\ component = "input" /\ Input!Next
     /\ UNCHANGED <<vars, laneVars, switchVars, directVars, mediaVars,
                    relayVars, component>>
  \/ /\ component = "media" /\ Media!Next
     /\ UNCHANGED <<vars, laneVars, switchVars, directVars, inputVars,
                    relayVars, component>>
  \/ /\ component = "relay" /\ Relay!HostNext
     /\ UNCHANGED <<vars, laneVars, switchVars, directVars, inputVars,
                    mediaVars, component>>
  \/ /\ component = "moved" /\ Moved!Next
     /\ UNCHANGED <<laneVars, switchVars, directVars, inputVars, mediaVars,
                    relayVars, component>>

LiveSpec == LiveInit /\ [][LiveNext]_parts

-----------------------------------------------------------------------------
\* A message its caller was told is sent arrives, while the relay is up.
SentArrives == Lane!Fairness => Lane!SentArrives

\* A host that switched is followed, and a direct path that failed is given up.
PathsSettle ==
  /\ Switch!Fairness => Switch!ControllerFollows
  /\ Direct!Fairness => Direct!FallsBack

\* No request for a keyframe is in vain.
VideoRecovers == Fairness => Recovers

\* The hello of a peer that stays is heard, and the session with one that is gone
\* ends.
PeersAreServed == Relay!HostFairness => Relay!HelloHeard /\ Relay!SessionEnds

\* Input is let in again: the injector's gate opens, and so does the one of a
\* selection that is on its way.
InputReopens ==
  /\ Input!Fairness => Input!InputReopens
  /\ Media!Fairness => Media!GateOpens
==============================================================================
