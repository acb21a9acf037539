--------------------------- MODULE DirectVideoPath --------------------------
(***************************************************************************)
(* The direct path for video of a session without a LAN agreement          *)
(* (video_path.rs, direct_path_slot.rs and their use by the two runtimes). *)
(* Host and controller each offer a candidate over the relay.  The host    *)
(* dials the controller's candidate, the controller dials the host's, and  *)
(* each accepts the other's probe: two connections may come up, in any     *)
(* order, and one is used.  The session's end is left out, and a candidate *)
(* may have expired whenever it is validated.                              *)
(***************************************************************************)
EXTENDS Naturals, Sequences

\* The connections, by the end that accepts them.
Conns == {"controller", "host"}
None == "none"
Other(e) == IF e = "host" THEN "controller" ELSE "host"

VARIABLES
  wire,       \* per end, the control messages on their way to it
  conn,       \* per connection and end: none, dialing, open, closed
  machine,    \* the controller's DirectVideoPathMachine
  controller, \* what the controller is doing: loop, accepting, connecting
  session,    \* per end, it has a DirectLanSession
  direct,     \* the controller's direct_connection
  slot,       \* the host's direct_connection
  enabled,    \* the host's direct_enabled
  task,       \* the host's accept loop and its probe task
  plane,      \* the host's data plane: its path
  generation  \* and its last_generation

vars == <<wire, conn, machine, controller, session, direct, slot, enabled,
          task, plane, generation>>

hostVars == <<slot, enabled, task, plane, generation>>
controllerVars == <<machine, controller, direct>>

Idle == [pc |-> "idle", conn |-> None, id |-> 0]
Offer == [kind |-> "offer", accepted |-> TRUE]
AnswerOf(accepted) == [kind |-> "answer", accepted |-> accepted]

Init ==
  /\ session \in [Conns -> BOOLEAN]
  /\ wire = [e \in Conns |-> IF session[Other(e)] THEN <<Offer>> ELSE <<>>]
  /\ machine = IF session["controller"] THEN "offering" ELSE "relay"
  /\ conn = [c \in Conns |-> [e \in Conns |-> "none"]]
  /\ controller = "loop" /\ direct = None
  /\ slot = None /\ enabled = TRUE /\ plane = None /\ generation = 0
  /\ task = [p \in {"accept", "probe"} |-> Idle]

Open(c, e) == c # None => conn[c][e] = "open"
Put(s, c, e, status) == IF c = None THEN s ELSE [s EXCEPT ![c][e] = status]

-----------------------------------------------------------------------------
(* The connections.                                                        *)

\* The other end's close, or the loss of the network, is noticed.
Closes(c, e) ==
  /\ conn[c][e] = "open"
  /\ conn' = [conn EXCEPT ![c][e] = "closed"]
  /\ UNCHANGED <<wire, session, hostVars, controllerVars>>

Dialed(c, e) == conn[c][Other(e)] = "dialing" /\ conn[c][e] = "none"

-----------------------------------------------------------------------------
(* The controller.  UseRelay closes the path that is in use.              *)

Looping == controller = "loop"

UseRelay == /\ machine' = "relay" /\ direct' = None

\* next_transport_event accepts only while it has no path.  A probe that
\* succeeds counts for the machine only while it is probing.
Activated(c) ==
  /\ direct' = c
  /\ machine' = IF machine = "probing" THEN "direct" ELSE machine
  /\ controller' = "loop"

AcceptInbound ==
  /\ Looping /\ direct = None /\ session["controller"]
  /\ Dialed("controller", "controller")
  /\ conn' = [conn EXCEPT !["controller"]["controller"] = "open"]
  /\ Activated("controller")
  /\ UNCHANGED <<wire, session, hostVars>>

\* The offer of the host: probing from any state.
ControllerOffer(valid) ==
  /\ Looping /\ wire["controller"] # <<>> /\ Head(wire["controller"]).kind = "offer"
  /\ LET accepted == valid /\ session["controller"] IN
     /\ wire' = [wire EXCEPT !["controller"] = Tail(@),
                             !["host"] = Append(@, AnswerOf(accepted))]
     /\ IF accepted THEN /\ machine' = "probing" /\ controller' = "accepting"
                    ELSE UNCHANGED <<machine, controller>>
  /\ UNCHANGED <<conn, session, direct, hostVars>>

ControllerAnswer(valid) ==
  /\ Looping /\ wire["controller"] # <<>> /\ Head(wire["controller"]).kind = "answer"
  /\ wire' = [wire EXCEPT !["controller"] = Tail(@)]
  /\ IF machine # "offering"
     THEN UNCHANGED <<conn, controllerVars>>
     ELSE IF Head(wire["controller"]).accepted /\ valid
     THEN /\ machine' = "probing"
          /\ controller' = "accepting"
          /\ UNCHANGED <<conn, direct>>
     ELSE /\ conn' = Put(conn, direct, "controller", "closed")
          /\ UseRelay /\ UNCHANGED controller
  /\ UNCHANGED <<session, hostVars>>

\* connect_or_accept_direct: a probe that comes in first is taken.
AcceptWhileProbing ==
  /\ controller = "accepting" /\ session["controller"]
  /\ Dialed("controller", "controller")
  /\ conn' = [Put(conn, direct, "controller", "closed")
                EXCEPT !["controller"]["controller"] = "open"]
  /\ Activated("controller")
  /\ UNCHANGED <<wire, session, hostVars>>

Connect ==
  /\ controller = "accepting" /\ session["controller"]
  /\ conn["host"]["controller"] = "none"
  /\ controller' = "connecting"
  /\ conn' = [conn EXCEPT !["host"]["controller"] = "dialing"]
  /\ UNCHANGED <<wire, session, machine, direct, hostVars>>

\* The path in use, if there is one, is dropped for the new one.
Connected ==
  /\ controller = "connecting" /\ conn["host"]["host"] \in {"open", "closed"}
  /\ conn' = [Put(conn, direct, "controller", "closed") EXCEPT !["host"]["controller"] = "open"]
  /\ Activated("host")
  /\ UNCHANGED <<wire, session, hostVars>>

ProbeFails ==
  /\ controller \in {"accepting", "connecting"}
  /\ conn' = Put(IF controller = "accepting" THEN conn
                 ELSE Put(conn, "host", "controller", "closed"),
                 direct, "controller", "closed")
  /\ UseRelay /\ controller' = "loop"
  /\ UNCHANGED <<wire, session, hostVars>>

\* Fault: the path is kept.
DirectFailsKept ==
  /\ Looping /\ direct # None /\ ~Open(direct, "controller")
  /\ machine' = "relay"
  /\ UNCHANGED <<wire, conn, session, direct, controller, hostVars>>

DirectFails ==
  /\ Looping /\ direct # None /\ ~Open(direct, "controller")
  /\ UseRelay
  /\ UNCHANGED <<wire, conn, session, controller, hostVars>>

\* DIRECT_VIDEO_SILENCE_TIMEOUT
Silence ==
  /\ Looping /\ direct # None
  /\ conn' = Put(conn, direct, "controller", "closed")
  /\ direct' = None
  /\ machine' = IF machine = "direct" THEN "relay" ELSE machine
  /\ UNCHANGED <<wire, session, controller, hostVars>>

ControllerListenerEnds ==
  /\ Looping /\ direct = None /\ session["controller"]
  /\ session' = [session EXCEPT !["controller"] = FALSE]
  /\ UNCHANGED <<wire, conn, hostVars, controllerVars>>

-----------------------------------------------------------------------------
(* The host.                                                               *)

HostOffer(valid) ==
  LET accepted == valid /\ session["host"] /\ (slot = None \/ ~Open(slot, "host")) IN
  /\ task["accept"].pc = "idle" /\ wire["host"] # <<>> /\ Head(wire["host"]).kind = "offer"
  /\ wire' = [wire EXCEPT !["host"] = Tail(@), !["controller"] = Append(@, AnswerOf(accepted))]
  /\ IF accepted
     THEN /\ task' = [task EXCEPT !["probe"] = [pc |-> "dial", conn |-> "controller", id |-> 0]]
          /\ conn' = [conn EXCEPT !["controller"]["host"] = "dialing"]
     ELSE UNCHANGED <<task, conn>>
  /\ UNCHANGED <<session, slot, enabled, plane, generation, controllerVars>>

HostAnswer ==
  /\ task["accept"].pc = "idle" /\ wire["host"] # <<>> /\ Head(wire["host"]).kind = "answer"
  /\ wire' = [wire EXCEPT !["host"] = Tail(@)]
  /\ UNCHANGED <<conn, session, hostVars, controllerVars>>

HostAccepts ==
  /\ task["accept"].pc = "idle" /\ session["host"] /\ Dialed("host", "host")
  /\ conn' = [conn EXCEPT !["host"]["host"] = "open"]
  /\ task' = [task EXCEPT !["accept"] = [pc |-> "install", conn |-> "host", id |-> 0]]
  /\ UNCHANGED <<wire, session, slot, enabled, plane, generation, controllerVars>>

\* The probe of the controller's candidate.
ProbeEnds ==
  /\ task["probe"].pc = "dial"
  /\ \/ /\ conn["controller"]["controller"] \in {"open", "closed"}
        /\ conn' = [conn EXCEPT !["controller"]["host"] = "open"]
        /\ task' = [task EXCEPT !["probe"].pc = "install"]
     \/ /\ conn' = [conn EXCEPT !["controller"]["host"] = "closed"]
        /\ task' = [task EXCEPT !["probe"] = Idle]
  /\ UNCHANGED <<wire, session, slot, enabled, plane, generation, controllerVars>>

Over(p, c) ==
  /\ conn' = Put(conn, c, "host", "closed")
  /\ task' = [task EXCEPT ![p] = Idle]

\* Fault: the listener may have ended.
InstallStopped(p) ==
  LET c == task[p].conn IN
  /\ task[p].pc = "install"
  /\ IF Open(c, "host") /\ (slot = None \/ ~Open(slot, "host"))
     THEN slot' = c /\ task' = [task EXCEPT ![p].pc = "attach"] /\ UNCHANGED conn
     ELSE Over(p, c) /\ UNCHANGED slot
  /\ UNCHANGED <<wire, session, enabled, plane, generation, controllerVars>>

\* install: the first healthy path wins.
Install(p) ==
  LET c == task[p].conn IN
  /\ task[p].pc = "install"
  /\ IF enabled /\ Open(c, "host") /\ (slot = None \/ ~Open(slot, "host"))
     THEN slot' = c /\ task' = [task EXCEPT ![p].pc = "attach"] /\ UNCHANGED conn
     ELSE Over(p, c) /\ UNCHANGED slot
  /\ UNCHANGED <<wire, session, enabled, plane, generation, controllerVars>>

\* attach_legacy_video: the id is read before it is used.
ReadGeneration(p) ==
  /\ task[p].pc = "attach"
  /\ task' = [task EXCEPT ![p].pc = "register", ![p].id = generation + 1]
  /\ UNCHANGED <<wire, conn, session, slot, enabled, plane, generation, controllerVars>>

Register(p) ==
  LET c == task[p].conn IN
  /\ task[p].pc = "register"
  /\ IF task[p].id > generation /\ (plane = None \/ ~Open(plane, "host"))
     THEN /\ plane' = c /\ generation' = task[p].id
          /\ task' = [task EXCEPT ![p] = Idle]
          /\ UNCHANGED conn
     ELSE /\ conn' = Put(conn, c, "host", "closed")
          /\ task' = [task EXCEPT ![p].pc = "retire"]
          /\ UNCHANGED <<plane, generation>>
  /\ UNCHANGED <<wire, session, slot, enabled, controllerVars>>

\* Fault: whatever is in the slot.
RetireAny(p) ==
  /\ task[p].pc = "retire"
  /\ slot' = None
  /\ task' = [task EXCEPT ![p] = Idle]
  /\ UNCHANGED <<wire, conn, session, enabled, plane, generation, controllerVars>>

\* retire_if_current
Retire(p) ==
  /\ task[p].pc = "retire"
  /\ slot' = IF slot = task[p].conn THEN None ELSE slot
  /\ task' = [task EXCEPT ![p] = Idle]
  /\ UNCHANGED <<wire, conn, session, enabled, plane, generation, controllerVars>>

\* start_direct_close_observer
PlaneObserves ==
  /\ plane # None /\ ~Open(plane, "host")
  /\ plane' = None
  /\ UNCHANGED <<wire, conn, session, slot, enabled, task, generation, controllerVars>>

\* stop_direct_listener: the probe task is aborted at its next await, if it
\* has one left.
HostListenerEnds(aborted) ==
  LET c == task["probe"].conn
      stopped == Put(conn, slot, "host", "closed") IN
  /\ session["host"] /\ task["accept"].pc = "idle"
  /\ aborted => task["probe"].pc # "idle"
  /\ session' = [session EXCEPT !["host"] = FALSE]
  /\ enabled' = FALSE /\ slot' = None
  /\ conn' = IF aborted THEN Put(stopped, c, "host", "closed") ELSE stopped
  /\ task' = IF aborted THEN [task EXCEPT !["probe"] = Idle] ELSE task
  /\ UNCHANGED <<wire, plane, generation, controllerVars>>

-----------------------------------------------------------------------------
ControllerStep ==
  \/ AcceptInbound \/ AcceptWhileProbing \/ Connect \/ Connected \/ ProbeFails \/ DirectFails
  \/ \E valid \in BOOLEAN : ControllerOffer(valid) \/ ControllerAnswer(valid)

TaskStep(p) == Install(p) \/ ReadGeneration(p) \/ Register(p) \/ Retire(p)

Next ==
  \/ ControllerStep \/ Silence \/ ControllerListenerEnds
  \/ \E valid \in BOOLEAN : HostOffer(valid)
  \/ HostAnswer \/ HostAccepts \/ ProbeEnds
  \/ \E p \in {"accept", "probe"} : TaskStep(p)
  \/ PlaneObserves
  \/ \E aborted \in BOOLEAN : HostListenerEnds(aborted)
  \/ \E c \in Conns, e \in Conns : Closes(c, e)

Spec == Init /\ [][Next]_vars

\* The controller's loop, the host's tasks and its observer run, and a close
\* reaches the other end.
Fairness ==
  /\ WF_vars(ControllerStep) /\ WF_vars(ProbeEnds) /\ WF_vars(PlaneObserves)
  /\ \A p \in {"accept", "probe"} : WF_vars(TaskStep(p))
  /\ \A c \in Conns, e \in Conns :
       WF_vars(Closes(c, e) /\ conn[c][Other(e)] = "closed")

FairSpec == Spec /\ Fairness

-----------------------------------------------------------------------------
TypeOK ==
  /\ conn \in [Conns -> [Conns -> {"none", "dialing", "open", "closed"}]]
  /\ machine \in {"relay", "offering", "probing", "direct"}
  /\ controller \in {"loop", "accepting", "connecting"}
  /\ {direct, slot, plane} \subseteq Conns \union {None}
  /\ \A p \in {"accept", "probe"} :
       task[p].pc \in {"idle", "dial", "install", "attach", "register", "retire"}
  /\ generation \in 0..2

\* The path the data plane sends video on is the path in the slot, however
\* the accepted and the dialed connection come up and fail: the slot never
\* lets a second path in beside an open one (install).
PlaneFollowsSlot == plane # None /\ Open(plane, "host") => slot = plane

\* "Serializes with late successful probes": no probe that succeeds late
\* leaves a path behind when the listener has ended (stop_direct_listener).
NothingAfterStop == ~enabled => slot = None /\ (plane # None => ~Open(plane, "host"))

\* "A late failure cannot clear a newer winning path": an open path leaves the
\* slot only with the listener (install_host_legacy_connection).
LateFailureHarmless ==
  [][slot # None /\ conn[slot]["host"] = "open" /\ slot' # slot => ~enabled']_vars

\* The controller never takes itself to be on the direct path without one
\* (next_transport_event, apply_video_path_actions).
DirectHasPath == machine = "direct" => direct # None

\* A path that either end has closed is given up by both: the host's data
\* plane and the controller fall back to the relay.
FallsBack ==
  \A c \in Conns :
    (\E e \in Conns : conn[c][e] = "closed") ~> (direct # c /\ plane # c)

\* "First healthy active path wins, including when inbound and outbound probes
\* complete in the opposite order" (direct_path_slot.rs): a path that both ends
\* use is not given up for another.
FirstPathWins ==
  [][direct # None /\ direct = slot /\ (\A e \in Conns : conn[direct][e] = "open")
       => direct' \in {direct, None}]_vars
=============================================================================
