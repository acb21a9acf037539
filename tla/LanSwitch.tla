------------------------------ MODULE LanSwitch ------------------------------
(***************************************************************************)
(* How the two ends of a session agree to use a LAN connection.  The host  *)
(* publishes one candidate; the controller probes it; the host, once it    *)
(* has accepted a probe, offers the switch, and Offer, Ready and Commit    *)
(* travel on the ordered control lane.  Each end validates the candidate,  *)
(* which expires, at every step; an error ends its session.                *)
(***************************************************************************)
EXTENDS Naturals, Sequences

Host == "host"
Controller == "controller"
Ends == {Host, Controller}

VARIABLES
  control,   \* per end, the control messages under way to it
  expired,   \* the candidate's lifetime is over
  ended,     \* per end, its session ended with an error
  probe,     \* the controller's probe: "none", "running", "answered", "over"
  accepted,  \* the host's accept loop has a connection to report
  up,        \* the ends that hold the probed connection open
  connection,\* the controller holds a probed connection
  parked,    \* an Offer waits for the controller's probe
  failed,    \* failed_candidate names the candidate
  pending,   \* the host holds the connection it offered
  stage,     \* per end, the stage of its LanSwitchNegotiator
  attached   \* per end, the connection was given to the data plane

probing == <<probe, accepted, up, connection, parked, failed>>
vars == <<control, expired, ended, probing, pending, stage, attached>>

Init ==
  /\ control = [e \in Ends |-> IF e = Controller THEN <<"candidate">> ELSE <<>>]
  /\ expired = FALSE
  /\ ended = [e \in Ends |-> FALSE]
  /\ probe = "none" /\ accepted = FALSE /\ up = {}
  /\ connection = FALSE /\ parked = FALSE /\ failed = FALSE /\ pending = FALSE
  /\ stage = [e \in Ends |-> "none"]
  /\ attached = [e \in Ends |-> FALSE]

Send(to, m) == control' = [control EXCEPT ![to] = Append(@, m)]
Receive(e, m) ==
  /\ ~ended[e] /\ control[e] # <<>> /\ Head(control[e]) = m
  /\ control' = [control EXCEPT ![e] = Tail(@)]

\* An error of a handler ends the session; dropping what the end holds closes
\* its side of the connection.
EndSession(e) ==
  /\ ended' = [ended EXCEPT ![e] = TRUE]
  /\ up' = up \ {e}

Expire ==
  /\ ~expired
  /\ expired' = TRUE
  /\ UNCHANGED <<control, ended, probing, pending, stage, attached>>

-----------------------------------------------------------------------------
(* The probe.                                                              *)

\* A late candidate, or one that cannot be bound, is given up for good.
CandidateArrives ==
  /\ Receive(Controller, "candidate")
  /\ \/ ~expired /\ probe' = "running" /\ UNCHANGED failed
     \/ failed' = TRUE /\ UNCHANGED probe
  /\ UNCHANGED <<expired, ended, accepted, up, connection, parked, pending,
                 stage, attached>>

Probing == probe \in {"running", "answered"}

\* The connection is up and authenticated; each end learns it by itself.
ProbeConnects ==
  /\ probe = "running" /\ ~expired /\ ~ended[Host] /\ ~ended[Controller]
  /\ probe' = "answered"
  /\ up' = Ends
  /\ accepted' = TRUE
  /\ UNCHANGED <<control, expired, ended, connection, parked, failed,
                 pending, stage, attached>>

\* Four seconds passed, or an error; the host may have accepted all the same.
ProbeFails ==
  /\ Probing /\ ~ended[Controller]
  /\ probe' = "over"
  /\ parked' = FALSE
  /\ failed' = TRUE
  /\ up' = up \ {Controller}
  /\ UNCHANGED <<control, expired, ended, accepted, connection, pending, stage,
                 attached>>

LoseConnection(e) ==
  /\ e \in up
  /\ up' = up \ {e}
  /\ UNCHANGED <<control, expired, ended, probe, accepted, connection, parked,
                 failed, pending, stage, attached>>

-----------------------------------------------------------------------------
(* The switch.                                                             *)

\* HostLanSwitch::probed
HostOffers ==
  /\ accepted /\ ~ended[Host]
  /\ accepted' = FALSE
  /\ IF expired
     THEN /\ EndSession(Host)
          /\ UNCHANGED <<control, pending, stage>>
     ELSE /\ pending' = TRUE
          /\ stage' = [stage EXCEPT ![Host] = "offered"]
          /\ Send(Controller, "offer")
          /\ UNCHANGED <<ended, up>>
  /\ UNCHANGED <<expired, probe, connection, parked, failed, attached>>

\* apply_lan_switch for an Offer: Ready is the reply.
ApplyOffer ==
  IF expired \/ stage[Controller] # "none"
  THEN /\ EndSession(Controller)
       /\ UNCHANGED stage
  ELSE /\ stage' = [stage EXCEPT ![Controller] = "readySent"]
       /\ UNCHANGED <<ended, up>>

Ready == IF ended'[Controller] THEN <<>> ELSE <<"ready">>

\* The probe's result; an Offer parked meanwhile is applied now.
ProbeSucceeds ==
  /\ probe = "answered" /\ Controller \in up /\ ~ended[Controller]
  /\ probe' = "over"
  /\ connection' = TRUE
  /\ parked' = FALSE
  /\ IF parked
     THEN /\ ApplyOffer
          /\ control' = [control EXCEPT ![Host] = @ \o Ready]
     ELSE UNCHANGED <<ended, up, stage, control>>
  /\ UNCHANGED <<expired, accepted, failed, pending, attached>>

\* The optional attempt was given up: a late Offer changes nothing.
OfferIgnored ==
  /\ Receive(Controller, "offer")
  /\ failed
  /\ UNCHANGED <<expired, ended, probing, pending, stage, attached>>

OfferParked ==
  /\ Receive(Controller, "offer")
  /\ ~failed /\ ~connection /\ Probing
  /\ parked' = TRUE
  /\ UNCHANGED <<expired, ended, probe, accepted, up, connection, failed, pending,
                 stage, attached>>

OfferApplied ==
  /\ ~ended[Controller] /\ control[Controller] # <<>>
  /\ Head(control[Controller]) = "offer"
  /\ ~failed /\ (connection \/ ~Probing)
  /\ ApplyOffer
  /\ control' = [control EXCEPT ![Controller] = Tail(@), ![Host] = @ \o Ready]
  /\ UNCHANGED <<expired, probe, accepted, connection, parked, failed, pending,
                 attached>>

\* Fault: Ready is ignored while an end waits, and the Commit follows the Offer.
HostCommitsEarly ==
  /\ ~ended[Host] /\ stage[Host] = "offered"
  /\ stage' = [stage EXCEPT ![Host] = "commitPending"]
  /\ Send(Controller, "commit")
  /\ UNCHANGED <<expired, ended, probing, pending, attached>>

\* HostLanSwitch::receive up to the sending of Commit.
HostCommits ==
  /\ ~ended[Host] /\ control[Host] # <<>> /\ Head(control[Host]) = "ready"
  /\ IF expired \/ stage[Host] # "offered"
     THEN /\ EndSession(Host)
          /\ control' = [control EXCEPT ![Host] = Tail(@)]
          /\ UNCHANGED stage
     ELSE /\ stage' = [stage EXCEPT ![Host] = "commitPending"]
          /\ control' = [control EXCEPT ![Host] = Tail(@),
                                        ![Controller] = Append(@, "commit")]
          /\ UNCHANGED <<ended, up>>
  /\ UNCHANGED <<expired, probe, accepted, connection, parked, failed, pending,
                 attached>>

\* attach_direct validates the candidate once more.
Attach(e) ==
  IF expired
  THEN /\ EndSession(e)
       /\ UNCHANGED attached
  ELSE /\ attached' = [attached EXCEPT ![e] = TRUE]
       /\ UNCHANGED <<ended, up>>

\* ... and after it: commit_sent, and the pending connection is attached.
HostAttaches ==
  /\ ~ended[Host] /\ stage[Host] = "commitPending"
  /\ stage' = [stage EXCEPT ![Host] = "finished"]
  /\ pending' = FALSE
  /\ Attach(Host)
  /\ UNCHANGED <<control, expired, probe, accepted, connection, parked, failed>>

\* The Commit could not be sent: no authority is minted.
CommitFails ==
  /\ ~ended[Host] /\ stage[Host] = "commitPending"
  /\ EndSession(Host)
  /\ UNCHANGED <<control, expired, probe, accepted, connection, parked, failed,
                 pending, stage, attached>>

CommitArrives ==
  /\ Receive(Controller, "commit")
  /\ IF expired \/ stage[Controller] # "readySent" \/ ~connection
     THEN /\ EndSession(Controller)
          /\ UNCHANGED <<stage, connection, attached>>
     ELSE /\ stage' = [stage EXCEPT ![Controller] = "finished"]
          /\ connection' = FALSE
          /\ Attach(Controller)
  /\ UNCHANGED <<expired, probe, accepted, parked, failed, pending>>

-----------------------------------------------------------------------------
Next ==
  \/ Expire
  \/ CandidateArrives \/ ProbeConnects \/ ProbeFails \/ ProbeSucceeds
  \/ \E e \in Ends : LoseConnection(e)
  \/ HostOffers \/ OfferIgnored \/ OfferParked \/ OfferApplied
  \/ HostCommits \/ HostAttaches \/ CommitFails \/ CommitArrives

Spec == Init /\ [][Next]_vars

\* The probe is bounded, and the control loops keep reading.
Fairness ==
  /\ WF_vars(ProbeFails \/ ProbeSucceeds)
  /\ WF_vars(OfferIgnored \/ OfferParked \/ OfferApplied)
  /\ WF_vars(HostCommits) /\ WF_vars(HostAttaches \/ CommitFails)
  /\ WF_vars(CommitArrives)

FairSpec == Spec /\ Fairness

-----------------------------------------------------------------------------
Messages == {"candidate", "offer", "ready", "commit"}
StagesOf(e) ==
  {"none", "finished"} \union
  IF e = Host THEN {"offered", "commitPending"} ELSE {"readySent"}

TypeOK ==
  /\ control \in [Ends -> Seq(Messages)]
  /\ expired \in BOOLEAN /\ ended \in [Ends -> BOOLEAN]
  /\ probe \in {"none", "running", "answered", "over"} /\ up \subseteq Ends
  /\ {accepted, connection, parked, failed, pending} \subseteq BOOLEAN
  /\ DOMAIN stage = Ends /\ \A e \in Ends : stage[e] \in StagesOf(e)
  /\ attached \in [Ends -> BOOLEAN]

\* The controller moves to a connection only after the host committed to it,
\* and the host only after the controller confirmed, holding it: the order of
\* lan_session.rs and lan_runtime.rs (Offer, Ready, Commit).
AttachNeedsBoth ==
  /\ attached[Controller] => stage[Host] \in {"commitPending", "finished"}
  /\ attached[Host] =>
       /\ stage[Controller] \in {"readySent", "finished"}
       /\ connection \/ attached[Controller] \/ ended[Controller]

\* "Neither produce Ready without a connection nor end a healthy relay session
\* after a probe deadline" (lan_runtime.rs 243-245): a controller that gave the
\* probe up never confirms it, and never ends the session over it.
RetiredProbeIsHarmless ==
  failed => /\ stage[Controller] = "none" /\ ~attached[Controller]
            /\ ~ended[Controller]

\* A host that switched is followed by the controller, or the controller's
\* session is over: they do not stay on different paths.
ControllerFollows ==
  attached[Host] ~> (attached[Controller] \/ ended[Controller])

\* docs/current-architecture-contract.md 58: a direct probe, a switch or its
\* timeout falls back to the relay and keeps the control session.  So the
\* lifetime of an optional candidate ends nobody's session: only the loss of
\* the control lane itself does.
SwitchKeepsSession == [][expired => UNCHANGED ended \/ CommitFails]_vars
=============================================================================
