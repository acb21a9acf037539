----------------------------- MODULE EndControl -----------------------------
(***************************************************************************)
(* "End the current control" on the Windows host: the click of the user    *)
(* (HostManager::end_current_control), the handle it goes through          *)
(* (HostSessionControl), the session that takes it, tells its controller   *)
(* and waits for it to leave (HostRuntime, lan_session.rs), the supervisor *)
(* that re-arms or stops, and the controller, which comes back by itself   *)
(* whenever it lost its connection and never after it was told.            *)
(*                                                                         *)
(* One controller over the relay.  restart_lock lets one click wait at a   *)
(* time; what pausing and resuming do is HostLifecycle's.                  *)
(***************************************************************************)
EXTENDS Integers

CONSTANTS MaxStreams,  \* how many sessions the host serves
          MaxClicks    \* how often the user ends the control

None == 0
Streams == 1..MaxStreams

VARIABLES
    stream,   \* the stream of the current attempt
    phase,    \* how far the attempt is
    active,   \* HostSessionControl::active_stream
    request,  \* HostSessionControl::requests: the stream of the request in it
    taken,    \* the session was ended by a request (end_request)
    answer,   \* what went through the request's oneshot sender
    click,    \* the click: its stream and its state
    clicks,   \* how many clicks there were
    peer,     \* the controller
    notice,   \* the terminal denial is on its way
    health,   \* what the data plane of the session knows of its peer
    before,   \* disconnected_before_notice
    read      \* the sessions whose controller read the denial (history)

vars == <<stream, phase, active, request, taken, answer, click, clicks, peer, notice, health,
          before, read>>
Wire == <<peer, notice, health, before, read>>
Click == <<answer, click, clicks>>

Fresh == [gone |-> FALSE, replaced |-> FALSE]

TypeOK ==
    /\ stream \in 1..(MaxStreams + 1)
    /\ phase \in {"idle", "active", "leaving", "ending", "closing", "notifying", "stopped"}
    /\ active \in Streams \cup {None} /\ request \in Streams \cup {None}
    /\ taken \in BOOLEAN /\ notice \in BOOLEAN /\ before \in BOOLEAN
    /\ answer \in {"none", "yes", "no"}
    /\ click \in [of: Streams \cup {None}, state: {"none", "waiting", "confirmed", "pausing", "paused"}]
    /\ clicks \in 0..MaxClicks
    /\ peer \in {"away", "knocking", "in", "told"}
    /\ health \in [gone: BOOLEAN, replaced: BOOLEAN]
    /\ read \subseteq Streams

Init ==
    /\ stream = 1 /\ phase = "idle" /\ active = None /\ request = None /\ taken = FALSE
    /\ answer = "none" /\ click = [of |-> None, state |-> "none"] /\ clicks = 0
    /\ peer = "away" /\ notice = FALSE /\ health = Fresh /\ before = FALSE /\ read = {}

(* ------------------------------ the session ---------------------------- *)

\* A controller is authenticated: activate clears the request, which drops its
\* sender: a click that still waits hears that there will be no answer.
Activate ==
    /\ phase = "idle" /\ stream \in Streams /\ peer = "knocking"
    /\ phase' = "active" /\ active' = stream /\ request' = None
    /\ answer' = IF click.state = "waiting" /\ answer = "none" THEN "no" ELSE answer
    /\ peer' = "in" /\ health' = Fresh /\ notice' = FALSE
    /\ UNCHANGED <<stream, taken, click, clicks, before, read>>

\* next_end: the request is of this stream; the select prefers it.
TakeEnd ==
    /\ phase = "active" /\ request = stream
    /\ phase' = "ending" /\ taken' = TRUE
    /\ UNCHANGED <<stream, active, request, Click, Wire>>

\* The session ends because its controller is gone or was replaced.
OtherEnd ==
    /\ phase = "active" /\ request # stream
    /\ health.gone \/ health.replaced
    /\ phase' = "leaving"
    /\ UNCHANGED <<stream, active, request, taken, Click, Wire>>

\* Input and media are dropped, then the ActiveHostSession: the stream is no
\* longer active.
DropActive ==
    /\ phase \in {"leaving", "ending"}
    /\ active' = IF active = stream THEN None ELSE active
    /\ phase' = "closing"
    /\ UNCHANGED <<stream, request, taken, Click, Wire>>

\* The workers are joined.  A session that was not ended by a request is over:
\* the supervisor re-arms on the same relay connection.
Rearm ==
    /\ phase = "closing" /\ ~taken
    /\ phase' = "idle" /\ stream' = stream + 1
    /\ UNCHANGED <<active, request, taken, Click, Wire>>

\* notify_local_control_ended_data: the denial is sent.
Notify ==
    /\ phase = "closing" /\ taken
    /\ phase' = "notifying"
    /\ before' = health.gone
    /\ notice' = (peer = "in")
    /\ UNCHANGED <<stream, active, request, taken, Click, peer, health, read>>

\* The controller left, was replaced, or two seconds are over.  Confirmed, the
\* host re-arms (LocalControlEnded); otherwise its supervisor stops.
Ends(confirmed) ==
    /\ phase' = IF confirmed THEN "idle" ELSE "stopped"
    /\ stream' = IF confirmed THEN stream + 1 ELSE stream
    /\ answer' = IF click.state = "waiting" THEN (IF confirmed THEN "yes" ELSE "no") ELSE answer
    /\ taken' = FALSE
    /\ UNCHANGED <<active, request, click, clicks, Wire>>

Complete ==
    /\ phase = "notifying"
    /\ \/ health.replaced /\ Ends(FALSE)
       \/ ~health.replaced /\ health.gone /\ Ends(~before)
       \/ ~health.replaced /\ ~health.gone /\ Ends(FALSE)

(* ------------------------------- the click ----------------------------- *)

\* request_end, under the guard activate takes too: refused without an active
\* stream, and while a request of the same stream is open.
Ask ==
    /\ click.state \in {"none", "confirmed"} /\ clicks < MaxClicks
    /\ active # None /\ request # active
    /\ request' = active
    /\ click' = [of |-> active, state |-> "waiting"] /\ answer' = "none"
    /\ clicks' = clicks + 1
    /\ UNCHANGED <<stream, phase, active, taken, Wire>>

Confirm ==
    /\ click.state = "waiting" /\ answer = "yes"
    /\ click' = [click EXCEPT !.state = "confirmed"]
    /\ UNCHANGED <<stream, phase, active, request, taken, answer, clicks, Wire>>

\* complete_end_locked: no, or nothing for three seconds: sharing is paused.
GiveUp ==
    /\ click.state = "waiting" /\ answer # "yes"
    /\ click' = [click EXCEPT !.state = "pausing"]
    /\ UNCHANGED <<stream, phase, active, request, taken, answer, clicks, Wire>>

\* The worker is stopped, with the session it serves.
Paused ==
    /\ click.state = "pausing"
    /\ click' = [click EXCEPT !.state = "paused"]
    /\ phase' = "stopped" /\ active' = None
    /\ UNCHANGED <<stream, request, taken, answer, clicks, Wire>>

(* ---------------------------- the controller --------------------------- *)

Serving == phase \notin {"idle", "stopped"}

\* It joins, or joins again by itself: while the relay still has its former
\* connection it takes that one's place.  After that one was seen to be gone the
\* reader of the control lane may still report the replacement.
PeerJoins ==
    /\ peer = "away"
    /\ peer' = "knocking"
    /\ \E told \in {TRUE, ~health.gone} :
          health' = [health EXCEPT !.replaced = @ \/ (Serving /\ told)]
    /\ UNCHANGED <<stream, phase, active, request, taken, Click, notice, before, read>>

\* Its connection is lost, with what is on its way; the relay sees it later.
PeerLost ==
    /\ peer = "in"
    /\ peer' = "away" /\ notice' = FALSE
    /\ UNCHANGED <<stream, phase, active, request, taken, Click, health, before, read>>

RelayNotices ==
    /\ peer = "away" /\ Serving /\ ~health.gone
    /\ health' = [health EXCEPT !.gone = TRUE]
    /\ UNCHANGED <<stream, phase, active, request, taken, Click, peer, notice, before, read>>

\* It reads the denial, leaves, and does not come back by itself.
PeerReads ==
    /\ peer = "in" /\ notice
    /\ peer' = "told" /\ notice' = FALSE
    /\ read' = read \cup {stream}
    /\ health' = [health EXCEPT !.gone = Serving]
    /\ UNCHANGED <<stream, phase, active, request, taken, Click, before>>

Host == TakeEnd \/ OtherEnd \/ DropActive \/ Rearm \/ Notify \/ Complete
User == Confirm \/ GiveUp \/ Paused
Next ==
    \/ Host \/ User \/ Activate \/ Ask
    \/ PeerJoins \/ PeerLost \/ RelayNotices \/ PeerReads

Spec == Init /\ [][Next]_vars

\* The host takes its steps, its waits are bounded (two seconds for the peer,
\* three for the answer).  Nothing makes the controller answer.
Fairness == WF_vars(Host) /\ WF_vars(User)
FairSpec == Spec /\ Fairness

(* ----------------------------- properties ------------------------------ *)

\* A click that was confirmed ended its session for good: nothing of that
\* stream is active (runtime.rs 1505-1531).
ConfirmedEnds == click.state = "confirmed" => active # click.of /\ (stream > click.of \/ phase = "stopped")

\* Every accepted click is answered, confirmed or by a pause: restart_lock,
\* which it holds, is given back (host.rs 515-533).
EndAnswered == click.state = "waiting" ~> click.state \in {"confirmed", "paused"}

\* "A peer that never consumes the terminal state is not reported as a
\* successful end" (session_control_tests.rs 175).
ConfirmedWasRead == click.state = "confirmed" => click.of \in read

\* "a late click or queued command cannot terminate a replacement session"
\* (session_control.rs 8-9).
LateClickSpares ==
    [][phase = "active" /\ (\/ phase' = "ending"
                            \/ click.state = "waiting" /\ click'.state = "pausing")
         => stream = click.of]_vars
=============================================================================
