----------------------------- MODULE HostInput -----------------------------
(* A controlled host's input gate: the capture thread that follows the         *)
(* displays and publishes a mapping under a new input epoch, the control task  *)
(* that begins a display selection, and the input task that injects what the   *)
(* controller sends (apps/windows/src/runtime.rs and input.rs). The mapping    *)
(* and the injector are behind two locks taken in one order, so what is done   *)
(* under them is one step; the tasks interleave between the steps.             *)
(*                                                                             *)
(* The system may refuse injected input for a while (`blocked'): a key the     *)
(* host has pressed then stays down until a later release succeeds. Displays   *)
(* move (`os'), capture is lost, a session may end at any time. The encoder's  *)
(* configuration version is kept as `fresh': whether it is greater than the    *)
(* version the current epoch began with, which is all the code compares.       *)
EXTENDS Naturals, Sequences

CONSTANTS Keys, Displays, Layouts,
          MaxChanges,      \* display changes and losses of the capture
          MaxSelections,   \* displays the controller asks for
          MaxInputs,       \* input messages the controller sends
          MaxBlocks        \* times the system begins to refuse input

ASSUME HostInputAssumption ==
  /\ Displays # {} /\ Layouts # {}
  /\ MaxChanges \in Nat /\ MaxSelections \in Nat /\ MaxInputs \in Nat /\ MaxBlocks \in Nat

VARIABLES os,        \* [layout, names]: the displays as the system has them
          blocked,   \* the system refuses injected input
          selected,  \* the SelectedDesktop the tasks share
          suspended, \* input_suspended
          pressed,   \* keys the injector knows it holds
          down,      \* keys that are down: the epoch they were pressed in, or 0
          fresh,     \* the encoder's version is newer than the epoch's
          media,     \* the geometry capture and encoder are built for
          worker,    \* the capture thread
          control,   \* the control task's selections
          stream,    \* the newest encoded frame, if any is waiting
          viewer,    \* the controller: the frame it shows, the keys it holds
          wire,      \* input on its way to the host
          used       \* how much of each bound has been used

vars == <<os, blocked, selected, suspended, pressed, down, fresh, media, worker,
          control, stream, viewer, wire, used>>

None == 0
Topologies == [display : Displays, layout : Layouts, names : {1, 2}]
Geometry(topology) == <<topology.display, topology.layout>>
Geometries == Displays \X Layouts
First == [display |-> CHOOSE d \in Displays : TRUE, layout |-> CHOOSE l \in Layouts : TRUE,
          names |-> 1]
Frames == [epoch : Nat, geometry : Geometries]
NoFrame == [epoch |-> 0, geometry |-> Geometry(First)]

Messages ==
  [kind : {"press", "release"}, key : Keys, epoch : Nat, seen : Geometries] \cup
  [kind : {"move"}, key : {None}, epoch : Nat, seen : Geometries]

TypeOK ==
  /\ os \in [layout : Layouts, names : {1, 2}]
  /\ blocked \in BOOLEAN /\ suspended \in BOOLEAN /\ fresh \in BOOLEAN
  /\ selected \in [epoch : Nat \ {0}, topology : Topologies, pending : BOOLEAN,
                   invalidated : BOOLEAN, closed : BOOLEAN]
  /\ pressed \subseteq Keys /\ down \in [Keys -> Nat]
  /\ media \in Geometries
  /\ worker \in [at : {"top", "commands", "prepare", "publish", "frame", "stopped", "failed"},
                 recovering : BOOLEAN, next : Topologies,
                 branch : {"poll", "select", "lost"}]
  /\ control \in [command : Displays \cup {None}, replied : BOOLEAN,
                  waiting : Displays \cup {None}]
  /\ stream \in Frames
  /\ viewer \in [shown : Frames, held : SUBSET Keys, epoch : Nat]
  /\ wire \in Seq(Messages)
  /\ used \in [changes : 0..MaxChanges, selections : 0..MaxSelections,
               inputs : 0..MaxInputs, blocks : 0..MaxBlocks]

\* The worker has published its first topology before the session starts.
Init ==
  /\ os = [layout |-> First.layout, names |-> 1]
  /\ blocked = FALSE /\ suspended = FALSE /\ fresh = FALSE
  /\ selected = [epoch |-> 1, topology |-> First, pending |-> FALSE,
                 invalidated |-> FALSE, closed |-> FALSE]
  /\ pressed = {} /\ down = [k \in Keys |-> 0]
  /\ media = Geometry(First)
  /\ worker = [at |-> "top", recovering |-> FALSE, next |-> First, branch |-> "poll"]
  /\ control = [command |-> None, replied |-> FALSE, waiting |-> None]
  /\ stream = NoFrame
  /\ viewer = [shown |-> NoFrame, held |-> {}, epoch |-> 0]
  /\ wire = << >>
  /\ used = [changes |-> 0, selections |-> 0, inputs |-> 0, blocks |-> 0]

-----------------------------------------------------------------------------
(* The injector.                                                               *)

\* release_all: every held key is released, or the first refusal ends it and
\* the rest stay held.
ReleasesAll(released) ==
  /\ IF blocked THEN released \subseteq pressed /\ (pressed # {} => released # pressed)
     ELSE released = pressed
  /\ pressed' = pressed \ released
  /\ down' = [k \in Keys |-> IF k \in released THEN 0 ELSE down[k]]

\* apply: what the system refuses is not remembered as pressed or released.
Applies(message) ==
  \/ (blocked \/ message.kind = "move") /\ UNCHANGED <<pressed, down>>
  \/ /\ ~blocked /\ message.kind = "press"
     /\ pressed' = pressed \cup {message.key}
     /\ down' = [down EXCEPT ![message.key] = message.epoch]
  \/ /\ ~blocked /\ message.kind = "release"
     /\ pressed' = pressed \ {message.key}
     /\ down' = [down EXCEPT ![message.key] = 0]

\* Fault: every event is injected, whatever epoch it was made in.
AdmitsAnyEpoch(message) ==
  /\ ~selected.closed
  /\ message.kind # "release" => ~suspended /\ ~selected.pending

\* inject_desktop_input: the context first, then the gates; a release of the
\* current epoch is let through them.
Admits(message) ==
  /\ ~selected.closed
  /\ message.epoch = selected.epoch
  /\ message.kind # "release" => ~suspended /\ ~selected.pending

Receives ==
  /\ wire # << >>
  /\ LET message == Head(wire) IN
       IF Admits(message) THEN Applies(message) ELSE UNCHANGED <<pressed, down>>
  /\ wire' = Tail(wire)
  /\ UNCHANGED <<os, blocked, selected, suspended, fresh, media, worker, control, stream,
                 viewer, used>>

-----------------------------------------------------------------------------
(* The capture thread.                                                         *)

Suspends(released) ==
  /\ suspended' = TRUE
  /\ selected' = [selected EXCEPT !.invalidated = TRUE]
  /\ ReleasesAll(released)

\* requires_capture_reconfigure
Moves(next) == Geometry(next) # Geometry(selected.topology)
Refreshed == [selected.topology EXCEPT !.layout = os.layout, !.names = os.names]

Boundary(next) == selected.invalidated \/ Moves(next)

At(place) == worker.at = place
Goes(place) == worker' = [worker EXCEPT !.at = place]
\* The candidate is dropped when the work on it is over.
Leaves(place, recovering) ==
  worker' = [at |-> place, recovering |-> recovering, next |-> First, branch |-> "poll"]

Stops ==
  /\ At("top") /\ selected.closed
  /\ Goes("stopped")
  /\ UNCHANGED <<os, blocked, selected, suspended, pressed, down, fresh, media, control,
                 stream, viewer, wire, used>>

Recovering == worker.recovering \/ selected.invalidated

\* The loop's head, when the displays are not looked at this time.
Skips ==
  /\ At("top") /\ ~selected.closed
  /\ worker' = [worker EXCEPT !.at = "commands", !.recovering = Recovering]
  /\ UNCHANGED <<os, blocked, selected, suspended, pressed, down, fresh, media, control,
                 stream, viewer, wire, used>>

\* The loop's head with the displays looked at: a change of names alone is
\* published at once, anything else suspends input and rebuilds the media.
Polls ==
  /\ At("top") /\ ~selected.closed
  /\ IF Recovering \/ Moves(Refreshed)
     THEN /\ \E released \in SUBSET pressed : Suspends(released)
          /\ worker' = [at |-> "prepare", recovering |-> TRUE, next |-> Refreshed,
                        branch |-> "poll"]
     ELSE /\ worker' = IF Refreshed # selected.topology
                       THEN [worker EXCEPT !.at = "publish", !.next = Refreshed]
                       ELSE [worker EXCEPT !.at = "commands"]
          /\ UNCHANGED <<selected, suspended, pressed, down>>
  /\ UNCHANGED <<os, blocked, fresh, media, control, stream, viewer, wire, used>>

\* The displays cannot be listed, or the capture is lost and cannot be: input
\* is suspended and the next look tries again.
LooksInVain ==
  /\ At("top") \/ At("frame")
  /\ ~(At("top") /\ selected.closed)
  /\ used.changes < MaxChanges
  /\ used' = [used EXCEPT !.changes = @ + 1]
  /\ \E released \in SUBSET pressed : Suspends(released)
  /\ worker' = [worker EXCEPT !.at = IF At("top") THEN "commands" ELSE "top",
                              !.recovering = TRUE]
  /\ UNCHANGED <<os, blocked, fresh, media, control, stream, viewer, wire>>

Replies == control' = [control EXCEPT !.command = None, !.replied = TRUE]
After == IF worker.branch = "lost" THEN "top" ELSE "commands"

\* prepare_capture_topology: the new capture and encoder are kept, what was
\* encoded before is thrown away.
Prepares ==
  /\ At("prepare")
  /\ worker.next.layout = os.layout /\ worker.next.names = os.names
  /\ media' = Geometry(worker.next) /\ fresh' = TRUE /\ stream' = NoFrame
  /\ Goes("publish")
  /\ UNCHANGED <<os, blocked, selected, suspended, pressed, down, control, viewer, wire, used>>

\* A driver fails, or the displays have moved again: the old capture stays, and
\* the encoder may have been rebuilt already.
FailsToPrepare ==
  /\ At("prepare")
  /\ fresh' \in {fresh, TRUE}
  /\ Leaves(After, TRUE)
  /\ IF worker.branch = "select" THEN Replies ELSE UNCHANGED control
  /\ UNCHANGED <<os, blocked, selected, suspended, pressed, down, media, stream, viewer,
                 wire, used>>

\* Fault: the mapping is published although a key could not be released.
PublishesHolding(released) ==
  /\ suspended' = FALSE
  /\ selected' = [selected EXCEPT !.topology = worker.next, !.epoch = @ + 1,
                                  !.invalidated = FALSE, !.closed = FALSE]
  /\ fresh' = FALSE
  /\ ReleasesAll(released)

\* publish of a boundary: a new epoch, if every held key has been released.
PublishesBoundary(released) ==
  /\ ReleasesAll(released)
  /\ IF pressed' = {}
     THEN /\ suspended' = FALSE
          /\ selected' = [selected EXCEPT !.topology = worker.next, !.epoch = @ + 1,
                                          !.invalidated = FALSE, !.closed = FALSE]
          /\ fresh' = FALSE
     ELSE /\ suspended' = TRUE
          /\ selected' = [selected EXCEPT !.invalidated = TRUE]
          /\ UNCHANGED fresh

Published == ~selected'.invalidated /\ ~selected.closed

EndedBeforePublish == selected.closed

\* publish and what its callers do with the result; a boundary whose encoder
\* has not moved past the epoch's version ends the worker.
Publishes ==
  /\ At("publish")
  /\ IF ~EndedBeforePublish /\ Boundary(worker.next) /\ ~fresh
     THEN /\ Goes("failed")
          /\ UNCHANGED <<selected, suspended, pressed, down, fresh, control>>
     ELSE /\ IF EndedBeforePublish
             THEN UNCHANGED <<selected, suspended, pressed, down, fresh>>
             ELSE IF Boundary(worker.next)
             THEN \E released \in SUBSET pressed : PublishesBoundary(released)
             ELSE /\ suspended' = FALSE
                  /\ selected' = [selected EXCEPT !.topology = worker.next,
                                    !.invalidated = FALSE, !.closed = FALSE]
                  /\ UNCHANGED <<pressed, down, fresh>>
          /\ Leaves(After, ~Published)
          /\ IF worker.branch = "select" THEN Replies ELSE UNCHANGED control
  /\ UNCHANGED <<os, blocked, media, stream, viewer, wire, used>>

\* SelectDisplay: refused while recovering, nothing to do for the display shown.
Selects ==
  /\ At("commands") /\ control.command # None
  /\ IF worker.recovering \/ control.command = selected.topology.display
     THEN Replies /\ UNCHANGED <<worker, selected, suspended, pressed, down>>
     ELSE /\ \E released \in SUBSET pressed : Suspends(released)
          /\ worker' = [worker EXCEPT !.at = "prepare", !.branch = "select",
                          !.next = [selected.topology EXCEPT !.display = control.command]]
          /\ UNCHANGED control
  /\ UNCHANGED <<os, blocked, fresh, media, stream, viewer, wire, used>>

\* A quality, profile or rate command rebuilds the encoder: the epoch stays.
Reconfigures ==
  /\ At("commands") /\ control.command = None
  /\ ~fresh /\ fresh' = TRUE /\ stream' = NoFrame
  /\ UNCHANGED <<os, blocked, selected, suspended, pressed, down, media, worker, control,
                 viewer, wire, used>>

CommandsDone ==
  /\ At("commands") /\ control.command = None
  /\ Goes(IF worker.recovering THEN "top" ELSE "frame")
  /\ UNCHANGED <<os, blocked, selected, suspended, pressed, down, fresh, media, control,
                 stream, viewer, wire, used>>

\* A frame carries the context that was current when it was captured.
Captures ==
  /\ At("frame") /\ os.layout = media[2]
  /\ stream' \in {stream, [epoch |-> selected.epoch, geometry |-> media]}
  /\ Goes("top")
  /\ UNCHANGED <<os, blocked, selected, suspended, pressed, down, fresh, media, control,
                 viewer, wire, used>>

\* The capture was lost and recovered: renew the mapping, changed or not.
LosesCapture ==
  /\ At("frame")
  /\ \/ os.layout # media[2] /\ UNCHANGED used
     \/ used.changes < MaxChanges /\ used' = [used EXCEPT !.changes = @ + 1]
  /\ \E released \in SUBSET pressed : Suspends(released)
  /\ worker' = [at |-> "prepare", recovering |-> TRUE, next |-> Refreshed, branch |-> "lost"]
  /\ UNCHANGED <<os, blocked, fresh, media, control, stream, viewer, wire>>

-----------------------------------------------------------------------------
(* The control task.                                                           *)

\* begin_desktop_selection
Begins(released) ==
  /\ ReleasesAll(released)
  /\ IF pressed' = {}
     THEN selected' = [selected EXCEPT !.pending = TRUE] /\ UNCHANGED suspended
     ELSE /\ selected' = [selected EXCEPT !.pending = TRUE, !.invalidated = TRUE]
          /\ suspended' = TRUE

\* The controller asks for a display: the newest request waits for the running
\* one. The controller lets go of its keys first.
AsksForDisplay(display) ==
  /\ ~selected.closed /\ used.selections < MaxSelections
  /\ used' = [used EXCEPT !.selections = @ + 1]
  /\ \E released \in SUBSET pressed : Begins(released)
  /\ control' = IF control.command = None /\ ~control.replied /\ control.waiting = None
                THEN [control EXCEPT !.command = display]
                ELSE [control EXCEPT !.waiting = display]
  /\ UNCHANGED <<os, blocked, fresh, media, worker, stream, viewer, wire>>

\* Fault: the gate is left shut once a selection is done.
NeverReopens == selected

Reopened == [selected EXCEPT !.pending = @ /\ control.waiting # None]

\* The worker's answer: the last one opens the gate, another starts the next.
Answers ==
  /\ control.replied /\ ~selected.closed
  /\ selected' = Reopened
  /\ control' = [command |-> control.waiting, replied |-> FALSE, waiting |-> None]
  /\ UNCHANGED <<os, blocked, suspended, pressed, down, fresh, media, worker, stream, viewer,
                 wire, used>>

\* HostInputExitGuard: the session's tasks are dropped, for whatever reason.
SessionEnds ==
  /\ ~selected.closed
  /\ selected' = [selected EXCEPT !.closed = TRUE, !.invalidated = TRUE]
  /\ suspended' = TRUE
  /\ \E released \in SUBSET pressed : ReleasesAll(released)
  /\ wire' = << >>
  /\ UNCHANGED <<os, blocked, fresh, media, worker, control, stream, viewer, used>>

-----------------------------------------------------------------------------
(* The controller and the system around the host.                              *)

\* The newest frame is painted; one of another epoch makes the controller
\* forget the keys it held, its releases no longer count.
Paints ==
  /\ stream # NoFrame
  /\ viewer' = IF viewer.shown # NoFrame /\ viewer.shown.epoch # stream.epoch
               THEN [shown |-> stream, held |-> {}, epoch |-> 0]
               ELSE [viewer EXCEPT !.shown = stream]
  /\ stream' = NoFrame
  /\ UNCHANGED <<os, blocked, selected, suspended, pressed, down, fresh, media, worker,
                 control, wire, used>>

Sends(kind, key, epoch) ==
  /\ ~selected.closed /\ used.inputs < MaxInputs
  /\ used' = [used EXCEPT !.inputs = @ + 1]
  /\ wire' = Append(wire, [kind |-> kind, key |-> key, epoch |-> epoch,
                           seen |-> viewer.shown.geometry])
  /\ UNCHANGED <<os, blocked, selected, suspended, pressed, down, fresh, media, worker,
                 control, stream>>

Presses(key) ==
  /\ viewer.shown # NoFrame /\ key \notin viewer.held
  /\ viewer' = [viewer EXCEPT !.held = @ \cup {key}, !.epoch = viewer.shown.epoch]
  /\ Sends("press", key, viewer.shown.epoch)

LetsGo(key) ==
  /\ key \in viewer.held
  /\ viewer' = [viewer EXCEPT !.held = @ \ {key}]
  /\ Sends("release", key, viewer.epoch)

Points ==
  /\ viewer.shown # NoFrame
  /\ UNCHANGED viewer
  /\ Sends("move", None, viewer.shown.epoch)

DisplaysChange ==
  /\ used.changes < MaxChanges
  /\ used' = [used EXCEPT !.changes = @ + 1]
  /\ os' \in [layout : Layouts, names : {1, 2}] \ {os}
  /\ UNCHANGED <<blocked, selected, suspended, pressed, down, fresh, media, worker, control,
                 stream, viewer, wire>>

Blocks ==
  /\ ~blocked /\ used.blocks < MaxBlocks
  /\ blocked' = TRUE /\ used' = [used EXCEPT !.blocks = @ + 1]
  /\ UNCHANGED <<os, selected, suspended, pressed, down, fresh, media, worker, control,
                 stream, viewer, wire>>

Unblocks ==
  /\ blocked /\ blocked' = FALSE
  /\ UNCHANGED <<os, selected, suspended, pressed, down, fresh, media, worker, control,
                 stream, viewer, wire, used>>

WorkerStep ==
  \/ Stops \/ Skips \/ Polls \/ LooksInVain
  \/ Prepares \/ FailsToPrepare \/ Publishes
  \/ Selects \/ Reconfigures \/ CommandsDone
  \/ Captures \/ LosesCapture

Next ==
  \/ WorkerStep
  \/ Receives \/ Answers \/ SessionEnds \/ Paints \/ Points
  \/ \E display \in Displays : AsksForDisplay(display)
  \/ \E key \in Keys : Presses(key) \/ LetsGo(key)
  \/ DisplaysChange \/ Blocks \/ Unblocks

Spec == Init /\ [][Next]_vars

\* The thread and the tasks keep running, the displays are looked at once a
\* second, what can be built is built in the end, and no block lasts for ever.
Fairness ==
  /\ WF_vars(WorkerStep) /\ WF_vars(Answers) /\ WF_vars(Unblocks)
  /\ SF_vars(Polls) /\ SF_vars(Prepares) /\ SF_vars(CommandsDone)

FairSpec == Spec /\ Fairness

-----------------------------------------------------------------------------
(* Properties.                                                                 *)

\* A key that is down was pressed in the current epoch and is one the injector
\* will release: no press survives the mapping it was made for.
NoKeyOutlivesItsEpoch ==
  \A key \in Keys : down[key] # 0 => down[key] = selected.epoch /\ key \in pressed

\* While a display is being selected nothing is held down, unless a release
\* was refused and the mapping is known to be invalid.
SelectingHoldsNothing ==
  selected.pending /\ ~selected.invalidated => \A key \in Keys : down[key] = 0

\* A pointer position is mapped with the geometry of the picture it was taken
\* from, however late the picture or the input came.
MappedAsSeen ==
  \A i \in DOMAIN wire :
    Admits(wire[i]) => wire[i].seen = Geometry(selected.topology)

\* Input that arrives releases only a key pressed in the same epoch: a late
\* release never lets go of a new press.
OldReleaseSparesNewPress ==
  [][wire # << >> /\ wire' = Tail(wire) /\ wire' # wire /\ ~selected'.closed =>
       \A key \in Keys : down[key] # 0 /\ down'[key] = 0 => down[key] = Head(wire).epoch]_vars

\* Once a session has ended no mapping is published for it and no key goes down,
\* although the capture thread may be in the middle of a publication.
EndedStaysEnded ==
  [][selected.closed => /\ selected' = selected /\ suspended'
                        /\ \A key \in Keys : down'[key] \in {0, down[key]}]_vars

\* The three together: what is held down, and what a position means, is of the
\* epoch in which it is used (docs/windows-host-input-epochs.md).
InputOfItsEpoch == TypeOK /\ NoKeyOutlivesItsEpoch /\ SelectingHoldsNothing /\ MappedAsSeen

\* And the two together: no step of an old epoch, or of an ended session, touches
\* what a new one holds.
EpochsKeptApart == OldReleaseSparesNewPress /\ EndedStaysEnded

\* Input that was suspended, or shut out by a selection, is let in again, unless
\* the session ends.
InputReopens ==
  (suspended \/ selected.pending) ~>
    ((~suspended /\ ~selected.pending) \/ selected.closed \/ At("failed"))

\* docs/windows-host-input-epochs.md:7: a release that is blocked keeps input
\* paused and is tried again; it does not end the session.
BlockedReleaseKeepsSession == ~At("failed")
=============================================================================
