------------------------ MODULE ControllerConnection ------------------------
(***************************************************************************)
(* The controller side of the Windows application: ControllerManager and   *)
(* run_controller (controller.rs), which look a host up, connect to it,    *)
(* keep the connection and end it, and remember which hosts were used.     *)
(*                                                                         *)
(* Every command of the user takes a new operation generation.  The ones   *)
(* that start or stop a worker queue for operation_lock, which is fair;    *)
(* the lookup before it runs without the lock, and a worker task publishes *)
(* its status only while its generation is the current one.  Two files     *)
(* survive a run: the recent devices (recent_access.rs, read and written   *)
(* back as a whole) and the approved connection.                           *)
(***************************************************************************)
EXTENDS Integers, Sequences

CONSTANTS Devices,      \* hosts the user may connect to
          NoDevice,     \* no host
          MaxCommands,  \* how many commands a run may issue
          MaxRetries    \* how often one lookup is repeated

ASSUME ConnectionAssumption ==
    NoDevice \notin Devices /\ MaxCommands \in Nat /\ MaxRetries \in Nat

Nobody == 0
Commands == 1..MaxCommands

VARIABLES
    generation,  \* operation_generation
    queue,       \* operation_lock: its holder, then those who wait, in order
    command,     \* what each command is and how far it got
    slot,        \* the worker in ControllerManager::worker, named by its command
    worker,      \* the tasks run_controller, each named by the command that started it
    status,      \* the published status, and the command it is about
    context,     \* the command whose session input may go to
    recents,     \* the devices in recent-access.bin
    saved        \* the device of the approved connection

vars == <<generation, queue, command, slot, worker, status, context, recents, saved>>

Cancels == {"disconnect", "forget", "logout"}
Idle == [kind |-> "none", step |-> "idle", gen |-> 0, device |-> NoDevice,
         tries |-> 0, victim |-> Nobody, read |-> {}]
NoWorker == [step |-> "none", told |-> FALSE, killed |-> FALSE, save |-> FALSE]

\* The steps of a command: called; a connect looks the device up (finding, found),
\* remembers it (remembering, remembered), waits for the lock, stops the worker
\* before it and spawns its own; a cancel waits, stops and tidies up; over.
TypeOK ==
    /\ generation \in 0..MaxCommands
    /\ queue \in Seq(Commands)
    /\ command \in [Commands ->
         [kind: {"none", "connect", "reconnect"} \cup Cancels,
          step: {"idle", "called", "finding", "found", "remembering", "remembered", "waiting",
                 "stopping", "spawned", "removing", "writing", "clearing", "over"},
          gen: 0..MaxCommands, device: Devices \cup {NoDevice}, tries: 0..MaxRetries,
          victim: Commands \cup {Nobody}, read: SUBSET Devices]]
    /\ slot \in Commands \cup {Nobody}
    /\ worker \in [Commands ->
         [step: {"none", "connecting", "approving", "serving", "configured", "connected",
                 "delayed", "over"},
          told: BOOLEAN, killed: BOOLEAN, save: BOOLEAN]]
    /\ status \in [state: {"idle", "finding", "connecting", "approval", "connected",
                           "reconnecting", "stopped"}, by: Commands \cup {Nobody}]
    /\ context \in Commands \cup {Nobody}
    /\ recents \subseteq Devices /\ saved \in Devices \cup {NoDevice}

Init ==
    /\ generation = 0 /\ queue = <<>> /\ slot = Nobody /\ context = Nobody
    /\ command = [c \in Commands |-> Idle]
    /\ worker = [c \in Commands |-> NoWorker]
    /\ status = [state |-> "idle", by |-> Nobody]
    /\ recents \in SUBSET Devices /\ saved \in Devices \cup {NoDevice}

(* ------------------------------ helpers -------------------------------- *)

Holds(c) == queue # <<>> /\ Head(queue) = c
Release == queue' = Tail(queue)
\* What the earlier steps of a command read is forgotten with the next step.
Step(c, step) == command' = [command EXCEPT ![c].step = step, ![c].victim = Nobody,
                                            ![c].read = {}, ![c].tries = 0]
Current(c) == command[c].gen = generation
Running(c) == command[c].step \notin {"idle", "over"}

\* A task that still runs, and has not been aborted.
Live(w) == worker[w].step \notin {"none", "over"} /\ ~worker[w].killed

\* set_status: only a connected status leaves the input context alone.
SetsStatus(state, c) ==
    /\ status' = [state |-> state, by |-> c]
    /\ context' = IF state = "connected" THEN context ELSE Nobody

\* publish_if_current: the check and the write are one, under operation_guard.
Publishes(c, state) ==
    IF Current(c) THEN SetsStatus(state, c) ELSE UNCHANGED <<status, context>>

\* stop_current: the worker leaves its slot and is told to end; the command
\* waits for its task in step "stopping".
StopsCurrent(c) ==
    /\ slot' = Nobody
    /\ context' = Nobody
    /\ worker' = [w \in Commands |->
                    IF w = slot THEN [worker[w] EXCEPT !.told = TRUE] ELSE worker[w]]
    /\ command' = [command EXCEPT ![c].step = "stopping", ![c].victim = slot]

\* Fault: the next worker does not wait for the end of the one before it.
VictimTold(c) == command[c].victim # Nobody => worker[command[c].victim].told

\* The task the command waits for has ended, or there was none.
VictimOver(c) == command[c].victim # Nobody => worker[command[c].victim].step = "over"

(* --------------------------- the user's clicks ------------------------- *)

\* The page offers a new command when the last one returned or was cancelled.
Busy == \E c \in Commands :
    /\ command[c].kind \in {"connect", "reconnect", "forget"} /\ Running(c)
    /\ ~\E d \in Commands : d > c /\ command[d].kind = "disconnect"
Cancelling == \E c \in Commands : command[c].kind = "disconnect" /\ Running(c)
Offered(kind, d) ==
    CASE kind = "connect"    -> ~Busy /\ ~Cancelling /\ status.state \in {"idle", "stopped"} /\ d \in Devices
      [] kind = "reconnect"  -> ~Busy /\ ~Cancelling /\ status.state \in {"idle", "stopped"} /\ d = NoDevice
      [] kind = "forget"     -> ~Busy /\ ~Cancelling /\ d \in (recents \cup {saved}) \ {NoDevice}
      [] kind = "disconnect" -> ~Cancelling /\ d = NoDevice
                                /\ (Busy \/ status.state \notin {"idle", "stopped"})
      [] kind = "logout"     -> d = NoDevice /\ \A c \in Commands : command[c].kind # "logout"

\* begin_operation or cancel_operations: every command takes a new generation,
\* and input stops at once.
Call(c, kind, d) ==
    /\ command[c].step = "idle" /\ \A b \in Commands : b < c => command[b].step # "idle"
    /\ Offered(kind, d)
    /\ generation' = generation + 1
    /\ context' = Nobody
    /\ command' = [command EXCEPT ![c].kind = kind, ![c].step = "called",
                                  ![c].gen = generation + 1, ![c].device = d]
    /\ UNCHANGED <<queue, slot, worker, status, recents, saved>>

(* ------------------------------ connecting ----------------------------- *)

\* connect_device_credentials publishes that it looks for the device.
BeginLookup(c) ==
    /\ command[c].kind = "connect" /\ command[c].step = "called"
    /\ Publishes(c, "finding")
    /\ Step(c, "finding")
    /\ UNCHANGED <<generation, queue, slot, worker, recents, saved>>

\* wait_for_current_transport and the waits between two attempts end the lookup
\* when it is no longer the current one; a failed attempt may be repeated.
LookupCancelled(c) ==
    /\ command[c].step = "finding" /\ ~Current(c)
    /\ Step(c, "over")
    /\ UNCHANGED <<generation, queue, slot, worker, status, context, recents, saved>>

LookupRepeats(c) ==
    /\ command[c].step = "finding" /\ command[c].tries < MaxRetries
    /\ command' = [command EXCEPT ![c].tries = @ + 1]
    /\ Publishes(c, "finding")
    /\ UNCHANGED <<generation, queue, slot, worker, recents, saved>>

LookupFails(c) ==
    /\ command[c].step = "finding"
    /\ Publishes(c, "idle")
    /\ Step(c, "over")
    /\ UNCHANGED <<generation, queue, slot, worker, recents, saved>>

LookupFinds(c) ==
    /\ command[c].step = "finding" /\ Current(c)
    /\ Step(c, "found")
    /\ UNCHANGED <<generation, queue, slot, worker, status, context, recents, saved>>

\* WindowsRecentAccessStore::remember reads the whole file, then writes it back.
RememberReads(c) ==
    /\ command[c].step = "found"
    /\ command' = [command EXCEPT ![c].step = "remembering", ![c].read = recents]
    /\ UNCHANGED <<generation, queue, slot, worker, status, context, recents, saved>>

RememberWrites(c) ==
    /\ command[c].step = "remembering"
    /\ recents' = command[c].read \cup {command[c].device}
    /\ Step(c, "remembered")
    /\ UNCHANGED <<generation, queue, slot, worker, status, context, saved>>

RememberFails(c) ==
    /\ command[c].step = "remembering"
    /\ Publishes(c, "idle")
    /\ Step(c, "over")
    /\ UNCHANGED <<generation, queue, slot, worker, recents, saved>>

\* The connect goes on to start, unless it was cancelled meanwhile.
Remembered(c) ==
    /\ command[c].step = "remembered"
    /\ IF Current(c) THEN Step(c, "waiting") /\ queue' = Append(queue, c)
                     ELSE Step(c, "over") /\ queue' = queue
    /\ UNCHANGED <<generation, slot, worker, status, context, recents, saved>>

\* connect_saved takes the host from the approved connection, when there is one.
BeginReconnect(c) ==
    /\ command[c].kind = "reconnect" /\ command[c].step = "called"
    /\ IF saved = NoDevice
         THEN Step(c, "over") /\ queue' = queue
         ELSE /\ command' = [command EXCEPT ![c].step = "waiting", ![c].device = saved]
              /\ queue' = Append(queue, c)
    /\ UNCHANGED <<generation, slot, worker, status, context, recents, saved>>

\* start, with the lock: it stops the worker before it ...
Start(c) ==
    /\ command[c].kind \in {"connect", "reconnect"} /\ command[c].step = "waiting" /\ Holds(c)
    /\ IF Current(c)
         THEN StopsCurrent(c) /\ queue' = queue
         ELSE Step(c, "over") /\ Release /\ UNCHANGED <<slot, worker, context>>
    /\ UNCHANGED <<generation, status, recents, saved>>

\* ... spawns its own ...
Spawn(c) ==
    /\ command[c].kind \in {"connect", "reconnect"} /\ command[c].step = "stopping" /\ VictimOver(c)
    /\ IF Current(c)
         THEN /\ Publishes(c, "connecting")
              /\ worker' = [worker EXCEPT ![c] = [NoWorker EXCEPT !.step = "connecting",
                                                    !.save = command[c].kind = "connect"]]
              /\ Step(c, "spawned") /\ queue' = queue
         ELSE Step(c, "over") /\ Release /\ UNCHANGED <<status, context, worker>>
    /\ UNCHANGED <<generation, slot, recents, saved>>

\* ... and puts it into the slot, or aborts it when it was cancelled meanwhile.
Settle(c) ==
    /\ command[c].step = "spawned"
    /\ IF Current(c) THEN slot' = c /\ worker' = worker
                     ELSE worker' = [worker EXCEPT ![c].killed = TRUE] /\ slot' = slot
    /\ Step(c, "over") /\ Release
    /\ UNCHANGED <<generation, status, context, recents, saved>>

(* ------------------------------ cancelling ----------------------------- *)

QueueCancel(c) ==
    /\ command[c].kind \in Cancels /\ command[c].step = "called"
    /\ queue' = Append(queue, c) /\ Step(c, "waiting")
    /\ UNCHANGED <<generation, slot, worker, status, context, recents, saved>>

Stop(c) ==
    /\ command[c].kind \in Cancels /\ command[c].step = "waiting" /\ Holds(c)
    /\ StopsCurrent(c)
    /\ UNCHANGED <<generation, queue, status, recents, saved>>

\* stop_current gives a task five seconds, then aborts it and waits for its end.
Abort(c) ==
    /\ command[c].step = "stopping" /\ ~VictimOver(c)
    /\ worker' = [worker EXCEPT ![command[c].victim].killed = TRUE]
    /\ UNCHANGED <<generation, queue, command, slot, status, context, recents, saved>>

\* disconnect ends here; a logout goes on to clear the recent devices.
Disconnected(c) ==
    /\ command[c].kind \in {"disconnect", "logout"} /\ command[c].step = "stopping" /\ VictimOver(c)
    /\ SetsStatus("idle", Nobody)
    /\ Step(c, IF command[c].kind = "logout" THEN "clearing" ELSE "over") /\ Release
    /\ UNCHANGED <<generation, slot, worker, recents, saved>>

\* clear_saved_devices, called by account_logout, takes no lock.
Clear(c) ==
    /\ command[c].step = "clearing"
    /\ recents' = {}
    /\ Step(c, "over")
    /\ UNCHANGED <<generation, queue, slot, worker, status, context, saved>>

\* forget_saved_device: the recent devices are read and written back without the
\* device, and the approved connection is cleared when it is the device's.
ForgetReads(c) ==
    /\ command[c].kind = "forget" /\ command[c].step = "stopping" /\ VictimOver(c)
    /\ command' = [command EXCEPT ![c].step = "removing", ![c].read = recents]
    /\ UNCHANGED <<generation, queue, slot, worker, status, context, recents, saved>>

ForgetWrites(c) ==
    /\ command[c].step = "removing"
    /\ recents' = IF command[c].device \in command[c].read
                    THEN command[c].read \ {command[c].device} ELSE recents
    /\ Step(c, "writing")
    /\ UNCHANGED <<generation, queue, slot, worker, status, context, saved>>

Forgotten(c) ==
    /\ command[c].step = "writing"
    /\ saved' = IF saved = command[c].device THEN NoDevice ELSE saved
    /\ SetsStatus("idle", Nobody)
    /\ Step(c, "over") /\ Release
    /\ UNCHANGED <<generation, slot, worker, recents>>

(* ------------------------------ the worker ----------------------------- *)

\* The relay is reached only after start has settled its worker: a network
\* exchange takes longer than the last statements of start.
Acts(w, step) == Live(w) /\ worker[w].step = step /\ command[w].step # "spawned"
To(w, step) == worker' = [worker EXCEPT ![w].step = step]
OnlyWorker == UNCHANGED <<generation, queue, command, slot, recents>>

\* connect_once joined the relay and waits for the host to approve.
Joined(w) ==
    /\ Acts(w, "connecting") /\ Current(w)
    /\ Publishes(w, "approval") /\ To(w, "approving")
    /\ OnlyWorker /\ UNCHANGED saved

\* The session is there; a worker that is no longer the current one just ends.
Approved(w) ==
    /\ Acts(w, "approving")
    /\ To(w, IF Current(w) THEN "serving" ELSE "over")
    /\ OnlyWorker /\ UNCHANGED <<status, context, saved>>

\* A video configuration opens the input; it is passed over by a stale worker.
Configured(w) ==
    /\ \E s \in {"serving", "connected"} : Acts(w, s)
    /\ Current(w)
    /\ context' = w /\ To(w, "configured")
    /\ OnlyWorker /\ UNCHANGED <<status, saved>>

\* The first one saves the approved connection; then the status says connected.
\* No await lies between this and the step before, so no cancellation is seen.
Saved(w) ==
    /\ worker[w].step = "configured"
    /\ saved' = IF worker[w].save THEN command[w].device ELSE saved
    /\ worker' = [worker EXCEPT ![w].step = "connected", ![w].save = FALSE]
    /\ Publishes(w, "connected")
    /\ OnlyWorker

SaveFails(w) ==
    /\ worker[w].step = "configured" /\ worker[w].save
    /\ Publishes(w, "stopped") /\ To(w, "over")
    /\ OnlyWorker /\ UNCHANGED saved

\* schedule_failure: the connection is tried again after a delay, or given up.
\* connect_once fails for good when its generation is over.
Fails(w) ==
    /\ \E s \in {"connecting", "approving", "serving", "connected"} : Acts(w, s)
    /\ \/ /\ worker[w].step = "connecting" => Current(w)
          /\ Publishes(w, "reconnecting") /\ To(w, "delayed")
       \/ Publishes(w, "stopped") /\ To(w, "over")
    /\ OnlyWorker /\ UNCHANGED saved

RetryDue(w) ==
    /\ Acts(w, "delayed")
    /\ Publishes(w, "connecting") /\ To(w, "connecting")
    /\ OnlyWorker /\ UNCHANGED saved

\* finish_cancelled: wherever the worker waits, it sees that it was told to end.
SeesCancel(w) ==
    /\ Live(w) /\ worker[w].told /\ worker[w].step # "configured"
    /\ Publishes(w, "idle") /\ To(w, "over")
    /\ OnlyWorker /\ UNCHANGED saved

\* An aborted task ends where it waits next.
Dies(w) ==
    /\ worker[w].killed /\ worker[w].step \notin {"none", "configured", "over"}
    /\ To(w, "over")
    /\ OnlyWorker /\ UNCHANGED <<status, context, saved>>

(* ---------------------------- specification ---------------------------- *)

CommandSteps(c) ==
    \/ BeginLookup(c) \/ LookupCancelled(c) \/ LookupFails(c) \/ LookupFinds(c)
    \/ RememberReads(c) \/ RememberWrites(c) \/ RememberFails(c) \/ Remembered(c)
    \/ BeginReconnect(c) \/ Start(c) \/ Spawn(c) \/ Settle(c)
    \/ QueueCancel(c) \/ Stop(c) \/ Disconnected(c) \/ Clear(c)
    \/ ForgetReads(c) \/ ForgetWrites(c) \/ Forgotten(c)

WorkerSteps(w) ==
    \/ Joined(w) \/ Approved(w) \/ Configured(w) \/ Saved(w) \/ SaveFails(w)
    \/ Fails(w) \/ RetryDue(w)

Next ==
    \E c \in Commands :
      \/ \E kind \in {"connect", "reconnect"} \cup Cancels, d \in Devices \cup {NoDevice} : Call(c, kind, d)
      \/ LookupRepeats(c)
      \/ CommandSteps(c)
      \/ Abort(c)
      \/ WorkerSteps(c)
      \/ SeesCancel(c)
      \/ Dies(c)

Spec == Init /\ [][Next]_vars

\* A command goes on when it can: the lookup has a time limit and so has the
\* wait for a worker.  A task goes on when it can, an aborted one ends.
Fairness == \A c \in Commands :
    WF_vars(CommandSteps(c)) /\ WF_vars(Abort(c)) /\ WF_vars(Saved(c)) /\ WF_vars(Dies(c))
FairSpec == Spec /\ Fairness

(* ------------------------------ properties ----------------------------- *)

Ended(c) == command[c].step = "over" \/ command[c].step = "clearing"

\* Once a cancel, a removal or a logout has returned and nothing was asked since,
\* nothing is left running: no worker, no input, and the status says idle
\* (windows-two-pc-acceptance.md:35, "no background retry left behind").
CancelLeavesNothing == \A c \in Commands :
    command[c].kind \in Cancels /\ Ended(c) /\ Current(c) =>
        /\ status.state = "idle" /\ context = Nobody /\ slot = Nobody
        /\ \A w \in Commands : ~Live(w)

\* Two sessions never run at once: a new worker starts when the one before it ended.
OneSession == \A v, w \in Commands : Live(v) /\ Live(w) => v = w

\* A cancel, a removal or a logout is not through yet.
CancelRuns == \E c \in Commands : command[c].kind \in Cancels /\ Running(c)

\* Input goes only to the session of the current command, and only while its
\* worker lives or the command that aborted it is about to say so.
InputHasSession == context # Nobody =>
    Current(context) /\ (Live(context) \/ CancelRuns)

\* A status that shows an attempt or a session has someone behind it who will
\* change it: its worker, its command, or a cancel that is not through yet.
StatusHasOwner ==
    status.state \notin {"idle", "stopped"} =>
        Live(status.by) \/ Running(status.by) \/ CancelRuns

\* A connect asked for after command c names the device.
AskedSince(c, d) == \E b \in Commands :
    b > c /\ command[b].kind \in {"connect", "reconnect"} /\ command[b].device = d

\* The approved connection of a device that was removed does not come back by
\* the hand of the worker that was connected to it.
ForgottenIsNotSaved == \A c \in Commands :
    command[c].kind = "forget" /\ command[c].step = "over"
        => saved # command[c].device \/ AskedSince(c, command[c].device)

\* A cancel leaves nothing behind, sessions follow one another, input and status
\* have a session behind them, and a removed device is not saved again.
ControllerAlone ==
    /\ TypeOK /\ CancelLeavesNothing /\ OneSession /\ InputHasSession
    /\ StatusHasOwner /\ ForgottenIsNotSaved

\* Every command returns, whatever the network and the workers do.
CommandsReturn == \A c \in Commands : Running(c) ~> command[c].step = "over"

\* controller.ts:982 promises of a removed device that the next connection needs
\* its identifier and password again.
ForgottenAsksAgain == \A c \in Commands :
    command[c].kind = "forget" /\ command[c].step = "over"
        => command[c].device \notin recents \/ AskedSince(c, command[c].device)

\* account-login.md:46: logging out clears the saved connection records.
LogoutClearsSaved == \A c \in Commands :
    command[c].kind = "logout" /\ command[c].step = "over"
        => saved = NoDevice \/ AskedSince(c, saved)
=============================================================================
