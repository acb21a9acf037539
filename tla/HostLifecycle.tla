--------------------------- MODULE HostLifecycle ---------------------------
(***************************************************************************)
(* The host of the Windows application: HostManager (host.rs), which owns  *)
(* the worker that shares this computer, the choice to pause sharing and   *)
(* the marker that keeps that choice over a restart of the application.    *)
(*                                                                         *)
(* The commands of the user, of the account and of the power monitor queue *)
(* for restart_lock, which is fair.  Around the lock: a pause raises       *)
(* sharing_paused before it queues; request_stop takes the worker away     *)
(* without the lock; and the task of a pairing worker that ends queues for *)
(* the lock itself, to start the normal worker again.                      *)
(***************************************************************************)
EXTENDS Integers, Sequences

CONSTANTS MaxCommands,  \* how many commands a run may issue
          MaxWorkers,   \* how many worker tasks a run may spawn
          MaxEndings    \* how often the application may end and start again

\* Commands and workers are numbered in the order they begin.
Nobody == 0
Commands == 1..MaxCommands
Workers == (MaxCommands + 1)..(MaxCommands + MaxWorkers)

VARIABLES
    paused,      \* sharing_paused
    marker,      \* the file "sharing-paused" is there
    generation,  \* lifecycle_generation
    queue,       \* restart_lock: its holder, then those who wait, in order
    command,     \* what each command is and how far it got
    slot,        \* the worker in HostManager::worker
    worker,      \* the worker tasks
    pairing,     \* pairing_active
    exiting,     \* request_stop was called: the application is on its way out
    endings,     \* how often the application ended
    promise,     \* what the last pause that returned may claim (history)
    wanted       \* the last command through the lock left sharing on (history)

vars == <<paused, marker, generation, queue, command, slot, worker, pairing,
          exiting, endings, promise, wanted>>

Kinds == {"pause", "resume", "restart", "account", "pairing", "end", "stop"}
Idle == [kind |-> "none", step |-> "idle", gen |-> 0, victim |-> Nobody, owned |-> TRUE]
NoWorker == [kind |-> "none", step |-> "none", gen |-> 0, told |-> FALSE, control |-> FALSE]

\* The steps of a command: called (a pause before it queues), waiting for the
\* lock, then stopping the worker, saving, asking, preparing; over at the end.
TypeOK ==
    /\ paused \in BOOLEAN /\ marker \in BOOLEAN /\ pairing \in BOOLEAN
    /\ exiting \in BOOLEAN /\ wanted \in BOOLEAN
    /\ generation \in Nat /\ endings \in 0..MaxEndings
    /\ queue \in Seq(Commands \cup Workers)
    /\ command \in [Commands -> [kind: Kinds \cup {"none"},
         step: {"idle", "called", "waiting", "stopping", "saving", "resuming", "asking", "preparing", "over"},
         gen: Nat, victim: Workers \cup {Nobody}, owned: BOOLEAN]]
    /\ slot \in Workers \cup {Nobody}
    /\ worker \in [Workers -> [kind: {"none", "normal", "pairing"},
         step: {"none", "preparing", "serving", "rearming", "over"},
         gen: Nat, told: BOOLEAN, control: BOOLEAN]]
    /\ promise \in {"none", "run", "kept"}

Init ==
    /\ marker \in BOOLEAN
    /\ paused \in {marker, TRUE}
    /\ generation = 0 /\ queue = <<>> /\ slot = Nobody
    /\ command = [c \in Commands |-> Idle]
    /\ worker = [w \in Workers |-> NoWorker]
    /\ pairing = FALSE /\ exiting = FALSE /\ endings = 0
    /\ promise = IF marker THEN "kept" ELSE "none"
    /\ wanted = FALSE

(* ------------------------------ helpers -------------------------------- *)

Holds(x) == queue # <<>> /\ Head(queue) = x
Release == queue' = Tail(queue)
\* The queue without x, who waits in it at most once.
Without(x) ==
    LET at == CHOOSE i \in 1..Len(queue) : queue[i] = x
    IN  IF \E i \in 1..Len(queue) : queue[i] = x
          THEN [i \in 1..(Len(queue) - 1) |-> queue[IF i < at THEN i ELSE i + 1]]
          ELSE queue
Over(c) == command' = [command EXCEPT ![c].step = "over"]
Returns(c) == Over(c) /\ Release

\* may_start_worker
MayStart(gen) == ~paused /\ gen = generation

\* A worker still shares the computer, or is about to.
Live(w) == worker[w].step \in {"preparing", "serving"}

\* next_lifecycle_generation and the start of stop_current: the worker leaves
\* its slot and is told to end; the command waits for it in step "stopping".
StopsCurrent(c) ==
    /\ generation' = generation + 1
    /\ slot' = Nobody
    /\ worker' = [w \in Workers |->
                    IF w = slot THEN [worker[w] EXCEPT !.told = TRUE] ELSE worker[w]]
    /\ command' = [command EXCEPT ![c].step = "stopping", ![c].victim = slot,
                                  ![c].gen = generation + 1]

\* A worker of this kind is spawned for generation gen and put into the slot.
Spawns(kind, gen, others) ==
    \E w \in Workers :
        /\ worker[w].step = "none"
        /\ \A v \in Workers : v < w => worker[v].step # "none"
        /\ slot' = w
        /\ worker' = [others EXCEPT ![w] =
             [kind |-> kind, gen |-> gen, told |-> FALSE, control |-> kind = "pairing",
              step |-> IF kind = "pairing" THEN "serving" ELSE "preparing"]]

\* start_normal_worker: under lifecycle_guard, unless it came too late.
StartsNormal(gen, others) ==
    IF MayStart(gen) THEN Spawns("normal", gen, others)
                     ELSE slot' = slot /\ worker' = others

(* ------------------------------ commands ------------------------------- *)

\* A command is issued.  A pause raises the flag first (pause_sharing_without_app)
\* and queues in a step of its own; the others have nothing to do before.
Call(c, kind) ==
    /\ command[c].step = "idle" /\ ~exiting
    /\ \A d \in Commands : d < c => command[d].step # "idle"
    /\ IF kind = "pause"
         THEN /\ command' = [command EXCEPT ![c].kind = kind, ![c].step = "called"]
              /\ paused' = TRUE
              /\ queue' = queue
         ELSE /\ command' = [command EXCEPT ![c].kind = kind, ![c].step = "waiting"]
              /\ queue' = Append(queue, c)
              /\ paused' = paused
    /\ UNCHANGED <<marker, generation, slot, worker, pairing, exiting, endings, promise, wanted>>

Queue(c) ==
    /\ command[c].step = "called"
    /\ command' = [command EXCEPT ![c].step = "waiting"]
    /\ queue' = Append(queue, c)
    /\ UNCHANGED <<paused, marker, generation, slot, worker, pairing, exiting, endings, promise, wanted>>

\* A newer account operation takes over: AccountOperationOwner::with_current
\* fails for this command from now on.
Superseded(c) ==
    /\ command[c].kind = "account" /\ command[c].step \in {"waiting", "stopping"}
    /\ command[c].owned
    /\ command' = [command EXCEPT ![c].owned = FALSE]
    /\ UNCHANGED <<paused, marker, generation, queue, slot, worker, pairing, exiting, endings,
                   promise, wanted>>

\* The command is of one of these kinds and has the lock.
Begins(c, kinds) ==
    command[c].kind \in kinds /\ command[c].step = "waiting" /\ Holds(c)

\* pause_sharing_locked up to its wait: the flag again, then the worker.
PausesLocked(c) ==
    /\ paused' = TRUE
    /\ StopsCurrent(c)
    /\ wanted' = FALSE
    /\ UNCHANGED <<marker, queue, pairing, exiting, endings, promise>>

BeginPause(c) == Begins(c, {"pause"}) /\ PausesLocked(c)

BeginStop(c) ==
    /\ Begins(c, {"stop"})
    /\ StopsCurrent(c)
    /\ wanted' = FALSE
    /\ UNCHANGED <<paused, marker, queue, pairing, exiting, endings, promise>>

\* restart, restart_if_account_current and start_pairing: not while paused, and
\* the account's not when its operation was superseded.
Restarts == {"restart", "account", "pairing"}

BeginRestart(c) ==
    /\ Begins(c, Restarts) /\ ~paused /\ command[c].owned
    /\ StopsCurrent(c)
    /\ wanted' = TRUE
    /\ UNCHANGED <<paused, marker, queue, pairing, exiting, endings, promise>>

RefuseRestart(c) ==
    /\ Begins(c, Restarts) /\ (paused \/ ~command[c].owned)
    /\ Returns(c)
    /\ UNCHANGED <<paused, marker, generation, slot, worker, pairing, exiting, endings, promise, wanted>>

\* resume_sharing_state: nothing to do unless paused.
BeginResume(c) ==
    /\ Begins(c, {"resume"})
    /\ IF paused THEN command' = [command EXCEPT ![c].step = "saving"] /\ queue' = queue
                 ELSE Returns(c)
    /\ UNCHANGED <<paused, marker, generation, slot, worker, pairing, exiting, endings, promise, wanted>>

\* The marker cannot be removed: sharing stays paused.
ResumeFails(c) ==
    /\ command[c].step = "saving"
    /\ Returns(c)
    /\ UNCHANGED <<paused, marker, generation, slot, worker, pairing, exiting, endings, promise, wanted>>

\* The marker goes, and with it whatever an earlier pause had promised.
ClearMarker(c) ==
    /\ command[c].step = "saving"
    /\ marker' = FALSE /\ promise' = "none"
    /\ command' = [command EXCEPT ![c].step = "resuming"]
    /\ UNCHANGED <<paused, generation, queue, slot, worker, pairing, exiting, endings, wanted>>

\* Then the flag goes down and restart_current begins.
Resume(c) ==
    /\ command[c].step = "resuming"
    /\ paused' = FALSE
    /\ StopsCurrent(c)
    /\ wanted' = TRUE
    /\ UNCHANGED <<marker, queue, pairing, exiting, endings, promise>>

\* end_current_control: there must be a worker whose control handle is known
\* and whose session is active (request_end), otherwise it is refused.
BeginEnd(c) ==
    /\ Begins(c, {"end"})
    /\ \/ /\ slot # Nobody /\ worker[slot].control /\ worker[slot].step = "serving"
          /\ command' = [command EXCEPT ![c].step = "asking"] /\ queue' = queue
       \/ Returns(c)
    /\ UNCHANGED <<paused, marker, generation, slot, worker, pairing, exiting, endings, promise, wanted>>

\* complete_end_locked: the runtime confirms within three seconds, or sharing
\* is paused as by a pause.
Confirmed(c) ==
    /\ command[c].step = "asking"
    /\ Returns(c)
    /\ UNCHANGED <<paused, marker, generation, slot, worker, pairing, exiting, endings, promise, wanted>>

Unconfirmed(c) ==
    /\ command[c].step = "asking"
    /\ PausesLocked(c)

\* The rest of stop_current: the task ended by itself ...
Stopped(c) ==
    command[c].step = "stopping" /\ command[c].victim # Nobody => worker[command[c].victim].step = "over"

\* Fault: only a worker that serves is aborted.
AbortServing(c) ==
    /\ command[c].step = "stopping" /\ ~Stopped(c) /\ Live(command[c].victim)
    /\ worker' = [worker EXCEPT ![command[c].victim].step = "over"]
    /\ UNCHANGED <<paused, marker, generation, queue, command, slot, pairing, exiting, endings,
                   promise, wanted>>

\* ... or is aborted after five seconds, even while it waits for restart_lock,
\* which the waiting command holds.
Abort(c) ==
    /\ command[c].step = "stopping" /\ ~Stopped(c)
    /\ worker' = [worker EXCEPT ![command[c].victim].step = "over"]
    /\ queue' = Without(command[c].victim)
    /\ UNCHANGED <<paused, marker, generation, command, slot, pairing, exiting, endings, promise, wanted>>

\* The worker is gone: a pause saves its marker (which may fail).
FinishPause(c) ==
    /\ command[c].step = "stopping" /\ command[c].kind \in {"pause", "end"} /\ Stopped(c)
    /\ pairing' = FALSE
    /\ \/ marker' = TRUE /\ promise' = "kept"
       \/ marker' = marker /\ promise' = IF promise = "kept" THEN "kept" ELSE "run"
    /\ Returns(c)
    /\ UNCHANGED <<paused, generation, slot, worker, exiting, endings, wanted>>

FinishStop(c) ==
    /\ command[c].step = "stopping" /\ command[c].kind = "stop" /\ Stopped(c)
    /\ pairing' = FALSE
    /\ Returns(c)
    /\ UNCHANGED <<paused, marker, generation, slot, worker, exiting, endings, promise, wanted>>

\* restart_current, and restart_if_account_current, whose operation must still
\* be the current one after the wait.
FinishRestart(c) ==
    /\ command[c].step = "stopping" /\ command[c].kind \in {"restart", "resume", "account"}
    /\ Stopped(c)
    /\ IF command[c].owned
         THEN /\ pairing' = FALSE /\ wanted' = wanted
              /\ StartsNormal(command[c].gen, worker)
         ELSE wanted' = FALSE /\ UNCHANGED <<pairing, slot, worker>>
    /\ Returns(c)
    /\ UNCHANGED <<paused, marker, generation, exiting, endings, promise>>

\* start_pairing: the worker is gone, the invitation is prepared unless the
\* lifecycle moved on.
Prepare(c) ==
    /\ command[c].step = "stopping" /\ command[c].kind = "pairing" /\ Stopped(c)
    /\ pairing' = FALSE
    /\ IF MayStart(command[c].gen)
         THEN command' = [command EXCEPT ![c].step = "preparing"] /\ queue' = queue
         ELSE Returns(c)
    /\ UNCHANGED <<paused, marker, generation, slot, worker, exiting, endings, promise, wanted>>

\* start_pairing_worker, or the normal worker again when preparing failed.
Prepared(c, ok) ==
    /\ command[c].step = "preparing"
    /\ IF MayStart(command[c].gen) /\ ok
         THEN Spawns("pairing", command[c].gen, worker) /\ pairing' = TRUE
         ELSE StartsNormal(command[c].gen, worker) /\ pairing' = pairing
    /\ Returns(c)
    /\ UNCHANGED <<paused, marker, generation, exiting, endings, promise, wanted>>

(* ------------------------------- workers ------------------------------- *)

\* run_worker: prepared, it offers its control handle if it is still current
\* (set_session_control_if_current) and serves; told meanwhile, it ends.
Ready(w) ==
    /\ worker[w].step = "preparing" /\ ~worker[w].told
    /\ worker' = [worker EXCEPT ![w].step = "serving",
                    ![w].control = MayStart(worker[w].gen) /\ slot = w]
    /\ UNCHANGED <<paused, marker, generation, queue, command, slot, pairing, exiting, endings,
                   promise, wanted>>

\* The worker ends because it is told to, or, not a pairing, by itself.
WorkerEnds(w) ==
    /\ Live(w)
    /\ worker[w].told \/ worker[w].kind = "normal"
    /\ worker' = [worker EXCEPT ![w].step = "over"]
    /\ pairing' = (pairing /\ worker[w].kind # "pairing")
    /\ UNCHANGED <<paused, marker, generation, queue, command, slot, exiting, endings, promise, wanted>>

\* The session of a pairing worker ends: its task queues for the lock.
PairingEnds(w) ==
    /\ worker[w].step = "serving" /\ worker[w].kind = "pairing"
    /\ worker' = [worker EXCEPT ![w].step = "rearming"]
    /\ pairing' = FALSE
    /\ queue' = Append(queue, w)
    /\ UNCHANGED <<paused, marker, generation, command, slot, exiting, endings, promise, wanted>>

\* Fault: the completion of a pairing does not compare the generation.
RearmAnyway(w) ==
    /\ worker[w].step = "rearming" /\ Holds(w)
    /\ StartsNormal(generation, [worker EXCEPT ![w].step = "over"])
    /\ Release
    /\ UNCHANGED <<paused, marker, generation, command, pairing, exiting, endings, promise, wanted>>

\* start_normal_worker_after_pairing.
Rearm(w) ==
    /\ worker[w].step = "rearming" /\ Holds(w)
    /\ StartsNormal(worker[w].gen, [worker EXCEPT ![w].step = "over"])
    /\ Release
    /\ UNCHANGED <<paused, marker, generation, command, pairing, exiting, endings, promise, wanted>>

(* --------------------------- the application --------------------------- *)

\* request_stop: without the lock, and without waiting for the worker.
RequestStop ==
    /\ ~exiting
    /\ exiting' = TRUE
    /\ generation' = generation + 1
    /\ slot' = Nobody
    /\ worker' = [w \in Workers |->
                    IF w = slot THEN [worker[w] EXCEPT !.told = TRUE] ELSE worker[w]]
    /\ pairing' = FALSE /\ wanted' = FALSE
    /\ UNCHANGED <<paused, marker, queue, command, endings, promise>>

\* The process ends, in order or not, and starts again: with_sharing_pause_store
\* reads the marker and takes one it cannot read for a pause.
ProcessRestarts ==
    /\ endings < MaxEndings
    /\ endings' = endings + 1
    /\ paused' \in {marker, TRUE}
    /\ generation' = 0 /\ queue' = <<>> /\ slot' = Nobody
    /\ command' = [c \in Commands |->
                     IF command[c].step = "idle" THEN Idle ELSE [command[c] EXCEPT !.step = "over"]]
    /\ worker' = [w \in Workers |->
                     IF worker[w].step = "none" THEN NoWorker ELSE [worker[w] EXCEPT !.step = "over"]]
    /\ pairing' = FALSE /\ exiting' = FALSE /\ wanted' = FALSE
    /\ promise' = IF promise = "kept" THEN "kept" ELSE "none"
    /\ UNCHANGED marker

CommandStep(c) ==
    \/ Queue(c) \/ BeginPause(c) \/ BeginStop(c) \/ BeginRestart(c) \/ RefuseRestart(c)
    \/ BeginResume(c) \/ ClearMarker(c) \/ Resume(c)
    \/ BeginEnd(c) \/ Confirmed(c) \/ Unconfirmed(c) \/ Abort(c)
    \/ FinishPause(c) \/ FinishStop(c) \/ FinishRestart(c) \/ Prepare(c)
    \/ \E ok \in BOOLEAN : Prepared(c, ok)

Next ==
    \/ \E c \in Commands : \/ \E kind \in Kinds : Call(c, kind)
                           \/ Superseded(c) \/ CommandStep(c) \/ ResumeFails(c)
    \/ \E w \in Workers : Ready(w) \/ WorkerEnds(w) \/ PairingEnds(w) \/ Rearm(w)
    \/ RequestStop \/ ProcessRestarts

Spec == Init /\ [][Next]_vars

\* A command is scheduled, waits of bounded length end (the confirmation, the
\* five seconds of stop_current, the preparation of an invitation), and so does
\* the task of a pairing worker that has the lock.  Nothing makes a worker end,
\* a removal of the marker fail or the process stop.
Fairness ==
    (\A c \in Commands : WF_vars(CommandStep(c))) /\ (\A w \in Workers : WF_vars(Rearm(w)))
FairSpec == Spec /\ Fairness

(* ----------------------------- properties ------------------------------ *)

\* Once a pause has returned, or the end of a control that was not confirmed,
\* sharing stays off until a resume removes the marker: no worker is left that
\* has not been told to end, whatever was queued, prepared or had just been
\* resumed (host.rs 443-451, 515-519).
PauseHolds ==
    promise # "none" => paused /\ \A w \in Workers : Live(w) => worker[w].told

\* A pause that returned without complaint outlives the application: the marker
\* is there until a resume removes it (host.rs 455-468).
PauseIsKept == promise = "kept" => marker

\* The only worker that shares the computer is the one in the slot, which the
\* next command finds and stops: no completion of a stale pairing, no late
\* restart puts a second one beside it (host.rs 778-781).
NoStrayWorker == \A w \in Workers : Live(w) /\ ~worker[w].told => slot = w

\* With no command under way, sharing that was last switched on and is not
\* paused has its worker, of the current generation: no interleaving of pauses,
\* pairings and restarts loses it (host.rs 691-703, 799-805).
SharingHasWorker ==
    queue = <<>> /\ wanted /\ ~paused /\ ~exiting
      /\ (\A c \in Commands : command[c].step # "called")
    => slot # Nobody /\ worker[slot].gen = generation /\ ~worker[slot].told
       /\ (worker[slot].kind = "normal" \/ worker[slot].step = "serving")

\* A restart of the account or of the power monitor that was queued before a
\* pause does not spawn while the pause waits for the lock: "Prevent an already
\* queued account/power restart from spawning while this local safety action
\* waits for the lifecycle lock" (host.rs 445-446).
PauseClosesAdmission ==
    [][\A c, d \in Commands :
         /\ command[c].kind \in {"restart", "account"} /\ slot' # slot
         /\ command[c].step = "stopping" /\ command'[c].step = "over"
         /\ command[d].kind = "pause"
         => command[d].step # "waiting"]_vars

\* Every command returns: nobody keeps restart_lock for ever, not even a pairing
\* whose task waits for the lock its own stopper holds (host.rs 807-820).
CommandsReturn ==
    \A c \in Commands : command[c].step # "idle" ~> command[c].step = "over"
=============================================================================
