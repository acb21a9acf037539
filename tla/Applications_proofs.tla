--------------------------- MODULE Applications_proofs --------------------------
(***************************************************************************)
(* The desktop applications, for any number of commands, workers, devices, *)
(* operations and sessions: the controller's commands keep out of each     *)
(* other's way, a pause of the host holds and sharing that is on has its   *)
(* worker, a control that was confirmed to be over is over, and the        *)
(* account keeps the session that was confirmed last.                      *)
(***************************************************************************)
EXTENDS MCApplications, SequenceTheorems, TLAPS

-----------------------------------------------------------------------------
(*                     The controller: ControllerConnection                *)

CommandRecords ==
    [kind: {"none", "connect", "reconnect"} \cup Cancels,
     step: {"idle", "called", "finding", "found", "remembering", "remembered", "waiting",
            "stopping", "spawned", "removing", "writing", "clearing", "over"},
     gen: 0..MaxCommands, device: Devices \cup {NoDevice}, tries: 0..MaxRetries,
     victim: Commands \cup {Nobody}, read: SUBSET Devices]
WorkerRecords ==
    [step: {"none", "connecting", "approving", "serving", "configured", "connected",
            "delayed", "over"},
     told: BOOLEAN, killed: BOOLEAN, save: BOOLEAN]
Statuses ==
    [state: {"idle", "finding", "connecting", "approval", "connected", "reconnecting",
             "stopped"}, by: Commands \cup {Nobody}]

Connects == {"connect", "reconnect"}

\* Whoever is past the wait for the lock has it.
Locked == {"stopping", "spawned", "removing", "writing"}
Waits(c) == command[c].step \in Locked \cup {"waiting"}

\* Commands are called one after the other, and each keeps its generation.
Numbered ==
    \A c \in Commands :
        /\ c > generation => command[c] = Idle /\ worker[c] = NoWorker
        /\ c <= generation => command[c].step # "idle" /\ command[c].gen = c

\* What a command is, and what its steps go with.
Kinds ==
    \A c \in Commands :
        /\ command[c].kind = "none" => command[c].step = "idle"
        /\ command[c].step \in {"finding", "found", "remembering", "remembered"} =>
               command[c].kind = "connect"
        /\ command[c].step = "spawned" => command[c].kind \in Connects
        /\ command[c].step \in {"removing", "writing"} => command[c].kind = "forget"
        /\ command[c].step = "clearing" => command[c].kind = "logout"
        /\ command[c].kind \in {"connect", "forget"} => command[c].device \in Devices
        /\ command[c].kind = "reconnect" /\ command[c].step = "called" =>
               command[c].device = NoDevice
        /\ command[c].victim # Nobody => command[c].step \in {"stopping", "removing"}
        /\ command[c].step \in {"idle", "called"} => status.by # c

\* Who has the lock is at the head of its queue, who waits is behind, once.
Queued ==
    /\ \A i \in 1..Len(queue) : Waits(queue[i])
    /\ \A i, j \in 1..Len(queue) : queue[i] = queue[j] => i = j
    /\ \A c \in Commands : command[c].step \in Locked => Holds(c)

\* The slot has a worker that nobody stopped, and is empty while somebody who has
\* the lock is past stopping it.
Slotted ==
    /\ slot # Nobody => /\ command[slot].kind \in Connects /\ command[slot].step = "over"
                        /\ worker[slot].step # "none"
                        /\ ~worker[slot].told /\ ~worker[slot].killed
    /\ \A c \in Commands : command[c].step \in Locked => slot = Nobody

Unfinished(w) == worker[w].step \notin {"none", "over"}

\* A worker that was aborted before it did anything.
Zombie(w) == worker[w].step = "connecting" /\ worker[w].killed

\* Command c waits for the end of worker w.
Awaits(c, w) == command[c].step = "stopping" /\ command[c].victim = w

\* A worker is in the slot, about to be, awaited or a zombie.
Workers ==
    \A w \in Commands :
        /\ worker[w].step # "none" =>
               command[w].kind \in Connects /\ command[w].step \in {"spawned", "over"}
        /\ command[w].step = "spawned" =>
               worker[w].step = "connecting" /\ ~worker[w].told /\ ~worker[w].killed
        /\ Unfinished(w) =>
               \/ slot = w \/ command[w].step = "spawned" \/ Zombie(w)
               \/ \E c \in Commands : Awaits(c, w)

\* Whom a command stopped was a worker, for a connect an earlier one.
Victims ==
    \A c \in Commands :
        /\ command[c].victim # Nobody => worker[command[c].victim].step # "none"
        /\ command[c].step = "stopping" /\ command[c].kind \in Connects =>
               command[c].victim < c

\* What a cancel leaves that has waited for its victim: later workers and zombies.
Through == {"removing", "writing", "clearing", "over"}
Survivors ==
    \A c, w \in Commands :
        command[c].kind \in Cancels /\ command[c].step \in Through =>
            (Unfinished(w) => w > c \/ Zombie(w))

\* Nobody asked for anything since a cancel returned.
Quiet ==
    \A c \in Commands :
        command[c].kind \in Cancels /\ Ended(c) /\ c = generation =>
            status.state = "idle" /\ context = Nobody /\ slot = Nobody

\* A cancel will set the status to idle, and one of these stops the worker.
Will(c) == command[c].kind \in Cancels /\ command[c].step \in {"called", "waiting"} \cup Locked
Stops(c) == command[c].kind \in Cancels /\ command[c].step \in Locked

\* Input, and a status that shows something, belong to the current command, or a
\* cancel is about to clear them.
Input ==
    context # Nobody => context = generation /\ (Live(context) \/ \E c \in Commands : Stops(c))
Shown ==
    status.state \notin {"idle", "stopped"} =>
        /\ status.by # Nobody
        /\ status.by = generation =>
              Live(status.by) \/ Running(status.by) \/ \E c \in Commands : Stops(c)
        /\ status.by # generation => \E c \in Commands : Will(c)

\* The inductive invariant.
IInv ==
    /\ TypeOK /\ Numbered /\ Kinds /\ Queued /\ Slotted /\ Workers /\ Victims
    /\ Survivors /\ Quiet /\ Input /\ Shown /\ ForgottenIsNotSaved

-----------------------------------------------------------------------------
(* Commands, their records and the lock. *)

LEMMA Counting == MaxCommands \in Nat /\ Commands \subseteq Nat \ {0} /\ Nobody \notin Commands
  BY ConnectionAssumption DEF Commands, Nobody

LEMMA Typed ==
    TypeOK <=>
      /\ generation \in 0..MaxCommands
      /\ queue \in Seq(Commands)
      /\ command \in [Commands -> CommandRecords]
      /\ slot \in Commands \cup {Nobody}
      /\ worker \in [Commands -> WorkerRecords]
      /\ status \in Statuses
      /\ context \in Commands \cup {Nobody}
      /\ recents \subseteq Devices /\ saved \in Devices \cup {NoDevice}
  BY DEF TypeOK, CommandRecords, WorkerRecords, Statuses

LEMMA Ready ==
    /\ Idle \in CommandRecords /\ NoWorker \in WorkerRecords
    /\ Idle.step = "idle" /\ Idle.kind = "none" /\ Idle.gen = 0 /\ Idle.victim = Nobody
    /\ NoWorker.step = "none"
<1>1. 0 \in 0..MaxCommands /\ 0 \in 0..MaxRetries
  BY ConnectionAssumption
<1> QED
  BY <1>1 DEF Idle, NoWorker, CommandRecords, WorkerRecords, Cancels

\* Command c takes a step; the others stay.
Moved(c, s) ==
    /\ command' \in [Commands -> CommandRecords]
    /\ \A d \in Commands \ {c} : command'[d] = command[d]
    /\ command'[c].step = s
    /\ command'[c].kind = command[c].kind /\ command'[c].gen = command[c].gen
    /\ \/ command'[c].device = command[c].device
       \/ command[c].kind = "reconnect" /\ command[c].step = "called"

Steps ==
    {"idle", "called", "finding", "found", "remembering", "remembered", "waiting",
     "stopping", "spawned", "removing", "writing", "clearing", "over"}

LEMMA StepMoves ==
    ASSUME TypeOK, NEW c \in Commands, NEW s \in Steps, Step(c, s)
    PROVE  Moved(c, s) /\ command'[c].victim = Nobody
<1>1. 0 \in 0..MaxRetries
  BY ConnectionAssumption
<1>2. command \in [Commands -> CommandRecords]
  BY Typed
<1> DEFINE r == [command[c] EXCEPT !.step = s, !.victim = Nobody, !.read = {}, !.tries = 0]
<1>3. r \in CommandRecords /\ r.step = s /\ r.victim = Nobody
      /\ r.kind = command[c].kind /\ r.gen = command[c].gen /\ r.device = command[c].device
  BY ZenonT(30), <1>1, <1>2 DEF Steps, CommandRecords
<1>4. command' = [command EXCEPT ![c] = r]
  BY <1>2 DEF Step
<1> HIDE DEF r
<1> QED
  BY <1>2, <1>3, <1>4 DEF Moved

LEMMA LockOrder ==
    ASSUME TypeOK, Queued
    PROVE  /\ Len(queue) \in Nat
           /\ \A c \in Commands : Holds(c) <=> 1 \in 1..Len(queue) /\ queue[1] = c
           /\ \A i \in 1..Len(queue) : queue[i] \in Commands
           /\ \A c, d \in Commands : command[c].step \in Locked /\ Holds(d) => c = d
<1>1. queue \in Seq(Commands)
  BY Typed
<1>2. Len(queue) \in Nat /\ \A i \in 1..Len(queue) : queue[i] \in Commands
  BY <1>1, LenProperties, ElementOfSeq
<1>3. queue # <<>> <=> Len(queue) # 0
  BY <1>1, EmptySeq
<1>4. queue # <<>> => Head(queue) = queue[1]
  BY <1>1, HeadTailProperties
<1> QED
  BY <1>2, <1>3, <1>4 DEF Holds, Queued

\* A command joins the queue.
LEMMA QueueGrows ==
    ASSUME TypeOK, Queued, NEW c \in Commands, ~Waits(c), Moved(c, "waiting"),
           queue' = Append(queue, c)
    PROVE  queue' \in Seq(Commands) /\ Queued'
<1>1. queue \in Seq(Commands)
  BY Typed
<1>2. /\ Len(queue) \in Nat /\ queue' \in Seq(Commands) /\ Len(queue') = Len(queue) + 1
      /\ \A i \in 1..Len(queue) : queue'[i] = queue[i]
      /\ queue'[Len(queue) + 1] = c
  BY <1>1, AppendProperties, LenProperties
<1>3. \A i \in 1..Len(queue) : queue[i] \in Commands /\ queue[i] # c /\ Waits(queue[i])
  BY LockOrder DEF Queued
<1>4. ASSUME NEW i \in 1..Len(queue')  PROVE  Waits(queue[i])'
  BY <1>2, <1>3 DEF Waits, Moved
<1>5. \A i, j \in 1..Len(queue') : queue'[i] = queue'[j] => i = j
  BY <1>2, <1>3 DEF Queued
<1>6. ASSUME NEW d \in Commands, command'[d].step \in Locked  PROVE  Holds(d)'
  <2>1. d # c /\ command[d].step \in Locked
    BY <1>6 DEF Moved, Locked
  <2>2. 1 \in 1..Len(queue) /\ queue[1] = d
    BY <2>1, LockOrder DEF Queued
  <2>3. queue' # <<>> /\ Head(queue') = queue'[1]
    BY <1>2, EmptySeq, HeadTailProperties
  <2> QED
    BY <1>2, <2>2, <2>3 DEF Holds
<1> QED
  BY <1>2, <1>4, <1>5, <1>6 DEF Queued

\* The holder of the lock lets it go.
LEMMA QueueShrinks ==
    ASSUME TypeOK, Queued, NEW c \in Commands, NEW s \in Steps \ (Locked \cup {"waiting"}),
           Holds(c), Moved(c, s), Release
    PROVE  queue' \in Seq(Commands) /\ Queued'
<1>1. queue \in Seq(Commands) /\ queue # <<>>
  BY Typed DEF Holds
<1>2. /\ Len(queue) \in Nat \ {0} /\ queue[1] = c
      /\ queue' \in Seq(Commands) /\ Len(queue') = Len(queue) - 1
      /\ \A i \in 1..Len(queue') : queue'[i] = queue[i + 1]
  BY <1>1, LockOrder, HeadTailProperties, LenProperties, EmptySeq DEF Release
<1>3. \A i \in 1..Len(queue') : i + 1 \in 1..Len(queue) /\ queue'[i] \in Commands \ {c}
  BY <1>2, LockOrder DEF Queued
<1>4. ASSUME NEW i \in 1..Len(queue')  PROVE  Waits(queue[i])'
  BY <1>2, <1>3 DEF Waits, Moved, Queued
<1>5. \A i, j \in 1..Len(queue') : queue'[i] = queue'[j] => i = j
  BY SMTT(30), <1>2, <1>3 DEF Queued
<1>6. \A d \in Commands : command'[d].step \notin Locked
  BY LockOrder DEF Moved
<1> QED
  BY <1>2, <1>4, <1>5, <1>6 DEF Queued

\* The holder goes on, or a command that is not in the queue.
LEMMA QueueStays ==
    ASSUME TypeOK, Queued, NEW c \in Commands, NEW s \in Steps, Moved(c, s), UNCHANGED queue,
           \/ Holds(c) /\ Waits(c) /\ s \in Locked
           \/ ~Waits(c) /\ s \notin Locked \cup {"waiting"}
    PROVE  queue' \in Seq(Commands) /\ Queued'
<1>1. queue \in Seq(Commands)
  BY Typed
<1>2. ASSUME NEW i \in 1..Len(queue)  PROVE  Waits(queue[i])'
  BY LockOrder DEF Waits, Moved, Queued
<1>3. \A d \in Commands : command'[d].step \in Locked => Holds(d)
  BY LockOrder DEF Moved, Queued
<1> QED
  BY <1>1, <1>2, <1>3 DEF Queued, Holds

\* What was asked for stays asked for.
LEMMA AskedStays ==
    ASSUME TypeOK, Kinds, NEW c \in Commands, NEW s \in Steps, Moved(c, s),
           NEW b \in Commands, NEW d \in Devices, AskedSince(b, d)
    PROVE  AskedSince(b, d)'
<1>1. PICK e \in Commands : e > b /\ command[e].kind \in Connects /\ command[e].device = d
  BY DEF AskedSince, Connects
<1>2. command'[e].kind = command[e].kind /\ command'[e].device = d
  BY <1>1, ConnectionAssumption DEF Moved, Kinds
<1> QED
  BY <1>1, <1>2 DEF AskedSince, Connects

LEMMA NotSaved ==
    ASSUME TypeOK, Kinds, ForgottenIsNotSaved, NEW c \in Commands, NEW s \in Steps, Moved(c, s),
           UNCHANGED saved, command[c].kind = "forget" => s # "over"
    PROVE  ForgottenIsNotSaved'
<1> SUFFICES ASSUME NEW b \in Commands, command'[b].kind = "forget", command'[b].step = "over"
             PROVE  saved' # command'[b].device \/ AskedSince(b, command[b].device)'
  BY DEF ForgottenIsNotSaved
<1>1. b # c /\ command'[b] = command[b]
  BY DEF Moved
<1>2. command[b].device \in Devices
  BY <1>1 DEF Kinds
<1>3. PICK d \in Devices : d = command[b].device
  BY <1>2
<1>4. CASE AskedSince(b, d)
  <2>1. AskedSince(b, d)'
    BY <1>4, AskedStays
  <2> QED
    BY <1>1, <1>3, <2>1 DEF AskedSince
<1>5. CASE saved # d
  BY <1>1, <1>3, <1>5
<1> QED
  BY <1>1, <1>3, <1>4, <1>5 DEF ForgottenIsNotSaved

-----------------------------------------------------------------------------
(* What an action does to the invariant, one effect after the other. *)

Frame(c, s) ==
    /\ Moved(c, s) /\ command'[c].victim = Nobody
    /\ UNCHANGED generation /\ recents' \in SUBSET Devices

\* A command that is looking a host up, or clears the recent devices, goes on.
Looking == {"finding", "found", "remembering", "remembered"}
Looks(c, s) ==
    /\ Frame(c, s) /\ UNCHANGED <<queue, slot, worker, saved>>
    /\ \/ command[c].kind \in Connects /\ command[c].step \in {"called"} \cup Looking
       \/ command[c].kind = "logout" /\ command[c].step = "clearing" /\ s = "over"
    /\ \/ s \in Looking /\ command[c].kind = "connect"
       \/ s = "over"
    /\ \/ /\ UNCHANGED <<status, context>>
          /\ s = "over" => c # generation \/ command[c].step \in {"called", "clearing"}
       \/ c = generation /\ command[c].kind = "connect" /\ s = "finding" /\ SetsStatus("finding", c)
       \/ c = generation /\ command[c].kind = "connect" /\ s = "over" /\ SetsStatus("idle", c)

LEMMA LooksKeep ==
    ASSUME IInv, NEW c \in Commands, NEW s, Looks(c, s)
    PROVE  IInv'
<1> USE DEF Looks, Frame, Looking
<1>1. /\ Moved(c, s) /\ s \in Steps \ (Locked \cup {"waiting", "idle", "called"}) /\ ~Waits(c)
      /\ command[c].step \notin {"idle", "over", "spawned"}
  BY DEF Steps, Locked, Waits
<1>2. TypeOK'
  BY SMTT(30), <1>1, Typed, Counting
    DEF IInv, TypeOK, Moved, CommandRecords, WorkerRecords, Statuses, SetsStatus
<1>3. Numbered'
  BY <1>1, Ready DEF IInv, Numbered, Moved
<1>4. Kinds'
  BY <1>1 DEF IInv, Kinds, Moved, SetsStatus, Connects
<1>5. Queued'
  BY <1>1, QueueStays DEF IInv
<1>6. Slotted'
  BY <1>1, Counting, Typed DEF IInv, Slotted, Moved, Locked
<1>7. Workers'
  BY <1>1 DEF IInv, Workers, Moved, Unfinished, Zombie, Awaits
<1>8. Victims'
  BY <1>1 DEF IInv, Victims, Moved
<1>9. Survivors'
  BY <1>1 DEF IInv, Survivors, Moved, Unfinished, Zombie, Through, Cancels, Connects
<1>10. Quiet'
  BY <1>1 DEF IInv, Quiet, Moved, Ended, Cancels, Connects, SetsStatus
<1>11. Input'
  BY <1>1 DEF IInv, Input, Moved, Live, Stops, Locked, SetsStatus
<1>12. Shown'
  <2>1. \A d \in Commands : /\ Stops(d) => Stops(d)'
                            /\ Will(d) => Will(d)'
                            /\ Running(d) /\ d # c => Running(d)'
    BY <1>1 DEF Stops, Will, Running, Moved, Locked, Cancels, Connects
  <2>2. \A d : Live(d)' <=> Live(d)
    BY DEF Live
  <2>3. s # "over" => Running(c)'
    BY DEF Running, Moved
  <2>4. command[c].step = "called" => status.by # c
    BY DEF IInv, Kinds
  <2>5. command[c].step = "clearing" /\ c = generation => status.state = "idle"
    BY DEF IInv, Quiet, Ended, Cancels
  <2>6. CASE /\ UNCHANGED <<status, context>>
             /\ s = "over" => c # generation \/ command[c].step \in {"called", "clearing"}
    BY <2>1, <2>2, <2>3, <2>4, <2>5, <2>6, Typed DEF IInv, Shown, Statuses
  <2>7. CASE s = "finding" /\ SetsStatus("finding", c) /\ c = generation
    BY <2>3, <2>7, Counting DEF Shown, SetsStatus
  <2>8. CASE SetsStatus("idle", c)
    BY <2>8 DEF Shown, SetsStatus
  <2> QED
    BY <2>6, <2>7, <2>8
<1>13. ForgottenIsNotSaved'
  BY <1>1, NotSaved DEF IInv, Connects
<1> QED
  BY <1>2, <1>3, <1>4, <1>5, <1>6, <1>7, <1>8, <1>9, <1>10, <1>11, <1>12, <1>13 DEF IInv

\* The user calls the next command.
LEMMA CallKeeps ==
    ASSUME IInv, NEW c \in Commands, NEW kind \in Connects \cup Cancels,
           NEW d \in Devices \cup {NoDevice}, Call(c, kind, d)
    PROVE  IInv'
<1>1. c = generation + 1 /\ generation \in Nat /\ command[c] = Idle /\ worker[c] = NoWorker
  <2>1. generation \in Nat /\ c > generation
    BY Typed, Counting DEF IInv, Numbered, Call
  <2>2. generation + 1 \in Commands
    BY <2>1, ConnectionAssumption DEF Commands
  <2>3. command[generation + 1].step = "idle"
    BY <2>1, <2>2, Ready DEF IInv, Numbered
  <2> QED
    BY <2>1, <2>2, <2>3, Counting DEF IInv, Numbered, Call
<1>2. /\ command' \in [Commands -> CommandRecords]
      /\ \A b \in Commands \ {c} : command'[b] = command[b]
      /\ command'[c].kind = kind /\ command'[c].step = "called" /\ command'[c].gen = c
      /\ command'[c].device = d /\ command'[c].victim = Nobody
  <2> DEFINE r == [Idle EXCEPT !.kind = kind, !.step = "called", !.gen = generation + 1, !.device = d]
  <2>0. generation + 1 \in 0..MaxCommands /\ 0 \in 0..MaxRetries
    BY <1>1, ConnectionAssumption DEF Commands
  <2>1. r \in CommandRecords /\ r.kind = kind /\ r.step = "called" /\ r.gen = c
        /\ r.device = d /\ r.victim = Nobody
    BY <1>1, <2>0 DEF Idle, CommandRecords, Connects
  <2>2. command \in [Commands -> CommandRecords] /\ command' = [command EXCEPT ![c] = r]
    BY <1>1, Typed DEF IInv, Call
  <2> HIDE DEF r
  <2> QED
    BY <2>1, <2>2
<1>3. UNCHANGED <<queue, slot, worker, status, recents, saved>> /\ generation' = c /\ context' = Nobody
  BY <1>1 DEF Call
<1>4. command[c].step = "idle" /\ command[c].kind = "none" /\ command[c].victim = Nobody
      /\ worker[c].step = "none"
  BY <1>1, Ready
<1>5. TypeOK'
  BY SMTT(30), <1>2, <1>3, Typed, ConnectionAssumption
     DEF IInv, TypeOK, CommandRecords, WorkerRecords, Statuses, Commands
<1>6. Numbered'
  BY <1>1, <1>2, <1>3, Counting DEF IInv, Numbered
<1>7. Kinds'
  <2>1. kind \in {"connect", "forget"} => d \in Devices
    BY Typed DEF IInv, Call, Offered
  <2>2. kind = "reconnect" => d = NoDevice
    BY DEF Call, Offered
  <2> QED
    BY <1>2, <1>3, <1>4, <2>1, <2>2 DEF IInv, Kinds, Connects, Cancels
<1>8. Queued'
  <2>1. \A i \in 1..Len(queue) : queue[i] \in Commands /\ queue[i] # c
    BY <1>4, LockOrder DEF IInv, Queued, Waits, Locked
  <2> QED
    BY <1>2, <1>3, <1>4, <2>1 DEF IInv, Queued, Waits, Locked, Holds
<1>9. Slotted'
  BY <1>2, <1>3, <1>4, Typed, Counting DEF IInv, Slotted, Locked
<1>10. Workers'
  BY <1>2, <1>3, <1>4 DEF IInv, Workers, Unfinished, Zombie, Awaits
<1>11. Victims'
  BY <1>2, <1>3, <1>4 DEF IInv, Victims
<1>12. Survivors'
  BY <1>2, <1>3 DEF IInv, Survivors, Through, Unfinished, Zombie
<1>13. Quiet'
  BY <1>2, <1>3 DEF Quiet, Ended
<1>14. Input'
  BY <1>3 DEF Input
<1>15. Shown'
  <2>1. status.by # c
    BY <1>4 DEF IInv, Kinds
  <2>2. status.state \notin {"idle", "stopped"} => kind \in Cancels
    BY DEF Call, Offered, Connects, Cancels
  <2>3. kind \in Cancels => Will(c)'
    BY <1>2 DEF Will
  <2> QED
    BY <1>3, <2>1, <2>2, <2>3 DEF IInv, Shown
<1>16. ForgottenIsNotSaved'
  <2> SUFFICES ASSUME NEW b \in Commands, command'[b].kind = "forget", command'[b].step = "over",
                      ~ (saved' # command'[b].device)
               PROVE  AskedSince(b, command[b].device)' /\ command'[b].device = command[b].device
    BY DEF ForgottenIsNotSaved, AskedSince
  <2>1. b # c /\ command'[b] = command[b] /\ saved = command[b].device
    BY <1>2, <1>3
  <2>2. PICK e \in Commands : e > b /\ command[e].kind \in Connects
                              /\ command[e].device = command[b].device
    BY <2>1 DEF IInv, ForgottenIsNotSaved, AskedSince, Connects
  <2>3. command'[e] = command[e]
    BY <1>2, <1>4, <2>2 DEF Connects
  <2> QED
    BY <2>1, <2>2, <2>3 DEF AskedSince, Connects
<1> QED
  BY <1>5, <1>6, <1>7, <1>8, <1>9, <1>10, <1>11, <1>12, <1>13, <1>14, <1>15, <1>16 DEF IInv

\* A command joins the queue of the lock.
Enqueues(c) ==
    /\ Frame(c, "waiting") /\ queue' = Append(queue, c)
    /\ UNCHANGED <<slot, worker, status, context, saved>>
    /\ command[c].kind # "none" /\ command[c].step \in {"called", "remembered"}

LEMMA EnqueueKeeps ==
    ASSUME IInv, NEW c \in Commands, Enqueues(c)
    PROVE  IInv'
<1> USE DEF Enqueues, Frame
<1>1. /\ Moved(c, "waiting") /\ "waiting" \in Steps /\ ~Waits(c)
      /\ command[c].step \notin {"idle", "over", "spawned"}
  BY DEF Steps, Locked, Waits
<1>2. queue' \in Seq(Commands) /\ Queued'
  BY <1>1, QueueGrows DEF IInv
<1>3. TypeOK'
  BY <1>1, <1>2, Typed, Counting
    DEF IInv, TypeOK, Moved, CommandRecords, WorkerRecords, Statuses
<1>4. Numbered'
  BY <1>1, Ready DEF IInv, Numbered, Moved
<1>5. Kinds'
  BY <1>1 DEF IInv, Kinds, Moved, Cancels
<1>6. Slotted'
  BY <1>1, Counting, Typed DEF IInv, Slotted, Moved, Locked
<1>7. Workers'
  BY <1>1 DEF IInv, Workers, Moved, Unfinished, Zombie, Awaits
<1>8. Victims'
  BY <1>1 DEF IInv, Victims, Moved
<1>9. Survivors'
  BY <1>1 DEF IInv, Survivors, Moved, Unfinished, Zombie, Through
<1>10. Quiet'
  BY <1>1 DEF IInv, Quiet, Moved, Ended
<1>11. \A d \in Commands : /\ Stops(d) => Stops(d)'
                           /\ Will(d) => Will(d)'
                           /\ Running(d) => Running(d)'
  BY <1>1 DEF Stops, Will, Running, Moved, Locked
<1>12. \A d : Live(d)' <=> Live(d)
  BY DEF Live
<1>13. Input'
  BY <1>11, <1>12 DEF IInv, Input
<1>14. Shown'
  BY <1>11, <1>12, Typed DEF IInv, Shown, Statuses
<1>15. ForgottenIsNotSaved'
  BY <1>1, NotSaved DEF IInv
<1> QED
  BY <1>2, <1>3, <1>4, <1>5, <1>6, <1>7, <1>8, <1>9, <1>10, <1>13, <1>14, <1>15 DEF IInv

\* A connect that is not the current command any more lets the lock go.
LetsGo(c) ==
    /\ Frame(c, "over")
    /\ Holds(c)
    /\ Release
    /\ UNCHANGED <<slot, worker, status, context, saved>>
    /\ command[c].kind \in Connects /\ command[c].step \in {"waiting", "stopping"}
    /\ c # generation /\ (command[c].step = "stopping" => VictimOver(c))

LEMMA LetsGoKeeps ==
    ASSUME IInv, NEW c \in Commands, LetsGo(c)
    PROVE  IInv'
<1> USE DEF LetsGo, Frame
<1>1. /\ Moved(c, "over") /\ "over" \in Steps \ (Locked \cup {"waiting"})
      /\ command[c].step \notin {"idle", "over", "spawned"}
  BY DEF Steps, Locked
<1>2. queue' \in Seq(Commands) /\ Queued'
  BY <1>1, QueueShrinks DEF IInv
<1>3. TypeOK'
  BY <1>1, <1>2, Typed, Counting
    DEF IInv, TypeOK, Moved, CommandRecords, WorkerRecords, Statuses
<1>4. Numbered'
  BY <1>1, Ready DEF IInv, Numbered, Moved
<1>5. Kinds'
  BY <1>1 DEF IInv, Kinds, Moved, Connects
<1>6. Slotted'
  BY <1>1, Counting, Typed DEF IInv, Slotted, Moved, Locked
<1>7. Workers'
  <2>1. \A w \in Commands : Unfinished(w) /\ Awaits(c, w) => FALSE
    BY Counting DEF Unfinished, Awaits, VictimOver
  <2> QED
    BY <1>1, <2>1 DEF IInv, Workers, Moved, Unfinished, Zombie, Awaits
<1>8. Victims'
  BY <1>1 DEF IInv, Victims, Moved
<1>9. Survivors'
  BY <1>1 DEF IInv, Survivors, Moved, Unfinished, Zombie, Through, Connects, Cancels
<1>10. Quiet'
  BY <1>1 DEF IInv, Quiet, Moved, Ended
<1>11. \A d \in Commands : /\ Stops(d) => Stops(d)'
                           /\ Will(d) => Will(d)'
                           /\ Running(d) /\ d = generation => Running(d)'
  BY <1>1 DEF Stops, Will, Running, Moved, Locked, Connects, Cancels
<1>12. \A d : Live(d)' <=> Live(d)
  BY DEF Live
<1>13. Input'
  BY <1>11, <1>12 DEF IInv, Input
<1>14. Shown'
  BY <1>11, <1>12, Typed DEF IInv, Shown, Statuses
<1>15. ForgottenIsNotSaved'
  BY <1>1, NotSaved DEF IInv, Connects
<1> QED
  BY <1>2, <1>3, <1>4, <1>5, <1>6, <1>7, <1>8, <1>9, <1>10, <1>13, <1>14, <1>15 DEF IInv

\* The holder of the lock takes the worker out of the slot and waits for its end.
Stopping(c) ==
    /\ Holds(c) /\ command[c].step = "waiting" /\ StopsCurrent(c)
    /\ UNCHANGED <<generation, queue, status, recents, saved>>
    /\ \/ command[c].kind \in Cancels
       \/ command[c].kind \in Connects /\ c = generation

LEMMA StoppingKeeps ==
    ASSUME IInv, NEW c \in Commands, Stopping(c)
    PROVE  IInv'
<1> USE DEF Stopping
<1>0. c <= generation /\ generation \in Nat
  BY Typed, Counting, Ready DEF IInv, Numbered
<1>1. Moved(c, "stopping") /\ "stopping" \in Steps /\ command'[c].victim = slot
  <2> DEFINE r == [command[c] EXCEPT !.step = "stopping", !.victim = slot]
  <2>1. r \in CommandRecords /\ r.step = "stopping" /\ r.victim = slot
        /\ r.kind = command[c].kind /\ r.gen = command[c].gen /\ r.device = command[c].device
    BY Typed DEF IInv, CommandRecords
  <2>2. command \in [Commands -> CommandRecords] /\ command' = [command EXCEPT ![c] = r]
    BY Typed DEF IInv, StopsCurrent
  <2> HIDE DEF r
  <2> QED
    BY <2>1, <2>2 DEF Moved, Steps
<1>2. /\ worker' \in [Commands -> WorkerRecords]
      /\ \A w \in Commands : /\ w # slot => worker'[w] = worker[w]
                             /\ worker'[w].step = worker[w].step
                             /\ worker'[w].killed = worker[w].killed
  BY Typed DEF IInv, StopsCurrent, WorkerRecords
<1>3. slot' = Nobody /\ context' = Nobody
  BY DEF StopsCurrent
<1>4. slot # c /\ worker[c].step = "none" /\ \A d \in Commands : command[d].step \notin Locked
  <2>1. \A d \in Commands : command[d].step \notin Locked
    BY LockOrder DEF IInv, Locked
  <2> QED
    BY <2>1, Counting DEF IInv, Slotted, Workers
<1>5. queue' \in Seq(Commands) /\ Queued'
  BY <1>1, QueueStays DEF IInv, Waits, Locked
<1>6. TypeOK'
  BY <1>1, <1>2, <1>3, <1>5, Typed
    DEF IInv, TypeOK, Moved, CommandRecords, WorkerRecords, Statuses
<1>7. slot # Nobody => slot <= generation /\ slot \in Commands
  <2>1. slot # Nobody => slot \in Commands /\ worker[slot].step # "none"
    BY Typed DEF IInv, Slotted
  <2>2. slot \in Commands /\ slot > generation => worker[slot].step = "none"
    BY Ready DEF IInv, Numbered
  <2>3. slot \in Commands => slot \in Nat /\ generation \in Nat
    BY Typed, Counting DEF IInv
  <2> QED
    BY <2>1, <2>2, <2>3
<1>8. Numbered'
  BY <1>1, <1>2, <1>7, Ready, Typed, Counting DEF IInv, Numbered, Moved
<1>9. Kinds'
  BY <1>1 DEF IInv, Kinds, Moved
<1>10. Slotted'
  BY <1>3 DEF Slotted
<1>11. Workers'
  BY <1>1, <1>2, <1>3, <1>4, Typed, Counting
     DEF IInv, Workers, Moved, Unfinished, Zombie, Awaits, Slotted, Locked
<1>12. Victims'
  <2>1. slot # Nobody => worker[slot].step # "none"
    BY Typed DEF IInv, Slotted
  <2>2. command[c].kind \in Connects => c = generation
    BY DEF Connects, Cancels
  <2>3. command[c].kind \in Connects => slot < c
    <3>1. CASE slot = Nobody
      BY <3>1, Counting DEF Nobody
    <3>2. CASE slot # Nobody
      <4>1. slot \in Nat /\ slot <= generation /\ slot # c /\ generation \in Nat
        BY <1>0, <1>4, <1>7, <3>2, Counting
      <4> QED
        BY <2>2, <4>1
    <3> QED
      BY <3>1, <3>2
  <2>4. \A d \in Commands \ {c} : command'[d] = command[d]
    BY <1>1 DEF Moved
  <2>5. command'[c].kind = command[c].kind
    BY <1>1 DEF Moved
  <2>6. \A w : w \in Commands => worker'[w].step = worker[w].step
    BY <1>2
  <2>7. \A d \in Commands : command[d].victim \in Commands \cup {Nobody}
    BY Typed DEF IInv, CommandRecords
  <2> QED
    BY <1>1, <1>7, <2>1, <2>3, <2>4, <2>5, <2>6, <2>7, Typed DEF IInv, Victims
<1>13. Survivors'
  BY <1>1, <1>2 DEF IInv, Survivors, Moved, Unfinished, Zombie, Through
<1>14. Quiet'
  BY <1>1, <1>3 DEF IInv, Quiet, Moved, Ended
<1>15. Input'
  BY <1>3 DEF Input
<1>16. Shown'
  <2>1. \A d \in Commands : /\ Stops(d) => Stops(d)'
                            /\ Will(d) => Will(d)'
                            /\ Running(d) => Running(d)'
    BY <1>1 DEF Stops, Will, Running, Moved, Locked
  <2>2. \A d \in Commands : Live(d)' <=> Live(d)
    BY <1>2 DEF Live
  <2> QED
    BY <2>1, <2>2, Typed DEF IInv, Shown, Statuses
<1>17. ForgottenIsNotSaved'
  BY <1>1, NotSaved DEF IInv
<1> QED
  BY <1>5, <1>6, <1>8, <1>9, <1>10, <1>11, <1>12, <1>13, <1>14, <1>15, <1>16, <1>17 DEF IInv

\* The holder of the lock is the only one who is past the wait.
LEMMA OneHolder ==
    ASSUME IInv, NEW c \in Commands, command[c].step \in Locked
    PROVE  /\ Holds(c) /\ slot = Nobody
           /\ \A d \in Commands : command[d].step \in Locked => d = c
           /\ \A w \in Commands : Unfinished(w) => command[w].step = "spawned" \/ Zombie(w)
                                                     \/ Awaits(c, w)
<1>1. Holds(c) /\ slot = Nobody
  BY DEF IInv, Queued, Slotted
<1>2. \A d \in Commands : command[d].step \in Locked => d = c
  BY <1>1, LockOrder DEF IInv
<1> QED
  BY <1>1, <1>2, Counting DEF IInv, Workers, Awaits, Locked

\* A command that was called is not later than the current one.
LEMMA CalledBefore ==
    ASSUME IInv, NEW c \in Commands, command[c].step # "idle"
    PROVE  /\ generation \in Nat /\ c \in Nat /\ c <= generation /\ command[c].gen = c
           /\ Current(c) <=> c = generation
<1>1. generation \in Nat /\ c \in Nat
  BY Typed, Counting DEF IInv
<1>2. ~ c > generation
  BY Ready DEF IInv, Numbered
<1> QED
  BY <1>1, <1>2 DEF IInv, Numbered, Current

\* The current command starts its worker.
Spawning(c) ==
    /\ command[c].kind \in Connects /\ command[c].step = "stopping" /\ VictimOver(c)
    /\ c = generation /\ Frame(c, "spawned") /\ SetsStatus("connecting", c)
    /\ worker' \in [Commands -> WorkerRecords]
    /\ \A w \in Commands \ {c} : worker'[w] = worker[w]
    /\ worker'[c].step = "connecting" /\ ~worker'[c].told /\ ~worker'[c].killed
    /\ UNCHANGED <<queue, slot, saved>>

LEMMA SpawningKeeps ==
    ASSUME IInv, NEW c \in Commands, Spawning(c)
    PROVE  IInv'
<1> USE DEF Spawning, Frame
<1>1. /\ Moved(c, "spawned") /\ "spawned" \in Steps
      /\ command[c].step \in Locked /\ command[c].kind \notin Cancels
  BY DEF Steps, Locked, Connects, Cancels
<1>2. /\ Holds(c) /\ slot = Nobody /\ \A d \in Commands : command[d].step \in Locked => d = c
      /\ \A w \in Commands : Unfinished(w) => Zombie(w)
  <2>1. \A w \in Commands : Unfinished(w) /\ Awaits(c, w) => FALSE
    BY Counting DEF Unfinished, Awaits, VictimOver
  <2> QED
    BY <1>1, <2>1, OneHolder DEF Locked
<1>3. worker[c].step = "none"
  BY DEF IInv, Workers
<1>4. queue' \in Seq(Commands) /\ Queued'
  BY <1>1, <1>2, QueueStays DEF IInv, Waits, Locked
<1>5. TypeOK'
  BY <1>1, <1>4, Typed, Counting
    DEF IInv, TypeOK, Moved, CommandRecords, WorkerRecords, Statuses, SetsStatus
<1>6. Numbered'
  BY <1>1, Ready, CalledBefore DEF IInv, Numbered, Moved
<1>7. Kinds'
  BY <1>1 DEF IInv, Kinds, Moved, SetsStatus, Connects
<1>8. Slotted'
  BY <1>2 DEF Slotted
<1>9. Workers'
  BY <1>1, <1>2 DEF IInv, Workers, Moved, Unfinished, Zombie, Locked
<1>10. Victims'
  <2>1. \A w \in Commands : worker[w].step # "none" => worker'[w].step # "none"
    BY <1>3
  <2>2. \A d \in Commands : command[d].victim \in Commands \cup {Nobody}
    BY Typed DEF IInv, CommandRecords
  <2> QED
    BY <1>1, <2>1, <2>2 DEF IInv, Victims, Moved
<1>11. Survivors'
  <2>1. \A d \in Commands : d # c /\ command[d].step # "idle" => c > d
    BY CalledBefore
  <2> QED
    BY <1>1, <1>2, <2>1 DEF Survivors, Moved, Unfinished, Zombie, Through
<1>12. Quiet'
  BY <1>1 DEF Quiet, Moved
<1>13. Input'
  BY DEF Input, SetsStatus
<1>14. Shown'
  BY Counting DEF Shown, SetsStatus, Live
<1>15. ForgottenIsNotSaved'
  BY <1>1, NotSaved DEF IInv
<1> QED
  BY <1>4, <1>5, <1>6, <1>7, <1>8, <1>9, <1>10, <1>11, <1>12, <1>13, <1>14, <1>15 DEF IInv

\* The started worker goes into the slot, or is aborted.
Settling(c) ==
    /\ command[c].step = "spawned" /\ Frame(c, "over") /\ Release
    /\ worker' \in [Commands -> WorkerRecords]
    /\ \A w \in Commands \ {c} : worker'[w] = worker[w]
    /\ worker'[c].step = worker[c].step
    /\ \/ c = generation /\ slot' = c /\ worker' = worker
       \/ c # generation /\ slot' = slot /\ worker'[c].killed
    /\ UNCHANGED <<status, context, saved>>

LEMMA SettlingKeeps ==
    ASSUME IInv, NEW c \in Commands, Settling(c)
    PROVE  IInv'
<1> USE DEF Settling, Frame
<1>1. /\ Moved(c, "over") /\ "over" \in Steps \ (Locked \cup {"waiting"})
      /\ command[c].step \in Locked
      /\ command[c].kind \in Connects
      /\ command[c].kind \notin Cancels
  BY DEF Steps, Locked, Connects, Cancels, IInv, Kinds
<1>2. /\ Holds(c) /\ slot = Nobody /\ \A d \in Commands : command[d].step \in Locked => d = c
      /\ \A w \in Commands : Unfinished(w) => w = c \/ Zombie(w)
  BY <1>1, OneHolder DEF Awaits, Locked
<1>3. worker[c].step = "connecting" /\ ~worker[c].told /\ ~worker[c].killed
  BY DEF IInv, Workers
<1>4. queue' \in Seq(Commands) /\ Queued'
  BY <1>1, <1>2, QueueShrinks DEF IInv
<1>5. TypeOK'
  BY <1>1, <1>2, <1>4, Typed, Counting
    DEF IInv, TypeOK, Moved, CommandRecords, WorkerRecords, Statuses
<1>6. Numbered'
  BY <1>1, Ready, CalledBefore DEF IInv, Numbered, Moved
<1>7. Kinds'
  BY <1>1 DEF IInv, Kinds, Moved, Connects
<1>8. Slotted'
  BY <1>1, <1>2, <1>3, Counting DEF Slotted, Moved, Locked
<1>9. Workers'
  BY <1>1, <1>2, <1>3 DEF IInv, Workers, Moved, Unfinished, Zombie, Locked
<1>10. Victims'
  <2>1. \A w \in Commands : worker[w].step # "none" => worker'[w].step # "none"
    BY <1>3
  <2>2. \A d \in Commands : command[d].victim \in Commands \cup {Nobody}
    BY Typed DEF IInv, CommandRecords
  <2> QED
    BY <1>1, <2>1, <2>2 DEF IInv, Victims, Moved
<1>11. Survivors'
  BY <1>1, <1>3 DEF IInv, Survivors, Moved, Unfinished, Zombie, Through
<1>12. Quiet'
  BY <1>1 DEF IInv, Quiet, Moved, Ended
<1>13. \A d \in Commands : /\ ~Stops(d) /\ (Will(d) => Will(d)')
                           /\ Running(d) /\ d # c => Running(d)'
  BY <1>1, <1>2 DEF Stops, Will, Running, Moved, Locked
<1>14. generation \in Commands /\ Live(generation) => Live(generation)'
  BY <1>3 DEF Live
<1>15. Input'
  BY <1>13, <1>14, Typed DEF IInv, Input
<1>16. Shown'
  <2>1. c = generation => Live(c)'
    BY <1>3 DEF Live
  <2> QED
    BY <1>13, <1>14, <2>1, Typed DEF IInv, Shown, Statuses
<1>17. ForgottenIsNotSaved'
  BY <1>1, NotSaved DEF IInv, Connects
<1> QED
  BY <1>4, <1>5, <1>6, <1>7, <1>8, <1>9, <1>10, <1>11, <1>12, <1>15, <1>16, <1>17 DEF IInv

\* The task that a command waits for is aborted.
LEMMA AbortKeeps ==
    ASSUME IInv, NEW c \in Commands, Abort(c)
    PROVE  IInv'
<1> DEFINE v == command[c].victim
<1>1. v \in Commands /\ worker[v].step \notin {"none", "over"} /\ command[c].step = "stopping"
  BY Typed DEF IInv, Abort, VictimOver, CommandRecords, Victims
<1>2. /\ worker' \in [Commands -> WorkerRecords]
      /\ \A w \in Commands : /\ w # v => worker'[w] = worker[w]
                             /\ worker'[w].step = worker[w].step
                             /\ worker'[w].told = worker[w].told
      /\ worker'[v].killed
  BY <1>1, Typed DEF IInv, Abort, WorkerRecords
<1>3. UNCHANGED <<generation, queue, command, slot, status, context, recents, saved>>
  BY DEF Abort
<1> HIDE DEF v
<1>4. /\ slot = Nobody /\ \A d \in Commands : command[d].step \in Locked => d = c
  BY <1>1, OneHolder DEF Locked
<1>5. \A w \in Commands : Unfinished(w)' = Unfinished(w) /\ (Zombie(w) => Zombie(w)')
  BY <1>2 DEF Unfinished, Zombie
<1>6. TypeOK'
  BY <1>2, <1>3, Typed DEF IInv, TypeOK, WorkerRecords
<1>7. Numbered'
  BY <1>1, <1>2, <1>3, Ready DEF IInv, Numbered
<1>8. Kinds' /\ Queued'
  BY <1>3 DEF IInv, Kinds, Queued, Waits, Holds
<1>9. Slotted'
  BY <1>3, <1>4 DEF Slotted
<1>10. Workers'
  BY <1>1, <1>2, <1>3, <1>4, <1>5 DEF IInv, Workers, Awaits, Locked
<1>11. Victims'
  BY <1>2, <1>3, Typed DEF IInv, Victims, CommandRecords
<1>12. Survivors'
  BY <1>3, <1>5 DEF IInv, Survivors
<1>13. Quiet'
  BY <1>3 DEF IInv, Quiet, Ended
<1>14. \A d \in Commands : /\ Stops(d) => Stops(d)'
                           /\ Will(d) => Will(d)'
                           /\ Running(d) => Running(d)'
  BY <1>3 DEF Stops, Will, Running
<1>15. ASSUME generation \in Commands, Live(generation)
       PROVE  Live(generation)' \/ \E d \in Commands : Stops(d)
  <2>1. CASE generation # v
    BY <1>2, <1>3, <1>15, <2>1 DEF Live
  <2>2. CASE generation = v
    <3>1. command[c].kind \notin Connects
      BY <1>1, <2>2, CalledBefore DEF IInv, Victims, v
    <3>2. Stops(c)
      BY <1>1, <3>1, Typed DEF IInv, Stops, Locked, CommandRecords, Connects, Kinds
    <3> QED
      BY <3>2
  <2> QED
    BY <2>1, <2>2
<1>16. Input'
  BY <1>3, <1>14, <1>15, Typed DEF IInv, Input
<1>17. Shown'
  BY <1>3, <1>14, <1>15, Typed DEF IInv, Shown, Statuses
<1>18. ForgottenIsNotSaved'
  BY <1>3 DEF IInv, ForgottenIsNotSaved, AskedSince
<1> QED
  BY <1>6, <1>7, <1>8, <1>9, <1>10, <1>11, <1>12, <1>13, <1>16, <1>17, <1>18 DEF IInv

\* A cancel that has waited for its victim leaves later workers and zombies only.
LEMMA Waited ==
    ASSUME IInv, NEW c \in Commands, NEW w \in Commands, Unfinished(w),
           command[c].kind \in Cancels, command[c].step \in {"stopping", "removing", "writing"},
           command[c].step = "stopping" => VictimOver(c)
    PROVE  Zombie(w)
<1>1. command[c].step \in Locked /\ command[w].step = "spawned" => c = w
  BY OneHolder DEF Locked
<1>2. command[w].step # "spawned"
  BY <1>1 DEF Locked, IInv, Kinds, Cancels, Connects
<1>3. ~Awaits(c, w)
  BY Counting DEF Awaits, VictimOver, Unfinished
<1> QED
  BY <1>2, <1>3, OneHolder DEF Locked

\* A cancel publishes that everything is idle, and lets the lock go.
Ends(c, s) ==
    /\ Frame(c, s) /\ Release /\ SetsStatus("idle", Nobody) /\ UNCHANGED <<slot, worker>>
    /\ \/ /\ command[c].kind \in {"disconnect", "logout"} /\ command[c].step = "stopping"
          /\ VictimOver(c) /\ UNCHANGED saved
          /\ s = IF command[c].kind = "logout" THEN "clearing" ELSE "over"
       \/ /\ command[c].step = "writing" /\ s = "over"
          /\ saved' = IF saved = command[c].device THEN NoDevice ELSE saved

LEMMA EndsKeep ==
    ASSUME IInv, NEW c \in Commands, NEW s, Ends(c, s)
    PROVE  IInv'
<1> USE DEF Ends, Frame
<1>1. /\ Moved(c, s) /\ s \in Steps \ (Locked \cup {"waiting"}) /\ s \in Through
      /\ s = "clearing" => command[c].kind = "logout"
      /\ command[c].step \in Locked /\ command[c].kind \in Cancels
      /\ s \notin {"idle", "called", "finding", "found", "remembering", "remembered", "spawned"}
  BY DEF Steps, Locked, Through, Cancels, IInv, Kinds
<1>2. /\ Holds(c) /\ slot = Nobody /\ \A d \in Commands : command[d].step \in Locked => d = c
      /\ \A w \in Commands : Unfinished(w) => Zombie(w)
  <2>1. command[c].step = "stopping" => VictimOver(c)
    OBVIOUS
  <2> QED
    BY <1>1, <2>1, OneHolder, Waited DEF Locked
<1>3. queue' \in Seq(Commands) /\ Queued'
  BY <1>1, <1>2, QueueShrinks DEF IInv
<1>4. TypeOK'
  <2>1. saved' \in Devices \cup {NoDevice}
    BY Typed DEF IInv
  <2> QED
    BY <1>1, <1>3, <2>1, Typed, Counting
       DEF IInv, TypeOK, Moved, CommandRecords, WorkerRecords, Statuses, SetsStatus
<1>5. Numbered'
  BY <1>1, Ready, CalledBefore DEF IInv, Numbered, Moved
<1>6. Kinds'
  BY <1>1, Counting DEF IInv, Kinds, Moved, SetsStatus, Cancels
<1>7. Slotted'
  BY <1>2 DEF Slotted
<1>8. Workers'
  BY <1>1, <1>2 DEF IInv, Workers, Moved, Unfinished, Zombie, Locked, Connects, Cancels
<1>9. Victims'
  BY <1>1 DEF IInv, Victims, Moved
<1>10. Survivors'
  BY <1>2 DEF Survivors, Unfinished, Zombie
<1>11. Quiet' /\ Input' /\ Shown'
  BY <1>2 DEF Quiet, Input, Shown, SetsStatus
<1>12. ForgottenIsNotSaved'
  <2>1. saved' = saved \/ saved' = NoDevice
    OBVIOUS
  <2>2. command[c].kind = "forget" => saved' # command[c].device /\ command[c].device \in Devices
    BY ConnectionAssumption DEF IInv, Kinds
  <2> SUFFICES ASSUME NEW b \in Commands, command'[b].kind = "forget", command'[b].step = "over",
                      ~ (saved' # command'[b].device)
               PROVE  AskedSince(b, command[b].device)' /\ command'[b].device = command[b].device
    BY DEF ForgottenIsNotSaved, AskedSince
  <2>3. b # c /\ command'[b] = command[b]
    BY <1>1, <2>2 DEF Moved, Cancels
  <2>4. command[b].device \in Devices /\ saved = command[b].device
    BY <2>1, <2>3, ConnectionAssumption DEF IInv, Kinds
  <2>5. AskedSince(b, command[b].device)
    BY <2>3, <2>4 DEF IInv, ForgottenIsNotSaved
  <2>6. PICK d \in Devices : d = command[b].device
    BY <2>4
  <2>7. AskedSince(b, d)'
    BY <1>1, <2>5, <2>6, AskedStays DEF IInv
  <2> QED
    BY <2>3, <2>6, <2>7 DEF AskedSince
<1> QED
  BY <1>3, <1>4, <1>5, <1>6, <1>7, <1>8, <1>9, <1>10, <1>11, <1>12 DEF IInv

\* A removal takes the device out of the recent ones.
Removes(c, s) ==
    /\ Moved(c, s) /\ command'[c].victim \in {command[c].victim, Nobody}
    /\ UNCHANGED <<generation, queue, slot, worker, status, context, saved>>
    /\ recents' \in SUBSET Devices
    /\ \/ command[c].kind = "forget" /\ command[c].step = "stopping" /\ VictimOver(c) /\ s = "removing"
       \/ command[c].step = "removing" /\ s = "writing" /\ command'[c].victim = Nobody

LEMMA RemovesKeep ==
    ASSUME IInv, NEW c \in Commands, NEW s, Removes(c, s)
    PROVE  IInv'
<1> USE DEF Removes
<1>1. /\ Moved(c, s) /\ s \in Steps /\ s \in Locked /\ s \in Through
      /\ s \in {"removing", "writing"}
      /\ command[c].step \in Locked /\ command[c].kind = "forget" /\ command[c].kind \in Cancels
  BY DEF Steps, Locked, Through, Cancels, IInv, Kinds
<1>2. /\ Holds(c) /\ slot = Nobody /\ \A d \in Commands : command[d].step \in Locked => d = c
      /\ \A w \in Commands : Unfinished(w) => Zombie(w)
  <2>1. command[c].step = "stopping" => VictimOver(c)
    OBVIOUS
  <2> QED
    BY <1>1, <2>1, OneHolder, Waited DEF Locked
<1>3. queue' \in Seq(Commands) /\ Queued'
  BY <1>1, <1>2, QueueStays DEF IInv, Waits
<1>4. TypeOK'
  BY <1>1, <1>3, Typed DEF IInv, TypeOK, Moved, CommandRecords, WorkerRecords, Statuses
<1>5. Numbered'
  BY <1>1, Ready, CalledBefore DEF IInv, Numbered, Moved
<1>6. Kinds'
  BY <1>1 DEF IInv, Kinds, Moved
<1>7. Slotted'
  BY <1>2 DEF Slotted
<1>8. Workers'
  BY <1>1, <1>2 DEF IInv, Workers, Moved, Unfinished, Zombie, Locked, Connects, Cancels
<1>9. Victims'
  BY <1>1 DEF IInv, Victims, Moved
<1>10. Survivors'
  BY <1>2 DEF Survivors, Unfinished, Zombie
<1>11. Quiet'
  BY <1>1 DEF IInv, Quiet, Moved, Ended
<1>12. \A d \in Commands : /\ Stops(d) => Stops(d)'
                           /\ Will(d) => Will(d)'
                           /\ Running(d) => Running(d)'
  BY <1>1 DEF Stops, Will, Running, Moved, Locked
<1>13. \A d : Live(d)' <=> Live(d)
  BY DEF Live
<1>14. Input' /\ Shown'
  BY <1>12, <1>13, Typed DEF IInv, Input, Shown, Statuses
<1>15. ForgottenIsNotSaved'
  BY <1>1, NotSaved DEF IInv
<1> QED
  BY <1>3, <1>4, <1>5, <1>6, <1>7, <1>8, <1>9, <1>10, <1>11, <1>14, <1>15 DEF IInv

\* Worker w takes a step; what it publishes is the current command's.
Works(w, s) ==
    /\ Unfinished(w) /\ command[w].step # "spawned"
    /\ UNCHANGED <<generation, queue, command, slot, recents>>
    /\ worker' \in [Commands -> WorkerRecords]
    /\ \A v \in Commands \ {w} : worker'[v] = worker[v]
    /\ worker'[w].step = s /\ s # "none"
    /\ worker'[w].told = worker[w].told /\ worker'[w].killed = worker[w].killed
    /\ Zombie(w) => s = "over"
    /\ saved' \in {saved, command[w].device} /\ (saved' # saved => s = "connected")
    /\ \/ UNCHANGED <<status, context>> /\ (s = "over" => w # generation \/ worker[w].killed)
       \/ w = generation /\ UNCHANGED status /\ context' = w /\ s = "configured" /\ Live(w)
       \/ /\ w = generation
          /\ \/ \E t \in {"idle", "stopped"} : SetsStatus(t, w)
             \/ /\ s \notin {"none", "over"}
                /\ \E t \in {"approval", "connected", "reconnecting", "connecting"} : SetsStatus(t, w)

LEMMA WorksKeep ==
    ASSUME IInv, NEW w \in Commands, NEW s, Works(w, s)
    PROVE  IInv'
<1> USE DEF Works
<1>1. /\ command[w].kind \in Connects
      /\ command[w].kind \notin Cancels
      /\ command[w].step = "over"
      /\ worker[w].step \notin {"none", "over"}
  BY DEF IInv, Workers, Unfinished, Connects, Cancels
<1>2. \A v \in Commands : worker'[v].step = "none" <=> worker[v].step = "none"
  BY <1>1
<1>3. \A v \in Commands : Unfinished(v)' => Unfinished(v) /\ (Zombie(v) => Zombie(v)')
  BY <1>1 DEF Unfinished, Zombie
<1>4. TypeOK'
  <2>1. saved' \in Devices \cup {NoDevice} /\ context' \in Commands \cup {Nobody}
    BY Typed DEF IInv, CommandRecords, SetsStatus
  <2>2. status' \in Statuses
    BY Typed DEF IInv, SetsStatus, Statuses
  <2> QED
    BY <2>1, <2>2, Typed DEF IInv, TypeOK, CommandRecords, WorkerRecords, Statuses
<1>5. Numbered'
  BY <1>1, CalledBefore DEF IInv, Numbered
<1>6. Kinds'
  BY <1>1 DEF IInv, Kinds, SetsStatus
<1>7. Queued'
  BY DEF IInv, Queued, Waits, Holds
<1>8. Slotted'
  BY <1>2, Typed DEF IInv, Slotted
<1>9. Workers'
  BY <1>1, <1>2, <1>3 DEF IInv, Workers, Awaits
<1>10. Victims'
  BY ZenonT(30), <1>2, Typed DEF IInv, Victims, CommandRecords
<1>11. Survivors'
  BY <1>3 DEF IInv, Survivors
<1>12. Quiet'
  BY <1>1 DEF IInv, Quiet, Ended, SetsStatus
<1>13. \A d \in Commands : (Stops(d)' <=> Stops(d)) /\ (Will(d)' <=> Will(d)) /\ (Running(d)' <=> Running(d))
  BY DEF Stops, Will, Running
<1>14. \A v \in Commands \ {w} : Live(v)' <=> Live(v)
  BY DEF Live
<1>15. s # "over" => (Live(w)' <=> Live(w))
  BY <1>1 DEF Live
<1>16. worker[w].killed => ~Live(w)
  BY DEF Live
<1>17. Input'
  BY <1>13, <1>14, <1>15, <1>16, Typed DEF IInv, Input, SetsStatus
<1>18. w = generation /\ s # "over" => Live(w)' \/ \E d \in Commands : Stops(d)'
  <2> SUFFICES ASSUME w = generation, s # "over", worker[w].killed
               PROVE  \E d \in Commands : Stops(d)
    BY <1>1, <1>13 DEF Live
  <2>1. slot # w
    BY Counting DEF IInv, Slotted
  <2>2. PICK d \in Commands : Awaits(d, w)
    BY <2>1 DEF IInv, Workers
  <2>3. command[d].kind \notin Connects
    BY <2>2, CalledBefore DEF IInv, Victims, Awaits
  <2>4. Stops(d)
    BY <2>2, <2>3, Typed DEF IInv, Stops, Locked, CommandRecords, Connects, Kinds, Awaits
  <2> QED
    BY <2>4
<1>19. Shown'
  <2>1. CASE \E t \in {"idle", "stopped"} : SetsStatus(t, w)
    BY <2>1 DEF Shown, SetsStatus
  <2>2. CASE /\ w = generation /\ s \notin {"none", "over"}
             /\ \E t \in {"approval", "connected", "reconnecting", "connecting"} : SetsStatus(t, w)
    BY <1>18, <2>2, Counting DEF Shown, SetsStatus
  <2>3. CASE UNCHANGED status /\ (s = "over" => w # generation \/ worker[w].killed)
    BY <1>13, <1>14, <1>15, <1>16, <2>3, Typed DEF IInv, Shown, Statuses
  <2> QED
    BY <2>1, <2>2, <2>3
<1>20. ForgottenIsNotSaved'
  <2> SUFFICES ASSUME NEW b \in Commands, command[b].kind = "forget", command[b].step = "over",
                      ~ (saved' # command[b].device)
               PROVE  AskedSince(b, command[b].device)
    BY DEF ForgottenIsNotSaved, AskedSince
  <2>1. CASE saved' = saved
    BY <2>1 DEF IInv, ForgottenIsNotSaved
  <2>2. CASE saved' # saved
    <3>1. w > b
      BY <2>2 DEF IInv, Survivors, Cancels, Through
    <3> QED
      BY <1>1, <2>2, <3>1 DEF AskedSince, Connects
  <2> QED
    BY <2>1, <2>2
<1> QED
  BY <1>4, <1>5, <1>6, <1>7, <1>8, <1>9, <1>10, <1>11, <1>12, <1>17, <1>19, <1>20 DEF IInv

-----------------------------------------------------------------------------
(* Every action has one of these effects. *)

LEMMA CommandsWork ==
    ASSUME IInv, NEW c \in Commands, CommandSteps(c) \/ LookupRepeats(c)
    PROVE  IInv'
<1> USE DEF Connects
<1>a. command[c].step # "idle" => (Current(c) <=> c = generation)
  BY CalledBefore
<1>b. recents \in SUBSET Devices /\ command[c].read \in SUBSET Devices
      /\ (command[c].kind = "connect" => command[c].device \in Devices \cup {NoDevice})
  BY Typed DEF IInv, CommandRecords
<1>c. \A s \in Steps : Step(c, s) => Moved(c, s) /\ command'[c].victim = Nobody
  BY StepMoves DEF IInv
<1>d. command[c].step \in Locked => Holds(c)
  BY DEF IInv, Queued
<1>1. CASE BeginLookup(c)
  <2>1. Looks(c, "finding")
    BY <1>1, <1>a, <1>b, <1>c DEF BeginLookup, Publishes, Looks, Frame, Looking, Steps
  <2> QED
    BY <2>1, LooksKeep
<1>2. CASE LookupCancelled(c) \/ LookupFails(c) \/ LookupFinds(c)
  <2>1. command[c].kind = "connect"
    BY <1>2 DEF LookupCancelled, LookupFails, LookupFinds, IInv, Kinds
  <2>2. CASE LookupCancelled(c) \/ LookupFails(c)
    <3>1. Looks(c, "over")
      BY <2>1, <2>2, <1>a, <1>b, <1>c
         DEF LookupCancelled, LookupFails, Publishes, Looks, Frame, Looking, Steps
    <3> QED
      BY <3>1, LooksKeep
  <2>3. CASE LookupFinds(c)
    <3>1. Looks(c, "found")
      BY <2>1, <2>3, <1>a, <1>b, <1>c DEF LookupFinds, Looks, Frame, Looking, Steps
    <3> QED
      BY <3>1, LooksKeep
  <2> QED
    BY <1>2, <2>2, <2>3
<1>3. CASE RememberReads(c) \/ LookupRepeats(c)
  <2>1. /\ command[c].kind = "connect" /\ command[c].victim = Nobody
        /\ command[c].step \in {"found", "finding"}
    BY <1>3 DEF RememberReads, LookupRepeats, IInv, Kinds
  <2>2. CASE RememberReads(c)
    <3> DEFINE r == [command[c] EXCEPT !.step = "remembering", !.read = recents]
    <3>1. r \in CommandRecords /\ r.step = "remembering" /\ r.victim = command[c].victim
          /\ r.kind = command[c].kind /\ r.gen = command[c].gen /\ r.device = command[c].device
      BY <1>b, Typed DEF IInv, CommandRecords
    <3>2. command \in [Commands -> CommandRecords] /\ command' = [command EXCEPT ![c] = r]
      BY <2>2, Typed DEF IInv, RememberReads
    <3> HIDE DEF r
    <3>3. Moved(c, "remembering") /\ command'[c].victim = Nobody
      BY <2>1, <3>1, <3>2 DEF Moved
    <3>4. Looks(c, "remembering")
      BY <2>1, <2>2, <3>3, <1>b DEF RememberReads, Looks, Frame, Looking
    <3> QED
      BY <3>4, LooksKeep
  <2>3. CASE LookupRepeats(c)
    <3> DEFINE r == [command[c] EXCEPT !.tries = @ + 1]
    <3>0. command[c].tries + 1 \in 0..MaxRetries
      BY <2>3, Typed, ConnectionAssumption DEF IInv, CommandRecords, LookupRepeats
    <3>1. r \in CommandRecords /\ r.step = "finding" /\ r.victim = command[c].victim
          /\ r.kind = command[c].kind /\ r.gen = command[c].gen /\ r.device = command[c].device
      BY <2>3, <3>0, Typed DEF IInv, CommandRecords, LookupRepeats
    <3>2. command \in [Commands -> CommandRecords] /\ command' = [command EXCEPT ![c] = r]
      BY <2>3, Typed DEF IInv, LookupRepeats
    <3> HIDE DEF r
    <3>3. Moved(c, "finding") /\ command'[c].victim = Nobody
      BY <2>1, <3>1, <3>2 DEF Moved
    <3>4. Looks(c, "finding")
      BY <2>1, <2>3, <3>3, <1>a, <1>b DEF LookupRepeats, Publishes, Looks, Frame, Looking
    <3> QED
      BY <3>4, LooksKeep
  <2> QED
    BY <1>3, <2>2, <2>3
<1>4. CASE RememberWrites(c) \/ RememberFails(c)
  <2>1. command[c].kind = "connect" /\ command[c].step = "remembering"
    BY <1>4 DEF RememberWrites, RememberFails, IInv, Kinds
  <2>2. CASE RememberWrites(c)
    <3>1. recents' \in SUBSET Devices
      BY <2>1, <2>2, <1>b DEF IInv, Kinds, RememberWrites
    <3>2. Looks(c, "remembered")
      BY <2>1, <2>2, <3>1, <1>c DEF RememberWrites, Looks, Frame, Looking, Steps
    <3> QED
      BY <3>2, LooksKeep
  <2>3. CASE RememberFails(c)
    <3>1. Looks(c, "over")
      BY <2>1, <2>3, <1>a, <1>b, <1>c DEF RememberFails, Publishes, Looks, Frame, Looking, Steps
    <3> QED
      BY <3>1, LooksKeep
  <2> QED
    BY <1>4, <2>2, <2>3
<1>5. CASE Remembered(c)
  <2>1. command[c].kind = "connect" /\ command[c].step = "remembered"
    BY <1>5 DEF Remembered, IInv, Kinds
  <2>2. CASE Current(c)
    <3>1. Enqueues(c)
      BY <1>5, <2>1, <2>2, <1>b, <1>c DEF Remembered, Enqueues, Frame, Steps
    <3> QED
      BY <3>1, EnqueueKeeps
  <2>3. CASE ~Current(c)
    <3>1. Looks(c, "over")
      BY <1>5, <2>1, <2>3, <1>a, <1>b, <1>c DEF Remembered, Looks, Frame, Looking, Steps
    <3> QED
      BY <3>1, LooksKeep
  <2> QED
    BY <2>2, <2>3
<1>6. CASE BeginReconnect(c)
  <2>1. CASE saved = NoDevice
    <3>1. Looks(c, "over")
      BY <1>6, <2>1, <1>b, <1>c DEF BeginReconnect, Looks, Frame, Looking, Steps
    <3> QED
      BY <3>1, LooksKeep
  <2>2. CASE saved # NoDevice
    <3> DEFINE r == [command[c] EXCEPT !.step = "waiting", !.device = saved]
    <3>1. r \in CommandRecords /\ r.step = "waiting" /\ r.victim = command[c].victim
          /\ r.kind = command[c].kind /\ r.gen = command[c].gen
      BY Typed DEF IInv, CommandRecords
    <3>2. command \in [Commands -> CommandRecords] /\ command' = [command EXCEPT ![c] = r]
      BY <1>6, <2>2, Typed DEF IInv, BeginReconnect
    <3>3. command[c].victim = Nobody
      BY <1>6 DEF IInv, Kinds, BeginReconnect
    <3> HIDE DEF r
    <3>4. Moved(c, "waiting") /\ command'[c].victim = Nobody
      BY <1>6, <3>1, <3>2, <3>3 DEF Moved, BeginReconnect
    <3>5. Enqueues(c)
      BY <1>6, <2>2, <3>4, <1>b DEF BeginReconnect, Enqueues, Frame
    <3> QED
      BY <3>5, EnqueueKeeps
  <2> QED
    BY <2>1, <2>2
<1>7. CASE Start(c)
  <2>1. CASE Current(c)
    <3>1. Stopping(c)
      BY <1>7, <2>1, <1>a DEF Start, Stopping
    <3> QED
      BY <3>1, StoppingKeeps
  <2>2. CASE ~Current(c)
    <3>1. LetsGo(c)
      BY <1>7, <2>2, <1>a, <1>b, <1>c DEF Start, LetsGo, Frame, Steps
    <3> QED
      BY <3>1, LetsGoKeeps
  <2> QED
    BY <2>1, <2>2
<1>8. CASE Spawn(c)
  <2>1. CASE Current(c)
    <3> DEFINE r == [NoWorker EXCEPT !.step = "connecting", !.save = command[c].kind = "connect"]
    <3>1. r \in WorkerRecords /\ r.step = "connecting" /\ ~r.told /\ ~r.killed
      BY DEF NoWorker, WorkerRecords
    <3>2. worker \in [Commands -> WorkerRecords] /\ worker' = [worker EXCEPT ![c] = r]
      BY <1>8, <2>1, Typed DEF IInv, Spawn
    <3> HIDE DEF r
    <3>3. Spawning(c)
      BY <1>8, <2>1, <3>1, <3>2, <1>a, <1>b, <1>c DEF Spawn, Publishes, Spawning, Frame, Steps
    <3> QED
      BY <3>3, SpawningKeeps
  <2>2. CASE ~Current(c)
    <3>1. LetsGo(c)
      BY <1>8, <2>2, <1>a, <1>b, <1>c, <1>d DEF Spawn, LetsGo, Frame, Steps, Locked
    <3> QED
      BY <3>1, LetsGoKeeps
  <2> QED
    BY <2>1, <2>2
<1>9. CASE Settle(c)
  <2>1. /\ worker' \in [Commands -> WorkerRecords]
        /\ \A w \in Commands \ {c} : worker'[w] = worker[w]
        /\ worker'[c].step = worker[c].step /\ (~Current(c) => worker'[c].killed)
    BY ZenonT(30), <1>9, Typed DEF IInv, Settle, WorkerRecords
  <2>2. Settling(c)
    BY <1>9, <2>1, <1>a, <1>b, <1>c DEF Settle, Settling, Frame, Steps
  <2> QED
    BY <2>2, SettlingKeeps
<1>10. CASE QueueCancel(c)
  <2>1. Enqueues(c)
    BY <1>10, <1>b, <1>c DEF QueueCancel, Enqueues, Frame, Steps, Cancels
  <2> QED
    BY <2>1, EnqueueKeeps
<1>11. CASE Stop(c)
  <2>1. Stopping(c)
    BY <1>11 DEF Stop, Stopping
  <2> QED
    BY <2>1, StoppingKeeps
<1>12. CASE Disconnected(c)
  <2> DEFINE s == IF command[c].kind = "logout" THEN "clearing" ELSE "over"
  <2>1. Ends(c, s)
    BY <1>12, <1>b, <1>c DEF Disconnected, Ends, Frame, Steps
  <2> QED
    BY <2>1, EndsKeep
<1>13. CASE Clear(c)
  <2>1. Looks(c, "over")
    BY <1>13, <1>c DEF Clear, Looks, Frame, Looking, Steps, IInv, Kinds
  <2> QED
    BY <2>1, LooksKeep
<1>14. CASE ForgetReads(c)
  <2> DEFINE r == [command[c] EXCEPT !.step = "removing", !.read = recents]
  <2>1. r \in CommandRecords /\ r.step = "removing" /\ r.victim = command[c].victim
        /\ r.kind = command[c].kind /\ r.gen = command[c].gen /\ r.device = command[c].device
    BY <1>b, Typed DEF IInv, CommandRecords
  <2>2. command \in [Commands -> CommandRecords] /\ command' = [command EXCEPT ![c] = r]
    BY <1>14, Typed DEF IInv, ForgetReads
  <2> HIDE DEF r
  <2>3. Moved(c, "removing") /\ command'[c].victim = command[c].victim
    BY <2>1, <2>2 DEF Moved
  <2>4. Removes(c, "removing")
    BY <1>14, <2>3, <1>b DEF ForgetReads, Removes
  <2> QED
    BY <2>4, RemovesKeep
<1>15. CASE ForgetWrites(c)
  <2>1. recents' \in SUBSET Devices
    BY <1>15, <1>b DEF ForgetWrites
  <2>2. Removes(c, "writing")
    BY <1>15, <2>1, <1>c DEF ForgetWrites, Removes, Steps
  <2> QED
    BY <2>2, RemovesKeep
<1>16. CASE Forgotten(c)
  <2>1. Ends(c, "over")
    BY <1>16, <1>b, <1>c DEF Forgotten, Ends, Frame, Steps
  <2> QED
    BY <2>1, EndsKeep
<1> QED
  BY <1>1, <1>2, <1>3, <1>4, <1>5, <1>6, <1>7, <1>8, <1>9, <1>10, <1>11, <1>12, <1>13,
     <1>14, <1>15, <1>16 DEF CommandSteps

LEMMA WorkersWork ==
    ASSUME IInv, NEW w \in Commands, WorkerSteps(w) \/ SeesCancel(w) \/ Dies(w)
    PROVE  IInv'
<1> USE DEF OnlyWorker, Unfinished, Live, Acts, Zombie
<1>a. worker[w].step \notin {"none", "over"} /\ command[w].step # "spawned"
  BY DEF IInv, Workers, WorkerSteps, Joined, Approved, Configured, Saved, SaveFails, Fails,
         RetryDue, SeesCancel, Dies
<1>b. Current(w) <=> w = generation
  BY <1>a, CalledBefore DEF IInv, Workers
<1>c. ASSUME NEW s \in {"connecting", "approving", "serving", "configured", "connected",
                        "delayed", "over"}, To(w, s)
      PROVE  /\ worker' \in [Commands -> WorkerRecords]
             /\ \A v \in Commands \ {w} : worker'[v] = worker[v]
             /\ worker'[w].step = s /\ s # "none"
             /\ worker'[w].told = worker[w].told /\ worker'[w].killed = worker[w].killed
  BY <1>c, Typed DEF IInv, To, WorkerRecords
<1>1. CASE Joined(w)
  <2>1. Works(w, "approving")
    BY <1>1, <1>a, <1>b, <1>c DEF Joined, Publishes, Works
  <2> QED
    BY <2>1, WorksKeep
<1>2. CASE Approved(w)
  <2>1. CASE Current(w)
    <3>1. Works(w, "serving")
      BY <1>2, <2>1, <1>a, <1>b, <1>c DEF Approved, Works
    <3> QED
      BY <3>1, WorksKeep
  <2>2. CASE ~Current(w)
    <3>1. Works(w, "over")
      BY <1>2, <2>2, <1>a, <1>b, <1>c DEF Approved, Works
    <3> QED
      BY <3>1, WorksKeep
  <2> QED
    BY <2>1, <2>2
<1>3. CASE Configured(w)
  <2>1. Works(w, "configured")
    BY <1>3, <1>a, <1>b, <1>c DEF Configured, Works
  <2> QED
    BY <2>1, WorksKeep
<1>4. CASE Saved(w)
  <2>1. /\ worker' \in [Commands -> WorkerRecords]
        /\ \A v \in Commands \ {w} : worker'[v] = worker[v]
        /\ worker'[w].step = "connected"
        /\ worker'[w].told = worker[w].told /\ worker'[w].killed = worker[w].killed
    BY <1>4, Typed DEF IInv, Saved, WorkerRecords
  <2>2. Works(w, "connected")
    BY <1>4, <2>1, <1>a, <1>b DEF Saved, Publishes, Works
  <2> QED
    BY <2>2, WorksKeep
<1>5. CASE SaveFails(w)
  <2>1. Works(w, "over")
    BY <1>5, <1>a, <1>b, <1>c DEF SaveFails, Publishes, Works
  <2> QED
    BY <2>1, WorksKeep
<1>6. CASE Fails(w)
  <2>1. CASE Publishes(w, "reconnecting") /\ To(w, "delayed")
    <3>1. Works(w, "delayed")
      BY <1>6, <2>1, <1>a, <1>b, <1>c DEF Fails, Publishes, Works
    <3> QED
      BY <3>1, WorksKeep
  <2>2. CASE Publishes(w, "stopped") /\ To(w, "over")
    <3>1. Works(w, "over")
      BY <1>6, <2>2, <1>a, <1>b, <1>c DEF Fails, Publishes, Works
    <3> QED
      BY <3>1, WorksKeep
  <2> QED
    BY <1>6, <2>1, <2>2 DEF Fails
<1>7. CASE RetryDue(w)
  <2>1. Works(w, "connecting")
    BY <1>7, <1>a, <1>b, <1>c DEF RetryDue, Publishes, Works
  <2> QED
    BY <2>1, WorksKeep
<1>8. CASE SeesCancel(w)
  <2>1. Works(w, "over")
    BY <1>8, <1>a, <1>b, <1>c DEF SeesCancel, Publishes, Works
  <2> QED
    BY <2>1, WorksKeep
<1>9. CASE Dies(w)
  <2>1. Works(w, "over")
    BY <1>9, <1>a, <1>b, <1>c DEF Dies, Works
  <2> QED
    BY <2>1, WorksKeep
<1> QED
  BY <1>1, <1>2, <1>3, <1>4, <1>5, <1>6, <1>7, <1>8, <1>9 DEF WorkerSteps

LEMMA Starts == Init => IInv
<1> SUFFICES ASSUME Init  PROVE IInv
  OBVIOUS
<1> USE DEF Init
<1>1. /\ \A c \in Commands : command[c] = Idle /\ worker[c] = NoWorker
      /\ \A c \in Commands : command[c].step = "idle" /\ command[c].kind = "none"
                             /\ command[c].victim = Nobody /\ worker[c].step = "none"
  BY Ready
<1>2. TypeOK
  BY <1>1, Ready, Typed, ConnectionAssumption DEF Statuses
<1>3. Numbered /\ Kinds
  BY <1>1, Counting DEF Numbered, Kinds, Nobody
<1>4. Queued
  BY <1>1 DEF Queued, Locked
<1>5. Slotted /\ Workers /\ Victims /\ Survivors
  BY <1>1 DEF Slotted, Workers, Victims, Survivors, Unfinished, Locked, Cancels
<1>6. Quiet /\ Input /\ Shown /\ ForgottenIsNotSaved
  BY <1>1 DEF Quiet, Input, Shown, ForgottenIsNotSaved, Cancels
<1> QED
  BY <1>2, <1>3, <1>4, <1>5, <1>6 DEF IInv

LEMMA Stays == IInv /\ [Next]_vars => IInv'
<1> SUFFICES ASSUME IInv, [Next]_vars  PROVE IInv'
  OBVIOUS
<1>1. ASSUME NEW c \in Commands,
             NEW kind \in {"connect", "reconnect"} \cup Cancels, NEW d \in Devices \cup {NoDevice},
             Call(c, kind, d)
      PROVE  IInv'
  BY <1>1, CallKeeps DEF Connects
<1>2. ASSUME NEW c \in Commands, LookupRepeats(c) \/ CommandSteps(c)  PROVE IInv'
  BY <1>2, CommandsWork
<1>3. ASSUME NEW c \in Commands, Abort(c)  PROVE IInv'
  BY <1>3, AbortKeeps
<1>4. ASSUME NEW c \in Commands, WorkerSteps(c) \/ SeesCancel(c) \/ Dies(c)  PROVE IInv'
  BY <1>4, WorkersWork
<1>5. CASE UNCHANGED vars
  BY <1>5 DEF vars, IInv, TypeOK, Numbered, Kinds, Queued, Slotted, Workers, Victims, Survivors,
     Quiet, Input, Shown, ForgottenIsNotSaved, Waits, Holds, Unfinished, Zombie, Awaits, Ended,
     Live, Running, Stops, Will, AskedSince
<1> QED
  BY <1>1, <1>2, <1>3, <1>4, <1>5 DEF Next

-----------------------------------------------------------------------------
(* What follows from it. *)

LEMMA Alone == IInv => ControllerAlone
<1> SUFFICES ASSUME IInv  PROVE ControllerAlone
  OBVIOUS
<1>1. CancelLeavesNothing
  <2> SUFFICES ASSUME NEW c \in Commands, command[c].kind \in Cancels, Ended(c), Current(c)
               PROVE  /\ status.state = "idle" /\ context = Nobody /\ slot = Nobody
                      /\ \A w \in Commands : ~Live(w)
    BY DEF CancelLeavesNothing
  <2>1. c = generation /\ generation \in Nat
    BY CalledBefore DEF Ended
  <2>2. \A w \in Commands : Unfinished(w) => w <= generation
    BY Typed, Counting, Ready DEF IInv, Numbered, Unfinished
  <2>3. \A w \in Commands : Unfinished(w) => Zombie(w)
    BY <2>1, <2>2, Counting DEF IInv, Survivors, Through, Ended
  <2> QED
    BY <2>1, <2>3 DEF IInv, Quiet, Live, Unfinished, Zombie
<1>2. OneSession
  <2> SUFFICES ASSUME NEW v \in Commands, NEW w \in Commands, Live(v), Live(w)
               PROVE  v = w
    BY DEF OneSession
  <2>1. CASE \A c \in Commands : command[c].step \notin Locked
    BY <2>1 DEF IInv, Workers, Live, Unfinished, Zombie, Awaits, Locked
  <2>2. CASE \E c \in Commands : command[c].step \in Locked
    <3>1. PICK c \in Commands : command[c].step \in Locked
      BY <2>2
    <3>2. \A u \in {v, w} : command[u].step = "spawned" \/ Awaits(c, u)
      BY <3>1, OneHolder DEF Live, Unfinished, Zombie
    <3>3. \A u \in {v, w} : command[u].step = "spawned" => u = c
      BY <3>1, OneHolder DEF Locked
    <3> QED
      BY <3>2, <3>3 DEF Awaits
  <2> QED
    BY <2>1, <2>2
<1>3. InputHasSession
  <2>1. \A c \in Commands : Stops(c) => CancelRuns
    BY DEF Stops, CancelRuns, Running, Locked
  <2>2. context # Nobody => Current(context)
    <3> SUFFICES ASSUME context # Nobody  PROVE Current(context)
      OBVIOUS
    <3>1. context \in Commands /\ context = generation /\ generation \in Nat
      BY Typed, Counting DEF IInv, Input
    <3> QED
      BY <3>1 DEF IInv, Numbered, Current
  <2> QED
    BY <2>1, <2>2 DEF IInv, Input, InputHasSession
<1>4. StatusHasOwner
  <2>1. \A c \in Commands : Stops(c) \/ Will(c) => CancelRuns
    BY DEF Stops, Will, CancelRuns, Running, Locked
  <2> QED
    BY <2>1 DEF IInv, Shown, StatusHasOwner
<1> QED
  BY <1>1, <1>2, <1>3, <1>4 DEF IInv, ControllerAlone

\* Of the controller, whatever is called, fails, is cancelled or ends: a cancel that
\* returned leaves nothing running and nothing shown, no two sessions run at once, input
\* and status always have a session or a command behind them, and a removed device is
\* not written back as the approved connection by the worker that was connected to it.
THEOREM ControllerStaysAlone == Spec => []ControllerAlone
<1>1. Init => IInv
  BY Starts
<1>2. IInv /\ [Next]_vars => IInv'
  BY Stays
<1>3. IInv => ControllerAlone
  BY Alone
<1> QED
  BY <1>1, <1>2, <1>3, PTL DEF Spec

-----------------------------------------------------------------------------
(*                      The host's sharing: HostLifecycle                  *)

\* The commands that have the lock.
HoldingSteps == {"stopping", "saving", "resuming", "asking", "preparing"}

\* A command beyond its wait has the lock, and the task of a pairing worker
\* that ended is in its queue.
LockIsHeld ==
    /\ \A c \in Sharing!Commands : hostCommand[c].step \in HoldingSteps => Sharing!Holds(c)
    /\ \A w \in Sharing!Workers : hostWorker[w].step = "rearming" => \E i \in 1..Len(hostQueue) : hostQueue[i] = w

\* While a command waits for a worker to end, or prepares the next one, there is
\* no worker in the slot, and the generation is still the one it drew unless the
\* application is on its way out.
SlotIsEmpty ==
    \A c \in Sharing!Commands : hostCommand[c].step \in {"stopping", "preparing"} =>
        hostSlot = Sharing!Nobody /\ (hostCommand[c].gen = hostGeneration \/ exiting)

\* A pause that waits keeps the flag up, whoever stops the worker for good has
\* sharing off, and a resume that removed the marker has revoked the promise.
StopsAreMeant ==
    \A c \in Sharing!Commands :
        /\ hostCommand[c].step = "stopping" /\ hostCommand[c].kind \in {"pause", "end"} => paused
        /\ hostCommand[c].step = "stopping" /\ hostCommand[c].kind \in {"pause", "end", "stop"} => ~wanted
        /\ hostCommand[c].step = "resuming" => promise = "none"
        /\ hostCommand[c].step \in {"saving", "resuming"} => hostCommand[c].kind = "resume"

\* The worker in the slot is of the current generation, was not told to end, and
\* a pairing in it still serves or waits for the lock, unless sharing is paused.
SlotIsCurrent ==
    hostSlot # Sharing!Nobody =>
        /\ hostWorker[hostSlot].gen = hostGeneration /\ ~hostWorker[hostSlot].told
        /\ hostWorker[hostSlot].kind \in {"normal", "pairing"}
        /\ hostWorker[hostSlot].step # "none"
        /\ hostWorker[hostSlot].kind = "pairing" =>
             hostWorker[hostSlot].step \in {"serving", "rearming"} \/ paused

\* A worker that is not over has no later generation, and one of the current
\* generation is the one in the slot.
CurrentIsInSlot ==
    \A w \in Sharing!Workers : hostWorker[w].step \in {"preparing", "serving", "rearming"} =>
        hostWorker[w].gen <= hostGeneration /\ (hostWorker[w].gen = hostGeneration => hostSlot = w)

\* Sharing that is on and has no worker is about to get one.
WorkerIsComing ==
    wanted /\ ~exiting /\ ~paused /\ hostSlot = Sharing!Nobody =>
        \E c \in Sharing!Commands : hostCommand[c].step \in {"stopping", "preparing"}

HostInv ==
    /\ Sharing!TypeOK /\ LockIsHeld /\ SlotIsEmpty /\ StopsAreMeant /\ SlotIsCurrent
    /\ CurrentIsInSlot /\ WorkerIsComing
    /\ Sharing!PauseHolds /\ Sharing!PauseIsKept /\ Sharing!NoStrayWorker

HostCommandRecords ==
    [kind: Sharing!Kinds \cup {"none"},
     step: {"idle", "called", "waiting", "stopping", "saving", "resuming", "asking",
            "preparing", "over"},
     gen: Nat, victim: Sharing!Workers \cup {Sharing!Nobody}, owned: BOOLEAN]

HostWorkerRecords ==
    [kind: {"none", "normal", "pairing"},
     step: {"none", "preparing", "serving", "rearming", "over"},
     gen: Nat, told: BOOLEAN, control: BOOLEAN]

\* The parts of the type invariant that the steps below work with.
LEMMA HostTyped ==
    ASSUME Sharing!TypeOK
    PROVE  /\ hostCommand \in [Sharing!Commands -> HostCommandRecords]
           /\ hostWorker \in [Sharing!Workers -> HostWorkerRecords]
           /\ hostQueue \in Seq(Sharing!Commands \cup Sharing!Workers)
           /\ hostSlot \in Sharing!Workers \cup {Sharing!Nobody} /\ hostGeneration \in Nat
           /\ paused \in BOOLEAN /\ marker \in BOOLEAN /\ exiting \in BOOLEAN
           /\ wanted \in BOOLEAN /\ pairing \in BOOLEAN
           /\ promise \in {"none", "run", "kept"} /\ endings \in 0..HostEndings
BY DEF Sharing!TypeOK, HostCommandRecords, HostWorkerRecords

\* ... and back.
LEMMA HostTypes ==
    ASSUME hostCommand' \in [Sharing!Commands -> HostCommandRecords],
           hostWorker' \in [Sharing!Workers -> HostWorkerRecords],
           hostQueue' \in Seq(Sharing!Commands \cup Sharing!Workers),
           hostSlot' \in Sharing!Workers \cup {Sharing!Nobody}, hostGeneration' \in Nat,
           paused' \in BOOLEAN, marker' \in BOOLEAN, exiting' \in BOOLEAN,
           wanted' \in BOOLEAN, pairing' \in BOOLEAN,
           promise' \in {"none", "run", "kept"}, endings' \in 0..HostEndings
    PROVE  Sharing!TypeOK'
BY DEF Sharing!TypeOK, HostCommandRecords, HostWorkerRecords

\* Numbers of commands and of workers are different numbers, and none is Nobody.
LEMMA HostNumbers ==
    /\ \A c \in Sharing!Commands : c \notin Sharing!Workers /\ c # Sharing!Nobody
    /\ \A w \in Sharing!Workers : w \notin Sharing!Commands /\ w # Sharing!Nobody
BY ApplicationsBounds DEF Sharing!Commands, Sharing!Workers, Sharing!Nobody

\* What the queue is after an arrival, after its holder left and after someone
\* who waits was taken out.
LEMMA HostArrives ==
    ASSUME Sharing!TypeOK, NEW x \in Sharing!Commands \cup Sharing!Workers,
           hostQueue' = Append(hostQueue, x)
    PROVE  /\ hostQueue' \in Seq(Sharing!Commands \cup Sharing!Workers)
           /\ \A y \in Sharing!Commands \cup Sharing!Workers : Sharing!Holds(y) => Sharing!Holds(y)'
           /\ \A y : (\E i \in 1..Len(hostQueue) : hostQueue[i] = y)
                       => \E i \in 1..Len(hostQueue') : hostQueue'[i] = y
           /\ \E i \in 1..Len(hostQueue') : hostQueue'[i] = x
<1>1. hostQueue \in Seq(Sharing!Commands \cup Sharing!Workers)
  BY HostTyped
<1>2. /\ hostQueue' \in Seq(Sharing!Commands \cup Sharing!Workers)
      /\ Len(hostQueue') = Len(hostQueue) + 1
      /\ \A i \in 1..Len(hostQueue) : hostQueue'[i] = hostQueue[i]
      /\ hostQueue'[Len(hostQueue) + 1] = x /\ Len(hostQueue) \in Nat
  BY <1>1
<1>3. \A y \in Sharing!Commands \cup Sharing!Workers : Sharing!Holds(y) => Sharing!Holds(y)'
  BY <1>1, <1>2 DEF Sharing!Holds
<1> QED
  BY <1>2, <1>3

LEMMA HostLeaves ==
    ASSUME Sharing!TypeOK, NEW x \in Sharing!Commands \cup Sharing!Workers, Sharing!Holds(x),
           Sharing!Release
    PROVE  /\ hostQueue' \in Seq(Sharing!Commands \cup Sharing!Workers)
           /\ \A y : y # x /\ (\E i \in 1..Len(hostQueue) : hostQueue[i] = y)
                       => \E i \in 1..Len(hostQueue') : hostQueue'[i] = y
<1>1. hostQueue \in Seq(Sharing!Commands \cup Sharing!Workers) /\ hostQueue # <<>> /\ hostQueue[1] = x
  BY HostTyped DEF Sharing!Holds
<1>2. /\ hostQueue' \in Seq(Sharing!Commands \cup Sharing!Workers)
      /\ Len(hostQueue') = Len(hostQueue) - 1
      /\ \A i \in 1..Len(hostQueue') : hostQueue'[i] = hostQueue[i + 1]
      /\ Len(hostQueue) \in Nat
  BY <1>1 DEF Sharing!Release
<1>3. ASSUME NEW y, y # x, NEW i \in 1..Len(hostQueue), hostQueue[i] = y
      PROVE  \E j \in 1..Len(hostQueue') : hostQueue'[j] = y
  <2>1. i # 1
    BY <1>1, <1>3
  <2>2. i - 1 \in 1..Len(hostQueue') /\ hostQueue'[i - 1] = hostQueue[i]
    BY <1>2, <2>1
  <2> QED
    BY <2>2, <1>3
<1> QED
  BY <1>2, <1>3

LEMMA HostTakenOut ==
    ASSUME Sharing!TypeOK, NEW x, NEW c \in Sharing!Commands, Sharing!Holds(c), x # c,
           hostQueue' = Sharing!Without(x)
    PROVE  /\ hostQueue' \in Seq(Sharing!Commands \cup Sharing!Workers)
           /\ Sharing!Holds(c)'
           /\ \A y : y # x /\ (\E i \in 1..Len(hostQueue) : hostQueue[i] = y)
                       => \E i \in 1..Len(hostQueue') : hostQueue'[i] = y
<1>1. hostQueue \in Seq(Sharing!Commands \cup Sharing!Workers) /\ hostQueue # <<>> /\ hostQueue[1] = c
      /\ Len(hostQueue) \in Nat
  BY HostTyped DEF Sharing!Holds
<1>2. CASE ~\E i \in 1..Len(hostQueue) : hostQueue[i] = x
  BY <1>1, <1>2 DEF Sharing!Without, Sharing!Holds
<1>3. CASE \E i \in 1..Len(hostQueue) : hostQueue[i] = x
  <2> DEFINE at == CHOOSE i \in 1..Len(hostQueue) : hostQueue[i] = x
  <2>1. at \in 1..Len(hostQueue) /\ hostQueue[at] = x
    BY <1>3
  <2>2. hostQueue' = [i \in 1..(Len(hostQueue) - 1) |-> hostQueue[IF i < at THEN i ELSE i + 1]]
    BY <1>3 DEF Sharing!Without
  <2> HIDE DEF at
  <2>3. at # 1 /\ Len(hostQueue) > 1
    BY <1>1, <2>1
  <2>4. \A i \in 1..(Len(hostQueue) - 1) : (IF i < at THEN i ELSE i + 1) \in 1..Len(hostQueue)
    BY <1>1, <2>1
  <2>5. \A i \in 1..(Len(hostQueue) - 1) :
            hostQueue[IF i < at THEN i ELSE i + 1] \in Sharing!Commands \cup Sharing!Workers
    BY <1>1, <2>4
  <2>6. Len(hostQueue) - 1 \in Nat
    BY <1>1, <2>3
  <2>7. hostQueue' \in [1..(Len(hostQueue) - 1) -> Sharing!Commands \cup Sharing!Workers]
    BY <2>2, <2>5
  <2>8. hostQueue' \in Seq(Sharing!Commands \cup Sharing!Workers) /\ Len(hostQueue') = Len(hostQueue) - 1
    BY <2>6, <2>7
  <2>9. hostQueue'[1] = c
    BY <1>1, <2>2, <2>3, <2>1
  <2>10. ASSUME NEW y, y # x, NEW i \in 1..Len(hostQueue), hostQueue[i] = y
         PROVE  \E j \in 1..Len(hostQueue') : hostQueue'[j] = y
    <3>1. i # at
      BY <2>1, <2>10
    <3>2. CASE i < at
      <4>1. i \in 1..(Len(hostQueue) - 1)
        BY <1>1, <2>1, <3>2
      <4> QED
        BY <4>1, <2>2, <2>8, <3>2, <2>10
    <3>3. CASE i > at
      <4>1. i - 1 \in 1..(Len(hostQueue) - 1) /\ ~(i - 1 < at) /\ (i - 1) + 1 = i
        BY <1>1, <2>1, <3>3
      <4>2. hostQueue'[i - 1] = hostQueue[i]
        BY <4>1, <2>2
      <4> QED
        BY <4>1, <4>2, <2>8, <2>10
    <3> QED
      BY <3>1, <3>2, <3>3, <2>1
  <2>11. hostQueue' # <<>> /\ Sharing!Holds(c)'
    BY <2>8, <2>9, <2>3, <1>1 DEF Sharing!Holds
  <2> QED
    BY <2>8, <2>10, <2>11
<1> QED
  BY <1>2, <1>3

InQueue(x) == \E i \in 1..Len(hostQueue) : hostQueue[i] = x
Active(w) == hostWorker[w].step \in {"preparing", "serving", "rearming"}

\* Only one command has the lock, and no command while a worker has it.
LEMMA HostHoldsAlone ==
    ASSUME HostInv, NEW x \in Sharing!Commands \cup Sharing!Workers, Sharing!Holds(x)
    PROVE  \A d \in Sharing!Commands : hostCommand[d].step \in HoldingSteps => d = x
BY DEF HostInv, LockIsHeld, Sharing!Holds

\* A command calls, queues or loses its operation: who has the lock does not change.
HostArrival(c) ==
    /\ \A d \in Sharing!Commands : hostCommand'[d].step \in HoldingSteps =>
          /\ hostCommand'[d].step = hostCommand[d].step
          /\ hostCommand'[d].kind = hostCommand[d].kind
          /\ hostCommand'[d].gen = hostCommand[d].gen
    /\ \A d \in Sharing!Commands : hostCommand[d].step \in HoldingSteps =>
          hostCommand'[d].step = hostCommand[d].step
    /\ hostQueue' = hostQueue \/ hostQueue' = Append(hostQueue, c)
    /\ paused' = paused \/ paused' = TRUE
    /\ UNCHANGED <<marker, hostGeneration, hostSlot, hostWorker, exiting, promise, wanted>>

LEMMA HostArrivalKeeps ==
    ASSUME HostInv, Sharing!TypeOK', NEW c \in Sharing!Commands, HostArrival(c)
    PROVE  HostInv'
<1> USE DEF HostArrival
<1>1. Sharing!TypeOK /\ hostQueue \in Seq(Sharing!Commands \cup Sharing!Workers)
  BY HostTyped DEF HostInv
<1>2. /\ \A y \in Sharing!Commands \cup Sharing!Workers : Sharing!Holds(y) => Sharing!Holds(y)'
      /\ \A y : InQueue(y) => InQueue(y)'
  BY <1>1, HostArrives DEF InQueue, Sharing!Holds
<1>3. LockIsHeld'
  BY <1>2 DEF HostInv, LockIsHeld, InQueue
<1>4. SlotIsEmpty'
  BY DEF HostInv, SlotIsEmpty, HoldingSteps
<1>5. StopsAreMeant'
  BY DEF HostInv, StopsAreMeant, HoldingSteps
<1>6. SlotIsCurrent' /\ CurrentIsInSlot'
  BY DEF HostInv, SlotIsCurrent, CurrentIsInSlot
<1>7. WorkerIsComing'
  BY <1>1 DEF HostInv, WorkerIsComing, HoldingSteps
<1>8. Sharing!PauseHolds' /\ Sharing!PauseIsKept' /\ Sharing!NoStrayWorker'
  BY DEF HostInv, Sharing!PauseHolds, Sharing!PauseIsKept, Sharing!NoStrayWorker, Sharing!Live
<1> QED
  BY <1>3, <1>4, <1>5, <1>6, <1>7, <1>8 DEF HostInv

\* The command that has the lock takes its next step with nothing stopped.
HostAdvance(c) ==
    /\ Sharing!Holds(c) /\ hostQueue' = hostQueue
    /\ \A d \in Sharing!Commands : d # c => hostCommand'[d] = hostCommand[d]
    /\ hostCommand'[c].step \in {"saving", "resuming", "asking", "preparing"}
    /\ hostCommand'[c].step = "preparing" =>
          hostCommand[c].step = "stopping" /\ hostCommand'[c].gen = hostCommand[c].gen
    /\ hostCommand[c].step \in {"stopping", "preparing"} => hostCommand'[c].step = "preparing"
    /\ hostCommand'[c].step = "resuming" => promise' = "none"
    /\ hostCommand'[c].step \in {"saving", "resuming"} => hostCommand'[c].kind = "resume"
    /\ \/ marker' = marker /\ promise' = promise
       \/ promise' = "none"
    /\ UNCHANGED <<paused, hostGeneration, hostSlot, hostWorker, exiting, wanted>>

LEMMA HostAdvanceKeeps ==
    ASSUME HostInv, Sharing!TypeOK', NEW c \in Sharing!Commands, HostAdvance(c)
    PROVE  HostInv'
<1> USE DEF HostAdvance
<1>1. \A d \in Sharing!Commands : hostCommand[d].step \in HoldingSteps => d = c
  BY HostHoldsAlone
<1>2. Sharing!Holds(c)'
  BY DEF Sharing!Holds
<1>3. LockIsHeld'
  BY <1>1, <1>2 DEF HostInv, LockIsHeld
<1>4. SlotIsEmpty'
  BY <1>1 DEF HostInv, SlotIsEmpty, HoldingSteps
<1>5. StopsAreMeant'
  BY <1>1 DEF HostInv, StopsAreMeant, HoldingSteps
<1>6. SlotIsCurrent' /\ CurrentIsInSlot'
  BY DEF HostInv, SlotIsCurrent, CurrentIsInSlot
<1>7. WorkerIsComing'
  BY <1>1 DEF HostInv, WorkerIsComing, HoldingSteps
<1>8. Sharing!PauseHolds' /\ Sharing!PauseIsKept' /\ Sharing!NoStrayWorker'
  BY DEF HostInv, Sharing!PauseHolds, Sharing!PauseIsKept, Sharing!NoStrayWorker, Sharing!Live
<1> QED
  BY <1>3, <1>4, <1>5, <1>6, <1>7, <1>8 DEF HostInv

\* The command that has the lock returns and leaves the worker as it is.
HostReturn(c) ==
    /\ Sharing!Holds(c) /\ Sharing!Release
    /\ \A d \in Sharing!Commands : d # c => hostCommand'[d] = hostCommand[d]
    /\ hostCommand'[c].step = "over"
    /\ UNCHANGED <<paused, hostGeneration, hostSlot, hostWorker, exiting>>
    /\ wanted' = wanted \/ wanted' = FALSE
    /\ hostCommand[c].step \in {"stopping", "preparing"} => ~wanted' \/ paused \/ exiting
    /\ \/ marker' = marker /\ promise' = promise
       \/ paused /\ hostSlot = Sharing!Nobody /\ (promise' = "kept" => marker')

LEMMA HostReturnKeeps ==
    ASSUME HostInv, Sharing!TypeOK', NEW c \in Sharing!Commands, HostReturn(c)
    PROVE  HostInv'
<1> USE DEF HostReturn
<1>1. \A d \in Sharing!Commands : hostCommand[d].step \in HoldingSteps => d = c
  BY HostHoldsAlone
<1>2. \A d \in Sharing!Commands : hostCommand'[d].step \notin HoldingSteps
  BY <1>1 DEF HoldingSteps
<1>3. LockIsHeld'
  <2>1. \A y : y # c /\ InQueue(y) => InQueue(y)'
    BY HostLeaves DEF HostInv, InQueue
  <2> QED
    BY <1>2, <2>1, HostNumbers DEF HostInv, LockIsHeld, InQueue
<1>4. SlotIsEmpty' /\ StopsAreMeant'
  BY <1>2 DEF SlotIsEmpty, StopsAreMeant, HoldingSteps
<1>5. SlotIsCurrent' /\ CurrentIsInSlot'
  BY DEF HostInv, SlotIsCurrent, CurrentIsInSlot
<1>6. WorkerIsComing'
  <2> SUFFICES ASSUME wanted', ~exiting', ~paused', hostSlot' = Sharing!Nobody
               PROVE  FALSE
    BY DEF WorkerIsComing
  <2>1. PICK d \in Sharing!Commands : hostCommand[d].step \in {"stopping", "preparing"}
    BY HostTyped DEF HostInv, WorkerIsComing
  <2>2. d = c
    BY <2>1, <1>1 DEF HoldingSteps
  <2> QED
    BY <2>1, <2>2
<1>7. Sharing!PauseHolds' /\ Sharing!PauseIsKept' /\ Sharing!NoStrayWorker'
  <2>1. \A w \in Sharing!Workers : hostSlot = Sharing!Nobody /\ Sharing!Live(w) => hostWorker[w].told
    BY HostNumbers, HostTyped DEF HostInv, Sharing!NoStrayWorker, HostWorkerRecords
  <2> QED
    BY <2>1
      DEF HostInv, Sharing!PauseHolds, Sharing!PauseIsKept, Sharing!NoStrayWorker, Sharing!Live
<1> QED
  BY <1>3, <1>4, <1>5, <1>6, <1>7 DEF HostInv

\* The command that has the lock draws a generation and stops the worker.
HostStop(c) ==
    /\ Sharing!Holds(c) /\ hostQueue' = hostQueue
    /\ \A d \in Sharing!Commands : d # c => hostCommand'[d] = hostCommand[d]
    /\ hostCommand'[c].step = "stopping" /\ hostCommand'[c].gen = hostGeneration'
    /\ hostGeneration' = hostGeneration + 1
    /\ hostSlot' = Sharing!Nobody
    /\ \A w \in Sharing!Workers :
          /\ hostWorker'[w].step = hostWorker[w].step /\ hostWorker'[w].gen = hostWorker[w].gen
          /\ hostWorker[w].told \/ w = hostSlot => hostWorker'[w].told
    /\ hostCommand'[c].kind \in {"pause", "end"} => paused'
    /\ hostCommand'[c].kind \in {"pause", "end", "stop"} => ~wanted'
    /\ paused' = paused \/ paused' = TRUE \/ promise = "none"
    /\ UNCHANGED <<marker, exiting, promise>>

LEMMA HostStopKeeps ==
    ASSUME HostInv, Sharing!TypeOK', NEW c \in Sharing!Commands, HostStop(c)
    PROVE  HostInv'
<1> USE DEF HostStop
<1>1. \A d \in Sharing!Commands : hostCommand[d].step \in HoldingSteps => d = c
  BY HostHoldsAlone
<1>2. Sharing!Holds(c)'
  BY DEF Sharing!Holds
<1>3. LockIsHeld'
  BY <1>1, <1>2 DEF HostInv, LockIsHeld
<1>4. SlotIsEmpty' /\ WorkerIsComing'
  BY <1>1 DEF HostInv, SlotIsEmpty, WorkerIsComing, HoldingSteps
<1>5. StopsAreMeant'
  BY <1>1 DEF HostInv, StopsAreMeant, HoldingSteps
<1>6. SlotIsCurrent'
  BY DEF SlotIsCurrent
<1>7. CurrentIsInSlot'
  <2>1. \A w \in Sharing!Workers : hostWorker[w].gen \in Nat
    BY HostTyped DEF HostInv, HostWorkerRecords
  <2> QED
    BY <2>1, HostTyped DEF HostInv, CurrentIsInSlot
<1>8. Sharing!NoStrayWorker'
  BY DEF HostInv, Sharing!NoStrayWorker, Sharing!Live
<1>9. Sharing!PauseHolds'
  <2> SUFFICES ASSUME promise # "none"
               PROVE  paused' /\ \A w \in Sharing!Workers : Sharing!Live(w)' => hostWorker'[w].told
    BY DEF Sharing!PauseHolds
  <2>1. paused /\ \A w \in Sharing!Workers : Sharing!Live(w) => hostWorker[w].told
    BY DEF HostInv, Sharing!PauseHolds
  <2> QED
    BY <2>1 DEF Sharing!Live
<1>10. Sharing!PauseIsKept'
  BY DEF HostInv, Sharing!PauseIsKept
<1> QED
  BY <1>3, <1>4, <1>5, <1>6, <1>7, <1>8, <1>9, <1>10 DEF HostInv

\* Someone who has the lock gives it back with a worker of the current
\* generation in the slot, and nobody else shares the computer.
HostSpawn(x) ==
    /\ Sharing!Holds(x) /\ Sharing!Release
    /\ \A d \in Sharing!Commands : hostCommand'[d].step \notin HoldingSteps
    /\ \E w \in Sharing!Workers :
          /\ hostSlot' = w
          /\ hostWorker'[w].gen = hostGeneration /\ ~hostWorker'[w].told
          /\ hostWorker'[w].step \in {"preparing", "serving"}
          /\ hostWorker'[w].kind \in {"normal", "pairing"}
          /\ hostWorker'[w].kind = "pairing" => hostWorker'[w].step = "serving"
          /\ \A v \in Sharing!Workers : v # w => hostWorker'[v] = hostWorker[v] \/ hostWorker'[v].step = "over"
          /\ \A v \in Sharing!Workers : v # w /\ Active(v)' => hostSlot # v /\ v # x
    /\ ~paused
    /\ UNCHANGED <<paused, marker, hostGeneration, exiting, promise, wanted>>

LEMMA HostSpawnKeeps ==
    ASSUME HostInv, Sharing!TypeOK', NEW x \in Sharing!Commands \cup Sharing!Workers, HostSpawn(x)
    PROVE  HostInv'
<1>1. PICK w \in Sharing!Workers :
          /\ hostSlot' = w
          /\ hostWorker'[w].gen = hostGeneration /\ ~hostWorker'[w].told
          /\ hostWorker'[w].step \in {"preparing", "serving"}
          /\ hostWorker'[w].kind \in {"normal", "pairing"}
          /\ hostWorker'[w].kind = "pairing" => hostWorker'[w].step = "serving"
          /\ \A v \in Sharing!Workers : v # w => hostWorker'[v] = hostWorker[v] \/ hostWorker'[v].step = "over"
          /\ \A v \in Sharing!Workers : v # w /\ Active(v)' => hostSlot # v /\ v # x
  BY DEF HostSpawn
<1>2. LockIsHeld'
  <2>1. \A y : y # x /\ InQueue(y) => InQueue(y)'
    BY HostLeaves DEF HostInv, InQueue, HostSpawn
  <2>2. \A v \in Sharing!Workers : hostWorker'[v].step = "rearming" =>
            v # x /\ hostWorker[v].step = "rearming"
    BY <1>1 DEF Active
  <2> QED
    BY <2>1, <2>2 DEF HostInv, LockIsHeld, InQueue, HostSpawn
<1>3. SlotIsEmpty' /\ StopsAreMeant' /\ WorkerIsComing'
  BY <1>1, HostNumbers DEF HostSpawn, SlotIsEmpty, StopsAreMeant, WorkerIsComing, HoldingSteps
<1>4. SlotIsCurrent'
  BY <1>1 DEF SlotIsCurrent, HostSpawn
<1>5. CurrentIsInSlot'
  <2> SUFFICES ASSUME NEW v \in Sharing!Workers, Active(v)'
               PROVE  hostWorker'[v].gen <= hostGeneration /\ (hostWorker'[v].gen = hostGeneration => hostSlot' = v)
    BY DEF CurrentIsInSlot, Active, HostSpawn
  <2>1. CASE v = w
    BY <2>1, <1>1, HostTyped DEF HostInv
  <2>2. CASE v # w
    BY <2>2, <1>1 DEF HostInv, CurrentIsInSlot, Active
  <2> QED
    BY <2>1, <2>2
<1>6. Sharing!NoStrayWorker'
  <2> SUFFICES ASSUME NEW v \in Sharing!Workers, v # w, Sharing!Live(v)', ~hostWorker'[v].told
               PROVE  FALSE
    BY <1>1 DEF Sharing!NoStrayWorker
  <2>1. Active(v)' /\ hostWorker'[v] = hostWorker[v] /\ hostSlot # v
    BY <1>1 DEF Active, Sharing!Live
  <2> QED
    BY <2>1 DEF HostInv, Sharing!NoStrayWorker, Sharing!Live
<1>7. Sharing!PauseHolds' /\ Sharing!PauseIsKept'
  BY DEF HostInv, Sharing!PauseHolds, Sharing!PauseIsKept, HostSpawn
<1> QED
  BY <1>2, <1>3, <1>4, <1>5, <1>6, <1>7 DEF HostInv

\* Workers go on or end by themselves, or are aborted.
HostWork ==
    /\ \A w \in Sharing!Workers :
          /\ hostWorker'[w].gen = hostWorker[w].gen /\ hostWorker'[w].told = hostWorker[w].told
          /\ hostWorker'[w].kind = hostWorker[w].kind
          /\ Active(w)' => Active(w)
          /\ Sharing!Live(w)' => Sharing!Live(w)
          /\ hostWorker'[w].step = "none" => hostWorker[w].step = "none"
          /\ hostWorker'[w].step = "rearming" => InQueue(w)'
          /\ w = hostSlot /\ hostWorker[w].kind = "pairing" =>
               hostWorker'[w].step \in {"serving", "rearming"} \/ paused
    /\ \A c \in Sharing!Commands : hostCommand[c].step \in HoldingSteps => Sharing!Holds(c)'
    /\ UNCHANGED <<paused, marker, hostGeneration, hostCommand, hostSlot, exiting, promise, wanted>>

LEMMA HostWorkKeeps ==
    ASSUME HostInv, Sharing!TypeOK', HostWork
    PROVE  HostInv'
<1> USE DEF HostWork
<1>1. LockIsHeld'
  BY DEF HostInv, LockIsHeld, InQueue
<1>2. SlotIsEmpty' /\ StopsAreMeant' /\ WorkerIsComing'
  BY DEF HostInv, SlotIsEmpty, StopsAreMeant, WorkerIsComing
<1>3. SlotIsCurrent'
  <2>1. hostSlot \in Sharing!Workers \cup {Sharing!Nobody}
    BY HostTyped DEF HostInv
  <2> QED
    BY <2>1 DEF HostInv, SlotIsCurrent
<1>4. CurrentIsInSlot'
  BY DEF HostInv, CurrentIsInSlot, Active
<1>5. Sharing!PauseHolds' /\ Sharing!PauseIsKept' /\ Sharing!NoStrayWorker'
  BY DEF HostInv, Sharing!PauseHolds, Sharing!PauseIsKept, Sharing!NoStrayWorker
<1> QED
  BY <1>1, <1>2, <1>3, <1>4, <1>5 DEF HostInv

(* ------------------------- each action is one of these ------------------- *)

LEMMA HostArrivals ==
    ASSUME HostInv, NEW c \in Sharing!Commands,
           (\E kind \in Sharing!Kinds : Sharing!Call(c, kind)) \/ Sharing!Queue(c) \/ Sharing!Superseded(c)
    PROVE  HostInv'
<1>1. Sharing!TypeOK
  BY DEF HostInv
<1>2. /\ hostQueue \in Seq(Sharing!Commands \cup Sharing!Workers)
      /\ hostCommand \in [Sharing!Commands -> HostCommandRecords]
      /\ hostWorker \in [Sharing!Workers -> HostWorkerRecords]
      /\ hostQueue' = Append(hostQueue, c) => hostQueue' \in Seq(Sharing!Commands \cup Sharing!Workers)
  BY SMTT(30), <1>1, HostTyped
<1>3. CASE \E kind \in Sharing!Kinds : Sharing!Call(c, kind)
  <2>1. PICK kind \in Sharing!Kinds : Sharing!Call(c, kind)
    BY <1>3
  <2>2. hostCommand' \in [Sharing!Commands -> HostCommandRecords]
    BY <1>2, <2>1 DEF Sharing!Call, HostCommandRecords
  <2>3. HostArrival(c)
    BY <1>2, <2>1 DEF Sharing!Call, HostArrival, HostCommandRecords, HoldingSteps
  <2>4. Sharing!TypeOK'
    BY <1>1, <1>2, <2>1, <2>2, HostTyped, HostTypes DEF Sharing!Call
  <2> QED
    BY <2>3, <2>4, HostArrivalKeeps
<1>4. CASE Sharing!Queue(c)
  <2>1. hostCommand' \in [Sharing!Commands -> HostCommandRecords]
    BY <1>2, <1>4 DEF Sharing!Queue, HostCommandRecords
  <2>2. HostArrival(c)
    BY <1>2, <1>4 DEF Sharing!Queue, HostArrival, HostCommandRecords, HoldingSteps
  <2>3. Sharing!TypeOK'
    BY <1>1, <1>2, <1>4, <2>1, HostTyped, HostTypes DEF Sharing!Queue
  <2> QED
    BY <2>2, <2>3, HostArrivalKeeps
<1>5. CASE Sharing!Superseded(c)
  <2>1. hostCommand' \in [Sharing!Commands -> HostCommandRecords]
    BY <1>2, <1>5 DEF Sharing!Superseded, HostCommandRecords
  <2>2. HostArrival(c)
    BY <1>2, <1>5 DEF Sharing!Superseded, HostArrival, HostCommandRecords, HoldingSteps
  <2>3. Sharing!TypeOK'
    BY <1>1, <1>2, <1>5, <2>1, HostTyped, HostTypes DEF Sharing!Superseded
  <2> QED
    BY <2>2, <2>3, HostArrivalKeeps
<1> QED
  BY <1>3, <1>4, <1>5

\* What a command does to its own record, and to nobody else's.
LEMMA HostRecords ==
    ASSUME Sharing!TypeOK, NEW c \in Sharing!Commands, NEW r \in HostCommandRecords,
           hostCommand' = [hostCommand EXCEPT ![c] = r]
    PROVE  /\ hostCommand' \in [Sharing!Commands -> HostCommandRecords]
           /\ hostCommand'[c] = r
           /\ \A d \in Sharing!Commands : d # c => hostCommand'[d] = hostCommand[d]
BY HostTyped

LEMMA HostReturned ==
    ASSUME Sharing!TypeOK, NEW c \in Sharing!Commands, Sharing!Returns(c), Sharing!Holds(c)
    PROVE  /\ hostCommand' \in [Sharing!Commands -> HostCommandRecords]
           /\ hostCommand'[c].step = "over"
           /\ \A d \in Sharing!Commands : d # c => hostCommand'[d] = hostCommand[d]
           /\ Sharing!Release /\ hostQueue' \in Seq(Sharing!Commands \cup Sharing!Workers)
<1>1. hostCommand \in [Sharing!Commands -> HostCommandRecords]
  BY HostTyped
<1> QED
  BY <1>1, HostLeaves DEF Sharing!Returns, Sharing!Over, HostCommandRecords

\* The four steps that keep the lock and stop nothing.
LEMMA HostAdvances ==
    ASSUME HostInv, NEW c \in Sharing!Commands, Sharing!Holds(c), hostQueue' = hostQueue,
           NEW step \in {"saving", "resuming", "asking", "preparing"},
           hostCommand' = [hostCommand EXCEPT ![c].step = step],
           step = "preparing" <=> hostCommand[c].step = "stopping",
           hostCommand[c].step # "preparing",
           step = "resuming" => promise' = "none",
           step \in {"saving", "resuming"} => hostCommand[c].kind = "resume",
           marker' \in BOOLEAN, pairing' \in BOOLEAN, endings' = endings,
           \/ marker' = marker /\ promise' = promise
           \/ promise' = "none",
           UNCHANGED <<paused, hostGeneration, hostSlot, hostWorker, exiting, wanted>>
    PROVE  HostInv'
<1>1. Sharing!TypeOK /\ hostCommand \in [Sharing!Commands -> HostCommandRecords]
  BY HostTyped DEF HostInv
<1>2. /\ hostCommand' \in [Sharing!Commands -> HostCommandRecords] /\ hostCommand'[c].step = step
      /\ hostCommand'[c].gen = hostCommand[c].gen /\ hostCommand'[c].kind = hostCommand[c].kind
      /\ \A d \in Sharing!Commands : d # c => hostCommand'[d] = hostCommand[d]
  BY <1>1 DEF HostCommandRecords
<1>3. HostAdvance(c)
  BY <1>2 DEF HostAdvance
<1>4. Sharing!TypeOK'
  BY <1>1, <1>2, HostTyped, HostTypes
<1> QED
  BY <1>3, <1>4, HostAdvanceKeeps

\* The steps that give the lock back and leave the worker as it is.
LEMMA HostReturns ==
    ASSUME HostInv, NEW c \in Sharing!Commands, Sharing!Holds(c), Sharing!Returns(c),
           UNCHANGED <<paused, hostGeneration, hostSlot, hostWorker, exiting, endings>>,
           wanted' = wanted \/ wanted' = FALSE, pairing' \in BOOLEAN,
           marker' \in BOOLEAN, promise' \in {"none", "run", "kept"},
           hostCommand[c].step \in {"stopping", "preparing"} => ~wanted' \/ paused \/ exiting,
           \/ marker' = marker /\ promise' = promise
           \/ paused /\ hostSlot = Sharing!Nobody /\ (promise' = "kept" => marker')
    PROVE  HostInv'
<1>1. Sharing!TypeOK
  BY DEF HostInv
<1>2. HostReturn(c)
  BY <1>1, HostReturned DEF HostReturn
<1>3. Sharing!TypeOK'
  <2>1. wanted' \in BOOLEAN
    BY <1>1, HostTyped
  <2> QED
    BY <1>1, <2>1, HostTyped, HostReturned, HostTypes
<1> QED
  BY <1>2, <1>3, HostReturnKeeps

\* A command in one of the steps after its wait has the lock.
LEMMA HostHolder ==
    ASSUME HostInv, NEW c \in Sharing!Commands, hostCommand[c].step \in HoldingSteps
    PROVE  Sharing!Holds(c)
BY DEF HostInv, LockIsHeld

\* Those of resume, of the end of a control and of the invitation.
LEMMA HostSteps ==
    ASSUME HostInv, NEW c \in Sharing!Commands,
           Sharing!BeginResume(c) \/ Sharing!ClearMarker(c) \/ Sharing!BeginEnd(c) \/ Sharing!Prepare(c)
    PROVE  HostInv'
<1>1. /\ marker \in BOOLEAN /\ pairing \in BOOLEAN /\ wanted \in BOOLEAN
      /\ promise \in {"none", "run", "kept"}
  BY HostTyped DEF HostInv
<1>2. CASE Sharing!BeginResume(c)
  <2>1. CASE paused
    BY <1>1, <1>2, <2>1, HostAdvances DEF Sharing!BeginResume, Sharing!Begins
  <2>2. CASE ~paused
    BY <1>1, <1>2, <2>2, HostReturns DEF Sharing!BeginResume, Sharing!Begins
  <2> QED
    BY <2>1, <2>2
<1>3. CASE Sharing!ClearMarker(c)
  <2>1. Sharing!Holds(c) /\ hostCommand[c].kind = "resume"
    BY <1>3, HostHolder DEF Sharing!ClearMarker, HoldingSteps, HostInv, StopsAreMeant
  <2> QED
    BY <1>1, <1>3, <2>1, HostAdvances DEF Sharing!ClearMarker
<1>4. CASE Sharing!BeginEnd(c)
  <2>1. CASE hostCommand' = [hostCommand EXCEPT ![c].step = "asking"] /\ hostQueue' = hostQueue
    BY <1>1, <1>4, <2>1, HostAdvances DEF Sharing!BeginEnd, Sharing!Begins
  <2>2. CASE Sharing!Returns(c)
    BY <1>1, <1>4, <2>2, HostReturns DEF Sharing!BeginEnd, Sharing!Begins
  <2> QED
    BY <1>4, <2>1, <2>2 DEF Sharing!BeginEnd
<1>5. CASE Sharing!Prepare(c)
  <2>1. Sharing!Holds(c)
    BY <1>5, HostHolder DEF Sharing!Prepare, HoldingSteps
  <2>2. CASE Sharing!MayStart(hostCommand[c].gen)
    BY <1>1, <1>5, <2>1, <2>2, HostAdvances DEF Sharing!Prepare
  <2>3. CASE ~Sharing!MayStart(hostCommand[c].gen)
    <3>1. paused \/ exiting
      BY <1>5, <2>3 DEF Sharing!Prepare, Sharing!MayStart, HostInv, SlotIsEmpty
    <3> QED
      BY <1>1, <1>5, <2>1, <2>3, <3>1, HostReturns DEF Sharing!Prepare
  <2> QED
    BY <2>2, <2>3
<1> QED
  BY <1>2, <1>3, <1>4, <1>5

\* Those that only return.
LEMMA HostEnds ==
    ASSUME HostInv, NEW c \in Sharing!Commands,
           \/ Sharing!RefuseRestart(c) \/ Sharing!ResumeFails(c) \/ Sharing!Confirmed(c)
           \/ Sharing!FinishPause(c) \/ Sharing!FinishStop(c)
    PROVE  HostInv'
<1>1. /\ marker \in BOOLEAN /\ pairing \in BOOLEAN /\ wanted \in BOOLEAN
      /\ promise \in {"none", "run", "kept"}
  BY HostTyped DEF HostInv
<1>2. CASE Sharing!RefuseRestart(c)
  BY <1>1, <1>2, HostReturns DEF Sharing!RefuseRestart, Sharing!Begins
<1>3. CASE Sharing!ResumeFails(c)
  BY <1>1, <1>3, HostReturns, HostHolder DEF Sharing!ResumeFails, HoldingSteps
<1>4. CASE Sharing!Confirmed(c)
  BY <1>1, <1>4, HostReturns, HostHolder DEF Sharing!Confirmed, HoldingSteps
<1>5. CASE Sharing!FinishPause(c)
  <2>1. paused /\ hostSlot = Sharing!Nobody /\ ~wanted /\ Sharing!Holds(c)
    BY <1>5, HostHolder
      DEF Sharing!FinishPause, HostInv, StopsAreMeant, SlotIsEmpty, HoldingSteps
  <2>2. promise' = "kept" => marker'
    BY <1>5 DEF Sharing!FinishPause, HostInv, Sharing!PauseIsKept
  <2> QED
    BY <1>1, <1>5, <2>1, <2>2, HostReturns DEF Sharing!FinishPause
<1>6. CASE Sharing!FinishStop(c)
  <2>1. ~wanted /\ Sharing!Holds(c)
    BY <1>6, HostHolder DEF Sharing!FinishStop, HostInv, StopsAreMeant, HoldingSteps
  <2> QED
    BY <1>1, <1>6, <2>1, HostReturns DEF Sharing!FinishStop
<1> QED
  BY <1>2, <1>3, <1>4, <1>5, <1>6

\* Those that stop the worker.
LEMMA HostStops ==
    ASSUME HostInv, NEW c \in Sharing!Commands, Sharing!Holds(c), Sharing!StopsCurrent(c),
           hostQueue' = hostQueue,
           paused' \in BOOLEAN, wanted' \in BOOLEAN,
           UNCHANGED <<marker, pairing, exiting, endings, promise>>,
           hostCommand[c].kind \in {"pause", "end"} => paused',
           hostCommand[c].kind \in {"pause", "end", "stop"} => ~wanted',
           paused' = paused \/ paused' = TRUE \/ promise = "none"
    PROVE  HostInv'
<1>1. Sharing!TypeOK
  BY DEF HostInv
<1>2. /\ hostCommand \in [Sharing!Commands -> HostCommandRecords]
      /\ hostWorker \in [Sharing!Workers -> HostWorkerRecords]
      /\ hostGeneration \in Nat /\ hostSlot \in Sharing!Workers \cup {Sharing!Nobody}
  BY <1>1, HostTyped
<1>3. /\ hostCommand' \in [Sharing!Commands -> HostCommandRecords]
      /\ hostCommand'[c].step = "stopping" /\ hostCommand'[c].gen = hostGeneration'
      /\ hostCommand'[c].kind = hostCommand[c].kind
      /\ \A d \in Sharing!Commands : d # c => hostCommand'[d] = hostCommand[d]
  <2> DEFINE r == [hostCommand[c] EXCEPT !.step = "stopping", !.victim = hostSlot,
                                     !.gen = hostGeneration + 1]
  <2>1. hostCommand[c] \in HostCommandRecords
    BY <1>2
  <2>2. /\ r.step = "stopping" /\ r.gen = hostGeneration + 1
        /\ r.kind = hostCommand[c].kind
    BY <2>1 DEF HostCommandRecords
  <2>4. hostGeneration + 1 \in Nat
    BY <1>2
  <2>5. r \in HostCommandRecords
    BY <1>2, <2>1, <2>4 DEF HostCommandRecords
  <2>3. hostCommand' = [hostCommand EXCEPT ![c] = r] /\ hostGeneration' = hostGeneration + 1
    BY <1>2 DEF Sharing!StopsCurrent
  <2> HIDE DEF r
  <2> QED
    BY <1>1, <2>2, <2>3, <2>5, HostRecords
<1>4. \A w \in Sharing!Workers : hostWorker'[w] = IF w = hostSlot THEN [hostWorker[w] EXCEPT !.told = TRUE]
                                                    ELSE hostWorker[w]
  BY DEF Sharing!StopsCurrent
<1>5. \A w \in Sharing!Workers :
        /\ hostWorker'[w] \in HostWorkerRecords
        /\ hostWorker'[w].step = hostWorker[w].step /\ hostWorker'[w].gen = hostWorker[w].gen
        /\ hostWorker[w].told \/ w = hostSlot => hostWorker'[w].told
  <2> TAKE w \in Sharing!Workers
  <2>1. hostWorker[w] \in HostWorkerRecords
    BY <1>2
  <2> QED
    BY ZenonT(30), <1>4, <2>1 DEF HostWorkerRecords
<1>6. hostWorker' \in [Sharing!Workers -> HostWorkerRecords]
  BY <1>5 DEF Sharing!StopsCurrent
<1>7. HostStop(c)
  BY <1>3, <1>5 DEF HostStop, Sharing!StopsCurrent
<1>8. Sharing!TypeOK'
  <2>1. hostSlot' \in Sharing!Workers \cup {Sharing!Nobody} /\ hostGeneration' \in Nat
    BY <1>2 DEF Sharing!StopsCurrent
  <2> QED
    BY <1>1, <1>3, <1>6, <2>1, HostTyped, HostTypes
<1> QED
  BY <1>7, <1>8, HostStopKeeps

LEMMA HostStopSteps ==
    ASSUME HostInv, NEW c \in Sharing!Commands,
           Sharing!BeginPause(c) \/ Sharing!BeginStop(c) \/ Sharing!BeginRestart(c) \/ Sharing!Resume(c) \/ Sharing!Unconfirmed(c)
    PROVE  HostInv'
<1>1. paused \in BOOLEAN /\ wanted \in BOOLEAN
  BY HostTyped DEF HostInv
<1>2. CASE Sharing!BeginPause(c)
  BY <1>1, <1>2, HostStops DEF Sharing!BeginPause, Sharing!PausesLocked, Sharing!Begins
<1>3. CASE Sharing!BeginStop(c)
  BY <1>1, <1>3, HostStops DEF Sharing!BeginStop, Sharing!Begins
<1>4. CASE Sharing!BeginRestart(c)
  BY <1>1, <1>4, HostStops DEF Sharing!BeginRestart, Sharing!Begins, Sharing!Restarts
<1>5. CASE Sharing!Unconfirmed(c)
  BY <1>1, <1>5, HostStops, HostHolder
    DEF Sharing!Unconfirmed, Sharing!PausesLocked, HoldingSteps
<1>6. CASE Sharing!Resume(c)
  <2>1. promise = "none" /\ Sharing!Holds(c) /\ hostCommand[c].kind = "resume"
    BY <1>6, HostHolder DEF Sharing!Resume, HostInv, StopsAreMeant, HoldingSteps
  <2> QED
    BY <1>1, <1>6, <2>1, HostStops DEF Sharing!Resume
<1> QED
  BY <1>2, <1>3, <1>4, <1>5, <1>6

\* Whoever has the lock spawns a worker for the current generation while no
\* other worker of it is left.
LEMMA HostSpawns ==
    ASSUME HostInv, NEW x \in Sharing!Commands \cup Sharing!Workers, Sharing!Holds(x),
           Sharing!Release,
           NEW kind \in {"normal", "pairing"}, NEW others, Sharing!Spawns(kind, hostGeneration, others),
           others \in [Sharing!Workers -> HostWorkerRecords],
           \A v \in Sharing!Workers : others[v] = hostWorker[v] \/ others[v].step = "over",
           x \in Sharing!Workers => others[x].step = "over",
           hostSlot = Sharing!Nobody \/ hostSlot = x,
           hostCommand' \in [Sharing!Commands -> HostCommandRecords],
           \A d \in Sharing!Commands : hostCommand'[d].step \notin HoldingSteps,
           ~paused, pairing' \in BOOLEAN,
           UNCHANGED <<paused, marker, hostGeneration, exiting, endings, promise, wanted>>
    PROVE  HostInv'
<1>1. Sharing!TypeOK /\ hostGeneration \in Nat
  BY HostTyped DEF HostInv
<1> DEFINE r == [kind |-> kind, gen |-> hostGeneration, told |-> FALSE,
                 control |-> kind = "pairing",
                 step |-> IF kind = "pairing" THEN "serving" ELSE "preparing"]
<1>2. PICK w \in Sharing!Workers :
        /\ hostWorker[w].step = "none" /\ hostSlot' = w
        /\ hostWorker' = [others EXCEPT ![w] = r]
  BY DEF Sharing!Spawns
<1>3. /\ r.gen = hostGeneration /\ ~r.told /\ r.step \in {"preparing", "serving"}
      /\ r.kind \in {"normal", "pairing"} /\ (r.kind = "pairing" => r.step = "serving")
  OBVIOUS
<1>4. r \in HostWorkerRecords
  <2>1. (kind = "pairing") \in BOOLEAN
    OBVIOUS
  <2>2. r.step \in {"none", "preparing", "serving", "rearming", "over"}
    OBVIOUS
  <2> QED
    BY <1>1, <2>1, <2>2 DEF HostWorkerRecords
<1> HIDE DEF r
<1>5. hostWorker' \in [Sharing!Workers -> HostWorkerRecords] /\ hostWorker'[w] = r
      /\ \A v \in Sharing!Workers : v # w => hostWorker'[v] = others[v]
  BY <1>2, <1>4
<1>6. \A v \in Sharing!Workers : v # w /\ Active(v)' => hostSlot # v /\ v # x
  <2> SUFFICES ASSUME NEW v \in Sharing!Workers, v # w, Active(v)'
               PROVE  hostSlot # v /\ v # x
    OBVIOUS
  <2>1. v # x
    BY <1>5 DEF Active
  <2> QED
    BY <2>1, HostNumbers
<1>7. HostSpawn(x)
  BY <1>2, <1>3, <1>5, <1>6 DEF HostSpawn
<1>8. Sharing!TypeOK'
  <2>1. hostQueue' \in Seq(Sharing!Commands \cup Sharing!Workers)
    BY <1>1, HostLeaves
  <2> QED
    BY <1>1, <1>2, <1>5, <2>1, HostTyped, HostTypes
<1> QED
  BY <1>7, <1>8, HostSpawnKeeps

\* FinishRestart and Prepared: the command returns, and perhaps a worker starts.
LEMMA HostRestarts ==
    ASSUME HostInv, NEW c \in Sharing!Commands,
           Sharing!FinishRestart(c) \/ \E ok \in BOOLEAN : Sharing!Prepared(c, ok)
    PROVE  HostInv'
<1>1. Sharing!TypeOK /\ Sharing!Holds(c) /\ hostSlot = Sharing!Nobody /\ (hostCommand[c].gen = hostGeneration \/ exiting)
  BY HostHolder DEF HostInv, SlotIsEmpty, Sharing!FinishRestart, Sharing!Prepared, HoldingSteps
<1>2. /\ marker \in BOOLEAN /\ pairing \in BOOLEAN /\ wanted \in BOOLEAN
      /\ promise \in {"none", "run", "kept"}
      /\ hostWorker \in [Sharing!Workers -> HostWorkerRecords]
  BY <1>1, HostTyped
<1>3. Sharing!Returns(c) /\ UNCHANGED <<paused, hostGeneration, exiting, endings, marker, promise>>
      /\ pairing' \in BOOLEAN
  BY <1>2 DEF Sharing!FinishRestart, Sharing!Prepared
<1>4. ASSUME hostSlot' = hostSlot, hostWorker' = hostWorker, wanted' = wanted, ~Sharing!MayStart(hostCommand[c].gen)
      PROVE  HostInv'
  <2>1. paused \/ exiting
    BY <1>1, <1>4 DEF Sharing!MayStart
  <2> QED
    BY <1>1, <1>2, <1>3, <1>4, <2>1, HostReturns
<1>8. ASSUME hostSlot' = hostSlot, hostWorker' = hostWorker, wanted' = FALSE
      PROVE  HostInv'
  BY <1>1, <1>2, <1>3, <1>8, HostReturns
<1>5. ASSUME NEW kind \in {"normal", "pairing"}, Sharing!Spawns(kind, hostCommand[c].gen, hostWorker),
             Sharing!MayStart(hostCommand[c].gen), wanted' = wanted
      PROVE  HostInv'
  <2>1. ~paused /\ hostCommand[c].gen = hostGeneration
    BY <1>5 DEF Sharing!MayStart
  <2>2. \A d \in Sharing!Commands : hostCommand'[d].step \notin HoldingSteps
    BY <1>1, <1>3, HostReturned, HostHoldsAlone DEF HoldingSteps
  <2>3. hostCommand' \in [Sharing!Commands -> HostCommandRecords] /\ Sharing!Release
    BY <1>1, <1>3, HostReturned
  <2>4. c \in Sharing!Commands \cup Sharing!Workers /\ c \notin Sharing!Workers
    BY HostNumbers
  <2> QED
    BY <1>1, <1>2, <1>3, <1>5, <2>1, <2>2, <2>3, <2>4, HostSpawns
<1>6. CASE Sharing!FinishRestart(c)
  <2>1. CASE hostCommand[c].owned
    <3>1. Sharing!StartsNormal(hostCommand[c].gen, hostWorker) /\ wanted' = wanted
      BY <1>6, <2>1 DEF Sharing!FinishRestart
    <3> QED
      BY <1>4, <1>5, <3>1 DEF Sharing!StartsNormal
  <2>2. CASE ~hostCommand[c].owned
    <3>1. hostSlot' = hostSlot /\ hostWorker' = hostWorker /\ wanted' = FALSE
      BY <1>6, <2>2 DEF Sharing!FinishRestart
    <3> QED
      BY <1>8, <3>1
  <2> QED
    BY <2>1, <2>2
<1>7. ASSUME NEW ok \in BOOLEAN, Sharing!Prepared(c, ok)
      PROVE  HostInv'
  <2>1. CASE Sharing!MayStart(hostCommand[c].gen) /\ ok
    BY <1>5, <1>7, <2>1 DEF Sharing!Prepared
  <2>2. CASE ~(Sharing!MayStart(hostCommand[c].gen) /\ ok)
    <3>1. Sharing!StartsNormal(hostCommand[c].gen, hostWorker) /\ wanted' = wanted
      BY <1>7, <2>2 DEF Sharing!Prepared
    <3> QED
      BY <1>4, <1>5, <3>1 DEF Sharing!StartsNormal
  <2> QED
    BY <2>1, <2>2
<1> QED
  BY <1>6, <1>7

\* The end of a pairing: the normal worker, or nothing if it came too late.
LEMMA HostRearms ==
    ASSUME HostInv, NEW w \in Sharing!Workers, Sharing!Rearm(w)
    PROVE  HostInv'
<1>1. Sharing!TypeOK /\ hostWorker \in [Sharing!Workers -> HostWorkerRecords] /\ hostWorker[w].step = "rearming"
      /\ Sharing!Holds(w)
  BY HostTyped DEF HostInv, Sharing!Rearm
<1> DEFINE others == [hostWorker EXCEPT ![w].step = "over"]
<1>2. /\ others \in [Sharing!Workers -> HostWorkerRecords] /\ others[w].step = "over"
      /\ others[w].gen = hostWorker[w].gen /\ others[w].told = hostWorker[w].told
      /\ others[w].kind = hostWorker[w].kind
      /\ \A v \in Sharing!Workers : v # w => others[v] = hostWorker[v]
  BY <1>1 DEF HostWorkerRecords
<1>3. /\ Sharing!StartsNormal(hostWorker[w].gen, others) /\ Sharing!Release
      /\ UNCHANGED <<paused, marker, hostGeneration, hostCommand, pairing, exiting, endings,
                     promise, wanted>>
  BY DEF Sharing!Rearm
<1> HIDE DEF others
<1>4. CASE Sharing!MayStart(hostWorker[w].gen)
  <2>1. ~paused /\ hostWorker[w].gen = hostGeneration /\ hostSlot = w
    BY <1>1, <1>4 DEF Sharing!MayStart, HostInv, CurrentIsInSlot
  <2>2. Sharing!Spawns("normal", hostGeneration, others)
    BY <1>3, <1>4, <2>1 DEF Sharing!StartsNormal
  <2>3. \A d \in Sharing!Commands : hostCommand'[d].step \notin HoldingSteps
    BY <1>1, <1>3, HostHoldsAlone, HostNumbers
  <2>4. hostCommand' \in [Sharing!Commands -> HostCommandRecords] /\ pairing' \in BOOLEAN
    BY <1>1, <1>3, HostTyped
  <2>5. \A v \in Sharing!Workers : others[v] = hostWorker[v] \/ others[v].step = "over"
    BY <1>2
  <2> QED
    BY <1>1, <1>2, <1>3, <2>1, <2>2, <2>3, <2>4, <2>5, HostSpawns
<1>5. CASE ~Sharing!MayStart(hostWorker[w].gen)
  <2>1. hostSlot' = hostSlot /\ hostWorker' = others
    BY <1>3, <1>5 DEF Sharing!StartsNormal
  <2>2. hostQueue' \in Seq(Sharing!Commands \cup Sharing!Workers) /\ \A y : y # w /\ InQueue(y) => InQueue(y)'
    BY <1>1, <1>3, HostLeaves DEF InQueue
  <2>3. \A c \in Sharing!Commands : hostCommand[c].step \notin HoldingSteps
    BY <1>1, HostHoldsAlone, HostNumbers
  <2>4. w = hostSlot => paused
    BY <1>5, HostNumbers DEF Sharing!MayStart, HostInv, SlotIsCurrent
  <2>5. \A v \in Sharing!Workers : hostWorker[v].step = "rearming" => InQueue(v)
    BY DEF HostInv, LockIsHeld, InQueue
  <2>6. \A v \in Sharing!Workers : v = hostSlot /\ hostWorker[v].kind = "pairing" =>
             hostWorker[v].step \in {"serving", "rearming"} \/ paused
    BY HostNumbers DEF HostInv, SlotIsCurrent
  <2>7. HostWork
    <3>1. ASSUME NEW v \in Sharing!Workers
          PROVE  /\ hostWorker'[v].gen = hostWorker[v].gen
                 /\ hostWorker'[v].told = hostWorker[v].told
                 /\ hostWorker'[v].kind = hostWorker[v].kind
                 /\ Active(v)' => Active(v)
                 /\ Sharing!Live(v)' => Sharing!Live(v)
                 /\ hostWorker'[v].step = "none" => hostWorker[v].step = "none"
                 /\ hostWorker'[v].step = "rearming" => InQueue(v)'
                 /\ v = hostSlot /\ hostWorker[v].kind = "pairing" =>
                      hostWorker'[v].step \in {"serving", "rearming"} \/ paused
      BY <1>2, <2>1, <2>2, <2>4, <2>5, <2>6 DEF Active, Sharing!Live
    <3> QED
      BY <1>3, <2>1, <2>3, <3>1 DEF HostWork
  <2>8. Sharing!TypeOK'
    BY <1>1, <1>2, <1>3, <2>1, <2>2, HostTyped, HostTypes
  <2> QED
    BY <2>7, <2>8, HostWorkKeeps
<1> QED
  BY <1>4, <1>5

\* One worker takes a step of its own or is aborted.
LEMMA HostWorks ==
    ASSUME HostInv, NEW w \in Sharing!Workers, NEW r \in HostWorkerRecords,
           hostWorker' = [hostWorker EXCEPT ![w] = r],
           r.gen = hostWorker[w].gen, r.told = hostWorker[w].told, r.kind = hostWorker[w].kind,
           hostWorker[w].step # "none", r.step # "none",
           r.step \in {"preparing", "serving"} => Sharing!Live(w),
           r.step = "rearming" => Active(w) /\ InQueue(w)',
           w = hostSlot /\ r.kind = "pairing" => r.step \in {"serving", "rearming"},
           hostQueue' \in Seq(Sharing!Commands \cup Sharing!Workers),
           \A v \in Sharing!Workers : v # w /\ InQueue(v) => InQueue(v)',
           \A c \in Sharing!Commands : hostCommand[c].step \in HoldingSteps => Sharing!Holds(c)',
           pairing' \in BOOLEAN,
           UNCHANGED <<paused, marker, hostGeneration, hostCommand, hostSlot, exiting, endings,
                       promise, wanted>>
    PROVE  HostInv'
<1>1. Sharing!TypeOK /\ hostWorker \in [Sharing!Workers -> HostWorkerRecords]
  BY HostTyped DEF HostInv
<1>2. /\ hostWorker' \in [Sharing!Workers -> HostWorkerRecords] /\ hostWorker'[w] = r
      /\ \A v \in Sharing!Workers : v # w => hostWorker'[v] = hostWorker[v]
  BY <1>1
<1>3. \A v \in Sharing!Workers : hostWorker[v].step = "rearming" => InQueue(v)
  BY DEF HostInv, LockIsHeld, InQueue
<1>4. \A v \in Sharing!Workers : v = hostSlot /\ hostWorker[v].kind = "pairing" =>
           hostWorker[v].step \in {"serving", "rearming"} \/ paused
  BY HostNumbers DEF HostInv, SlotIsCurrent
<1>5. ASSUME NEW v \in Sharing!Workers
      PROVE  /\ hostWorker'[v].gen = hostWorker[v].gen /\ hostWorker'[v].told = hostWorker[v].told
             /\ hostWorker'[v].kind = hostWorker[v].kind
             /\ Active(v)' => Active(v)
             /\ Sharing!Live(v)' => Sharing!Live(v)
             /\ hostWorker'[v].step = "none" => hostWorker[v].step = "none"
             /\ hostWorker'[v].step = "rearming" => InQueue(v)'
             /\ v = hostSlot /\ hostWorker[v].kind = "pairing" =>
                  hostWorker'[v].step \in {"serving", "rearming"} \/ paused
  BY <1>2, <1>3, <1>4 DEF Active, Sharing!Live
<1>6. HostWork
  BY <1>5 DEF HostWork
<1>7. Sharing!TypeOK'
  BY <1>1, <1>2, HostTyped, HostTypes
<1> QED
  BY <1>6, <1>7, HostWorkKeeps

LEMMA HostWorkerSteps ==
    ASSUME HostInv, NEW w \in Sharing!Workers,
           Sharing!Ready(w) \/ Sharing!WorkerEnds(w) \/ Sharing!PairingEnds(w)
    PROVE  HostInv'
<1>1. /\ Sharing!TypeOK
      /\ hostWorker \in [Sharing!Workers -> HostWorkerRecords]
      /\ hostWorker[w] \in HostWorkerRecords
      /\ hostQueue \in Seq(Sharing!Commands \cup Sharing!Workers) /\ pairing \in BOOLEAN
  BY HostTyped DEF HostInv
<1>2. /\ w = hostSlot => ~hostWorker[w].told
      /\ \A c \in Sharing!Commands : hostCommand[c].step \in HoldingSteps => Sharing!Holds(c)
  BY HostNumbers DEF HostInv, SlotIsCurrent, LockIsHeld
<1>3. CASE Sharing!Ready(w)
  <2> DEFINE offers == Sharing!MayStart(hostWorker[w].gen) /\ hostSlot = w
             r == [hostWorker[w] EXCEPT !.step = "serving", !.control = offers]
  <2>1. offers \in BOOLEAN
    OBVIOUS
  <2>2. hostWorker' = [hostWorker EXCEPT ![w] = r]
    BY <1>1, <1>3 DEF Sharing!Ready
  <2> HIDE DEF offers
  <2>3. /\ r \in HostWorkerRecords /\ r.step = "serving" /\ r.gen = hostWorker[w].gen
        /\ r.told = hostWorker[w].told /\ r.kind = hostWorker[w].kind
    BY <1>1, <2>1 DEF HostWorkerRecords
  <2>4. hostWorker[w].step = "preparing" /\ hostQueue' = hostQueue /\ pairing' = pairing
        /\ UNCHANGED <<paused, marker, hostGeneration, hostCommand, hostSlot, exiting, endings,
                       promise, wanted>>
    BY <1>3 DEF Sharing!Ready
  <2> HIDE DEF r
  <2> QED
    BY <1>1, <1>2, <2>2, <2>3, <2>4, HostWorks DEF Sharing!Live, Sharing!Holds, InQueue
<1>4. CASE Sharing!WorkerEnds(w)
  <2> DEFINE r == [hostWorker[w] EXCEPT !.step = "over"]
  <2>1. /\ r \in HostWorkerRecords /\ r.step = "over" /\ r.gen = hostWorker[w].gen
        /\ r.told = hostWorker[w].told /\ r.kind = hostWorker[w].kind
    BY <1>1 DEF HostWorkerRecords
  <2>2. hostWorker' = [hostWorker EXCEPT ![w] = r] /\ Sharing!Live(w) /\ hostQueue' = hostQueue
        /\ (hostWorker[w].told \/ hostWorker[w].kind = "normal")
        /\ UNCHANGED <<paused, marker, hostGeneration, hostCommand, hostSlot, exiting, endings,
                       promise, wanted>>
    BY <1>1, <1>4 DEF Sharing!WorkerEnds
  <2>3. pairing' \in BOOLEAN
    BY <1>1, <1>4 DEF Sharing!WorkerEnds
  <2> HIDE DEF r
  <2> QED
    BY <1>1, <1>2, <2>1, <2>2, <2>3, HostWorks DEF Sharing!Live, Sharing!Holds, InQueue
<1>5. CASE Sharing!PairingEnds(w)
  <2> DEFINE r == [hostWorker[w] EXCEPT !.step = "rearming"]
  <2>1. /\ r \in HostWorkerRecords /\ r.step = "rearming" /\ r.gen = hostWorker[w].gen
        /\ r.told = hostWorker[w].told /\ r.kind = hostWorker[w].kind
    BY <1>1 DEF HostWorkerRecords
  <2>2. hostWorker' = [hostWorker EXCEPT ![w] = r] /\ hostWorker[w].step = "serving"
        /\ hostQueue' = Append(hostQueue, w) /\ pairing' = FALSE
        /\ UNCHANGED <<paused, marker, hostGeneration, hostCommand, hostSlot, exiting, endings,
                       promise, wanted>>
    BY <1>1, <1>5 DEF Sharing!PairingEnds
  <2> HIDE DEF r
  <2>3. /\ hostQueue' \in Seq(Sharing!Commands \cup Sharing!Workers) /\ InQueue(w)'
        /\ \A y \in Sharing!Commands \cup Sharing!Workers : Sharing!Holds(y) => Sharing!Holds(y)'
        /\ \A y : InQueue(y) => InQueue(y)'
    BY <1>1, <2>2, HostArrives DEF InQueue
  <2> QED
    BY <1>1, <1>2, <2>1, <2>2, <2>3, HostWorks DEF Sharing!Live, Active
<1> QED
  BY <1>3, <1>4, <1>5

\* After five seconds: whatever the worker does, and out of the queue.
LEMMA HostAborts ==
    ASSUME HostInv, NEW c \in Sharing!Commands, Sharing!Abort(c)
    PROVE  HostInv'
<1>1. /\ Sharing!TypeOK
      /\ hostWorker \in [Sharing!Workers -> HostWorkerRecords]
      /\ pairing \in BOOLEAN
      /\ hostCommand[c] \in HostCommandRecords
  BY HostTyped DEF HostInv
<1>2. Sharing!Holds(c) /\ hostSlot = Sharing!Nobody
  BY HostHolder DEF HostInv, SlotIsEmpty, Sharing!Abort, HoldingSteps
<1> DEFINE w == hostCommand[c].victim
<1>3. w \in Sharing!Workers /\ hostWorker[w].step # "over"
  BY <1>1 DEF Sharing!Abort, Sharing!Stopped, HostCommandRecords
<1>4. hostWorker[w] \in HostWorkerRecords
  BY <1>1, <1>3
<1> DEFINE r == [hostWorker[w] EXCEPT !.step = "over"]
<1>5. /\ r \in HostWorkerRecords /\ r.step = "over" /\ r.gen = hostWorker[w].gen
      /\ r.told = hostWorker[w].told /\ r.kind = hostWorker[w].kind
  BY <1>4 DEF HostWorkerRecords
<1>6. hostWorker' = [hostWorker EXCEPT ![w] = r] /\ hostQueue' = Sharing!Without(w)
      /\ UNCHANGED <<paused, marker, hostGeneration, hostCommand, hostSlot, pairing, exiting, endings,
                     promise, wanted>>
  BY <1>1, <1>3 DEF Sharing!Abort
<1> HIDE DEF r, w
<1>7. /\ hostQueue' \in Seq(Sharing!Commands \cup Sharing!Workers) /\ Sharing!Holds(c)'
      /\ \A y : y # w /\ InQueue(y) => InQueue(y)'
  BY <1>1, <1>2, <1>3, <1>6, HostNumbers, HostTakenOut DEF InQueue
<1>8. \A d \in Sharing!Commands : hostCommand[d].step \in HoldingSteps => Sharing!Holds(d)'
  BY <1>2, <1>7, HostHoldsAlone
<1>9. CASE hostWorker[w].step # "none"
  BY <1>1, <1>2, <1>3, <1>5, <1>6, <1>7, <1>8, <1>9, HostNumbers, HostWorks
<1>10. CASE hostWorker[w].step = "none"
  <2>1. /\ hostWorker' \in [Sharing!Workers -> HostWorkerRecords] /\ hostWorker'[w] = r
        /\ \A v \in Sharing!Workers : v # w => hostWorker'[v] = hostWorker[v]
    BY <1>1, <1>3, <1>5, <1>6
  <2>2. \A v \in Sharing!Workers : hostWorker[v].step = "rearming" => InQueue(v)
    BY DEF HostInv, LockIsHeld, InQueue
  <2>3. HostWork
    <3>1. ASSUME NEW v \in Sharing!Workers
          PROVE  /\ hostWorker'[v].gen = hostWorker[v].gen
                 /\ hostWorker'[v].told = hostWorker[v].told
                 /\ hostWorker'[v].kind = hostWorker[v].kind
                 /\ Active(v)' => Active(v)
                 /\ Sharing!Live(v)' => Sharing!Live(v)
                 /\ hostWorker'[v].step = "none" => hostWorker[v].step = "none"
                 /\ hostWorker'[v].step = "rearming" => InQueue(v)'
                 /\ v = hostSlot /\ hostWorker[v].kind = "pairing" =>
                      hostWorker'[v].step \in {"serving", "rearming"} \/ paused
      BY <1>2, <1>5, <1>7, <2>1, <2>2, HostNumbers DEF Active, Sharing!Live
    <3> QED
      BY <1>6, <1>8, <3>1 DEF HostWork
  <2>4. Sharing!TypeOK'
    BY <1>1, <1>6, <1>7, <2>1, HostTyped, HostTypes
  <2> QED
    BY <2>3, <2>4, HostWorkKeeps
<1> QED
  BY <1>9, <1>10

\* The application is on its way out: nothing of the current generation is left.
LEMMA HostRequestsStop ==
    ASSUME HostInv, Sharing!RequestStop
    PROVE  HostInv'
<1>1. /\ Sharing!TypeOK
      /\ hostCommand \in [Sharing!Commands -> HostCommandRecords]
      /\ hostGeneration \in Nat
      /\ hostWorker \in [Sharing!Workers -> HostWorkerRecords]
      /\ hostSlot \in Sharing!Workers \cup {Sharing!Nobody}
  BY HostTyped DEF HostInv
<1>2. /\ exiting' = TRUE /\ hostGeneration' = hostGeneration + 1 /\ hostSlot' = Sharing!Nobody
      /\ pairing' = FALSE /\ wanted' = FALSE
      /\ UNCHANGED <<paused, marker, hostQueue, hostCommand, endings, promise>>
      /\ \A w \in Sharing!Workers : hostWorker'[w] = IF w = hostSlot THEN [hostWorker[w] EXCEPT !.told = TRUE]
                                                      ELSE hostWorker[w]
  BY DEF Sharing!RequestStop
<1>3. \A w \in Sharing!Workers :
        /\ hostWorker'[w] \in HostWorkerRecords
        /\ hostWorker'[w].step = hostWorker[w].step /\ hostWorker'[w].gen = hostWorker[w].gen
        /\ hostWorker[w].told \/ w = hostSlot => hostWorker'[w].told
  <2> TAKE w \in Sharing!Workers
  <2>1. hostWorker[w] \in HostWorkerRecords
    BY <1>1
  <2> QED
    BY <1>2, <2>1 DEF HostWorkerRecords
<1>4. hostWorker' \in [Sharing!Workers -> HostWorkerRecords]
  BY <1>3 DEF Sharing!RequestStop
<1>5. Sharing!TypeOK'
  <2>1. hostGeneration' \in Nat /\ hostSlot' \in Sharing!Workers \cup {Sharing!Nobody}
    BY <1>1, <1>2
  <2>2. exiting' \in BOOLEAN /\ wanted' \in BOOLEAN /\ pairing' \in BOOLEAN
    BY <1>2
  <2> QED
    BY <1>1, <1>2, <1>4, <2>1, <2>2, HostTyped, HostTypes
<1>6. LockIsHeld'
  BY <1>2, <1>3 DEF HostInv, LockIsHeld, Sharing!Holds
<1>7. SlotIsEmpty' /\ StopsAreMeant' /\ WorkerIsComing' /\ SlotIsCurrent'
  BY <1>2 DEF HostInv, SlotIsEmpty, StopsAreMeant, WorkerIsComing, SlotIsCurrent
<1>8. CurrentIsInSlot'
  <2>1. \A w \in Sharing!Workers : hostWorker[w].gen \in Nat
    BY <1>1 DEF HostWorkerRecords
  <2> QED
    BY <1>1, <1>2, <1>3, <2>1 DEF HostInv, CurrentIsInSlot
<1>9. Sharing!NoStrayWorker'
  BY <1>3 DEF HostInv, Sharing!NoStrayWorker, Sharing!Live
<1>10. Sharing!PauseHolds'
  <2> SUFFICES ASSUME promise # "none"
               PROVE  paused /\ \A w \in Sharing!Workers : Sharing!Live(w)' => hostWorker'[w].told
    BY <1>2 DEF Sharing!PauseHolds
  <2>1. paused /\ \A w \in Sharing!Workers : Sharing!Live(w) => hostWorker[w].told
    BY DEF HostInv, Sharing!PauseHolds
  <2> QED
    BY <1>3, <2>1 DEF Sharing!Live
<1>11. Sharing!PauseIsKept'
  BY <1>2 DEF HostInv, Sharing!PauseIsKept
<1> QED
  BY <1>5, <1>6, <1>7, <1>8, <1>9, <1>10, <1>11 DEF HostInv

\* The next process finds nothing under way, and the marker if it was kept.
LEMMA HostProcessRestarts ==
    ASSUME HostInv, Sharing!ProcessRestarts
    PROVE  HostInv'
<1>1. /\ Sharing!TypeOK
      /\ hostCommand \in [Sharing!Commands -> HostCommandRecords]
      /\ marker \in BOOLEAN
      /\ hostWorker \in [Sharing!Workers -> HostWorkerRecords] /\ endings \in 0..HostEndings
      /\ promise \in {"none", "run", "kept"}
  BY HostTyped DEF HostInv
<1>2. /\ endings < HostEndings /\ endings' = endings + 1
      /\ paused' \in {marker, TRUE} /\ marker' = marker
      /\ hostGeneration' = 0 /\ hostQueue' = <<>> /\ hostSlot' = Sharing!Nobody
      /\ pairing' = FALSE /\ exiting' = FALSE /\ wanted' = FALSE
      /\ promise' = IF promise = "kept" THEN "kept" ELSE "none"
  BY DEF Sharing!ProcessRestarts
<1>3. hostCommand' \in [Sharing!Commands -> HostCommandRecords]
      /\ \A c \in Sharing!Commands : hostCommand'[c].step \in {"idle", "over"}
  <2>1. hostCommand' = [c \in Sharing!Commands |-> IF hostCommand[c].step = "idle" THEN Sharing!Idle
                                        ELSE [hostCommand[c] EXCEPT !.step = "over"]]
    BY DEF Sharing!ProcessRestarts
  <2>2. Sharing!Idle \in HostCommandRecords /\ Sharing!Idle.step = "idle"
    BY DEF Sharing!Idle, HostCommandRecords
  <2>3. \A c \in Sharing!Commands : [hostCommand[c] EXCEPT !.step = "over"] \in HostCommandRecords
                            /\ [hostCommand[c] EXCEPT !.step = "over"].step = "over"
    BY <1>1 DEF HostCommandRecords
  <2> QED
    BY <2>1, <2>2, <2>3
<1>4. hostWorker' \in [Sharing!Workers -> HostWorkerRecords]
      /\ \A w \in Sharing!Workers : hostWorker'[w].step \in {"none", "over"}
  <2>1. hostWorker' = [w \in Sharing!Workers |-> IF hostWorker[w].step = "none" THEN Sharing!NoWorker
                                        ELSE [hostWorker[w] EXCEPT !.step = "over"]]
    BY DEF Sharing!ProcessRestarts
  <2>2. Sharing!NoWorker \in HostWorkerRecords /\ Sharing!NoWorker.step = "none"
    BY DEF Sharing!NoWorker, HostWorkerRecords
  <2>3. \A w \in Sharing!Workers : [hostWorker[w] EXCEPT !.step = "over"] \in HostWorkerRecords
                            /\ [hostWorker[w] EXCEPT !.step = "over"].step = "over"
    BY <1>1 DEF HostWorkerRecords
  <2> QED
    BY <2>1, <2>2, <2>3
<1>5. Sharing!TypeOK'
  <2>1. endings' \in 0..HostEndings
    BY <1>1, <1>2, ApplicationsBounds
  <2>2. paused' \in BOOLEAN /\ promise' \in {"none", "run", "kept"}
    BY <1>1, <1>2
  <2>3. hostQueue' \in Seq(Sharing!Commands \cup Sharing!Workers)
    BY <1>2
  <2> QED
    BY <1>1, <1>2, <1>3, <1>4, <2>1, <2>2, <2>3, HostTypes
<1>6. LockIsHeld' /\ SlotIsEmpty' /\ StopsAreMeant'
  BY <1>3, <1>4 DEF LockIsHeld, SlotIsEmpty, StopsAreMeant, HoldingSteps
<1>7. SlotIsCurrent' /\ CurrentIsInSlot' /\ WorkerIsComing' /\ Sharing!NoStrayWorker'
  BY <1>2, <1>4
    DEF SlotIsCurrent, CurrentIsInSlot, WorkerIsComing, Sharing!NoStrayWorker, Sharing!Live
<1>8. Sharing!PauseHolds' /\ Sharing!PauseIsKept'
  <2> SUFFICES ASSUME promise' # "none"
               PROVE  paused' /\ marker' /\ \A w \in Sharing!Workers : ~Sharing!Live(w)'
    BY DEF Sharing!PauseHolds, Sharing!PauseIsKept
  <2>1. promise = "kept"
    BY <1>2
  <2>2. marker = TRUE
    BY <1>1, <2>1 DEF HostInv, Sharing!PauseIsKept
  <2> QED
    BY <1>2, <1>4, <2>2 DEF Sharing!Live
<1> QED
  BY <1>5, <1>6, <1>7, <1>8 DEF HostInv

LEMMA HostStarts ==
    ASSUME Sharing!Init
    PROVE  HostInv
<1>1. /\ marker \in BOOLEAN /\ paused \in {marker, TRUE} /\ hostGeneration = 0 /\ hostQueue = <<>>
      /\ hostSlot = Sharing!Nobody /\ hostCommand = [c \in Sharing!Commands |-> Sharing!Idle]
      /\ hostWorker = [w \in Sharing!Workers |-> Sharing!NoWorker]
      /\ pairing = FALSE
      /\ exiting = FALSE
      /\ endings = 0 /\ promise = (IF marker THEN "kept" ELSE "none") /\ wanted = FALSE
  BY DEF Sharing!Init
<1>2. /\ \A c \in Sharing!Commands : hostCommand[c].step = "idle"
      /\ \A w \in Sharing!Workers : hostWorker[w].step = "none"
  BY <1>1 DEF Sharing!Idle, Sharing!NoWorker
<1>3. Sharing!TypeOK
  <2>1. Sharing!Idle \in HostCommandRecords /\ Sharing!NoWorker \in HostWorkerRecords
    BY DEF Sharing!Idle, Sharing!NoWorker, HostCommandRecords, HostWorkerRecords
  <2>2. hostCommand \in [Sharing!Commands -> HostCommandRecords] /\ hostWorker \in [Sharing!Workers -> HostWorkerRecords]
    BY <1>1, <2>1
  <2>3. endings \in 0..HostEndings /\ hostQueue \in Seq(Sharing!Commands \cup Sharing!Workers)
    BY <1>1, ApplicationsBounds
  <2>4. paused \in BOOLEAN /\ promise \in {"none", "run", "kept"} /\ wanted \in BOOLEAN
    BY <1>1
  <2> QED
    BY <1>1, <2>2, <2>3, <2>4 DEF Sharing!TypeOK, HostCommandRecords, HostWorkerRecords
<1>4. LockIsHeld /\ SlotIsEmpty /\ StopsAreMeant
  BY <1>2 DEF LockIsHeld, SlotIsEmpty, StopsAreMeant, HoldingSteps
<1>5. SlotIsCurrent /\ CurrentIsInSlot /\ WorkerIsComing /\ Sharing!NoStrayWorker
  BY <1>1, <1>2
    DEF SlotIsCurrent, CurrentIsInSlot, WorkerIsComing, Sharing!NoStrayWorker, Sharing!Live
<1>6. Sharing!PauseHolds /\ Sharing!PauseIsKept
  BY <1>1, <1>2 DEF Sharing!PauseHolds, Sharing!PauseIsKept, Sharing!Live
<1> QED
  BY <1>3, <1>4, <1>5, <1>6 DEF HostInv

LEMMA HostStays ==
    ASSUME HostInv, [Sharing!Next]_(Sharing!vars)
    PROVE  HostInv'
<1>1. ASSUME NEW c \in Sharing!Commands, Sharing!CommandStep(c)
      PROVE  HostInv'
  BY <1>1, HostArrivals, HostSteps, HostEnds, HostStopSteps, HostRestarts, HostAborts
     DEF Sharing!CommandStep
<1>2. ASSUME NEW c \in Sharing!Commands,
             (\E kind \in Sharing!Kinds : Sharing!Call(c, kind)) \/ Sharing!Superseded(c) \/ Sharing!ResumeFails(c)
      PROVE  HostInv'
  BY <1>2, HostArrivals, HostEnds
<1>3. ASSUME NEW w \in Sharing!Workers, Sharing!Ready(w) \/ Sharing!WorkerEnds(w) \/ Sharing!PairingEnds(w) \/ Sharing!Rearm(w)
      PROVE  HostInv'
  BY <1>3, HostWorkerSteps, HostRearms
<1>4. CASE UNCHANGED Sharing!vars
  <2>1. UNCHANGED <<paused, marker, hostGeneration, hostQueue, hostCommand, hostSlot, hostWorker, pairing,
                    exiting, endings, promise, wanted>>
    BY <1>4 DEF Sharing!vars
  <2>2. Sharing!TypeOK'
    BY <2>1 DEF HostInv, Sharing!TypeOK
  <2>3. LockIsHeld' /\ SlotIsEmpty' /\ StopsAreMeant' /\ SlotIsCurrent'
    BY <2>1 DEF HostInv, LockIsHeld, SlotIsEmpty, StopsAreMeant, SlotIsCurrent, Sharing!Holds
  <2>4. CurrentIsInSlot' /\ WorkerIsComing' /\ Sharing!PauseHolds' /\ Sharing!PauseIsKept' /\ Sharing!NoStrayWorker'
    BY <2>1
      DEF HostInv, CurrentIsInSlot, WorkerIsComing, Sharing!PauseHolds, Sharing!PauseIsKept,
                Sharing!NoStrayWorker, Sharing!Live
  <2> QED
    BY <2>2, <2>3, <2>4 DEF HostInv
<1> QED
  BY <1>1, <1>2, <1>3, <1>4, HostRequestsStop, HostProcessRestarts DEF Sharing!Next

\* With the lock free a worker that is wanted is there, and it serves.
LEMMA HostHasWorker ==
    ASSUME HostInv
    PROVE  Sharing!SharingHasWorker
<1> SUFFICES ASSUME hostQueue = <<>>, wanted, ~paused, ~exiting
             PROVE  hostSlot # Sharing!Nobody /\ hostWorker[hostSlot].gen = hostGeneration /\ ~hostWorker[hostSlot].told
                    /\ (hostWorker[hostSlot].kind = "normal" \/ hostWorker[hostSlot].step = "serving")
  BY DEF Sharing!SharingHasWorker
<1>1. \A c \in Sharing!Commands : hostCommand[c].step \notin HoldingSteps
  BY DEF HostInv, LockIsHeld, Sharing!Holds
<1>2. hostSlot # Sharing!Nobody
  BY <1>1 DEF HostInv, WorkerIsComing, HoldingSteps
<1>3. \A w \in Sharing!Workers : hostWorker[w].step # "rearming"
  BY DEF HostInv, LockIsHeld
<1>4. hostSlot \in Sharing!Workers
  BY <1>2, HostTyped DEF HostInv
<1> QED
  BY <1>2, <1>3, <1>4 DEF HostInv, SlotIsCurrent

-----------------------------------------------------------------------------
(*                      The end of a control: EndControl                   *)

\* A session is served only for a stream there is, and only its stream is active,
\* until it is dropped.
ServedIsActive ==
    /\ phase \notin {"idle", "stopped"} => stream \in Ending!Streams
    /\ active # Ending!None => active = stream /\ phase \in {"active", "leaving", "ending"}

\* A click is for a stream that has begun; one that was answered with yes is for
\* a stream that is over.
AnswerIsTrue ==
    /\ click.state # "none" => click.of \in Ending!Streams /\ click.of <= stream
    /\ (click.state = "waiting" /\ answer = "yes") \/ click.state = "confirmed" =>
         stream > click.of \/ phase = "stopped"

\* The denial is on its way to a controller that is still there, and while the
\* session that sent it waits, or after the host stopped.
NoticeIsHeard ==
    /\ notice => peer = "in" /\ stream \in Ending!Streams /\ phase \in {"notifying", "stopped"}
    /\ peer = "in" /\ Ending!Serving => ~health.gone

EndInv == Ending!TypeOK /\ ServedIsActive /\ AnswerIsTrue /\ NoticeIsHeard

LEMMA EndStarts ==
    ASSUME Ending!Init
    PROVE  EndInv
<1>1. Ending!TypeOK
  <2>1. Ending!Fresh \in [gone: BOOLEAN, replaced: BOOLEAN]
    BY DEF Ending!Fresh
  <2>2. [of |-> Ending!None, state |-> "none"] \in
          [of: Ending!Streams \cup {Ending!None}, state: {"none", "waiting", "confirmed", "pausing", "paused"}]
    OBVIOUS
  <2>3. 1 \in 1..(EndStreams + 1) /\ 0 \in 0..EndClicks
    BY ApplicationsBounds
  <2> QED
    BY <2>1, <2>2, <2>3 DEF Ending!Init, Ending!TypeOK
<1>2. ServedIsActive /\ AnswerIsTrue /\ NoticeIsHeard
  BY DEF Ending!Init, ServedIsActive, AnswerIsTrue, NoticeIsHeard, Ending!None
<1> QED
  BY <1>1, <1>2 DEF EndInv

LEMMA EndStays ==
    ASSUME EndInv, [Ending!Next]_(Ending!vars)
    PROVE  EndInv'
<1> USE ApplicationsBounds
<1>1. CASE Ending!Activate
  <2>1. Ending!TypeOK'
    BY <1>1 DEF EndInv, Ending!TypeOK, Ending!Activate, Ending!Fresh
  <2>2. ServedIsActive' /\ AnswerIsTrue' /\ NoticeIsHeard'
    BY <1>1
      DEF EndInv, Ending!TypeOK, ServedIsActive, AnswerIsTrue, NoticeIsHeard, Ending!Serving,
          Ending!Activate, Ending!Fresh
  <2> QED
    BY <2>1, <2>2 DEF EndInv
<1>2. CASE Ending!TakeEnd
  BY <1>2
    DEF EndInv, Ending!TypeOK, ServedIsActive, AnswerIsTrue, NoticeIsHeard, Ending!Serving,
        Ending!TakeEnd, Ending!Click, Ending!Wire
<1>3. CASE Ending!OtherEnd
  BY <1>3
    DEF EndInv, Ending!TypeOK, ServedIsActive, AnswerIsTrue, NoticeIsHeard, Ending!Serving,
        Ending!OtherEnd, Ending!Click, Ending!Wire
<1>4. CASE Ending!DropActive
  BY <1>4
    DEF EndInv, Ending!TypeOK, ServedIsActive, AnswerIsTrue, NoticeIsHeard, Ending!Serving,
        Ending!DropActive, Ending!Click, Ending!Wire
<1>5. CASE Ending!Rearm
  <2>1. stream \in Ending!Streams /\ stream' = stream + 1 /\ stream' \in 1..(EndStreams + 1)
    BY <1>5 DEF EndInv, ServedIsActive, Ending!Rearm, Ending!Streams
  <2>2. Ending!TypeOK'
    BY <1>5, <2>1 DEF EndInv, Ending!TypeOK, Ending!Rearm, Ending!Click, Ending!Wire
  <2>3. ServedIsActive' /\ AnswerIsTrue' /\ NoticeIsHeard'
    BY <1>5, <2>1
      DEF EndInv, ServedIsActive, AnswerIsTrue, NoticeIsHeard, Ending!Serving, Ending!Rearm,
          Ending!Click, Ending!Streams, Ending!Wire
  <2> QED
    BY <2>2, <2>3 DEF EndInv
<1>6. CASE Ending!Notify
  <2>1. Ending!TypeOK'
    BY <1>6 DEF EndInv, Ending!TypeOK, Ending!Notify, Ending!Click
  <2>2. ServedIsActive' /\ AnswerIsTrue' /\ NoticeIsHeard'
    BY <1>6
      DEF EndInv, ServedIsActive, AnswerIsTrue, NoticeIsHeard, Ending!Serving, Ending!Notify,
          Ending!Click
  <2> QED
    BY <2>1, <2>2 DEF EndInv
<1>7. CASE Ending!Complete
  <2>1. PICK confirmed \in BOOLEAN : Ending!Ends(confirmed) /\ (confirmed => health.gone)
    BY <1>7 DEF Ending!Complete, EndInv, Ending!TypeOK
  <2>2. stream \in Ending!Streams /\ active = Ending!None /\ phase = "notifying"
    BY <1>7 DEF Ending!Complete, EndInv, ServedIsActive
  <2>3. stream' \in 1..(EndStreams + 1) /\ stream' >= stream
        /\ (confirmed => stream' = stream + 1 /\ phase' = "idle")
        /\ (~confirmed => phase' = "stopped")
    BY <2>1, <2>2 DEF Ending!Ends, Ending!Streams
  <2>4. Ending!TypeOK'
    BY ZenonT(30), <2>1, <2>3 DEF EndInv, Ending!TypeOK, Ending!Ends, Ending!Wire
  <2>5. ServedIsActive' /\ AnswerIsTrue' /\ NoticeIsHeard'
    BY <2>1, <2>2, <2>3
      DEF EndInv, ServedIsActive, AnswerIsTrue, NoticeIsHeard, Ending!Serving, Ending!Ends,
          Ending!Streams, Ending!Wire
  <2> QED
    BY <2>4, <2>5 DEF EndInv
<1>8. CASE Ending!Ask
  <2>1. active \in Ending!Streams /\ clicks' \in 0..EndClicks
    BY <1>8 DEF EndInv, Ending!TypeOK, Ending!Ask
  <2>2. Ending!TypeOK'
    BY <1>8, <2>1 DEF EndInv, Ending!TypeOK, Ending!Ask, Ending!Wire
  <2>3. ServedIsActive' /\ AnswerIsTrue' /\ NoticeIsHeard'
    BY <1>8, <2>1
      DEF EndInv, ServedIsActive, AnswerIsTrue, NoticeIsHeard, Ending!Serving, Ending!Ask,
          Ending!Streams, Ending!Wire
  <2> QED
    BY <2>2, <2>3 DEF EndInv
<1>9. CASE Ending!Confirm \/ Ending!GiveUp
  <2>1. click'.of = click.of /\ click'.state \in {"confirmed", "pausing"}
        /\ (click'.state = "confirmed" => click.state = "waiting" /\ answer = "yes")
        /\ click.state = "waiting"
        /\ click' \in [of: Ending!Streams \cup {Ending!None},
                       state: {"none", "waiting", "confirmed", "pausing", "paused"}]
    BY <1>9 DEF EndInv, Ending!TypeOK, Ending!Confirm, Ending!GiveUp
  <2>2. UNCHANGED <<stream, phase, active, request, taken, answer, clicks, Ending!Wire>>
    BY <1>9 DEF Ending!Confirm, Ending!GiveUp
  <2>3. Ending!TypeOK'
    BY <2>1, <2>2 DEF EndInv, Ending!TypeOK, Ending!Wire
  <2>4. ServedIsActive' /\ AnswerIsTrue' /\ NoticeIsHeard'
    BY <2>1, <2>2
      DEF EndInv, ServedIsActive, AnswerIsTrue, NoticeIsHeard, Ending!Serving, Ending!Wire
  <2> QED
    BY <2>3, <2>4 DEF EndInv
<1>10. CASE Ending!Paused
  <2>1. click'.of = click.of /\ click'.state = "paused" /\ click.state = "pausing"
        /\ click' \in [of: Ending!Streams \cup {Ending!None},
                       state: {"none", "waiting", "confirmed", "pausing", "paused"}]
    BY <1>10 DEF EndInv, Ending!TypeOK, Ending!Paused
  <2>2. Ending!TypeOK'
    BY <1>10, <2>1 DEF EndInv, Ending!TypeOK, Ending!Paused, Ending!Wire
  <2>3. ServedIsActive' /\ AnswerIsTrue' /\ NoticeIsHeard'
    BY <1>10, <2>1
      DEF EndInv, ServedIsActive, AnswerIsTrue, NoticeIsHeard, Ending!Serving, Ending!Paused,
          Ending!Wire
  <2> QED
    BY <2>2, <2>3 DEF EndInv
<1>11. CASE Ending!PeerJoins \/ Ending!PeerLost \/ Ending!RelayNotices \/ Ending!PeerReads
  <2>1. UNCHANGED <<stream, phase, active, request, taken, Ending!Click>>
    BY <1>11 DEF Ending!PeerJoins, Ending!PeerLost, Ending!RelayNotices, Ending!PeerReads
  <2>2. ServedIsActive' /\ AnswerIsTrue'
    BY <2>1 DEF EndInv, ServedIsActive, AnswerIsTrue, Ending!Click
  <2>4. NoticeIsHeard'
    BY <1>11, <2>1
      DEF EndInv, Ending!TypeOK, NoticeIsHeard, Ending!Serving, Ending!PeerJoins,
          Ending!PeerLost, Ending!RelayNotices, Ending!PeerReads
  <2>3. Ending!TypeOK'
    <3>1. CASE Ending!PeerJoins
      <4>1. Ending!Serving \in BOOLEAN /\ health.replaced \in BOOLEAN
        BY DEF Ending!Serving, EndInv, Ending!TypeOK
      <4>2. PICK told \in {TRUE, ~health.gone} :
               health' = [health EXCEPT !.replaced = @ \/ (Ending!Serving /\ told)]
        BY <3>1 DEF Ending!PeerJoins
      <4>3. health' \in [gone: BOOLEAN, replaced: BOOLEAN]
        BY <4>1, <4>2 DEF EndInv, Ending!TypeOK
      <4> QED
        BY <2>1, <3>1, <4>3 DEF EndInv, Ending!TypeOK, Ending!PeerJoins, Ending!Click
    <3>2. CASE Ending!PeerLost
      BY <2>1, <3>2 DEF EndInv, Ending!TypeOK, Ending!PeerLost, Ending!Click
    <3>4. CASE Ending!RelayNotices
      <4>1. health' \in [gone: BOOLEAN, replaced: BOOLEAN]
        BY <3>4 DEF EndInv, Ending!TypeOK, Ending!RelayNotices
      <4> QED
        BY <2>1, <3>4, <4>1 DEF EndInv, Ending!TypeOK, Ending!RelayNotices, Ending!Click
    <3>3. CASE Ending!PeerReads
      <4>1. stream \in Ending!Streams /\ Ending!Serving \in BOOLEAN
        BY <3>3 DEF EndInv, Ending!PeerReads, NoticeIsHeard, Ending!Serving
      <4>2. health' \in [gone: BOOLEAN, replaced: BOOLEAN]
        BY <3>3, <4>1 DEF EndInv, Ending!TypeOK, Ending!PeerReads
      <4> QED
        BY <2>1, <3>3, <4>1, <4>2
          DEF EndInv, Ending!TypeOK, Ending!PeerReads, Ending!Click, Ending!Serving
    <3> QED
      BY <1>11, <3>1, <3>2, <3>3, <3>4
  <2> QED
    BY <2>2, <2>3, <2>4 DEF EndInv
<1>12. CASE UNCHANGED Ending!vars
  BY <1>12
    DEF EndInv, Ending!TypeOK, ServedIsActive, AnswerIsTrue, NoticeIsHeard, Ending!Serving,
        Ending!vars
<1> QED
  BY <1>1, <1>2, <1>3, <1>4, <1>5, <1>6, <1>7, <1>8, <1>9, <1>10, <1>11, <1>12
     DEF Ending!Next, Ending!Host, Ending!User

LEMMA EndHolds ==
    ASSUME EndInv
    PROVE  Ending!TypeOK /\ Ending!ConfirmedEnds
<1>1. click.state = "confirmed" => active # click.of
  BY ApplicationsBounds DEF EndInv, ServedIsActive, AnswerIsTrue, Ending!Streams, Ending!None
<1> QED
  BY <1>1 DEF EndInv, AnswerIsTrue, Ending!ConfirmedEnds

-----------------------------------------------------------------------------
(*                         The account: AccountSession                     *)

\* The requests of an operation in the order it makes them.
Rank(at) ==
    CASE at = "sent" -> 0 [] at = "opened" -> 1 [] at \in {"login", "me"} -> 2
      [] at = "refresh" -> 3 [] at = "again" -> 4 [] OTHER -> 5

\* The user interface numbers operations in order: none beyond front has begun,
\* and one that is only to be cancelled does nothing.
OpsInOrder ==
    /\ front \in Account!Ops /\ gen <= front
    /\ \A g \in Account!Ops : g > front => op[g] = Account!Unused
    /\ \A g \in cancels : g <= front /\ op[g].at = "over"
    /\ \A m \in wire : m.of <= front

\* An operation that has an answer, and a request that shows a session, have one.
SessionsAreThere ==
    /\ \A g \in Account!Ops :
         /\ op[g].kind = "login" => op[g].user \in AccountUsers
         /\ op[g].at \in {"me", "refresh", "again", "staged", "accepting", "accepted"}
              \/ op[g].reply = "ok" => op[g].session # Account!None
         /\ op[g].at \in {"sent", "opened", "signedOut"} => op[g].session = Account!None
    /\ \A m \in wire :
         /\ m.call = "login" => m.user \in AccountUsers
         /\ m.call # "login" => m.session # Account!None

\* A request belongs to where its operation is or was, and the one that is
\* waited for shows the session of the operation.
RequestsMatch ==
    \A m \in wire : \A g \in Account!Ops : m.of = g =>
        /\ m.call # "logout" /\ Rank(m.call) <= Rank(op[g].at)
        /\ m.call # "login" /\ op[g].at = m.call /\ op[g].reply = "none" =>
             m.session = op[g].session

\* What the operation that owns the state has done to it so far.
OwnerIsInStep ==
    accountActive =>
        /\ gen \in Account!Ops
        /\ previous # Account!Absent =>
             /\ pending = Account!None /\ op[gen].at \in {"over", "accepted", "finishing"}
             /\ op[gen].at # "over" => op[gen].session # Account!None
        /\ op[gen].at \in {"staged", "accepting"} => pending = op[gen].session
        /\ op[gen].at \in {"accepted", "finishing"} /\ op[gen].session # Account!None =>
             stored = op[gen].session

\* The operation of the user interface that finished left its session on disk,
\* and so it is while that session is shown.
FinishedIsStored ==
    /\ op[front].at = "finished" =>
         /\ gen = front /\ ~accountActive /\ previous = Account!Absent
         /\ op[front].session # Account!None => stored = op[front].session
    /\ shown # Account!None =>
         /\ op[front].at = "over" /\ front \notin cancels
         /\ gen = front /\ ~accountActive /\ previous = Account!Absent

\* What is, was or may be the session of the owner, and what a logout that is
\* still on its way could revoke.
Held == {stored, pending, previous} \cup {op[g].session : g \in {h \in Account!Ops : Account!Current(h)}}

LogoutsAreLate ==
    \A m \in wire : m.call = "logout" /\ m.session \notin revoked \cup expired =>
        \A x \in Held \cap Account!Sessions : issued[x].user # issued[m.session].user

AccountInv ==
    /\ Account!TypeOK /\ OpsInOrder /\ SessionsAreThere /\ RequestsMatch /\ OwnerIsInStep
    /\ FinishedIsStored /\ LogoutsAreLate /\ Account!Retained /\ Account!ShownIsStored

Ats == Account!Waits \cup {"over", "sent", "opened", "signedOut", "staged", "accepting",
                   "accepted", "finishing", "finished"}
OpRecords == [kind : {"none", "login", "restore"}, user : AccountUsers \cup {Account!None}, at : Ats,
              session : Account!Value, reply : {"none", "ok", "error"}]
WireTyped ==
    \A m \in wire : /\ m.call \in Account!Waits \cup {"logout"} /\ m.of \in 0..AccountOps
                    /\ m.session \in Account!Value /\ m.user \in AccountUsers \cup {Account!None}

LEMMA AccountTyped ==
    ASSUME Account!TypeOK
    PROVE  /\ issued \in Seq([user : AccountUsers, family : 1..AccountSessions])
           /\ Len(issued) <= AccountSessions /\ Account!Sessions = 1..Len(issued)
           /\ rotated \subseteq Account!Sessions /\ revoked \subseteq Account!Sessions
           /\ expired \subseteq Account!Sessions
           /\ gen \in 0..AccountOps /\ accountActive \in BOOLEAN /\ pending \in Account!Value
           /\ previous \in Account!Value \cup {Account!Absent}
           /\ stored \in Account!Value
           /\ settled \in Account!Value
           /\ op \in [Account!Ops -> OpRecords] /\ WireTyped
           /\ cancels \subseteq Account!Ops /\ front \in 0..AccountOps /\ shown \in Account!Value
           /\ busy \in BOOLEAN /\ faults \in 0..AccountFaults /\ crashes \in 0..AccountCrashes
BY DEF Account!TypeOK, Account!ServiceTypeOK, OpRecords, Ats, Account!Sessions, WireTyped

LEMMA AccountTypes ==
    ASSUME Account!ServiceTypeOK',
           gen' \in 0..AccountOps, accountActive' \in BOOLEAN, pending' \in Account!Value',
           previous' \in Account!Value' \cup {Account!Absent}, stored' \in Account!Value', settled' \in Account!Value',
           op' \in [Account!Ops -> OpRecords'], WireTyped',
           cancels' \subseteq Account!Ops, front' \in 0..AccountOps, shown' \in Account!Value',
           busy' \in BOOLEAN, faults' \in 0..AccountFaults, crashes' \in 0..AccountCrashes
    PROVE  Account!TypeOK'
BY DEF Account!TypeOK, OpRecords, Ats, WireTyped

\* While the service does nothing its part of the types stays.
LEMMA AccountServiceStays ==
    ASSUME Account!TypeOK, UNCHANGED Account!service
    PROVE  /\ Account!ServiceTypeOK'
           /\ Account!Sessions' = Account!Sessions
           /\ Account!Value' = Account!Value
           /\ OpRecords' = OpRecords
BY
  DEF Account!TypeOK, Account!ServiceTypeOK, Account!service, Account!Sessions, Account!Value,
      OpRecords

\* Sessions are numbered from one; neither None nor Absent is one.
LEMMA AccountNumbers ==
    ASSUME Account!TypeOK
    PROVE  /\ Account!None \notin Account!Sessions
           /\ Account!Absent \notin Account!Sessions
           /\ Account!Absent \notin Account!Value
           /\ Account!None \in Account!Value /\ Account!Absent # Account!None
           /\ \A v \in Account!Value : v # Account!None => v \in Account!Sessions
<1>1. Account!Sessions = 1..Len(issued) /\ Len(issued) \in Nat
  BY AccountTyped
<1> QED
  BY <1>1 DEF Account!None, Account!Absent, Account!Value

LEMMA AccountUnused ==
    ASSUME Account!TypeOK
    PROVE  /\ Account!Unused \in OpRecords
           /\ Account!Unused.at = "over"
           /\ Account!Unused.session = Account!None
           /\ Account!Unused.kind = "none" /\ Account!Unused.reply = "none"
           /\ Account!Restore \in OpRecords
           /\ Account!Restore.at = "sent"
           /\ Account!Restore.session = Account!None
           /\ Account!Restore.kind = "restore" /\ Account!Restore.reply = "none"
BY DEF Account!Unused, Account!Restore, OpRecords, Ats, Account!Value

\* An operation moves on.
LEMMA AccountGoes ==
    ASSUME Account!TypeOK, NEW g \in Account!Ops, NEW at \in Ats, Account!Goes(g, at)
    PROVE  /\ op' \in [Account!Ops -> OpRecords]
           /\ \A h \in Account!Ops : h # g => op'[h] = op[h]
           /\ at = "over" => op'[g] = Account!Unused
           /\ at # "over" =>
                /\ op'[g].at = at /\ op'[g].reply = "none" /\ op'[g].kind = op[g].kind
                /\ op'[g].user = op[g].user /\ op'[g].session = op[g].session
<1>1. op \in [Account!Ops -> OpRecords] /\ op[g] \in OpRecords
  BY AccountTyped
<1> DEFINE r == IF at = "over" THEN Account!Unused ELSE [op[g] EXCEPT !.at = at, !.reply = "none"]
<1>2. op' = [op EXCEPT ![g] = r]
  BY DEF Account!Goes
<1>3. /\ r \in OpRecords /\ (at = "over" => r = Account!Unused)
      /\ at # "over" =>
           /\ r.at = at /\ r.reply = "none" /\ r.kind = op[g].kind
           /\ r.user = op[g].user /\ r.session = op[g].session
  BY <1>1, AccountUnused DEF OpRecords
<1> HIDE DEF r
<1> QED
  BY <1>1, <1>2, <1>3

\* An operation sends a request.
LEMMA AccountCalls ==
    ASSUME Account!TypeOK, NEW g \in Account!Ops, NEW call \in Account!Waits,
           NEW s \in Account!Value, Account!Calls(g, call, s)
    PROVE  /\ op' \in [Account!Ops -> OpRecords]
           /\ \A h \in Account!Ops : h # g => op'[h] = op[h]
           /\ op'[g].at = call /\ op'[g].reply = "none" /\ op'[g].kind = op[g].kind
           /\ op'[g].user = op[g].user /\ op'[g].session = s
           /\ \E n : /\ wire' = wire \cup {n}
                     /\ n.of = g /\ n.call = call /\ n.session = s /\ n.user = op[g].user
<1>1. op \in [Account!Ops -> OpRecords] /\ op[g] \in OpRecords
  BY AccountTyped
<1> DEFINE r == [op[g] EXCEPT !.at = call, !.reply = "none", !.session = s]
           n == [of |-> g, call |-> call, user |-> op[g].user, session |-> s]
<1>2. op' = [op EXCEPT ![g] = r] /\ wire' = wire \cup {n}
  BY <1>1 DEF Account!Calls
<1>3. /\ r \in OpRecords /\ r.at = call /\ r.reply = "none" /\ r.kind = op[g].kind
      /\ r.user = op[g].user /\ r.session = s
  BY <1>1 DEF OpRecords, Ats
<1>4. n.of = g /\ n.call = call /\ n.session = s /\ n.user = op[g].user
  OBVIOUS
<1> HIDE DEF r, n
<1> QED
  BY <1>1, <1>2, <1>3, <1>4

\* The record of one operation moves on, with nothing in hand that it had not.
AccountMove(g) ==
    /\ op' \in [Account!Ops -> OpRecords']
    /\ UNCHANGED <<Account!service, Account!owner, cancels, front, busy>>
    /\ wire' \subseteq wire
    /\ \A h \in Account!Ops : h # g => op'[h] = op[h]
    /\ op[g].at # "over"
    /\ \/ op'[g] = Account!Unused
       \/ /\ op'[g].kind = op[g].kind /\ op'[g].user = op[g].user
          /\ op'[g].session = op[g].session
          /\ \/ op'[g].at = op[g].at /\ op'[g].reply = "error"
             \/ /\ <<op[g].at, op'[g].at>> \in
                     {<<"staged", "accepting">>, <<"accepted", "finishing">>,
                      <<"signedOut", "finishing">>, <<"opened", "signedOut">>}
                /\ op'[g].reply = "none"
    /\ \/ shown' = shown
       \/ /\ shown' = op[g].session /\ op[g].at = "finished" /\ front = g
          /\ op'[g] = Account!Unused

LEMMA AccountMoveKeeps ==
    ASSUME AccountInv, Account!TypeOK', NEW g \in Account!Ops, AccountMove(g)
    PROVE  AccountInv'
<1>1. Account!TypeOK /\ op \in [Account!Ops -> OpRecords] /\ front \in Account!Ops /\ op[front].at \in Ats
      /\ Account!Sessions' = Account!Sessions
  BY AccountTyped, AccountServiceStays DEF AccountInv, OpsInOrder, OpRecords, AccountMove
<1>2. /\ UNCHANGED <<gen, accountActive, pending, previous, stored, settled, issued, rotated,
                     revoked, expired, cancels, front, busy>>
      /\ wire' \subseteq wire
      /\ \A h \in Account!Ops : h # g => op'[h] = op[h]
      /\ op[g].at # "over"
  BY DEF AccountMove, Account!owner, Account!service
<1>3. /\ Account!Unused.at = "over"
      /\ Account!Unused.session = Account!None
      /\ Account!Unused.kind = "none"
      /\ Account!Unused.reply = "none"
      /\ Account!None \notin Account!Sessions
      /\ Account!Absent \notin Account!Sessions
  BY <1>1, AccountUnused, AccountNumbers
<1>4. \/ op'[g] = Account!Unused
      \/ /\ op'[g].kind = op[g].kind /\ op'[g].user = op[g].user
         /\ op'[g].session = op[g].session
         /\ \/ op'[g].at = op[g].at /\ op'[g].reply = "error"
            \/ /\ op[g].at = "staged" /\ op'[g].at = "accepting" /\ op'[g].reply = "none"
            \/ /\ op[g].at = "accepted" /\ op'[g].at = "finishing" /\ op'[g].reply = "none"
            \/ /\ op[g].at = "signedOut" /\ op'[g].at = "finishing" /\ op'[g].reply = "none"
            \/ /\ op[g].at = "opened" /\ op'[g].at = "signedOut" /\ op'[g].reply = "none"
  BY DEF AccountMove
<1>5. OpsInOrder'
  <2>1. ~(g > front) /\ g \notin cancels
    BY <1>2, <1>3 DEF AccountInv, OpsInOrder
  <2>2. \A h \in Account!Ops : /\ h > front => op'[h] = Account!Unused
                               /\ h \in cancels => op'[h].at = "over"
    BY <1>2, <2>1 DEF AccountInv, OpsInOrder
  <2>3. /\ front \in Account!Ops /\ gen <= front
        /\ \A h \in cancels : h \in Account!Ops /\ h <= front
        /\ \A m \in wire : m.of <= front
    BY <1>1, AccountTyped DEF AccountInv, OpsInOrder
  <2>4. \A h \in Account!Ops : h > front => op'[h] = Account!Unused
    BY <2>2
  <2>5. \A h \in cancels : h <= front /\ op'[h].at = "over"
    BY <2>2, <2>3
  <2>6. \A m \in wire' : m.of <= front
    BY <1>2, <2>3
  <2> QED
    BY <1>2, <2>3, <2>4, <2>5, <2>6 DEF OpsInOrder
<1>6. SessionsAreThere'
  <2>1. ASSUME NEW h \in Account!Ops
        PROVE  /\ op'[h].kind = "login" => op'[h].user \in AccountUsers
               /\ op'[h].at \in {"me", "refresh", "again", "staged", "accepting", "accepted"}
                    \/ op'[h].reply = "ok" => op'[h].session # Account!None
               /\ op'[h].at \in {"sent", "opened", "signedOut"} => op'[h].session = Account!None
    <3>1. CASE h # g
      BY <1>2, <3>1 DEF AccountInv, SessionsAreThere
    <3>2. CASE h = g
      BY <1>3, <1>4, <3>2 DEF AccountInv, SessionsAreThere
    <3> QED
      BY <3>1, <3>2
  <2> QED
    BY <1>2, <2>1 DEF AccountInv, SessionsAreThere
<1>7. RequestsMatch'
  <2> SUFFICES ASSUME NEW m \in wire, NEW h \in Account!Ops, m.of = h
               PROVE  /\ m.call # "logout" /\ Rank(m.call) <= Rank(op'[h].at)
                      /\ m.call # "login" /\ op'[h].at = m.call /\ op'[h].reply = "none" =>
                           m.session = op'[h].session
    BY <1>2 DEF RequestsMatch
  <2>1. /\ m.call # "logout" /\ Rank(m.call) <= Rank(op[h].at)
        /\ m.call # "login" /\ op[h].at = m.call /\ op[h].reply = "none" =>
             m.session = op[h].session
        /\ m.call \in Account!Waits \cup {"logout"}
    BY <1>1, AccountTyped DEF AccountInv, RequestsMatch, WireTyped
  <2>2. CASE h # g
    BY <1>2, <2>1, <2>2
  <2>3. CASE h = g
    BY <1>3, <1>4, <2>1, <2>3 DEF Rank, Account!Waits
  <2> QED
    BY <2>2, <2>3
<1>8. OwnerIsInStep'
  <2> SUFFICES ASSUME accountActive PROVE OwnerIsInStep'
    BY <1>2 DEF OwnerIsInStep
  <2>1. gen \in Account!Ops
    BY DEF AccountInv, OwnerIsInStep
  <2>2. CASE gen # g
    BY <1>2, <2>1, <2>2 DEF AccountInv, OwnerIsInStep
  <2>3. CASE gen = g
    <3>1. op[g].at = "signedOut" => op[g].session = Account!None
      BY <2>1, <2>3 DEF AccountInv, SessionsAreThere
    <3> QED
      BY <1>2, <1>3, <1>4, <2>1, <2>3, <3>1 DEF AccountInv, OwnerIsInStep
  <2> QED
    BY <2>2, <2>3
<1>9. FinishedIsStored' /\ Account!ShownIsStored'
  <2>1. CASE shown' = shown
    <3>1. op'[front].at = "finished" => op'[front].session = op[front].session
                                        /\ op[front].at = "finished"
      BY <1>1, <1>2, <1>3, <1>4
    <3>2. shown # Account!None => front # g
      BY <1>2 DEF AccountInv, FinishedIsStored
    <3>3. shown # Account!None => op'[front].at = "over"
      BY <1>1, <1>2, <3>2 DEF AccountInv, FinishedIsStored
    <3> QED
      BY <1>2, <2>1, <3>1, <3>3 DEF AccountInv, FinishedIsStored, Account!ShownIsStored
  <2>2. CASE /\ shown' = op[g].session /\ op[g].at = "finished" /\ front = g
             /\ op'[g] = Account!Unused
    <3>1. front \notin cancels
      BY <1>2, <2>2 DEF AccountInv, OpsInOrder
    <3> QED
      BY <1>2, <1>3, <2>2, <3>1 DEF AccountInv, FinishedIsStored, Account!ShownIsStored
  <2> QED
    BY <2>1, <2>2 DEF AccountMove
<1>10. LogoutsAreLate'
  <2>1. \A h \in Account!Ops : op'[h].session = op[h].session \/ op'[h].session = Account!None
    BY <1>2, <1>3, <1>4
  <2>2. \A x \in (Held \cap Account!Sessions)' : x \in Held \cap Account!Sessions
    BY <1>1, <1>2, <1>3, <2>1 DEF Held, Account!Current
  <2> QED
    BY <1>2, <2>2 DEF AccountInv, LogoutsAreLate
<1>11. Account!Retained'
  BY <1>2 DEF AccountInv, Account!Retained
<1> QED
  BY <1>5, <1>6, <1>7, <1>8, <1>9, <1>10, <1>11 DEF AccountInv

\* An operation sends its next request.
AccountAsk(g, call, s) ==
    /\ Account!Calls(g, call, s)
    /\ UNCHANGED <<Account!service, Account!owner, cancels, Account!ui>>
    /\ s # Account!None
    /\ \/ op[g].at = "opened" /\ call = "me" /\ s = stored
       \/ op[g].at = "me" /\ call = "refresh" /\ s = op[g].session
       \/ op[g].at = "refresh" /\ call = "again" /\ s = op[g].session

LEMMA AccountAskKeeps ==
    ASSUME AccountInv, Account!TypeOK', NEW g \in Account!Ops,
           NEW call \in {"me", "refresh", "again"},
           NEW s \in Account!Value, AccountAsk(g, call, s)
    PROVE  AccountInv'
<1>1. Account!TypeOK /\ op \in [Account!Ops -> OpRecords] /\ front \in Account!Ops /\ Account!Sessions' = Account!Sessions
      /\ call \in Account!Waits
  BY AccountTyped, AccountServiceStays DEF AccountInv, OpsInOrder, AccountAsk, Account!Waits
<1>2. /\ UNCHANGED <<gen, accountActive, pending, previous, stored, settled, issued, rotated,
                     revoked, expired, cancels, front, busy, shown>>
      /\ \/ op[g].at = "opened" /\ call = "me" /\ s = stored
         \/ op[g].at = "me" /\ call = "refresh" /\ s = op[g].session
         \/ op[g].at = "refresh" /\ call = "again" /\ s = op[g].session
      /\ s # Account!None
  BY DEF AccountAsk, Account!owner, Account!service, Account!ui
<1>3. /\ \A h \in Account!Ops : h # g => op'[h] = op[h]
      /\ op'[g].at = call /\ op'[g].reply = "none" /\ op'[g].kind = op[g].kind
      /\ op'[g].user = op[g].user /\ op'[g].session = s
  BY <1>1, AccountCalls DEF AccountAsk
<1>4. PICK n : /\ wire' = wire \cup {n}
               /\ n.of = g /\ n.call = call /\ n.session = s /\ n.user = op[g].user
  BY <1>1, AccountCalls DEF AccountAsk
<1>5. g <= front /\ g \notin cancels
  BY <1>1, <1>2, AccountTyped, AccountUnused DEF AccountInv, OpsInOrder, Account!Ops
<1>6. OpsInOrder'
  <2>1. ~(g > front)
    BY <1>1, <1>2, AccountUnused DEF AccountInv, OpsInOrder
  <2>2. \A h \in Account!Ops : /\ h > front => op'[h] = Account!Unused
                               /\ h \in cancels => op'[h].at = "over"
    BY <1>3, <1>5, <2>1 DEF AccountInv, OpsInOrder
  <2>3. \A m \in wire' : m.of <= front
    BY <1>4, <1>5 DEF AccountInv, OpsInOrder
  <2>4. /\ front \in Account!Ops /\ gen <= front
        /\ \A h \in cancels : h \in Account!Ops /\ h <= front
    BY <1>1, AccountTyped DEF AccountInv, OpsInOrder
  <2>5. \A h \in Account!Ops : h > front => op'[h] = Account!Unused
    BY <2>2
  <2>6. \A h \in cancels : h <= front /\ op'[h].at = "over"
    BY <2>2, <2>4
  <2> QED
    BY <1>2, <2>3, <2>4, <2>5, <2>6 DEF OpsInOrder
<1>7. SessionsAreThere'
  <2>1. ASSUME NEW h \in Account!Ops
        PROVE  /\ op'[h].kind = "login" => op'[h].user \in AccountUsers
               /\ op'[h].at \in {"me", "refresh", "again", "staged", "accepting", "accepted"}
                    \/ op'[h].reply = "ok" => op'[h].session # Account!None
               /\ op'[h].at \in {"sent", "opened", "signedOut"} => op'[h].session = Account!None
    <3>1. CASE h # g
      BY <1>3, <3>1 DEF AccountInv, SessionsAreThere
    <3>2. CASE h = g
      BY <1>2, <1>3, <3>2 DEF AccountInv, SessionsAreThere
    <3> QED
      BY <3>1, <3>2
  <2>2. \A m \in wire' : /\ m.call = "login" => m.user \in AccountUsers
                         /\ m.call # "login" => m.session # Account!None
    BY <1>2, <1>4 DEF AccountInv, SessionsAreThere
  <2> QED
    BY <2>1, <2>2 DEF SessionsAreThere
<1>8. RequestsMatch'
  <2> SUFFICES ASSUME NEW m \in wire', NEW h \in Account!Ops, m.of = h
               PROVE  /\ m.call # "logout" /\ Rank(m.call) <= Rank(op'[h].at)
                      /\ m.call # "login" /\ op'[h].at = m.call /\ op'[h].reply = "none" =>
                           m.session = op'[h].session
    BY DEF RequestsMatch
  <2>1. CASE m = n
    BY <1>2, <1>3, <1>4, <2>1 DEF Rank
  <2>2. CASE m \in wire
    <3>1. /\ m.call # "logout" /\ Rank(m.call) <= Rank(op[h].at)
          /\ m.call # "login" /\ op[h].at = m.call /\ op[h].reply = "none" =>
               m.session = op[h].session
          /\ m.call \in Account!Waits \cup {"logout"}
      BY <1>1, <2>2, AccountTyped DEF AccountInv, RequestsMatch, WireTyped
    <3>2. CASE h # g
      BY <1>3, <3>1, <3>2
    <3>3. CASE h = g
      BY <1>2, <1>3, <3>1, <3>3 DEF Rank, Account!Waits
    <3> QED
      BY <3>2, <3>3
  <2> QED
    BY <1>4, <2>1, <2>2
<1>9. OwnerIsInStep'
  <2> SUFFICES ASSUME accountActive PROVE OwnerIsInStep'
    BY <1>2 DEF OwnerIsInStep
  <2>1. gen \in Account!Ops
    BY DEF AccountInv, OwnerIsInStep
  <2>2. CASE gen # g
    BY <1>2, <1>3, <2>1, <2>2 DEF AccountInv, OwnerIsInStep
  <2>3. CASE gen = g
    BY <1>2, <1>3, <2>1, <2>3 DEF AccountInv, OwnerIsInStep
  <2> QED
    BY <2>2, <2>3
<1>10. FinishedIsStored' /\ Account!ShownIsStored'
  <2>1. op'[front].at = "finished" => op'[front].session = op[front].session
                                      /\ op[front].at = "finished"
    BY <1>1, <1>2, <1>3
  <2>2. shown # Account!None => front # g
    BY <1>2 DEF AccountInv, FinishedIsStored
  <2>3. shown # Account!None => op'[front].at = "over"
    BY <1>1, <1>2, <1>3, <2>2 DEF AccountInv, FinishedIsStored
  <2> QED
    BY <1>2, <2>1, <2>3 DEF AccountInv, FinishedIsStored, Account!ShownIsStored
<1>11. LogoutsAreLate'
  <2>1. \A x \in (Held \cap Account!Sessions)' : x \in Held \cap Account!Sessions
    <3> SUFFICES ASSUME NEW x \in (Held \cap Account!Sessions)'
                 PROVE  x \in Held
      BY <1>1
    <3>1. CASE x \in {stored, pending, previous}
      BY <3>1 DEF Held
    <3>2. ASSUME NEW h \in Account!Ops, Account!Current(h), x = op'[h].session
          PROVE  x \in Held
      <4>1. CASE h # g
        BY <1>3, <3>2, <4>1 DEF Held
      <4>2. CASE h = g
        BY <1>2, <1>3, <3>2, <4>2 DEF Held
      <4> QED
        BY <4>1, <4>2
    <3> QED
      BY <1>2, <3>1, <3>2 DEF Held, Account!Current
  <2>2. n.call # "logout"
    BY <1>4
  <2> QED
    BY <1>2, <1>4, <2>1, <2>2 DEF AccountInv, LogoutsAreLate
<1>12. Account!Retained'
  BY <1>2 DEF AccountInv, Account!Retained
<1> QED
  BY <1>6, <1>7, <1>8, <1>9, <1>10, <1>11, <1>12 DEF AccountInv

\* The user interface turns to the next operation.
AccountTurn(r) ==
    /\ front < AccountOps /\ front' = front + 1
    /\ op' = [op EXCEPT ![front + 1] = r]
    /\ r.at \in {"sent", "over"} /\ r.session = Account!None /\ r.reply = "none"
    /\ r.kind = "login" => r.user \in AccountUsers
    /\ \/ cancels' = cancels
       \/ cancels' = cancels \cup {front + 1} /\ r.at = "over"
    /\ shown' = Account!None /\ busy' \in BOOLEAN
    /\ UNCHANGED <<Account!service, Account!owner, wire, faults, crashes>>

LEMMA AccountTurnKeeps ==
    ASSUME AccountInv, NEW r \in OpRecords, AccountTurn(r)
    PROVE  AccountInv'
<1>1. Account!TypeOK /\ op \in [Account!Ops -> OpRecords] /\ front \in Account!Ops /\ Account!Sessions' = Account!Sessions
      /\ gen \in 0..AccountOps /\ cancels \subseteq Account!Ops
  BY AccountTyped, AccountServiceStays DEF AccountInv, OpsInOrder, AccountTurn
<1>2. /\ UNCHANGED <<gen, accountActive, pending, previous, stored, settled, issued, rotated,
                     revoked, expired, wire, faults, crashes>>
      /\ shown' = Account!None /\ busy' \in BOOLEAN /\ front' = front + 1
      /\ r.at \in {"sent", "over"} /\ r.session = Account!None /\ r.reply = "none"
      /\ r.kind = "login" => r.user \in AccountUsers
  BY DEF AccountTurn, Account!owner, Account!service
<1>3. front + 1 \in Account!Ops /\ front' \in Account!Ops /\ front \in Nat
  BY <1>1, ApplicationsBounds DEF AccountTurn, Account!Ops
<1>4. /\ op' \in [Account!Ops -> OpRecords] /\ op'[front + 1] = r
      /\ \A h \in Account!Ops : h # front + 1 => op'[h] = op[h]
  BY <1>1, <1>3 DEF AccountTurn
<1>5. Account!TypeOK'
  <2>1. cancels' \subseteq Account!Ops /\ front' \in 0..AccountOps
    <3>1. front' \in 0..AccountOps
      BY <1>2, <1>3 DEF Account!Ops
    <3>2. cancels' \subseteq Account!Ops
      BY <1>1, <1>3 DEF AccountTurn
    <3> QED
      BY <3>1, <3>2
  <2>2. WireTyped'
    BY <1>1, <1>2, AccountTyped, AccountServiceStays DEF WireTyped, AccountTurn
  <2>3. shown' \in Account!Value'
    BY <1>2 DEF Account!Value
  <2> QED
    BY <1>1, <1>2, <1>4, <2>1, <2>2, <2>3, AccountTyped, AccountTypes, AccountServiceStays
       DEF AccountTurn
<1>6. OpsInOrder'
  <2>1. gen <= front + 1 /\ \A m \in wire : m.of <= front + 1
    BY <1>1, <1>3, AccountTyped DEF AccountInv, OpsInOrder, WireTyped
  <2>2. \A h \in Account!Ops : h > front + 1 => op'[h] = Account!Unused
    <3> TAKE h \in Account!Ops
    <3>1. h > front + 1 => h > front /\ h # front + 1
      BY <1>3 DEF Account!Ops
    <3> QED
      BY <1>4, <3>1 DEF AccountInv, OpsInOrder
  <2>3. \A h \in cancels : h <= front + 1 /\ op'[h].at = "over"
    <3> TAKE h \in cancels
    <3>1. h \in Account!Ops /\ h <= front /\ op[h].at = "over"
      BY <1>1 DEF AccountInv, OpsInOrder
    <3>2. h <= front + 1 /\ h # front + 1
      BY <1>3, <3>1 DEF Account!Ops
    <3> QED
      BY <1>4, <3>1, <3>2
  <2>4. \A h \in cancels' : h <= front + 1 /\ op'[h].at = "over"
    BY <1>3, <1>4, <2>3 DEF AccountTurn
  <2> QED
    BY <1>2, <1>3, <2>1, <2>2, <2>4 DEF OpsInOrder
<1>7. SessionsAreThere'
  BY <1>2, <1>4 DEF AccountInv, SessionsAreThere
<1>8. RequestsMatch'
  <2> SUFFICES ASSUME NEW m \in wire, NEW h \in Account!Ops, m.of = h
               PROVE  /\ m.call # "logout" /\ Rank(m.call) <= Rank(op'[h].at)
                      /\ m.call # "login" /\ op'[h].at = m.call /\ op'[h].reply = "none" =>
                           m.session = op'[h].session
    BY <1>2 DEF RequestsMatch
  <2>1. h # front + 1
    BY <1>3 DEF AccountInv, OpsInOrder
  <2> QED
    BY <1>4, <2>1 DEF AccountInv, RequestsMatch
<1>9. OwnerIsInStep'
  <2>1. gen # front + 1
    BY <1>1, <1>3 DEF AccountInv, OpsInOrder
  <2> QED
    BY <1>2, <1>4, <2>1 DEF AccountInv, OwnerIsInStep
<1>10. FinishedIsStored' /\ Account!ShownIsStored'
  BY <1>2, <1>4 DEF FinishedIsStored, Account!ShownIsStored
<1>11. LogoutsAreLate'
  <2>1. \A x \in (Held \cap Account!Sessions)' : x \in Held \cap Account!Sessions
    <3>1. gen # front + 1
      BY <1>1, <1>3 DEF AccountInv, OpsInOrder
    <3> QED
      BY <1>1, <1>2, <1>4, <3>1 DEF Held, Account!Current
  <2> QED
    BY <1>2, <2>1 DEF AccountInv, LogoutsAreLate
<1>12. Account!Retained'
  BY <1>2 DEF AccountInv, Account!Retained
<1> QED
  BY <1>5, <1>6, <1>7, <1>8, <1>9, <1>10, <1>11, <1>12 DEF AccountInv

LEMMA AccountTurns ==
    ASSUME AccountInv,
           Account!Bootstrap \/ Account!Leave \/ \E u \in AccountUsers : Account!Login(u)
    PROVE  AccountInv'
<1>1. Account!TypeOK /\ op \in [Account!Ops -> OpRecords] /\ front \in Account!Ops /\ busy \in BOOLEAN
  BY AccountTyped DEF AccountInv, OpsInOrder
<1>2. CASE Account!Bootstrap
  BY <1>1, <1>2, AccountUnused, AccountTurnKeeps DEF Account!Bootstrap, AccountTurn
<1>3. CASE Account!Leave
  <2>1. front + 1 \in Account!Ops /\ front + 1 > front
    BY <1>1, <1>3, ApplicationsBounds DEF Account!Leave, Account!Ops
  <2>2. op[front + 1] = Account!Unused
    BY <1>1, <2>1 DEF AccountInv, OpsInOrder
  <2>3. op' = [op EXCEPT ![front + 1] = Account!Unused]
    BY <1>1, <1>3, <2>1, <2>2 DEF Account!Leave
  <2> QED
    BY <1>1, <1>3, <2>3, AccountUnused, AccountTurnKeeps DEF Account!Leave, AccountTurn
<1>4. ASSUME NEW u \in AccountUsers, Account!Login(u)
      PROVE  AccountInv'
  <2> DEFINE r == [Account!Unused EXCEPT !.kind = "login", !.user = u, !.at = "sent"]
  <2>1. /\ r \in OpRecords /\ r.at = "sent" /\ r.session = Account!None /\ r.reply = "none"
        /\ r.user = u
    BY <1>1, AccountUnused DEF Account!Unused, OpRecords, Ats
  <2>2. op' = [op EXCEPT ![front + 1] = r]
    BY <1>4 DEF Account!Login
  <2> HIDE DEF r
  <2> QED
    BY <1>1, <1>4, <2>1, <2>2, AccountTurnKeeps DEF Account!Login, AccountTurn
<1> QED
  BY <1>2, <1>3, <1>4

\* What an action leaves alone keeps its types.
LEMMA AccountKeepsTypes ==
    ASSUME Account!TypeOK, UNCHANGED Account!service, op' \in [Account!Ops -> OpRecords],
           faults' \in 0..AccountFaults, crashes' \in 0..AccountCrashes,
           gen' \in 0..AccountOps, accountActive' \in BOOLEAN, pending' \in Account!Value,
           previous' \in Account!Value \cup {Account!Absent}, stored' \in Account!Value, settled' \in Account!Value,
           WireTyped', cancels' \subseteq Account!Ops, front' \in 0..AccountOps, shown' \in Account!Value,
           busy' \in BOOLEAN
    PROVE  Account!TypeOK'
BY AccountTyped, AccountTypes, AccountServiceStays

\* A newer operation takes the state over, or cancels what owns it.
AccountTake(g) ==
    /\ UNCHANGED <<Account!service, front, shown, busy, settled>>
    /\ op' \in [Account!Ops -> OpRecords] /\ gen' = g /\ gen <= g /\ g <= front
    /\ cancels' \subseteq cancels
    /\ op[g].at = "over" => g \in cancels
    /\ op[g].at # "over" => gen < g
    /\ \A h \in Account!Ops : h # g => op'[h] = op[h]
    /\ \/ op'[g] = op[g] /\ op[g].at = "over" /\ wire' = wire /\ ~accountActive'
       \/ op'[g] = Account!Unused /\ wire' = wire /\ ~accountActive'
       \/ /\ op[g].at = "sent" /\ op'[g].kind = op[g].kind /\ op'[g].user = op[g].user
          /\ op'[g].session = Account!None /\ op'[g].reply = "none" /\ previous' = Account!Absent
          /\ \/ op'[g].at = "opened" /\ wire' = wire
             \/ /\ op'[g].at = "login" /\ op[g].kind = "login"
                /\ \E n : /\ wire' = wire \cup {n} /\ n.of = g /\ n.call = "login"
                          /\ n.user = op[g].user
    /\ \/ /\ stored' = (IF previous = Account!Absent THEN stored ELSE previous)
          /\ previous' = Account!Absent /\ pending' = Account!None
       \/ UNCHANGED <<stored, previous, pending>>

LEMMA AccountTakeKeeps ==
    ASSUME AccountInv, Account!TypeOK', NEW g \in Account!Ops, AccountTake(g)
    PROVE  AccountInv'
<1>1. /\ Account!TypeOK
      /\ op \in [Account!Ops -> OpRecords]
      /\ front \in Account!Ops
      /\ Account!Sessions' = Account!Sessions
      /\ op[front].at \in Ats /\ gen \in 0..AccountOps /\ cancels \subseteq Account!Ops
  BY AccountTyped, AccountServiceStays
     DEF AccountInv, OpsInOrder, AccountTake, OpRecords
<1>2. /\ UNCHANGED <<issued, rotated, revoked, expired, front, shown, busy, settled>>
      /\ gen' = g /\ gen <= g /\ g <= front /\ cancels' \subseteq cancels
      /\ op[g].at = "over" => g \in cancels
      /\ op[g].at # "over" => gen < g
      /\ \A h \in Account!Ops : h # g => op'[h] = op[h]
  BY DEF AccountTake, Account!service
<1>3. /\ Account!Unused.at = "over"
      /\ Account!Unused.session = Account!None
      /\ Account!Unused.kind = "none"
      /\ Account!Unused.reply = "none"
      /\ Account!None \notin Account!Sessions
      /\ Account!Absent \notin Account!Sessions
  BY <1>1, AccountUnused, AccountNumbers
<1>4. \/ op'[g] = op[g] /\ op[g].at = "over" /\ wire' = wire /\ ~accountActive'
      \/ op'[g] = Account!Unused /\ wire' = wire /\ ~accountActive'
      \/ /\ op[g].at = "sent" /\ op'[g].kind = op[g].kind /\ op'[g].user = op[g].user
         /\ op'[g].session = Account!None /\ op'[g].reply = "none" /\ previous' = Account!Absent
         /\ \/ op'[g].at = "opened" /\ wire' = wire
            \/ /\ op'[g].at = "login" /\ op[g].kind = "login"
               /\ \E n : /\ wire' = wire \cup {n} /\ n.of = g /\ n.call = "login"
                         /\ n.user = op[g].user
  BY DEF AccountTake
<1>5. \A n \in wire' : \/ n \in wire
                       \/ /\ n.of = g /\ n.call = "login" /\ n.user = op[g].user
                          /\ op[g].kind = "login" /\ op'[g].at = "login"
  BY <1>4
<1>6. shown = Account!None /\ op[front].at # "finished"
  <2>1. ASSUME gen = front PROVE g = front /\ g \in cancels
    BY <1>1, <1>2, <2>1 DEF Account!Ops
  <2> QED
    BY <1>1, <1>2, <2>1 DEF AccountInv, FinishedIsStored, OpsInOrder
<1>7. OpsInOrder'
  <2>1. \A h \in Account!Ops : h > front => op'[h] = Account!Unused
    BY <1>1, <1>2 DEF AccountInv, OpsInOrder, Account!Ops
  <2>2. \A h \in cancels' : h <= front /\ op'[h].at = "over"
    <3> TAKE h \in cancels'
    <3>1. h \in Account!Ops /\ h <= front /\ op[h].at = "over"
      BY <1>1, <1>2 DEF AccountInv, OpsInOrder
    <3> QED
      BY <1>2, <1>3, <1>4, <3>1
  <2>3. \A m \in wire' : m.of <= front
    BY <1>2, <1>5 DEF AccountInv, OpsInOrder
  <2> QED
    BY <1>1, <1>2, <2>1, <2>2, <2>3 DEF OpsInOrder
<1>8. SessionsAreThere'
  <2>1. ASSUME NEW h \in Account!Ops
        PROVE  /\ op'[h].kind = "login" => op'[h].user \in AccountUsers
               /\ op'[h].at \in {"me", "refresh", "again", "staged", "accepting", "accepted"}
                    \/ op'[h].reply = "ok" => op'[h].session # Account!None
               /\ op'[h].at \in {"sent", "opened", "signedOut"} => op'[h].session = Account!None
    <3>1. CASE h # g
      BY <1>2, <3>1 DEF AccountInv, SessionsAreThere
    <3>2. CASE h = g
      BY <1>3, <1>4, <3>2 DEF AccountInv, SessionsAreThere
    <3> QED
      BY <3>1, <3>2
  <2>2. \A m \in wire' : /\ m.call = "login" => m.user \in AccountUsers
                         /\ m.call # "login" => m.session # Account!None
    BY <1>5 DEF AccountInv, SessionsAreThere
  <2> QED
    BY <2>1, <2>2 DEF SessionsAreThere
<1>9. RequestsMatch'
  <2> SUFFICES ASSUME NEW m \in wire', NEW h \in Account!Ops, m.of = h
               PROVE  /\ m.call # "logout" /\ Rank(m.call) <= Rank(op'[h].at)
                      /\ m.call # "login" /\ op'[h].at = m.call /\ op'[h].reply = "none" =>
                           m.session = op'[h].session
    BY DEF RequestsMatch
  <2>1. CASE m \in wire
    <3>1. /\ m.call # "logout" /\ Rank(m.call) <= Rank(op[h].at)
          /\ m.call # "login" /\ op[h].at = m.call /\ op[h].reply = "none" =>
               m.session = op[h].session
          /\ m.call \in Account!Waits \cup {"logout"}
      BY <1>1, <2>1, AccountTyped DEF AccountInv, RequestsMatch, WireTyped
    <3>2. CASE h # g
      BY <1>2, <3>1, <3>2
    <3>3. CASE h = g
      BY <1>3, <1>4, <3>1, <3>3 DEF Rank, Account!Waits
    <3> QED
      BY <3>2, <3>3
  <2>2. CASE m \notin wire
    BY <1>5, <2>2 DEF Rank
  <2> QED
    BY <2>1, <2>2
<1>10. OwnerIsInStep'
  <2> SUFFICES ASSUME accountActive' PROVE OwnerIsInStep'
    BY DEF OwnerIsInStep
  <2>1. op'[g].at \in {"opened", "login"} /\ previous' = Account!Absent
    BY <1>4
  <2> QED
    BY <1>2, <2>1 DEF OwnerIsInStep
<1>11. FinishedIsStored' /\ Account!ShownIsStored'
  <2>1. op'[front].at # "finished"
    BY <1>1, <1>2, <1>3, <1>4, <1>6
  <2> QED
    BY <1>2, <1>6, <2>1 DEF FinishedIsStored, Account!ShownIsStored
<1>12. LogoutsAreLate'
  <2>1. \A x \in (Held \cap Account!Sessions)' : x \in Held \cap Account!Sessions
    <3> SUFFICES ASSUME NEW x \in Account!Sessions, x \in Held'
                 PROVE  x \in Held
      BY <1>1
    <3>1. CASE x \in {stored', pending', previous'}
      BY <1>3, <3>1 DEF AccountTake, Held
    <3>2. ASSUME NEW h \in Account!Ops, Account!Current(h)', x = op'[h].session
          PROVE  x \in Held
      BY <1>2, <1>3, <1>4, <3>2 DEF Account!Current
    <3> QED
      BY <3>1, <3>2 DEF Held
  <2>2. \A m \in wire' : m.call = "logout" => m \in wire
    BY <1>5
  <2> QED
    BY <1>2, <2>1, <2>2 DEF AccountInv, LogoutsAreLate
<1>13. Account!Retained'
  BY <1>2 DEF AccountInv, Account!Retained, AccountTake
<1> QED
  BY <1>7, <1>8, <1>9, <1>10, <1>11, <1>12, <1>13 DEF AccountInv

\* The operation that owns the state stages, stores or finishes its session.
AccountHold(g) ==
    /\ UNCHANGED <<Account!service, gen, wire, cancels, Account!ui>> /\ Account!Current(g)
    /\ op' \in [Account!Ops -> OpRecords]
    /\ \A h \in Account!Ops : h # g => op'[h] = op[h]
    /\ op'[g] = Account!Unused \/ /\ op'[g].session = op[g].session /\ op'[g].reply = "none"
                                  /\ op'[g].kind = op[g].kind /\ op'[g].user = op[g].user
    /\ \/ /\ op[g].at \in Account!Waits /\ op[g].reply = "ok" /\ op'[g].at = "staged"
          /\ accountActive' /\ pending' = op[g].session /\ UNCHANGED <<previous, stored, settled>>
       \/ /\ op[g].at = "accepting" /\ op'[g].at \in {"accepted", "over"} /\ pending # Account!None
          /\ accountActive' /\ previous' = stored /\ stored' = pending /\ pending' = Account!None
          /\ settled' = settled
       \/ /\ op[g].at = "finishing" /\ op'[g].at = "finished"
          /\ ~accountActive' /\ previous' = Account!Absent /\ UNCHANGED <<pending, stored>>
          /\ settled' = IF op[g].session = Account!None THEN settled ELSE stored

LEMMA AccountHoldKeeps ==
    ASSUME AccountInv, Account!TypeOK', NEW g \in Account!Ops, AccountHold(g)
    PROVE  AccountInv'
<1>1. /\ Account!TypeOK
      /\ op \in [Account!Ops -> OpRecords]
      /\ front \in Account!Ops
      /\ Account!Sessions' = Account!Sessions
      /\ gen \in 0..AccountOps /\ cancels \subseteq Account!Ops
  BY AccountTyped, AccountServiceStays DEF AccountInv, OpsInOrder, AccountHold
<1>2. /\ UNCHANGED <<issued, rotated, revoked, expired, gen, wire, cancels, front, shown, busy>>
      /\ accountActive /\ gen = g
      /\ \A h \in Account!Ops : h # g => op'[h] = op[h]
  BY DEF AccountHold, Account!service, Account!ui, Account!Current
<1>3. /\ Account!Unused.at = "over"
      /\ Account!Unused.session = Account!None
      /\ Account!Unused.kind = "none"
      /\ Account!Unused.reply = "none"
      /\ Account!None \notin Account!Sessions
      /\ Account!Absent \notin Account!Sessions
      /\ Account!Absent # Account!None
      /\ Account!Absent \notin Account!Value
      /\ stored \in Account!Value
  BY <1>1, AccountUnused, AccountNumbers, AccountTyped
<1>4. \/ op'[g] = Account!Unused
      \/ /\ op'[g].session = op[g].session /\ op'[g].reply = "none"
         /\ op'[g].kind = op[g].kind /\ op'[g].user = op[g].user
  BY DEF AccountHold
<1>5. \/ op[g].at \in Account!Waits /\ op[g].reply = "ok" /\ op'[g].at = "staged"
      \/ op[g].at = "accepting" /\ op'[g].at \in {"accepted", "over"}
      \/ op[g].at = "finishing" /\ op'[g].at = "finished"
  BY DEF AccountHold
<1>6. shown = Account!None /\ op[front].at # "finished"
  BY <1>2 DEF AccountInv, FinishedIsStored
<1>7. /\ previous # Account!Absent => /\ pending = Account!None /\ op[g].at \in {"over", "accepted", "finishing"}
                                      /\ op[g].at # "over" => op[g].session # Account!None
      /\ op[g].at \in {"staged", "accepting"} => pending = op[g].session
      /\ op[g].at \in {"accepted", "finishing"} /\ op[g].session # Account!None =>
           stored = op[g].session
  BY <1>2 DEF AccountInv, OwnerIsInStep
<1>8. (op[g].at \in Account!Waits /\ op[g].reply = "ok") \/ op[g].at = "accepting" =>
        op[g].session # Account!None
  BY DEF AccountInv, SessionsAreThere
<1>9. OpsInOrder'
  <2>1. ~(g > front) /\ g \notin cancels
    BY <1>2, <1>3, <1>5 DEF AccountInv, OpsInOrder, Account!Waits
  <2>2. \A h \in Account!Ops : h > front => op'[h] = Account!Unused
    BY <1>2, <2>1 DEF AccountInv, OpsInOrder
  <2>3. \A h \in cancels : h <= front /\ op'[h].at = "over"
    BY <1>1, <1>2, <2>1 DEF AccountInv, OpsInOrder
  <2>4. gen <= front /\ \A m \in wire : m.of <= front
    BY DEF AccountInv, OpsInOrder
  <2> QED
    BY <1>1, <1>2, <2>2, <2>3, <2>4 DEF OpsInOrder
<1>10. SessionsAreThere'
  <2>1. ASSUME NEW h \in Account!Ops
        PROVE  /\ op'[h].kind = "login" => op'[h].user \in AccountUsers
               /\ op'[h].at \in {"me", "refresh", "again", "staged", "accepting", "accepted"}
                    \/ op'[h].reply = "ok" => op'[h].session # Account!None
               /\ op'[h].at \in {"sent", "opened", "signedOut"} => op'[h].session = Account!None
    <3>1. CASE h # g
      BY <1>2, <3>1 DEF AccountInv, SessionsAreThere
    <3>2. CASE h = g
      BY <1>3, <1>4, <1>5, <1>8, <3>2 DEF AccountInv, SessionsAreThere
    <3> QED
      BY <3>1, <3>2
  <2> QED
    BY <1>2, <2>1 DEF AccountInv, SessionsAreThere
<1>11. RequestsMatch'
  <2> SUFFICES ASSUME NEW m \in wire, NEW h \in Account!Ops, m.of = h
               PROVE  /\ m.call # "logout" /\ Rank(m.call) <= Rank(op'[h].at)
                      /\ m.call # "login" /\ op'[h].at = m.call /\ op'[h].reply = "none" =>
                           m.session = op'[h].session
    BY <1>2 DEF RequestsMatch
  <2>1. /\ m.call # "logout" /\ Rank(m.call) <= Rank(op[h].at)
        /\ m.call # "login" /\ op[h].at = m.call /\ op[h].reply = "none" =>
             m.session = op[h].session
        /\ m.call \in Account!Waits \cup {"logout"}
    BY <1>1, AccountTyped DEF AccountInv, RequestsMatch, WireTyped
  <2>2. CASE h # g
    BY <1>2, <2>1, <2>2
  <2>3. CASE h = g
    BY <1>5, <2>1, <2>3 DEF Rank, Account!Waits
  <2> QED
    BY <2>2, <2>3
<1>12. OwnerIsInStep'
  BY <1>2, <1>3, <1>4, <1>7, <1>8 DEF OwnerIsInStep, AccountHold, Account!Waits
<1>13. FinishedIsStored' /\ Account!ShownIsStored'
  <2>1. CASE op'[front].at = "finished"
    <3>1. front = g /\ op[g].at = "finishing" /\ op'[g].session = op[g].session
      BY <1>1, <1>2, <1>3, <1>4, <1>5, <1>6, <2>1 DEF Account!Waits
    <3>2. ~accountActive' /\ previous' = Account!Absent /\ stored' = stored
      BY <3>1 DEF AccountHold, Account!Waits
    <3> QED
      BY <1>2, <1>6, <1>7, <3>1, <3>2 DEF FinishedIsStored, Account!ShownIsStored
  <2>2. CASE op'[front].at # "finished"
    BY <1>2, <1>6, <2>2 DEF FinishedIsStored, Account!ShownIsStored
  <2> QED
    BY <2>1, <2>2
<1>14. LogoutsAreLate'
  <2>1. \A x \in (Held \cap Account!Sessions)' : x \in Held \cap Account!Sessions
    <3> SUFFICES ASSUME NEW x \in Account!Sessions, x \in Held'
                 PROVE  x \in Held
      BY <1>1
    <3>1. op[g].session \in Held
      BY <1>2 DEF Held, Account!Current
    <3>2. CASE x \in {stored', pending', previous'}
      BY <1>3, <3>1, <3>2 DEF AccountHold, Held
    <3>3. ASSUME NEW h \in Account!Ops, Account!Current(h)', x = op'[h].session
          PROVE  x \in Held
      BY <1>2, <1>3, <1>4, <3>1, <3>3 DEF Account!Current
    <3> QED
      BY <3>2, <3>3 DEF Held
  <2> QED
    BY <1>2, <2>1 DEF AccountInv, LogoutsAreLate
<1>15. Account!Retained'
  BY <1>2, <1>3, <1>7, <1>8 DEF AccountInv, Account!Retained, AccountHold, Account!Waits
<1> QED
  BY <1>9, <1>10, <1>11, <1>12, <1>13, <1>14, <1>15 DEF AccountInv

\* What the service does never takes a session away nor makes it serve again,
\* and adds at most one.
AccountGrows ==
    /\ Account!ServiceTypeOK'
    /\ Account!Sessions \subseteq Account!Sessions'
    /\ Len(issued) <= Len(issued')
    /\ \A s \in Account!Sessions : issued'[s] = issued[s]
    /\ revoked \subseteq revoked' /\ expired \subseteq expired'
    /\ Account!Sessions' \subseteq Account!Sessions \cup {Len(issued) + 1}

LEMMA AccountAppends ==
    ASSUME Account!TypeOK, Len(issued) < AccountSessions,
           NEW u \in AccountUsers, NEW f \in 1..AccountSessions,
           issued' = Append(issued, [user |-> u, family |-> f])
    PROVE  /\ issued' \in Seq([user : AccountUsers, family : 1..AccountSessions])
           /\ Len(issued') = Len(issued) + 1 /\ Account!Sessions \subseteq Account!Sessions'
           /\ \A s \in Account!Sessions : issued'[s] = issued[s]
           /\ Account!Sessions' = Account!Sessions \cup {Len(issued) + 1}
           /\ issued'[Len(issued) + 1] = [user |-> u, family |-> f]
           /\ Len(issued) + 1 \in Account!Sessions'
<1> DEFINE r == [user |-> u, family |-> f]
<1>1. r \in [user : AccountUsers, family : 1..AccountSessions]
  OBVIOUS
<1>2. issued \in Seq([user : AccountUsers, family : 1..AccountSessions]) /\ issued' = Append(issued, r)
      /\ Account!Sessions = 1..Len(issued) /\ Len(issued) \in Nat
  BY AccountTyped
<1> HIDE DEF r
<1>3. /\ issued' \in Seq([user : AccountUsers, family : 1..AccountSessions])
      /\ Len(issued') = Len(issued) + 1
      /\ \A s \in 1..Len(issued) : issued'[s] = issued[s]
      /\ issued'[Len(issued) + 1] = r
  BY <1>1, <1>2
<1>4. Account!Sessions' = 1..(Len(issued) + 1)
  BY <1>2, <1>3 DEF Account!Sessions
<1>5. 1..(Len(issued) + 1) = 1..Len(issued) \cup {Len(issued) + 1}
  BY <1>2
<1> QED
  BY <1>2, <1>3, <1>4, <1>5 DEF r

\* A login: the sessions of the user are revoked, except the new one.
LEMMA AccountCreates ==
    ASSUME Account!TypeOK, Len(issued) < AccountSessions, NEW u \in AccountUsers,
           Account!Create(u)
    PROVE  /\ AccountGrows /\ issued'[Len(issued) + 1].user = u
           /\ Len(issued) + 1 \in Account!Sessions'
           /\ \A s \in Account!Sessions : issued[s].user = u => s \in revoked'
<1>1. Len(issued) + 1 \in 1..AccountSessions
  BY AccountTyped, ApplicationsBounds
<1>2. issued' = Append(issued, [user |-> u, family |-> Len(issued) + 1])
      /\ revoked' = revoked \cup Account!OfUser(u) /\ rotated' = rotated /\ expired' = expired
  BY DEF Account!Create
<1>3. /\ issued' \in Seq([user : AccountUsers, family : 1..AccountSessions])
      /\ Len(issued') = Len(issued) + 1 /\ Account!Sessions \subseteq Account!Sessions'
      /\ \A s \in Account!Sessions : issued'[s] = issued[s]
      /\ Account!Sessions' = Account!Sessions \cup {Len(issued) + 1}
      /\ issued'[Len(issued) + 1] = [user |-> u, family |-> Len(issued) + 1]
  BY <1>1, <1>2, AccountAppends
<1>4. Account!OfUser(u) = {s \in Account!Sessions : issued[s].user = u}
  BY DEF Account!OfUser
<1>5. Len(issued) \in Nat /\ Len(issued) + 1 <= AccountSessions
      /\ rotated \subseteq Account!Sessions
      /\ revoked \subseteq Account!Sessions
      /\ expired \subseteq Account!Sessions
  BY <1>1, AccountTyped
<1>6. Account!ServiceTypeOK'
  BY <1>2, <1>3, <1>4, <1>5 DEF Account!ServiceTypeOK
<1>7. AccountGrows
  <2>1. Len(issued) <= Len(issued') /\ Account!Sessions' \subseteq Account!Sessions \cup {Len(issued) + 1}
    BY <1>3, <1>5
  <2>2. revoked \subseteq revoked' /\ expired \subseteq expired'
    BY <1>2
  <2> QED
    BY <1>3, <1>6, <2>1, <2>2 DEF AccountGrows
<1> QED
  BY <1>2, <1>3, <1>4, <1>7

\* A refresh: the new session is of the user of the one that is shown.
LEMMA AccountRotates ==
    ASSUME Account!TypeOK, Len(issued) < AccountSessions, NEW s \in Account!Sessions,
           Account!Rotate(s)
    PROVE  /\ AccountGrows /\ issued'[Len(issued) + 1].user = issued[s].user
           /\ Len(issued) + 1 \in Account!Sessions'
<1>1. issued \in Seq([user : AccountUsers, family : 1..AccountSessions]) /\ Account!Sessions = 1..Len(issued)
      /\ Len(issued) \in Nat /\ AccountSessions \in Nat
      /\ rotated \subseteq Account!Sessions
      /\ revoked \subseteq Account!Sessions
      /\ expired \subseteq Account!Sessions
  BY AccountTyped, ApplicationsBounds
<1>2. issued[s] \in [user : AccountUsers, family : 1..AccountSessions]
  <2> DEFINE R == [user : AccountUsers, family : 1..AccountSessions]
  <2>1. issued \in Seq(R) /\ s \in 1..Len(issued)
    BY <1>1
  <2> HIDE DEF R
  <2>2. issued[s] \in R
    BY <2>1
  <2> QED
    BY <2>2 DEF R
<1>3. PICK u \in AccountUsers, f \in 1..AccountSessions : issued[s] = [user |-> u, family |-> f]
  BY <1>2
<1>4. issued' = Append(issued, [user |-> u, family |-> f])
      /\ rotated' = rotated \cup {s} /\ revoked' = revoked /\ expired' = expired
  BY <1>3 DEF Account!Rotate
<1>5. /\ issued' \in Seq([user : AccountUsers, family : 1..AccountSessions])
      /\ Len(issued') = Len(issued) + 1 /\ Account!Sessions \subseteq Account!Sessions'
      /\ \A t \in Account!Sessions : issued'[t] = issued[t]
      /\ Account!Sessions' = Account!Sessions \cup {Len(issued) + 1}
      /\ issued'[Len(issued) + 1] = [user |-> u, family |-> f]
  BY <1>4, AccountAppends
<1>6. Account!ServiceTypeOK'
  BY <1>1, <1>4, <1>5 DEF Account!ServiceTypeOK
<1>7. AccountGrows
  BY <1>1, <1>4, <1>5, <1>6 DEF AccountGrows
<1> QED
  BY <1>3, <1>5, <1>7

\* Everything else the service does only revokes, or lets a token run out.
LEMMA AccountRevokes ==
    ASSUME Account!TypeOK, UNCHANGED <<issued, rotated>>,
           revoked \subseteq revoked', revoked' \subseteq Account!Sessions,
           expired \subseteq expired', expired' \subseteq Account!Sessions
    PROVE  AccountGrows /\ Account!Sessions' = Account!Sessions
<1>1. Account!Sessions' = Account!Sessions
  BY DEF Account!Sessions
<1> QED
  BY <1>1, AccountTyped DEF AccountGrows, Account!ServiceTypeOK, Account!TypeOK

LEMMA AccountMarks ==
    ASSUME Account!TypeOK, NEW s \in Account!Sessions,
           Account!Replayed(s) \/ Account!SignOut(s) \/ Account!Expire \/ UNCHANGED Account!service
    PROVE  AccountGrows /\ Account!Sessions' = Account!Sessions
<1>1. Account!Family(s) \subseteq Account!Sessions /\ Account!OfUser(issued[s].user) \subseteq Account!Sessions
  BY DEF Account!Family, Account!OfUser
<1>2. rotated \subseteq Account!Sessions /\ revoked \subseteq Account!Sessions /\ expired \subseteq Account!Sessions
  BY AccountTyped
<1>3. CASE Account!Replayed(s)
  BY <1>1, <1>2, <1>3, AccountRevokes DEF Account!Replayed
<1>4. CASE Account!SignOut(s)
  BY <1>1, <1>2, <1>4, AccountRevokes DEF Account!SignOut
<1>5. CASE Account!Expire
  BY <1>2, <1>5, AccountRevokes DEF Account!Expire
<1>6. CASE UNCHANGED Account!service
  BY <1>2, <1>6, AccountRevokes DEF Account!service
<1> QED
  BY <1>3, <1>4, <1>5, <1>6

\* The types of the client, when the service has grown.
LEMMA AccountGrowsTypes ==
    ASSUME Account!TypeOK, AccountGrows
    PROVE  Account!Value \subseteq Account!Value' /\ OpRecords \subseteq OpRecords'
BY DEF AccountGrows, Account!Value, OpRecords

\* An answer changes at most the operation that waits for it.
LEMMA AccountReplies ==
    ASSUME Account!TypeOK, AccountGrows, NEW m \in wire, NEW reply \in {"ok", "error"},
           NEW s \in Account!Value',
           Account!Replies(m, reply, s)
    PROVE  /\ op' \in [Account!Ops -> OpRecords']
           /\ \A h \in Account!Ops :
                \/ op'[h] = op[h]
                \/ /\ h = m.of /\ op[h].at = m.call /\ op[h].reply = "none"
                   /\ op'[h].at = op[h].at /\ op'[h].kind = op[h].kind
                   /\ op'[h].user = op[h].user /\ op'[h].reply = reply
                   /\ op'[h].session = IF reply = "ok" THEN s ELSE op[h].session
<1>1. op \in [Account!Ops -> OpRecords] /\ op \in [Account!Ops -> OpRecords']
  BY AccountTyped, AccountGrowsTypes
<1>2. CASE m.of \in Account!Ops /\ op[m.of].at = m.call /\ op[m.of].reply = "none"
  <2> DEFINE g == m.of
             v == IF reply = "ok" THEN s ELSE op[g].session
             r == [op[g] EXCEPT !.reply = reply, !.session = v]
  <2>1. op[g] \in OpRecords' /\ op[g].session \in Account!Value'
    BY <1>1, <1>2 DEF OpRecords
  <2>2. v \in Account!Value'
    BY <2>1
  <2>3. op' = [op EXCEPT ![g] = r]
    BY <1>1, <1>2 DEF Account!Replies
  <2> HIDE DEF v
  <2>4. /\ r \in OpRecords' /\ r.reply = reply /\ r.session = v /\ r.at = op[g].at
        /\ r.kind = op[g].kind /\ r.user = op[g].user
    BY <2>1, <2>2 DEF OpRecords
  <2> HIDE DEF r
  <2> QED
    BY <1>1, <1>2, <2>3, <2>4 DEF v
<1>3. CASE ~(m.of \in Account!Ops /\ op[m.of].at = m.call /\ op[m.of].reply = "none")
  BY <1>1, <1>3 DEF Account!Replies
<1> QED
  BY <1>2, <1>3

\* The service answers, or drops what it handled: a session that is new to an
\* operation is of the user that asked, whose others are revoked or who holds one.
AccountAnswer(m) ==
    /\ AccountGrows
    /\ wire' \subseteq wire
    /\ UNCHANGED <<Account!owner, cancels, Account!ui, faults, crashes>>
    /\ op' \in [Account!Ops -> OpRecords']
    /\ \A h \in Account!Ops :
         \/ op'[h] = op[h]
         \/ /\ op[h].at \in Account!Waits /\ op[h].reply = "none"
            /\ op'[h].at = op[h].at /\ op'[h].kind = op[h].kind
            /\ op'[h].user = op[h].user /\ op'[h].reply \in {"ok", "error"}
            /\ op'[h].reply = "ok" => op'[h].session # Account!None
            /\ \/ op'[h].session = op[h].session
               \/ /\ op'[h].session = Len(issued) + 1
                  /\ \/ \A s \in Account!Sessions :
                          issued[s].user = issued'[Len(issued) + 1].user => s \in revoked'
                     \/ /\ op[h].session \in Account!Sessions
                        /\ issued'[Len(issued) + 1].user = issued[op[h].session].user

LEMMA AccountAnswerKeeps ==
    ASSUME AccountInv, NEW m, AccountAnswer(m)
    PROVE  AccountInv'
<1>1. /\ Account!TypeOK
      /\ op \in [Account!Ops -> OpRecords]
      /\ front \in Account!Ops
      /\ op[front].at \in Ats
      /\ Account!Sessions = 1..Len(issued) /\ Len(issued) \in Nat
      /\ Account!Value \subseteq Account!Value'
      /\ Account!Sessions' \subseteq Account!Sessions \cup {Len(issued) + 1}
      /\ Account!Sessions \subseteq Account!Sessions'
  BY AccountTyped, AccountGrowsTypes
     DEF AccountInv, OpsInOrder, AccountAnswer, OpRecords, AccountGrows
<1>2. /\ UNCHANGED <<gen, accountActive, pending, previous, stored, settled, cancels, front, shown, busy,
                     faults, crashes>>
      /\ wire' \subseteq wire
  BY DEF AccountAnswer, Account!owner, Account!ui
<1>3. \A h \in Account!Ops :
         \/ op'[h] = op[h]
         \/ /\ op[h].at \in Account!Waits /\ op[h].reply = "none"
            /\ op'[h].at = op[h].at /\ op'[h].kind = op[h].kind
            /\ op'[h].user = op[h].user /\ op'[h].reply \in {"ok", "error"}
            /\ op'[h].reply = "ok" => op'[h].session # Account!None
            /\ op'[h].session = op[h].session \/ op'[h].session = Len(issued) + 1
  BY DEF AccountAnswer
<1>4. Len(issued) + 1 # Account!None /\ Account!Unused.at = "over" /\ Account!Absent \notin Account!Sessions'
  BY <1>1, AccountUnused DEF Account!None, Account!Absent
<1>5. Account!TypeOK'
  <2>1. WireTyped'
    BY <1>1, <1>2, AccountTyped DEF WireTyped
  <2>2. Account!ServiceTypeOK' /\ op' \in [Account!Ops -> OpRecords']
    BY DEF AccountAnswer, AccountGrows
  <2> QED
    BY <1>1, <1>2, <2>1, <2>2, AccountTyped, AccountTypes
<1>6. OpsInOrder'
  <2>1. \A h \in Account!Ops : h > front => op'[h] = Account!Unused
    BY <1>1, <1>3, <1>4 DEF AccountInv, OpsInOrder, Account!Waits
  <2>2. \A h \in cancels : h <= front /\ op'[h].at = "over"
    <3> TAKE h \in cancels
    <3>1. h \in Account!Ops /\ h <= front /\ op[h].at = "over"
      BY <1>1, AccountTyped DEF AccountInv, OpsInOrder
    <3> QED
      BY <1>3, <3>1
  <2>3. gen <= front /\ \A n \in wire' : n.of <= front
    BY <1>2 DEF AccountInv, OpsInOrder
  <2> QED
    BY <1>1, <1>2, <2>1, <2>2, <2>3 DEF OpsInOrder
<1>7. SessionsAreThere'
  <2>1. ASSUME NEW h \in Account!Ops
        PROVE  /\ op'[h].kind = "login" => op'[h].user \in AccountUsers
               /\ op'[h].at \in {"me", "refresh", "again", "staged", "accepting", "accepted"}
                    \/ op'[h].reply = "ok" => op'[h].session # Account!None
               /\ op'[h].at \in {"sent", "opened", "signedOut"} => op'[h].session = Account!None
    BY <1>3, <1>4 DEF AccountInv, SessionsAreThere, Account!Waits
  <2> QED
    BY <1>2, <2>1 DEF AccountInv, SessionsAreThere
<1>8. RequestsMatch'
  <2> SUFFICES ASSUME NEW n \in wire, NEW h \in Account!Ops, n.of = h
               PROVE  /\ n.call # "logout" /\ Rank(n.call) <= Rank(op'[h].at)
                      /\ n.call # "login" /\ op'[h].at = n.call /\ op'[h].reply = "none" =>
                           n.session = op'[h].session
    BY <1>2 DEF RequestsMatch
  <2> QED
    BY <1>3 DEF AccountInv, RequestsMatch
<1>9. OwnerIsInStep'
  BY <1>2, <1>3 DEF AccountInv, OwnerIsInStep, Account!Waits
<1>10. FinishedIsStored' /\ Account!ShownIsStored'
  <2>1. op[front].at \in {"finished", "over"} => op'[front] = op[front]
    BY <1>1, <1>3 DEF Account!Waits
  <2>2. op'[front].at \in {"finished", "over"} => op'[front] = op[front]
    BY <1>1, <1>3 DEF Account!Waits
  <2> QED
    BY <1>2, <2>1, <2>2 DEF AccountInv, FinishedIsStored, Account!ShownIsStored
<1>11. LogoutsAreLate'
  <2> SUFFICES ASSUME NEW n \in wire, n.call = "logout", n.session \notin revoked' \cup expired',
                      NEW x \in Held', x \in Account!Sessions'
               PROVE  issued'[x].user # issued'[n.session].user
    BY <1>2 DEF LogoutsAreLate
  <2>1. n.session \in Account!Sessions
    BY <1>1, AccountTyped, AccountNumbers DEF AccountInv, SessionsAreThere, WireTyped
  <2>2. /\ n.session \notin revoked \cup expired
        /\ \A s \in Account!Sessions : issued'[s] = issued[s]
    BY DEF AccountAnswer, AccountGrows
  <2>3. CASE x \in Held /\ x \in Account!Sessions
    BY <2>1, <2>2, <2>3 DEF AccountInv, LogoutsAreLate
  <2>4. CASE ~(x \in Held /\ x \in Account!Sessions)
    <3>1. x \notin {stored, pending, previous}
      <4>1. stored \in Account!Value /\ pending \in Account!Value /\ previous \in Account!Value \cup {Account!Absent}
        BY <1>1, AccountTyped
      <4>2. 0 \notin Account!Sessions'
        BY <1>1
      <4> QED
        BY <1>4, <2>4, <4>1, <4>2 DEF Held, Account!Value, Account!None
    <3>2. PICK h \in Account!Ops : Account!Current(h) /\ x = op'[h].session
      BY <1>2, <3>1 DEF Held, Account!Current
    <3>3. op[h].session \in Held /\ op[h].session \in Account!Value
      BY <1>1, <3>2 DEF Held, OpRecords
    <3>4. op'[h].session # op[h].session
      <4> SUFFICES ASSUME x = op[h].session PROVE FALSE
        BY <3>2
      <4>1. x \in Account!Value /\ x # Account!None
        BY <1>1, <3>3 DEF Account!None
      <4> QED
        BY <2>4, <3>3, <4>1 DEF Account!Value
    <3>5. x = Len(issued) + 1
      BY <1>3, <3>2, <3>4
    <3>6. \/ \A s \in Account!Sessions : issued[s].user = issued'[x].user => s \in revoked'
          \/ op[h].session \in Account!Sessions /\ issued'[x].user = issued[op[h].session].user
      BY ZenonT(30), <3>2, <3>4, <3>5 DEF AccountAnswer
    <3>7. CASE \A s \in Account!Sessions : issued[s].user = issued'[x].user => s \in revoked'
      BY <2>1, <2>2, <3>7
    <3>8. CASE op[h].session \in Account!Sessions /\ issued'[x].user = issued[op[h].session].user
      BY <2>1, <2>2, <3>3, <3>8 DEF AccountInv, LogoutsAreLate
    <3> QED
      BY <3>6, <3>7, <3>8
  <2> QED
    BY <2>3, <2>4
<1>12. Account!Retained'
  BY <1>2 DEF AccountInv, Account!Retained
<1> QED
  BY <1>5, <1>6, <1>7, <1>8, <1>9, <1>10, <1>11, <1>12 DEF AccountInv

\* The steps that only move an operation on.
LEMMA AccountMoves ==
    ASSUME AccountInv, NEW g \in Account!Ops, AccountMove(g), crashes' = crashes,
           faults' \in 0..AccountFaults
    PROVE  AccountInv'
<1>1. Account!TypeOK /\ OpRecords' = OpRecords /\ op[g] \in OpRecords
  BY AccountTyped, AccountServiceStays DEF AccountInv, AccountMove
<1>2. shown' \in Account!Value
  BY <1>1, AccountTyped DEF AccountMove, OpRecords
<1>3. WireTyped'
  BY <1>1, AccountTyped, AccountServiceStays DEF AccountMove, WireTyped
<1>4. Account!TypeOK'
  BY <1>1, <1>2, <1>3, AccountTyped, AccountKeepsTypes DEF AccountMove, Account!owner
<1> QED
  BY <1>4, AccountMoveKeeps

LEMMA AccountGoesOver ==
    ASSUME AccountInv, NEW g \in Account!Ops, op[g].at # "over", Account!Goes(g, "over"),
           UNCHANGED <<Account!service, Account!owner, wire, cancels, Account!ui, crashes>>,
           faults' \in 0..AccountFaults
    PROVE  AccountInv'
<1>1. Account!TypeOK /\ OpRecords' = OpRecords
  BY AccountServiceStays DEF AccountInv
<1>2. op' \in [Account!Ops -> OpRecords] /\ (\A h \in Account!Ops : h # g => op'[h] = op[h])
      /\ op'[g] = Account!Unused
  BY <1>1, AccountGoes DEF Ats
<1> QED
  BY <1>1, <1>2, AccountMoves DEF AccountMove, Account!ui

LEMMA AccountContinues ==
    ASSUME AccountInv, NEW g \in Account!Ops, Account!Continues(g)
    PROVE  AccountInv'
<1>1. Account!TypeOK /\ OpRecords' = OpRecords
  BY AccountServiceStays DEF AccountInv, Account!Continues
<1>2. op[g].at \in {"staged", "signedOut", "accepted", "finished"} /\ faults \in 0..AccountFaults
      /\ UNCHANGED <<Account!service, Account!owner, wire, cancels, front, busy, faults, crashes>>
  BY <1>1, AccountTyped DEF Account!Continues
<1>3. CASE front # g \/ op[g].at = "finished"
  <2>1. Account!Goes(g, "over")
    BY <1>3 DEF Account!Continues
  <2>2. op' \in [Account!Ops -> OpRecords] /\ (\A h \in Account!Ops : h # g => op'[h] = op[h])
        /\ op'[g] = Account!Unused
    BY <1>1, <2>1, AccountGoes DEF Ats
  <2>3. \/ shown' = shown
        \/ shown' = op[g].session /\ op[g].at = "finished" /\ front = g
    <3>1. CASE front = g /\ op[g].at = "finished"
      BY <3>1 DEF Account!Continues
    <3>2. CASE ~(front = g /\ op[g].at = "finished")
      BY <3>2 DEF Account!Continues
    <3> QED
      BY <3>1, <3>2
  <2> QED
    BY <1>1, <1>2, <2>2, <2>3, AccountMoves DEF AccountMove
<1>4. CASE front = g /\ op[g].at # "finished"
  <2>1. shown' = shown
    BY <1>4 DEF Account!Continues
  <2>2. CASE op[g].at = "staged"
    <3>1. Account!Goes(g, "accepting")
      BY <1>4, <2>2 DEF Account!Continues
    <3>2. op' \in [Account!Ops -> OpRecords] /\ (\A h \in Account!Ops : h # g => op'[h] = op[h])
          /\ op'[g].at = "accepting" /\ op'[g].reply = "none" /\ op'[g].kind = op[g].kind
          /\ op'[g].user = op[g].user /\ op'[g].session = op[g].session
      BY <1>1, <3>1, AccountGoes DEF Ats
    <3> QED
      BY <1>1, <1>2, <2>1, <2>2, <3>2, AccountMoves DEF AccountMove
  <2>3. CASE op[g].at \in {"accepted", "signedOut"}
    <3>1. Account!Goes(g, "finishing")
      BY <1>4, <2>3 DEF Account!Continues
    <3>2. op' \in [Account!Ops -> OpRecords] /\ (\A h \in Account!Ops : h # g => op'[h] = op[h])
          /\ op'[g].at = "finishing" /\ op'[g].reply = "none" /\ op'[g].kind = op[g].kind
          /\ op'[g].user = op[g].user /\ op'[g].session = op[g].session
      BY <1>1, <3>1, AccountGoes DEF Ats
    <3> QED
      BY <1>1, <1>2, <2>1, <2>3, <3>2, AccountMoves DEF AccountMove
  <2> QED
    BY <1>2, <1>4, <2>2, <2>3
<1> QED
  BY <1>3, <1>4

\* A request that is sent on.
LEMMA AccountAsks ==
    ASSUME AccountInv, NEW g \in Account!Ops, NEW call \in {"me", "refresh", "again"},
           NEW s \in Account!Value,
           AccountAsk(g, call, s), UNCHANGED <<faults, crashes>>
    PROVE  AccountInv'
<1>1. Account!TypeOK /\ call \in Account!Waits
  BY DEF AccountInv, Account!Waits
<1>2. op' \in [Account!Ops -> OpRecords]
  BY <1>1, AccountCalls DEF AccountAsk
<1>3. op[g].user \in AccountUsers \cup {Account!None} /\ g \in 0..AccountOps
  BY <1>1, AccountTyped DEF OpRecords, Account!Ops
<1>4. wire' = wire \cup {[of |-> g, call |-> call, user |-> op[g].user, session |-> s]}
  BY DEF AccountAsk, Account!Calls
<1>5. WireTyped'
  BY <1>1, <1>3, <1>4, AccountTyped, AccountServiceStays DEF WireTyped, AccountAsk
<1>6. Account!TypeOK'
  BY <1>1, <1>2, <1>5, AccountTyped, AccountKeepsTypes DEF AccountAsk, Account!owner, Account!ui
<1> QED
  BY <1>6, AccountAskKeeps

LEMMA AccountLoads ==
    ASSUME AccountInv, NEW g \in Account!Ops, Account!Load(g)
    PROVE  AccountInv'
<1>1. Account!TypeOK /\ OpRecords' = OpRecords /\ stored \in Account!Value /\ op[g].at = "opened"
      /\ UNCHANGED <<Account!service, Account!owner, cancels, Account!ui, faults, crashes>>
      /\ faults \in 0..AccountFaults
  BY AccountTyped, AccountServiceStays DEF AccountInv, Account!Load
<1>2. CASE stored = Account!None
  <2>1. Account!Goes(g, "signedOut") /\ wire' = wire
    BY <1>2 DEF Account!Load
  <2>2. op' \in [Account!Ops -> OpRecords] /\ (\A h \in Account!Ops : h # g => op'[h] = op[h])
        /\ op'[g].at = "signedOut" /\ op'[g].reply = "none" /\ op'[g].kind = op[g].kind
        /\ op'[g].user = op[g].user /\ op'[g].session = op[g].session
    BY <1>1, <2>1, AccountGoes DEF Ats
  <2> QED
    BY <1>1, <2>1, <2>2, AccountMoves DEF AccountMove, Account!ui
<1>3. CASE stored # Account!None
  <2>1. AccountAsk(g, "me", stored)
    BY <1>1, <1>3 DEF Account!Load, AccountAsk
  <2> QED
    BY <1>1, <2>1, AccountAsks
<1> QED
  BY <1>2, <1>3

LEMMA AccountAnswered ==
    ASSUME AccountInv, NEW g \in Account!Ops, Account!Answered(g)
    PROVE  AccountInv'
<1>1. Account!TypeOK /\ OpRecords' = OpRecords /\ op[g] \in OpRecords /\ faults \in 0..AccountFaults
      /\ UNCHANGED <<Account!service, cancels, Account!ui, faults, crashes>>
  BY AccountTyped, AccountServiceStays
     DEF AccountInv, Account!Answered, Account!Stage, Account!AsksOn, Account!Fails
<1>2. CASE op[g].at \in {"login", "me", "again"} /\ op[g].reply = "ok" /\ Account!Stage(g)
  <2>1. CASE Account!Current(g)
    <3>1. Account!Goes(g, "staged") /\ pending' = op[g].session
      BY <1>2, <2>1 DEF Account!Stage
    <3>2. op' \in [Account!Ops -> OpRecords] /\ (\A h \in Account!Ops : h # g => op'[h] = op[h])
          /\ op'[g].at = "staged" /\ op'[g].reply = "none" /\ op'[g].kind = op[g].kind
          /\ op'[g].user = op[g].user /\ op'[g].session = op[g].session
      BY <1>1, <3>1, AccountGoes DEF Ats
    <3>3. AccountHold(g)
      BY <1>1, <1>2, <2>1, <3>1, <3>2
        DEF AccountHold, Account!Stage, Account!Waits, Account!Current
    <3>4. op[g].session \in Account!Value
      BY <1>1 DEF OpRecords
    <3>5. WireTyped'
      BY <1>1, <1>2, AccountTyped, AccountServiceStays DEF WireTyped, Account!Stage
    <3>6. Account!TypeOK'
      BY <1>1, <1>2, <3>1, <3>2, <3>4, <3>5, AccountTyped, AccountKeepsTypes
        DEF Account!Stage, Account!ui
    <3> QED
      BY <3>3, <3>6, AccountHoldKeeps
  <2>2. CASE ~Account!Current(g)
    BY <1>1, <1>2, <2>2, AccountGoesOver DEF Account!Stage, Account!owner
  <2> QED
    BY <2>1, <2>2
<1>3. CASE op[g].at \in {"login", "refresh", "again"} /\ op[g].reply = "error" /\ Account!Fails(g)
  BY <1>1, <1>3, AccountGoesOver DEF Account!Fails
<1>4. ASSUME NEW call \in {"refresh", "again"}, Account!AsksOn(g, call),
             \/ op[g].at = "me" /\ call = "refresh"
             \/ op[g].at = "refresh" /\ call = "again"
      PROVE  AccountInv'
  <2>1. CASE Account!Current(g)
    <3>1. op[g].session \in Account!Value /\ op[g].session # Account!None
      BY <1>1, <1>4 DEF AccountInv, SessionsAreThere, OpRecords
    <3>2. AccountAsk(g, call, op[g].session)
      BY <1>1, <1>4, <2>1, <3>1 DEF Account!AsksOn, AccountAsk
    <3> QED
      BY <1>1, <3>1, <3>2, AccountAsks
  <2>2. CASE ~Account!Current(g)
    BY <1>1, <1>4, <2>2, AccountGoesOver DEF Account!AsksOn
  <2> QED
    BY <2>1, <2>2
<1>5. CASE op[g].at = "me" /\ Account!AsksOn(g, "refresh")
  BY <1>4, <1>5
<1>6. CASE op[g].at = "refresh" /\ Account!AsksOn(g, "again")
  BY <1>4, <1>6
<1> QED
  BY <1>2, <1>3, <1>5, <1>6 DEF Account!Answered

LEMMA AccountTimesOut ==
    ASSUME AccountInv, NEW g \in Account!Ops, Account!TimesOut(g)
    PROVE  AccountInv'
<1>1. Account!TypeOK /\ OpRecords' = OpRecords /\ op \in [Account!Ops -> OpRecords] /\ op[g] \in OpRecords
      /\ faults \in 0..AccountFaults /\ op[g].at \in Account!Waits
      /\ UNCHANGED <<Account!service, Account!owner, cancels, Account!ui, faults, crashes>>
  BY AccountTyped, AccountServiceStays DEF AccountInv, Account!TimesOut
<1> DEFINE r == [op[g] EXCEPT !.reply = "error"]
<1>2. op' = [op EXCEPT ![g] = r] /\ wire' \subseteq wire
  BY <1>1 DEF Account!TimesOut
<1>3. r \in OpRecords /\ r.reply = "error" /\ r.at = op[g].at /\ r.kind = op[g].kind
      /\ r.user = op[g].user /\ r.session = op[g].session
  BY <1>1 DEF OpRecords
<1> HIDE DEF r
<1>4. op' \in [Account!Ops -> OpRecords] /\ op'[g] = r /\ \A h \in Account!Ops : h # g => op'[h] = op[h]
  BY <1>1, <1>2, <1>3
<1> QED
  BY <1>1, <1>2, <1>3, <1>4, AccountMoves DEF AccountMove, Account!ui, Account!Waits

\* The steps that change who owns the state, or what it holds.
LEMMA AccountBegins ==
    ASSUME AccountInv, NEW g \in Account!Ops, Account!Begin(g) \/ Account!BeginFails(g)
    PROVE  AccountInv'
<1>1. /\ Account!TypeOK
      /\ op \in [Account!Ops -> OpRecords]
      /\ OpRecords' = OpRecords
      /\ op[g] \in OpRecords
      /\ op[g].at = "sent" /\ g > gen /\ gen' = g /\ gen \in Nat /\ front \in Account!Ops
      /\ UNCHANGED <<Account!service, cancels, Account!ui, settled>> /\ crashes' = crashes
      /\ Account!None \in Account!Value
  BY AccountTyped, AccountServiceStays, AccountNumbers
     DEF AccountInv, Account!Begin, Account!BeginFails, Account!Rollback, Account!RollbackFails, OpsInOrder
<1>2. g <= front /\ gen <= g
  BY <1>1, AccountUnused DEF AccountInv, OpsInOrder, Account!Ops
<1>3. CASE Account!Begin(g)
  <2>1. stored' = (IF previous = Account!Absent THEN stored ELSE previous)
        /\ previous' = Account!Absent
        /\ pending' = Account!None
        /\ faults' = faults
        /\ accountActive'
    BY <1>3 DEF Account!Begin, Account!Rollback
  <2>2. stored' \in Account!Value
    BY <1>1, <2>1, AccountTyped
  <2>3. op[g].session = Account!None
    BY <1>1 DEF AccountInv, SessionsAreThere
  <2>4. CASE op[g].kind = "login"
    <3>1. Account!Calls(g, "login", Account!None)
      BY <1>3, <2>4 DEF Account!Begin
    <3>2. /\ op' \in [Account!Ops -> OpRecords] /\ (\A h \in Account!Ops : h # g => op'[h] = op[h])
          /\ op'[g].at = "login" /\ op'[g].reply = "none" /\ op'[g].kind = op[g].kind
          /\ op'[g].user = op[g].user /\ op'[g].session = Account!None
      BY <1>1, <3>1, AccountCalls DEF Account!Waits
    <3>3. PICK n : /\ wire' = wire \cup {n} /\ n.of = g /\ n.call = "login"
                   /\ n.session = Account!None /\ n.user = op[g].user
      BY <1>1, <3>1, AccountCalls DEF Account!Waits
    <3>4. WireTyped'
      BY <1>1, <3>3, AccountTyped, AccountServiceStays
        DEF WireTyped, OpRecords, Account!Ops, Account!Waits
    <3>5. Account!TypeOK'
      BY <1>1, <2>1, <2>2, <3>2, <3>4, AccountTyped, AccountKeepsTypes
        DEF Account!ui, Account!Ops
    <3>6. AccountTake(g)
      BY <1>1, <1>2, <2>1, <2>4, <3>2, <3>3 DEF AccountTake, Account!ui
    <3> QED
      BY <3>5, <3>6, AccountTakeKeeps
  <2>5. CASE op[g].kind # "login"
    <3>1. Account!Goes(g, "opened") /\ wire' = wire
      BY <1>3, <2>5 DEF Account!Begin
    <3>2. /\ op' \in [Account!Ops -> OpRecords] /\ (\A h \in Account!Ops : h # g => op'[h] = op[h])
          /\ op'[g].at = "opened" /\ op'[g].reply = "none" /\ op'[g].kind = op[g].kind
          /\ op'[g].user = op[g].user /\ op'[g].session = Account!None
      BY <1>1, <2>3, <3>1, AccountGoes DEF Ats
    <3>3. WireTyped'
      BY <1>1, <3>1, AccountTyped, AccountServiceStays DEF WireTyped
    <3>4. Account!TypeOK'
      BY <1>1, <2>1, <2>2, <3>2, <3>3, AccountTyped, AccountKeepsTypes
        DEF Account!ui, Account!Ops
    <3>5. AccountTake(g)
      BY <1>1, <1>2, <2>1, <3>1, <3>2 DEF AccountTake, Account!ui
    <3> QED
      BY <3>4, <3>5, AccountTakeKeeps
  <2> QED
    BY <2>4, <2>5
<1>4. CASE Account!BeginFails(g)
  <2>1. Account!Goes(g, "over") /\ ~accountActive' /\ UNCHANGED <<stored, previous, pending, wire>>
        /\ faults' \in 0..AccountFaults
    BY <1>1, <1>4, AccountTyped, ApplicationsBounds
      DEF Account!BeginFails, Account!RollbackFails, Account!Fault
  <2>2. op' \in [Account!Ops -> OpRecords] /\ (\A h \in Account!Ops : h # g => op'[h] = op[h])
        /\ op'[g] = Account!Unused
    BY <1>1, <2>1, AccountGoes DEF Ats
  <2>3. WireTyped'
    BY <1>1, <2>1, AccountTyped, AccountServiceStays DEF WireTyped
  <2>4. accountActive' \in BOOLEAN
    BY <1>4 DEF Account!BeginFails
  <2>5. Account!TypeOK'
    BY <1>1, <2>1, <2>2, <2>3, <2>4, AccountTyped, AccountKeepsTypes DEF Account!ui, Account!Ops
  <2>6. AccountTake(g)
    BY <1>1, <1>2, <2>1, <2>2 DEF AccountTake, Account!ui
  <2> QED
    BY <2>5, <2>6, AccountTakeKeeps
<1> QED
  BY <1>3, <1>4

LEMMA AccountCancels ==
    ASSUME AccountInv, NEW g \in Account!Ops, Account!Cancel(g)
    PROVE  AccountInv'
<1>1. /\ Account!TypeOK /\ op \in [Account!Ops -> OpRecords] /\ OpRecords' = OpRecords
      /\ g \in cancels
      /\ g <= front
      /\ op[g].at = "over"
      /\ gen \in Nat
      /\ Account!None \in Account!Value
      /\ cancels' \subseteq cancels /\ cancels \subseteq Account!Ops
      /\ UNCHANGED <<Account!service, op, wire, Account!ui, crashes, settled>>
  BY AccountTyped, AccountServiceStays, AccountNumbers
     DEF AccountInv, OpsInOrder, Account!Cancel, Account!Rollback, Account!RollbackFails, Account!owner
<1>2. WireTyped'
  BY <1>1, AccountTyped, AccountServiceStays DEF WireTyped
<1>3. CASE g < gen
  <2>1. UNCHANGED <<Account!owner, faults>>
    BY <1>3 DEF Account!Cancel
  <2>2. Account!TypeOK'
    BY <1>1, <1>2, <2>1, AccountTyped, AccountKeepsTypes DEF Account!owner, Account!ui
  <2>3. AccountInv'
    <3>1. UNCHANGED <<gen, accountActive, pending, previous, stored, settled, issued, rotated, revoked,
                      expired, wire, op, front, shown, busy>>
      BY <1>1, <2>1 DEF Account!owner, Account!ui, Account!service
    <3>2. OpsInOrder' /\ FinishedIsStored'
      BY <1>1, <3>1 DEF AccountInv, OpsInOrder, FinishedIsStored
    <3>3. SessionsAreThere' /\ RequestsMatch' /\ OwnerIsInStep' /\ Account!Retained' /\ Account!ShownIsStored'
      BY <3>1
        DEF AccountInv, SessionsAreThere, RequestsMatch, OwnerIsInStep, Account!Retained,
            Account!ShownIsStored
    <3>4. LogoutsAreLate'
      BY <3>1 DEF AccountInv, LogoutsAreLate, Held, Account!Current, Account!Sessions
    <3> QED
      BY <2>2, <3>2, <3>3, <3>4 DEF AccountInv
  <2> QED
    BY <2>3
<1>4. CASE ~(g < gen)
  <2>1. gen' = g /\ accountActive' = FALSE /\ (Account!Rollback \/ Account!RollbackFails)
    BY <1>4 DEF Account!Cancel
  <2>2. /\ \/ /\ stored' = (IF previous = Account!Absent THEN stored ELSE previous)
              /\ previous' = Account!Absent /\ pending' = Account!None
           \/ UNCHANGED <<stored, previous, pending>>
        /\ faults' \in 0..AccountFaults
    BY <1>1, <2>1, AccountTyped, ApplicationsBounds
      DEF Account!Rollback, Account!RollbackFails, Account!Fault
  <2>3. /\ stored' \in Account!Value
        /\ pending' \in Account!Value
        /\ previous' \in Account!Value \cup {Account!Absent}
        /\ accountActive' \in BOOLEAN
    BY <1>1, <2>1, <2>2, AccountTyped
  <2>4. Account!TypeOK'
    BY <1>1, <1>2, <2>1, <2>2, <2>3, AccountTyped, AccountKeepsTypes DEF Account!ui, Account!Ops
  <2>5. gen <= g
    BY <1>1, <1>4 DEF Account!Ops
  <2>6. AccountTake(g)
    BY <1>1, <2>1, <2>2, <2>5 DEF AccountTake, Account!ui
  <2> QED
    BY <2>4, <2>6, AccountTakeKeeps
<1> QED
  BY <1>3, <1>4

LEMMA AccountAccepts ==
    ASSUME AccountInv, NEW g \in Account!Ops,
           Account!Accept(g) \/ Account!AcceptFails(g) \/ Account!Finish(g)
    PROVE  AccountInv'
<1>1. /\ Account!TypeOK /\ OpRecords' = OpRecords /\ op[g] \in OpRecords /\ op[g].at # "over"
      /\ UNCHANGED <<Account!service, gen, wire, cancels, Account!ui, crashes>>
      /\ faults \in 0..AccountFaults
      /\ faults' \in 0..AccountFaults
      /\ Account!None \in Account!Value
  BY SMTT(30), AccountTyped, AccountServiceStays, AccountNumbers, ApplicationsBounds
     DEF AccountInv, Account!Accept, Account!AcceptFails, Account!Finish, Account!Fault, Account!owner
<1>2. WireTyped'
  BY <1>1, AccountTyped, AccountServiceStays DEF WireTyped
<1>3. CASE Account!Accept(g)
  <2>1. CASE Account!Current(g) /\ pending # Account!None
    <3>1. PICK at \in {"accepted", "over"} : Account!Goes(g, at)
      BY <1>3, <2>1 DEF Account!Accept
    <3>2. /\ op' \in [Account!Ops -> OpRecords] /\ (\A h \in Account!Ops : h # g => op'[h] = op[h])
          /\ \/ op'[g] = Account!Unused
             \/ /\ op'[g].at = "accepted" /\ op'[g].reply = "none" /\ op'[g].kind = op[g].kind
                /\ op'[g].user = op[g].user /\ op'[g].session = op[g].session
      BY <1>1, <3>1, AccountGoes DEF Ats
    <3>3. previous' = stored /\ stored' = pending /\ pending' = Account!None
          /\ accountActive' = accountActive /\ settled' = settled /\ op[g].at = "accepting"
      BY <1>3, <2>1 DEF Account!Accept
    <3>4. Account!TypeOK'
      BY <1>1, <1>2, <3>2, <3>3, AccountTyped, AccountKeepsTypes DEF Account!ui
    <3>5. AccountHold(g)
      BY <1>1, <2>1, <3>2, <3>3, AccountUnused DEF AccountHold, Account!Current
    <3> QED
      BY <3>4, <3>5, AccountHoldKeeps
  <2>2. CASE ~(Account!Current(g) /\ pending # Account!None)
    BY <1>1, <1>3, <2>2, AccountGoesOver DEF Account!Accept, Account!owner
  <2> QED
    BY <2>1, <2>2
<1>4. CASE Account!AcceptFails(g)
  BY <1>1, <1>4, AccountGoesOver DEF Account!AcceptFails
<1>5. CASE Account!Finish(g)
  <2>1. CASE Account!Current(g)
    <3>1. /\ Account!Goes(g, "finished") /\ previous' = Account!Absent /\ accountActive' = FALSE
          /\ settled' = (IF op[g].session = Account!None THEN settled ELSE stored)
          /\ pending' = pending /\ stored' = stored /\ op[g].at = "finishing"
      BY <1>5, <2>1 DEF Account!Finish
    <3>2. /\ op' \in [Account!Ops -> OpRecords] /\ (\A h \in Account!Ops : h # g => op'[h] = op[h])
          /\ op'[g].at = "finished" /\ op'[g].reply = "none" /\ op'[g].kind = op[g].kind
          /\ op'[g].user = op[g].user /\ op'[g].session = op[g].session
      BY <1>1, <3>1, AccountGoes DEF Ats
    <3>3. Account!TypeOK'
      BY <1>1, <1>2, <3>1, <3>2, AccountTyped, AccountKeepsTypes DEF Account!ui
    <3>4. AccountHold(g)
      BY <1>1, <2>1, <3>1, <3>2 DEF AccountHold, Account!Current
    <3> QED
      BY <3>3, <3>4, AccountHoldKeeps
  <2>2. CASE ~Account!Current(g)
    BY <1>1, <1>5, <2>2, AccountGoesOver DEF Account!Finish, Account!owner
  <2> QED
    BY <2>1, <2>2
<1> QED
  BY <1>3, <1>4, <1>5

\* The steps of the service.
LEMMA AccountServes ==
    ASSUME AccountInv, NEW m \in wire, Account!Serve(m)
    PROVE  AccountInv'
<1>1. /\ Account!TypeOK
      /\ m.session \in Account!Value
      /\ m.user \in AccountUsers \cup {Account!None}
      /\ Len(issued) \in Nat
      /\ Account!Sessions = 1..Len(issued)
      /\ m.call = "login" => m.user \in AccountUsers
      /\ m.call # "login" => m.session # Account!None /\ m.session \in Account!Sessions
      /\ UNCHANGED <<Account!owner, cancels, Account!ui, faults, crashes>> /\ wire' \subseteq wire
  BY AccountTyped, AccountNumbers DEF AccountInv, WireTyped, SessionsAreThere, Account!Serve
<1>2. \A h \in Account!Ops : m.of = h /\ op[h].at = m.call /\ op[h].reply = "none" /\ m.call # "login" =>
                       m.session = op[h].session
  BY DEF AccountInv, RequestsMatch
<1>3. Len(issued) + 1 # Account!None
  BY <1>1 DEF Account!None
<1>4. CASE m.call = "login" /\ Len(issued) < AccountSessions /\ Account!Create(m.user)
             /\ Account!Replies(m, "ok", Len(issued) + 1)
  <2>1. /\ AccountGrows /\ issued'[Len(issued) + 1].user = m.user
        /\ Len(issued) + 1 \in Account!Value'
        /\ \A s \in Account!Sessions : issued[s].user = m.user => s \in revoked'
    BY <1>1, <1>4, AccountCreates DEF Account!Value
  <2>2. /\ op' \in [Account!Ops -> OpRecords']
        /\ \A h \in Account!Ops :
             \/ op'[h] = op[h]
             \/ /\ h = m.of /\ op[h].at = m.call /\ op[h].reply = "none"
                /\ op'[h].at = op[h].at /\ op'[h].kind = op[h].kind
                /\ op'[h].user = op[h].user /\ op'[h].reply = "ok"
                /\ op'[h].session = Len(issued) + 1
    BY <1>1, <1>4, <2>1, AccountReplies
  <2>3. AccountAnswer(m)
    BY <1>1, <1>3, <1>4, <2>1, <2>2 DEF AccountAnswer, Account!Waits
  <2> QED
    BY <2>3, AccountAnswerKeeps
<1>5. CASE m.call = "refresh" /\ Len(issued) < AccountSessions /\ Account!Rotate(m.session)
             /\ Account!Replies(m, "ok", Len(issued) + 1)
  <2>1. /\ AccountGrows /\ issued'[Len(issued) + 1].user = issued[m.session].user
        /\ Len(issued) + 1 \in Account!Value'
    BY <1>1, <1>5, AccountRotates DEF Account!Value
  <2>2. /\ op' \in [Account!Ops -> OpRecords']
        /\ \A h \in Account!Ops :
             \/ op'[h] = op[h]
             \/ /\ h = m.of /\ op[h].at = m.call /\ op[h].reply = "none"
                /\ op'[h].at = op[h].at /\ op'[h].kind = op[h].kind
                /\ op'[h].user = op[h].user /\ op'[h].reply = "ok"
                /\ op'[h].session = Len(issued) + 1
    BY <1>1, <1>5, <2>1, AccountReplies
  <2>3. AccountAnswer(m)
    BY <1>1, <1>2, <1>3, <1>5, <2>1, <2>2 DEF AccountAnswer, Account!Waits
  <2> QED
    BY <2>3, AccountAnswerKeeps
<1>6. ASSUME m.call \in {"me", "again", "refresh"}, NEW reply \in {"ok", "error"}, NEW s \in Account!Value,
             AccountGrows, Account!Replies(m, reply, s), reply = "ok" => s = m.session
      PROVE  AccountInv'
  <2>1. s \in Account!Value'
    BY <1>1, <1>6, AccountGrowsTypes
  <2>2. /\ op' \in [Account!Ops -> OpRecords']
        /\ \A h \in Account!Ops :
             \/ op'[h] = op[h]
             \/ /\ h = m.of /\ op[h].at = m.call /\ op[h].reply = "none"
                /\ op'[h].at = op[h].at /\ op'[h].kind = op[h].kind
                /\ op'[h].user = op[h].user /\ op'[h].reply = reply
                /\ op'[h].session = IF reply = "ok" THEN s ELSE op[h].session
    BY <1>1, <1>6, <2>1, AccountReplies
  <2>3. \A h \in Account!Ops :
             \/ op'[h] = op[h]
             \/ /\ h = m.of /\ op[h].at = m.call /\ op[h].reply = "none"
                /\ op'[h].at = op[h].at /\ op'[h].kind = op[h].kind
                /\ op'[h].user = op[h].user /\ op'[h].reply \in {"ok", "error"}
                /\ op'[h].session = op[h].session
                /\ op'[h].reply = "ok" => op'[h].session # Account!None
    BY <1>1, <1>2, <1>6, <2>2
  <2>4. AccountAnswer(m)
    BY <1>1, <1>6, <2>2, <2>3 DEF AccountAnswer, Account!Waits
  <2> QED
    BY <2>4, AccountAnswerKeeps
<1>7. CASE m.call \in {"me", "again"} /\ UNCHANGED Account!service
             /\ Account!Replies(m, IF Account!Authenticates(m.session) THEN "ok" ELSE "error", m.session)
  BY <1>1, <1>6, <1>7, AccountMarks
<1>8. CASE m.call = "refresh" /\ Account!Replayed(m.session) /\ Account!Replies(m, "error", Account!None)
  BY <1>1, <1>6, <1>8, AccountMarks, AccountNumbers
<1>9. CASE m.call = "logout" /\ Account!SignOut(m.session) /\ UNCHANGED op
  <2>1. AccountGrows /\ Account!Sessions' = Account!Sessions
    BY <1>1, <1>9, AccountMarks
  <2>2. op' \in [Account!Ops -> OpRecords']
    BY <1>1, <1>9, <2>1, AccountTyped, AccountGrowsTypes
  <2>3. AccountAnswer(m)
    BY <1>1, <1>9, <2>1, <2>2 DEF AccountAnswer
  <2> QED
    BY <2>3, AccountAnswerKeeps
<1> QED
  BY <1>4, <1>5, <1>7, <1>8, <1>9 DEF Account!Serve, Account!Handles

LEMMA AccountExpires ==
    ASSUME AccountInv, Account!Expires
    PROVE  AccountInv'
<1>1. Account!TypeOK /\ UNCHANGED <<Account!owner, op, wire, cancels, Account!ui, faults, crashes>> /\ Account!Expire
  BY DEF AccountInv, Account!Expires
<1>2. AccountGrows
  <2>1. PICK s \in Account!Sessions : TRUE
    BY <1>1 DEF Account!Expire
  <2> QED
    BY <1>1, <2>1, AccountMarks
<1>3. op' \in [Account!Ops -> OpRecords']
  BY <1>1, <1>2, AccountTyped, AccountGrowsTypes
<1>4. AccountAnswer(0)
  BY <1>1, <1>2, <1>3 DEF AccountAnswer
<1> QED
  BY <1>4, AccountAnswerKeeps

\* Logging out: what is stored goes to the service, and nothing is kept.
LEMMA AccountLogsOut ==
    ASSUME AccountInv, Account!Logout
    PROVE  AccountInv'
<1>1. /\ Account!TypeOK
      /\ op \in [Account!Ops -> OpRecords]
      /\ OpRecords' = OpRecords
      /\ Account!Sessions' = Account!Sessions
      /\ shown # Account!None
      /\ ~busy
      /\ accountActive' = FALSE
      /\ pending' = Account!None
      /\ previous' = Account!Absent
      /\ UNCHANGED <<Account!service, gen, op, cancels, front, shown, crashes>>
      /\ front \in Account!Ops
      /\ front \in Nat
      /\ stored \in Account!Value
      /\ Account!None \in Account!Value
      /\ Account!None \notin Account!Sessions /\ Account!Absent \notin Account!Sessions
  BY AccountTyped, AccountServiceStays, AccountNumbers
    DEF AccountInv, Account!Logout, OpsInOrder, Account!Ops
<1>2. UNCHANGED <<issued, rotated, revoked, expired>>
  BY <1>1 DEF Account!service
<1>3. /\ op[front].at = "over" /\ front \notin cancels /\ gen = front /\ ~accountActive
      /\ previous = Account!Absent /\ stored = shown /\ stored = settled
  BY <1>1 DEF AccountInv, FinishedIsStored, Account!ShownIsStored, Account!Retained
<1>4. \/ /\ stored' = Account!None /\ settled' = Account!None /\ busy' = TRUE /\ faults' = faults
      \/ /\ UNCHANGED <<stored, settled, busy, wire>> /\ faults' \in 0..AccountFaults
  BY <1>1, AccountTyped, ApplicationsBounds DEF Account!Logout, Account!Fault
<1>5. \A m \in wire' :
        \/ m \in wire
        \/ /\ m.of = 0 /\ m.call = "logout" /\ m.user = Account!None /\ m.session = stored
           /\ stored # Account!None /\ stored' = Account!None
  BY <1>1 DEF Account!Logout
<1>6. Account!TypeOK'
  <2>1. WireTyped'
    BY <1>1, <1>5, AccountTyped, AccountServiceStays, ApplicationsBounds DEF WireTyped
  <2>2. stored' \in Account!Value /\ settled' \in Account!Value /\ busy' \in BOOLEAN /\ faults' \in 0..AccountFaults
        /\ accountActive' \in BOOLEAN
    BY <1>1, <1>4, AccountTyped
  <2> QED
    BY <1>1, <2>1, <2>2, AccountTyped, AccountKeepsTypes
<1>7. OpsInOrder'
  <2>1. \A m \in wire' : m.of <= front
    BY <1>1, <1>5 DEF AccountInv, OpsInOrder
  <2> QED
    BY <1>1, <2>1 DEF AccountInv, OpsInOrder
<1>8. SessionsAreThere'
  <2>1. \A m \in wire' : /\ m.call = "login" => m.user \in AccountUsers
                         /\ m.call # "login" => m.session # Account!None
    BY <1>5 DEF AccountInv, SessionsAreThere
  <2> QED
    BY <1>1, <2>1 DEF AccountInv, SessionsAreThere
<1>9. RequestsMatch'
  <2>1. \A m \in wire' : m.of \in Account!Ops => m \in wire
    BY <1>5 DEF Account!Ops
  <2> QED
    BY <1>1, <2>1 DEF AccountInv, RequestsMatch
<1>10. OwnerIsInStep' /\ Account!Retained'
  BY <1>1, <1>3, <1>4 DEF OwnerIsInStep, Account!Retained
<1>11. FinishedIsStored' /\ Account!ShownIsStored'
  BY <1>1, <1>3, <1>4 DEF FinishedIsStored, Account!ShownIsStored
<1>12. LogoutsAreLate'
  <2> SUFFICES ASSUME NEW m \in wire', m.call = "logout", m.session \notin revoked \cup expired,
                      NEW x \in Held', x \in Account!Sessions
               PROVE  issued[x].user # issued[m.session].user
    BY <1>1, <1>2 DEF LogoutsAreLate
  <2>1. x = stored'
    BY <1>1 DEF Held, Account!Current
  <2>2. stored' = stored /\ x \in Held
    BY <1>1, <1>4, <2>1 DEF Held
  <2>3. m \in wire
    BY <1>1, <1>5, <2>1, <2>2
  <2> QED
    BY <2>2, <2>3 DEF AccountInv, LogoutsAreLate
<1> QED
  BY <1>6, <1>7, <1>8, <1>9, <1>10, <1>11, <1>12 DEF AccountInv

LEMMA AccountLogoutEnds ==
    ASSUME AccountInv, Account!LogoutEnds
    PROVE  AccountInv'
<1>1. /\ Account!TypeOK
      /\ UNCHANGED <<Account!service, Account!owner, op, wire, cancels, front, faults, crashes>>
      /\ busy' = FALSE
      /\ shown' = Account!None
      /\ Account!None \in Account!Value
      /\ OpRecords' = OpRecords
  BY AccountServiceStays, AccountNumbers DEF AccountInv, Account!LogoutEnds
<1>2. UNCHANGED <<gen, accountActive, pending, previous, stored, settled, issued, rotated, revoked, expired>>
  BY <1>1 DEF Account!owner, Account!service
<1>3. WireTyped'
  BY <1>1, AccountTyped, AccountServiceStays DEF WireTyped
<1>4. Account!TypeOK'
  BY <1>1, <1>2, <1>3, AccountTyped, AccountKeepsTypes
<1>5. OpsInOrder' /\ FinishedIsStored' /\ Account!ShownIsStored'
  BY <1>1, <1>2 DEF AccountInv, OpsInOrder, FinishedIsStored, Account!ShownIsStored
<1>6. SessionsAreThere' /\ RequestsMatch' /\ OwnerIsInStep' /\ Account!Retained'
  BY <1>1, <1>2 DEF AccountInv, SessionsAreThere, RequestsMatch, OwnerIsInStep, Account!Retained
<1>7. LogoutsAreLate'
  BY <1>1, <1>2 DEF AccountInv, LogoutsAreLate, Held, Account!Current, Account!Sessions
<1> QED
  BY <1>4, <1>5, <1>6, <1>7 DEF AccountInv

\* The process ends: nothing but the store and the service's requests is left.
LEMMA AccountRestarts ==
    ASSUME AccountInv, Account!Crash
    PROVE  AccountInv'
<1>1. /\ Account!TypeOK
      /\ OpRecords' = OpRecords
      /\ Account!Sessions' = Account!Sessions
      /\ Account!Value' = Account!Value
      /\ gen' = 0
      /\ accountActive' = FALSE
      /\ pending' = Account!None
      /\ previous' = Account!Absent
      /\ settled' = stored
      /\ op' = [[g \in Account!Ops |-> Account!Unused] EXCEPT ![front + 1] = Account!Restore]
      /\ cancels' = {} /\ shown' = Account!None /\ busy' = FALSE /\ wire' \subseteq wire
      /\ UNCHANGED <<Account!service, stored, faults>> /\ front' = front + 1 /\ front < AccountOps
      /\ front \in Account!Ops /\ stored \in Account!Value /\ Account!None \in Account!Value
      /\ Account!None \notin Account!Sessions /\ Account!Absent \notin Account!Sessions
      /\ Account!Unused \in OpRecords /\ Account!Restore \in OpRecords
  BY AccountServiceStays, AccountNumbers, AccountTyped, AccountUnused
     DEF AccountInv, Account!Crash, OpsInOrder
<1>2. front + 1 \in Account!Ops /\ front \in Nat /\ crashes' \in 0..AccountCrashes /\ 0 \in 0..AccountOps
      /\ front + 1 \in 0..AccountOps
  BY <1>1, ApplicationsBounds, AccountTyped DEF Account!Ops, Account!Crash
<1>3. /\ op' \in [Account!Ops -> OpRecords] /\ op'[front + 1] = Account!Restore
      /\ \A h \in Account!Ops : h # front + 1 => op'[h] = Account!Unused
  BY <1>1, <1>2
<1>4. UNCHANGED <<issued, rotated, revoked, expired>>
  BY <1>1 DEF Account!service
<1>5. Account!TypeOK'
  <2>1. WireTyped'
    BY <1>1, AccountTyped DEF WireTyped
  <2> QED
    BY <1>1, <1>2, <1>3, <2>1, AccountTyped, AccountKeepsTypes
<1>6. OpsInOrder'
  <2>1. \A h \in Account!Ops : h > front + 1 => op'[h] = Account!Unused
    BY <1>2, <1>3 DEF Account!Ops
  <2>2. \A m \in wire' : m.of <= front + 1
    BY <1>1, <1>2, AccountTyped DEF AccountInv, OpsInOrder, WireTyped
  <2> QED
    BY <1>1, <1>2, <2>1, <2>2 DEF OpsInOrder
<1>7. SessionsAreThere'
  <2>1. \A h \in Account!Ops : op'[h] = Account!Restore \/ op'[h] = Account!Unused
    BY <1>3
  <2> QED
    BY <1>1, <2>1, AccountUnused DEF AccountInv, SessionsAreThere
<1>8. RequestsMatch'
  <2> SUFFICES ASSUME NEW m \in wire, NEW h \in Account!Ops, m.of = h
               PROVE  /\ m.call # "logout" /\ Rank(m.call) <= Rank(op'[h].at)
                      /\ m.call # "login" /\ op'[h].at = m.call /\ op'[h].reply = "none" =>
                           m.session = op'[h].session
    BY <1>1 DEF RequestsMatch
  <2>1. h # front + 1
    BY <1>2 DEF AccountInv, OpsInOrder
  <2>2. op'[h].at = "over"
    BY <1>1, <1>3, <2>1, AccountUnused
  <2>3. m.call \in Account!Waits
    BY <1>1, AccountTyped DEF AccountInv, RequestsMatch, WireTyped
  <2> QED
    BY <2>2, <2>3 DEF Rank, Account!Waits
<1>9. OwnerIsInStep' /\ Account!Retained'
  BY <1>1 DEF OwnerIsInStep, Account!Retained
<1>10. FinishedIsStored' /\ Account!ShownIsStored'
  <2>1. op'[front'].at = "sent"
    BY <1>1, <1>3, AccountUnused
  <2> QED
    BY <1>1, <2>1 DEF FinishedIsStored, Account!ShownIsStored
<1>11. LogoutsAreLate'
  <2>1. \A x \in (Held \cap Account!Sessions)' : x \in Held \cap Account!Sessions
    BY <1>1 DEF Held, Account!Current
  <2> QED
    BY <1>1, <1>4, <2>1 DEF AccountInv, LogoutsAreLate
<1> QED
  BY <1>5, <1>6, <1>7, <1>8, <1>9, <1>10, <1>11 DEF AccountInv

LEMMA AccountStarts ==
    Account!Init => AccountInv
<1> SUFFICES ASSUME Account!Init PROVE AccountInv
  OBVIOUS
<1>1. /\ rotated = {} /\ revoked = {} /\ expired = {} /\ gen = 0 /\ accountActive = FALSE
      /\ pending = Account!None /\ previous = Account!Absent /\ settled = stored
      /\ op = [[g \in Account!Ops |-> Account!Unused] EXCEPT ![1] = Account!Restore]
      /\ wire = {}
      /\ cancels = {}
      /\ front = 1 /\ shown = Account!None /\ busy = FALSE /\ faults = 0 /\ crashes = 0
  BY DEF Account!Init
<1>2. issued \in Seq([user : AccountUsers, family : 1..AccountSessions]) /\ Len(issued) <= AccountSessions
      /\ stored \in Account!Value
  <2> DEFINE R == [user : AccountUsers, family : 1..AccountSessions]
  <2>1. CASE issued = <<>> /\ stored = Account!None
    BY <2>1, ApplicationsBounds DEF Account!Value
  <2>2. ASSUME NEW u \in AccountUsers, issued = <<[user |-> u, family |-> 1]>>, stored = 1
        PROVE  issued \in Seq(R) /\ Len(issued) <= AccountSessions /\ stored \in Account!Value
    <3> DEFINE r == [user |-> u, family |-> 1]
    <3>1. r \in R
      BY ApplicationsBounds
    <3>2. issued = <<r>>
      BY <2>2
    <3> HIDE DEF r, R
    <3>3. issued \in Seq(R) /\ Len(issued) = 1 /\ DOMAIN issued = {1}
      BY <3>1, <3>2
    <3> QED
      BY <2>2, <3>3, ApplicationsBounds DEF Account!Value, Account!Sessions
  <2> QED
    BY <2>1, <2>2 DEF Account!Init
<1>3. Account!Unused \in OpRecords /\ Account!Restore \in OpRecords /\ Account!Unused.at = "over" /\ Account!Restore.at = "sent"
      /\ Account!Unused.session = Account!None /\ Account!Restore.session = Account!None
      /\ Account!Unused.kind = "none" /\ Account!Restore.kind = "restore"
      /\ Account!Unused.reply = "none" /\ Account!Restore.reply = "none"
  BY DEF Account!Unused, Account!Restore, OpRecords, Ats, Account!Value
<1>4. 1 \in Account!Ops /\ 0 \in 0..AccountOps /\ 1 \in 0..AccountOps /\ 0 \in 0..AccountFaults
      /\ 0 \in 0..AccountCrashes
  BY ApplicationsBounds DEF Account!Ops
<1>5. /\ op \in [Account!Ops -> OpRecords] /\ op[1] = Account!Restore
      /\ \A h \in Account!Ops : h # 1 => op[h] = Account!Unused
  BY <1>1, <1>3, <1>4
<1>6. Account!TypeOK
  <2>1. Account!ServiceTypeOK
    BY <1>1, <1>2 DEF Account!ServiceTypeOK
  <2>2. Account!None \in Account!Value
    BY DEF Account!Value
  <2> QED
    BY <1>1, <1>2, <1>4, <1>5, <2>1, <2>2 DEF Account!TypeOK, OpRecords, Ats
<1>7. OpsInOrder
  BY <1>1, <1>4, <1>5 DEF OpsInOrder, Account!Ops
<1>8. SessionsAreThere
  <2>1. \A h \in Account!Ops : op[h] = Account!Restore \/ op[h] = Account!Unused
    BY <1>5
  <2> QED
    BY <1>1, <1>3, <2>1 DEF SessionsAreThere
<1>9. RequestsMatch /\ LogoutsAreLate
  BY <1>1 DEF RequestsMatch, LogoutsAreLate
<1>10. OwnerIsInStep /\ Account!Retained
  BY <1>1 DEF OwnerIsInStep, Account!Retained
<1>11. FinishedIsStored /\ Account!ShownIsStored
  BY <1>1, <1>3, <1>5 DEF FinishedIsStored, Account!ShownIsStored
<1> QED
  BY <1>6, <1>7, <1>8, <1>9, <1>10, <1>11 DEF AccountInv

LEMMA AccountRests ==
    ASSUME AccountInv, UNCHANGED Account!vars
    PROVE  AccountInv'
<1>1. UNCHANGED <<gen, accountActive, pending, previous, stored, settled, issued, rotated, revoked, expired,
                  op, wire, cancels, front, shown, busy, faults, crashes>>
  BY DEF Account!vars, Account!owner, Account!service, Account!ui
<1>2. Account!TypeOK /\ Account!Sessions' = Account!Sessions /\ Account!Value' = Account!Value
  BY <1>1 DEF AccountInv, Account!Sessions, Account!Value
<1>3. Account!TypeOK' /\ OpsInOrder' /\ FinishedIsStored' /\ Account!ShownIsStored'
  BY <1>1, <1>2
    DEF AccountInv, Account!TypeOK, Account!ServiceTypeOK, OpsInOrder, FinishedIsStored,
        Account!ShownIsStored
<1>4. SessionsAreThere' /\ RequestsMatch' /\ OwnerIsInStep' /\ Account!Retained'
  BY <1>1 DEF AccountInv, SessionsAreThere, RequestsMatch, OwnerIsInStep, Account!Retained
<1>5. LogoutsAreLate'
  BY <1>1, <1>2 DEF AccountInv, LogoutsAreLate, Held, Account!Current
<1> QED
  BY <1>3, <1>4, <1>5 DEF AccountInv

LEMMA AccountStays ==
    AccountInv /\ [Account!Next]_(Account!vars) => AccountInv'
<1> SUFFICES ASSUME AccountInv, [Account!Next]_(Account!vars) PROVE AccountInv'
  OBVIOUS
<1>1. CASE Account!Bootstrap \/ Account!Leave \/ \E u \in AccountUsers : Account!Login(u)
  BY <1>1, AccountTurns
<1>2. CASE Account!Logout \/ Account!LogoutEnds \/ Account!Crash \/ Account!Expires
  BY <1>2, AccountLogsOut, AccountLogoutEnds, AccountRestarts, AccountExpires
<1>3. ASSUME NEW g \in Account!Ops, Account!Continues(g) \/ Account!Load(g) \/ Account!Answered(g) \/ Account!TimesOut(g)
      PROVE  AccountInv'
  BY <1>3, AccountContinues, AccountLoads, AccountAnswered, AccountTimesOut
<1>4. ASSUME NEW g \in Account!Ops, Account!BeginStale(g)
      PROVE  AccountInv'
  BY <1>4, AccountTyped, AccountGoesOver DEF Account!BeginStale, AccountInv
<1>5. ASSUME NEW g \in Account!Ops, \/ Account!Begin(g) \/ Account!BeginFails(g) \/ Account!Accept(g) \/ Account!AcceptFails(g) \/ Account!Finish(g)
                                    \/ Account!Cancel(g)
      PROVE  AccountInv'
  BY <1>5, AccountBegins, AccountAccepts, AccountCancels
<1>6. ASSUME NEW m \in wire, Account!Serve(m)
      PROVE  AccountInv'
  BY <1>6, AccountServes
<1>7. CASE UNCHANGED Account!vars
  BY <1>7, AccountRests
<1> QED
  BY <1>1, <1>2, <1>3, <1>4, <1>5, <1>6, <1>7 DEF Account!Next

\* A late logout revokes nothing of the owner of the state.
LEMMA AccountSpares ==
    AccountInv => \A m \in wire : m.call = "logout" /\ Account!Serve(m) => (revoked' \ revoked) \cap Account!Owned = {}
<1> SUFFICES ASSUME AccountInv, NEW m \in wire, m.call = "logout", Account!Serve(m),
                    NEW x \in revoked' \ revoked, x \in Account!Owned
             PROVE  FALSE
  OBVIOUS
<1>1. Account!SignOut(m.session)
  BY DEF Account!Serve, Account!Handles
<1>2. m.session \notin revoked \cup expired /\ x \in Account!OfUser(issued[m.session].user)
  BY <1>1 DEF Account!SignOut, Account!Authenticates
<1>3. x \in Account!Sessions /\ issued[x].user = issued[m.session].user
  BY <1>2 DEF Account!OfUser
<1>4. x \in Held
  BY DEF Account!Owned, Held
<1> QED
  BY <1>2, <1>3, <1>4 DEF AccountInv, LogoutsAreLate

\* The operation of the user interface is robbed by none that is older.
LEMMA AccountNewest ==
    AccountInv /\ [Account!Next]_(Account!vars) => (Account!Current(front) /\ front' = front => gen' = front)
<1> SUFFICES ASSUME AccountInv, Account!Next, accountActive, gen = front, front' = front PROVE gen' = gen
  BY DEF Account!vars, Account!owner, Account!Current
<1>1. Account!TypeOK /\ front \in Account!Ops /\ gen \in 0..AccountOps
  BY AccountTyped DEF AccountInv, OpsInOrder
<1>2. CASE Account!Bootstrap \/ Account!Leave \/ (\E u \in AccountUsers : Account!Login(u)) \/ Account!Logout \/ Account!LogoutEnds \/ Account!Expires
  BY <1>2
    DEF Account!Bootstrap, Account!Leave, Account!Login, Account!Logout, Account!LogoutEnds,
        Account!Expires, Account!owner
<1>3. CASE Account!Crash
  BY <1>1, <1>3 DEF Account!Crash, Account!Ops
<1>4. ASSUME NEW g \in Account!Ops,
             \/ Account!Continues(g) \/ Account!BeginStale(g) \/ Account!Load(g) \/ Account!Answered(g) \/ Account!Accept(g)
             \/ Account!AcceptFails(g) \/ Account!Finish(g) \/ Account!TimesOut(g)
      PROVE  gen' = gen
  BY <1>4
    DEF Account!Continues, Account!BeginStale, Account!Load, Account!Answered, Account!Stage,
        Account!AsksOn, Account!Fails, Account!Accept, Account!AcceptFails,
              Account!Finish, Account!TimesOut, Account!owner
<1>5. ASSUME NEW g \in Account!Ops, Account!Begin(g) \/ Account!BeginFails(g)
      PROVE  FALSE
  <2>1. g > front /\ op[g].at = "sent"
    BY <1>5 DEF Account!Begin, Account!BeginFails
  <2> QED
    BY <1>1, <2>1, AccountUnused DEF AccountInv, OpsInOrder
<1>6. ASSUME NEW g \in Account!Ops, Account!Cancel(g)
      PROVE  gen' = gen
  <2>1. g \in cancels /\ g <= front
    BY <1>6 DEF Account!Cancel, AccountInv, OpsInOrder
  <2>2. CASE g < gen
    BY <1>6, <2>2 DEF Account!Cancel, Account!owner
  <2>3. CASE ~(g < gen)
    BY <1>1, <1>6, <2>1, <2>3 DEF Account!Cancel, Account!Ops
  <2> QED
    BY <2>2, <2>3
<1>7. ASSUME NEW m \in wire, Account!Serve(m)
      PROVE  gen' = gen
  BY <1>7 DEF Account!Serve, Account!owner
<1> QED
  BY <1>2, <1>3, <1>4, <1>5, <1>6, <1>7 DEF Account!Next

-----------------------------------------------------------------------------
(*                    All of them, as MCApplications has them              *)

LEMMA ApplicationsStart ==
    ApplicationsInit => HostInv /\ EndInv /\ AccountInv
BY HostStarts, EndStarts, AccountStarts DEF ApplicationsInit

\* A step is one of one application, and leaves the others alone.
LEMMA SharingMoves ==
    [ApplicationsNext]_parts => [Sharing!Next]_(Sharing!vars)
BY DEF ApplicationsNext, parts, hostVars, Sharing!vars

LEMMA EndingMoves ==
    [ApplicationsNext]_parts => [Ending!Next]_(Ending!vars)
BY DEF ApplicationsNext, parts, endVars, Ending!vars

LEMMA AccountMovesAlone ==
    [ApplicationsNext]_parts => [Account!Next]_(Account!vars)
BY DEF ApplicationsNext, parts, accountVars, Account!vars, Account!service, Account!owner,
       Account!ui

\* A pause that was confirmed holds, and lasts over the end of the application; no
\* worker serves that nobody asked for, sharing that is wanted has its worker, and the
\* user is told of a control that it is over only when it is.
THEOREM HostStaysPaused == ApplicationsSpec => []HostKeepsPause
<1>1. HostInv /\ EndInv /\ [ApplicationsNext]_parts => HostInv' /\ EndInv'
  BY SharingMoves, EndingMoves, HostStays, EndStays
<1>2. HostInv /\ EndInv => HostKeepsPause
  BY HostHasWorker, EndHolds DEF HostInv, HostKeepsPause
<1> QED
  BY <1>1, <1>2, ApplicationsStart, PTL DEF ApplicationsSpec

LEMMA AccountInvariant == ApplicationsSpec => []AccountInv
<1>1. AccountInv /\ [ApplicationsNext]_parts => AccountInv'
  BY AccountMovesAlone, AccountStays
<1> QED
  BY <1>1, ApplicationsStart, PTL DEF ApplicationsSpec

\* Whatever commands, answers, failing writes and ends of the process come, and in
\* whatever order: the session that was confirmed last is on disk or kept for putting
\* it back, and the session the user interface shows is the one on disk.
THEOREM ConfirmedAccountIsKept == ApplicationsSpec => []AccountKept
<1>1. AccountInv => AccountKept
  BY DEF AccountInv, AccountKept
<1> QED
  BY <1>1, AccountInvariant, PTL

\* No command of an older operation takes the account from the operation the user
\* interface waits for, and a logout the service handles late revokes nothing of what
\* the owner of the state has stored, staged or in hand.
THEOREM NewestAccountOwns == ApplicationsSpec => AccountOwned
<1> DEFINE Spares == \A m \in wire : m.call = "logout" /\ Account!Serve(m) =>
                                       (revoked' \ revoked) \cap Account!Owned = {}
           Newest == Account!Current(front) /\ front' = front => gen' = front
<1>1. AccountInv /\ [ApplicationsNext]_parts => [Spares]_(Account!vars)
  BY AccountSpares
<1>2. AccountInv /\ [ApplicationsNext]_parts => [Newest]_(Account!vars)
  BY AccountMovesAlone, AccountNewest
<1>3. ApplicationsSpec => [][Spares]_(Account!vars) /\ [][Newest]_(Account!vars)
  BY <1>1, <1>2, AccountInvariant, PTL DEF ApplicationsSpec
<1> QED
  BY <1>3, PTL DEF AccountOwned, Account!LogoutSpares, Account!NewestOwns
=============================================================================
