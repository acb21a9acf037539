# Verification of DeskLink

DeskLink is a remote desktop: a *host* shares its screen with a *controller*
through a QUIC relay (`server/relay`), and directly over the LAN when it can.
This directory holds TLA+ models of the parts whose correctness depends on
order, concurrency and failure, the TLC runs that check them on small
instances, and theorems proved with TLAPS for all instances.

`PROJECT.json` is the index: components, runs, the code lines every definition
models, the hazards the properties are for, and for every property a *mutant*,
a plausible bug (the operators marked "Fault:") that makes TLC report it.

## The system

| Part | State it keeps | Operations | What makes it correct |
|---|---|---|---|
| Relay session table (`server/relay/src/lib.rs` 147-510) | session -> host, controller, authentication, expiry | attach, resume, detach, sweep, peer lookup | limits, same authentication, a role passes only to the same participant |
| Relay membership (`lib.rs` 500-800, 984-1441) | participants map, device directory, membership mutex, admission count | accept, join, replace, depart, sweep, close | the three maps agree; nobody stays in them or keeps an admission; nobody displaced stays open |
| Reliable forwarding (`lib.rs` 1406-1785) | a task per stream and its bound destination | read, look up, open, write, retry | right peer, in order, at most once, no endless retry |
| Media scheduling (`media_scheduler.rs`, `lib.rs` 1787-1912) | a bounded queue per channel | enqueue, dequeue, send, time out | right peer, in order, bounded in size and time |
| Directory lookup (`lib.rs` 682-749) | failure counts per source and device | look up, count, forget | the failure limit, under concurrent lookups |
| Relay shutdown outcome (`lib.rs` 1174-1235) | - | drain, abort, report | reports what happened |
| Client business transport (`crates/desklink-transport/src/business_transport.rs`, `lan_data.rs`) | route of each lane, switch generation, replay window, fences | send, receive, attach, fence, fall back | a lane delivers in order and exactly once over two paths |
| Path switch (`business_transport.rs` 100-330, `runtime/lan_session.rs`) | stage of each end, probe, candidate | publish, probe, offer, ready, commit | no end switches alone, a failed switch leaves the relay in use |
| Client relay transport (`quic.rs`) | inbound lanes, generation of the peer | receive, filter, report a replacement | nothing of an old peer is delivered, no disconnect is lost |
| Direct video path (`video_path.rs`, `runtime/direct_path_slot.rs`) | negotiation state of both ends, the active path | offer, answer, probe, activate, retire | the path in use exists, the late failure of an old one is ignored |
| Video (`crates/desklink-video`, `desklink-ffi/src/controller.rs`, `runtime.rs`) | encode queue, partial frames, marks, waiting for a keyframe | encode, send, push, expire, observe, request | no broken frame is shown, the picture recovers |
| Configuration (`runtime/configuration_queue.rs`, `runtime.rs`) | latest and pending choice per kind | request, pop, apply, invalidate | the newest choice wins and the controller is told of it |
| Host input (`runtime.rs`, `input.rs`, `capture/topology.rs`) | mapping with its epoch, held keys | publish, select, inject, release, end | no key and no pointer position crosses into another mapping |
| Input restriction (`input_restriction.rs`) | refusals per class, the state reported | record, report | a restriction is reported while there is one |
| File transfer (`transfer_task.rs`, `transfer_checkpoint.rs`, `transfer_directory.rs`) | index, part, ledger, metadata; tasks and their queues | offer, send, acknowledge, publish, cancel, retry | a confirmed block survives, a file appears whole and once, every task ends |
| Host application (`windows-ui/src-tauri/src/host.rs`, `session_control.rs`) | the worker, pause flag and marker | start, pause, resume, pair, end control | a pause holds, there is one worker, a confirmed end happened |
| Account (`account.rs`, `server/account/src/services/session-service.ts`) | stored, staged and former session; rows at the service | log in, restore, accept, finish, cancel, log out | what is shown is stored, a confirmed session is not lost |
| Controller application (`controller.rs`, `recent_access.rs`) | generation, the worker, remembered hosts | connect, reconnect, disconnect, forget, clear | a cancel leaves nothing behind, one session at a time |
| Session life cycle (`crates/desklink-session`), protocol codecs, cryptography, Windows capture, encoding and audio, Apple clients, tools | - | - | not modelled; see `PROJECT.json` for the reasons |

The relay runs one task per connection, one per reliable stream, three per
connection for media, and the accept loop. They share `RelayState`: three maps
with a mutex each, and the *membership* mutex that serialises the updates that
span the maps. Tasks meet in these maps (`peer_with_id`), in the transports
they close, and in the admission counter. The hard behaviour is there: a join
and a departure are several updates, a lookup reads two maps one after the
other, a connection can be replaced, expire or close between any two steps of
another task, and a forwarding task retries.

A client (`QuicClient`) reads the relay's streams into lanes. `SessionDataPlane`
puts the business lanes of a session on the relay or, once both ends agreed, on
a LAN connection; older peers move only video, with `DirectVideoPathMachine`.
On top of the lanes run the video stream, the input, the configuration and the
file tasks of a session, and on top of the session the two applications: the
host's manager, which keeps one worker sharing the computer, and the
controller's, which keeps one connection. The account is a third manager with
its own store and service. Their hard behaviour is that of the crossing: a
message read under an old state, an answer after its question was given up, a
click that overlaps a task's last statements, a file left by a process that was
killed.

## Modules

| Module | Models | State |
|---|---|---|
| `RelaySessionTable` | the methods of the session table as operators on a table value | - |
| `RelayMembership` | the tasks of connections from admission to departure, the accept loop, expiry, `close()` | the three maps, the mutex, the admission count, where each task is (`pc`), closed transports |
| `RelayMembership_proofs` | the theorems about it, the refinement below included | - |
| `RoleSlots` | abstract specification: what forwarding tasks may rely on | holders of roles; listed, closed, fresh and departing connections |
| `RelayMembershipRefinement` | `RelayMembership` implements `RoleSlots` | - |
| `JoinedTasks` | `RoleSlots` with the task of each joined connection | + its place and phase |
| `RelayForwarding`, `RelayForwarding_proofs` | the stream tasks, in `JoinedTasks`, and the theorems about them | + a record per stream, what was written |
| `RelayDatagrams`, `RelayDatagrams_proofs` | the media queues and workers, in `JoinedTasks`, and the theorems about them | + queue and datagram in hand per channel |
| `DirectoryLookup` | the failure limit of `lookup_directory` | failure record per key, where each lookup is and the instant it goes by |
| `ReliableLane` | abstract specification: what a reliable lane promises its callers | messages given, delivered, the outcome told |
| `SessionDataPlane` | one lane over relay and LAN | the sender's route and operation, writer, wire, connections, receipts, fence, admission at the receiver |
| `LanSwitch` | the agreement on a LAN connection | stages, probe, candidate and messages of both ends |
| `DirectVideoPath` | the direct path for video of older peers | both machines, connections, slot, the plane's path and generation |
| `RelayClient` | the receive side of `QuicClient` | streams, lanes, peer generations, the caller or bound session |
| `VideoStream` | pictures from the encoder to the decoder | queue, lanes, assemblers, continuity, requests |
| `MediaConfiguration` | configuration queue, capture worker and the loop between | queue with serials, operation, what is applied, told and wanted |
| `HostInput` | the input mapping and its epochs | mapping, injector, capture worker, messages |
| `InputRestriction` | the report on refused input | counters, the watched state, what was shown |
| `FileDelivery` | abstract specification: what the transfer of a file promises | source, destination, the sender's belief |
| `FileEntry` | one file over any number of attempts | manifest and index, part and ledger, both workers, messages |
| `FileTasks` | admission, cancellation and retry of tasks at both ends | handles, workers, queues, messages |
| `HostLifecycle` | `HostManager` | flag, marker, lock queue, commands, workers |
| `EndControl` | ending the control of a session | handle, request, click, session, controller |
| `AccountService`, `AccountSession` | the service's sessions, and the client's account on top | rows and tokens; operations, store, messages |
| `ControllerConnection` | `ControllerManager` and its worker | generation, lock queue, commands, workers, files |
| `RelayTraffic_proofs` | the theorems about `DirectoryLookup`, and those about streams and datagrams as `MCRelayTraffic` instantiates them | - |
| `SessionPaths_proofs` | the theorems about `SessionDataPlane` (it implements `ReliableLane`), `LanSwitch`, `DirectVideoPath`, `RelayClient` | - |
| `HostStreams_proofs` | ... about `HostInput`, `InputRestriction`, `MediaConfiguration`, `VideoStream` | - |
| `Files_proofs` | ... about `FileEntry` (it implements `FileDelivery`) and `FileTasks` | - |
| `Applications_proofs` | ... about `ControllerConnection`, `HostLifecycle`, `EndControl`, `AccountSession` | - |
| `MC*` | the instances and their symmetries; their bounds are constants that the `.cfg` gives values | - |

**How the state corresponds to the code.** A connection is the `u64` id that
`next_connection_id` hands out, never reused, so it also names the transport
and the task. `participants` keeps the keys of the map only; its values are
the transports. The session table maps a session that is not in the code's
`HashMap` to `Vacant`. Time is a flag: a session record, directory record or
datagram *has* passed its deadline or has not, and may pass it at any step.

**How the actions correspond.** An action is what a task does while it holds
one lock, or between two awaits. `pc` follows `accept_join` and
`handle_connection`: `handshake`, `waiting` (the envelope loop), `validate`,
`attach`, `publish`, `enlist` (`attach_participant`, under the mutex), `close`
(the displaced transport), `ack` (the reply), `joined`, `leaving`, `detach`,
`delist`, `retain` (`remove_connection`, under the mutex), `release` (the drop
of the admission guard). The drop of the guards follows Rust's order on every
way out, the cancellation of a task by its deadline included: when a join fails
after it was registered (its reply, its deadline, an early datagram),
`accept_join` drops the participant's guard while the transport is open, and
`handle_connection` closes it afterwards (`AckFails` leaves it open,
`ReleaseAdmission` closes it). So forwarders may meet a connection that is open
and in no map: `RoleSlots` says which connections are departing and promises
that a role is vacated only by the departure of its own connection, never that
the connection is closed by then; in `JoinedTasks` a connection that has asked
for nothing yet may leave with its transport open.

`RelayForwarding` splits `peer_with_id` into its two reads (`LookUpPeer`,
`Resolve`), and every await of `forward_reliable_message` can succeed or fail
(`BindPeer`, `OpenFails`, `HeaderFails`, `Write`, `WriteFails`). A write that
succeeds is recorded in `wire`: the relay handed the message to the transport.
`RelayDatagrams` splits both lookups (`Receive`/`Enqueue`,
`Dequeue`/`Resolve`) and the send. `DirectoryLookup` gives `lookup_directory`
a step per critical section (`Check`, `Read`, `Forget` or `Count`) and the
instant it read at its beginning; what the directory answers is free.

**The client modules.** A step is again what runs between two awaits or under
one lock; names follow the code (`SealDirect`, `begin_selection` as
`SelectBegins`, `stop_current` as `Stop` and `Abort`). What a module takes for
granted, and where it joins another:

- `SessionDataPlane`: one direction of one wrapped lane. `op` is the holder of
  the outbound lock and where it is in `send` or in its fence task; the relay
  writer is a process of its own, because a started write outlives its timeout.
  `lan`, `receipts` and `wire` are what is under way; receipts may be lost with
  their connection and be too late. Which connections are attached is any
  choice of the two ends: `LanSwitch` says which choices they make.
- `LanSwitch`: Offer, Ready and Commit on an ordered lane; the candidate may
  expire at any moment, the probe may fail late, the connection may close.
- `DirectVideoPath`: both ends' machines with the two crossing connections. The
  host's accept loop and probe task are separate from its control loop.
- `RelayClient`: a task per stream reads it into a lane of `Capacity` events;
  the relay's side is any sequence of peers. Three callers: `next_event`
  (`EventSpec`), the same dropped by a `select!` (`DropSpec`), and a host whose
  sessions are bound to one generation (`HostSpec`).
- `VideoStream`: a keyframe is two packets and a delta one; losses are chosen
  when a datagram is sent. A partial frame expires only when every packet sent
  before its assembly began has come or is lost (`born`): its time limit is
  long compared with reordering. Each keyframe request is a message that may
  not be lost (it goes by the reliable lane).
- `MediaConfiguration`: the worker applies one operation at a time and may
  fail; bitrates keep their order only.
- `HostInput`: the mapping and the injector are behind two locks taken in one
  order, so one step each; the capture thread, the control loop and the input
  task interleave between. The encoder's version is kept as `fresh`, whether it
  is newer than the one the epoch began with, which is all the code compares.
  A refused release leaves every key down (`SendInput` is all or nothing).
- `FileEntry`: a block's digest and content are one value. Operations on names
  (create, rename, delete) happen in order and last; written data lasts once
  synced, and may be junk otherwise. The first attempt records the identity of
  the source in the manifest (`RecordManifest`); every attempt compares the
  source with it (`VerifySource`) and the index with the source before it asks
  whether the index is whole (`OpenIndex`). Only an unreadable or unfinished
  index is built again: a source edited after its first manifest is
  `SourceChanged` in every later attempt, and `Changed` excuses that in
  `Finishes`. A ledger a crash left unreadable is `Unusable`; a task does not
  recover from it by itself.
- `FileTasks`: the handle is called by the user interface and by the loop that
  receives; the worker runs one task after the other; a task's body is one
  exchange.
- `HostLifecycle`, `ControllerConnection`: the lock is fair, so its queue is
  part of the state; a command's steps are the statements between awaits, and
  what runs without the lock (`request_stop`, a lookup, the first store of a
  pause, a worker's end) is not in the queue. A worker's network exchange is
  taken to last longer than the last statements of the `start` that spawned it
  (`Acts`).
- `EndControl`: the click, the handle's stream and request, the session that
  answers, the supervisor and a controller that comes back by itself.
- `AccountSession`: operations are numbered by the user interface, their
  commands run concurrently, requests to the service may be late, lost, or
  answered after the client gave up.

## What the runs check

The parts of DeskLink share no state that the models keep, beyond what the
refinements say, so several of them are checked in one run: the `MC` module of
the run EXTENDS one component, takes the others with INSTANCE, and a variable
`component`, chosen at the beginning, says whose behaviour it is; the others
rest. So a run explores the union of the state spaces, not their product, and
what it says of each component is what a run of that component alone would say.
In a run that checks liveness the fairness of a component stands as the
antecedent (`X!Fairness => X!Live`), because only the one that moves is fair.
A part that appears twice (`Durable`, `Moved`, `Paired`, `Burst`) is the same
component with other bounds, on the same variables.
`relay_traffic` checks `InTurnSpec`, in which connections join in one order: no
definition tells two of them apart before they join, the source of the
datagrams excepted, which joins whenever it does. The theorems
are about `TrafficSpec`, without that order.

A property of a run is the conjunction of the component's named properties,
each with its comment in the component's module; the table names them.

| Run | Instance | Property | Of what it is made |
|---|---|---|---|
| `relay_replacement` | 3 connections, 2 participants, 1 session, 1 device | `MembersHold` | `TypeOK` `NoResidue` `DisplacedIsClosed` `DirectoryNamesGuard` `MembershipExclusive` |
| | | `SlotsKept` | `RoleIsKept` `DirectorySlotIsKept` |
| `relay_sessions` | 3 connections, 2 sessions of which 1 fits, 2 authentications | `TablesHold` | `TablesAgree` `TableLimits` |
| | | `ImplementsRoleSlots` | the membership implements `RoleSlots` |
| `relay_traffic` | lookups: 2 of 2 keys, room for 1, 3 instants | `DirectoryBounded` | `TypeOK` `AttemptsBounded` `OvershootBounded` |
| | | `RefusalIsEarned` | itself |
| | forwarding: 3 connections, 1 stream of 2 messages; 2 connections, 2 streams, stream limit 1 | `ForwardedToPeer` | `TypeOK` `AddressedDelivery` `HostStreamBound` `InOrderOnce` `PairedDelivery` `NoOrphanForwarder` |
| | media: 3 connections, 2 datagrams; 2 connections, 3 datagrams; a queue of 1 | `DatagramsToPeer` | `TypeOK` `NeverReaddressed` `QueuedForPeer` `LaneOrder` `LaneBudget` |
| `relay_live` (fair) | membership: 3 connections, 2 admissions, 1 rejection slot | `AdmissionAccounting` | itself |
| | | `DisplacedEnd` | `DisplacedLeaves` |
| | | `StopEnds` | `StopDrains` |
| | forwarding and media: 2 connections, 1 stream, 2 datagrams | `TrafficSettles` | `ForwardingSettles` `NothingLingers` |
| `session_paths` | lane: 2 messages, 2 LAN connections, a queue of 1 | `NoBacklogBehindDirect` | itself |
| | | `LaneSpec` | `SessionDataPlane` implements `ReliableLane` |
| | switch: one candidate | `SwitchIsAgreed` | `AttachNeedsBoth` `RetiredProbeIsHarmless` |
| | direct path: all of it, no bound | `SlotIsTruth` | `PlaneFollowsSlot` `NothingAfterStop` `DirectHasPath` |
| | | `LateFailureHarmless` | itself |
| | client: 2 peers, 1 or 2 messages, lanes of 2 | `PeersKeptApart` | `KeepsOrder` `KeepsPeers`; `StaysBound` `Ascends` |
| `host_streams` | input: 1 key, 2 displays, 2 layouts, 1 change, 1 selection, 3 inputs, 1 refusal | `InputOfItsEpoch` | `TypeOK` `NoKeyOutlivesItsEpoch` `SelectingHoldsNothing` `MappedAsSeen` |
| | | `EpochsKeptApart` | `OldReleaseSparesNewPress` `EndedStaysEnded` |
| | restriction: 2 classes, 4 inputs | `RestrictionIsTrue` | `RestrictionIsEarned` `RestrictionIsNotHidden` |
| | configuration: serials up to 15 before they wrap, 2 displays, 3 messages | `ConfigurationAgrees` | `SettledIsTold` `SettledIsWanted` `RateFitsPreset` `RateKnown` `SelectionGate` |
| | | `OldestFirst` | itself |
| | video: 1 change, 1 congestion; 2 configurations, 1 change of path | `Decodable` | itself |
| `streams_live` (fair) | lane: 2 messages, 1 LAN connection | `SentArrives` | itself |
| | switch, direct path: as above | `PathsSettle` | `ControllerFollows` `FallsBack` |
| | client: 2 peers, 1 message a stream, lanes of 2; a host | `PeersAreServed` | `HelloHeard` `SessionEnds` |
| | video: 1 change; 1 change of path and 1 congestion | `VideoRecovers` | `Recovers` |
| | input: 1 input, 1 layout; configuration: 2 messages | `InputReopens` | `InputReopens` `GateOpens` |
| `files` | a file of 2 blocks, 5 disturbances | `PartIsProved` | `TypeOK` `AckIsDurable` `RecordsProveData` |
| | | `ConfirmedLasts` | itself |
| | | `DeliverySpec` | `FileEntry` implements `FileDelivery` |
| | tasks: 2 tasks, 3 requests, 3 clicks, queues of 2 | `TasksAgree` | `TypeOK` `RunningIsActive` `WithdrawnStaysOut` `CancelledSelectionCloses` |
| `applications` | controller: 2 hosts, 3 commands, 1 repeated lookup | `ControllerAlone` | `TypeOK` `CancelLeavesNothing` `OneSession` `InputHasSession` `StatusHasOwner` `ForgottenIsNotSaved` |
| | host: 3 commands, 6 workers, 1 end of the application; 3 sessions, 2 clicks | `HostKeepsPause` | `PauseHolds` `PauseIsKept` `NoStrayWorker` `SharingHasWorker`; `ConfirmedEnds` |
| | account: 2 users, 3 operations, 3 sessions, 1 failing write, 1 crash | `AccountKept` | `TypeOK` `Retained` `ShownIsStored` |
| | | `AccountOwned` | `LogoutSpares` `NewestOwns` |
| `tasks_live` (fair) | a file of 2 blocks, 2 disturbances; 2 tasks, 2 requests, 2 clicks | `TransfersEnd` | `Finishes` `TasksEnd` |
| | | `CancelReachesPeer` | itself, without the timeouts |
| | host: 2 commands, 4 workers; controller: 1 host, 3 commands; 3 sessions, 2 clicks | `CommandsEnd` | `CommandsReturn` (both) `EndAnswered` |
| `relay_expiry` (fair) | 2 connections, 2 sessions | `ExpiryCloses` (violated) | finding 1 |
| `relay_rebind` | 3 connections, 1 stream of 3 messages | `StreamsNeverRebind` (violated) | finding 2 |

**Why these bounds are enough.** Three connections are a holder, the one that
displaces it, and a third that displaces that one or arrives in between;
connections are spent once, so each also stands for "a later one". Two
participants tell a resume from an intrusion, two sessions with room for one
make the session limit bite, and one device is contended by all. The limit of
connections bites in `relay_live`, where two of the three are admitted at a
time; in `relay_sessions` it does not (`LimitsHold` proves it for any). Two messages
of a stream are the one that binds it and one that is retried; three datagrams
fill a queue of one, with one in flight and one too many. Three instants hold a
window of two, the end of the one before it and a lookup that goes by an old
clock. The bounds that are not in the code are `MaxMessages`, `MaxDatagrams`,
`MaxTime` (the clock) and `MaxMisses` (failures of a key per instant).

Of the client modules: two messages and two LAN connections let a lane go to
the LAN, back and to a second LAN with a message on either side of a move. Two
peers are an old and a new one, two messages a disconnect and what precedes it.
Two frame slots and two packets a keyframe make eviction, partial loss and
reordering happen; the bounds on changes, moves and congestion are what one
picture needs for each of them. Fifteen is room for the serials of all messages
on either side of the wrap (the serial starts at zero or just before its
maximum). One key suffices because keys do not interact; two layouts of two
displays give a change that moves a pointer and one that only renames. Two
blocks are a confirmed and an unconfirmed one, five disturbances a crash in
each of two attempts and something in between. Two tasks and three clicks are a
start, a cancel and a retry, with another task in the queue. Three commands are
one that holds the lock, one that waits and one that runs without it; the
bounds on workers leave none unspawned. Two users, three operations and their
sessions let a login supersede a login that superseded one. `Budget`, `Clicks`,
`Messages`, `Transit` and the constants called `Max...` are bounds that are not
in the code.

**Fairness.** Each formula `Fairness` lists the steps that need no client: a
runnable tokio task runs, an await with a deadline ends, a loop that polls the
mutex or the map between releases finds it free (strong fairness: the critical
sections do not block), a write to a closed transport fails, queued deadlines
pass. Nothing makes a client join, leave, read or grant credit, nor a session
expire. `PeerUnavailable` is strongly fair because the 5 s deadline of a
message stays due however often the loop looks again.

In the client modules: local tasks run, a call with a time limit ends, a
message on a reliable lane arrives while its connection lives, a disk operation
returns. Users, peers, losses, refusals and ends of connections are never fair.
What needs more than that: `FileTasks` has `PromptSpec` without the response
timeouts and `FairSpec` with them; in `HostInput` what can be built is built in
the end (strong fairness of the capture's polls, of preparing and of the
control loop's commands); in `ControllerConnection` nothing makes a worker
notice its cancellation, the five seconds after which it is aborted do; in
`VideoStream` a request's answer is encoded and sent, and a keyframe that was
lost, cut short or passed over in the queue excuses `Recovers`.

`CHECK_DEADLOCK FALSE` in every run: connection ids, messages, commands and
disturbances are spent, so each small instance stops when all have been used;
the fair runs check that what should end does.

## What is proved

`RelayMembership_proofs` proves, for any finite set of connections and
sessions and any participants, devices and limits:

- `TypeCorrect`, `AdmissionIsAccounted`, `Exclusion`, `NoTrace`, `Agreement`,
  `DirectoryIsOwned`, `DisplacementCloses`, `LimitsHold`: every safety
  invariant the membership runs check;
- `RolesAreKept`, `DirectorySlotsAreKept`, `AuthenticationsAreKept`: its three
  action properties;
- `MembershipHolds`, `SlotsAreKept`, `TablesStayTogether`: the conjunctions of
  these that the runs check.

It also proves `MembershipImplementsSlots`: the membership model implements
`RoleSlots`. So the roles and the participants map change
under `RelayForwarding` and `RelayDatagrams` as they do in the relay, whatever
the number of connections and sessions. One lemma per action names the step of
`RoleSlots` it is (`AttachTakes`, `DetachVacates`, `EnlistLists`, ...). They
rest on `PendingRemoval` and `HolderPhase` of the invariant below; of the
transport of a connection that departs nothing is assumed.

`RelayForwarding_proofs` proves, for any connections and sessions, any finite
set of streams and any limits, each conjunct of `ForwardedToPeer`:
`StreamTypes`, `AddressedStays`, `HostStaysBound`, `OrderIsKept`,
`PeersWerePaired` and `NoneForwardsAlone`. `RelayDatagrams_proofs` proves, for
any connections, sessions, channels and capacities and any number of datagrams,
each conjunct of `DatagramsToPeer`: `DatagramTypes`, `AddressKept`,
`PeerAtDequeue`, `ChannelOrder` and `ChannelBudget`. Both modules take the
environment of `JoinedTasks`, in the steps `RoleSlots` allows, which is what
`MembershipImplementsSlots` shows the membership to do.

`RelayTraffic_proofs` puts these together, for any constants of the run's
instances, to `StreamsReachTheirPeer` and `DatagramsReachTheirPeer`, the
properties as the run checks them. It also proves of the directory, for any
number of keys and concurrent lookups, `LookupTypes`, `TableIsBounded` and
`OvershootIsBounded`, together `DirectoryStaysBounded`, and
`RefusalStaysEarned`: a lookup that is refused has at least the limit of
failures of its own key behind it, within the window.

`SessionPaths_proofs` proves

- of a lane, for any number of messages and of LAN connections, any capacity of
  the receiver and both kinds of lane: `NothingOvertakes` (nothing is left on
  the relay when a message goes by the LAN) and `LaneImplementsReliable` (every
  step is `Give`, `Deliver`, `AnswerRelay`, `AnswerDirect`, `Fail`, `Break` of
  `ReliableLane` or a stutter);
- of the agreement on a LAN connection: `SwitchStaysAgreed`;
- of the direct path for video: `SlotStaysTrue` and `LateFailureIsHarmless`;
- of a participant on the relay, for any number of peers, of messages and of
  places in a lane: `PeersStayApart`, for `next_event` and for a host.

`HostStreams_proofs` proves

- of the input, for any keys, displays, layouts and bounds: `Typing`,
  `KeysOfTheEpoch`, `NothingHeldSelecting`, `ReleasesOwnPress`, `EndIsFinal` and
  `PositionsAsSeen`, together `InputStaysOfItsEpoch` and `EpochsStayApart`;
- of refused input, for any classes and any number of inputs:
  `RestrictionStaysTrue`;
- of the choices, for any displays and any number of messages that the counter
  outlasts: `ConfigurationStaysAgreed` and `OldestGoesFirst`;
- of the video, for any bounds on changes, moves and congestion: `OnlyDecodable`.

`Files_proofs` proves, for any number of blocks and of disturbances,
`PartStaysProved`, `ConfirmedIsKept` and `TransferDelivers`: acknowledged
blocks survive crashes and are proved by their records, no step gives a
confirmed block up but for the reasons `ConfirmedLasts` names, and the exchange
over all attempts implements `FileDelivery`. `TasksStayAgreed` is about the
tasks around it, for any tasks, requests, clicks and sizes of the queues: the
task a worker runs is the active one, and what was withdrawn or cancelled does
not come back.

`Applications_proofs` proves

- of the controller, for any number of commands, hosts and repeated lookups:
  `ControllerStaysAlone`;
- of the host, for any number of commands, workers and ends of the application,
  and of sessions and clicks of an end of control: `HostStaysPaused`;
- of the account, for any users, sessions, operations, failing writes and
  crashes: `ConfirmedAccountIsKept` and `NewestAccountOwns`.

So every safety property that a passing run checks is stated by a theorem. A
theorem about a component that its run instantiates is about the run's own
specification (`PathsSpec`, `StreamsSpec`, ...) with its constants left open:
the part that moves takes the component's steps, and the parts at rest keep
what their initial state gives them.

The assumptions are the named `ASSUME`s of the modules, each evaluated by TLC:
the "no such thing" values are none of the things, connections and sessions are
finite sets, the limits are positive; displays and layouts are not empty; a file
has at least one block, and the receiver of a lane room for one message. The
bounds of the `MC` modules are numbers, with at least one peer (`PathsBounds`),
session and operation (`ApplicationsBounds`), tasks and requests that are not
the value for none (`TasksBounds`), and a counter of choices that does not come
round within the messages of a session (`StreamsBounds`): a message requests at
most four serials, of `u64` in the code (`configuration_queue.rs`).
`RelayForwarding` and `RelayDatagrams` are instantiated, not extended, by the
runs; there the assumptions are the antecedents `ForwardingConstants` and
`DatagramConstants` of the theorems, and `MCRelayTraffic` assumes them of its
four instances (`TrafficConstants`). Its instances are of the proof modules, so
that the theorems can be cited.

**The inductive invariant of the membership.** None of the properties is inductive alone. `IInv`
says, by the phase each task is in, which maps may name its connection:
a role is held from `AttachSession` to `DetachSession` (`HolderPhase`), the
participants map lists it from `EnlistParticipant` to `RemoveParticipant`
(`ListedPhase`), a holder is listed unless its own join is about to list it
(`HolderListed`), what a join or sweep is about to delist holds no role any
more (`PendingRemoval`), and a directory slot that was found free stays so
until it is published (`SlotReserved`). All of these rest on
`MembershipExclusive`: whoever is inside a section owns the mutex, so no other
task moves between its steps. One lemma per conjunct has one step per action;
the lemmas about the table (`AttachAdmitted`, `DetachEffect`, `ExpireEffect`)
say once what the table operators do to the holders. `TableLimits` needs
cardinalities and is proved on top of `IInv`; TLC checked `IInv` first.

**The inductive invariant of the streams.** `IInv` of `RelayForwarding_proofs`
says of each stream that its source has joined and is served while the task
lives (`Owned`), that the peer in hand was paired with the source since the
message was read and fits the destination the stream is bound to (`InHand`),
that what was written is older than the message in hand (`Older`) and, for a
host, went where the stream is still bound (`Bound`). The four properties about
what was written follow from a look at the step that writes; the others need
that a step of the environment gives a place to connections that join and takes
none away (`Placed`, `EnvironmentKeeps`).

**... of the datagrams.** Wherever a datagram is, in the queue, in hand or
sent, it is the one that arrived, with the peer it was bound to (`Kept`). What
was sent is older than what is in hand, which is older than the queue, which is
older than what is bound next (`InOrder`): `LaneOrder` alone is not inductive,
because it does not say what the worker may take next.

**... of the lookups.** The size of the table needs only what pruning leaves
(`PrunedTable`). That a key exceeds its limit by no more than the lookups that
run at once needs its failures counted together with the lookups that may still
add one (`OvershootAccounted`). A refusal is earned because the count a record
holds never exceeds the failures told since the record's window began
(`FailuresAccounted`), although a lookup that goes by an older clock may add to
it; the failures are a set, so they are compared by cardinality.

**... of the lane.** The two properties need four facts together. A fence is
sent once, for the newest connection (`Fences`): until then no trace of its
generation is on the wire, in the LAN or among the receipts. When the receiver
is asked whether it saw the fence, nothing was written after it (`Query`).
What the receiver has is a prefix of what was given, and each message on the
relay has its predecessor before it or delivered (`Prefix`). The message before
the next one is delivered, or on the relay if the next one goes there
(`Ahead`). `link` weakens both: after the relay was lost nothing behind it
arrives, and the lane is interrupted.

**... of the switch.** At most one message is under way to each end, and which it
is says where both ends are (`Handshake`, `Stages`); nothing is offered before
the probe succeeded, and a probe given up leaves no trace (`ProbeIsTrue`).

**... of the direct path.** The slot agrees with the plane only between the
steps of a task, so the invariant says for each task of the host where its
connection is (`PathIsInSlot`): one that is still open is in the slot from its
installation on, one that is retired is closed. `OfferIsFirst` and
`TasksHaveTheirs` say that the accept loop and the probe never hold the same
connection.

**... of a participant.** Of the active peer, what the caller has not taken is
there, in order: what was kept for the next session, then the lane (`Queue`), then
what the stream has not read, without a gap (`InOrder`). Of other peers only
that they are older (`NoneIsNewer`), since a lane may still hold their events.
`Durably` is about hosts, whose session begins with the hello of its peer and
leaves nothing behind that was kept; `LastHeard` about the disconnect
`next_event` holds back. To use the filter of the lane one needs the first event
of a peer; that a set of numbers has a least one follows from the pigeonhole
principle (`HasLeast`), as the induction theorems cannot be instantiated.

**... of the input.** The two invariants about keys are inductive together
(`Gate`). `EndIsFinal` needs that a closed mapping is invalidated and input
suspended (`EndIsMarked`). `PositionsAsSeen` needs that every picture, the
controller's picture and every message on its way is of an epoch not newer than
the mapping's, with the mapping's geometry if it is the same epoch
(`MediaFollow`, `PicturesFit`), and that the geometry changes only with the
epoch (`MappingMoves`).

**... of the other streams.** The counter of a class is the length of its last
run of refusals for one reason (`CountIsRun`), so three make a restriction and
less do not. A choice applied too late to count has another of its kind behind
it (`LateIsFollowed`): until that is told, the host's belief may differ from the
encoder, and then not (`FreeIsTold`). A preset chosen by hand waits, is applied or
has been tried (`WishIsKept`). The policy of the bitrate knows what is in use and
what it asked for as long as it is enabled (`PolicyKnows`). Choices keep their
order because a younger choice has a smaller age by `wrapping_sub` and no age
exceeds the serials of the messages since (`OrderInv`). While no keyframe is
awaited, the last frame accepted is the one decoded, of the configuration in
use (`ChainIsShown`): all the decoder's chain needs, whatever the lanes and
assemblers hold.

**... of the file.** Nine conjuncts. An entry is on its way only while both
sides are at the start (`Opening`), and two messages are under way only when
one side gave up and its farewell is the last of them (`Traffic`): from these
follows that an answer is always to the question of the sender's phase. Each
phase of the receiver says what is on disk and how much of it is synced
(`Shelf`); every record is of a synced block, or torn by a crash and not opened
since (`Proofs`); what the sender counts as acknowledged, or will once it reads
its messages, is synced in the ledger (`Acked`); everything that names a
content names one the source had (`Roots`), and a good result follows the
publication (`Heard`). TLC checked it with 2 blocks and 5 disturbances and with
3 and 3 before it was proved.

**... of the tasks.** A worker's task is the handle's active one while it runs
(`WorksOn`), and a task that answers a request is active while none is pending
(`Answering`). A withdrawn request is not pending again because every click asks
a new one (`AskedOnce`).

**... of the controller.** What makes two commands safe is the lock together
with the generations. Whoever is past the wait is at the head of the queue, and
each waits in it once (`Queued`), so at most one command stops, spawns or tidies
up (`OneHolder`). While it does, the slot is empty (`Slotted`), and a task that
still runs is in the slot, about to be, awaited, or was aborted before it
reached the relay (`Workers`). A cancel that has waited for its task therefore
leaves tasks of later commands only, and those that were aborted
(`Survivors`): from this follow `CancelLeavesNothing` and, because a later
connect asked for the device, `ForgottenIsNotSaved`. A connect stops an earlier
worker only (`Victims`), so what belongs to the current command is taken away
by a cancel alone, which says so at its end (`Input`, `Shown`). Eleven lemmas
(`CallKeeps`, `LooksKeep`, ... `WorksKeep`) say what each kind of step does
to each conjunct; `CommandsWork` and `WorkersWork` name the kind of every
action. TLC checked the invariant with 3 and 4 commands before it was proved.

**... of the host.** A command past its wait holds the lock (`LockIsHeld`), and
while it stops or prepares a worker the slot is empty and the generation is its
own (`SlotIsEmpty`): `pause` and `request_stop` store outside the lock, but
nobody spawns meanwhile. The worker in the slot is of the current generation,
and any other that still runs of an older one (`SlotIsCurrent`,
`CurrentIsInSlot`), which is `NoStrayWorker`. A pause that waits keeps the flag
up, and a resume that removed the marker took the promise back
(`StopsAreMeant`). For the end of a control: a click that was answered with yes
is for a stream that is over (`AnswerIsTrue`), because only a session's own
controller, still there, hears its denial (`NoticeIsHeard`).

**... of the account.** The operation that owns the state says by its place what
is pending, kept as previous and stored (`OwnerIsInStep`); a request is of a
place its operation has reached, and the one it waits for shows its session
(`RequestsMatch`). What a logout under way could revoke is of another user than
anything the owner holds (`LogoutsAreLate`), which is what `LogoutSpares` needs.

TLC checked each of these invariants on the run's instances before it was
proved.

## What is only model-checked

Liveness (`DisplacedLeaves`, `StopDrains`, `ForwardingSettles`,
`NothingLingers`, `SentArrives`, `ControllerFollows`, `FallsBack`, `HelloHeard`,
`SessionEnds`, `Recovers`, `GateOpens`, `InputReopens`, `Finishes`, `TasksEnd`,
`CancelReachesPeer`, `CommandsReturn`, `EndAnswered`), and the fairness it
rests on: ENABLED and induction along a behaviour are out of the prover's reach.
The two findings with a run are counterexamples TLC found. The theorems are
about the models; that a model says what the code does is for `map` and its
reader to judge.

## Findings

Where the code does something else than a doc, a comment or a test of it says.
The first two have a run each that shows it, and `PROJECT.json` quotes the line
they contradict. For the others the formula named in parentheses is in the
component's module, with the reason; TLC finds it violated under the
component's own specification with the bounds of the table above or a step
more of them.

1. **Expiry forgets who was there** (`relay_expiry`). `attach_role` drops all
   expired records (`lib.rs:362`), and so does `detach` with its own session,
   without reporting whom they contained; the next sweep finds nothing to
   close. The participants stay open, listed and without a session until they
   leave by themselves. The tests of the table state that expiry returns the
   exact connections before a re-attach (`tests/session.rs:1328`).
2. **A stream is rebound after a failed write** (`relay_rebind`). The comment
   at `lib.rs:1728` says that a source stream is never rebound to a
   replacement connection; after a failed write of a controller's
   generation-zero stream the destination is forgotten (`lib.rs:1776`) and the
   stream is opened to whoever is the host next.
3. **A candidate that expires ends the session** (`SwitchKeepsSession`). Every
   step of a switch validates the candidate again and its error ends the
   session (`runtime.rs:3618`); `docs/current-architecture-contract.md:58`
   wants every failed switch to fall back to the relay.
4. **The controller may drop the first path** (`FirstPathWins`). A
   controller that accepted the host's probe before it read the host's offer
   dials a second path and drops the first (`desklink-ffi/src/controller.rs:1151`);
   `direct_path_slot.rs:16` says the first healthy path wins.
5. **A suppressed disconnect closes its lane** (`ReplacementHeard`).
   `next_event` takes a disconnect that a replacement suppressed for the end of
   the lane (`quic.rs:717`), and the new peer is not heard on it.
6. **A disconnect is dropped with its future** (`DisconnectTold` under `DropSpec`). A
   caller whose `select!` drops `next_event` during the grace loses the
   disconnect; `quic.rs:34` says it is delivered after the grace.
7. **The picture goes back** (`NeverOlder`). The assemblers of the two lanes
   have a mark each (`desklink-ffi/src/controller.rs:928`): a late keyframe is
   shown after a newer one.
8. **Deltas overtake their keyframe** (`DeltasFollow`). They are dropped, and
   the picture stays at the keyframe although nothing was lost
   (`controller.rs:912`).
9. **An old partial frame breaks the chain** (`ChainKept`). Chunks missing
   from a frame older than the picture count as a loss (`controller.rs:961`).
10. **Two requests within a second** (`RequestsPaced`). The fallback deadline
    stays set after the request it was for (`controller.rs:641`).
11. **A refused release ends the session** (`BlockedReleaseKeepsSession`). If a
    selection's release is refused while a change of names is being published,
    the publication fails as inconsistent (`runtime.rs:1859`);
    `docs/windows-host-input-epochs.md:7` says input stays paused and the
    release is tried again.
12. **A lost session deletes a verified part** (`LostSessionKeepsPart`,
    `transfer_task.rs:2964`).
13. **A timeout discards confirmed blocks** (`OnlyUserDiscards`). A worker
    that fails sends Cancel, which the receiver takes for the user's
    (`transfer_task.rs:2117`). Of both, `transfer_task_native.rs:52` tells the
    user that receiving again continues the confirmed part.
14. **A retry is cancelled by the previous attempt** (`RetryOffers`,
    `transfer_task.rs:526`): the schedule a comment in
    `transfer_task_tests.rs:1552` suspects.
15. **A retry is not answered** (`RetryAnswered`). The answer is dropped by
    a full queue or a cancelled wire (`transfer_task.rs:2067`);
    `transfer_v14.rs:205` says a request is answered by one of two messages.
16. **A pause loses its flag** (`PauseClosesAdmission`). A resume in flight stores
    false after the pause stored true (`host.rs:483`), and a queued restart
    spawns a worker; the comment at `host.rs:445` says the flag prevents it.
    The pause itself still stops that worker when its turn comes.
17. **An end is confirmed that nobody read** (`ConfirmedWasRead`,
    `lan_session.rs:187`); a test says an unread denial is not a success.
18. **A late click pauses the next session** (`LateClickSpares`,
    `session_control.rs:75`).
19. **A superseded login revokes its successor** (`ShownIsAlive`,
    `session-service.ts:36`).
20. **A cancelled login leaves a dead session** (`CancelRestores`,
    `account.rs:132`).
21. **A crash keeps the unconfirmed session** (`UnconfirmedIsNotKept`,
    `account.rs:210`).
22. **A logout with an expired token revokes nothing** (`LogoutRevokes`,
    `account.rs:395`).
23. **A removed host comes back** (`ForgottenAsksAgain`). A cancelled connect
    writes the recent hosts it read before the removal (`controller.rs:1862`).
24. **A logout keeps the approved connection** (`LogoutClearsSaved`,
    `lib.rs:267`); `docs/account-login.md:46` says it is cleared.

## What is not modelled, and the plan

Within the modelled parts: payloads, framing bytes, log lines, counters and
QUIC itself (streams deliver in order, datagrams are handed to the transport).
Join envelopes that fail to decode are the action `GiveUp`. By module:

- `SessionDataPlane`: unreliable lanes, the shutdown of the plane's tasks.
- `RelayClient`: datagrams, the loss of the relay connection, sending, joining,
  the limit of 32 stale messages in one call.
- `DirectVideoPath`: the end of the session; `Tick`'s instants.
- `VideoStream`: encoders that buffer, the frame pacer, changes of the input
  epoch alone, the third congested frame in a row (which ends the session), the
  256 packets kept until their configuration comes, stream changes.
- `MediaConfiguration`: changes of the desktop's topology (in `HostInput`).
- `HostInput`: displays missing from a layout, partial injection, the errors of
  a capture whose topology did not change, the controller's own check of the
  context (the host refuses the same messages). `InputRestriction`: the reason
  `InvalidInput`, releases (not counted).
- `FileEntry`: `verify_entire_source`, the size and time a queued file is
  compared with before its first manifest, the part that is orphaned between its
  creation and the entry that names it. `FileTasks`: ends of sessions, pauses,
  capabilities. Directory trees and the recovery catalogue are not modelled.
- `HostLifecycle`: the approval broker, the reasons a preparation fails.
  `EndControl`: more than one controller.
- `AccountSession`: registration, verification and password mail, the host
  restarts in between, loads that fail, disabled users, other devices.
- `ControllerConnection`: renaming, the limit of five recent hosts, separate
  retry budgets, the video mailbox, commands and files within a session.

`crates/desklink-session` is not modelled: its state machine is a sequential
table that only the C handle and tests use. Platform code (capture, GPU,
encoders, audio, storage, installers), pages and Swift clients are presentation
or calls to the system; cryptography and codecs are data.

Next, in this order:

1. Directory trees of a file task and the recovery catalogue.
2. The command loops of the FFI workers and the scope of session commands.
3. The composition of `LanSwitch` with `SessionDataPlane`.
