---------------------------- MODULE VideoStream -----------------------------
(***************************************************************************)
(* The pictures of one session, from the encoder of the Windows host to    *)
(* the decoder of the controller (runtime.rs, desklink-video, and          *)
(* controller.rs of the FFI).  The capture thread encodes into a queue of  *)
(* two frames; the sender takes the newest and drops the other.  Keyframes *)
(* go by the reliable lane while video runs over the relay, all else by    *)
(* datagrams, which may be lost and reordered; the configuration of the    *)
(* decoder has a lane of its own.  The controller assembles each lane      *)
(* apart, presents only frames that follow the one presented before, and   *)
(* asks for a keyframe when they do not.  Left out: encoders that buffer   *)
(* their output, the frame pacer, changes of the input epoch alone, and    *)
(* the third congested frame in a row, which ends the session.             *)
(***************************************************************************)
EXTENDS Naturals, Sequences, FiniteSets, Functions

CONSTANTS
  Capacity,       \* frames in assembly (ASSEMBLY_CAPACITY)
  MaxChanges,     \* bound: changes of the screen
  MaxVersion,     \* bound: configurations of the encoder
  MaxSwitches,    \* bound: moves of video between relay and direct path
  MaxCongestions  \* bound: frames cut short by congestion

VARIABLES
  forceKeyframe, \* the flag that the next frame must be a keyframe
  encoder,       \* its last frame_id and its config_version
  queue,         \* LatestFrameQueue between capture and sender
  notified,      \* the permit of video_notify
  sentConfig,    \* HostVideoPipeline.sent_config; 0: none
  isDirect,      \* lan_session::video_is_direct
  configs, reliables, datagrams, \* on their way to the controller
  requests,      \* RequestKeyframe messages on their way to the host
  config,        \* the controller's video_config; 0: none
  stash,         \* pending_video_reliable and pending_video_datagrams
  assembler,     \* per lane: the frames in assembly, oldest first (born: the
                 \* last frame encoded when it began), and the last presented
  continuity,    \* VideoContinuity; asked: a request within the last second
  grace,         \* keyframe_fallback_deadline: off, running or over
  shown,         \* ghost: the frame handed to the decoder last
  wanted,        \* ghost: no keyframe was shown since the last request
  lost,          \* ghost: a packet or frame was lost since the last request
  left           \* what the bounds still allow

hostVars == <<forceKeyframe, encoder, queue, notified, sentConfig, isDirect>>
wireVars == <<configs, reliables, datagrams, requests>>
viewVars == <<config, stash, assembler, continuity, grace, shown, wanted>>
vars == <<hostVars, wireVars, viewVars, lost, left>>

Lanes == {"reliable", "datagram"}
Nothing == [id |-> 0, version |-> 0, key |-> FALSE]
Packet(f, c) == [id |-> f.id, version |-> f.version, key |-> f.key, chunk |-> c]
\* A keyframe is cut into two packets, a delta fits into one.
Chunks(key) == IF key THEN 1..2 ELSE {1}
Packets(f) == {Packet(f, c) : c \in Chunks(f.key)}

Init ==
  /\ forceKeyframe = TRUE /\ encoder = [id |-> 0, version |-> 1]
  /\ queue = <<>> /\ notified = FALSE /\ sentConfig = 0
  /\ isDirect \in BOOLEAN
  /\ configs = <<>> /\ reliables = <<>> /\ datagrams = {} /\ requests = 0
  /\ config = 0 /\ stash = [s \in Lanes |-> <<>>]
  /\ assembler = [s \in Lanes |-> [frames |-> <<>>, last |-> 0]]
  /\ continuity = [last |-> 0, awaiting |-> TRUE, asked |-> FALSE]
  /\ grace = "off" /\ shown = Nothing /\ wanted = FALSE /\ lost = FALSE
  /\ left = [changes |-> MaxChanges, switches |-> MaxSwitches,
             congestions |-> MaxCongestions]

Spend(what) == left[what] > 0 /\ left' = [left EXCEPT ![what] = @ - 1]

-----------------------------------------------------------------------------
(* The host.                                                               *)

PushLatest(f) ==
  queue' = IF Len(queue) < 2 THEN Append(queue, f) ELSE Append(Tail(queue), f)

\* A frame pushed out of the queue, or passed over by the sender, is lost to
\* the controller; only a keyframe may be the answer to a request.
Dropped(frames) == lost' = (lost \/ \E i \in DOMAIN frames : frames[i].key)

Encode ==
  LET f == [id |-> encoder.id + 1, version |-> encoder.version, key |-> forceKeyframe] IN
  /\ forceKeyframe' = FALSE
  /\ encoder' = [encoder EXCEPT !.id = @ + 1]
  /\ PushLatest(f) /\ notified' = TRUE
  /\ Dropped(IF Len(queue) < 2 THEN <<>> ELSE <<Head(queue)>>)
  /\ UNCHANGED <<sentConfig, isDirect, wireVars, viewVars>>

\* The desktop has changed, or a snapshot of the idle one is taken because a
\* keyframe is wanted.
CaptureChange == Spend("changes") /\ Encode
CaptureIdle == forceKeyframe /\ Encode /\ UNCHANGED left

\* Another display, preset or profile, or a recovered backend.
Reconfigure ==
  /\ encoder.version < MaxVersion
  /\ encoder' = [encoder EXCEPT !.version = @ + 1]
  /\ queue' = <<>> /\ forceKeyframe' = TRUE /\ notified' = TRUE
  /\ UNCHANGED <<sentConfig, isDirect, wireVars, viewVars, lost, left>>

HearRequest ==
  /\ requests > 0 /\ requests' = requests - 1
  /\ forceKeyframe' = TRUE
  /\ UNCHANGED <<encoder, queue, notified, sentConfig, isDirect, configs,
                 reliables, datagrams, viewVars, lost, left>>

SwitchPath ==
  /\ Spend("switches") /\ isDirect' = ~isDirect
  /\ UNCHANGED <<forceKeyframe, encoder, queue, notified, sentConfig, wireVars,
                 viewVars, lost>>

\* send_video_loop: one permit may stand for several pushes.
Wake == /\ notified /\ notified' = FALSE /\ queue' = <<>>
        /\ UNCHANGED <<encoder, isDirect, requests, viewVars>>
Newest == queue[Len(queue)]
NeedsConfig == sentConfig # Newest.version

SendNothing ==
  /\ Wake /\ queue = <<>>
  /\ UNCHANGED <<forceKeyframe, sentConfig, configs, reliables, datagrams, lost, left>>

SendNeedsKeyframe ==
  /\ Wake /\ queue # <<>> /\ NeedsConfig /\ ~Newest.key
  /\ forceKeyframe' = TRUE
  /\ UNCHANGED <<sentConfig, configs, reliables, datagrams, lost, left>>

\* The sender prepares the newest frame; its configuration goes first.
Prepared ==
  /\ Wake /\ queue # <<>> /\ (NeedsConfig => Newest.key)
  /\ sentConfig' = Newest.version
  /\ configs' = IF NeedsConfig THEN Append(configs, Newest.version) ELSE configs

PassedOver == SubSeq(queue, 1, Len(queue) - 1)

ByReliable == Newest.key /\ ~isDirect

SendReliable ==
  /\ Prepared /\ ByReliable
  /\ reliables' = reliables \o [c \in Chunks(TRUE) |-> Packet(Newest, c)]
  /\ Dropped(PassedOver)
  /\ UNCHANGED <<forceKeyframe, datagrams, left>>

\* The network loses some of the chunks.
SendDatagrams ==
  /\ Prepared /\ ~ByReliable
  /\ \E some \in SUBSET Packets(Newest) :
        /\ datagrams' = datagrams \cup some
        /\ IF some = Packets(Newest) THEN Dropped(PassedOver) ELSE lost' = TRUE
  /\ UNCHANGED <<forceKeyframe, reliables, left>>

\* Fault: nobody is told that the frame was cut short.
SendCongestedSilently ==
  /\ Spend("congestions")
  /\ Prepared /\ ~ByReliable
  /\ \E n \in 0..(Cardinality(Chunks(Newest.key)) - 1) :
        datagrams' = datagrams \cup {p \in Packets(Newest) : p.chunk <= n}
  /\ Dropped(PassedOver)
  /\ UNCHANGED <<forceKeyframe, reliables>>

\* Congestion after the first chunks: the rest is given up.
SendCongested ==
  /\ Spend("congestions")
  /\ Prepared /\ ~ByReliable
  /\ \E n \in 0..(Cardinality(Chunks(Newest.key)) - 1) :
        datagrams' = datagrams \cup {p \in Packets(Newest) : p.chunk <= n}
  /\ forceKeyframe' = TRUE
  /\ Dropped(PassedOver)
  /\ UNCHANGED reliables

Send == SendNothing \/ SendNeedsKeyframe \/ SendReliable \/ SendDatagrams \/ SendCongested

-----------------------------------------------------------------------------
(* The controller.                                                         *)

Stashed == config # 0 /\ \E s \in Lanes : stash[s] # <<>>

Ask(due) == /\ requests' = IF due THEN requests + 1 ELSE requests
            /\ lost' = (lost /\ ~due)
            /\ wanted' = (wanted \/ due)

\* A second has passed since the last request; then half a second more ends
\* the grace that a new configuration gives to its keyframe.
RetryInterval ==
  /\ continuity.asked /\ continuity' = [continuity EXCEPT !.asked = FALSE]
  /\ UNCHANGED <<hostVars, wireVars, config, stash, assembler, grace, shown, wanted, lost, left>>

GraceOver ==
  /\ grace = "running" /\ ~continuity.asked /\ grace' = "over"
  /\ UNCHANGED <<hostVars, wireVars, config, stash, assembler, continuity, shown, wanted, lost, left>>

\* timeout_at gives up only when nothing was received.
Fallback ==
  /\ grace = "over" /\ ~Stashed
  /\ grace' = "off"
  /\ Ask(continuity.awaiting)
  /\ continuity' = IF continuity.awaiting THEN [continuity EXCEPT !.asked = TRUE]
                   ELSE continuity
  /\ UNCHANGED <<hostVars, configs, reliables, datagrams, config, stash,
                 assembler, shown, left>>

ReceiveConfig ==
  /\ configs # <<>> /\ ~Stashed
  /\ configs' = Tail(configs) /\ config' = Head(configs)
  /\ continuity' = [last |-> 0, awaiting |-> TRUE, asked |-> TRUE]
  /\ grace' = "running"
  /\ UNCHANGED <<hostVars, reliables, datagrams, requests, stash, assembler,
                 shown, wanted, lost, left>>

\* Fault: a packet of another configuration is taken like any other.
CurrentAlways(p) == TRUE

Current(p) == p.version = config

\* A delta while a keyframe is awaited.
Refused(p) ==
  LET due == grace # "running" /\ ~continuity.asked IN
  /\ continuity.awaiting /\ ~p.key
  /\ continuity' = [continuity EXCEPT !.asked = @ \/ due]
  /\ Ask(due)
  /\ UNCHANGED <<assembler, grace, shown>>

\* FrameAssembler::push, its frames at that moment, and whether it threw
\* others away.
Pushed(p, s, frames, broken) ==
  LET has == {i \in DOMAIN frames : frames[i].id = p.id}
      room == IF has = {} /\ Len(frames) >= Capacity THEN Tail(frames) ELSE frames
      got == {p.chunk} \cup UNION {frames[i].got : i \in has}
      others == SelectSeq(room, LAMBDA f : f.id # p.id)
      partial == IF has = {} THEN Append(room, [id |-> p.id, got |-> got, born |-> encoder.id])
                 ELSE [room EXCEPT ![CHOOSE i \in has : TRUE].got = got]
  IN [stale |-> p.id <= assembler[s].last,
      complete |-> got = Chunks(p.key),
      frames |-> IF p.id <= assembler[s].last THEN frames
                 ELSE IF got = Chunks(p.key) THEN others ELSE partial,
      evicted |-> p.id > assembler[s].last /\ room # frames,
      broken |-> broken \/ (p.id > assembler[s].last /\ room # frames)]

Assembled(s, frames) == assembler' = [assembler EXCEPT ![s].frames = frames]

\* A frame is presented when it is a keyframe or follows the last one.
Follows(id) == continuity.last = 0 \/ id = continuity.last + 1

Presented(p, s, frames) ==
  /\ assembler' = [assembler EXCEPT ![s] = [frames |-> frames, last |-> p.id]]
  /\ shown' = [id |-> p.id, version |-> p.version, key |-> p.key]
  /\ continuity' = [last |-> p.id, awaiting |-> FALSE,
                    asked |-> continuity.asked /\ ~p.key]
  /\ grace' = "off" /\ wanted' = (wanted /\ ~p.key)
  /\ UNCHANGED <<requests, lost>>

\* A frame expires after 10 s (datagrams) or 30 s, longer than any packet is
\* on its way: what was sent before its assembly began has come or is lost.
Expires(f) == \A id \in {p.id : p \in datagrams \cup Range(reliables)
                                      \cup UNION {Range(stash[s]) : s \in Lanes}} :
                 id > f.born

\* handle_video_packet.  Frames that are too old expire first, and the first
\* chunk of an awaited keyframe discards those before it.
Assemble(p, s) ==
  LET before == assembler[s].frames
      kept == IF continuity.awaiting /\ p.chunk = 1
              THEN SelectSeq(before, LAMBDA f : f.id >= p.id) ELSE before
  IN \E n \in {k \in 0..Len(kept) : \A i \in 1..k : Expires(kept[i])} :
       LET r == Pushed(p, s, SubSeq(kept, n + 1, Len(kept)), n > 0 \/ kept # before)
           awaiting == continuity.awaiting \/ r.broken
       IN /\ continuity.awaiting => p.key
          /\ \/ /\ r.stale \/ ~r.complete
                /\ Assembled(s, r.frames)
                /\ continuity' = [continuity EXCEPT !.awaiting = awaiting]
                /\ lost' = (lost \/ r.evicted)
                /\ UNCHANGED <<grace, shown, wanted, requests>>
             \/ /\ ~r.stale /\ r.complete
                /\ p.key \/ (~awaiting /\ Follows(p.id))
                /\ Presented(p, s, r.frames)
             \/ /\ ~r.stale /\ r.complete
                /\ ~p.key /\ (awaiting \/ ~Follows(p.id))
                /\ Assembled(s, r.frames)
                /\ Ask(~continuity.asked)
                /\ continuity' = [continuity EXCEPT !.awaiting = TRUE, !.asked = TRUE]
                /\ UNCHANGED <<grace, shown>>

Foreign(p) == /\ ~Current(p)
              /\ UNCHANGED <<assembler, continuity, grace, shown, wanted, requests, lost>>

Handle(p, s) ==
  /\ \/ Foreign(p)
     \/ Current(p) /\ (Refused(p) \/ Assemble(p, s))
  /\ UNCHANGED <<hostVars, configs, config, left>>

\* The packets that came before the first configuration go first.
HandleStashed ==
  /\ Stashed
  /\ LET s == IF stash["reliable"] # <<>> THEN "reliable" ELSE "datagram" IN
       /\ stash' = [stash EXCEPT ![s] = Tail(@)]
       /\ Handle(Head(stash[s]), s)
  /\ UNCHANGED <<reliables, datagrams>>

Receive(p, s) ==
  \/ /\ config # 0 /\ ~Stashed
     /\ Handle(p, s) /\ UNCHANGED stash
  \/ /\ config = 0
     /\ stash' = [stash EXCEPT ![s] = Append(@, p)]
     /\ UNCHANGED <<hostVars, configs, requests, config, assembler, continuity,
                    grace, shown, wanted, lost, left>>

ReceiveDatagram ==
  \E p \in datagrams : /\ datagrams' = datagrams \ {p}
                       /\ Receive(p, "datagram")
                       /\ UNCHANGED reliables
ReceiveReliable ==
  /\ reliables # <<>>
  /\ reliables' = Tail(reliables)
  /\ Receive(Head(reliables), "reliable")
  /\ UNCHANGED datagrams

View == \/ RetryInterval \/ GraceOver \/ Fallback
        \/ ReceiveConfig \/ HandleStashed \/ ReceiveDatagram \/ ReceiveReliable

Next == \/ CaptureChange \/ CaptureIdle \/ Reconfigure \/ HearRequest
        \/ SwitchPath \/ Send \/ View

Spec == Init /\ [][Next]_vars

\* The threads run, the lanes deliver and the timers fire.  The screen need
\* not change again, and nothing need be lost or switched.
Fairness ==
  /\ WF_vars(CaptureIdle) /\ WF_vars(HearRequest) /\ WF_vars(Send)
  /\ WF_vars(RetryInterval) /\ WF_vars(GraceOver) /\ WF_vars(Fallback)
  /\ WF_vars(ReceiveConfig) /\ WF_vars(HandleStashed)
  /\ WF_vars(ReceiveDatagram) /\ WF_vars(ReceiveReliable)

FairSpec == Spec /\ Fairness

-----------------------------------------------------------------------------
Frames == [id : Nat, version : 0..MaxVersion, key : BOOLEAN]

\* The types, and the bounds of the queue and of the assemblers.
TypeOK ==
  /\ {forceKeyframe, notified, isDirect, lost} \subseteq BOOLEAN
  /\ encoder \in [id : Nat, version : 1..MaxVersion]
  /\ Len(queue) <= 2 /\ \A i \in DOMAIN queue : queue[i] \in Frames
  /\ sentConfig \in 0..encoder.version /\ config \in 0..sentConfig
  /\ continuity \in [last : Nat, awaiting : BOOLEAN, asked : BOOLEAN]
  /\ grace \in {"off", "running", "over"}
  /\ \A s \in Lanes : /\ Len(assembler[s].frames) <= Capacity
                      /\ \A i \in DOMAIN assembler[s].frames :
                            assembler[s].frames[i].got \in {{1}, {2}}
  /\ shown \in Frames

\* The decoder is only ever given a frame it can decode: one of the current
\* configuration, and a keyframe or the frame the encoder made right after the
\* one given before, however the lanes reorder and lose packets, and whichever
\* frames the host's queue passed over.
Decodable ==
  [][shown' # shown =>
       /\ shown'.version = config
       /\ shown'.key \/ (shown'.id = shown.id + 1 /\ shown'.version = shown.version)]_shown

\* No request is in vain: when the screen comes to rest, a keyframe was shown
\* after the last request, of the last configuration, or a packet was lost
\* since, whether the keyframe overtakes its configuration, leaves with a
\* cleared queue, or is cut short by congestion.
Recovers == <>[](lost \/ (~wanted /\ shown.version = encoder.version))

\* "After a keyframe ... the deltas that follow it are delivered again" (docs/
\* windows-0.1.58-video-continuity-recovery.md:13): when the screen comes to
\* rest and nothing was lost, the last frame encoded is the one shown.
DeltasFollow == <>[](shown.id = encoder.id \/ lost)

\* "older_frame_cannot_be_presented" (desklink-video/tests/ordering.rs:150).
NeverOlder == [][shown'.id >= shown.id]_shown

\* "A keyframe at once establishes a new starting point" (the same line): the
\* chain is cut only by a frame newer than the one shown, which is seen out of
\* turn or given up.
ChainKept ==
  [][(/\ ~continuity.awaiting /\ continuity'.awaiting
      /\ config' = config /\ stash' = stash)
     => \/ \E p \in datagrams \ datagrams' : p.id > continuity.last + 1
        \/ \E s \in Lanes : \E i \in DOMAIN assembler[s].frames :
              assembler[s].frames[i].id > continuity.last]_vars

\* "Never more than one keyframe request a second during continuous delta
\* arrival" (the continuity plan, line 142).
RequestsPaced == [][requests' > requests => ~continuity.asked]_vars
=============================================================================
