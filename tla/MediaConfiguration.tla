------------------------- MODULE MediaConfiguration -------------------------
(***************************************************************************)
(* The configuration of the host's capture and encoder                     *)
(* (configuration_queue.rs and receive_host_control).  The controller      *)
(* chooses a display, a video quality and a profile, and its feedback lets *)
(* the host adapt the bitrate or the quality.  The control loop keeps the  *)
(* last choice of each kind and gives the capture worker one operation at  *)
(* a time; a choice may be replaced while it is applied.  Bitrates are     *)
(* given by their order; the counters of the feedback are left out, and so *)
(* are changes of the desktop's topology.                                  *)
(***************************************************************************)
EXTENDS Naturals, FiniteSets

CONSTANTS
  MaxSerial, \* u64::MAX
  Displays,  \* the ids of the displays
  Messages   \* messages of the controller

VARIABLES
  queue,     \* ConfigurationQueue: serial, latest, pending
  work,      \* pending_configuration: the operation, and its result
  capture,   \* the worker's quality, profile, bitrate and display
  wanted,    \* the preference for quality, and the preset known to be applied
  rate,      \* AdaptiveBitrate: current, pending, disabled
  selecting, \* selection_pending: input waits for the display
  told,      \* the quality and the display the controller was told last
  asked,     \* history: when the last choice of each kind was made
  missed,    \* history: the last change of quality that was tried failed
  messages

vars == <<queue, work, capture, wanted, rate, selecting, told, asked, missed, messages>>

Kinds == {"display", "quality", "profile", "bitrate"}
Presets == {"smooth", "balanced", "sharp"}
Profiles == {"main", "high"}
Nothing == [serial |-> 0, kind |-> "none", value |-> "none"]

\* The floor and the ceiling of a preset's bitrate.
Floor == [smooth |-> 1, balanced |-> 2, sharp |-> 4]
Ceiling == [smooth |-> 2, balanced |-> 3, sharp |-> 5]
Fits(bitrate, preset) == bitrate \in Floor[preset]..Ceiling[preset]

\* What a session begins with.
Captures == [quality : {"sharp"}, profile : Profiles, bitrate : {5}, display : Displays]

Init ==
  /\ \E serial \in {0, IF MaxSerial > 2 THEN MaxSerial - 2 ELSE 0} :
       queue = [serial |-> serial, latest |-> [k \in Kinds |-> 0],
                pending |-> [k \in Kinds |-> Nothing]]
  /\ work = [op |-> Nothing, applied |-> FALSE, ok |-> FALSE]
  /\ capture \in Captures
  /\ wanted = [preference |-> "automatic", preset |-> "sharp"]
  /\ rate = [current |-> 5, pending |-> 0, disabled |-> FALSE]
  /\ selecting = FALSE
  /\ told = [quality |-> "sharp", display |-> capture.display]
  /\ asked = [k \in Kinds |-> 0] /\ missed = FALSE
  /\ messages = Messages

-----------------------------------------------------------------------------
(* ConfigurationQueue                                                      *)

NextSerial(q) == IF q.serial = MaxSerial THEN 1 ELSE q.serial + 1

Request(q, kind, value) ==
  LET serial == NextSerial(q) IN
  [serial |-> serial,
   latest |-> [q.latest EXCEPT ![kind] = serial],
   pending |-> [q.pending EXCEPT ![kind] = [serial |-> serial, kind |-> kind, value |-> value]]]

InvalidateKind(q, kind) ==
  LET serial == NextSerial(q) IN
  [serial |-> serial,
   latest |-> [q.latest EXCEPT ![kind] = serial],
   pending |-> [q.pending EXCEPT ![kind] = Nothing]]

Waiting(q) == {k \in Kinds : q.pending[k] # Nothing}

\* wrapping_sub, in a range that has 0 as well.
Age(q, k) == (q.serial + MaxSerial + 1 - q.pending[k].serial) % (MaxSerial + 1)

\* Fault: by the serials themselves.
OldestSerial(q) ==
  CHOOSE k \in Waiting(q) :
    \A j \in Waiting(q) : q.pending[k].serial <= q.pending[j].serial

Oldest(q) == CHOOSE k \in Waiting(q) : \A j \in Waiting(q) : Age(q, j) <= Age(q, k)

IsCurrent(q, op) == q.latest[op.kind] = op.serial

-----------------------------------------------------------------------------
(* The control loop.                                                       *)

Rejected(r) == [r EXCEPT !.disabled = TRUE, !.pending = 0]

\* queue_media_configuration
QueueMedia(q, kind, value) == Request(InvalidateKind(q, "bitrate"), kind, value)

Receives ==
  /\ messages > 0 /\ messages' = messages - 1
  /\ UNCHANGED <<work, capture, told, missed>>

Asks(kind) == asked' = [asked EXCEPT ![kind] = Messages + 1 - messages]

SelectDisplay(display) ==
  /\ Receives /\ Asks("display")
  /\ selecting' = TRUE
  /\ queue' = Request(queue, "display", display)
  /\ UNCHANGED <<wanted, rate>>

\* "Reassert the applied tier even for Automatic/same-tier choices"
SetVideoQuality(preference) ==
  /\ Receives /\ Asks("quality")
  /\ wanted' = [wanted EXCEPT !.preference = preference]
  /\ rate' = Rejected(rate)
  /\ queue' = QueueMedia(InvalidateKind(queue, "quality"), "quality",
                         IF preference = "automatic" THEN wanted.preset ELSE preference)
  /\ UNCHANGED selecting

SetVideoProfile(profile) ==
  /\ Receives /\ Asks("profile")
  /\ rate' = Rejected(rate)
  /\ queue' = QueueMedia(queue, "profile", profile)
  /\ UNCHANGED <<wanted, selecting>>

\* configuration_blocks_bitrate
BlocksBitrate ==
  \/ Waiting(queue) \cap {"quality", "profile"} # {}
  \/ work.op.kind \in {"quality", "profile"}

\* Fault: the preference is not looked at.
FeedbackAlways ==
  /\ Receives
  /\ ~BlocksBitrate
  /\ \E next \in Presets \ {wanted.preset} :
       /\ rate' = Rejected(rate)
       /\ queue' = QueueMedia(queue, "quality", next) /\ Asks("quality")
  /\ UNCHANGED <<wanted, selecting>>

\* VideoNetworkFeedback: another bitrate, or another preset.
Feedback ==
  /\ Receives
  /\ ~BlocksBitrate /\ wanted.preference = "automatic"
  /\ \/ \E b \in Floor[wanted.preset]..Ceiling[wanted.preset] \ {rate.current} :
          /\ ~rate.disabled /\ rate.pending = 0
          /\ rate' = [rate EXCEPT !.pending = b]
          /\ queue' = Request(queue, "bitrate", b) /\ Asks("bitrate")
     \/ \E next \in Presets \ {wanted.preset} :
          /\ rate' = Rejected(rate)
          /\ queue' = QueueMedia(queue, "quality", next) /\ Asks("quality")
  /\ UNCHANGED <<wanted, selecting>>

\* pop_next and start_configuration
Start ==
  /\ work.op = Nothing /\ Waiting(queue) # {}
  /\ LET k == Oldest(queue) IN
     /\ work' = [op |-> queue.pending[k], applied |-> FALSE, ok |-> FALSE]
     /\ queue' = [queue EXCEPT !.pending = [@ EXCEPT ![k] = Nothing]]
  /\ UNCHANGED <<capture, wanted, rate, selecting, told, asked, missed, messages>>

\* reset_to_actual
Reset(preset) ==
  [current |-> capture.bitrate, pending |-> 0, disabled |-> ~Fits(capture.bitrate, preset)]

\* record_applied, or rejected.
RecordBitrate ==
  IF ~work.ok THEN Rejected(rate)
  ELSE IF rate.pending = 0 \/ rate.disabled THEN rate
  ELSE IF ~Fits(capture.bitrate, wanted.preset) THEN Rejected(rate)
  ELSE [rate EXCEPT !.current = capture.bitrate, !.pending = 0]

Completes(kind) ==
  /\ work.applied /\ work.op.kind = kind /\ IsCurrent(queue, work.op)
  /\ work' = [op |-> Nothing, applied |-> FALSE, ok |-> FALSE]
  /\ UNCHANGED <<queue, capture, asked, missed, messages>>

CompleteStale ==
  /\ work.applied /\ ~IsCurrent(queue, work.op)
  /\ work' = [op |-> Nothing, applied |-> FALSE, ok |-> FALSE]
  /\ UNCHANGED <<queue, capture, wanted, rate, selecting, told, asked, missed, messages>>

CompleteDisplay ==
  /\ Completes("display")
  /\ selecting' = (selecting /\ "display" \in Waiting(queue))
  /\ told' = [told EXCEPT !.display = capture.display]
  /\ UNCHANGED <<wanted, rate>>

CompleteQuality ==
  /\ Completes("quality")
  /\ wanted' = [wanted EXCEPT !.preset = capture.quality]
  /\ rate' = Reset(capture.quality)
  /\ told' = [told EXCEPT !.quality = capture.quality]
  /\ UNCHANGED selecting

CompleteProfile ==
  /\ Completes("profile")
  /\ rate' = Reset(wanted.preset)
  /\ UNCHANGED <<wanted, selecting, told>>

CompleteBitrate ==
  /\ Completes("bitrate")
  /\ rate' = RecordBitrate
  /\ UNCHANGED <<wanted, selecting, told>>

-----------------------------------------------------------------------------
(* The capture worker.  A change that fails leaves what was.               *)

\* The encoder may be created with the main profile only.
Configured(op, mainOnly) ==
  [quality |-> IF op.kind = "quality" THEN op.value ELSE capture.quality,
   profile |-> IF op.kind = "bitrate" THEN capture.profile
               ELSE IF mainOnly THEN "main"
               ELSE IF op.kind = "profile" THEN op.value ELSE capture.profile,
   bitrate |-> IF op.kind = "quality" THEN Ceiling[op.value]
               ELSE IF op.kind = "bitrate" THEN op.value ELSE capture.bitrate,
   display |-> IF op.kind = "display" THEN op.value ELSE capture.display]

Apply ==
  LET op == work.op IN
  /\ op # Nothing /\ ~work.applied
  /\ \E ok \in BOOLEAN, mainOnly \in BOOLEAN :
       /\ work' = [op |-> op, applied |-> TRUE, ok |-> ok]
       /\ missed' = IF op.kind = "quality" THEN ~ok ELSE missed
       /\ capture' = IF ok THEN Configured(op, mainOnly) ELSE capture
  /\ UNCHANGED <<queue, wanted, rate, selecting, told, asked, messages>>

-----------------------------------------------------------------------------
Controller ==
  \/ \E d \in Displays : SelectDisplay(d)
  \/ \E p \in Presets \union {"automatic"} : SetVideoQuality(p)
  \/ \E p \in Profiles : SetVideoProfile(p)
  \/ Feedback

Completion == CompleteStale \/ CompleteDisplay \/ CompleteQuality \/ CompleteProfile \/ CompleteBitrate
Next == Controller \/ Start \/ Completion \/ Apply
Spec == Init /\ [][Next]_vars

\* The loop and the capture worker run.
Fairness == WF_vars(Start) /\ WF_vars(Completion) /\ WF_vars(Apply)
FairSpec == Spec /\ Fairness

-----------------------------------------------------------------------------
TypeOK ==
  /\ queue.serial \in 0..MaxSerial
  /\ \A k \in Kinds : queue.pending[k] = Nothing \/ queue.pending[k].serial \in 1..MaxSerial
  /\ capture.quality \in Presets /\ capture.profile \in Profiles /\ capture.display \in Displays
  /\ wanted.preset \in Presets
  /\ selecting \in BOOLEAN

Settled == work.op = Nothing /\ Waiting(queue) = {}

\* Once all choices are applied, what the host believes and what it told the
\* controller is what its encoder does, whichever completions came too late to
\* count (is_current): "A late manual completion then cannot overwrite the
\* user's newer automatic preference".
SettledIsTold ==
  Settled => told.quality = capture.quality /\ wanted.preset = capture.quality
             /\ told.display = capture.display

\* And a preset that the user chose by hand is the one in use, unless the
\* encoder could not be changed.
SettledIsWanted ==
  Settled /\ wanted.preference # "automatic" => capture.quality = wanted.preference \/ missed

\* The bitrate stays between the floor and the ceiling of the preset in use: a
\* rate that was chosen for one preset is never applied to the next
\* (AdaptiveBitrate: "Changes only bitrate inside the currently applied
\* resolution/fps preset").
RateFitsPreset == Fits(capture.bitrate, capture.quality)

\* Feedback is never judged by a bitrate that is not the one in use, but for a
\* change that is under way: a completion that came too late, or one of another
\* kind, leaves the policy with the encoder's (reset_to_actual, rejected).
RateKnown ==
  ~BlocksBitrate /\ ~rate.disabled => capture.bitrate \in {rate.current, rate.pending}

\* Input waits for a display exactly while a selection of one is under way.
SelectionGate ==
  selecting <=> (queue.pending["display"] # Nothing \/ work.op.kind = "display")

\* The choices of different kinds are applied in the order they were made in,
\* also when the serials wrap ("Compare ages rather than raw values so MAX -> 1
\* keeps FIFO order").
OldestFirst ==
  [][\A k \in Waiting(queue) :
       work.op = Nothing /\ work'.op = queue.pending[k] =>
         \A j \in Waiting(queue) : asked[k] <= asked[j]]_vars

\* Input does not wait for ever: each selection comes to an end, also when the
\* display cannot be switched to.
GateOpens == selecting ~> ~selecting
=============================================================================
