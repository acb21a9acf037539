---------------------------- MODULE MCHostStreams ----------------------------
(***************************************************************************)
(* What a host keeps in step with its controller, on small instances: the  *)
(* input of the controller and the displays it is meant for, the report    *)
(* that the system refuses input, the choices of the user on their way to  *)
(* the encoder, and the video stream (once with congestion, once with a    *)
(* new configuration and a change of path). A behaviour is of one          *)
(* component, chosen at its beginning, with the others at rest.            *)
(***************************************************************************)
EXTENDS HostInput

CONSTANTS
  Classes, MaxRefusals,         \* of InputRestriction
  MaxSerial, Screens, Choices,  \* of MediaConfiguration
  Assemblies, ScreenChanges, Configurations, PathSwitches, Congestions
                                \* of VideoStream

\* The counter of the configurations does not come round to itself within the
\* messages of a session.
ASSUME StreamsBounds ==
  /\ Choices \in Nat /\ MaxSerial \in Nat /\ MaxSerial > 4 * Choices

VARIABLES
  component,  \* the one this behaviour is of
  pending, active, reported, watch, sending, shown, history,
  queue, work, capture, wanted, rate, selecting, told, asked, missed,
  messages,
  forceKeyframe, encoder, videoQueue, notified, sentConfig, isDirect,
  configs, reliables, datagrams, requests, config, stash, assembler,
  continuity, grace, videoShown, videoWanted, lost, left

Restriction == INSTANCE InputRestriction WITH MaxInputs <- MaxRefusals
Media == INSTANCE MediaConfiguration WITH
  Displays <- Screens, Messages <- Choices
Video == INSTANCE VideoStream WITH
  Capacity <- Assemblies, MaxChanges <- ScreenChanges, MaxVersion <- Configurations,
  MaxSwitches <- PathSwitches, MaxCongestions <- Congestions, queue <- videoQueue,
  shown <- videoShown, wanted <- videoWanted
Moved == INSTANCE VideoStream WITH
  Capacity <- Assemblies, MaxChanges <- 0, MaxVersion <- 2, MaxSwitches <- 1,
  MaxCongestions <- 0, queue <- videoQueue, shown <- videoShown, wanted <- videoWanted

restrictionVars == <<pending, active, reported, watch, sending, shown,
                     history>>
mediaVars == <<queue, work, capture, wanted, rate, selecting, told, asked,
               missed, messages>>
videoVars == <<forceKeyframe, encoder, videoQueue, notified, sentConfig,
               isDirect, configs, reliables, datagrams, requests, config,
               stash, assembler, continuity, grace, videoShown, videoWanted,
               lost, left>>

parts == <<component, vars, restrictionVars, mediaVars, videoVars>>

StreamsInit ==
  /\ component \in {"input", "restriction", "media", "video", "path"}
  /\ Init /\ Restriction!Init /\ Media!Init
  /\ IF component = "path" THEN Moved!Init ELSE Video!Init
  /\ component # "media" => queue.serial = 0 /\ capture = CHOOSE c \in Media!Captures : TRUE
  /\ component \notin {"video", "path"} => ~isDirect

StreamsNext ==
  \/ /\ component = "input" /\ Next
     /\ UNCHANGED <<restrictionVars, mediaVars, videoVars, component>>
  \/ /\ component = "restriction" /\ Restriction!Next
     /\ UNCHANGED <<vars, mediaVars, videoVars, component>>
  \/ /\ component = "media" /\ Media!Next
     /\ UNCHANGED <<vars, restrictionVars, videoVars, component>>
  \/ /\ component = "video" /\ Video!Next
     /\ UNCHANGED <<vars, restrictionVars, mediaVars, component>>
  \/ /\ component = "path" /\ Moved!Next
     /\ UNCHANGED <<vars, restrictionVars, mediaVars, component>>

StreamsSpec == StreamsInit /\ [][StreamsNext]_parts

-----------------------------------------------------------------------------
\* A restriction is shown when a class of input is refused again and again, and
\* is not hidden by what works elsewhere.
RestrictionIsTrue == Restriction!RestrictionIsEarned /\ Restriction!RestrictionIsNotHidden

\* What the host believes, what it told the controller and what its encoder does
\* agree once all choices are applied, the bitrate is one of the preset in use
\* and never judged by another, and input waits exactly for a selection.
ConfigurationAgrees ==
  /\ Media!SettledIsTold /\ Media!SettledIsWanted /\ Media!RateFitsPreset
  /\ Media!RateKnown /\ Media!SelectionGate

\* Choices of different kinds are applied in the order they were made in.
OldestFirst == Media!OldestFirst

\* The decoder is only given what it can decode.
Decodable == Video!Decodable
==============================================================================
