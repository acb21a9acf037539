-------------------------- MODULE InputRestriction --------------------------
(* The feedback on injected input of one session: the host counts refusals per *)
(* class of input, keeps one state for all classes, and tells the controller   *)
(* through a watch channel that holds the newest state while the control lane  *)
(* is busy (apps/windows/src/input_restriction.rs). The classes count apart:   *)
(* a pointer that works does not hide a keyboard that is refused.              *)
EXTENDS Naturals, Sequences

CONSTANTS Classes,
          MaxInputs   \* input events that are counted

VARIABLES pending,    \* per class: the refusals in a row
          active,     \* per class: the reason it is restricted for, or none
          reported,   \* the state of the session
          watch,      \* the channel: the newest state, and whether it is unread
          sending,    \* the state being sent, if the lane is busy with one
          shown,      \* the state the controller shows
          history     \* ghost: per class, what was observed since it last worked

vars == <<pending, active, reported, watch, sending, shown, history>>

\* The reasons, the gravest first.
Reasons == <<"blocked", "unsupported">>
Failures == {"blocked", "unsupported"}
States == Failures \cup {"none"}
CONSECUTIVE_FAILURE_THRESHOLD == 3

TypeOK ==
  /\ pending \in [Classes -> [reason : States, count : 0..MaxInputs]]
  /\ active \in [Classes -> States]
  /\ reported \in States
  /\ watch \in [state : States, unread : BOOLEAN]
  /\ sending \in States \cup {"idle"}
  /\ shown \in States
  /\ history \in [Classes -> Seq(Failures)]

Nothing == [reason |-> "none", count |-> 0]

Init ==
  /\ pending = [c \in Classes |-> Nothing] /\ active = [c \in Classes |-> "none"]
  /\ reported = "none" /\ watch = [state |-> "none", unread |-> FALSE]
  /\ sending = "idle" /\ shown = "none"
  /\ history = [c \in Classes |-> << >>]

\* Fault: refusals for different reasons are counted together.
CountsTogether(class, reason) ==
  [reason |-> reason, count |-> pending[class].count + 1]

Counted(class, reason) ==
  [reason |-> reason,
   count |-> IF pending[class].reason = reason THEN pending[class].count + 1 ELSE 1]

\* The gravest reason any class is restricted for.
Aggregate(restrictions) ==
  LET found == {i \in DOMAIN Reasons : \E c \in Classes : restrictions[c] = Reasons[i]}
  IN  IF found = {} THEN "none" ELSE Reasons[CHOOSE i \in found : \A j \in found : i <= j]

\* A change of the whole replaces what the channel holds.
Reports ==
  /\ reported' = Aggregate(active')
  /\ watch' = IF reported' # reported THEN [state |-> reported', unread |-> TRUE] ELSE watch

Refused(class, reason) ==
  /\ pending' = [pending EXCEPT ![class] = Counted(class, reason)]
  /\ history' = [history EXCEPT ![class] = Append(@, reason)]
  /\ IF pending'[class].count < CONSECUTIVE_FAILURE_THRESHOLD
     THEN UNCHANGED <<active, reported, watch>>
     ELSE active' = [active EXCEPT ![class] = reason] /\ Reports
  /\ UNCHANGED <<sending, shown>>

Worked(class) ==
  /\ pending' = [pending EXCEPT ![class] = Nothing]
  /\ active' = [active EXCEPT ![class] = "none"]
  /\ history' = [history EXCEPT ![class] = << >>]
  /\ Reports
  /\ UNCHANGED <<sending, shown>>

\* forward_latest_input_state: the state is marked read as it is taken.
Takes ==
  /\ sending = "idle" /\ watch.unread
  /\ sending' = watch.state
  /\ watch' = [watch EXCEPT !.unread = FALSE]
  /\ UNCHANGED <<pending, active, reported, shown, history>>

\* The control lane delivers in order.
Sent ==
  /\ sending # "idle"
  /\ shown' = sending /\ sending' = "idle"
  /\ UNCHANGED <<pending, active, reported, watch, history>>

\* The bound: no class is observed more than MaxInputs times without working.
Observable(class) == Len(history[class]) < MaxInputs

Next ==
  \/ \E class \in Classes :
       \/ Worked(class)
       \/ \E reason \in Failures : Observable(class) /\ Refused(class, reason)
  \/ Takes \/ Sent

Spec == Init /\ [][Next]_vars
Fairness == WF_vars(Takes) /\ WF_vars(Sent)
FairSpec == Spec /\ Fairness

-----------------------------------------------------------------------------
\* Since it last worked the class was refused three times in a row for one reason.
Persistent(class, reason) ==
  \E i \in DOMAIN history[class] :
    /\ i + 2 \in DOMAIN history[class]
    /\ \A j \in i..(i + 2) : history[class][j] = reason

\* A restriction is reported only while some class has been refused three times
\* in a row for that reason and has not worked since.
RestrictionIsEarned ==
  reported # "none" => \E class \in Classes : Persistent(class, reported)

\* A class that was refused three times in a row is not hidden by what works
\* elsewhere: something is reported until that class works.
RestrictionIsNotHidden ==
  reported = "none" => \A class \in Classes, reason \in Failures : ~Persistent(class, reason)

\* What the controller shows catches up with the host's state whenever the state
\* stays the same, whatever changes the channel skipped.
ShownCatchesUp ==
  \A state \in States : <>[](reported = state) => <>[](shown = state)
=============================================================================
