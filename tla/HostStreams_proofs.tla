-------------------------- MODULE HostStreams_proofs -------------------------
(***************************************************************************)
(* What a host keeps in step with its controller, for any number of keys,  *)
(* displays, classes of input, choices and frames: no key and no position  *)
(* crosses into a mapping it was not made for; a restriction is shown when *)
(* a class is refused again and again; what the host believes and has told *)
(* agrees with its encoder, which is given the oldest choice first; and    *)
(* the decoder is given only what it can decode.                           *)
(***************************************************************************)
EXTENDS MCHostStreams, SequenceTheorems, TLAPS


Selected == [epoch : Nat \ {0}, topology : Topologies, pending : BOOLEAN,
             invalidated : BOOLEAN, closed : BOOLEAN]
Bounds == [changes : 0..MaxChanges, selections : 0..MaxSelections,
           inputs : 0..MaxInputs, blocks : 0..MaxBlocks]
Held == pressed \subseteq Keys /\ down \in [Keys -> Nat]

-----------------------------------------------------------------------------
(* What the helpers produce. *)

LEMMA FirstTyped == First \in Topologies /\ Geometry(First) \in Geometries
  BY HostInputAssumption DEF First, Topologies, Geometry, Geometries

LEMMA GeometryTyped ==
    ASSUME NEW t \in Topologies PROVE Geometry(t) \in Geometries
  BY DEF Topologies, Geometry, Geometries

LEMMA RefreshedTyped == TypeOK => Refreshed \in Topologies
  BY DEF TypeOK, Refreshed, Topologies

(* release_all leaves nothing down that it has not kept in its list, and     *)
(* changes nothing that it has kept.                                         *)
LEMMA Releasing ==
    ASSUME Held, NEW released, ReleasesAll(released)
    PROVE  /\ Held'
           /\ \A k \in Keys : down'[k] # 0 => down'[k] = down[k] /\ k \notin released
           /\ pressed' = pressed \ released
  BY DEF Held, ReleasesAll

LEMMA Applying ==
    ASSUME Held, NEW message \in Messages, Applies(message)
    PROVE  Held'
  BY DEF Held, Applies, Messages

LEMMA Suspending ==
    ASSUME Held, selected \in Selected, NEW released, Suspends(released)
    PROVE  Held' /\ suspended' \in BOOLEAN /\ selected' \in Selected
  BY Releasing DEF Suspends, Selected

LEMMA Using ==
    ASSUME TypeOK
    PROVE  /\ used.changes < MaxChanges => [used EXCEPT !.changes = @ + 1] \in Bounds
           /\ used.selections < MaxSelections => [used EXCEPT !.selections = @ + 1] \in Bounds
           /\ used.inputs < MaxInputs => [used EXCEPT !.inputs = @ + 1] \in Bounds
           /\ used.blocks < MaxBlocks => [used EXCEPT !.blocks = @ + 1] \in Bounds
<1>1. used \in [changes : 0..MaxChanges, selections : 0..MaxSelections,
                inputs : 0..MaxInputs, blocks : 0..MaxBlocks]
  BY DEF TypeOK
<1>2. \A m \in Nat : \A n \in 0..m : n < m => n + 1 \in 0..m
  OBVIOUS
<1> QED
  BY <1>1, <1>2, HostInputAssumption DEF Bounds

-----------------------------------------------------------------------------
(* Types. *)

LEMMA TypeInit == Init => TypeOK
<1> SUFFICES ASSUME Init PROVE TypeOK
  OBVIOUS
<1>1. First.layout \in Layouts /\ First \in Topologies
  BY FirstTyped DEF Topologies
<1>2. NoFrame \in Frames
  BY FirstTyped DEF NoFrame, Frames
<1>3. selected \in [epoch : Nat \ {0}, topology : Topologies, pending : BOOLEAN,
                   invalidated : BOOLEAN, closed : BOOLEAN]
  BY <1>1 DEF Init
<1>4. wire \in Seq(Messages)
  BY DEF Init
<1>5. viewer \in [shown : Frames, held : SUBSET Keys, epoch : Nat] /\ stream \in Frames
  BY <1>2 DEF Init
<1>6. used \in [changes : 0..MaxChanges, selections : 0..MaxSelections,
               inputs : 0..MaxInputs, blocks : 0..MaxBlocks]
  BY HostInputAssumption DEF Init
<1>7. /\ os \in [layout : Layouts, names : {1, 2}] /\ media \in Geometries
      /\ blocked \in BOOLEAN /\ suspended \in BOOLEAN /\ fresh \in BOOLEAN
      /\ pressed \subseteq Keys /\ down \in [Keys -> Nat]
  BY <1>1, FirstTyped DEF Init
<1>8. /\ worker \in [at : {"top", "commands", "prepare", "publish", "frame", "stopped", "failed"},
                     recovering : BOOLEAN, next : Topologies, branch : {"poll", "select", "lost"}]
      /\ control \in [command : Displays \cup {None}, replied : BOOLEAN,
                      waiting : Displays \cup {None}]
  BY <1>1 DEF Init
<1> QED
  BY <1>3, <1>4, <1>5, <1>6, <1>7, <1>8 DEF TypeOK

LEMMA TypeNext == TypeOK /\ [Next]_vars => TypeOK'
<1> SUFFICES ASSUME TypeOK, [Next]_vars PROVE TypeOK'
  OBVIOUS
<1> USE DEF TypeOK
<1>h. Held /\ selected \in Selected
  BY DEF Held, Selected
<1>n. None \in Nat
  BY DEF None
<1>1. CASE Stops
  BY <1>1 DEF Stops, Goes
<1>2. CASE Skips
  BY ZenonT(30), <1>2 DEF Skips, Recovering
<1>3. CASE Polls
  <2>1. CASE Recovering \/ Moves(Refreshed)
    <3>1. Held' /\ suspended' \in BOOLEAN /\ selected' \in Selected
      BY <1>3, <2>1, <1>h, Suspending DEF Polls
    <3>2. worker' \in [at : {"top", "commands", "prepare", "publish", "frame", "stopped", "failed"},
                       recovering : BOOLEAN, next : Topologies,
                       branch : {"poll", "select", "lost"}]
      <4>1. worker' = [at |-> "prepare", recovering |-> TRUE, next |-> Refreshed,
                       branch |-> "poll"]
        BY <1>3, <2>1 DEF Polls
      <4> QED
        BY <4>1, RefreshedTyped
    <3> QED
      BY <1>3, <3>1, <3>2 DEF Polls, Held, Selected
  <2>2. CASE ~(Recovering \/ Moves(Refreshed))
    BY ZenonT(30), <1>3, <2>2, RefreshedTyped DEF Polls
  <2> QED
    BY <2>1, <2>2
<1>4. CASE LooksInVain
  <2>1. Held' /\ suspended' \in BOOLEAN /\ selected' \in Selected
    BY <1>4, <1>h, Suspending DEF LooksInVain
  <2> QED
    BY <1>4, <2>1, Using DEF Bounds, LooksInVain, Held, Selected, At
<1>5. CASE Prepares
  BY <1>5, GeometryTyped, FirstTyped DEF Prepares, Goes, NoFrame, Frames
<1>6. CASE FailsToPrepare
  BY ZenonT(30), <1>6, FirstTyped DEF FailsToPrepare, Leaves, After, Replies
<1>7. CASE Publishes
  <2>1. Held' /\ selected' \in Selected /\ suspended' \in BOOLEAN /\ fresh' \in BOOLEAN
    <3>1. CASE UNCHANGED <<selected, suspended, pressed, down, fresh>>
      BY <3>1, <1>h DEF Held
    <3>2. CASE \E released \in SUBSET pressed : PublishesBoundary(released)
      <4>1. PICK released : PublishesBoundary(released)
        BY <3>2
      <4>2. Held'
        BY <4>1, <1>h, Releasing DEF PublishesBoundary
      <4>3. worker.next \in Topologies
        OBVIOUS
      <4>4. CASE pressed' = {}
        <5>1. selected' = [selected EXCEPT !.topology = worker.next, !.epoch = @ + 1,
                                           !.invalidated = FALSE, !.closed = FALSE]
          BY <4>1, <4>4 DEF PublishesBoundary
        <5>2. selected.epoch + 1 \in Nat \ {0}
          BY <1>h DEF Selected
        <5>3. selected' \in Selected
          BY <5>1, <5>2, <4>3, <1>h DEF Selected
        <5> QED
          BY <4>1, <4>2, <4>4, <5>3 DEF PublishesBoundary
      <4>5. CASE pressed' # {}
        BY ZenonT(30), <4>1, <4>2, <4>5, <1>h DEF PublishesBoundary, Selected
      <4> QED
        BY <4>4, <4>5
    <3>3. CASE /\ suspended' = FALSE
               /\ selected' = [selected EXCEPT !.topology = worker.next,
                                 !.invalidated = FALSE, !.closed = FALSE]
               /\ UNCHANGED <<pressed, down, fresh>>
      BY <3>3, <1>h DEF Held, Selected
    <3> QED
      BY <1>7, <3>1, <3>2, <3>3 DEF Publishes
  <2>2. worker' \in [at : {"top", "commands", "prepare", "publish", "frame", "stopped", "failed"},
                     recovering : BOOLEAN, next : Topologies, branch : {"poll", "select", "lost"}]
    <3>1. CASE Goes("failed")
      BY <3>1 DEF Goes
    <3>2. CASE Leaves(After, ~Published)
      <4>1. Published \in BOOLEAN /\ After \in {"top", "commands"}
        BY <2>1, <1>h DEF Published, After, Selected
      <4> QED
        BY <3>2, <4>1, FirstTyped DEF Leaves
    <3> QED
      BY <1>7, <3>1, <3>2 DEF Publishes
  <2>3. control' \in [command : Displays \cup {None}, replied : BOOLEAN,
                      waiting : Displays \cup {None}]
    BY ZenonT(30), <1>7 DEF Publishes, Replies
  <2> QED
    BY <1>7, <2>1, <2>2, <2>3 DEF Publishes, Held, Selected
<1>8. CASE Selects
  <2>1. CASE worker.recovering \/ control.command = selected.topology.display
    BY ZenonT(30), <1>8, <2>1 DEF Selects, Replies
  <2>2. CASE ~(worker.recovering \/ control.command = selected.topology.display)
    <3>1. [selected.topology EXCEPT !.display = control.command] \in Topologies
      BY <1>8 DEF Selects, Topologies
    <3> QED
      BY ZenonT(30), <1>8, <2>2, <3>1, <1>h, Suspending DEF Selects, Held, Selected
  <2> QED
    BY <2>1, <2>2
<1>9. CASE Reconfigures
  BY <1>9, FirstTyped DEF Reconfigures, NoFrame, Frames
<1>10. CASE CommandsDone
  BY SMTT(30), <1>10 DEF CommandsDone, Goes
<1>11. CASE Captures
  BY SMTT(30), <1>11 DEF Captures, Goes, Frames
<1>12. CASE LosesCapture
  <2>1. Held' /\ suspended' \in BOOLEAN /\ selected' \in Selected
    BY <1>12, <1>h, Suspending DEF LosesCapture
  <2> QED
    BY ZenonT(30), <1>12, <2>1, Using, RefreshedTyped DEF Bounds, LosesCapture, Held, Selected
<1>13. CASE Receives
  <2>1. Head(wire) \in Messages /\ wire' \in Seq(Messages)
    BY <1>13, HeadTailProperties DEF Receives
  <2>2. Held'
    BY <1>13, <2>1, <1>h, Applying DEF Receives, Held
  <2> QED
    BY <1>13, <2>1, <2>2 DEF Receives, Held
<1>14. CASE Answers
  BY SMTT(30), <1>14 DEF Answers, Reopened
<1>15. CASE SessionEnds
  <2>1. Held' /\ wire' \in Seq(Messages)
    BY <1>15, <1>h, Releasing DEF SessionEnds
  <2> QED
    BY ZenonT(30), <1>15, <2>1 DEF SessionEnds, Held
<1>16. CASE Paints
  BY SMTT(30), <1>16, FirstTyped DEF Paints, NoFrame, Frames
<1>17. CASE Points \/ \E key \in Keys : Presses(key) \/ LetsGo(key)
  <2> DEFINE Message(kind, key, epoch) ==
               [kind |-> kind, key |-> key, epoch |-> epoch, seen |-> viewer.shown.geometry]
  <2>1. viewer.shown.geometry \in Geometries /\ viewer.shown.epoch \in Nat
    BY DEF Frames
  <2>2. CASE Points
    <3>1. Message("move", None, viewer.shown.epoch) \in Messages
      BY <2>1 DEF Messages
    <3>2. wire' \in Seq(Messages)
      BY <2>2, <3>1, AppendProperties DEF Points, Sends
    <3>3. used' \in Bounds
      BY <2>2, Using DEF Points, Sends
    <3>4. viewer' \in [shown : Frames, held : SUBSET Keys, epoch : Nat]
      BY <2>2, <2>1 DEF Points
    <3> QED
      BY <2>2, <3>2, <3>3, <3>4 DEF Points, Sends, Bounds
  <2>3. ASSUME NEW key \in Keys, Presses(key) PROVE TypeOK'
    <3>1. Message("press", key, viewer.shown.epoch) \in Messages
      BY <2>1 DEF Messages
    <3>2. wire' \in Seq(Messages)
      BY <2>3, <3>1, AppendProperties DEF Presses, Sends
    <3>3. used' \in Bounds
      BY <2>3, Using DEF Presses, Sends
    <3>4. viewer' \in [shown : Frames, held : SUBSET Keys, epoch : Nat]
      BY <2>3, <2>1 DEF Presses
    <3> QED
      BY <2>3, <3>2, <3>3, <3>4 DEF Presses, Sends, Bounds
  <2>4. ASSUME NEW key \in Keys, LetsGo(key) PROVE TypeOK'
    <3>1. Message("release", key, viewer.epoch) \in Messages
      BY <2>1 DEF Messages
    <3>2. wire' \in Seq(Messages)
      BY <2>4, <3>1, AppendProperties DEF LetsGo, Sends
    <3>3. used' \in Bounds
      BY <2>4, Using DEF LetsGo, Sends
    <3>4. viewer' \in [shown : Frames, held : SUBSET Keys, epoch : Nat]
      BY <2>4, <2>1 DEF LetsGo
    <3> QED
      BY SMTT(30), <2>4, <3>2, <3>3, <3>4 DEF LetsGo, Sends, Bounds
  <2> QED
    BY <1>17, <2>2, <2>3, <2>4
<1>18. ASSUME NEW display \in Displays, AsksForDisplay(display) PROVE TypeOK'
  <2>1. PICK released : Begins(released)
    BY <1>18 DEF AsksForDisplay
  <2>2. Held'
    BY <2>1, <1>h, Releasing DEF Begins
  <2>3. selected' \in Selected /\ suspended' \in BOOLEAN
    <3>1. CASE pressed' = {}
      <4>1. selected' = [selected EXCEPT !.pending = TRUE] /\ suspended' = suspended
        BY <2>1, <3>1 DEF Begins
      <4> QED
        BY <4>1, <1>h DEF Selected
    <3>2. CASE pressed' # {}
      <4>1. selected' = [selected EXCEPT !.pending = TRUE, !.invalidated = TRUE]
            /\ suspended' = TRUE
        BY <2>1, <3>2 DEF Begins
      <4> QED
        BY <4>1, <1>h DEF Selected
    <3> QED
      BY <3>1, <3>2
  <2>4. control' \in [command : Displays \cup {None}, replied : BOOLEAN,
                      waiting : Displays \cup {None}]
    BY <1>18 DEF AsksForDisplay
  <2> QED
    BY <1>18, <2>2, <2>3, <2>4, Using DEF Bounds, AsksForDisplay, Held, Selected
<1>19. CASE DisplaysChange
  <2>1. used' \in Bounds
    BY <1>19, Using DEF DisplaysChange
  <2> QED
    BY <1>19, <2>1 DEF DisplaysChange, Bounds
<1>20. CASE Blocks \/ Unblocks
  BY ZenonT(30), <1>20, Using DEF Bounds, Blocks, Unblocks
<1>21. CASE UNCHANGED vars
  BY <1>21 DEF vars
<1> QED
  BY <1>1, <1>2, <1>3, <1>4, <1>5, <1>6, <1>7, <1>8, <1>9, <1>10, <1>11, <1>12, <1>13, <1>14,
     <1>15, <1>16, <1>17, <1>18, <1>19, <1>20, <1>21 DEF Next, WorkerStep

(* Every variable keeps its type (the whole of HostInput).                   *)
THEOREM Typing == Spec => []TypeOK
  BY TypeInit, TypeNext, PTL DEF Spec

-----------------------------------------------------------------------------
(* Keys. *)

Gate == NoKeyOutlivesItsEpoch /\ SelectingHoldsNothing

(* A release that ends with nothing held leaves no key down; one that was    *)
(* refused leaves down what is still in the list.                            *)
LEMMA ReleasingKeys ==
    ASSUME TypeOK, NoKeyOutlivesItsEpoch, NEW released, ReleasesAll(released)
    PROVE  /\ \A k \in Keys : down'[k] # 0 => down'[k] = selected.epoch /\ k \in pressed'
           /\ pressed' = {} => \A k \in Keys : down'[k] = 0
<1>1. \A k \in Keys : down'[k] = IF k \in released THEN 0 ELSE down[k]
  BY DEF ReleasesAll
<1>2. pressed' = pressed \ released
  BY DEF ReleasesAll
<1> QED
  BY <1>1, <1>2 DEF NoKeyOutlivesItsEpoch

LEMMA SuspendingKeys ==
    ASSUME TypeOK, NoKeyOutlivesItsEpoch, NEW released, Suspends(released)
    PROVE  Gate'
<1>1. ReleasesAll(released) /\ selected' = [selected EXCEPT !.invalidated = TRUE]
  BY DEF Suspends
<1>2. selected'.epoch = selected.epoch /\ selected'.invalidated
  BY <1>1 DEF TypeOK
<1> QED
  BY <1>1, <1>2, ReleasingKeys DEF Gate, NoKeyOutlivesItsEpoch, SelectingHoldsNothing

LEMMA GateNext == TypeOK /\ Gate /\ [Next]_vars => Gate'
<1> SUFFICES ASSUME TypeOK, Gate, [Next]_vars PROVE Gate'
  OBVIOUS
<1>k. NoKeyOutlivesItsEpoch /\ SelectingHoldsNothing
  BY DEF Gate
<1>0. CASE UNCHANGED <<selected, pressed, down>>
  BY <1>0 DEF Gate, NoKeyOutlivesItsEpoch, SelectingHoldsNothing
<1>1. CASE \E released \in SUBSET pressed : Suspends(released)
  BY <1>1, <1>k, SuspendingKeys
<1>2. CASE Publishes /\ ~UNCHANGED <<selected, pressed, down>>
  <2>1. ~selected.closed
    BY <1>2 DEF Publishes, EndedBeforePublish
  <2>2. CASE Boundary(worker.next)
    <3>1. PICK released : PublishesBoundary(released)
      BY <1>2, <2>2 DEF Publishes, EndedBeforePublish
    <3>2. ReleasesAll(released)
      BY <3>1 DEF PublishesBoundary
    <3>3. CASE pressed' = {}
      <4>1. \A k \in Keys : down'[k] = 0
        BY <3>2, <3>3, <1>k, ReleasingKeys
      <4> QED
        BY <4>1 DEF Gate, NoKeyOutlivesItsEpoch, SelectingHoldsNothing
    <3>4. CASE pressed' # {}
      <4>1. selected' = [selected EXCEPT !.invalidated = TRUE]
        BY <3>1, <3>4 DEF PublishesBoundary
      <4>2. selected'.epoch = selected.epoch /\ selected'.invalidated
        BY <4>1 DEF TypeOK
      <4> QED
        BY <3>2, <4>2, <1>k, ReleasingKeys
          DEF Gate, NoKeyOutlivesItsEpoch, SelectingHoldsNothing
    <3> QED
      BY <3>3, <3>4
  <2>3. CASE ~Boundary(worker.next)
    <3>1. /\ selected' = [selected EXCEPT !.topology = worker.next,
                            !.invalidated = FALSE, !.closed = FALSE]
          /\ UNCHANGED <<pressed, down>>
      BY <1>2, <2>1, <2>3 DEF Publishes, EndedBeforePublish
    <3>2. selected'.epoch = selected.epoch /\ selected'.pending = selected.pending
      BY <3>1 DEF TypeOK
    <3>3. ~selected.invalidated
      BY <2>3 DEF Boundary
    <3> QED
      BY <3>1, <3>2, <3>3, <1>k DEF Gate, NoKeyOutlivesItsEpoch, SelectingHoldsNothing
  <2> QED
    BY <2>2, <2>3
<1>3. CASE Receives /\ ~UNCHANGED <<selected, pressed, down>>
  <2> DEFINE message == Head(wire)
  <2>1. message \in Messages /\ Admits(message) /\ Applies(message) /\ selected' = selected
    BY <1>3, HeadTailProperties DEF Receives, TypeOK
  <2>2. message.epoch = selected.epoch /\ down \in [Keys -> Nat]
    BY <2>1 DEF Admits, TypeOK
  <2>3. CASE message.kind = "press"
    <3>1. ~selected.pending /\ message.key \in Keys
      BY <2>1, <2>3 DEF Admits, Messages
    <3>2. pressed' = pressed \cup {message.key}
          /\ down' = [down EXCEPT ![message.key] = selected.epoch]
      BY <1>3, <2>1, <2>2, <2>3 DEF Applies
    <3> QED
      BY <2>1, <2>2, <3>1, <3>2, <1>k DEF Gate, NoKeyOutlivesItsEpoch, SelectingHoldsNothing
  <2>4. CASE message.kind # "press"
    <3>1. pressed' = pressed \ {message.key} /\ down' = [down EXCEPT ![message.key] = 0]
      BY <1>3, <2>1, <2>4 DEF Applies
    <3> QED
      BY <2>1, <2>2, <3>1, <1>k DEF Gate, NoKeyOutlivesItsEpoch, SelectingHoldsNothing
  <2> QED
    BY <2>3, <2>4
<1>4. ASSUME NEW released, Begins(released) PROVE Gate'
  <2>1. ReleasesAll(released)
    BY <1>4 DEF Begins
  <2>2. selected'.epoch = selected.epoch /\ (pressed' # {} => selected'.invalidated)
    BY <1>4 DEF Begins, TypeOK
  <2> QED
    BY <2>1, <2>2, <1>k, ReleasingKeys DEF Gate, NoKeyOutlivesItsEpoch, SelectingHoldsNothing
<1>5. CASE Answers
  <2>1. /\ selected'.epoch = selected.epoch /\ selected'.invalidated = selected.invalidated
        /\ selected'.pending => selected.pending
    BY <1>5 DEF Answers, Reopened, TypeOK
  <2> QED
    BY <1>5, <2>1, <1>k DEF Answers, Gate, NoKeyOutlivesItsEpoch, SelectingHoldsNothing
<1>6. CASE SessionEnds
  <2>1. PICK released : ReleasesAll(released)
    BY <1>6 DEF SessionEnds
  <2>2. selected'.epoch = selected.epoch /\ selected'.invalidated
    BY <1>6 DEF SessionEnds, TypeOK
  <2> QED
    BY <2>1, <2>2, <1>k, ReleasingKeys DEF Gate, NoKeyOutlivesItsEpoch, SelectingHoldsNothing
<1>7. CASE WorkerStep
  BY <1>7, <1>0, <1>1, <1>2
  DEF WorkerStep, Stops, Skips, Polls, LooksInVain, Prepares, FailsToPrepare, Selects,
      Reconfigures, CommandsDone, Captures, LosesCapture
<1>8. CASE Paints \/ Points \/ (\E key \in Keys : Presses(key) \/ LetsGo(key))
           \/ DisplaysChange \/ Blocks \/ Unblocks \/ UNCHANGED vars
  BY <1>8, <1>0
  DEF Paints, Points, Presses, LetsGo, Sends, DisplaysChange, Blocks, Unblocks, vars
<1>9. ASSUME NEW display \in Displays, AsksForDisplay(display) PROVE Gate'
  BY <1>9, <1>4 DEF AsksForDisplay
<1> QED
  BY <1>0, <1>3, <1>5, <1>6, <1>7, <1>8, <1>9 DEF Next

(* No press survives the mapping it was made for: the injector knows of      *)
(* every key that is down, and it was pressed in the current epoch.          *)
THEOREM KeysOfTheEpoch == Spec => []NoKeyOutlivesItsEpoch
<1>1. Init => Gate
  BY DEF Init, Gate, NoKeyOutlivesItsEpoch, SelectingHoldsNothing
<1>2. Gate => NoKeyOutlivesItsEpoch
  BY DEF Gate
<1> QED
  BY <1>1, <1>2, GateNext, Typing, PTL DEF Spec

(* While a display is being selected nothing is held down, unless the        *)
(* mapping is known to be invalid (begin_desktop_selection).                 *)
THEOREM NothingHeldSelecting == Spec => []SelectingHoldsNothing
<1>1. Init => Gate
  BY DEF Init, Gate, NoKeyOutlivesItsEpoch, SelectingHoldsNothing
<1>2. Gate => SelectingHoldsNothing
  BY DEF Gate
<1> QED
  BY <1>1, <1>2, GateNext, Typing, PTL DEF Spec

-----------------------------------------------------------------------------
(* Steps. *)

(* Only what arrives is taken off the wire, and only it shortens the wire    *)
(* while the session lasts.                                                  *)
LEMMA ArrivalsOnly ==
    TypeOK /\ [Next]_vars /\ wire # << >> /\ wire' = Tail(wire) /\ wire' # wire
      => Receives \/ SessionEnds
<1> SUFFICES ASSUME TypeOK, [Next]_vars, wire # << >>, wire' = Tail(wire), wire' # wire
             PROVE  Receives \/ SessionEnds
  OBVIOUS
<1>1. wire \in Seq(Messages) /\ Len(Tail(wire)) = Len(wire) - 1
  BY HeadTailProperties DEF TypeOK
<1>2. ASSUME NEW kind, NEW key, NEW epoch, Sends(kind, key, epoch) PROVE FALSE
  <2>1. PICK message : wire' = Append(wire, message)
    BY <1>2 DEF Sends
  <2>2. Len(wire) \in Nat
    BY <1>1, LenProperties
  <2>3. Len(Append(wire, message)) = Len(wire) + 1
    <3>1. wire \in Seq(Messages \cup {message})
      BY <1>1, SeqMonotonic
    <3> QED
      BY <3>1, AppendProperties
  <2>4. Tail(wire) = Append(wire, message)
    BY <2>1
  <2>5. Len(wire) - 1 = Len(wire) + 1
    BY <1>1, <2>3, <2>4
  <2> QED
    BY <2>2, <2>5
<1>3. ~WorkerStep
  BY DEF WorkerStep, Stops, Skips, Polls, LooksInVain, Prepares, FailsToPrepare, Publishes,
         Selects, Reconfigures, CommandsDone, Captures, LosesCapture
<1>4. ~(Points \/ \E key \in Keys : Presses(key) \/ LetsGo(key))
  BY <1>2 DEF Points, Presses, LetsGo
<1>5. ~(Answers \/ Paints \/ DisplaysChange \/ Blocks \/ Unblocks \/ UNCHANGED vars)
  BY DEF Answers, Paints, DisplaysChange, Blocks, Unblocks, vars
<1>6. ~(\E display \in Displays : AsksForDisplay(display))
  BY DEF AsksForDisplay
<1> QED
  BY <1>3, <1>4, <1>5, <1>6 DEF Next

(* A late release never lets go of a key pressed in a newer epoch            *)
(* (inject_desktop_input).                                                   *)
THEOREM ReleasesOwnPress == Spec => OldReleaseSparesNewPress
<1>1. Init => Gate
  BY DEF Init, Gate, NoKeyOutlivesItsEpoch, SelectingHoldsNothing
<1>2. TypeOK /\ Gate /\ [Next]_vars =>
        [wire # << >> /\ wire' = Tail(wire) /\ wire' # wire /\ ~selected'.closed =>
           \A key \in Keys : down[key] # 0 /\ down'[key] = 0 => down[key] = Head(wire).epoch]_vars
  <2> SUFFICES ASSUME TypeOK, Gate, [Next]_vars, wire # << >>, wire' = Tail(wire),
                      wire' # wire, ~selected'.closed,
                      NEW key \in Keys, down[key] # 0, down'[key] = 0
               PROVE  down[key] = Head(wire).epoch
    OBVIOUS
  <2>1. CASE SessionEnds
    BY <2>1 DEF SessionEnds, TypeOK
  <2>2. CASE Receives
    <3>1. Admits(Head(wire))
      BY <2>2 DEF Receives
    <3>2. Head(wire).epoch = selected.epoch
      BY <3>1 DEF Admits
    <3> QED
      BY <3>2 DEF Gate, NoKeyOutlivesItsEpoch
  <2> QED
    BY <2>1, <2>2, ArrivalsOnly
<1> QED
  BY <1>1, <1>2, GateNext, Typing, PTL DEF Spec, OldReleaseSparesNewPress

(* The end of a session is kept in three marks at once.                      *)
EndIsMarked == selected.closed => selected.invalidated /\ suspended

(* A step after the end changes neither the mapping nor the keys' epochs.    *)
LEMMA EndedStep ==
    ASSUME TypeOK, EndIsMarked, [Next]_vars, selected.closed
    PROVE  /\ selected' = selected /\ suspended'
           /\ \A key \in Keys : down'[key] \in {0, down[key]}
<1>1. selected.invalidated /\ suspended
  BY DEF EndIsMarked
<1>2. [selected EXCEPT !.invalidated = TRUE] = selected
  BY <1>1 DEF TypeOK
<1>3. ASSUME NEW released, ReleasesAll(released)
      PROVE  \A key \in Keys : down'[key] \in {0, down[key]}
  BY <1>3 DEF ReleasesAll
<1>4. CASE UNCHANGED <<selected, suspended, down>>
  BY <1>1, <1>4
<1>5. ASSUME NEW released, Suspends(released)
      PROVE  /\ selected' = selected /\ suspended'
             /\ \A key \in Keys : down'[key] \in {0, down[key]}
  BY <1>2, <1>3, <1>5 DEF Suspends
<1>6. CASE Receives
  BY <1>4, <1>6 DEF Receives, Admits
<1>7. CASE WorkerStep
  <2>1. CASE Publishes
    BY <1>4, <2>1 DEF Publishes, EndedBeforePublish
  <2>2. CASE Polls
    BY <2>2 DEF Polls
  <2>3. CASE LooksInVain \/ Selects \/ LosesCapture
    BY <1>4, <1>5, <2>3 DEF LooksInVain, Selects, LosesCapture
  <2> QED
    BY <1>4, <1>7, <2>1, <2>2, <2>3
    DEF WorkerStep, Stops, Skips, Prepares, FailsToPrepare, Reconfigures, CommandsDone, Captures
<1>8. ~(Answers \/ SessionEnds \/ \E display \in Displays : AsksForDisplay(display))
  BY DEF Answers, SessionEnds, AsksForDisplay
<1>9. CASE Paints \/ Points \/ (\E key \in Keys : Presses(key) \/ LetsGo(key))
           \/ DisplaysChange \/ Blocks \/ Unblocks \/ UNCHANGED vars
  BY <1>4, <1>9
  DEF Paints, Points, Presses, LetsGo, Sends, DisplaysChange, Blocks, Unblocks, vars
<1> QED
  BY <1>6, <1>7, <1>8, <1>9 DEF Next

(* A step before the end sets the marks together.                            *)
LEMMA EndNext == TypeOK /\ EndIsMarked /\ [Next]_vars => EndIsMarked'
<1> SUFFICES ASSUME TypeOK, EndIsMarked, [Next]_vars, selected'.closed
             PROVE  selected'.invalidated /\ suspended'
  BY DEF EndIsMarked
<1>1. CASE selected.closed
  BY <1>1, EndedStep DEF EndIsMarked
<1>2. CASE ~selected.closed
  <2>1. CASE SessionEnds
    BY <2>1 DEF SessionEnds, TypeOK
  <2>2. ~UNCHANGED selected
    BY <1>2
  <2>3. ASSUME NEW released, Suspends(released) PROVE FALSE
    BY <1>2, <2>3 DEF Suspends, TypeOK
  <2>4. ~Publishes
    BY <1>2, <2>2 DEF Publishes, PublishesBoundary, TypeOK
  <2>5. ~WorkerStep
    BY <2>2, <2>3, <2>4
    DEF WorkerStep, Stops, Skips, Polls, LooksInVain, Prepares, FailsToPrepare, Selects,
        Reconfigures, CommandsDone, Captures, LosesCapture
  <2>6. ~(Answers \/ \E display \in Displays : AsksForDisplay(display))
    BY <1>2 DEF Answers, Reopened, AsksForDisplay, Begins, TypeOK
  <2>7. ~(Receives \/ Paints \/ Points \/ (\E key \in Keys : Presses(key) \/ LetsGo(key))
          \/ DisplaysChange \/ Blocks \/ Unblocks \/ UNCHANGED vars)
    BY <2>2
    DEF Receives, Paints, Points, Presses, LetsGo, Sends, DisplaysChange, Blocks, Unblocks, vars
  <2> QED
    BY <2>1, <2>5, <2>6, <2>7 DEF Next
<1> QED
  BY <1>1, <1>2

(* Nothing is published for a session that has ended and no key goes down    *)
(* (HostInputExitGuard against a publication in progress).                   *)
THEOREM EndIsFinal == Spec => EndedStaysEnded
<1>1. Init => EndIsMarked
  BY DEF Init, EndIsMarked
<1>2. TypeOK /\ EndIsMarked /\ [Next]_vars =>
        [selected.closed => /\ selected' = selected /\ suspended'
                            /\ \A key \in Keys : down'[key] \in {0, down[key]}]_vars
  BY EndedStep
<1> QED
  BY <1>1, <1>2, EndNext, Typing, PTL DEF Spec, EndedStaysEnded

-----------------------------------------------------------------------------
(* Pictures. *)

(* What was made in an epoch is no newer than the mapping, and was made with *)
(* its geometry if it is of the mapping's epoch.                             *)
Fits(epoch, geometry) ==
  epoch <= selected.epoch /\ (epoch = selected.epoch => geometry = Geometry(selected.topology))

(* What is captured is what is mapped, unless the worker is recovering; the  *)
(* media were built for the topology about to be published.                  *)
MediaFollow ==
  /\ worker.at \in {"top", "commands"} /\ ~worker.recovering =>
       media = Geometry(selected.topology)
  /\ worker.at = "frame" => ~worker.recovering /\ media = Geometry(selected.topology)
  /\ worker.at = "publish" => media = Geometry(worker.next)

PicturesFit ==
  /\ Fits(stream.epoch, stream.geometry)
  /\ Fits(viewer.shown.epoch, viewer.shown.geometry)
  /\ viewer.epoch \in {0, viewer.shown.epoch}
  /\ viewer.shown = NoFrame => viewer.epoch = 0
  /\ \A i \in DOMAIN wire : Fits(wire[i].epoch, wire[i].seen)

(* The mapping's geometry changes only with its epoch.                       *)
MappingMoves ==
  \/ selected'.epoch = selected.epoch /\ Geometry(selected'.topology) = Geometry(selected.topology)
  \/ selected'.epoch = selected.epoch + 1

LEMMA SuspendingMapping ==
    ASSUME TypeOK, NEW released, Suspends(released)
    PROVE  selected'.epoch = selected.epoch /\ selected'.topology = selected.topology
  BY DEF Suspends, TypeOK

LEMMA MappingNext == TypeOK /\ [Next]_vars => MappingMoves
<1> SUFFICES ASSUME TypeOK, [Next]_vars PROVE MappingMoves
  OBVIOUS
<1>1. CASE selected'.epoch = selected.epoch /\ selected'.topology = selected.topology
  BY <1>1 DEF MappingMoves
<1>2. CASE Publishes
  <2>1. CASE \E released \in SUBSET pressed : PublishesBoundary(released)
    BY <2>1 DEF PublishesBoundary, MappingMoves, TypeOK
  <2>2. CASE UNCHANGED selected
    BY <1>1, <2>2
  <2>3. CASE /\ ~Boundary(worker.next)
             /\ selected' = [selected EXCEPT !.topology = worker.next,
                               !.invalidated = FALSE, !.closed = FALSE]
    <3>1. selected'.epoch = selected.epoch /\ selected'.topology = worker.next
      BY <2>3 DEF TypeOK
    <3>2. Geometry(worker.next) = Geometry(selected.topology)
      BY <2>3 DEF Boundary, Moves
    <3> QED
      BY <3>1, <3>2 DEF MappingMoves
  <2> QED
    BY <1>2, <2>1, <2>2, <2>3 DEF Publishes
<1>3. CASE WorkerStep
  BY <1>1, <1>2, <1>3, SuspendingMapping
  DEF WorkerStep, Stops, Skips, Polls, LooksInVain, Prepares, FailsToPrepare, Selects,
      Reconfigures, CommandsDone, Captures, LosesCapture
<1>4. CASE Answers \/ SessionEnds \/ \E display \in Displays : AsksForDisplay(display)
  BY ZenonT(30), <1>1, <1>4 DEF Answers, Reopened, SessionEnds, AsksForDisplay, Begins, TypeOK
<1>5. CASE Receives \/ Paints \/ Points \/ (\E key \in Keys : Presses(key) \/ LetsGo(key))
           \/ DisplaysChange \/ Blocks \/ Unblocks \/ UNCHANGED vars
  BY <1>1, <1>5
  DEF Receives, Paints, Points, Presses, LetsGo, Sends, DisplaysChange, Blocks, Unblocks, vars
<1> QED
  BY <1>3, <1>4, <1>5 DEF Next

(* Fits, after the step, of something the step leaves alone.                 *)
FitsThen(epoch, geometry) ==
  epoch <= selected'.epoch /\ (epoch = selected'.epoch => geometry = Geometry(selected'.topology))

LEMMA FitsNext ==
  TypeOK /\ MappingMoves => \A epoch \in Nat : \A geometry \in Geometries :
    Fits(epoch, geometry) => FitsThen(epoch, geometry)
  BY DEF TypeOK, MappingMoves, Fits, FitsThen

LEMMA MediaNext == TypeOK /\ MediaFollow /\ [Next]_vars => MediaFollow'
<1> SUFFICES ASSUME TypeOK, MediaFollow, [Next]_vars PROVE MediaFollow'
  OBVIOUS
<1> USE DEF MediaFollow, At, Goes
<1>t. worker.recovering \in BOOLEAN /\ selected.invalidated \in BOOLEAN
  BY DEF TypeOK
<1>0. CASE UNCHANGED <<worker, media>> /\ selected'.topology = selected.topology
  BY <1>0
<1>1. CASE Stops \/ CommandsDone \/ Captures \/ Reconfigures
  BY <1>1 DEF Stops, CommandsDone, Captures, Reconfigures, TypeOK
<1>2. CASE Skips
  BY <1>2 DEF Skips, Recovering, TypeOK
<1>3. CASE Polls
  <2>1. CASE Recovering \/ Moves(Refreshed)
    BY <1>3, <2>1 DEF Polls
  <2>2. CASE ~Recovering /\ ~Moves(Refreshed)
    BY <1>3, <2>2 DEF Polls, Recovering, Moves, TypeOK
  <2> QED
    BY <2>1, <2>2
<1>4. CASE LooksInVain
  BY <1>4 DEF LooksInVain, TypeOK
<1>5. CASE Prepares
  BY <1>5 DEF Prepares, TypeOK
<1>6. CASE FailsToPrepare
  BY <1>6 DEF FailsToPrepare, Leaves, After, TypeOK
<1>7. CASE Publishes
  <2>1. CASE Goes("failed")
    BY <2>1 DEF TypeOK
  <2>2. CASE Leaves(After, ~Published)
    <3>1. worker'.at \in {"top", "commands"} /\ worker'.recovering = ~Published
      BY <2>2 DEF Leaves, After
    <3>2. media' = Geometry(worker.next)
      BY <1>7 DEF Publishes
    <3>3. CASE Published
      <4>1. ~selected.closed /\ ~selected'.invalidated
        BY <3>3 DEF Published
      <4>2. selected'.topology = worker.next
        <5>1. CASE Boundary(worker.next)
          <6>1. worker'.at # "failed"
            BY <3>1
          <6>2. ~Goes("failed")
            BY <6>1 DEF TypeOK
          <6>3. PICK released : PublishesBoundary(released)
            BY <1>7, <4>1, <5>1, <6>2 DEF Publishes, EndedBeforePublish
          <6>4. pressed' = {}
            BY <4>1, <6>3 DEF PublishesBoundary, TypeOK
          <6> QED
            BY <6>3, <6>4 DEF PublishesBoundary, TypeOK
        <5>2. CASE ~Boundary(worker.next)
          BY <1>7, <4>1, <5>2 DEF Publishes, EndedBeforePublish, TypeOK
        <5> QED
          BY <5>1, <5>2
      <4> QED
        BY <3>1, <3>2, <4>2
    <3>4. CASE ~Published
      BY <3>1, <3>4
    <3> QED
      BY <3>3, <3>4
  <2> QED
    BY <1>7, <2>1, <2>2 DEF Publishes
<1>8. CASE Selects
  <2>1. CASE worker.recovering \/ control.command = selected.topology.display
    BY <1>8, <2>1 DEF Selects
  <2>2. CASE ~(worker.recovering \/ control.command = selected.topology.display)
    BY ZenonT(30), <1>8, <2>2 DEF Selects, TypeOK
  <2> QED
    BY <2>1, <2>2
<1>9. CASE LosesCapture
  BY <1>9 DEF LosesCapture
<1>10. CASE Answers \/ SessionEnds \/ \E display \in Displays : AsksForDisplay(display)
  BY <1>0, <1>10 DEF Answers, Reopened, SessionEnds, AsksForDisplay, Begins, TypeOK
<1>11. CASE Receives \/ Paints \/ Points \/ (\E key \in Keys : Presses(key) \/ LetsGo(key))
           \/ DisplaysChange \/ Blocks \/ Unblocks \/ UNCHANGED vars
  BY <1>0, <1>11
  DEF Receives, Paints, Points, Presses, LetsGo, Sends, DisplaysChange, Blocks, Unblocks, vars
<1> QED
  BY <1>1, <1>2, <1>3, <1>4, <1>5, <1>6, <1>7, <1>8, <1>9, <1>10, <1>11 DEF Next, WorkerStep

(* A message shows the picture the controller has, or an older context.      *)
LEMMA SendingFits ==
    ASSUME TypeOK, PicturesFit, NEW kind, NEW key, NEW epoch \in {0, viewer.shown.epoch},
           Sends(kind, key, epoch), UNCHANGED selected, wire' \in Seq(Messages)
    PROVE  \A i \in DOMAIN wire' : FitsThen(wire'[i].epoch, wire'[i].seen)
<1> DEFINE message == [kind |-> kind, key |-> key, epoch |-> epoch, seen |-> viewer.shown.geometry]
<1>1. wire \in Seq(Messages \cup {message}) /\ wire' = Append(wire, message)
  BY SeqMonotonic DEF TypeOK, Sends
<1>2. /\ Len(wire') = Len(wire) + 1 /\ Len(wire) \in Nat
      /\ \A i \in 1..Len(wire) : wire'[i] = wire[i]
      /\ wire'[Len(wire) + 1] = message
  BY <1>1, AppendProperties, LenProperties
<1>3. DOMAIN wire = 1..Len(wire) /\ DOMAIN wire' = 1..(Len(wire) + 1)
  BY <1>1, <1>2, LenProperties
<1>4. \A i \in 1..Len(wire) : Fits(wire[i].epoch, wire[i].seen)
  BY <1>3 DEF PicturesFit
<1>5. Fits(message.epoch, message.seen)
  BY DEF PicturesFit, Fits, TypeOK, Frames
<1> HIDE DEF message
<1>6. ASSUME NEW i \in DOMAIN wire' PROVE Fits(wire'[i].epoch, wire'[i].seen)
  <2>1. i \in 1..Len(wire) \/ i = Len(wire) + 1
    BY <1>2, <1>3
  <2> QED
    BY <2>1, <1>2, <1>4, <1>5
<1> QED
  BY <1>6 DEF Fits, FitsThen

LEMMA PicturesNext == TypeOK /\ MediaFollow /\ PicturesFit /\ [Next]_vars => PicturesFit'
<1> SUFFICES ASSUME TypeOK, MediaFollow, PicturesFit, [Next]_vars PROVE PicturesFit'
  OBVIOUS
<1>1. MappingMoves /\ TypeOK'
  BY MappingNext, TypeNext
<1>2. /\ stream.epoch \in Nat /\ stream.geometry \in Geometries
      /\ viewer.shown.epoch \in Nat /\ viewer.shown.geometry \in Geometries
  BY DEF TypeOK, Frames
<1>3. /\ FitsThen(stream.epoch, stream.geometry)
      /\ FitsThen(viewer.shown.epoch, viewer.shown.geometry)
  BY <1>1, <1>2, FitsNext DEF PicturesFit
<1>4. FitsThen(NoFrame.epoch, NoFrame.geometry)
  BY <1>1 DEF FitsThen, NoFrame, TypeOK
<1>5. FitsThen(stream'.epoch, stream'.geometry)
  <2>1. CASE Captures
    BY <1>3, <2>1 DEF Captures, MediaFollow, At, FitsThen, TypeOK
  <2>2. stream' \in {stream, NoFrame} \/ Captures
    BY
      DEF Next, WorkerStep, Stops, Skips, Polls, LooksInVain, Prepares, FailsToPrepare,
          Publishes,
       Selects, Reconfigures, CommandsDone, LosesCapture, Receives, Answers, SessionEnds, Paints,
       Points, Presses, LetsGo, Sends, AsksForDisplay, DisplaysChange, Blocks, Unblocks, vars
  <2> QED
    BY <1>3, <1>4, <2>1, <2>2
<1>6. \/ viewer' = viewer
      \/ Paints
      \/ \E key \in Keys : Presses(key) \/ LetsGo(key)
  BY
    DEF Next, WorkerStep, Stops, Skips, Polls, LooksInVain, Prepares, FailsToPrepare,
        Publishes,
     Selects, Reconfigures, CommandsDone, Captures, LosesCapture, Receives, Answers, SessionEnds,
     Points, AsksForDisplay, DisplaysChange, Blocks, Unblocks, vars
<1>7. /\ FitsThen(viewer'.shown.epoch, viewer'.shown.geometry)
      /\ viewer'.epoch \in {0, viewer'.shown.epoch}
      /\ viewer'.shown = NoFrame => viewer'.epoch = 0
  <2>1. CASE viewer' = viewer
    BY <1>3, <2>1 DEF PicturesFit
  <2>2. CASE Paints
    <3>1. viewer'.shown = stream /\ viewer'.shown # NoFrame
      BY <2>2 DEF Paints, TypeOK
    <3>2. viewer'.epoch \in {0, stream.epoch}
      <4>1. CASE viewer.shown # NoFrame /\ viewer.shown.epoch # stream.epoch
        BY <2>2, <4>1 DEF Paints
      <4>2. CASE ~(viewer.shown # NoFrame /\ viewer.shown.epoch # stream.epoch)
        BY <2>2, <4>2 DEF Paints, PicturesFit, TypeOK
      <4> QED
        BY <4>1, <4>2
    <3> QED
      BY <1>3, <3>1, <3>2
  <2>3. ASSUME NEW key \in Keys, Presses(key) \/ LetsGo(key)
        PROVE  /\ viewer'.shown = viewer.shown
               /\ viewer'.epoch \in {viewer.epoch, viewer.shown.epoch}
               /\ viewer.shown = NoFrame => viewer'.epoch = viewer.epoch
    BY <2>3 DEF Presses, LetsGo, TypeOK
  <2> QED
    BY <1>3, <1>6, <2>1, <2>2, <2>3 DEF PicturesFit
<1>8. \A i \in DOMAIN wire' : FitsThen(wire'[i].epoch, wire'[i].seen)
  <2>w. \A i \in DOMAIN wire : FitsThen(wire[i].epoch, wire[i].seen)
    <3> SUFFICES ASSUME NEW i \in DOMAIN wire PROVE FitsThen(wire[i].epoch, wire[i].seen)
      OBVIOUS
    <3>1. wire[i] \in Messages
      BY ElementOfSeq, LenProperties DEF TypeOK
    <3>2. wire[i].epoch \in Nat /\ wire[i].seen \in Geometries
      BY <3>1 DEF Messages
    <3> QED
      BY <1>1, <3>2, FitsNext DEF PicturesFit
  <2>1. CASE UNCHANGED wire
    BY <2>w, <2>1
  <2>2. CASE Receives
    <3>1. wire' = Tail(wire) /\ wire # << >> /\ wire \in Seq(Messages)
      BY <2>2 DEF Receives, TypeOK
    <3>2. /\ DOMAIN wire = 1..Len(wire) /\ Len(wire) \in Nat /\ Len(wire) > 0
          /\ DOMAIN wire' = 1..(Len(wire) - 1)
          /\ \A i \in 1..(Len(wire) - 1) : wire'[i] = wire[i + 1]
      BY <3>1, HeadTailProperties, LenProperties, EmptySeq
    <3>3. \A i \in 1..(Len(wire) - 1) : i + 1 \in 1..Len(wire)
      BY <3>2
    <3> QED
      BY <2>w, <3>2, <3>3
  <2>3. CASE SessionEnds
    BY <2>3 DEF SessionEnds
  <2>4. CASE Points
    BY <1>1, <2>4, SendingFits DEF Points, Sends, TypeOK
  <2>5. ASSUME NEW key \in Keys, Presses(key) PROVE  \A i \in DOMAIN wire' : FitsThen(wire'[i].epoch, wire'[i].seen)
    BY <1>1, <2>5, SendingFits DEF Presses, Sends, TypeOK
  <2>6. ASSUME NEW key \in Keys, LetsGo(key) PROVE  \A i \in DOMAIN wire' : FitsThen(wire'[i].epoch, wire'[i].seen)
    BY <1>1, <2>6, SendingFits DEF LetsGo, Sends, TypeOK, PicturesFit
  <2> QED
    BY <2>1, <2>2, <2>3, <2>4, <2>5, <2>6
    DEF Next, WorkerStep, Stops, Skips, Polls, LooksInVain, Prepares, FailsToPrepare, Publishes,
        Selects, Reconfigures, CommandsDone, Captures, LosesCapture, Answers, Paints,
        AsksForDisplay, DisplaysChange, Blocks, Unblocks, vars
<1> QED
  BY <1>5, <1>7, <1>8 DEF PicturesFit, Fits, FitsThen

(* However late a picture or an input comes, a pointer position is mapped    *)
(* with the geometry of the picture it was taken from.                       *)
THEOREM PositionsAsSeen == Spec => []MappedAsSeen
<1>1. Init => MediaFollow /\ PicturesFit
  BY DEF Init, MediaFollow, PicturesFit, Fits, NoFrame
<1>2. PicturesFit => MappedAsSeen
  BY DEF PicturesFit, MappedAsSeen, Admits, Fits
<1> QED
  BY <1>1, <1>2, MediaNext, PicturesNext, Typing, PTL DEF Spec

-----------------------------------------------------------------------------
(* What the run checks, in one piece: whatever the controller, the capture   *)
(* thread, the displays and the system do, what is held down and what a      *)
(* position means is of the epoch in which it is used.                       *)
THEOREM InputStaysOfItsEpoch == Spec => []InputOfItsEpoch
<1>1. TypeOK /\ NoKeyOutlivesItsEpoch /\ SelectingHoldsNothing /\ MappedAsSeen
        => InputOfItsEpoch
  BY DEF InputOfItsEpoch
<1> QED
  BY <1>1, Typing, KeysOfTheEpoch, NothingHeldSelecting, PositionsAsSeen, PTL

(* And no step of an old epoch, or of an ended session, touches what a new   *)
(* one holds.                                                                *)
THEOREM EpochsStayApart == Spec => EpochsKeptApart
<1>1. EpochsKeptApart <=> OldReleaseSparesNewPress /\ EndedStaysEnded
  BY DEF EpochsKeptApart
<1> QED
  BY <1>1, ReleasesOwnPress, EndIsFinal

-----------------------------------------------------------------------------
(*                      The report that input is refused                   *)

Counts == [reason : Restriction!States, count : Nat]

\* The count of a class is the length of the last run of refusals for one reason.
RunOf(h, p, n) ==
    /\ n = 0 => p.count = 0
    /\ n > 0 => /\ p.count \in 1..n /\ p.reason = h[n]
                /\ \A i \in (n - p.count + 1)..n : h[i] = p.reason
                /\ p.count < n => h[n - p.count] # p.reason

CountIsRun == \A c \in Classes : RunOf(history[c], pending[c], Len(history[c]))

\* Three refusals in a row for one reason.
Run(h, r) == \E i \in DOMAIN h : i + 2 \in DOMAIN h /\ \A j \in i..(i + 2) : h[j] = r

\* A class is restricted exactly when it has been refused three times in a row, for such
\* a reason.
RestrictedIsEarned ==
    \A c \in Classes :
      /\ active[c] # "none" => Run(history[c], active[c])
      /\ active[c] = "none" => \A r \in Restriction!Failures : ~Run(history[c], r)

RestrictionTypes ==
    /\ pending \in [Classes -> Counts]
    /\ active \in [Classes -> Restriction!States]
    /\ history \in [Classes -> Seq(Restriction!Failures)]

RestrictionInv ==
    /\ RestrictionTypes /\ CountIsRun /\ RestrictedIsEarned
    /\ reported = Restriction!Aggregate(active)

\* The report is the reason of one class, and there is none when no class has one.
LEMMA AggregateIsOne ==
    ASSUME NEW a \in [Classes -> Restriction!States]
    PROVE  /\ Restriction!Aggregate(a) # "none" =>
                \E c \in Classes : a[c] = Restriction!Aggregate(a)
           /\ Restriction!Aggregate(a) = "none" => \A c \in Classes : a[c] = "none"
<1> DEFINE Found == {i \in DOMAIN Restriction!Reasons :
                       \E c \in Classes : a[c] = Restriction!Reasons[i]}
           first == CHOOSE i \in Found : \A j \in Found : i <= j
<1>1. DOMAIN Restriction!Reasons = {1, 2} /\ Restriction!Reasons[1] = "blocked"
      /\ Restriction!Reasons[2] = "unsupported"
  BY DEF Restriction!Reasons
<1>2. Restriction!Aggregate(a) = IF Found = {} THEN "none" ELSE Restriction!Reasons[first]
  BY DEF Restriction!Aggregate
<1>3. Found # {} => \E i \in Found : \A j \in Found : i <= j
  BY <1>1
<1>4. Found # {} => first \in Found
  BY <1>3
<1>5. \A i \in Found : Restriction!Reasons[i] # "none"
  BY <1>1
<1>6. Found = {} => \A c \in Classes : a[c] = "none"
  <2> SUFFICES ASSUME Found = {}, NEW c \in Classes PROVE a[c] = "none"
    OBVIOUS
  <2>1. a[c] # "blocked" /\ a[c] # "unsupported"
    BY <1>1
  <2> QED
    BY <2>1 DEF Restriction!States, Restriction!Failures
<1> QED
  BY <1>2, <1>4, <1>5, <1>6

\* Three in a row stay three in a row.
LEMMA RunStays ==
    ASSUME NEW S, NEW h \in Seq(S), NEW e \in S, NEW r, Run(h, r)
    PROVE  Run(Append(h, e), r)
<1>1. PICK i \in DOMAIN h : i + 2 \in DOMAIN h /\ \A j \in i..(i + 2) : h[j] = r
  BY DEF Run
<1>2. i \in DOMAIN Append(h, e) /\ i + 2 \in DOMAIN Append(h, e)
  BY <1>1
<1>3. \A j \in i..(i + 2) : Append(h, e)[j] = r
  BY <1>1
<1> QED
  BY <1>2, <1>3 DEF Run

LEMMA RefusedStep ==
    ASSUME RestrictionInv, NEW class \in Classes, NEW reason \in Restriction!Failures,
           Restriction!Refused(class, reason)
    PROVE  RestrictionInv'
<1> DEFINE h == history[class]
           n == Len(h)
           p == pending[class]
           q == pending'[class]
<1>1. /\ h \in Seq(Restriction!Failures) /\ n \in Nat /\ p \in Counts
      /\ reason \in Restriction!States /\ reason # "none"
  BY DEF RestrictionInv, RestrictionTypes, Restriction!States, Restriction!Failures
<1>2. q = [reason |-> reason, count |-> IF p.reason = reason THEN p.count + 1 ELSE 1]
  BY DEF RestrictionInv, RestrictionTypes, Restriction!Refused, Restriction!Counted
<1>3. /\ history'[class] = Append(h, reason) /\ Len(history'[class]) = n + 1
      /\ history'[class][n + 1] = reason /\ \A i \in 1..n : history'[class][i] = h[i]
  BY <1>1 DEF RestrictionInv, RestrictionTypes, Restriction!Refused
<1>4. \A c \in Classes \ {class} : history'[c] = history[c] /\ pending'[c] = pending[c]
                                   /\ active'[c] = active[c]
  BY DEF RestrictionInv, RestrictionTypes, Restriction!Refused
<1>5. /\ q.count < 3 => active'[class] = active[class]
      /\ q.count >= 3 => active'[class] = reason
  BY <1>1, <1>2 DEF RestrictionInv, RestrictionTypes, Restriction!Refused,
                    Restriction!CONSECUTIVE_FAILURE_THRESHOLD, Counts
<1>6. RestrictionTypes'
  <2>1. q \in Counts
    BY <1>1, <1>2 DEF Counts
  <2>2. pending' \in [Classes -> Counts]
    BY <2>1, <1>4 DEF RestrictionInv, RestrictionTypes, Restriction!Refused
  <2>3. active' \in [Classes -> Restriction!States]
    BY <1>1 DEF RestrictionInv, RestrictionTypes, Restriction!Refused
  <2>4. history' \in [Classes -> Seq(Restriction!Failures)]
    BY <1>1 DEF RestrictionInv, RestrictionTypes, Restriction!Refused
  <2> QED
    BY <2>2, <2>3, <2>4 DEF RestrictionTypes
<1>7. /\ n = 0 => p.count = 0
      /\ n > 0 => /\ p.count \in 1..n /\ p.reason = h[n]
                  /\ \A i \in (n - p.count + 1)..n : h[i] = p.reason
                  /\ p.count < n => h[n - p.count] # p.reason
  BY DEF RestrictionInv, CountIsRun, RunOf
<1>8. /\ q.count \in 1..(n + 1) /\ q.reason = reason
      /\ \A i \in (n + 1 - q.count + 1)..(n + 1) : history'[class][i] = reason
      /\ q.count < n + 1 => history'[class][n + 1 - q.count] # reason
  <2>1. CASE p.reason = reason /\ n > 0
    <3>1. q.count = p.count + 1 /\ q.reason = reason /\ p.count \in Nat
      BY <1>1, <1>2, <2>1 DEF Counts
    <3>2. \A i \in (n - p.count + 1)..n : history'[class][i] = reason
      BY <1>1, <1>3, <1>7, <2>1
    <3>3. p.count < n => history'[class][n - p.count] # reason
      BY <1>1, <1>3, <1>7, <2>1
    <3> HIDE DEF q, p, h, n
    <3>4. n + 1 - q.count + 1 = n - p.count + 1 /\ n + 1 - q.count = n - p.count
      BY <1>1, <3>1
    <3>5. \A i \in (n - p.count + 1)..(n + 1) : i = n + 1 \/ i \in (n - p.count + 1)..n
      BY <1>1, <3>1
    <3>6. \A i \in (n + 1 - q.count + 1)..(n + 1) : history'[class][i] = reason
      BY <1>3, <3>2, <3>4, <3>5
    <3>7. q.count \in 1..(n + 1) /\ (q.count < n + 1 => p.count < n)
      BY <1>1, <1>7, <2>1, <3>1
    <3> QED
      BY <3>1, <3>3, <3>4, <3>6, <3>7
  <2>2. CASE n = 0
    <3>1. q.count = 1 /\ q.reason = reason
      BY <1>2, <1>7, <2>2
    <3> HIDE DEF q, p, h, n
    <3> QED
      BY <1>3, <2>2, <3>1
  <2>3. CASE p.reason # reason /\ n > 0
    <3>1. q.count = 1 /\ q.reason = reason
      BY <1>2, <2>3
    <3> HIDE DEF q, p, h, n
    <3> QED
      BY <1>1, <1>3, <1>7, <2>3, <3>1
  <2> QED
    BY <1>1, <2>1, <2>2, <2>3
<1>9. CountIsRun'
  <2>1. Len(history'[class]) = n + 1 /\ history'[class][n + 1] = reason /\ n + 1 > 0
    BY <1>1, <1>3
  <2>2. \A c \in Classes : c # class => history'[c] = history[c] /\ pending'[c] = pending[c]
    BY <1>4
  <2>3. RunOf(history'[class], q, n + 1)
    <3> HIDE DEF q, p, h, n
    <3> QED
      BY SMTT(30), <1>1, <1>8, <2>1 DEF RunOf
  <2>4. \A c \in Classes : c # class => RunOf(history'[c], pending'[c], Len(history'[c]))
    BY <2>2 DEF RestrictionInv, CountIsRun
  <2> QED
    BY <2>1, <2>3, <2>4 DEF CountIsRun
<1>10. q.count >= 3 => Run(history'[class], reason)
  <2> SUFFICES ASSUME q.count >= 3 PROVE Run(history'[class], reason)
    OBVIOUS
  <2>1. n - 1 \in DOMAIN history'[class] /\ n - 1 + 2 \in DOMAIN history'[class]
    BY <1>1, <1>3, <1>8
  <2>2. \A j \in (n - 1)..(n - 1 + 2) : history'[class][j] = reason
    BY <1>1, <1>8
  <2> QED
    BY <2>1, <2>2 DEF Run
<1>11. ASSUME q.count < 3, NEW r \in Restriction!Failures, Run(history'[class], r)
       PROVE  Run(h, r)
  <2>1. PICK i \in DOMAIN history'[class] :
          i + 2 \in DOMAIN history'[class] /\ \A j \in i..(i + 2) : history'[class][j] = r
    BY <1>11 DEF Run
  <2>2. i \in 1..(n + 1) /\ i + 2 \in 1..(n + 1)
    BY <1>1, <1>3, <2>1
  <2>3. i + 2 # n + 1
    <3> SUFFICES ASSUME i + 2 = n + 1 PROVE FALSE
      OBVIOUS
    <3>1. r = reason
      BY <1>3, <2>1, <2>2
    <3>2. q.count < n + 1 /\ n + 1 - q.count \in i..(i + 2)
      BY SMTT(30), <1>1, <1>8, <1>11, <2>2
    <3> QED
      BY <1>8, <2>1, <3>1, <3>2
  <2>4. i \in DOMAIN h /\ i + 2 \in DOMAIN h /\ \A j \in i..(i + 2) : h[j] = r
    BY <1>1, <1>3, <2>1, <2>2, <2>3
  <2> QED
    BY <2>4 DEF Run
<1>12. RestrictedIsEarned'
  <2>1. /\ active[class] # "none" => Run(h, active[class])
        /\ active[class] = "none" => \A r \in Restriction!Failures : ~Run(h, r)
    BY DEF RestrictionInv, RestrictedIsEarned
  <2>2. /\ active'[class] # "none" => Run(history'[class], active'[class])
        /\ active'[class] = "none" => \A r \in Restriction!Failures : ~Run(history'[class], r)
    <3>1. CASE q.count >= 3
      BY <1>1, <1>5, <1>10, <3>1
    <3>2. CASE q.count < 3
      <4>1. active'[class] = active[class]
        BY <1>5, <3>2
      <4>2. active[class] # "none" => Run(history'[class], active[class])
        BY <1>1, <1>3, <2>1, RunStays
      <4> QED
        BY <1>11, <2>1, <3>2, <4>1, <4>2
    <3> QED
      BY <1>8, <3>1, <3>2
  <2> QED
    BY <1>4, <2>2 DEF RestrictionInv, RestrictedIsEarned
<1>13. reported' = Restriction!Aggregate(active')
  BY DEF RestrictionInv, Restriction!Refused, Restriction!Reports
<1> QED
  BY <1>6, <1>9, <1>12, <1>13 DEF RestrictionInv

LEMMA WorkedStep ==
    ASSUME RestrictionInv, NEW class \in Classes, Restriction!Worked(class)
    PROVE  RestrictionInv'
<1>1. /\ history' = [history EXCEPT ![class] = <<>>]
      /\ pending' = [pending EXCEPT ![class] = Restriction!Nothing]
      /\ active' = [active EXCEPT ![class] = "none"]
      /\ reported' = Restriction!Aggregate(active')
  BY DEF Restriction!Worked, Restriction!Reports
<1>2. Restriction!Nothing \in Counts /\ Restriction!Nothing.count = 0
  BY DEF Restriction!Nothing, Counts, Restriction!States
<1>3. RestrictionTypes'
  BY <1>1, <1>2 DEF RestrictionInv, RestrictionTypes, Restriction!States
<1>4. /\ history'[class] = <<>> /\ pending'[class].count = 0 /\ active'[class] = "none"
      /\ \A c \in Classes \ {class} : history'[c] = history[c] /\ pending'[c] = pending[c]
                                      /\ active'[c] = active[c]
  BY <1>1, <1>2 DEF RestrictionInv, RestrictionTypes
<1>5. CountIsRun'
  <2>1. RunOf(history'[class], pending'[class], Len(history'[class]))
    BY <1>4 DEF RunOf
  <2>2. \A c \in Classes \ {class} : RunOf(history'[c], pending'[c], Len(history'[c]))
    BY <1>4 DEF RestrictionInv, CountIsRun
  <2> QED
    BY <2>1, <2>2 DEF CountIsRun
<1>6. \A r : ~Run(history'[class], r)
  BY <1>4 DEF Run
<1>8. RestrictedIsEarned'
  BY <1>4, <1>6 DEF RestrictionInv, RestrictedIsEarned
<1> QED
  BY <1>1, <1>3, <1>5, <1>8 DEF RestrictionInv

LEMMA RestrictionBegins == Restriction!Init => RestrictionInv
<1> SUFFICES ASSUME Restriction!Init PROVE RestrictionInv
  OBVIOUS
<1>1. /\ pending = [c \in Classes |-> Restriction!Nothing] /\ active = [c \in Classes |-> "none"]
      /\ history = [c \in Classes |-> <<>>] /\ reported = "none"
  BY DEF Restriction!Init
<1>2. RestrictionTypes
  BY <1>1 DEF RestrictionTypes, Counts, Restriction!Nothing, Restriction!States
<1>3. CountIsRun
  BY <1>1 DEF CountIsRun, RunOf, Restriction!Nothing
<1>4. RestrictedIsEarned
  BY <1>1 DEF RestrictedIsEarned, Run
<1>5. Restriction!Aggregate(active) = "none"
  BY <1>1, <1>2, AggregateIsOne DEF RestrictionTypes
<1> QED
  BY <1>1, <1>2, <1>3, <1>4, <1>5 DEF RestrictionInv

LEMMA RestrictionStep ==
    ASSUME RestrictionInv, [Restriction!Next]_(Restriction!vars)
    PROVE  RestrictionInv'
<1>1. CASE Restriction!Takes \/ Restriction!Sent \/ UNCHANGED Restriction!vars
  <2>1. UNCHANGED <<pending, active, reported, history>>
    BY <1>1 DEF Restriction!Takes, Restriction!Sent, Restriction!vars
  <2> QED
    BY <2>1 DEF RestrictionInv, RestrictionTypes, CountIsRun, RestrictedIsEarned
<1> QED
  BY <1>1, RefusedStep, WorkedStep DEF Restriction!Next

\* A restriction is shown when a class of input is refused again and again, and is not
\* hidden by what works elsewhere.
THEOREM RestrictionStaysTrue == StreamsSpec => []RestrictionIsTrue
<1>1. StreamsInit => RestrictionInv
  BY RestrictionBegins DEF StreamsInit
<1>2. RestrictionInv /\ [StreamsNext]_parts => RestrictionInv'
  <2>1. [StreamsNext]_parts => [Restriction!Next]_(Restriction!vars)
    BY DEF StreamsNext, parts, restrictionVars, Restriction!vars
  <2> QED
    BY <2>1, RestrictionStep
<1>3. RestrictionInv => RestrictionIsTrue
  <2> SUFFICES ASSUME RestrictionInv PROVE RestrictionIsTrue
    OBVIOUS
  <2>1. /\ reported # "none" => \E c \in Classes : active[c] = reported
        /\ reported = "none" => \A c \in Classes : active[c] = "none"
    BY AggregateIsOne DEF RestrictionInv, RestrictionTypes
  <2>2. Restriction!RestrictionIsEarned
    BY <2>1 DEF RestrictionInv, RestrictedIsEarned, Restriction!RestrictionIsEarned,
           Restriction!Persistent, Run
  <2>3. Restriction!RestrictionIsNotHidden
    BY <2>1 DEF RestrictionInv, RestrictedIsEarned, Restriction!RestrictionIsNotHidden,
           Restriction!Persistent, Run
  <2> QED
    BY <2>2, <2>3 DEF RestrictionIsTrue
<1> QED
  BY <1>1, <1>2, <1>3, PTL DEF StreamsSpec

-----------------------------------------------------------------------------
(*                     The choices on their way to the encoder             *)

Waits(k) == queue.pending[k] # Media!Nothing
Works(k) == work.op.kind = k
Free(k) == ~Waits(k) /\ ~Works(k)

ValuesOf == [display |-> Screens, quality |-> Media!Presets, profile |-> Media!Profiles,
             bitrate |-> 1..5]
OpsOf(k) == [serial : Nat, kind : {k}, value : ValuesOf[k]]

Ops == {Media!Nothing} \union UNION {OpsOf(k) : k \in Media!Kinds}

\* The last choice of a kind is the one that waits.
IsQueue(q) ==
    /\ q \in [serial : Nat, latest : [Media!Kinds -> Nat], pending : [Media!Kinds -> Ops]]
    /\ \A k \in Media!Kinds :
         q.pending[k] # Media!Nothing =>
           q.pending[k] \in OpsOf(k) /\ q.latest[k] = q.pending[k].serial

MediaTypes ==
    /\ IsQueue(queue)
    /\ work \in [op : Ops, applied : BOOLEAN, ok : BOOLEAN]
    /\ capture \in [quality : Media!Presets, profile : Media!Profiles, bitrate : 1..5,
                    display : Screens]
    /\ wanted \in [preference : Media!Presets \union {"automatic"}, preset : Media!Presets]
    /\ rate \in [current : 1..5, pending : 0..5, disabled : BOOLEAN]
    /\ told \in [quality : Media!Presets, display : Screens]
    /\ selecting \in BOOLEAN /\ missed \in BOOLEAN

\* A choice that is applied too late to count has been followed by another.
LateIsFollowed ==
    \A k \in {"display", "quality"} :
      Works(k) /\ queue.latest[k] # work.op.serial => Waits(k)

\* What is not on its way has been told, and the gate is shut for a display on its way.
FreeIsTold ==
    /\ Free("quality") => told.quality = capture.quality /\ wanted.preset = capture.quality
    /\ Free("display") => told.display = capture.display
    /\ selecting <=> ~Free("display")

\* A preset chosen by hand waits, is being applied, or has been tried.
WishIsKept ==
    wanted.preference # "automatic" =>
      IF Waits("quality") THEN queue.pending["quality"].value = wanted.preference
      ELSE IF Works("quality")
      THEN /\ work.op.value = wanted.preference
           /\ work.applied => IF work.ok THEN capture.quality = wanted.preference ELSE missed
      ELSE capture.quality = wanted.preference \/ missed

\* A bitrate on its way is one of the preset in use, and is dropped with it.
BitrateIsOfPreset ==
    /\ Media!RateFitsPreset
    /\ Waits("bitrate") => /\ Media!Fits(queue.pending["bitrate"].value, capture.quality)
                           /\ Free("quality") /\ Free("profile")
    /\ Works("bitrate") => Media!Fits(work.op.value, capture.quality)

\* As long as the policy is in use, it knows the bitrate in use and the one that it
\* has asked for.
PolicyKnows ==
    ~rate.disabled =>
      /\ Works("bitrate") =>
           /\ rate.pending = work.op.value /\ queue.latest["bitrate"] = work.op.serial
           /\ ~Waits("bitrate") /\ ~Waits("quality") /\ ~Waits("profile")
           /\ capture.bitrate = IF work.applied /\ work.ok THEN rate.pending ELSE rate.current
      /\ Waits("bitrate") => /\ rate.pending = queue.pending["bitrate"].value
                             /\ capture.bitrate = rate.current /\ ~Works("bitrate")
      /\ Free("quality") /\ Free("bitrate") => capture.bitrate = rate.current /\ rate.pending = 0

MediaInv ==
    /\ MediaTypes
    /\ LateIsFollowed
    /\ FreeIsTold
    /\ WishIsKept
    /\ BitrateIsOfPreset
    /\ PolicyKnows

LEMMA KindsAre ==
    /\ Media!Kinds = {"display", "quality", "profile", "bitrate"}
    /\ Media!Presets = {"smooth", "balanced", "sharp"} /\ Media!Profiles = {"main", "high"}
    /\ "display" \in Media!Kinds /\ "quality" \in Media!Kinds
    /\ "profile" \in Media!Kinds /\ "bitrate" \in Media!Kinds
  BY DEF Media!Kinds, Media!Presets, Media!Profiles

\* What an operation holds is of its kind.
LEMMA OpIsOfKind ==
    ASSUME NEW k \in Media!Kinds, NEW op \in OpsOf(k)
    PROVE  /\ op \in Ops /\ op # Media!Nothing /\ op.kind = k /\ op.serial \in Nat
           /\ op.value \in ValuesOf[k]
<1>1. k # "none"
  BY DEF Media!Kinds
<1> QED
  BY <1>1 DEF OpsOf, Ops, Media!Nothing

LEMMA WorkIsOfKind ==
    ASSUME NEW op \in Ops
    PROVE  /\ op = Media!Nothing => op.kind = "none"
           /\ op.kind \in Media!Kinds \union {"none"}
           /\ op.kind = "none" => op = Media!Nothing
           /\ op # Media!Nothing => op.kind \in Media!Kinds /\ op \in OpsOf(op.kind)
<1>1. CASE op = Media!Nothing
  BY <1>1 DEF Media!Nothing
<1>2. CASE \E k \in Media!Kinds : op \in OpsOf(k)
  <2>1. PICK k \in Media!Kinds : op \in OpsOf(k)
    BY <1>2
  <2>2. op.kind = k /\ op # Media!Nothing
    BY <2>1, OpIsOfKind
  <2> QED
    BY <2>1, <2>2 DEF Media!Kinds
<1> QED
  BY <1>1, <1>2 DEF Ops

\* A request waits in the place of its kind.
LEMMA Requesting ==
    ASSUME NEW q, IsQueue(q), NEW k \in Media!Kinds, NEW v \in ValuesOf[k]
    PROVE  LET r == Media!Request(q, k, v) IN
             /\ IsQueue(r)
             /\ r.pending[k] # Media!Nothing /\ r.pending[k].value = v
             /\ \A j \in Media!Kinds \ {k} : r.pending[j] = q.pending[j] /\ r.latest[j] = q.latest[j]
<1> DEFINE s == Media!NextSerial(q)
           op == [serial |-> s, kind |-> k, value |-> v]
           r == Media!Request(q, k, v)
<1>1. s \in Nat
  BY DEF IsQueue, Media!NextSerial
<1>2. op \in OpsOf(k) /\ op.serial = s /\ op.value = v
  BY <1>1 DEF OpsOf
<1>3. op \in Ops /\ op # Media!Nothing
  BY <1>2, OpIsOfKind
<1>4. r.serial = s /\ r.latest = [q.latest EXCEPT ![k] = s] /\ r.pending = [q.pending EXCEPT ![k] = op]
      /\ r = [serial |-> r.serial, latest |-> r.latest, pending |-> r.pending]
  BY DEF Media!Request
<1> HIDE DEF s, op, r
<1>5. /\ r.latest \in [Media!Kinds -> Nat] /\ r.latest[k] = s
      /\ \A j \in Media!Kinds \ {k} : r.latest[j] = q.latest[j]
  BY <1>1, <1>4 DEF IsQueue
<1>6. /\ r.pending \in [Media!Kinds -> Ops] /\ r.pending[k] = op
      /\ \A j \in Media!Kinds \ {k} : r.pending[j] = q.pending[j]
  BY <1>3, <1>4 DEF IsQueue
<1>7. IsQueue(r)
  <2>1. r \in [serial : Nat, latest : [Media!Kinds -> Nat], pending : [Media!Kinds -> Ops]]
    BY <1>1, <1>4, <1>5, <1>6
  <2>2. \A j \in Media!Kinds :
          r.pending[j] # Media!Nothing =>
            r.pending[j] \in OpsOf(j) /\ r.latest[j] = r.pending[j].serial
    BY <1>2, <1>5, <1>6 DEF IsQueue
  <2> QED
    BY <2>1, <2>2 DEF IsQueue
<1> QED
  BY <1>2, <1>3, <1>5, <1>6, <1>7 DEF r

LEMMA Invalidating ==
    ASSUME NEW q, IsQueue(q), NEW k \in Media!Kinds
    PROVE  LET r == Media!InvalidateKind(q, k) IN
             /\ IsQueue(r) /\ r.pending[k] = Media!Nothing
             /\ \A j \in Media!Kinds \ {k} : r.pending[j] = q.pending[j] /\ r.latest[j] = q.latest[j]
<1> DEFINE s == Media!NextSerial(q)
           r == Media!InvalidateKind(q, k)
<1>1. s \in Nat /\ Media!Nothing \in Ops
  BY DEF IsQueue, Media!NextSerial, Ops
<1>4. r.serial = s /\ r.latest = [q.latest EXCEPT ![k] = s]
      /\ r.pending = [q.pending EXCEPT ![k] = Media!Nothing]
      /\ r = [serial |-> r.serial, latest |-> r.latest, pending |-> r.pending]
  BY DEF Media!InvalidateKind
<1> HIDE DEF s, r
<1>5. /\ r.latest \in [Media!Kinds -> Nat] /\ r.latest[k] = s
      /\ \A j \in Media!Kinds \ {k} : r.latest[j] = q.latest[j]
  BY <1>1, <1>4 DEF IsQueue
<1>6. /\ r.pending \in [Media!Kinds -> Ops] /\ r.pending[k] = Media!Nothing
      /\ \A j \in Media!Kinds \ {k} : r.pending[j] = q.pending[j]
  BY <1>1, <1>4 DEF IsQueue
<1>7. IsQueue(r)
  <2>1. r \in [serial : Nat, latest : [Media!Kinds -> Nat], pending : [Media!Kinds -> Ops]]
    BY <1>1, <1>4, <1>5, <1>6
  <2>2. \A j \in Media!Kinds :
          r.pending[j] # Media!Nothing =>
            r.pending[j] \in OpsOf(j) /\ r.latest[j] = r.pending[j].serial
    BY <1>5, <1>6 DEF IsQueue
  <2> QED
    BY <2>1, <2>2 DEF IsQueue
<1> QED
  BY <1>5, <1>6, <1>7 DEF r

\* A change of the encoder drops the bitrate that waits.
LEMMA QueueingMedia ==
    ASSUME NEW q, IsQueue(q), NEW k \in {"quality", "profile"}, NEW v \in ValuesOf[k]
    PROVE  LET r == Media!QueueMedia(q, k, v) IN
             /\ IsQueue(r) /\ r.pending["bitrate"] = Media!Nothing
             /\ r.pending[k] # Media!Nothing /\ r.pending[k].value = v
             /\ \A j \in Media!Kinds \ {k, "bitrate"} :
                  r.pending[j] = q.pending[j] /\ r.latest[j] = q.latest[j]
<1> DEFINE i == Media!InvalidateKind(q, "bitrate")
<1>1. k \in Media!Kinds /\ k # "bitrate" /\ "bitrate" \in Media!Kinds
  BY KindsAre
<1>2. /\ IsQueue(i) /\ i.pending["bitrate"] = Media!Nothing
      /\ \A j \in Media!Kinds \ {"bitrate"} : i.pending[j] = q.pending[j] /\ i.latest[j] = q.latest[j]
  BY <1>1, Invalidating
<1>3. Media!QueueMedia(q, k, v) = Media!Request(i, k, v)
  BY DEF Media!QueueMedia
<1> HIDE DEF i
<1>4. LET r == Media!Request(i, k, v) IN
        /\ IsQueue(r)
        /\ r.pending[k] # Media!Nothing /\ r.pending[k].value = v
        /\ \A j \in Media!Kinds \ {k} : r.pending[j] = i.pending[j] /\ r.latest[j] = i.latest[j]
  BY <1>1, <1>2, Requesting
<1> QED
  BY <1>1, <1>2, <1>3, <1>4

LEMMA MediaBegins == Media!Init => MediaInv
<1> SUFFICES ASSUME Media!Init PROVE MediaInv
  OBVIOUS
<1>1. /\ queue.serial \in Nat
      /\ queue = [serial |-> queue.serial, latest |-> [k \in Media!Kinds |-> 0],
                  pending |-> [k \in Media!Kinds |-> Media!Nothing]]
  BY StreamsBounds DEF Media!Init
<1>2. IsQueue(queue) /\ \A k \in Media!Kinds : queue.pending[k] = Media!Nothing
  BY <1>1 DEF IsQueue, Ops
<1>3. /\ work = [op |-> Media!Nothing, applied |-> FALSE, ok |-> FALSE] /\ work.op.kind = "none"
      /\ wanted = [preference |-> "automatic", preset |-> "sharp"]
      /\ rate = [current |-> 5, pending |-> 0, disabled |-> FALSE]
      /\ told = [quality |-> "sharp", display |-> capture.display]
      /\ selecting = FALSE /\ missed = FALSE
  BY DEF Media!Init, Media!Nothing
<1>4. /\ capture \in [quality : {"sharp"}, profile : Media!Profiles, bitrate : {5}, display : Screens]
  BY DEF Media!Init, Media!Captures
<1>5. MediaTypes
  <2>1. work \in [op : Ops, applied : BOOLEAN, ok : BOOLEAN]
    BY <1>3 DEF Ops
  <2>2. capture \in [quality : Media!Presets, profile : Media!Profiles, bitrate : 1..5,
                     display : Screens]
    BY <1>4, KindsAre
  <2>3. wanted \in [preference : Media!Presets \union {"automatic"}, preset : Media!Presets]
    BY <1>3, KindsAre
  <2>4. rate \in [current : 1..5, pending : 0..5, disabled : BOOLEAN]
    BY <1>3
  <2>5. told \in [quality : Media!Presets, display : Screens]
    BY <1>3, <2>2, KindsAre
  <2> QED
    BY <1>2, <1>3, <2>1, <2>2, <2>3, <2>4, <2>5 DEF MediaTypes
<1>6. Media!RateFitsPreset
  BY <1>4 DEF Media!RateFitsPreset, Media!Fits, Media!Floor, Media!Ceiling
<1> QED
  BY <1>2, <1>3, <1>4, <1>5, <1>6, KindsAre
    DEF MediaInv, LateIsFollowed, FreeIsTold, WishIsKept,
     BitrateIsOfPreset, PolicyKnows, Waits, Works, Free

\* Messages of the controller leave the worker alone.
LEMMA DisplayStep ==
    ASSUME MediaInv, NEW d \in Screens, Media!SelectDisplay(d) PROVE MediaInv'
<1>1. /\ UNCHANGED <<work, capture, told, missed, wanted, rate>> /\ selecting' = TRUE
      /\ queue' = Media!Request(queue, "display", d) /\ d \in ValuesOf["display"]
  BY DEF Media!SelectDisplay, Media!Receives, ValuesOf
<1>2. /\ IsQueue(queue') /\ Waits("display")'
      /\ \A j \in Media!Kinds \ {"display"} :
           queue'.pending[j] = queue.pending[j] /\ queue'.latest[j] = queue.latest[j]
  BY <1>1, KindsAre, Requesting DEF MediaInv, MediaTypes, Waits
<1>3. \A j \in {"quality", "profile", "bitrate"} :
        /\ queue'.pending[j] = queue.pending[j] /\ queue'.latest[j] = queue.latest[j]
        /\ Waits(j)' <=> Waits(j)
  BY <1>2, KindsAre DEF Waits
<1>4. MediaTypes'
  BY <1>1, <1>2 DEF MediaInv, MediaTypes
<1>5. LateIsFollowed'
  BY <1>1, <1>2, <1>3 DEF MediaInv, LateIsFollowed, Works
<1>6. FreeIsTold'
  BY <1>1, <1>2, <1>3 DEF MediaInv, FreeIsTold, Free, Works
<1>7. WishIsKept'
  BY <1>1, <1>3 DEF MediaInv, WishIsKept, Works
<1>8. BitrateIsOfPreset'
  BY <1>1, <1>3 DEF MediaInv, BitrateIsOfPreset, Media!RateFitsPreset, Free, Works
<1>9. PolicyKnows'
  BY <1>1, <1>3 DEF MediaInv, PolicyKnows, Free, Works
<1> QED
  BY <1>4, <1>5, <1>6, <1>7, <1>8, <1>9 DEF MediaInv

LEMMA RejectedIs ==
    ASSUME NEW r \in [current : 1..5, pending : 0..5, disabled : BOOLEAN]
    PROVE  /\ Media!Rejected(r) \in [current : 1..5, pending : 0..5, disabled : BOOLEAN]
           /\ Media!Rejected(r).disabled
<1>1. Media!Rejected(r) = [current |-> r.current, pending |-> 0, disabled |-> TRUE]
  <2>1. /\ r = [current |-> r.current, pending |-> r.pending, disabled |-> r.disabled]
        /\ DOMAIN r = {"current", "pending", "disabled"}
    OBVIOUS
  <2>2. Media!Rejected(r) = [[r EXCEPT !["disabled"] = TRUE] EXCEPT !["pending"] = 0]
    BY DEF Media!Rejected
  <2> QED
    BY <2>1, <2>2
<1>2. r.current \in 1..5
  OBVIOUS
<1> QED
  BY <1>1, <1>2

\* A choice that reaches the encoder puts the policy aside.
LEMMA MediaChoiceStep ==
    ASSUME MediaInv, NEW k \in {"quality", "profile"}, NEW v \in ValuesOf[k],
           UNCHANGED <<work, capture, told, missed, selecting>>, wanted'.preset = wanted.preset,
           wanted' \in [preference : Media!Presets \union {"automatic"}, preset : Media!Presets],
           rate' = Media!Rejected(rate),
           IsQueue(queue'), ~Waits("bitrate")', Waits(k)', queue'.pending[k].value = v,
           \A j \in Media!Kinds \ {k, "bitrate"} :
             queue'.pending[j] = queue.pending[j] /\ queue'.latest[j] = queue.latest[j],
           k = "quality" /\ wanted'.preference # "automatic" => v = wanted'.preference,
           k = "profile" => wanted' = wanted
    PROVE  MediaInv'
<1>1. rate' \in [current : 1..5, pending : 0..5, disabled : BOOLEAN] /\ rate'.disabled
  BY RejectedIs DEF MediaInv, MediaTypes
<1>2. /\ queue'.pending["display"] = queue.pending["display"]
      /\ queue'.latest["display"] = queue.latest["display"]
      /\ Waits("display")' <=> Waits("display")
  BY KindsAre DEF Waits
<1>3. k = "profile" => /\ queue'.pending["quality"] = queue.pending["quality"]
                       /\ queue'.latest["quality"] = queue.latest["quality"]
                       /\ Waits("quality")' <=> Waits("quality")
  BY KindsAre DEF Waits
<1>4. MediaTypes'
  BY <1>1 DEF MediaInv, MediaTypes
<1>5. LateIsFollowed'
  BY <1>2, <1>3 DEF MediaInv, LateIsFollowed, Works
<1>6. FreeIsTold'
  BY <1>2, <1>3 DEF MediaInv, FreeIsTold, Free, Works
<1>7. WishIsKept'
  BY <1>3 DEF MediaInv, WishIsKept, Works
<1>8. BitrateIsOfPreset'
  BY DEF MediaInv, BitrateIsOfPreset, Media!RateFitsPreset, Works
<1>9. PolicyKnows'
  BY <1>1 DEF PolicyKnows
<1> QED
  BY <1>4, <1>5, <1>6, <1>7, <1>8, <1>9 DEF MediaInv

LEMMA QualityStep ==
    ASSUME MediaInv, NEW p \in Media!Presets \union {"automatic"}, Media!SetVideoQuality(p)
    PROVE  MediaInv'
<1> DEFINE q == Media!InvalidateKind(queue, "quality")
           v == IF p = "automatic" THEN wanted.preset ELSE p
<1>1. /\ UNCHANGED <<work, capture, told, missed, selecting>>
      /\ wanted' = [wanted EXCEPT !.preference = p] /\ rate' = Media!Rejected(rate)
      /\ queue' = Media!QueueMedia(q, "quality", v)
  BY DEF Media!SetVideoQuality, Media!Receives
<1>2. /\ wanted'.preset = wanted.preset /\ wanted'.preference = p
      /\ wanted' \in [preference : Media!Presets \union {"automatic"}, preset : Media!Presets]
  BY <1>1 DEF MediaInv, MediaTypes
<1>3. v \in ValuesOf["quality"]
  BY DEF MediaInv, MediaTypes, ValuesOf
<1>4. IsQueue(q) /\ \A j \in Media!Kinds \ {"quality"} :
                       q.pending[j] = queue.pending[j] /\ q.latest[j] = queue.latest[j]
  BY KindsAre, Invalidating DEF MediaInv, MediaTypes
<1>5. p # "automatic" => v = p
  OBVIOUS
<1> HIDE DEF q, v
<1>6. /\ IsQueue(queue') /\ queue'.pending["bitrate"] = Media!Nothing
      /\ queue'.pending["quality"] # Media!Nothing /\ queue'.pending["quality"].value = v
      /\ \A j \in Media!Kinds \ {"quality", "bitrate"} :
           queue'.pending[j] = q.pending[j] /\ queue'.latest[j] = q.latest[j]
  BY <1>1, <1>3, <1>4, QueueingMedia
<1>7. \A j \in Media!Kinds \ {"quality", "bitrate"} :
        queue'.pending[j] = queue.pending[j] /\ queue'.latest[j] = queue.latest[j]
  BY <1>4, <1>6
<1> QED
  BY <1>1, <1>2, <1>3, <1>5, <1>6, <1>7, MediaChoiceStep DEF Waits

LEMMA ProfileStep ==
    ASSUME MediaInv, NEW p \in Media!Profiles, Media!SetVideoProfile(p) PROVE MediaInv'
<1>1. /\ UNCHANGED <<work, capture, told, missed, selecting, wanted>>
      /\ rate' = Media!Rejected(rate) /\ queue' = Media!QueueMedia(queue, "profile", p)
  BY DEF Media!SetVideoProfile, Media!Receives
<1>2. p \in ValuesOf["profile"] /\ IsQueue(queue)
      /\ wanted \in [preference : Media!Presets \union {"automatic"}, preset : Media!Presets]
  BY DEF MediaInv, MediaTypes, ValuesOf
<1>3. /\ IsQueue(queue') /\ queue'.pending["bitrate"] = Media!Nothing
      /\ queue'.pending["profile"] # Media!Nothing /\ queue'.pending["profile"].value = p
      /\ \A j \in Media!Kinds \ {"profile", "bitrate"} :
           queue'.pending[j] = queue.pending[j] /\ queue'.latest[j] = queue.latest[j]
  BY <1>1, <1>2, QueueingMedia
<1> QED
  BY <1>1, <1>2, <1>3, MediaChoiceStep DEF Waits

LEMMA FeedbackStep ==
    ASSUME MediaInv, Media!Feedback PROVE MediaInv'
<1>1. /\ UNCHANGED <<work, capture, told, missed, selecting, wanted>>
      /\ ~Media!BlocksBitrate /\ wanted.preference = "automatic"
  BY DEF Media!Feedback, Media!Receives
<1>2. Free("quality") /\ Free("profile")
  BY <1>1, KindsAre DEF Media!BlocksBitrate, Media!Waiting, Free, Waits, Works
<1>3. ASSUME NEW b \in Media!Floor[wanted.preset]..Media!Ceiling[wanted.preset],
             ~rate.disabled, rate.pending = 0, rate' = [rate EXCEPT !.pending = b],
             queue' = Media!Request(queue, "bitrate", b)
      PROVE  MediaInv'
  <2>1. b \in 1..5 /\ Media!Fits(b, capture.quality)
    BY <1>2
      DEF MediaInv, MediaTypes, FreeIsTold, Media!Fits, Media!Floor, Media!Ceiling,
          Media!Presets
  <2>2. b \in ValuesOf["bitrate"]
    BY <2>1 DEF ValuesOf
  <2>3. /\ IsQueue(queue') /\ Waits("bitrate")' /\ queue'.pending["bitrate"].value = b
        /\ \A j \in Media!Kinds \ {"bitrate"} :
             queue'.pending[j] = queue.pending[j] /\ queue'.latest[j] = queue.latest[j]
    BY <1>3, <2>2, KindsAre, Requesting DEF MediaInv, MediaTypes, Waits
  <2>4. \A j \in {"quality", "profile", "display"} :
          /\ queue'.pending[j] = queue.pending[j] /\ queue'.latest[j] = queue.latest[j]
          /\ Waits(j)' <=> Waits(j)
    BY <2>3, KindsAre DEF Waits
  <2>5. /\ rate' \in [current : 1..5, pending : 0..5, disabled : BOOLEAN]
        /\ rate'.pending = b /\ rate'.current = rate.current /\ ~rate'.disabled
    BY <1>3, <2>1 DEF MediaInv, MediaTypes
  <2>6. ~Waits("bitrate") /\ ~Works("bitrate") /\ capture.bitrate = rate.current
    <3>1. Works("bitrate") => work.op.value \in 1..5
      BY WorkIsOfKind, OpIsOfKind, KindsAre DEF MediaInv, MediaTypes, Works, ValuesOf
    <3>2. Waits("bitrate") => queue.pending["bitrate"].value \in 1..5
      BY OpIsOfKind, KindsAre DEF MediaInv, MediaTypes, IsQueue, Waits, ValuesOf
    <3> QED
      BY <1>2, <1>3, <3>1, <3>2 DEF MediaInv, PolicyKnows, Free
  <2>7. MediaTypes'
    BY <1>1, <2>3, <2>5 DEF MediaInv, MediaTypes
  <2>8. LateIsFollowed' /\ FreeIsTold'
    BY <1>1, <2>4 DEF MediaInv, LateIsFollowed, FreeIsTold, Free, Works
  <2>9. WishIsKept'
    BY <1>1 DEF WishIsKept
  <2>10. BitrateIsOfPreset'
    BY <1>1, <1>2, <2>1, <2>3, <2>4, <2>6 DEF MediaInv, BitrateIsOfPreset, Media!RateFitsPreset,
       Free, Works
  <2>11. PolicyKnows'
    BY <1>1, <2>3, <2>5, <2>6 DEF PolicyKnows, Free, Works
  <2> QED
    BY <2>7, <2>8, <2>9, <2>10, <2>11 DEF MediaInv
<1>4. ASSUME NEW next \in Media!Presets, rate' = Media!Rejected(rate),
             queue' = Media!QueueMedia(queue, "quality", next)
      PROVE  MediaInv'
  <2>1. next \in ValuesOf["quality"] /\ IsQueue(queue)
        /\ wanted \in [preference : Media!Presets \union {"automatic"}, preset : Media!Presets]
    BY DEF MediaInv, MediaTypes, ValuesOf
  <2>2. /\ IsQueue(queue') /\ queue'.pending["bitrate"] = Media!Nothing
        /\ queue'.pending["quality"] # Media!Nothing /\ queue'.pending["quality"].value = next
        /\ \A j \in Media!Kinds \ {"quality", "bitrate"} :
             queue'.pending[j] = queue.pending[j] /\ queue'.latest[j] = queue.latest[j]
    BY <1>4, <2>1, QueueingMedia
  <2> QED
    BY <1>1, <1>4, <2>1, <2>2, MediaChoiceStep DEF Waits
<1> QED
  BY <1>3, <1>4 DEF Media!Feedback

\* Of the kinds that wait, one has waited longest, and it is popped.
LEMMA OldestWaits ==
    ASSUME IsQueue(queue), Media!Waiting(queue) # {}
    PROVE  LET k == Media!Oldest(queue) IN
             /\ k \in Media!Kinds /\ Waits(k)
             /\ \A j \in Media!Kinds : Waits(j) => Media!Age(queue, j) <= Media!Age(queue, k)
<1> DEFINE W == Media!Waiting(queue)
           rank == [k \in Media!Kinds |-> IF k \in W THEN Media!Age(queue, k) + 1 ELSE 0]
<1>1. \A k \in W : Media!Age(queue, k) \in Nat
  BY StreamsBounds DEF IsQueue, Media!Waiting, Media!Age, OpsOf
<1>2. W \subseteq Media!Kinds /\ \A k \in Media!Kinds : k \in W <=> Waits(k)
  BY DEF Media!Waiting, Waits
<1>3. Media!Oldest(queue) = CHOOSE k \in W : \A j \in W : Media!Age(queue, j) <= Media!Age(queue, k)
  BY DEF Media!Oldest
<1>4. /\ \A k \in Media!Kinds : rank[k] \in Nat
      /\ \A k \in W : rank[k] = Media!Age(queue, k) + 1
      /\ \A k \in Media!Kinds \ W : rank[k] = 0
  BY <1>1, <1>2
<1> HIDE DEF W, rank
<1>5. \E k \in Media!Kinds : \A j \in Media!Kinds : rank[j] <= rank[k]
  <2> DEFINE a == rank["display"]
             b == rank["quality"]
             c == rank["profile"]
             d == rank["bitrate"]
  <2>1. a \in Nat /\ b \in Nat /\ c \in Nat /\ d \in Nat
    BY <1>4, KindsAre
  <2>2. \/ a >= b /\ a >= c /\ a >= d
        \/ b >= a /\ b >= c /\ b >= d
        \/ c >= a /\ c >= b /\ c >= d
        \/ d >= a /\ d >= b /\ d >= c
    <3> HIDE DEF a, b, c, d
    <3> QED
      BY <2>1
  <2>3. a >= b /\ a >= c /\ a >= d => \A j \in Media!Kinds : rank[j] <= rank["display"]
    BY <2>1, KindsAre
  <2>4. b >= a /\ b >= c /\ b >= d => \A j \in Media!Kinds : rank[j] <= rank["quality"]
    BY <2>1, KindsAre
  <2>5. c >= a /\ c >= b /\ c >= d => \A j \in Media!Kinds : rank[j] <= rank["profile"]
    BY <2>1, KindsAre
  <2>6. d >= a /\ d >= b /\ d >= c => \A j \in Media!Kinds : rank[j] <= rank["bitrate"]
    BY <2>1, KindsAre
  <2>7. /\ "display" \in Media!Kinds /\ "quality" \in Media!Kinds
        /\ "profile" \in Media!Kinds /\ "bitrate" \in Media!Kinds
    BY KindsAre
  <2>8. CASE a >= b /\ a >= c /\ a >= d
    BY <2>3, <2>7, <2>8
  <2>9. CASE b >= a /\ b >= c /\ b >= d
    BY <2>4, <2>7, <2>9
  <2>10. CASE c >= a /\ c >= b /\ c >= d
    BY <2>5, <2>7, <2>10
  <2>11. CASE d >= a /\ d >= b /\ d >= c
    BY <2>6, <2>7, <2>11
  <2> QED
    BY <2>2, <2>8, <2>9, <2>10, <2>11
<1>6. PICK k \in Media!Kinds : \A j \in Media!Kinds : rank[j] <= rank[k]
  BY <1>5
<1>7. k \in W
  <2>1. PICK w \in W : TRUE
    BY DEF W
  <2>2. rank[w] \in Nat /\ rank[w] >= 1 /\ rank[w] <= rank[k]
    BY <1>1, <1>2, <1>4, <1>6, <2>1
  <2>3. rank[k] # 0
    BY <1>4, <1>6, <2>2
  <2> QED
    BY <1>4, <1>6, <2>3
<1>8. \A j \in W : Media!Age(queue, j) <= Media!Age(queue, k)
  <2> TAKE j \in W
  <2>1. rank[j] <= rank[k] /\ rank[j] = Media!Age(queue, j) + 1 /\ rank[k] = Media!Age(queue, k) + 1
    BY <1>2, <1>4, <1>6, <1>7
  <2> QED
    BY <1>1, <1>7, <2>1
<1> QED
  BY <1>2, <1>3, <1>7, <1>8

LEMMA StartStep ==
    ASSUME MediaInv, Media!Start PROVE MediaInv'
<1> DEFINE k == Media!Oldest(queue)
<1>1. k \in Media!Kinds /\ Waits(k)
  BY OldestWaits DEF Media!Start, MediaInv, MediaTypes
<1>2. /\ work' = [op |-> queue.pending[k], applied |-> FALSE, ok |-> FALSE]
      /\ queue' = [queue EXCEPT !.pending = [@ EXCEPT ![k] = Media!Nothing]]
      /\ UNCHANGED <<capture, wanted, rate, selecting, told, missed>>
      /\ work.op = Media!Nothing
  BY DEF Media!Start
<1> HIDE DEF k
<1>3. /\ queue.pending[k] \in OpsOf(k) /\ queue.latest[k] = queue.pending[k].serial
      /\ IsQueue(queue)
  BY <1>1 DEF MediaInv, MediaTypes, IsQueue, Waits
<1>4. /\ work'.op = queue.pending[k] /\ work'.applied = FALSE /\ work'.op.kind = k
      /\ work' \in [op : Ops, applied : BOOLEAN, ok : BOOLEAN]
  BY <1>1, <1>2, <1>3, OpIsOfKind
<1>5. /\ IsQueue(queue') /\ queue'.latest = queue.latest /\ queue'.pending[k] = Media!Nothing
      /\ \A j \in Media!Kinds \ {k} : queue'.pending[j] = queue.pending[j]
  <2>1. Media!Nothing \in Ops
    BY DEF Ops
  <2> QED
    BY <1>1, <1>2, <1>3, <2>1 DEF IsQueue
<1>6. \A j \in Media!Kinds : ~Works(j)
  BY <1>2, KindsAre DEF Works, Media!Nothing
<1>7. \A j \in Media!Kinds : /\ Works(j)' <=> j = k
                             /\ Waits(j)' <=> Waits(j) /\ j # k
  BY <1>4, <1>5 DEF Works, Waits
<1>8. \A j \in Media!Kinds : Free(j)' <=> Free(j)
  <2> TAKE j \in Media!Kinds
  <2>1. CASE j = k
    BY <1>1, <1>7, <2>1 DEF Free
  <2>2. CASE j # k
    BY <1>6, <1>7, <2>2 DEF Free
  <2> QED
    BY <2>1, <2>2
<1>9. MediaTypes'
  BY <1>2, <1>4, <1>5 DEF MediaInv, MediaTypes
<1>10. LateIsFollowed'
  BY <1>3, <1>4, <1>5, <1>7, KindsAre DEF LateIsFollowed
<1>11. FreeIsTold'
  BY <1>2, <1>8, KindsAre DEF MediaInv, FreeIsTold
<1>12. WishIsKept'
  BY <1>1, <1>2, <1>4, <1>5, <1>6, <1>7, KindsAre DEF MediaInv, WishIsKept
<1>13. BitrateIsOfPreset'
  BY <1>1, <1>2, <1>4, <1>5, <1>6, <1>7, <1>8, KindsAre DEF MediaInv, BitrateIsOfPreset,
     Media!RateFitsPreset
<1>14. PolicyKnows'
  BY <1>1, <1>2, <1>3, <1>4, <1>5, <1>6, <1>7, <1>8, KindsAre DEF MediaInv, PolicyKnows, Free,
     BitrateIsOfPreset
<1> QED
  BY <1>9, <1>10, <1>11, <1>12, <1>13, <1>14 DEF MediaInv

LEMMA ApplyStep ==
    ASSUME MediaInv, Media!Apply PROVE MediaInv'
<1>1. /\ UNCHANGED <<queue, wanted, rate, selecting, told>>
      /\ work.op # Media!Nothing /\ ~work.applied
  BY DEF Media!Apply
<1>2. PICK ok \in BOOLEAN, mainOnly \in BOOLEAN :
        /\ work' = [op |-> work.op, applied |-> TRUE, ok |-> ok]
        /\ missed' = IF work.op.kind = "quality" THEN ~ok ELSE missed
        /\ capture' = IF ok THEN Media!Configured(work.op, mainOnly) ELSE capture
  BY DEF Media!Apply
<1>3. /\ work.op.kind \in Media!Kinds /\ work.op \in Ops
      /\ work.op.kind = "quality" => work.op.value \in Media!Presets
      /\ work.op.kind = "profile" => work.op.value \in Media!Profiles
      /\ work.op.kind = "bitrate" => work.op.value \in 1..5
      /\ work.op.kind = "display" => work.op.value \in Screens
  BY <1>1, WorkIsOfKind, OpIsOfKind DEF MediaInv, MediaTypes, ValuesOf
<1>4. /\ work' \in [op : Ops, applied : BOOLEAN, ok : BOOLEAN]
      /\ work'.op = work.op /\ work'.applied /\ (work'.ok <=> ok)
  BY <1>2, <1>3
<1>5. \A j \in Media!Kinds : /\ Works(j)' <=> Works(j)
                             /\ Waits(j)' <=> Waits(j)
                             /\ Free(j)' <=> Free(j)
  BY <1>1, <1>4 DEF Works, Waits, Free
<1>6. /\ capture' \in [quality : Media!Presets, profile : Media!Profiles, bitrate : 1..5,
                        display : Screens]
      /\ capture'.quality = IF ok /\ Works("quality") THEN work.op.value ELSE capture.quality
      /\ capture'.bitrate = IF ok /\ Works("quality") THEN Media!Ceiling[work.op.value]
                            ELSE IF ok /\ Works("bitrate") THEN work.op.value ELSE capture.bitrate
      /\ capture'.display = IF ok /\ Works("display") THEN work.op.value ELSE capture.display
  <2>1. CASE ok
    <3> DEFINE c == Media!Configured(work.op, mainOnly)
    <3>1. capture' = c
      BY <1>2, <2>1
    <3>2. capture \in [quality : Media!Presets, profile : Media!Profiles, bitrate : 1..5,
                       display : Screens]
      BY DEF MediaInv, MediaTypes
    <3>3. c.quality = IF Works("quality") THEN work.op.value ELSE capture.quality
      BY DEF Media!Configured, Works
    <3>4. c.profile \in Media!Profiles
      BY <1>3, <3>2, KindsAre DEF Media!Configured
    <3>5. c.bitrate = IF Works("quality") THEN Media!Ceiling[work.op.value]
                      ELSE IF Works("bitrate") THEN work.op.value ELSE capture.bitrate
      BY DEF Media!Configured, Works
    <3>6. c.display = IF Works("display") THEN work.op.value ELSE capture.display
      BY DEF Media!Configured, Works
    <3>7. c = [quality |-> c.quality, profile |-> c.profile, bitrate |-> c.bitrate,
               display |-> c.display]
      BY DEF Media!Configured
    <3> HIDE DEF c
    <3>8. c.quality \in Media!Presets /\ c.display \in Screens
      BY <1>3, <3>2, <3>3, <3>6 DEF Works
    <3>9. c.bitrate \in 1..5
      BY <1>3, <3>2, <3>5, KindsAre DEF Works, Media!Ceiling
    <3> QED
      BY <2>1, <3>1, <3>3, <3>4, <3>5, <3>6, <3>7, <3>8, <3>9
  <2>2. CASE ~ok
    BY <1>2, <2>2 DEF MediaInv, MediaTypes
  <2> QED
    BY <2>1, <2>2
<1>7. MediaTypes'
  <2>1. missed' \in BOOLEAN
    BY <1>2 DEF MediaInv, MediaTypes
  <2> QED
    BY <1>1, <1>4, <1>6, <2>1 DEF MediaInv, MediaTypes
<1>8. LateIsFollowed'
  BY <1>1, <1>4, <1>5, KindsAre DEF MediaInv, LateIsFollowed
<1>9. FreeIsTold'
  BY <1>1, <1>5, <1>6, KindsAre DEF MediaInv, FreeIsTold, Free
<1>10. WishIsKept'
  BY <1>1, <1>2, <1>4, <1>5, <1>6, KindsAre DEF MediaInv, WishIsKept, Works
<1>11. BitrateIsOfPreset'
  <2>1. Media!RateFitsPreset'
    BY <1>3, <1>6, KindsAre DEF MediaInv, BitrateIsOfPreset, Media!RateFitsPreset, Media!Fits,
       Media!Floor, Media!Ceiling, Works
  <2>2. Works("quality") => ~Waits("bitrate") /\ ~Works("bitrate")
    BY DEF MediaInv, BitrateIsOfPreset, Free, Works
  <2>3. Works("bitrate") \/ Waits("bitrate") => capture'.quality = capture.quality
    BY <1>6, <2>2
  <2> QED
    BY <1>1, <1>4, <1>5, <2>1, <2>3, KindsAre DEF MediaInv, BitrateIsOfPreset
<1>12. PolicyKnows'
  <2>1. Works("bitrate") => ~Works("quality")
    BY DEF Works
  <2>2. Waits("bitrate") => ~Works("quality")
    BY DEF MediaInv, BitrateIsOfPreset, Free
  <2> QED
    BY <1>1, <1>4, <1>5, <1>6, <2>1, <2>2, KindsAre DEF MediaInv, PolicyKnows, Free
<1> QED
  BY <1>7, <1>8, <1>9, <1>10, <1>11, <1>12 DEF MediaInv

\* The worker is idle after a completion, whatever it was of.
LEMMA Completed ==
    ASSUME MediaInv, work' = [op |-> Media!Nothing, applied |-> FALSE, ok |-> FALSE],
           UNCHANGED queue
    PROVE  /\ work' \in [op : Ops, applied : BOOLEAN, ok : BOOLEAN]
           /\ \A j \in Media!Kinds : ~Works(j)' /\ (Waits(j)' <=> Waits(j)) /\ (Free(j)' <=> ~Waits(j))
<1>1. Media!Nothing \in Ops /\ work'.op.kind = "none"
  BY DEF Ops, Media!Nothing
<1>2. \A j \in Media!Kinds : ~Works(j)' /\ (Waits(j)' <=> Waits(j))
  BY <1>1, KindsAre DEF Works, Waits
<1> QED
  BY <1>1, <1>2 DEF Free

LEMMA StaleStep ==
    ASSUME MediaInv, Media!CompleteStale PROVE MediaInv'
<1>1. /\ UNCHANGED <<queue, capture, wanted, rate, selecting, told, missed>>
      /\ work' = [op |-> Media!Nothing, applied |-> FALSE, ok |-> FALSE]
      /\ queue.latest[work.op.kind] # work.op.serial
  BY DEF Media!CompleteStale, Media!IsCurrent
<1>2. /\ work' \in [op : Ops, applied : BOOLEAN, ok : BOOLEAN]
      /\ \A j \in Media!Kinds : ~Works(j)' /\ (Waits(j)' <=> Waits(j)) /\ (Free(j)' <=> ~Waits(j))
  BY <1>1, Completed
<1>3. Works("quality") => Waits("quality")
  BY <1>1 DEF MediaInv, LateIsFollowed, Works
<1>4. Works("display") => Waits("display")
  BY <1>1 DEF MediaInv, LateIsFollowed, Works
<1>5. Works("bitrate") => rate.disabled
  BY <1>1 DEF MediaInv, PolicyKnows, Works
<1>6. MediaTypes' /\ LateIsFollowed'
  BY <1>1, <1>2, KindsAre DEF MediaInv, MediaTypes, LateIsFollowed
<1>7. FreeIsTold'
  BY <1>1, <1>2, <1>3, <1>4, KindsAre DEF MediaInv, FreeIsTold, Free
<1>8. WishIsKept'
  BY <1>1, <1>2, <1>3, KindsAre DEF MediaInv, WishIsKept
<1>9. BitrateIsOfPreset'
  BY <1>1, <1>2, KindsAre DEF MediaInv, BitrateIsOfPreset, Media!RateFitsPreset, Free
<1>10. PolicyKnows'
  BY <1>1, <1>2, <1>3, <1>5, KindsAre DEF MediaInv, PolicyKnows, Free
<1> QED
  BY <1>6, <1>7, <1>8, <1>9, <1>10 DEF MediaInv

LEMMA DisplayCompletes ==
    ASSUME MediaInv, Media!CompleteDisplay PROVE MediaInv'
<1>1. /\ UNCHANGED <<queue, capture, wanted, rate, missed>> /\ Works("display")
      /\ work' = [op |-> Media!Nothing, applied |-> FALSE, ok |-> FALSE]
      /\ selecting' = (selecting /\ "display" \in Media!Waiting(queue))
      /\ told' = [told EXCEPT !.display = capture.display]
  BY DEF Media!CompleteDisplay, Media!Completes, Works
<1>2. /\ work' \in [op : Ops, applied : BOOLEAN, ok : BOOLEAN]
      /\ \A j \in Media!Kinds : ~Works(j)' /\ (Waits(j)' <=> Waits(j)) /\ (Free(j)' <=> ~Waits(j))
  BY <1>1, Completed
<1>3. /\ told' \in [quality : Media!Presets, display : Screens]
      /\ told'.quality = told.quality /\ told'.display = capture.display
  BY <1>1 DEF MediaInv, MediaTypes
<1>4. selecting' \in BOOLEAN /\ (selecting' <=> Waits("display"))
  BY <1>1, KindsAre DEF MediaInv, FreeIsTold, Free, Media!Waiting, Waits
<1>5. ~Works("quality") /\ ~Works("profile") /\ ~Works("bitrate")
  BY <1>1 DEF Works
<1>6. MediaTypes' /\ LateIsFollowed'
  BY <1>1, <1>2, <1>3, <1>4, KindsAre DEF MediaInv, MediaTypes, LateIsFollowed
<1>7. FreeIsTold'
  BY <1>1, <1>2, <1>3, <1>4, <1>5, KindsAre DEF MediaInv, FreeIsTold, Free
<1>8. WishIsKept'
  BY <1>1, <1>2, <1>5, KindsAre DEF MediaInv, WishIsKept
<1>9. BitrateIsOfPreset'
  BY <1>1, <1>2, KindsAre DEF MediaInv, BitrateIsOfPreset, Media!RateFitsPreset, Free
<1>10. PolicyKnows'
  BY <1>1, <1>2, <1>5, KindsAre DEF MediaInv, PolicyKnows, Free
<1> QED
  BY <1>6, <1>7, <1>8, <1>9, <1>10 DEF MediaInv

\* The policy begins again with the bitrate in use, or stays aside.
LEMMA ResetIs ==
    ASSUME MediaInv, NEW preset, NEW r, r = Media!Reset(preset)
    PROVE  /\ r \in [current : 1..5, pending : 0..5, disabled : BOOLEAN]
           /\ r.current = capture.bitrate /\ r.pending = 0
<1>1. r = [current |-> capture.bitrate, pending |-> 0,
           disabled |-> ~Media!Fits(capture.bitrate, preset)]
  BY DEF Media!Reset
<1>2. capture.bitrate \in 1..5
  BY DEF MediaInv, MediaTypes
<1>3. (~Media!Fits(capture.bitrate, preset)) \in BOOLEAN
  BY DEF Media!Fits
<1> QED
  BY <1>1, <1>2, <1>3

LEMMA QualityCompletes ==
    ASSUME MediaInv, Media!CompleteQuality PROVE MediaInv'
<1>1. /\ UNCHANGED <<queue, capture, missed, selecting>> /\ Works("quality") /\ work.applied
      /\ work' = [op |-> Media!Nothing, applied |-> FALSE, ok |-> FALSE]
      /\ wanted' = [wanted EXCEPT !.preset = capture.quality]
      /\ rate' = Media!Reset(capture.quality)
      /\ told' = [told EXCEPT !.quality = capture.quality]
  BY DEF Media!CompleteQuality, Media!Completes, Works
<1>2. /\ work' \in [op : Ops, applied : BOOLEAN, ok : BOOLEAN]
      /\ \A j \in Media!Kinds : ~Works(j)' /\ (Waits(j)' <=> Waits(j)) /\ (Free(j)' <=> ~Waits(j))
  BY <1>1, Completed
<1>3. /\ told' \in [quality : Media!Presets, display : Screens]
      /\ told'.display = told.display /\ told'.quality = capture.quality
      /\ wanted' \in [preference : Media!Presets \union {"automatic"}, preset : Media!Presets]
      /\ wanted'.preset = capture.quality /\ wanted'.preference = wanted.preference
  BY <1>1 DEF MediaInv, MediaTypes
<1>4. /\ rate' \in [current : 1..5, pending : 0..5, disabled : BOOLEAN]
      /\ rate'.current = capture.bitrate /\ rate'.pending = 0
  BY <1>1, ResetIs
<1>5. ~Works("display") /\ ~Works("profile") /\ ~Works("bitrate") /\ ~Waits("bitrate")
  BY <1>1 DEF Works, MediaInv, BitrateIsOfPreset, Free
<1>6. MediaTypes' /\ LateIsFollowed'
  BY <1>1, <1>2, <1>3, <1>4, KindsAre DEF MediaInv, MediaTypes, LateIsFollowed
<1>7. FreeIsTold'
  BY <1>1, <1>2, <1>3, <1>5, KindsAre DEF MediaInv, FreeIsTold, Free
<1>8. WishIsKept'
  BY <1>1, <1>2, <1>3, KindsAre DEF MediaInv, WishIsKept
<1>9. BitrateIsOfPreset'
  BY <1>1, <1>2, <1>5, KindsAre DEF MediaInv, BitrateIsOfPreset, Media!RateFitsPreset
<1>10. PolicyKnows'
  BY <1>1, <1>2, <1>4, <1>5, KindsAre DEF PolicyKnows
<1> QED
  BY <1>6, <1>7, <1>8, <1>9, <1>10 DEF MediaInv

LEMMA ProfileCompletes ==
    ASSUME MediaInv, Media!CompleteProfile PROVE MediaInv'
<1>1. /\ UNCHANGED <<queue, capture, missed, selecting, wanted, told>> /\ Works("profile")
      /\ work' = [op |-> Media!Nothing, applied |-> FALSE, ok |-> FALSE]
      /\ rate' = Media!Reset(wanted.preset)
  BY DEF Media!CompleteProfile, Media!Completes, Works
<1>2. /\ work' \in [op : Ops, applied : BOOLEAN, ok : BOOLEAN]
      /\ \A j \in Media!Kinds : ~Works(j)' /\ (Waits(j)' <=> Waits(j)) /\ (Free(j)' <=> ~Waits(j))
  BY <1>1, Completed
<1>4. /\ rate' \in [current : 1..5, pending : 0..5, disabled : BOOLEAN]
      /\ rate'.current = capture.bitrate /\ rate'.pending = 0
  BY <1>1, ResetIs
<1>5. ~Works("display") /\ ~Works("quality") /\ ~Works("bitrate") /\ ~Waits("bitrate")
  BY <1>1 DEF Works, MediaInv, BitrateIsOfPreset, Free
<1>6. MediaTypes' /\ LateIsFollowed'
  BY <1>1, <1>2, <1>4, KindsAre DEF MediaInv, MediaTypes, LateIsFollowed
<1>7. FreeIsTold'
  BY <1>1, <1>2, <1>5, KindsAre DEF MediaInv, FreeIsTold, Free
<1>8. WishIsKept'
  BY <1>1, <1>2, <1>5, KindsAre DEF MediaInv, WishIsKept
<1>9. BitrateIsOfPreset'
  BY <1>1, <1>2, <1>5, KindsAre DEF MediaInv, BitrateIsOfPreset, Media!RateFitsPreset
<1>10. PolicyKnows'
  BY <1>1, <1>2, <1>4, <1>5, KindsAre DEF PolicyKnows
<1> QED
  BY <1>6, <1>7, <1>8, <1>9, <1>10 DEF MediaInv

LEMMA BitrateCompletes ==
    ASSUME MediaInv, Media!CompleteBitrate PROVE MediaInv'
<1>1. /\ UNCHANGED <<queue, capture, missed, selecting, wanted, told>> /\ Works("bitrate")
      /\ work.applied /\ work' = [op |-> Media!Nothing, applied |-> FALSE, ok |-> FALSE]
      /\ rate' = Media!RecordBitrate
  BY DEF Media!CompleteBitrate, Media!Completes, Works
<1>2. /\ work' \in [op : Ops, applied : BOOLEAN, ok : BOOLEAN]
      /\ \A j \in Media!Kinds : ~Works(j)' /\ (Waits(j)' <=> Waits(j)) /\ (Free(j)' <=> ~Waits(j))
  BY <1>1, Completed
<1>3. rate.disabled \/ /\ rate.pending # 0 /\ ~Waits("bitrate")
                       /\ work.ok => capture.bitrate = rate.pending
  <2>1. work.op.value \in 1..5
    BY <1>1, WorkIsOfKind, OpIsOfKind, KindsAre DEF MediaInv, MediaTypes, Works, ValuesOf
  <2> QED
    BY <1>1, <2>1 DEF MediaInv, PolicyKnows
<1>4. /\ rate' \in [current : 1..5, pending : 0..5, disabled : BOOLEAN]
      /\ rate'.disabled \/ (rate'.current = capture.bitrate /\ rate'.pending = 0 /\ ~Waits("bitrate"))
  <2>1. rate \in [current : 1..5, pending : 0..5, disabled : BOOLEAN] /\ capture.bitrate \in 1..5
    BY DEF MediaInv, MediaTypes
  <2>2. CASE rate' = Media!Rejected(rate)
    BY <2>1, <2>2, RejectedIs
  <2>3. CASE rate' = rate /\ (rate.pending = 0 \/ rate.disabled)
    BY <1>3, <2>1, <2>3
  <2>4. CASE rate' = [rate EXCEPT !.current = capture.bitrate, !.pending = 0] /\ ~rate.disabled
    <3>1. rate.disabled \in BOOLEAN /\ DOMAIN rate = {"current", "pending", "disabled"}
      BY <2>1
    <3>2. /\ rate'.current = capture.bitrate /\ rate'.pending = 0
          /\ rate'.disabled = rate.disabled /\ DOMAIN rate' = {"current", "pending", "disabled"}
      BY <2>4, <3>1
    <3>3. rate' \in [current : 1..5, pending : 0..5, disabled : BOOLEAN]
      <4>1. rate = [current |-> rate.current, pending |-> rate.pending, disabled |-> rate.disabled]
        BY <2>1
      <4>2. rate' = [current |-> capture.bitrate, pending |-> 0, disabled |-> rate.disabled]
        BY <2>4, <4>1
      <4> QED
        BY <2>1, <3>1, <4>2
    <3> QED
      BY <1>3, <2>4, <3>2, <3>3
  <2> QED
    BY <1>1, <2>2, <2>3, <2>4 DEF Media!RecordBitrate
<1>5. ~Works("display") /\ ~Works("quality") /\ ~Works("profile")
  BY <1>1 DEF Works
<1>6. MediaTypes' /\ LateIsFollowed'
  BY <1>1, <1>2, <1>4, KindsAre DEF MediaInv, MediaTypes, LateIsFollowed
<1>7. FreeIsTold'
  BY <1>1, <1>2, <1>5, KindsAre DEF MediaInv, FreeIsTold, Free
<1>8. WishIsKept'
  BY <1>1, <1>2, <1>5, KindsAre DEF MediaInv, WishIsKept
<1>9. BitrateIsOfPreset'
  BY <1>1, <1>2, <1>5, KindsAre DEF MediaInv, BitrateIsOfPreset, Media!RateFitsPreset, Free
<1>10. PolicyKnows'
  BY <1>1, <1>2, <1>4, KindsAre DEF PolicyKnows
<1> QED
  BY <1>6, <1>7, <1>8, <1>9, <1>10 DEF MediaInv

LEMMA MediaStep ==
    ASSUME MediaInv, [Media!Next]_(Media!vars) PROVE MediaInv'
<1>1. CASE UNCHANGED Media!vars
  BY <1>1 DEF Media!vars, MediaInv, MediaTypes, LateIsFollowed, FreeIsTold, WishIsKept,
     BitrateIsOfPreset, PolicyKnows, Waits, Works, Free, Media!RateFitsPreset
<1> QED
  BY <1>1, DisplayStep, QualityStep, ProfileStep, FeedbackStep, StartStep, ApplyStep, StaleStep,
     DisplayCompletes, QualityCompletes, ProfileCompletes, BitrateCompletes
     DEF Media!Next, Media!Controller, Media!Completion

\* What the host believes, what it told the controller and what its encoder does agree once
\* all choices are applied, and the bitrate is one of the preset in use and known.
THEOREM ConfigurationStaysAgreed == StreamsSpec => []ConfigurationAgrees
<1>1. StreamsInit => MediaInv
  BY MediaBegins DEF StreamsInit
<1>2. MediaInv /\ [StreamsNext]_parts => MediaInv'
  <2>1. [StreamsNext]_parts => [Media!Next]_(Media!vars)
    BY DEF StreamsNext, parts, mediaVars, Media!vars
  <2> QED
    BY <2>1, MediaStep
<1>3. MediaInv => ConfigurationAgrees
  <2> SUFFICES ASSUME MediaInv PROVE ConfigurationAgrees
    OBVIOUS
  <2>1. Media!Settled => \A k \in Media!Kinds : Free(k)
    BY KindsAre DEF Media!Settled, Media!Waiting, Media!Nothing, Free, Waits, Works
  <2>2. Media!SettledIsTold
    BY <2>1, KindsAre DEF MediaInv, FreeIsTold, Media!SettledIsTold
  <2>3. Media!SettledIsWanted
    BY <2>1, KindsAre DEF MediaInv, WishIsKept, Free, Media!SettledIsWanted
  <2>4. Media!RateKnown
    <3>1. ~Media!BlocksBitrate => Free("quality")
      BY KindsAre DEF Media!BlocksBitrate, Media!Waiting, Free, Waits, Works
    <3> QED
      BY <3>1 DEF MediaInv, PolicyKnows, Free, Media!RateKnown
  <2>5. Media!SelectionGate
    BY DEF MediaInv, FreeIsTold, Free, Waits, Works, Media!SelectionGate
  <2> QED
    BY <2>2, <2>3, <2>4, <2>5 DEF MediaInv, BitrateIsOfPreset, ConfigurationAgrees
<1> QED
  BY <1>1, <1>2, <1>3, PTL DEF StreamsSpec

-----------------------------------------------------------------------------
(*                     The order of the choices                            *)

Sent == Choices - messages

\* Each choice that waits is younger than those of the messages before its own, and its age
\* does not come round.
OrderInv ==
    /\ messages \in 0..Choices /\ asked \in [Media!Kinds -> 0..Choices]
    /\ queue.serial \in 0..MaxSerial
    /\ \A k \in Media!Kinds : Waits(k) =>
         /\ queue.pending[k].serial \in 1..MaxSerial
         /\ asked[k] \in 1..Sent
         /\ Media!Age(queue, k) <= 4 * (Sent - asked[k])
    /\ \A j, k \in Media!Kinds : Waits(j) /\ Waits(k) /\ j # k =>
         /\ asked[j] # asked[k]
         /\ asked[j] < asked[k] => Media!Age(queue, j) > Media!Age(queue, k)

\* The age of a serial, by wrapping_sub, and the serial after it.
Distance(s, p) == (s + MaxSerial + 1 - p) % (MaxSerial + 1)
Following(s) == IF s = MaxSerial THEN 1 ELSE s + 1

LEMMA RemainderIs ==
    ASSUME NEW a \in Nat, NEW n \in Nat \ {0}, a < 2 * n
    PROVE  a % n = IF a < n THEN a ELSE a - n
  OBVIOUS

LEMMA DistanceIs ==
    ASSUME NEW s \in 0..MaxSerial, NEW p \in 1..MaxSerial
    PROVE  Distance(s, p) = IF p <= s THEN s - p ELSE s + MaxSerial + 1 - p
<1> DEFINE a == s + MaxSerial + 1 - p
           n == MaxSerial + 1
<1>1. a \in Nat /\ n \in Nat \ {0} /\ a < 2 * n
  BY StreamsBounds
<1>2. a % n = IF a < n THEN a ELSE a - n
  <2> HIDE DEF a, n
  <2> QED
    BY <1>1, RemainderIs
<1>3. (a < n <=> ~(p <= s)) /\ a - n = s - p
  BY StreamsBounds
<1> QED
  BY <1>2, <1>3 DEF Distance

\* A serial grows older by one, or by two when the counter comes round.
LEMMA GrowsOlder ==
    ASSUME NEW s \in 0..MaxSerial, NEW p \in 1..MaxSerial, Distance(s, p) <= MaxSerial - 2
    PROVE  /\ Following(s) \in 1..MaxSerial
           /\ Distance(Following(s), p) =
                Distance(s, p) + (IF s = MaxSerial THEN 2 ELSE 1)
<1>1. Following(s) \in 1..MaxSerial
  BY StreamsBounds DEF Following
<1>2. /\ Distance(s, p) = IF p <= s THEN s - p ELSE s + MaxSerial + 1 - p
      /\ Distance(Following(s), p) =
           IF p <= Following(s) THEN Following(s) - p ELSE Following(s) + MaxSerial + 1 - p
  BY <1>1, DistanceIs
<1>3. CASE s = MaxSerial
  <2>1. Following(s) = 1 /\ p > 1 /\ Distance(s, p) = s - p
    BY <1>2, <1>3, StreamsBounds DEF Following
  <2> QED
    BY <1>1, <1>2, <1>3, <2>1, StreamsBounds
<1>4. CASE s # MaxSerial
  <2>1. Following(s) = s + 1 /\ p # s + 1
    BY <1>2, <1>4, StreamsBounds DEF Following
  <2> QED
    BY <1>1, <1>2, <1>4, <2>1, StreamsBounds
<1> QED
  BY <1>3, <1>4

\* The three steps of the counter that a message takes at most.
Afters(s) == {Following(s), Following(Following(s)), Following(Following(Following(s)))}

LEMMA MessageAges ==
    ASSUME NEW s \in 0..MaxSerial, NEW t \in Afters(s)
    PROVE  \E grown \in 1..4 :
             \A p \in 1..MaxSerial :
               Distance(s, p) <= MaxSerial - 5 => Distance(t, p) = Distance(s, p) + grown
<1> DEFINE s1 == Following(s)
           s2 == Following(s1)
           s3 == Following(s2)
           step(x) == IF x = MaxSerial THEN 2 ELSE 1
<1>1. ASSUME NEW p \in 1..MaxSerial, Distance(s, p) <= MaxSerial - 5
      PROVE  /\ Distance(s1, p) = Distance(s, p) + step(s)
             /\ Distance(s2, p) = Distance(s, p) + step(s) + step(s1)
             /\ Distance(s3, p) = Distance(s, p) + step(s) + step(s1) + step(s2)
             /\ step(s) + step(s1) + step(s2) \in 3..4
  <2> DEFINE d(x) == Distance(x, p)
  <2>0. d(s) \in Nat /\ MaxSerial \in Nat /\ MaxSerial >= 5 /\ d(s) <= MaxSerial - 5
    <3>1. d(s) = IF p <= s THEN s - p ELSE s + MaxSerial + 1 - p
      BY DistanceIs
    <3>2. d(s) <= MaxSerial - 5
      BY <1>1
    <3> HIDE DEF d
    <3> QED
      BY <3>1, <3>2, StreamsBounds
  <2>1. s1 \in 1..MaxSerial /\ d(s1) = d(s) + step(s)
    BY <2>0, GrowsOlder
  <2>2. s2 \in 1..MaxSerial /\ d(s2) = d(s1) + step(s1)
    <3> HIDE DEF s1
    <3>1. s1 \in 0..MaxSerial
      BY <2>0, <2>1
    <3>2. d(s1) <= MaxSerial - 2
      <4> HIDE DEF d
      <4> QED
        BY <2>0, <2>1
    <3> QED
      BY <3>1, <3>2, GrowsOlder
  <2>3. d(s3) = d(s2) + step(s2)
    <3> HIDE DEF s1, s2
    <3>1. s2 \in 0..MaxSerial
      BY <2>0, <2>2
    <3>2. d(s2) <= MaxSerial - 2
      <4> HIDE DEF d
      <4> QED
        BY <2>0, <2>1, <2>2
    <3> QED
      BY <3>1, <3>2, GrowsOlder
  <2>4. s = MaxSerial => s1 # MaxSerial /\ s2 # MaxSerial
    BY <2>0 DEF Following
  <2>5. s1 = MaxSerial => s2 # MaxSerial
    BY <2>0 DEF Following
  <2> HIDE DEF s1, s2, s3, d
  <2>6. /\ d(s1) = d(s) + step(s) /\ d(s2) = d(s) + step(s) + step(s1)
        /\ d(s3) = d(s) + step(s) + step(s1) + step(s2)
        /\ step(s) + step(s1) + step(s2) \in 3..4
    BY <2>0, <2>1, <2>2, <2>3, <2>4, <2>5
  <2> QED
    BY <2>6 DEF d
<1>2. t = s1 \/ t = s2 \/ t = s3
  BY DEF Afters
<1>3. step(s) \in 1..2 /\ step(s1) \in 1..2 /\ step(s2) \in 1..2
  OBVIOUS
<1> HIDE DEF s1, s2, s3
<1>4. CASE t = s1
  <2>1. step(s) \in 1..4
    BY <1>3
  <2> QED
    BY <1>1, <1>4, <2>1
<1>5. CASE t = s2
  <2>1. step(s) + step(s1) \in 1..4
    BY <1>3
  <2>2. \A p \in 1..MaxSerial :
          Distance(s, p) <= MaxSerial - 5 => Distance(t, p) = Distance(s, p) + (step(s) + step(s1))
    <3> SUFFICES ASSUME NEW p \in 1..MaxSerial, Distance(s, p) <= MaxSerial - 5
                 PROVE  Distance(t, p) = Distance(s, p) + (step(s) + step(s1))
      OBVIOUS
    <3> QED
      BY <1>1, <1>3, <1>5, DistanceIs, StreamsBounds
  <2> QED
    BY <2>1, <2>2
<1>6. CASE t = s3
  <2>1. \A p \in 1..MaxSerial :
          Distance(s, p) <= MaxSerial - 5 =>
            /\ Distance(t, p) = Distance(s, p) + (step(s) + step(s1) + step(s2))
            /\ step(s) + step(s1) + step(s2) \in 1..4
    <3> SUFFICES ASSUME NEW p \in 1..MaxSerial, Distance(s, p) <= MaxSerial - 5
                 PROVE  /\ Distance(t, p) = Distance(s, p) + (step(s) + step(s1) + step(s2))
                        /\ step(s) + step(s1) + step(s2) \in 1..4
      OBVIOUS
    <3>1. /\ Distance(t, p) = Distance(s, p) + step(s) + step(s1) + step(s2)
          /\ step(s) + step(s1) + step(s2) \in 3..4
      BY <1>1, <1>6
    <3>2. Distance(s, p) \in Int
      BY StreamsBounds DEF Distance
    <3> HIDE DEF step
    <3> QED
      BY <1>3, <3>1, <3>2
  <2>2. CASE \E p \in 1..MaxSerial : Distance(s, p) <= MaxSerial - 5
    BY <2>1, <2>2
  <2>3. CASE ~\E p \in 1..MaxSerial : Distance(s, p) <= MaxSerial - 5
    BY <2>3
  <2> QED
    BY <2>2, <2>3
<1> QED
  BY <1>2, <1>4, <1>5, <1>6

LEMMA AgeIsDistance ==
    \A k \in Media!Kinds : Media!Age(queue, k) = Distance(queue.serial, queue.pending[k].serial)
  BY DEF Media!Age, Distance

LEMMA AgeIsDistanceAfter ==
    \A k \in Media!Kinds :
      Media!Age(queue, k)' = Distance(queue'.serial, queue'.pending[k].serial)
  BY DEF Media!Age, Distance

\* A message makes what waits older, and asks for something new.
LEMMA MessageOrders ==
    ASSUME OrderInv, NEW k \in Media!Kinds,
           messages > 0, messages' = messages - 1,
           asked' = [asked EXCEPT ![k] = Choices + 1 - messages],
           queue'.serial \in Afters(queue.serial), queue'.pending[k].serial = queue'.serial,
           \A j \in Media!Kinds \ {k} :
             Waits(j)' => Waits(j) /\ queue'.pending[j] = queue.pending[j]
    PROVE  OrderInv'
<1>1. /\ Choices \in Nat /\ MaxSerial \in Nat /\ MaxSerial > 4 * Choices
      /\ messages \in 1..Choices /\ messages' \in 0..Choices /\ Sent' = Sent + 1
      /\ Sent \in 0..(Choices - 1)
  BY StreamsBounds DEF OrderInv, Sent
<1>2. /\ asked' \in [Media!Kinds -> 0..Choices] /\ asked'[k] = Sent + 1
      /\ \A j \in Media!Kinds \ {k} : asked'[j] = asked[j]
  BY <1>1 DEF OrderInv, Sent
<1>3. queue'.serial \in 1..MaxSerial
  <2>1. \A s \in 0..MaxSerial : Following(s) \in 1..MaxSerial
    BY <1>1 DEF Following
  <2> QED
    BY <2>1 DEF OrderInv, Afters
<1>4. PICK grown \in 1..4 :
        \A p \in 1..MaxSerial :
          Distance(queue.serial, p) <= MaxSerial - 5 =>
            Distance(queue'.serial, p) = Distance(queue.serial, p) + grown
  BY MessageAges DEF OrderInv
<1> DEFINE was(j) == Distance(queue.serial, queue.pending[j].serial)
           is(j) == Distance(queue'.serial, queue'.pending[j].serial)
<1>5. ASSUME NEW j \in Media!Kinds \ {k}, Waits(j)'
      PROVE  /\ Waits(j) /\ queue'.pending[j].serial \in 1..MaxSerial
             /\ asked'[j] = asked[j] /\ asked[j] \in 1..Sent
             /\ was(j) \in Nat /\ is(j) = was(j) + grown
             /\ is(j) <= 4 * (Sent + 1 - asked[j])
  <2>1. Waits(j) /\ queue'.pending[j] = queue.pending[j] /\ asked'[j] = asked[j]
    BY <1>2, <1>5
  <2>2. /\ queue.pending[j].serial \in 1..MaxSerial /\ asked[j] \in 1..Sent
        /\ was(j) <= 4 * (Sent - asked[j]) /\ queue.serial \in 0..MaxSerial
    BY <2>1, AgeIsDistance DEF OrderInv
  <2>3. was(j) \in Nat
    <3> DEFINE p == queue.pending[j].serial
    <3>1. p \in 1..MaxSerial /\ queue.serial \in 0..MaxSerial
      BY <2>2
    <3>2. was(j) = IF p <= queue.serial THEN queue.serial - p ELSE queue.serial + MaxSerial + 1 - p
      BY <3>1, DistanceIs
    <3> HIDE DEF p, was
    <3> QED
      BY <1>1, <3>1, <3>2
  <2>4. was(j) <= MaxSerial - 5
    <3> HIDE DEF was
    <3> QED
      BY <1>1, <2>2, <2>3
  <2>5. is(j) = was(j) + grown
    BY <1>4, <2>1, <2>2, <2>4
  <2> HIDE DEF is, was
  <2>6. is(j) <= 4 * (Sent + 1 - asked[j])
    BY <1>1, <2>2, <2>3, <2>5
  <2> QED
    BY <2>1, <2>2, <2>3, <2>5, <2>6
<1>6. is(k) = 0
  <2>1. \A s \in 1..MaxSerial : Distance(s, s) = 0
    BY <1>1, DistanceIs
  <2> QED
    BY <1>3, <2>1
<1>7. \A j \in Media!Kinds : Media!Age(queue, j) = was(j) /\ Media!Age(queue, j)' = is(j)
  BY AgeIsDistance, AgeIsDistanceAfter
<1> HIDE DEF was, is
<1>8. \A j \in Media!Kinds : Waits(j)' =>
        /\ queue'.pending[j].serial \in 1..MaxSerial
        /\ asked'[j] \in 1..Sent'
        /\ is(j) <= 4 * (Sent' - asked'[j])
  <2> SUFFICES ASSUME NEW j \in Media!Kinds, Waits(j)'
               PROVE  /\ queue'.pending[j].serial \in 1..MaxSerial
                      /\ asked'[j] \in 1..Sent' /\ is(j) <= 4 * (Sent' - asked'[j])
    OBVIOUS
  <2>1. CASE j = k
    BY <1>1, <1>2, <1>3, <1>6, <2>1
  <2>2. CASE j # k
    BY <1>1, <1>5, <2>2
  <2> QED
    BY <2>1, <2>2
<1>9. \A i, j \in Media!Kinds : Waits(i)' /\ Waits(j)' /\ i # j =>
        /\ asked'[i] # asked'[j]
        /\ asked'[i] < asked'[j] => is(i) > is(j)
  <2> SUFFICES ASSUME NEW i \in Media!Kinds, NEW j \in Media!Kinds, Waits(i)', Waits(j)', i # j
               PROVE  /\ asked'[i] # asked'[j]
                      /\ asked'[i] < asked'[j] => is(i) > is(j)
    OBVIOUS
  <2>1. CASE i = k
    <3>1. asked'[j] \in 1..Sent /\ asked'[i] = Sent + 1
      BY <1>2, <1>5, <2>1
    <3> QED
      BY <1>1, <3>1
  <2>2. CASE j = k
    <3>1. asked'[i] \in 1..Sent /\ asked'[j] = Sent + 1 /\ is(i) = was(i) + grown /\ was(i) \in Nat
      BY <1>2, <1>5, <2>2
    <3> QED
      BY <1>1, <1>6, <2>2, <3>1
  <2>3. CASE i # k /\ j # k
    <3>1. /\ Waits(i) /\ Waits(j) /\ asked'[i] = asked[i] /\ asked'[j] = asked[j]
          /\ is(i) = was(i) + grown /\ was(i) \in Nat /\ is(j) = was(j) + grown /\ was(j) \in Nat
      BY <1>5, <2>3
    <3>2. /\ asked[i] # asked[j]
          /\ asked[i] < asked[j] => was(i) > was(j)
      BY <1>7, <3>1 DEF OrderInv
    <3> QED
      BY <3>1, <3>2
  <2> QED
    BY <2>1, <2>2, <2>3
<1>10. queue'.serial \in 0..MaxSerial
  BY <1>1, <1>3
<1> QED
  BY <1>1, <1>2, <1>7, <1>8, <1>9, <1>10 DEF OrderInv

\* Nothing is asked for: what is popped waits no more.
LEMMA OthersOrder ==
    ASSUME OrderInv, UNCHANGED <<messages, asked>>, queue'.serial = queue.serial,
           \A j \in Media!Kinds : Waits(j)' => Waits(j) /\ queue'.pending[j] = queue.pending[j]
    PROVE  OrderInv'
<1>1. Sent' = Sent
  BY DEF Sent
<1>2. \A j \in Media!Kinds : Waits(j)' => Media!Age(queue, j)' = Media!Age(queue, j)
  BY AgeIsDistance, AgeIsDistanceAfter
<1> QED
  BY <1>1, <1>2 DEF OrderInv

LEMMA OrderBegins == Media!Init => OrderInv
<1> SUFFICES ASSUME Media!Init PROVE OrderInv
  OBVIOUS
<1>1. /\ queue.serial \in 0..MaxSerial /\ messages = Choices
      /\ asked = [k \in Media!Kinds |-> 0]
      /\ queue.pending = [k \in Media!Kinds |-> Media!Nothing]
  BY StreamsBounds DEF Media!Init
<1>2. \A k \in Media!Kinds : ~Waits(k)
  BY <1>1 DEF Waits
<1> QED
  BY <1>1, <1>2, StreamsBounds DEF OrderInv

\* The serial of a request is the next one.
LEMMA RequestSerial ==
    ASSUME NEW q, DOMAIN q.pending = Media!Kinds, NEW k \in Media!Kinds, NEW v
    PROVE  LET r == Media!Request(q, k, v) IN
             /\ r.serial = Following(q.serial) /\ r.pending[k].serial = r.serial
             /\ DOMAIN r.pending = Media!Kinds
             /\ \A j \in Media!Kinds \ {k} : r.pending[j] = q.pending[j]
  BY DEF Media!Request, Media!NextSerial, Following

LEMMA InvalidateSerial ==
    ASSUME NEW q, DOMAIN q.pending = Media!Kinds, NEW k \in Media!Kinds
    PROVE  LET r == Media!InvalidateKind(q, k) IN
             /\ r.serial = Following(q.serial) /\ DOMAIN r.pending = Media!Kinds
             /\ r.pending[k] = Media!Nothing
             /\ \A j \in Media!Kinds \ {k} : r.pending[j] = q.pending[j]
  BY DEF Media!InvalidateKind, Media!NextSerial, Following

LEMMA QueueMediaSerial ==
    ASSUME NEW q, DOMAIN q.pending = Media!Kinds, NEW k \in Media!Kinds \ {"bitrate"}, NEW v
    PROVE  LET r == Media!QueueMedia(q, k, v) IN
             /\ r.serial = Following(Following(q.serial)) /\ r.pending[k].serial = r.serial
             /\ r.pending["bitrate"] = Media!Nothing
             /\ \A j \in Media!Kinds \ {k, "bitrate"} : r.pending[j] = q.pending[j]
<1> DEFINE i == Media!InvalidateKind(q, "bitrate")
<1>1. /\ i.serial = Following(q.serial) /\ DOMAIN i.pending = Media!Kinds
      /\ i.pending["bitrate"] = Media!Nothing
      /\ \A j \in Media!Kinds \ {"bitrate"} : i.pending[j] = q.pending[j]
  BY KindsAre, InvalidateSerial
<1>2. Media!QueueMedia(q, k, v) = Media!Request(i, k, v)
  BY DEF Media!QueueMedia
<1> HIDE DEF i
<1>3. LET r == Media!Request(i, k, v) IN
        /\ r.serial = Following(i.serial) /\ r.pending[k].serial = r.serial
        /\ \A j \in Media!Kinds \ {k} : r.pending[j] = i.pending[j]
  BY <1>1, RequestSerial
<1> QED
  BY <1>1, <1>2, <1>3, KindsAre

LEMMA ControllerOrders ==
    ASSUME MediaInv, OrderInv, Media!Controller PROVE OrderInv'
<1>1. DOMAIN queue.pending = Media!Kinds
  BY DEF MediaInv, MediaTypes, IsQueue
<1>2. messages > 0 /\ messages' = messages - 1
  BY DEF Media!Controller, Media!SelectDisplay, Media!SetVideoQuality, Media!SetVideoProfile,
     Media!Feedback, Media!Receives
<1>3. ASSUME NEW k \in Media!Kinds, Media!Asks(k), NEW v, queue' = Media!Request(queue, k, v)
      PROVE  OrderInv'
  <2>1. /\ queue'.serial = Following(queue.serial) /\ queue'.pending[k].serial = queue'.serial
        /\ \A j \in Media!Kinds \ {k} : queue'.pending[j] = queue.pending[j]
    BY <1>1, <1>3, RequestSerial
  <2>2. queue'.serial \in Afters(queue.serial)
    BY <2>1 DEF Afters
  <2> QED
    BY <1>2, <1>3, <2>1, <2>2, MessageOrders DEF Media!Asks, Waits
<1>4. ASSUME NEW k \in Media!Kinds \ {"bitrate"}, Media!Asks(k), NEW v,
             queue' = Media!QueueMedia(queue, k, v)
      PROVE  OrderInv'
  <2>1. /\ queue'.serial = Following(Following(queue.serial))
        /\ queue'.pending[k].serial = queue'.serial
        /\ queue'.pending["bitrate"] = Media!Nothing
        /\ \A j \in Media!Kinds \ {k, "bitrate"} : queue'.pending[j] = queue.pending[j]
    BY <1>1, <1>4, QueueMediaSerial
  <2>2. queue'.serial \in Afters(queue.serial)
    BY <2>1 DEF Afters
  <2> QED
    BY <1>2, <1>4, <2>1, <2>2, MessageOrders DEF Media!Asks, Waits
<1>5. ASSUME Media!Asks("quality"), NEW v,
             queue' = Media!QueueMedia(Media!InvalidateKind(queue, "quality"), "quality", v)
      PROVE  OrderInv'
  <2> DEFINE i == Media!InvalidateKind(queue, "quality")
  <2>1. /\ i.serial = Following(queue.serial) /\ DOMAIN i.pending = Media!Kinds
        /\ \A j \in Media!Kinds \ {"quality"} : i.pending[j] = queue.pending[j]
    BY <1>1, KindsAre, InvalidateSerial
  <2>2. queue' = Media!QueueMedia(i, "quality", v)
    BY <1>5
  <2> HIDE DEF i
  <2>3. /\ queue'.serial = Following(Following(i.serial))
        /\ queue'.pending["quality"].serial = queue'.serial
        /\ queue'.pending["bitrate"] = Media!Nothing
        /\ \A j \in Media!Kinds \ {"quality", "bitrate"} : queue'.pending[j] = i.pending[j]
    BY <2>1, <2>2, KindsAre, QueueMediaSerial
  <2>4. queue'.serial \in Afters(queue.serial)
    BY <2>1, <2>3 DEF Afters
  <2>5. \A j \in Media!Kinds \ {"quality"} :
          Waits(j)' => Waits(j) /\ queue'.pending[j] = queue.pending[j]
    BY <2>1, <2>3 DEF Waits
  <2> QED
    BY <1>2, <1>5, <2>3, <2>4, <2>5, KindsAre, MessageOrders DEF Media!Asks
<1>6. ASSUME NEW d \in Screens, Media!SelectDisplay(d) PROVE OrderInv'
  BY <1>3, <1>6, KindsAre DEF Media!SelectDisplay
<1>7. ASSUME NEW p \in Media!Presets \union {"automatic"}, Media!SetVideoQuality(p) PROVE OrderInv'
  BY <1>5, <1>7 DEF Media!SetVideoQuality
<1>8. ASSUME NEW p \in Media!Profiles, Media!SetVideoProfile(p) PROVE OrderInv'
  BY <1>4, <1>8, KindsAre DEF Media!SetVideoProfile
<1>9. CASE Media!Feedback
  BY <1>3, <1>4, <1>9, KindsAre DEF Media!Feedback
<1> QED
  BY <1>6, <1>7, <1>8, <1>9 DEF Media!Controller

LEMMA OrderStep ==
    ASSUME MediaInv, OrderInv, [Media!Next]_(Media!vars) PROVE OrderInv'
<1>1. CASE Media!Controller
  BY <1>1, ControllerOrders
<1>2. CASE Media!Start
  <2> DEFINE k == Media!Oldest(queue)
  <2>1. UNCHANGED <<messages, asked>>
        /\ queue' = [queue EXCEPT !.pending = [@ EXCEPT ![k] = Media!Nothing]]
    BY <1>2 DEF Media!Start
  <2> HIDE DEF k
  <2>2. /\ queue'.serial = queue.serial
        /\ \A j \in Media!Kinds :
             queue'.pending[j] = queue.pending[j] \/ queue'.pending[j] = Media!Nothing
    BY <2>1 DEF MediaInv, MediaTypes, IsQueue
  <2> QED
    BY <2>1, <2>2, OthersOrder DEF Waits
<1>3. CASE Media!Completion \/ Media!Apply \/ UNCHANGED Media!vars
  <2>1. UNCHANGED <<messages, asked, queue>>
    BY <1>3 DEF Media!Completion, Media!CompleteStale, Media!CompleteDisplay,
       Media!CompleteQuality, Media!CompleteProfile, Media!CompleteBitrate, Media!Completes,
       Media!Apply, Media!vars
  <2> QED
    BY <2>1, OthersOrder DEF Waits
<1> QED
  BY <1>1, <1>2, <1>3 DEF Media!Next

\* What the worker is given next has waited longest.
LEMMA OldestIsStarted ==
    ASSUME MediaInv, OrderInv, [Media!Next]_(Media!vars),
           NEW k \in Media!Waiting(queue), work.op = Media!Nothing, work'.op = queue.pending[k],
           NEW j \in Media!Waiting(queue)
    PROVE  asked[k] <= asked[j]
<1>1. /\ k \in Media!Kinds /\ Waits(k) /\ j \in Media!Kinds /\ Waits(j)
      /\ queue.pending[k] \in OpsOf(k) /\ IsQueue(queue)
  BY DEF Media!Waiting, Waits, MediaInv, MediaTypes, IsQueue
<1>2. Media!Start
  <2>1. work'.op # Media!Nothing
    BY <1>1 DEF Waits
  <2>2. UNCHANGED Media!vars => work' = work
    BY DEF Media!vars
  <2>3. Media!Controller => work' = work
    BY DEF Media!Controller, Media!SelectDisplay, Media!SetVideoQuality, Media!SetVideoProfile,
       Media!Feedback, Media!Receives
  <2>4. Media!Completion => work'.op = Media!Nothing
    BY DEF Media!Completion, Media!CompleteStale, Media!CompleteDisplay,
       Media!CompleteQuality, Media!CompleteProfile, Media!CompleteBitrate, Media!Completes
  <2>5. Media!Apply => work.op # Media!Nothing
    BY DEF Media!Apply
  <2> QED
    BY <2>1, <2>2, <2>3, <2>4, <2>5 DEF Media!Next
<1> DEFINE o == Media!Oldest(queue)
<1>3. /\ o \in Media!Kinds /\ Waits(o)
      /\ \A i \in Media!Kinds : Waits(i) => Media!Age(queue, i) <= Media!Age(queue, o)
  BY <1>1, <1>2, OldestWaits DEF Media!Start
<1>4. work'.op = queue.pending[o]
  BY <1>2 DEF Media!Start
<1> HIDE DEF o
<1>5. queue.pending[o] \in OpsOf(o)
  BY <1>1, <1>3 DEF IsQueue, Waits
<1>6. o = k
  BY <1>1, <1>3, <1>4, <1>5, OpIsOfKind
<1>7. Media!Age(queue, j) <= Media!Age(queue, k) /\ Media!Age(queue, j) \in Int
      /\ Media!Age(queue, k) \in Int
  <2>1. \A s \in 0..MaxSerial, p \in 1..MaxSerial : Distance(s, p) \in Int
    BY StreamsBounds DEF Distance
  <2> QED
    BY <1>1, <1>3, <1>6, <2>1, AgeIsDistance DEF OrderInv
<1>8. asked[k] \in Nat /\ asked[j] \in Nat
  BY <1>1 DEF OrderInv
<1> QED
  BY <1>1, <1>7, <1>8 DEF OrderInv

\* Choices of different kinds are applied in the order they were made in.
THEOREM OldestGoesFirst == StreamsSpec => OldestFirst
<1>1. StreamsInit => MediaInv /\ OrderInv
  BY MediaBegins, OrderBegins DEF StreamsInit
<1>2. [StreamsNext]_parts => [Media!Next]_(Media!vars)
  BY DEF StreamsNext, parts, mediaVars, Media!vars
<1>3. (MediaInv /\ OrderInv) /\ [StreamsNext]_parts => (MediaInv /\ OrderInv)'
  BY <1>2, MediaStep, OrderStep
<1>4. ASSUME MediaInv, OrderInv, [StreamsNext]_parts
      PROVE  [\A k \in Media!Waiting(queue) :
                work.op = Media!Nothing /\ work'.op = queue.pending[k] =>
                  \A j \in Media!Waiting(queue) : asked[k] <= asked[j]]_(Media!vars)
  BY <1>2, <1>4, OldestIsStarted
<1> QED
  BY <1>1, <1>3, <1>4, PTL DEF StreamsSpec, OldestFirst, Media!OldestFirst

-----------------------------------------------------------------------------
(*                       What the decoder is given                         *)

Picture == [id : Nat, version : Nat, key : BOOLEAN]
Parcel == [id : Nat, version : Nat, key : BOOLEAN, chunk : {1, 2}]

VideoTypes ==
    /\ encoder \in [id : Nat, version : Nat] /\ forceKeyframe \in BOOLEAN
    /\ videoQueue \in Seq(Picture)
    /\ datagrams \subseteq Parcel /\ reliables \in Seq(Parcel)
    /\ stash \in [Video!Lanes -> Seq(Parcel)]
    /\ DOMAIN assembler = Video!Lanes
    /\ \A s \in Video!Lanes : DOMAIN assembler[s] = {"frames", "last"} /\ assembler[s].last \in Nat
    /\ continuity \in [last : Nat, awaiting : BOOLEAN, asked : BOOLEAN]

\* As long as no keyframe is awaited, the decoder has the frame that the next one must
\* follow, and it is of the configuration in use.
ChainIsShown ==
    ~continuity.awaiting =>
      continuity.last = videoShown.id /\ continuity.last # 0 /\ videoShown.version = config

VideoInv == VideoTypes /\ ChainIsShown

\* What the decoder may be given in one step.
Decodes ==
    videoShown' # videoShown =>
      /\ videoShown'.version = config
      /\ videoShown'.key \/ (/\ videoShown'.id = videoShown.id + 1
                             /\ videoShown'.version = videoShown.version)

\* FrameAssembler::push looks at the last frame of its lane, and is broken when told so.
LEMMA PushedIs ==
    ASSUME NEW p, NEW s, NEW frames, NEW broken
    PROVE  LET r == Video!Pushed(p, s, frames, broken) IN
             r.stale = (p.id <= assembler[s].last)
  BY DEF Video!Pushed

-----------------------------------------------------------------------------
(* The two instances take the same steps, but for the bounds.              *)

\* What the bounds are about: an encoder that is configured anew.
EncoderChanges ==
    /\ encoder' = [encoder EXCEPT !.version = @ + 1]
    /\ videoQueue' = <<>> /\ forceKeyframe' = TRUE
    /\ UNCHANGED Video!wireVars /\ UNCHANGED Video!viewVars

LEMMA SameHandling ==
    ASSUME NEW p, NEW s, Moved!Handle(p, s) PROVE Video!Handle(p, s)
<1>1. Moved!Assemble(p, s) => Video!Assemble(p, s)
  BY
    DEF Moved!Assemble, Video!Assemble, Moved!Expires, Video!Expires, Moved!Pushed,
        Video!Pushed,
     Moved!Chunks, Video!Chunks, Moved!Lanes, Video!Lanes, Moved!Range, Video!Range,
     Moved!Ask, Video!Ask, Moved!Assembled, Video!Assembled, Moved!Presented, Video!Presented,
     Moved!Follows, Video!Follows
<1>2. Moved!Refused(p) => Video!Refused(p)
  BY DEF Moved!Refused, Video!Refused, Moved!Ask, Video!Ask
<1>3. (Moved!Foreign(p) => Video!Foreign(p)) /\ (Moved!Current(p) <=> Video!Current(p))
  BY DEF Moved!Foreign, Video!Foreign, Moved!Current, Video!Current
<1> QED
  BY <1>1, <1>2, <1>3 DEF Moved!Handle, Video!Handle, Moved!hostVars, Video!hostVars

LEMMA SameReceiving ==
    ASSUME NEW p, NEW s, Moved!Receive(p, s) PROVE Video!Receive(p, s)
<1>1. Moved!Stashed <=> Video!Stashed
  BY DEF Moved!Stashed, Video!Stashed, Moved!Lanes, Video!Lanes
<1> QED
  BY <1>1, SameHandling DEF Moved!Receive, Video!Receive, Moved!hostVars, Video!hostVars

LEMMA SameView ==
    ASSUME Moved!View PROVE Video!View
<1>1. Moved!Stashed <=> Video!Stashed
  BY DEF Moved!Stashed, Video!Stashed, Moved!Lanes, Video!Lanes
<1>2. Moved!RetryInterval => Video!RetryInterval
  BY DEF Moved!RetryInterval, Video!RetryInterval, Moved!hostVars, Video!hostVars,
     Moved!wireVars, Video!wireVars
<1>3. Moved!GraceOver => Video!GraceOver
  BY DEF Moved!GraceOver, Video!GraceOver, Moved!hostVars, Video!hostVars,
     Moved!wireVars, Video!wireVars
<1>4. Moved!Fallback => Video!Fallback
  BY <1>1
    DEF Moved!Fallback, Video!Fallback, Moved!hostVars, Video!hostVars, Moved!Ask, Video!Ask
<1>5. Moved!ReceiveConfig => Video!ReceiveConfig
  BY <1>1 DEF Moved!ReceiveConfig, Video!ReceiveConfig, Moved!hostVars, Video!hostVars
<1>6. Moved!HandleStashed => Video!HandleStashed
  BY <1>1, SameHandling DEF Moved!HandleStashed, Video!HandleStashed
<1>7. Moved!ReceiveDatagram => Video!ReceiveDatagram
  BY SameReceiving DEF Moved!ReceiveDatagram, Video!ReceiveDatagram
<1>8. Moved!ReceiveReliable => Video!ReceiveReliable
  BY SameReceiving DEF Moved!ReceiveReliable, Video!ReceiveReliable
<1> QED
  BY <1>2, <1>3, <1>4, <1>5, <1>6, <1>7, <1>8 DEF Moved!View, Video!View

\* The sender empties the queue, and puts packets of the newest frame on a lane.
PictureSent ==
    /\ encoder' = encoder /\ videoQueue' = <<>> /\ forceKeyframe' \in {forceKeyframe, TRUE}
    /\ \/ UNCHANGED <<datagrams, reliables>>
       \/ /\ videoQueue # <<>> /\ reliables' = reliables
          /\ datagrams' \subseteq datagrams \union Video!Packets(Video!Newest)
       \/ /\ videoQueue # <<>> /\ datagrams' = datagrams
          /\ reliables' = reliables \o [c \in {1, 2} |-> Video!Packet(Video!Newest, c)]

\* What a step of the host leaves to its encoder, its queue and the lanes.
HostStep ==
    /\ UNCHANGED <<config, stash, assembler, continuity, videoShown>>
    /\ \/ Video!Encode \/ Video!HearRequest \/ EncoderChanges \/ PictureSent
       \/ UNCHANGED <<encoder, videoQueue, forceKeyframe, datagrams, reliables>>

LEMMA VideoSends ==
    ASSUME Video!Send
    PROVE  PictureSent /\ UNCHANGED <<config, stash, assembler, continuity, videoShown>>
<1>1. Video!Wake
  BY
    DEF Video!Send, Video!SendNothing, Video!SendNeedsKeyframe, Video!SendReliable,
        Video!SendDatagrams,
     Video!SendCongested, Video!Prepared
<1>2. /\ encoder' = encoder /\ videoQueue' = <<>>
      /\ UNCHANGED <<config, stash, assembler, continuity, videoShown>>
  BY <1>1 DEF Video!Wake, Video!viewVars
<1>4. CASE Video!SendNothing \/ Video!SendNeedsKeyframe
  BY <1>2, <1>4 DEF Video!SendNothing, Video!SendNeedsKeyframe, PictureSent
<1>5. CASE Video!SendReliable
  <2>1. /\ videoQueue # <<>> /\ forceKeyframe' = forceKeyframe /\ datagrams' = datagrams
        /\ reliables' = reliables \o [c \in 1..2 |-> Video!Packet(Video!Newest, c)]
    BY <1>5 DEF Video!SendReliable, Video!Prepared, Video!Chunks
  <2>2. 1..2 = {1, 2}
    OBVIOUS
  <2> QED
    BY <1>2, <2>1, <2>2 DEF PictureSent
<1>6. CASE Video!SendDatagrams
  BY <1>2, <1>6 DEF Video!SendDatagrams, Video!Prepared, PictureSent
<1>7. CASE Video!SendCongested
  BY <1>2, <1>7 DEF Video!SendCongested, Video!Prepared, PictureSent
<1> QED
  BY <1>4, <1>5, <1>6, <1>7 DEF Video!Send

LEMMA MovedSends ==
    ASSUME Moved!Send
    PROVE  PictureSent /\ UNCHANGED <<config, stash, assembler, continuity, videoShown>>
<1>1. Moved!Wake
  BY
    DEF Moved!Send, Moved!SendNothing, Moved!SendNeedsKeyframe, Moved!SendReliable,
        Moved!SendDatagrams,
     Moved!SendCongested, Moved!Prepared
<1>2. /\ encoder' = encoder /\ videoQueue' = <<>>
      /\ UNCHANGED <<config, stash, assembler, continuity, videoShown>>
  BY <1>1 DEF Moved!Wake, Moved!viewVars
<1>3. /\ Moved!Packets(Moved!Newest) = Video!Packets(Video!Newest)
      /\ \A c : Moved!Packet(Moved!Newest, c) = Video!Packet(Video!Newest, c)
  BY DEF Moved!Packets, Video!Packets, Moved!Packet, Video!Packet, Moved!Chunks, Video!Chunks,
     Moved!Newest, Video!Newest
<1>4. CASE Moved!SendNothing \/ Moved!SendNeedsKeyframe
  BY <1>2, <1>4 DEF Moved!SendNothing, Moved!SendNeedsKeyframe, PictureSent
<1>5. CASE Moved!SendReliable
  <2>1. /\ videoQueue # <<>> /\ forceKeyframe' = forceKeyframe /\ datagrams' = datagrams
        /\ reliables' = reliables \o [c \in 1..2 |-> Moved!Packet(Moved!Newest, c)]
    BY <1>5 DEF Moved!SendReliable, Moved!Prepared, Moved!Chunks
  <2>2. 1..2 = {1, 2}
    OBVIOUS
  <2> QED
    BY <1>2, <1>3, <2>1, <2>2 DEF PictureSent
<1>6. CASE Moved!SendDatagrams
  BY <1>2, <1>3, <1>6 DEF Moved!SendDatagrams, Moved!Prepared, PictureSent
<1>7. CASE Moved!SendCongested
  BY <1>2, <1>3, <1>7 DEF Moved!SendCongested, Moved!Prepared, PictureSent
<1> QED
  BY <1>4, <1>5, <1>6, <1>7 DEF Moved!Send

LEMMA VideoTakes == Video!Next => HostStep \/ Video!View
<1> SUFFICES ASSUME Video!Next PROVE HostStep \/ Video!View
  OBVIOUS
<1>1. CASE Video!CaptureChange \/ Video!CaptureIdle
  BY <1>1 DEF Video!CaptureChange, Video!CaptureIdle, Video!Encode, Video!viewVars, HostStep
<1>2. CASE Video!Reconfigure
  BY <1>2 DEF Video!Reconfigure, HostStep, EncoderChanges, Video!viewVars, Video!wireVars
<1>3. CASE Video!HearRequest
  BY <1>3 DEF Video!HearRequest, HostStep, Video!viewVars
<1>4. CASE Video!SwitchPath
  BY <1>4 DEF Video!SwitchPath, HostStep, Video!viewVars, Video!wireVars
<1>5. CASE Video!Send
  BY <1>5, VideoSends DEF HostStep
<1> QED
  BY <1>1, <1>2, <1>3, <1>4, <1>5 DEF Video!Next

LEMMA MovedTakes == Moved!Next => HostStep \/ Video!View
<1> SUFFICES ASSUME Moved!Next PROVE HostStep \/ Video!View
  OBVIOUS
<1>1. CASE Moved!CaptureChange \/ Moved!CaptureIdle
  <2>1. Moved!Encode
    BY <1>1 DEF Moved!CaptureChange, Moved!CaptureIdle
  <2>2. Video!Encode
    BY <2>1 DEF Moved!Encode, Video!Encode, Moved!PushLatest, Video!PushLatest, Moved!Dropped,
       Video!Dropped, Moved!wireVars, Video!wireVars, Moved!viewVars, Video!viewVars
  <2> QED
    BY <2>2 DEF Video!Encode, Video!viewVars, HostStep
<1>2. CASE Moved!Reconfigure
  BY <1>2 DEF Moved!Reconfigure, HostStep, EncoderChanges, Moved!viewVars, Moved!wireVars,
     Video!viewVars, Video!wireVars
<1>3. CASE Moved!HearRequest
  BY <1>3 DEF Moved!HearRequest, Video!HearRequest, HostStep, Moved!viewVars, Video!viewVars
<1>4. CASE Moved!SwitchPath
  BY <1>4 DEF Moved!SwitchPath, HostStep, Moved!viewVars, Moved!wireVars
<1>5. CASE Moved!Send
  BY <1>5, MovedSends DEF HostStep
<1> QED
  BY <1>1, <1>2, <1>3, <1>4, <1>5, SameView DEF Moved!Next

-----------------------------------------------------------------------------
(* The host makes frames and cuts them into packets.                       *)

LEMMA HostKeepsVideo ==
    ASSUME VideoInv, HostStep
    PROVE  VideoInv' /\ Decodes
<1>1. UNCHANGED <<config, stash, assembler, continuity, videoShown>>
  BY DEF HostStep
<1>2. /\ encoder' \in [id : Nat, version : Nat] /\ forceKeyframe' \in BOOLEAN
      /\ videoQueue' \in Seq(Picture) /\ datagrams' \subseteq Parcel /\ reliables' \in Seq(Parcel)
  <2>1. CASE Video!Encode
    <3> DEFINE f == [id |-> encoder.id + 1, version |-> encoder.version, key |-> forceKeyframe]
    <3>1. /\ forceKeyframe' = FALSE /\ encoder' = [encoder EXCEPT !.id = @ + 1]
          /\ Video!PushLatest(f) /\ UNCHANGED <<datagrams, reliables>>
      BY <2>1 DEF Video!Encode, Video!wireVars
    <3>2. f \in Picture
      BY DEF VideoInv, VideoTypes, Picture
    <3> HIDE DEF f
    <3>3. videoQueue' \in Seq(Picture)
      <4>1. CASE Len(videoQueue) < 2
        BY <3>1, <3>2, <4>1 DEF VideoInv, VideoTypes, Video!PushLatest
      <4>2. CASE ~(Len(videoQueue) < 2)
        <5>1. Tail(videoQueue) \in Seq(Picture)
          BY <4>2 DEF VideoInv, VideoTypes
        <5> QED
          BY <3>1, <3>2, <4>2, <5>1 DEF Video!PushLatest
      <4> QED
        BY <4>1, <4>2
    <3>4. encoder' \in [id : Nat, version : Nat]
      <4>1. encoder \in [id : Nat, version : Nat] /\ encoder.id + 1 \in Nat
        BY DEF VideoInv, VideoTypes
      <4> QED
        BY <3>1, <4>1
    <3> QED
      BY <3>1, <3>3, <3>4 DEF VideoInv, VideoTypes
  <2>2. CASE Video!HearRequest
    BY <2>2 DEF Video!HearRequest, VideoInv, VideoTypes
  <2>3. CASE EncoderChanges
    BY <2>3 DEF EncoderChanges, Video!wireVars, VideoInv, VideoTypes
  <2>4. CASE UNCHANGED <<encoder, videoQueue, forceKeyframe, datagrams, reliables>>
    BY <2>4 DEF VideoInv, VideoTypes
  <2>5. CASE PictureSent
    <3>1. videoQueue # <<>> => Video!Newest \in Picture
      BY DEF VideoInv, VideoTypes, Video!Newest
    <3>2. videoQueue # <<>> => \A c \in {1, 2} : Video!Packet(Video!Newest, c) \in Parcel
      BY <3>1 DEF Picture, Parcel, Video!Packet
    <3>3. videoQueue # <<>> => Video!Packets(Video!Newest) \subseteq Parcel
      BY <3>2 DEF Video!Packets, Video!Chunks
    <3>4. encoder' = encoder /\ videoQueue' = <<>> /\ forceKeyframe' \in BOOLEAN
      BY <2>5 DEF PictureSent, VideoInv, VideoTypes
    <3>5. datagrams' \subseteq Parcel
      BY <2>5, <3>3 DEF PictureSent, VideoInv, VideoTypes
    <3>6. reliables' \in Seq(Parcel)
      <4>1. CASE reliables' = reliables
        BY <4>1 DEF VideoInv, VideoTypes
      <4>2. CASE /\ videoQueue # <<>>
                 /\ reliables' = reliables \o [c \in {1, 2} |-> Video!Packet(Video!Newest, c)]
        <5> DEFINE cut == [c \in {1, 2} |-> Video!Packet(Video!Newest, c)]
        <5>1. cut \in [1..2 -> Parcel]
          BY <3>2, <4>2
        <5>2. cut \in Seq(Parcel)
          <6> HIDE DEF cut
          <6> QED
            BY <5>1, SeqDef
        <5> HIDE DEF cut
        <5> QED
          BY <4>2, <5>2 DEF cut, VideoInv, VideoTypes
      <4> QED
        BY <2>5, <4>1, <4>2 DEF PictureSent
    <3> QED
      BY <3>4, <3>5, <3>6 DEF VideoInv, VideoTypes
  <2> QED
    BY <2>1, <2>2, <2>3, <2>4, <2>5 DEF HostStep
<1>3. VideoTypes'
  BY <1>1, <1>2 DEF VideoInv, VideoTypes
<1> QED
  BY <1>1, <1>3 DEF VideoInv, ChainIsShown, Decodes

-----------------------------------------------------------------------------
(* The controller presents what follows.                                   *)

\* What the controller keeps of a packet that it presents nothing for, and of one that
\* completes a frame.
Keeps ==
    /\ videoShown' = videoShown
    /\ DOMAIN assembler' = Video!Lanes
    /\ \A t \in Video!Lanes : /\ DOMAIN assembler'[t] = {"frames", "last"}
                             /\ assembler'[t].last = assembler[t].last
    /\ continuity' \in [last : Nat, awaiting : BOOLEAN, asked : BOOLEAN]
    /\ continuity'.last = continuity.last
    /\ continuity.awaiting => continuity'.awaiting

Presents(p) ==
    /\ videoShown' = [id |-> p.id, version |-> p.version, key |-> p.key]
    /\ p.id # 0 /\ p.version = config
    /\ p.key \/ (~continuity.awaiting /\ (continuity.last = 0 \/ p.id = continuity.last + 1))
    /\ DOMAIN assembler' = Video!Lanes
    /\ \A t \in Video!Lanes : /\ DOMAIN assembler'[t] = {"frames", "last"}
                             /\ assembler'[t].last \in Nat
    /\ continuity' \in [last : Nat, awaiting : BOOLEAN, asked : BOOLEAN]
    /\ continuity'.last = p.id

LEMMA AssembledKeeps ==
    ASSUME VideoInv, NEW s \in Video!Lanes, NEW frames, Video!Assembled(s, frames)
    PROVE  /\ DOMAIN assembler' = Video!Lanes
           /\ \A t \in Video!Lanes : /\ DOMAIN assembler'[t] = {"frames", "last"}
                                    /\ assembler'[t].last = assembler[t].last
  BY DEF VideoInv, VideoTypes, Video!Assembled

LEMMA Assembling ==
    ASSUME VideoInv, NEW p \in Parcel, NEW s \in Video!Lanes, Video!Assemble(p, s),
           p.version = config
    PROVE  Keeps \/ Presents(p)
<1>1. PICK frames, broken :
        LET r == Video!Pushed(p, s, frames, broken)
            awaiting == continuity.awaiting \/ r.broken
        IN \/ /\ Video!Assembled(s, r.frames)
              /\ continuity' = [continuity EXCEPT !.awaiting = awaiting]
              /\ videoShown' = videoShown
           \/ /\ ~r.stale
              /\ p.key \/ (~awaiting /\ Video!Follows(p.id))
              /\ Video!Presented(p, s, r.frames)
           \/ /\ Video!Assembled(s, r.frames)
              /\ continuity' = [continuity EXCEPT !.awaiting = TRUE, !.asked = TRUE]
              /\ videoShown' = videoShown
  BY DEF Video!Assemble
<1> DEFINE r == Video!Pushed(p, s, frames, broken)
<1>2. r.stale = (p.id <= assembler[s].last)
  BY PushedIs
<1>3. /\ p.id \in Nat /\ assembler[s].last \in Nat
      /\ continuity \in [last : Nat, awaiting : BOOLEAN, asked : BOOLEAN]
  BY DEF Parcel, VideoInv, VideoTypes
<1> HIDE DEF r
<1>4. CASE /\ Video!Assembled(s, r.frames)
           /\ continuity' = [continuity EXCEPT !.awaiting = continuity.awaiting \/ r.broken]
           /\ videoShown' = videoShown
  <2>1. /\ continuity' \in [last : Nat, awaiting : BOOLEAN, asked : BOOLEAN]
        /\ continuity'.last = continuity.last
        /\ continuity.awaiting => continuity'.awaiting
    BY <1>3, <1>4
  <2> QED
    BY <1>4, <2>1, AssembledKeeps DEF Keeps
<1>5. CASE /\ Video!Assembled(s, r.frames)
           /\ continuity' = [continuity EXCEPT !.awaiting = TRUE, !.asked = TRUE]
           /\ videoShown' = videoShown
  <2>1. /\ continuity' \in [last : Nat, awaiting : BOOLEAN, asked : BOOLEAN]
        /\ continuity'.last = continuity.last /\ continuity'.awaiting
    BY <1>3, <1>5
  <2> QED
    BY <1>5, <2>1, AssembledKeeps DEF Keeps
<1>6. CASE /\ ~r.stale
           /\ p.key \/ (~(continuity.awaiting \/ r.broken) /\ Video!Follows(p.id))
           /\ Video!Presented(p, s, r.frames)
  <2>1. p.id # 0
    <3>1. ~(p.id <= assembler[s].last)
      BY <1>2, <1>6, Zenon
    <3> QED
      BY <1>3, <3>1
  <2>2. p.key \/ (~continuity.awaiting /\ (continuity.last = 0 \/ p.id = continuity.last + 1))
    BY <1>6 DEF Video!Follows
  <2>3. /\ DOMAIN assembler' = Video!Lanes
        /\ \A t \in Video!Lanes : /\ DOMAIN assembler'[t] = {"frames", "last"}
                                 /\ assembler'[t].last \in Nat
    <3>1. assembler' = [assembler EXCEPT ![s] = [frames |-> r.frames, last |-> p.id]]
      BY <1>6 DEF Video!Presented
    <3>2. DOMAIN assembler' = Video!Lanes /\ assembler'[s] = [frames |-> r.frames, last |-> p.id]
          /\ \A t \in Video!Lanes \ {s} : assembler'[t] = assembler[t]
      BY <3>1 DEF VideoInv, VideoTypes
    <3>3. DOMAIN assembler'[s] = {"frames", "last"} /\ assembler'[s].last \in Nat
      BY <1>3, <3>2
    <3> QED
      BY <3>2, <3>3 DEF VideoInv, VideoTypes
  <2>4. /\ continuity' \in [last : Nat, awaiting : BOOLEAN, asked : BOOLEAN]
        /\ continuity'.last = p.id
        /\ videoShown' = [id |-> p.id, version |-> p.version, key |-> p.key]
    <3>1. (continuity.asked /\ ~p.key) \in BOOLEAN
      OBVIOUS
    <3> QED
      BY <1>3, <1>6, <3>1 DEF Video!Presented
  <2> QED
    BY <2>1, <2>2, <2>3, <2>4 DEF Presents
<1> QED
  BY <1>1, <1>4, <1>5, <1>6 DEF r

LEMMA Handling ==
    ASSUME VideoInv, NEW p \in Parcel, NEW s \in Video!Lanes, Video!Handle(p, s)
    PROVE  Keeps \/ Presents(p)
<1>1. CASE Video!Foreign(p)
  BY <1>1 DEF Video!Foreign, Keeps, VideoInv, VideoTypes
<1>2. CASE Video!Refused(p)
  <2>1. continuity' \in [last : Nat, awaiting : BOOLEAN, asked : BOOLEAN]
        /\ continuity'.last = continuity.last /\ continuity'.awaiting = continuity.awaiting
    <3>1. PICK due : continuity' = [continuity EXCEPT !.asked = @ \/ due]
      BY <1>2 DEF Video!Refused
    <3>2. (continuity.asked \/ due) \in BOOLEAN
      OBVIOUS
    <3> QED
      BY <3>1, <3>2 DEF VideoInv, VideoTypes
  <2> QED
    BY <1>2, <2>1 DEF Video!Refused, Keeps, VideoInv, VideoTypes
<1>3. CASE Video!Current(p) /\ Video!Assemble(p, s)
  BY <1>3, Assembling DEF Video!Current
<1> QED
  BY <1>1, <1>2, <1>3 DEF Video!Handle

\* Whatever is kept or presented, the chain is what was shown.
LEMMA HandlingKeepsChain ==
    ASSUME VideoInv, NEW p \in Parcel, Keeps \/ Presents(p), config' = config
    PROVE  ChainIsShown' /\ Decodes
<1>1. CASE Keeps
  BY <1>1 DEF Keeps, VideoInv, ChainIsShown, Decodes
<1>2. CASE Presents(p)
  <2>1. videoShown'.id = p.id /\ videoShown'.version = p.version /\ videoShown'.key = p.key
    BY <1>2 DEF Presents
  <2>2. ChainIsShown'
    BY <1>2, <2>1 DEF Presents, ChainIsShown
  <2>3. p.key \/ (p.id = videoShown.id + 1 /\ p.version = videoShown.version)
    BY <1>2 DEF Presents, VideoInv, ChainIsShown
  <2> QED
    BY <1>2, <2>1, <2>2, <2>3 DEF Presents, Decodes
<1> QED
  BY <1>1, <1>2

LEMMA HandlingKeeps ==
    ASSUME VideoInv, NEW p \in Parcel, NEW s \in Video!Lanes, Video!Handle(p, s),
           datagrams' \subseteq datagrams, reliables' \in Seq(Parcel),
           stash' \in [Video!Lanes -> Seq(Parcel)]
    PROVE  VideoInv' /\ Decodes
<1>1. UNCHANGED <<encoder, videoQueue, forceKeyframe, config>>
  BY DEF Video!Handle, Video!hostVars
<1>2. Keeps \/ Presents(p)
  BY Handling
<1>3. ChainIsShown' /\ Decodes
  BY <1>1, <1>2, HandlingKeepsChain
<1>4. /\ DOMAIN assembler' = Video!Lanes
      /\ \A t \in Video!Lanes : DOMAIN assembler'[t] = {"frames", "last"} /\ assembler'[t].last \in Nat
      /\ continuity' \in [last : Nat, awaiting : BOOLEAN, asked : BOOLEAN]
  BY <1>2 DEF Keeps, Presents, VideoInv, VideoTypes
<1>5. VideoTypes'
  BY <1>1, <1>4 DEF VideoInv, VideoTypes
<1> QED
  BY <1>3, <1>5 DEF VideoInv

LEMMA ReceivingKeeps ==
    ASSUME VideoInv, NEW p \in Parcel, NEW s \in Video!Lanes, Video!Receive(p, s),
           datagrams' \subseteq datagrams, reliables' \in Seq(Parcel)
    PROVE  VideoInv' /\ Decodes
<1>1. CASE Video!Handle(p, s) /\ UNCHANGED stash
  <2>1. stash' \in [Video!Lanes -> Seq(Parcel)]
    BY <1>1 DEF VideoInv, VideoTypes
  <2> QED
    BY <1>1, <2>1, HandlingKeeps
<1>2. CASE /\ stash' = [stash EXCEPT ![s] = Append(@, p)]
           /\ UNCHANGED <<encoder, videoQueue, forceKeyframe, config, assembler, continuity,
                          videoShown>>
  <2>1. stash' \in [Video!Lanes -> Seq(Parcel)]
    BY <1>2 DEF VideoInv, VideoTypes
  <2>2. VideoTypes'
    BY <1>2, <2>1 DEF VideoInv, VideoTypes
  <2> QED
    BY <1>2, <2>2 DEF VideoInv, ChainIsShown, Decodes
<1> QED
  BY <1>1, <1>2 DEF Video!Receive, Video!hostVars

LEMMA ViewKeepsVideo ==
    ASSUME VideoInv, Video!View
    PROVE  VideoInv' /\ Decodes
<1>1. CASE Video!RetryInterval \/ Video!GraceOver \/ Video!Fallback
  <2>1. UNCHANGED <<encoder, videoQueue, forceKeyframe, datagrams, reliables, stash, assembler,
                    config, videoShown>>
    BY <1>1
      DEF Video!RetryInterval, Video!GraceOver, Video!Fallback, Video!hostVars, Video!wireVars
  <2>2. /\ continuity' \in [last : Nat, awaiting : BOOLEAN, asked : BOOLEAN]
        /\ continuity'.last = continuity.last /\ continuity'.awaiting = continuity.awaiting
    BY <1>1 DEF Video!RetryInterval, Video!GraceOver, Video!Fallback, VideoInv, VideoTypes
  <2>3. VideoTypes'
    BY <2>1, <2>2 DEF VideoInv, VideoTypes
  <2> QED
    BY <2>1, <2>2, <2>3 DEF VideoInv, ChainIsShown, Decodes
<1>2. CASE Video!ReceiveConfig
  <2>1. /\ UNCHANGED <<encoder, videoQueue, forceKeyframe, datagrams, reliables, stash, assembler,
                       videoShown>>
        /\ continuity' = [last |-> 0, awaiting |-> TRUE, asked |-> TRUE]
    BY <1>2 DEF Video!ReceiveConfig, Video!hostVars
  <2>2. VideoTypes'
    BY <2>1 DEF VideoInv, VideoTypes
  <2> QED
    BY <2>1, <2>2 DEF VideoInv, ChainIsShown, Decodes
<1>3. CASE Video!HandleStashed
  <2>1. PICK s \in Video!Lanes :
          /\ stash[s] # <<>> /\ stash' = [stash EXCEPT ![s] = Tail(@)]
          /\ Video!Handle(Head(stash[s]), s)
    <3>1. /\ "reliable" \in Video!Lanes /\ "datagram" \in Video!Lanes
          /\ \A s \in Video!Lanes : s = "reliable" \/ s = "datagram"
      BY DEF Video!Lanes
    <3> QED
      BY <1>3, <3>1 DEF Video!HandleStashed, Video!Stashed
  <2>2. stash \in [Video!Lanes -> Seq(Parcel)] /\ UNCHANGED <<reliables, datagrams>>
    BY <1>3 DEF Video!HandleStashed, VideoInv, VideoTypes
  <2>3. Head(stash[s]) \in Parcel /\ Tail(stash[s]) \in Seq(Parcel)
    BY <2>1, <2>2
  <2>4. stash' \in [Video!Lanes -> Seq(Parcel)] /\ reliables' \in Seq(Parcel)
    BY <2>1, <2>2, <2>3 DEF VideoInv, VideoTypes
  <2> QED
    BY <2>1, <2>2, <2>3, <2>4, HandlingKeeps
<1>4. CASE Video!ReceiveDatagram
  <2>1. PICK p \in datagrams : /\ datagrams' = datagrams \ {p} /\ reliables' = reliables
                               /\ Video!Receive(p, "datagram")
    BY <1>4 DEF Video!ReceiveDatagram
  <2>2. p \in Parcel /\ "datagram" \in Video!Lanes /\ reliables' \in Seq(Parcel)
    BY <2>1 DEF VideoInv, VideoTypes, Video!Lanes
  <2> QED
    BY <2>1, <2>2, ReceivingKeeps
<1>5. CASE Video!ReceiveReliable
  <2>1. /\ reliables # <<>> /\ reliables' = Tail(reliables) /\ datagrams' = datagrams
        /\ Video!Receive(Head(reliables), "reliable")
    BY <1>5 DEF Video!ReceiveReliable
  <2>2. Head(reliables) \in Parcel /\ "reliable" \in Video!Lanes /\ reliables' \in Seq(Parcel)
    BY <2>1 DEF VideoInv, VideoTypes, Video!Lanes
  <2> QED
    BY <2>1, <2>2, ReceivingKeeps
<1> QED
  BY <1>1, <1>2, <1>3, <1>4, <1>5 DEF Video!View

LEMMA VideoBegins == Video!Init \/ Moved!Init => VideoInv
<1> SUFFICES ASSUME Video!Init \/ Moved!Init PROVE VideoInv
  OBVIOUS
<1>1. /\ forceKeyframe = TRUE /\ encoder = [id |-> 0, version |-> 1] /\ videoQueue = <<>>
      /\ reliables = <<>> /\ datagrams = {} /\ stash = [s \in Video!Lanes |-> <<>>]
      /\ assembler = [s \in Video!Lanes |-> [frames |-> <<>>, last |-> 0]]
      /\ continuity = [last |-> 0, awaiting |-> TRUE, asked |-> FALSE]
  BY DEF Video!Init, Moved!Init, Video!Lanes, Moved!Lanes
<1> QED
  BY <1>1 DEF VideoInv, VideoTypes, ChainIsShown

LEMMA VideoSteps ==
    ASSUME VideoInv, [StreamsNext]_parts
    PROVE  VideoInv' /\ Decodes
<1>1. CASE UNCHANGED videoVars
  BY <1>1 DEF videoVars, VideoInv, VideoTypes, ChainIsShown, Decodes
<1>2. CASE Video!Next \/ Moved!Next
  BY <1>2, VideoTakes, MovedTakes, HostKeepsVideo, ViewKeepsVideo
<1> QED
  BY <1>1, <1>2 DEF StreamsNext, parts

\* The decoder is only given a frame that it can decode: one of the configuration in use, and
\* a keyframe or the frame right after the one before.
THEOREM OnlyDecodable == StreamsSpec => Decodable
<1>1. StreamsInit => VideoInv
  BY VideoBegins DEF StreamsInit
<1>2. VideoInv /\ [StreamsNext]_parts => VideoInv'
  BY VideoSteps
<1>3. ASSUME VideoInv, [StreamsNext]_parts
      PROVE  [videoShown' # videoShown =>
                /\ videoShown'.version = config
                /\ videoShown'.key \/ (/\ videoShown'.id = videoShown.id + 1
                                       /\ videoShown'.version = videoShown.version)]_videoShown
  BY <1>3, VideoSteps DEF Decodes
<1> QED
  BY <1>1, <1>2, <1>3, PTL DEF StreamsSpec, Decodable, Video!Decodable
==============================================================================
