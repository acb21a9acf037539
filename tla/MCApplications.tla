---------------------------- MODULE MCApplications ---------------------------
(***************************************************************************)
(* The two desktop applications on small instances: the controller's       *)
(* connection commands, the host's sharing, the end of a control by its    *)
(* host, and the session of the account. A behaviour is of one component,  *)
(* chosen at its beginning, with the others at rest.                       *)
(***************************************************************************)
EXTENDS ControllerConnection

CONSTANTS
  HostCommands, HostWorkers, HostEndings,      \* bounds of the host's sharing
  EndStreams, EndClicks,                       \* bounds of the ends of a control
  AccountUsers, AccountSessions, AccountOps,   \* users, and bounds of the account
  AccountFaults, AccountCrashes

ASSUME ApplicationsBounds ==
  /\ HostCommands \in Nat /\ HostWorkers \in Nat /\ HostEndings \in Nat
  /\ EndStreams \in Nat /\ EndClicks \in Nat
  /\ AccountSessions \in Nat \ {0} /\ AccountOps \in Nat \ {0}
  /\ AccountFaults \in Nat /\ AccountCrashes \in Nat

VARIABLES
  component,  \* the one this behaviour is of
  paused, marker, hostGeneration, hostQueue, hostCommand, hostSlot,
  hostWorker, pairing, exiting, endings, promise, wanted,
  stream, phase, active, request, taken, answer, click, clicks, peer,
  notice, health, before, read,
  issued, rotated, revoked, expired, gen, accountActive, pending, previous,
  stored, op, wire, cancels, front, shown, busy, faults, crashes, settled

Sharing == INSTANCE HostLifecycle WITH
  MaxCommands <- HostCommands, MaxWorkers <- HostWorkers, MaxEndings <- HostEndings,
  generation <- hostGeneration, queue <- hostQueue, command <- hostCommand,
  slot <- hostSlot, worker <- hostWorker
Ending == INSTANCE EndControl WITH
  MaxStreams <- EndStreams, MaxClicks <- EndClicks
Account == INSTANCE AccountSession WITH
  Users <- AccountUsers, MaxSessions <- AccountSessions, MaxOps <- AccountOps,
  MaxFaults <- AccountFaults, MaxCrashes <- AccountCrashes, active <- accountActive

hostVars == <<paused, marker, hostGeneration, hostQueue, hostCommand,
              hostSlot, hostWorker, pairing, exiting, endings, promise,
              wanted>>
endVars == <<stream, phase, active, request, taken, answer, click, clicks,
             peer, notice, health, before, read>>
accountVars == <<issued, rotated, revoked, expired, gen, accountActive,
                 pending, previous, stored, op, wire, cancels, front, shown,
                 busy, faults, crashes, settled>>

parts == <<component, vars, hostVars, endVars, accountVars>>

ApplicationsInit ==
  /\ component \in {"controller", "host", "end", "account"}
  /\ Init /\ Sharing!Init /\ Ending!Init /\ Account!Init
  /\ component # "controller" => recents = {} /\ saved = NoDevice
  /\ component # "host" => ~marker /\ ~paused
  /\ component # "account" => stored = Account!None

ApplicationsNext ==
  \/ /\ component = "controller" /\ Next
     /\ UNCHANGED <<hostVars, endVars, accountVars, component>>
  \/ /\ component = "host" /\ Sharing!Next
     /\ UNCHANGED <<vars, endVars, accountVars, component>>
  \/ /\ component = "end" /\ Ending!Next
     /\ UNCHANGED <<vars, hostVars, accountVars, component>>
  \/ /\ component = "account" /\ Account!Next
     /\ UNCHANGED <<vars, hostVars, endVars, component>>

ApplicationsSpec == ApplicationsInit /\ [][ApplicationsNext]_parts

-----------------------------------------------------------------------------
\* A pause holds and lasts, sharing that is on has its one worker, and a
\* confirmed end of a control was one.
HostKeepsPause ==
  /\ Sharing!PauseHolds /\ Sharing!PauseIsKept /\ Sharing!NoStrayWorker
  /\ Sharing!SharingHasWorker
  /\ Ending!TypeOK /\ Ending!ConfirmedEnds

\* The session that was confirmed last is kept, and the one that is shown is it.
AccountKept == Account!TypeOK /\ Account!Retained /\ Account!ShownIsStored

\* Late answers and late logouts touch nothing of a newer login.
AccountOwned == Account!LogoutSpares /\ Account!NewestOwns
==============================================================================
