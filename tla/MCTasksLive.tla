----------------------------- MODULE MCTasksLive -----------------------------
(***************************************************************************)
(* What the work of the applications must come to, on small instances: a   *)
(* transfer and its tasks, the commands of the host and of the controller, *)
(* the end of a control, and the selection of a display. A behaviour is of *)
(* one component, chosen at its beginning, with the others at rest; the    *)
(* fairness of a component is the antecedent of what it must come to.      *)
(***************************************************************************)
EXTENDS HostLifecycle

CONSTANTS Nothing, Foreign, Junk  \* of FileEntry

VARIABLES
  component,  \* the one this behaviour is of
  source, stamp, versions, manifest, index, sender, told, meta, part, ledger,
  file, delivered, receiver, wire, up, cancelled, cancels, byUser, budget,
  handle, tasksWorker, transit, stored, gaveUp, withdrawn, clicks,
  controllerGeneration, controllerQueue, controllerCommand, controllerSlot,
  controllerWorker, status, context, recents, saved,
  stream, phase, active, request, taken, answer, click, endClicks, peer,
  notice, health, before, read

Entry == INSTANCE FileEntry WITH Blocks <- 2, Budget <- 2
Tasks == INSTANCE FileTasks WITH
  Tasks <- {1, 2}, Requests <- {1, 2}, Capacity <- 2, Transit <- 1, Clicks <- 2,
  worker <- tasksWorker
Connection == INSTANCE ControllerConnection WITH
  Devices <- {"d1"}, NoDevice <- "none", MaxCommands <- 3, MaxRetries <- 1,
  generation <- controllerGeneration, queue <- controllerQueue,
  command <- controllerCommand, slot <- controllerSlot, worker <- controllerWorker
Ending == INSTANCE EndControl WITH
  MaxStreams <- 3, MaxClicks <- 2, clicks <- endClicks

entryVars == <<source, stamp, versions, manifest, index, sender, told, meta,
               part, ledger, file, delivered, receiver, wire, up, cancelled,
               cancels, byUser, budget>>
tasksVars == <<handle, tasksWorker, transit, stored, gaveUp, withdrawn,
               clicks>>
controllerVars == <<controllerGeneration, controllerQueue, controllerCommand,
                    controllerSlot, controllerWorker, status, context,
                    recents, saved>>
endVars == <<stream, phase, active, request, taken, answer, click, endClicks,
             peer, notice, health, before, read>>

parts == <<component, vars, entryVars, tasksVars, controllerVars, endVars>>

LiveInit ==
  /\ component \in {"host", "entry", "tasks", "controller", "end"}
  /\ Init /\ Entry!Init /\ Tasks!Init /\ Connection!Init /\ Ending!Init
  /\ component # "host" => ~marker /\ ~paused
  /\ component # "controller" => recents = {} /\ saved = "none"

LiveNext ==
  \/ /\ component = "host" /\ Next
     /\ UNCHANGED <<entryVars, tasksVars, controllerVars, endVars, component>>
  \/ /\ component = "entry" /\ Entry!Next
     /\ UNCHANGED <<vars, tasksVars, controllerVars, endVars, component>>
  \/ /\ component = "tasks" /\ Tasks!Next
     /\ UNCHANGED <<vars, entryVars, controllerVars, endVars, component>>
  \/ /\ component = "controller" /\ Connection!Next
     /\ UNCHANGED <<vars, entryVars, tasksVars, endVars, component>>
  \/ /\ component = "end" /\ Ending!Next
     /\ UNCHANGED <<vars, entryVars, tasksVars, controllerVars, component>>

LiveSpec == LiveInit /\ [][LiveNext]_parts

-----------------------------------------------------------------------------
\* A transfer that is retried often enough ends, and so does every task.
TransfersEnd ==
  /\ Entry!Fairness => Entry!Finishes
  /\ Tasks!Fairness => Tasks!TasksEnd

\* What a user cancelled is left by both ends, though no wait times out.
CancelReachesPeer == Tasks!Prompt => Tasks!CancelReachesPeer

\* Every command of the host and of the controller returns, and the click that
\* ends a control is answered.
CommandsEnd ==
  /\ Fairness => CommandsReturn
  /\ Connection!Fairness => Connection!CommandsReturn
  /\ Ending!Fairness => Ending!EndAnswered
==============================================================================
