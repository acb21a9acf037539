------------------------------- MODULE MCFiles -------------------------------
(***************************************************************************)
(* The transfer of files on small instances: one file with its part and    *)
(* ledger, and the tasks of the two participants around it. A behaviour is *)
(* of one of the two, chosen at its beginning, with the other at rest.     *)
(***************************************************************************)
EXTENDS FileEntry

CONSTANTS
  Tasks, Requests,         \* the tasks and requests of the two participants
  TaskQueue, TaskTransit,  \* places of a queue, and messages under way
  TaskClicks               \* what the controller's user does

ASSUME TasksBounds ==
  /\ 0 \notin Tasks /\ 0 \notin Requests
  /\ TaskQueue \in Nat /\ TaskTransit \in Nat /\ TaskClicks \in Nat

VARIABLES
  component,  \* the one this behaviour is of
  handle, worker, transit, stored, gaveUp, withdrawn, clicks

Transfers == INSTANCE FileTasks WITH
  Capacity <- TaskQueue, Transit <- TaskTransit, Clicks <- TaskClicks

tasksVars == <<handle, worker, transit, stored, gaveUp, withdrawn, clicks>>

parts == <<component, vars, tasksVars>>

FilesInit ==
  /\ component \in {"entry", "tasks"}
  /\ Init /\ Transfers!Init

FilesNext ==
  \/ /\ component = "entry" /\ Next
     /\ UNCHANGED <<tasksVars, component>>
  \/ /\ component = "tasks" /\ Transfers!Next
     /\ UNCHANGED <<vars, component>>

FilesSpec == FilesInit /\ [][FilesNext]_parts

-----------------------------------------------------------------------------
\* A running task is the active one, and what a user withdrew or cancelled does
\* not come back with a message that was late.
TasksAgree ==
  /\ Transfers!TypeOK /\ Transfers!RunningIsActive
  /\ Transfers!WithdrawnStaysOut /\ Transfers!CancelledSelectionCloses
==============================================================================
