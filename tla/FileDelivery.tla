---------------------------- MODULE FileDelivery ----------------------------
(***************************************************************************)
(* What the transfer of one file promises: the destination appears at once *)
(* and whole, as the source was at one moment; it replaces nothing; and    *)
(* the sender hears "completed" only after that.                           *)
(***************************************************************************)
CONSTANTS Content, Nothing, Foreign

VARIABLES
  source,    \* the content of the source file
  versions,  \* every content it had
  file,      \* the destination: Nothing, Foreign (somebody else's), a content
  delivered, \* it was published
  told       \* the sender heard "completed"

Init ==
  /\ source \in Content /\ versions = {source}
  /\ file = Nothing /\ delivered = FALSE /\ told = FALSE

Edit ==
  /\ source' \in Content
  /\ versions' = versions \union {source'}
  /\ UNCHANGED <<file, delivered, told>>

Deliver ==
  /\ file = Nothing
  /\ file' \in versions
  /\ delivered' = TRUE
  /\ UNCHANGED <<source, versions, told>>

Tell ==
  /\ delivered
  /\ told' = TRUE
  /\ UNCHANGED <<source, versions, file, delivered>>

\* The user deletes the file, or puts another in its place.
UserTakes ==
  /\ file' \in {Nothing, Foreign}
  /\ UNCHANGED <<source, versions, delivered, told>>

Next == Edit \/ Deliver \/ Tell \/ UserTakes
Spec == Init /\ [][Next]_<<source, versions, file, delivered, told>>
=============================================================================
