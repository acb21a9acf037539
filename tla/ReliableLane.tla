---------------------------- MODULE ReliableLane ----------------------------
(***************************************************************************)
(* What one direction of one reliable business lane promises its callers,  *)
(* whichever path carries it.  Messages are numbered in the order in which *)
(* the plane starts to send them.                                          *)
(***************************************************************************)
EXTENDS Naturals, Sequences

VARIABLES
  given,      \* how many messages the sender has started to send
  unanswered, \* whether the caller of the last one is still waiting
  delivered,  \* the messages the receiver's application queue was given
  broken      \* the lane is interrupted or closed: no further message starts

vars == <<given, unanswered, delivered, broken>>

Init ==
  /\ given = 0
  /\ unanswered = FALSE
  /\ delivered = <<>>
  /\ broken = FALSE

\* One message at a time, and none after an interruption; one that comes while
\* a message is being sealed lets that message go and stops the next.
Give ==
  /\ ~unanswered /\ ~broken
  /\ given' = given + 1
  /\ unanswered' = TRUE
  /\ broken' \in BOOLEAN
  /\ UNCHANGED delivered

\* The next message in order, once; also after the caller was answered.
Deliver ==
  /\ Len(delivered) < given
  /\ delivered' = Append(delivered, Len(delivered) + 1)
  /\ UNCHANGED <<given, unanswered, broken>>

\* The caller is told "relay": the message was handed to the relay.
AnswerRelay ==
  /\ unanswered
  /\ unanswered' = FALSE
  /\ UNCHANGED <<given, delivered, broken>>

\* The caller is told "direct": the peer has it, and all before it.
AnswerDirect ==
  /\ Len(delivered) = given
  /\ AnswerRelay

\* Any other answer interrupts the lane: what follows could not be in order.
Fail ==
  /\ unanswered
  /\ unanswered' = FALSE
  /\ broken' = TRUE
  /\ UNCHANGED <<given, delivered>>

Break ==
  /\ broken' = TRUE
  /\ UNCHANGED <<given, unanswered, delivered>>

Next == Give \/ Deliver \/ AnswerRelay \/ AnswerDirect \/ Fail \/ Break

Spec == Init /\ [][Next]_vars
=============================================================================
