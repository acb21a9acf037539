-------------------------- MODULE SessionDataPlane --------------------------
(***************************************************************************)
(* One direction of one reliable, wrapped lane of a business session:      *)
(* end "a" sends, end "b" receives.  The lane starts on the relay.  LAN    *)
(* connections, numbered by the generation of the switch, are attached by  *)
(* each end in its own time; a fence sent through the relay, and queried   *)
(* over the LAN, moves the lane to the connection once everything sent     *)
(* before has been admitted.  A failed LAN send falls back to the relay    *)
(* with the same ciphertext.                                               *)
(***************************************************************************)
EXTENDS Integers, Sequences, FiniteSets

CONSTANTS
  MaxMessages,   \* bound: messages the application sends
  MaxGeneration, \* bound: LAN connections
  Capacity,      \* messages the receiving application queue holds
  Continuation   \* allow_relay_loss_continuation of the agreement

ASSUME DataPlaneAssumption ==
  /\ MaxMessages \in Nat /\ MaxGeneration \in Nat
  /\ Capacity \in Nat \ {0}
  /\ Continuation \in BOOLEAN

Ends == {"a", "b"}
Generations == 1 .. MaxGeneration

\* What travels: a sealed message n, or the fence of a generation g.
Data(n) == [n |-> n, g |-> 0]
Fence(g) == [n |-> 0, g |-> g]
None == [n |-> 0, g |-> 0]
Ciphertexts ==
  {Data(n) : n \in 1 .. MaxMessages} \cup {Fence(g) : g \in Generations}
IsData(c) == c.n # 0

\* The sender's route of the lane; a positive route is a direct path.
Relay == 0
Interrupted == -1

VARIABLES
  route,      \* SessionLaneHealth of the lane at end a
  relayUp,    \* relay_connected at end a
  closed,     \* the sender's plane was closed
  op,         \* the holder of the outbound lock: [at, g, c]
  fencing,    \* the generation whose fence task has not ended, 0 for none
  given,      \* messages sealed and attempted
  writer,     \* the request the relay lane's writer task holds
  link,       \* the relay connection carries the lane
  wire,       \* what the relay has taken and end b has not read
  open,       \* the ends that regard each LAN connection as open
  direct,     \* the generation each end has attached, 0 for none
  last,       \* last_generation of each end
  lan,        \* LAN streams whose receipt has not been written
  receipts,   \* receipts under way to end a
  allowed,    \* end b takes data of the lane from its LAN connection
  admitted,   \* last_reliable at end b
  fence,      \* the generation of the fence end b admitted last
  opened,     \* messages whose crypto sequence end b has used
  delivered,  \* messages put in end b's application queue
  taken       \* how many of them the application has received

sender == <<route, relayUp, closed, op, fencing, given>>
relay == <<writer, link, wire>>
paths == <<open, direct, last>>
streams == <<lan, receipts>>
receiver == <<allowed, admitted, fence, opened, delivered>>
vars == <<sender, relay, paths, streams, receiver, taken>>

Idle == [at |-> "idle", g |-> 0, c |-> None]
Sending == op.at # "idle" /\ op.c.g = 0  \* a caller's send holds the lock

Init ==
  /\ route = Relay /\ relayUp = TRUE /\ closed = FALSE
  /\ op = Idle /\ fencing = 0 /\ given = 0
  /\ writer = None /\ link = TRUE /\ wire = <<>>
  /\ open = [g \in Generations |-> Ends]
  /\ direct = [e \in Ends |-> 0] /\ last = [e \in Ends |-> 0]
  /\ lan = {} /\ receipts = {}
  /\ allowed = FALSE /\ admitted = None /\ fence = 0
  /\ opened = {} /\ delivered = <<>> /\ taken = 0

-----------------------------------------------------------------------------
(* The sender: one send holds the lane's outbound lock at a time.          *)

CanSend ==
  /\ ~closed
  /\ relayUp \/ Continuation
  /\ route > 0 \/ (route = Relay /\ relayUp)

Begin ==
  /\ op.at = "idle" /\ given < MaxMessages /\ CanSend
  /\ op' = [at |-> "sealing", g |-> 0, c |-> None]
  /\ UNCHANGED <<route, relayUp, closed, fencing, given, relay, paths, streams,
                 receiver, taken>>

\* A stream on a connection this end no longer holds open is never seen.
Stream(g, c) == IF "a" \in open[g] THEN {[g |-> g, c |-> c]} ELSE {}

\* The route is read once, after sealing.
SealDirect ==
  /\ op.at = "sealing" /\ route > 0 /\ direct["a"] = route
  /\ given' = given + 1
  /\ op' = [at |-> "direct", g |-> route, c |-> Data(given + 1)]
  /\ lan' = lan \cup Stream(route, Data(given + 1))
  /\ UNCHANGED <<route, relayUp, closed, fencing, relay, paths, receipts,
                 receiver, taken>>

SealRelay ==
  /\ op.at = "sealing" /\ ~(route > 0 /\ direct["a"] = route)
  /\ IF relayUp
     THEN /\ given' = given + 1
          /\ op' = [at |-> "submit", g |-> 0, c |-> Data(given + 1)]
     ELSE /\ op' = Idle  \* NoPath, nothing attempted
          /\ UNCHANGED given
  /\ UNCHANGED <<route, relayUp, closed, fencing, relay, paths, streams,
                 receiver, taken>>

\* The receipt: the peer has admitted the message.
DirectDone ==
  /\ op.at = "direct" /\ "a" \in open[op.g]
  /\ [g |-> op.g, c |-> op.c] \in receipts
  /\ op' = Idle
  /\ UNCHANGED <<route, relayUp, closed, fencing, given, relay, paths, streams,
                 receiver, taken>>

\* Fault: a failed LAN send is not repeated over the relay.
DirectFailsSilently ==
  /\ op.at = "direct"
  /\ op' = Idle
  /\ route' = Relay
  /\ UNCHANGED <<relayUp, closed, fencing, given, relay, paths, streams,
                 receiver, taken>>

\* direct_timeout, or any error of the stream: the same ciphertext takes the
\* relay, and the lane stays there if it was still on that path.
DirectFails ==
  /\ op.at = "direct"
  /\ IF relayUp
     THEN /\ op' = [at |-> "submit", g |-> 0, c |-> op.c]
          /\ route' = IF route = op.g THEN Relay ELSE route
     ELSE /\ op' = Idle  \* NoPath after an attempt
          /\ route' = Interrupted
  /\ UNCHANGED <<relayUp, closed, fencing, given, relay, paths, streams,
                 receiver, taken>>

Submit ==
  /\ op.at = "submit" /\ writer = None /\ link
  /\ writer' = op.c
  /\ op' = [at |-> "relay", g |-> op.g, c |-> op.c]
  /\ UNCHANGED <<route, relayUp, closed, fencing, given, link, wire, paths,
                 streams, receiver, taken>>

\* A send whose outcome is unknown interrupts the lane; a fence task just ends.
Abandon ==
  /\ op' = Idle
  /\ route' = IF Sending THEN Interrupted ELSE route
  /\ fencing' = IF Sending THEN fencing ELSE 0

RelaySendFails ==
  /\ op.at \in {"submit", "relay"} /\ ~link
  /\ Abandon
  /\ UNCHANGED <<relayUp, closed, given, relay, paths, streams, receiver, taken>>

\* operation_timeout covers the whole operation, the wait for the lock too.
OperationTimesOut ==
  /\ op.at # "idle"
  /\ Abandon
  /\ UNCHANGED <<relayUp, closed, given, relay, paths, streams, receiver, taken>>

LockWaitTimesOut ==
  /\ op.at # "idle" /\ ~closed
  /\ route' = Interrupted
  /\ UNCHANGED <<relayUp, closed, op, fencing, given, relay, paths, streams,
                 receiver, taken>>

\* The writer task finishes the write it started; the send or the fence that
\* still waits for it goes on.
AwaitsWrite == op.at = "relay" /\ op.c = writer

Written ==
  IF ~AwaitsWrite THEN UNCHANGED <<op, lan>>
  ELSE IF IsData(writer) THEN op' = Idle /\ UNCHANGED lan
  ELSE /\ op' = [at |-> "query", g |-> writer.g, c |-> writer]
       /\ lan' = lan \cup Stream(writer.g, writer)

WriterWrites ==
  /\ writer # None /\ link
  /\ wire' = Append(wire, writer)
  /\ writer' = None
  /\ Written
  /\ UNCHANGED <<route, relayUp, closed, fencing, given, link, paths, receipts,
                 receiver, taken>>

\* A request nobody waits for any more is skipped unless its write had started.
WriterSkips ==
  /\ writer # None /\ ~AwaitsWrite
  /\ writer' = None
  /\ UNCHANGED <<sender, link, wire, paths, streams, receiver, taken>>

-----------------------------------------------------------------------------
(* The fence task of an attached connection.                               *)

FenceStart ==
  /\ fencing # 0 /\ op.at = "idle"
  /\ IF ~closed /\ relayUp /\ route # Interrupted /\ direct["a"] = fencing
     THEN /\ op' = [at |-> "submit", g |-> fencing, c |-> Fence(fencing)]
          /\ UNCHANGED fencing
     ELSE /\ fencing' = 0
          /\ UNCHANGED op
  /\ UNCHANGED <<route, relayUp, closed, given, relay, paths, streams, receiver,
                 taken>>

\* The task may also run out of time while another operation holds the lock.
FenceTimesOut ==
  /\ fencing # 0
  /\ fencing' = 0
  /\ op' = IF op.c.g = fencing THEN Idle ELSE op
  /\ UNCHANGED <<route, relayUp, closed, given, relay, paths, streams, receiver,
                 taken>>

Promoted(g) == IF direct["a"] = g /\ route # Interrupted THEN g ELSE route

FenceDone ==
  /\ op.at = "query" /\ "a" \in open[op.g]
  /\ [g |-> op.g, c |-> op.c] \in receipts
  /\ route' = Promoted(op.g)
  /\ op' = Idle
  /\ fencing' = 0
  /\ UNCHANGED <<relayUp, closed, given, relay, paths, streams, receiver, taken>>

-----------------------------------------------------------------------------
(* Attaching and losing paths.                                             *)

\* AlreadyAttached unless the previous connection is known to be closed here.
CanAttach(e, g) ==
  /\ g > last[e] /\ e \in open[g]
  /\ direct[e] # 0 => e \notin open[direct[e]]

Installed(e, g) ==
  /\ direct' = [direct EXCEPT ![e] = g]
  /\ last' = [last EXCEPT ![e] = g]
  /\ UNCHANGED open

\* The tasks of the old connection are aborted, its fence among them; a
\* reliable lane waits on the relay for the new fence.
AttachSender(g) ==
  /\ ~closed /\ CanAttach("a", g)
  /\ Installed("a", g)
  /\ route' = IF route = Interrupted THEN Interrupted ELSE Relay
  /\ op' = IF op.c.g # 0 THEN Idle ELSE op
  /\ fencing' = g
  /\ UNCHANGED <<relayUp, closed, given, relay, streams, receiver, taken>>

AttachReceiver(g) ==
  /\ CanAttach("b", g)
  /\ Installed("b", g)
  /\ allowed' = FALSE
  /\ UNCHANGED <<sender, relay, streams, admitted, fence, opened, delivered,
                 taken>>

\* The connection closes, or times out, at one end before the other knows.
LoseLan(e, g) ==
  /\ e \in open[g]
  /\ open' = [open EXCEPT ![g] = @ \ {e}]
  /\ UNCHANGED <<sender, relay, direct, last, streams, receiver, taken>>

\* The close observer; an end whose path was replaced is left alone.
CloseObserved(e) ==
  /\ direct[e] # 0 /\ e \notin open[direct[e]]
  /\ direct' = [direct EXCEPT ![e] = 0]
  /\ route' = IF e = "a" /\ route = direct["a"] THEN Relay ELSE route
  /\ UNCHANGED <<relayUp, closed, op, fencing, given, relay, open, last,
                 streams, receiver, taken>>

\* The relay connection is lost with any tail of what it carried.
LoseRelay ==
  /\ link
  /\ link' = FALSE
  /\ \E k \in 0 .. Len(wire) : wire' = SubSeq(wire, 1, k)
  /\ UNCHANGED <<sender, writer, paths, streams, receiver, taken>>

RelayLossObserved ==
  /\ ~link /\ relayUp
  /\ relayUp' = FALSE
  /\ UNCHANGED <<route, closed, op, fencing, given, relay, paths, streams,
                 receiver, taken>>

Close ==
  /\ ~closed
  /\ closed' = TRUE
  /\ route' = IF op.at \in {"direct", "submit", "relay"} /\ Sending
              THEN Interrupted ELSE route
  /\ op' = Idle /\ fencing' = 0
  /\ direct' = [direct EXCEPT !["a"] = 0]
  /\ open' = IF direct["a"] = 0 THEN open
             ELSE [open EXCEPT ![direct["a"]] = @ \ {"a"}]
  /\ UNCHANGED <<relayUp, given, relay, last, streams, receiver, taken>>

-----------------------------------------------------------------------------
(* The receiver: the relay reader and the LAN stream readers share one      *)
(* admission, serialised by the lane's last_reliable lock.                  *)

Room == Len(delivered) - taken < Capacity

\* A queue slot is reserved, the ciphertext opened, the message queued and
\* remembered without an await that could be cancelled in between.
Admit(c) ==
  /\ opened' = opened \cup {c.n}
  /\ delivered' = Append(delivered, c.n)
  /\ admitted' = c
  /\ UNCHANGED <<allowed, fence>>

\* Bytes admitted last are acknowledged again; older ones are ReplayRejected.
Repeated(c) == c = admitted

RelayAdmits ==
  /\ wire # <<>>
  /\ wire' = Tail(wire)
  /\ LET c == Head(wire) IN
       IF Repeated(c) THEN UNCHANGED receiver
       ELSE /\ Room
            /\ IF ~IsData(c)
               THEN /\ fence' = c.g
                    /\ UNCHANGED <<allowed, admitted, opened, delivered>>
               ELSE IF c.n \in opened THEN UNCHANGED receiver
               ELSE Admit(c)
  /\ UNCHANGED <<sender, writer, link, paths, streams, taken>>

Acknowledged(s) ==
  /\ lan' = lan \ {s}
  /\ receipts' = IF "b" \in open[s.g] THEN receipts \cup {s} ELSE receipts

\* Data is refused until the fence of this connection was queried.
LanAdmits(s) ==
  /\ IsData(s.c) /\ direct["b"] = s.g /\ allowed
  /\ \/ /\ Repeated(s.c)
        /\ Acknowledged(s)
        /\ UNCHANGED receiver
     \/ /\ ~Repeated(s.c) /\ Room
        /\ s.c.n \notin opened
        /\ Admit(s.c)
        /\ Acknowledged(s)
  /\ UNCHANGED <<sender, relay, paths, taken>>

\* Fault: the fence of an older generation answers the query.
FenceOfAnyGeneration(s) == fence # 0

FenceAdmitted(s) == fence = s.c.g /\ fence = s.g

\* A query waits for the relay to bring exactly this fence.
LanQuery(s) ==
  /\ ~IsData(s.c) /\ direct["b"] = s.g
  /\ FenceAdmitted(s)
  /\ allowed' = TRUE
  /\ Acknowledged(s)
  /\ UNCHANGED <<sender, relay, paths, admitted, fence, opened, delivered, taken>>

\* Fault: the ciphertext is opened before a queue slot is reserved, and the
\* reader cancelled while it waits for the slot.
LanGivesUpOpened(s) ==
  /\ lan' = lan \ {s}
  /\ opened' = IF IsData(s.c) /\ allowed THEN opened \cup {s.c.n} ELSE opened
  /\ UNCHANGED <<sender, relay, paths, receipts, allowed, admitted, fence,
                 delivered, taken>>

\* A refused, replayed, timed out or aborted reader drops its stream; what it
\* had not admitted stays unopened.
LanGivesUp(s) ==
  /\ lan' = lan \ {s}
  /\ UNCHANGED <<sender, relay, paths, receipts, receiver, taken>>

Take ==
  /\ taken < Len(delivered)
  /\ taken' = taken + 1
  /\ UNCHANGED <<sender, relay, paths, streams, receiver>>

-----------------------------------------------------------------------------
Next ==
  \/ Begin \/ SealDirect \/ SealRelay
  \/ DirectDone \/ DirectFails \/ Submit
  \/ RelaySendFails \/ OperationTimesOut \/ LockWaitTimesOut
  \/ WriterWrites \/ WriterSkips
  \/ FenceStart \/ FenceTimesOut \/ FenceDone
  \/ \E g \in Generations : AttachSender(g) \/ AttachReceiver(g)
  \/ \E e \in Ends, g \in Generations : LoseLan(e, g)
  \/ \E e \in Ends : CloseObserved(e)
  \/ LoseRelay \/ RelayLossObserved \/ Close
  \/ RelayAdmits
  \/ \E s \in lan : LanAdmits(s) \/ LanQuery(s) \/ LanGivesUp(s)
  \/ Take

Spec == Init /\ [][Next]_vars

\* Tasks run, the peer's reader and the applications keep reading.
Fairness ==
  /\ WF_vars(Begin) /\ WF_vars(SealDirect) /\ WF_vars(SealRelay)
  /\ WF_vars(OperationTimesOut) /\ WF_vars(WriterWrites)
  /\ WF_vars(RelayAdmits) /\ WF_vars(Take)

FairSpec == Spec /\ Fairness

-----------------------------------------------------------------------------
TypeOK ==
  /\ route \in Generations \cup {Relay, Interrupted}
  /\ relayUp \in BOOLEAN /\ closed \in BOOLEAN
  /\ op \in [at : {"idle", "sealing", "direct", "submit", "relay", "query"},
             g : 0 .. MaxGeneration, c : Ciphertexts \cup {None}]
  /\ fencing \in 0 .. MaxGeneration /\ given \in 0 .. MaxMessages
  /\ writer \in Ciphertexts \cup {None} /\ link \in BOOLEAN
  /\ wire \in Seq(Ciphertexts)
  /\ open \in [Generations -> SUBSET Ends]
  /\ direct \in [Ends -> 0 .. MaxGeneration]
  /\ last \in [Ends -> 0 .. MaxGeneration]
  /\ lan \subseteq [g : Generations, c : Ciphertexts]
  /\ receipts \subseteq [g : Generations, c : Ciphertexts]
  /\ allowed \in BOOLEAN /\ admitted \in Ciphertexts \cup {None}
  /\ fence \in 0 .. MaxGeneration
  /\ opened \subseteq 1 .. MaxMessages
  /\ delivered \in Seq(1 .. MaxMessages)
  /\ taken \in 0 .. Len(delivered)
  /\ Len(delivered) - taken <= Capacity

\* The lane, seen by its callers: in order, once, nothing after a failure.
Lane == INSTANCE ReliableLane WITH
  given <- given,
  unanswered <- op.at \in {"direct", "submit", "relay"} /\ Sending,
  delivered <- delivered,
  broken <- (route = Interrupted \/ closed) /\ op.at # "sealing"

\* What the session's callers see is the abstract lane: whichever path carries
\* a message and whenever that changes, they are delivered in order and once.
LaneSpec == Lane!Spec

\* A lane on its direct path has nothing left to be delivered by the relay:
\* a message sent over the LAN cannot overtake one sent before it.
NoBacklogBehindDirect ==
  route > 0 =>
    /\ \A i \in DOMAIN wire : ~IsData(wire[i]) \/ wire[i].n \in opened
    /\ ~IsData(writer) \/ writer.n \in opened

\* While the relay stays up, whatever a caller was told is sent arrives, on
\* the path it was sent on or on the fallback.
SentArrives ==
  \A n \in 1 .. MaxMessages :
    (given = n /\ op = Idle /\ route # Interrupted /\ ~closed)
      ~> (Len(delivered) >= n \/ ~link)
=============================================================================
