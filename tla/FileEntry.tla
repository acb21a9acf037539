----------------------------- MODULE FileEntry ------------------------------
(***************************************************************************)
(* The transfer of one file of a file task (transfer_task.rs), over any    *)
(* number of attempts.  The sender keeps the identity of the source as it  *)
(* was first observed (manifest.jsonl) and an index of it, a proof per     *)
(* block (SourceIndex); the receiver keeps a part file and a journal of    *)
(* the blocks it acknowledged (CheckpointLedger), and publishes the part   *)
(* under its final name when all of it is proved.  Processes are killed,   *)
(* power fails, connections are lost, answers are late, users cancel, edit *)
(* the source and use the destination's name.                              *)
(*                                                                         *)
(* A block's digest and its content are one value; a chain of digests (a   *)
(* proof, a root) is the sequence of them.  Creating, renaming and         *)
(* deleting a file happen in order and last; written data lasts once it is *)
(* synced.                                                                 *)
(***************************************************************************)
EXTENDS Naturals, Sequences

CONSTANTS
  Blocks,   \* the blocks of the file
  Budget,   \* the number of disturbances
  Nothing,  \* no such file
  Foreign,  \* somebody else's file
  Junk      \* what power failure makes of data that was not synced

ASSUME BlocksAssumption == Blocks \in Nat \ {0}
ASSUME BudgetAssumption == Budget \in Nat

\* What a block of the part or of the ledger holds, and what a source holds.
Values == 0..Budget \cup {Junk}
Contents == [1..Blocks -> 0..Budget]

Names == [root : Contents, done : BOOLEAN]
Parts == [data : Seq(Values), synced : Nat]
Ledgers == [header : BOOLEAN, records : Seq(Values), synced : Nat]

\* No file is none of the files, and somebody else's is not the source.
ASSUME FilesAssumption ==
  /\ Nothing \notin Names /\ Nothing \notin Parts /\ Nothing \notin Ledgers
  /\ Nothing \notin Contents \union Nat /\ Foreign \notin Contents

VARIABLES
  source,    \* the content of the source file
  stamp,     \* its identity: size, times and change token
  versions,  \* history: every content it had
  manifest,  \* the identity of the source in the sender's manifest
  index,     \* the sender's index file: [stamp, root], no root until it is whole
  sender,    \* [phase, offset, scanned, stamp] of the sender's worker
  told,      \* the sender counts the file as completed
  meta,      \* <item>.received.json
  part,      \* the part file that meta names: [data, synced]
  ledger,    \* <item>.ledger: [header, records, synced]
  file,      \* the destination
  delivered, \* history: the part was published
  receiver,  \* [phase, root] of the receiver's worker
  wire,      \* per end, the messages under way to it
  up,        \* the session is up
  cancelled, \* the ends whose cancelled flag is set
  cancels,   \* the ends a Cancel is under way to
  byUser,    \* history: a user cancelled this attempt
  budget     \* disturbances left

Ends == {"sender", "receiver"}
Other(e) == IF e = "sender" THEN "receiver" ELSE "sender"

sourceVars == <<source, stamp, versions>>
sendVars == <<manifest, index, sender, told>>
partVars == <<meta, part, ledger>>
fileVars == <<file, delivered>>
cancelVars == <<cancelled, cancels, byUser>>
vars == <<sourceVars, sendVars, partVars, fileVars, receiver, wire, up,
          cancelVars, budget>>

Idle == [phase |-> "idle", offset |-> 0, scanned |-> <<>>, stamp |-> 0]
Init ==
  /\ source = [i \in 1..Blocks |-> 0] /\ stamp = 0 /\ versions = {source}
  /\ manifest = Nothing /\ index = Nothing /\ sender = Idle /\ told = FALSE
  /\ meta = Nothing /\ part = Nothing /\ ledger = Nothing
  /\ file = Nothing /\ delivered = FALSE
  /\ receiver = [phase |-> "idle", root |-> <<>>]
  /\ wire = [e \in Ends |-> <<>>] /\ up = FALSE
  /\ cancelled = {} /\ cancels = {} /\ byUser = FALSE
  /\ budget = Budget

Phase(e) == IF e = "sender" THEN sender.phase ELSE receiver.phase
Active == {e \in Ends : Phase(e) # "idle"}

Put(to, msg, w) == IF up THEN [w EXCEPT ![to] = Append(@, msg)] ELSE w
Send(to, msg) == wire' = Put(to, msg, wire)
Arrives(e, kind) == wire[e] # <<>> /\ Head(wire[e]).kind = kind
Consume(e) == wire' = [wire EXCEPT ![e] = Tail(@)]
Answer(e, msg) == wire' = Put(Other(e), msg, [wire EXCEPT ![e] = Tail(@)])
Msg(e) == Head(wire[e])

\* A worker whose task fails reports the failure with a Cancel (run).
Fails(e) ==
  cancels' = IF up /\ Other(e) \in Active THEN cancels \union {Other(e)} ELSE cancels

-----------------------------------------------------------------------------
(* The sender: send_entry.                                                 *)

SendsEntry(root) == [kind |-> "entry", root |-> root]
Result(ok) == [kind |-> "result", ok |-> ok]

\* Both sides start over.
StartAttempt ==
  /\ Active = {}
  /\ up' = TRUE /\ cancelled' = {} /\ cancels' = {} /\ byUser' = FALSE
  /\ receiver' = [phase |-> "listening", root |-> <<>>]
  /\ sender' = [Idle EXCEPT !.phase = IF manifest = Nothing THEN "observe" ELSE "verify"]
  /\ wire' = [e \in Ends |-> <<>>]
  /\ UNCHANGED <<sourceVars, manifest, index, told, partVars, fileVars, budget>>

\* The first attempt observes the source; the later ones keep that identity.
RecordManifest ==
  /\ sender.phase = "observe"
  /\ manifest' = stamp
  /\ sender' = [sender EXCEPT !.phase = "verify"]
  /\ UNCHANGED <<sourceVars, index, told, partVars, fileVars, receiver, wire, up,
                 cancelVars, budget>>

\* SourceChanged: the entry is skipped.
Skip ==
  /\ sender' = [Idle EXCEPT !.phase = "aborted"]
  /\ Send("receiver", [kind |-> "skipped"])

\* open_verified_source: the source must be the one that was observed.
VerifySource ==
  /\ sender.phase = "verify"
  /\ IF stamp = manifest
     THEN sender' = [sender EXCEPT !.phase = "open"] /\ UNCHANGED wire
     ELSE Skip
  /\ UNCHANGED <<sourceVars, manifest, index, told, partVars, fileVars, receiver, up,
                 cancelVars, budget>>

\* The index is opened, or built if it is not whole.  One of another stamp is
\* kept, whole or not.
OpenIndex ==
  /\ sender.phase = "open"
  /\ IF index \in {Nothing, Junk} \/ (index.stamp = stamp /\ index.root = <<>>)
     THEN /\ index' = [stamp |-> stamp, root |-> <<>>]
          /\ sender' = [Idle EXCEPT !.phase = "scan", !.stamp = stamp]
          /\ UNCHANGED wire
     ELSE /\ UNCHANGED index
          /\ IF index.stamp = stamp
             THEN /\ sender' = [Idle EXCEPT !.phase = "decision"]
                  /\ Send("receiver", SendsEntry(index.root))
             ELSE Skip
  /\ UNCHANGED <<sourceVars, manifest, told, partVars, fileVars, receiver, up,
                 cancelVars, budget>>

ScanBlock ==
  /\ sender.phase = "scan" /\ Len(sender.scanned) < Blocks
  /\ sender' = [sender EXCEPT !.scanned = Append(@, source[Len(@) + 1])]
  /\ UNCHANGED <<sourceVars, manifest, index, told, partVars, fileVars, receiver, wire,
                 up, cancelVars, budget>>

\* A source that changed meanwhile leaves no index.
ScanEnds ==
  /\ sender.phase = "scan" /\ Len(sender.scanned) = Blocks
  /\ IF stamp = sender.stamp
     THEN /\ index' = [stamp |-> stamp, root |-> sender.scanned]
          /\ sender' = [Idle EXCEPT !.phase = "decision"]
          /\ Send("receiver", SendsEntry(sender.scanned))
     ELSE index' = Nothing /\ Skip
  /\ UNCHANGED <<sourceVars, manifest, told, partVars, fileVars, receiver, up,
                 cancelVars, budget>>

\* EntryAbort, and the wait for the peer's matching result.
Abort ==
  /\ sender' = [sender EXCEPT !.phase = "aborted"]
  /\ Answer("sender", [kind |-> "abort"])

\* read_block, or the end of the file; the source is checked before either (a
\* block that changes while it is read fails its digest: it counts as checked).
Continue(offset) ==
  IF stamp # index.stamp THEN Abort
  ELSE IF offset = Blocks
  THEN /\ sender' = [sender EXCEPT !.phase = "result", !.offset = offset]
       /\ Answer("sender", [kind |-> "complete", root |-> index.root])
  ELSE /\ sender' = [sender EXCEPT !.phase = "ack", !.offset = offset]
       /\ Answer("sender", [kind |-> "block", at |-> offset,
                            value |-> source[offset + 1]])

Proof(offset) == SubSeq(index.root, 1, offset)

\* The task goes on after an entry that failed: the attempt is over.
EntryOver(ok) ==
  /\ sender' = Idle
  /\ told' = (told \/ ok)
  /\ Consume("sender")

DecisionArrives ==
  /\ sender.phase = "decision" /\ Arrives("sender", "decision")
  /\ IF ~Msg("sender").ok
     THEN EntryOver(FALSE)
     ELSE /\ IF Msg("sender").proof = Proof(Msg("sender").offset)
             THEN Continue(Msg("sender").offset) ELSE Abort
          /\ UNCHANGED told
  /\ UNCHANGED <<sourceVars, manifest, index, partVars, fileVars, receiver, up,
                 cancelVars, budget>>

AckArrives ==
  /\ sender.phase = "ack" /\ Arrives("sender", "ack")
  /\ IF Msg("sender").offset = sender.offset + 1 /\ Msg("sender").proof = Proof(sender.offset + 1)
     THEN Continue(sender.offset + 1) ELSE Abort
  /\ UNCHANGED <<sourceVars, manifest, index, told, partVars, fileVars, receiver, up,
                 cancelVars, budget>>

ResultArrives ==
  /\ Arrives("sender", "result")
  /\ \/ sender.phase = "ack" /\ ~Msg("sender").ok
     \/ sender.phase = "result"
     \/ sender.phase = "aborted" /\ ~Msg("sender").ok
  /\ EntryOver(Msg("sender").ok)
  /\ UNCHANGED <<sourceVars, manifest, index, partVars, fileVars, receiver, up,
                 cancelVars, budget>>

\* A message that does not fit, and a result with another reason, end the task.
UnexpectedArrives ==
  /\ sender.phase = "aborted" /\ wire["sender"] # <<>>
  /\ sender' = Idle /\ Fails("sender") /\ Consume("sender")
  /\ UNCHANGED <<sourceVars, manifest, index, told, partVars, fileVars, receiver, up,
                 cancelled, byUser, budget>>

\* RESPONSE_TIMEOUT: within the blocks the entry is aborted, elsewhere the
\* task fails.
SenderTimesOut ==
  /\ budget > 0 /\ up /\ wire["sender"] = <<>>
  /\ budget' = budget - 1
  /\ \/ /\ sender.phase = "ack"
        /\ sender' = [sender EXCEPT !.phase = "aborted"]
        /\ Send("receiver", [kind |-> "abort"])
        /\ UNCHANGED cancels
     \/ /\ sender.phase \in {"decision", "result", "aborted"}
        /\ sender' = Idle /\ Fails("sender")
        /\ UNCHANGED wire
  /\ UNCHANGED <<sourceVars, manifest, index, told, partVars, fileVars, receiver, up,
                 cancelled, byUser>>

\* Cancelled, or the service stopped.  An unfinished index is deleted.
SenderGivesUp ==
  /\ sender.phase # "idle"
  /\ \/ ~up /\ UNCHANGED cancels
     \/ up /\ "sender" \in cancelled /\ Fails("sender")
  /\ sender' = Idle
  /\ index' = IF sender.phase = "scan" THEN Nothing ELSE index
  /\ UNCHANGED <<sourceVars, manifest, told, partVars, fileVars, receiver, wire, up,
                 cancelled, byUser, budget>>

-----------------------------------------------------------------------------
(* The receiver: receive_entry.  A part that is open is deleted when its   *)
(* guard is dropped, unless it is preserved or published.                  *)

Empty == [data |-> <<>>, synced |-> 0]
Preserved == IF part = Nothing THEN Nothing ELSE [part EXCEPT !.synced = Len(part.data)]
Decision(ok, offset, proof) ==
  [kind |-> "decision", ok |-> ok, offset |-> offset, proof |-> proof]
Refused == Decision(FALSE, 0, <<>>)
Moves(phase) == receiver' = [receiver EXCEPT !.phase = phase]

\* What the entry's record says of earlier attempts decides how to go on.
EntryArrives ==
  /\ receiver.phase = "listening" /\ Arrives("receiver", "entry")
  /\ LET root == Msg("receiver").root IN
     IF meta # Nothing /\ (meta.root # root \/ ((meta.done \/ file # Nothing) /\ file # root))
     THEN /\ Answer("receiver", Refused)
          /\ UNCHANGED <<meta, receiver>>
     ELSE IF meta # Nothing /\ (meta.done \/ file # Nothing)
     THEN /\ meta' = [meta EXCEPT !.done = TRUE]
          /\ receiver' = [phase |-> "closing", root |-> root]
          /\ Answer("receiver", Decision(TRUE, Blocks, root))
     ELSE /\ receiver' = [phase |-> IF meta = Nothing THEN "create"
                                   ELSE IF part = Nothing THEN "replace" ELSE "open",
                          root |-> root]
          /\ Consume("receiver")
          /\ UNCHANGED meta
  /\ UNCHANGED <<sourceVars, sendVars, part, ledger, fileVars, up, cancelVars, budget>>

\* The entry fails before it is admitted (phase 0 of receive_entry).
Refuse ==
  /\ Moves("listening")
  /\ Send("sender", Refused)

CreatePart ==
  /\ receiver.phase = "create"
  /\ IF file # Nothing
     THEN Refuse /\ UNCHANGED <<meta, part>>
     ELSE /\ meta' = [root |-> receiver.root, done |-> FALSE]
          /\ part' = Empty
          /\ Moves("open")
          /\ UNCHANGED wire
  /\ UNCHANGED <<sourceVars, sendVars, ledger, fileVars, up, cancelVars, budget>>

\* Fault: the ledger of the lost part stays.
LedgerOutlivesPart ==
  /\ receiver.phase = "replace"
  /\ Moves("rename")
  /\ UNCHANGED <<wire, sourceVars, sendVars, partVars, fileVars, up, cancelVars, budget>>

\* The part is gone: a new one, no ledger, and then the name of the new one.
DropLedger ==
  /\ receiver.phase = "replace"
  /\ IF file # Nothing
     THEN Refuse /\ UNCHANGED ledger
     ELSE /\ ledger' = Nothing
          /\ Moves("rename")
          /\ UNCHANGED wire
  /\ UNCHANGED <<sourceVars, sendVars, meta, part, fileVars, up, cancelVars, budget>>

NamePart ==
  /\ receiver.phase = "rename"
  /\ part' = Empty
  /\ Moves("open")
  /\ UNCHANGED <<sourceVars, sendVars, meta, ledger, fileVars, wire, up, cancelVars, budget>>

Sound(l) == l.header /\ \A i \in DOMAIN l.records : l.records[i] # Junk

\* What the records prove is kept, what follows is cut off, and both are synced.
Adopted(n) == [data |-> SubSeq(part.data, 1, n), synced |-> n]

OpenLedger ==
  /\ receiver.phase = "open"
  /\ IF ledger = Nothing
     THEN /\ ledger' = [header |-> FALSE, records |-> <<>>, synced |-> 0]
          /\ part' = Empty
          /\ Moves("header")
          /\ UNCHANGED wire
     ELSE IF Sound(ledger) /\ Len(part.data) >= Len(ledger.records)
     THEN /\ part' = Adopted(Len(ledger.records))
          /\ ledger' = [ledger EXCEPT !.synced = Len(ledger.records)]
          /\ Moves("wait")
          /\ Send("sender", Decision(TRUE, Len(ledger.records), ledger.records))
     ELSE /\ part' = Preserved
          /\ Refuse
          /\ UNCHANGED ledger
  /\ UNCHANGED <<sourceVars, sendVars, meta, fileVars, up, cancelVars, budget>>

WriteHeader ==
  /\ receiver.phase = "header"
  /\ ledger' = [ledger EXCEPT !.header = TRUE]
  /\ Moves("open")
  /\ UNCHANGED <<sourceVars, sendVars, meta, part, fileVars, wire, up, cancelVars, budget>>

\* write_block: the data, its sync, the record, its sync, and the acknowledgement.
BlockArrives ==
  /\ receiver.phase = "wait" /\ Arrives("receiver", "block")
  /\ Msg("receiver").at = Len(ledger.records)
  /\ part' = [part EXCEPT !.data = Append(@, Msg("receiver").value)]
  /\ Moves("written")
  /\ Consume("receiver")
  /\ UNCHANGED <<sourceVars, sendVars, meta, ledger, fileVars, up, cancelVars, budget>>

SyncData ==
  /\ receiver.phase = "written"
  /\ part' = [part EXCEPT !.synced = Len(part.data)]
  /\ Moves("synced")
  /\ UNCHANGED <<sourceVars, sendVars, meta, ledger, fileVars, wire, up, cancelVars, budget>>

AppendRecord ==
  /\ receiver.phase = "synced" /\ up /\ "receiver" \notin cancelled
  /\ ledger' = [ledger EXCEPT !.records = Append(@, part.data[Len(part.data)])]
  /\ Moves("recorded")
  /\ UNCHANGED <<sourceVars, sendVars, meta, part, fileVars, wire, up, cancelVars, budget>>

\* Fault: the record is not synced before the acknowledgement.
AckUnsynced ==
  /\ receiver.phase = "recorded"
  /\ Moves("wait")
  /\ Send("sender", [kind |-> "ack", offset |-> Len(ledger.records), proof |-> ledger.records])
  /\ UNCHANGED <<sourceVars, sendVars, partVars, fileVars, up, cancelVars, budget>>

SyncRecord ==
  /\ receiver.phase = "recorded"
  /\ ledger' = [ledger EXCEPT !.synced = Len(ledger.records)]
  /\ Moves("wait")
  /\ Send("sender", [kind |-> "ack", offset |-> Len(ledger.records), proof |-> ledger.records])
  /\ UNCHANGED <<sourceVars, sendVars, meta, part, fileVars, up, cancelVars, budget>>

\* The part is read again from the start before it is published.
Verified ==
  part.data = receiver.root /\ ledger.records = receiver.root

CompleteArrives ==
  /\ Arrives("receiver", "complete") /\ Msg("receiver").root = receiver.root
  /\ \/ /\ receiver.phase = "wait"
        /\ part' = Preserved
        /\ IF Verified
           THEN Moves("verified") /\ Consume("receiver")
           ELSE Moves("listening") /\ Answer("receiver", Result(FALSE))
     \/ /\ receiver.phase = "closing"
        /\ Moves("listening")
        /\ Answer("receiver", Result(TRUE))
        /\ UNCHANGED part
  /\ UNCHANGED <<sourceVars, sendVars, meta, ledger, fileVars, up, cancelVars, budget>>

\* Fault: a file under the final name is replaced.
PublishReplacing ==
  /\ receiver.phase = "verified"
  /\ part' = Nothing /\ file' = part.data /\ delivered' = TRUE
  /\ Moves("published")
  /\ UNCHANGED <<sourceVars, sendVars, meta, ledger, wire, up, cancelVars, budget>>

\* The final name is created and never replaced.
Publish ==
  /\ receiver.phase = "verified"
  /\ part' = Nothing
  /\ IF file = Nothing
     THEN /\ file' = part.data /\ delivered' = TRUE
          /\ Moves("published")
          /\ UNCHANGED wire
     ELSE /\ Moves("listening")
          /\ Send("sender", Result(FALSE))
          /\ UNCHANGED fileVars
  /\ UNCHANGED <<sourceVars, sendVars, meta, ledger, up, cancelVars, budget>>

Complete ==
  /\ receiver.phase = "published"
  /\ meta' = [meta EXCEPT !.done = TRUE]
  /\ Moves("listening")
  /\ Send("sender", Result(TRUE))
  /\ UNCHANGED <<sourceVars, sendVars, part, ledger, fileVars, up, cancelVars, budget>>

\* Fault: a failed entry drops its part without preserving it.
EntryFailsDropping ==
  /\ Moves("listening")
  /\ part' = IF receiver.phase = "wait" THEN Nothing ELSE part

\* An admitted entry fails: what was received is preserved.
EntryFails ==
  /\ Moves("listening")
  /\ part' = IF receiver.phase = "wait" THEN Preserved ELSE part

AbortArrives ==
  /\ receiver.phase \in {"wait", "closing"} /\ Arrives("receiver", "abort")
  /\ EntryFails
  /\ Answer("receiver", Result(FALSE))
  /\ UNCHANGED <<sourceVars, sendVars, meta, ledger, fileVars, up, cancelVars, budget>>

ReceiverTimesOut ==
  /\ budget > 0 /\ up /\ wire["receiver"] = <<>>
  /\ budget' = budget - 1
  /\ \/ /\ receiver.phase \in {"wait", "closing"}
        /\ EntryFails
        /\ Send("sender", Result(FALSE))
        /\ UNCHANGED cancels
     \/ /\ receiver.phase = "listening"
        /\ Moves("idle") /\ Fails("receiver")
        /\ UNCHANGED <<part, wire>>
  /\ UNCHANGED <<sourceVars, sendVars, meta, ledger, fileVars, up, cancelled, byUser>>

SkippedArrives ==
  /\ receiver.phase = "listening" /\ Arrives("receiver", "skipped")
  /\ Answer("receiver", Result(FALSE))
  /\ UNCHANGED <<sourceVars, sendVars, partVars, fileVars, receiver, up, cancelVars, budget>>

\* What belongs to an entry that is over ends the task.
StrayArrives ==
  /\ receiver.phase = "listening" /\ wire["receiver"] # <<>>
  /\ Msg("receiver").kind \in {"abort", "block", "complete"}
  /\ Moves("idle") /\ Fails("receiver") /\ Consume("receiver")
  /\ UNCHANGED <<sourceVars, sendVars, partVars, fileVars, up, cancelled, byUser, budget>>

\* ManifestComplete, after the sender's last entry.
TaskEnds ==
  /\ receiver.phase = "listening" /\ sender.phase = "idle" /\ wire["receiver"] = <<>>
  /\ Moves("idle")
  /\ UNCHANGED <<sourceVars, sendVars, partVars, fileVars, wire, up, cancelVars, budget>>

\* Cancelled, or the service stopped.  A part that is open is deleted if
\* cancelled and preserved if stopped; one that was just verified is deleted
\* either way; one that was published stays.
ReceiverGivesUp ==
  /\ receiver.phase \in {"listening", "closing", "wait", "synced", "verified", "published"}
  /\ \/ ~up /\ UNCHANGED cancels
     \/ up /\ "receiver" \in cancelled /\ Fails("receiver")
  /\ Moves("idle")
  /\ part' = IF receiver.phase \in {"wait", "synced"}
             THEN IF up THEN Nothing ELSE Preserved
             ELSE IF receiver.phase = "verified" THEN Nothing ELSE part
  /\ UNCHANGED <<sourceVars, sendVars, meta, ledger, fileVars, wire, up,
                 cancelled, byUser, budget>>

-----------------------------------------------------------------------------
(* Disturbances.                                                           *)

SessionOver == up' = FALSE /\ wire' = [e \in Ends |-> <<>>] /\ cancels' = {}

Disturb == budget > 0 /\ budget' = budget - 1

SessionEnds ==
  /\ up /\ Disturb
  /\ SessionOver
  /\ UNCHANGED <<sourceVars, sendVars, partVars, fileVars, receiver, cancelled, byUser>>

KillSender ==
  /\ sender.phase # "idle" /\ Disturb
  /\ SessionOver
  /\ sender' = Idle
  /\ index' \in {index} \union (IF sender.phase = "scan" THEN {Junk} ELSE {})
  /\ UNCHANGED <<sourceVars, manifest, told, partVars, fileVars, receiver, cancelled, byUser>>

\* What was written without a sync is there, is cut off, or is junk.
Torn(s, n) ==
  {s, SubSeq(s, 1, n)} \union
  (IF Len(s) > n THEN {Append(SubSeq(s, 1, n), Junk)} ELSE {})

KillReceiver ==
  /\ receiver.phase # "idle" /\ Disturb
  /\ SessionOver
  /\ Moves("idle")
  /\ IF part = Nothing THEN UNCHANGED part
     ELSE \E d \in Torn(part.data, part.synced) : part' = [part EXCEPT !.data = d]
  /\ IF ledger = Nothing THEN UNCHANGED ledger
     ELSE \E r \in Torn(ledger.records, ledger.synced) :
            ledger' = [ledger EXCEPT !.records = r]
  /\ UNCHANGED <<sourceVars, sendVars, meta, fileVars, cancelled, byUser>>

UserCancels(e) ==
  /\ e \in Active /\ e \notin cancelled /\ up /\ Disturb
  /\ cancelled' = cancelled \union {e}
  /\ cancels' = cancels \union {Other(e)}
  /\ byUser' = TRUE
  /\ UNCHANGED <<sourceVars, sendVars, partVars, fileVars, receiver, wire, up>>

CancelArrives(e) ==
  /\ e \in cancels
  /\ cancels' = cancels \ {e}
  /\ cancelled' = IF e \in Active THEN cancelled \union {e} ELSE cancelled
  /\ UNCHANGED <<sourceVars, sendVars, partVars, fileVars, receiver, wire, up,
                 byUser, budget>>

EditSource(i) ==
  /\ Disturb
  /\ stamp' = stamp + 1
  /\ source' = [source EXCEPT ![i] = stamp + 1]
  /\ versions' = versions \union {source'}
  /\ UNCHANGED <<sendVars, partVars, fileVars, receiver, wire, up, cancelVars>>

UserTakesName(content) ==
  /\ content # file /\ Disturb
  /\ file' = content
  /\ UNCHANGED <<sourceVars, sendVars, partVars, delivered, receiver, wire, up, cancelVars>>

-----------------------------------------------------------------------------
Progress ==
  \/ StartAttempt \/ RecordManifest \/ VerifySource \/ OpenIndex
  \/ ScanBlock \/ ScanEnds \/ DecisionArrives \/ AckArrives
  \/ ResultArrives \/ UnexpectedArrives \/ SenderGivesUp
  \/ EntryArrives \/ CreatePart \/ DropLedger \/ NamePart \/ OpenLedger \/ WriteHeader
  \/ BlockArrives \/ SyncData \/ AppendRecord \/ SyncRecord
  \/ CompleteArrives \/ Publish \/ Complete
  \/ AbortArrives \/ SkippedArrives \/ StrayArrives \/ TaskEnds \/ ReceiverGivesUp
  \/ \E e \in Ends : CancelArrives(e)

Disturbance ==
  \/ SenderTimesOut \/ ReceiverTimesOut \/ SessionEnds \/ KillSender \/ KillReceiver
  \/ \E e \in Ends : UserCancels(e)
  \/ \E i \in 1..Blocks : EditSource(i)
  \/ \E content \in {Nothing, Foreign} : UserTakesName(content)

Next == Progress \/ Disturbance
Spec == Init /\ [][Next]_vars

\* Workers run, and the user retries a task that ended.
Fairness == WF_vars(Progress)
FairSpec == Spec /\ Fairness

-----------------------------------------------------------------------------
(* Properties.                                                             *)

TypeOK ==
  /\ source \in versions /\ stamp \in 0..Budget
  /\ sender.phase \in {"idle", "observe", "verify", "open", "scan", "decision", "ack",
        "result", "aborted"}
  /\ sender.offset \in 0..Blocks /\ Len(sender.scanned) <= Blocks
  /\ receiver.phase \in {"idle", "listening", "create", "replace", "rename", "open",
        "header", "wait", "written", "synced", "recorded", "verified", "published", "closing"}
  /\ part # Nothing => part.synced <= Len(part.data) /\ Len(part.data) <= Blocks
  /\ ledger # Nothing => ledger.synced <= Len(ledger.records)
                         /\ Len(ledger.records) <= Blocks
  /\ \A e \in Ends : Len(wire[e]) <= 2
  /\ {told, delivered, up, byUser} \subseteq BOOLEAN
  /\ cancelled \union cancels \subseteq Ends /\ budget \in 0..Budget

\* The blocks that survive any crash: written, proved and synced.
Safe ==
  IF part = Nothing \/ ledger = Nothing THEN 0
  ELSE IF part.synced < ledger.synced THEN part.synced ELSE ledger.synced

\* "A checkpoint ACK means both the bytes and their journal record have been
\* synced to disk" (transfer_checkpoint.rs 3-6): whatever the sender counts as
\* acknowledged is still there after a crash of the receiver.
AckIsDurable ==
  receiver.phase \in {"wait", "written", "synced", "recorded", "verified"} =>
    Safe >= sender.offset

\* A record never proves a block that is not in the part (write_block: data
\* before record; open_or_create adopts both or neither).
RecordsProveData ==
  part # Nothing /\ ledger # Nothing /\ receiver.phase \notin {"idle", "listening"} =>
    \A i \in 1..ledger.synced :
      i <= Len(part.data) /\ part.data[i] = ledger.records[i]

\* What was acknowledged survives a crash, and every record proves its block.
PartIsProved == TypeOK /\ AckIsDurable /\ RecordsProveData

Kept == Safe' >= Safe \/ (receiver.phase = "verified" /\ file' = receiver.root)

\* Confirmed blocks are given up only when the attempt is cancelled, the final
\* name is taken, or the session ends between verification and publication
\* (receive_entry_inner: preserve or drop).
ConfirmedLasts ==
  [][\/ Kept \/ "receiver" \in cancelled \/ file # Nothing
     \/ receiver.phase = "verified" /\ ~up]_vars

\* "After an interruption, receiving again continues what was confirmed"
\* (the receiver's confirmation, transfer_task_native.rs): the end of a session
\* discards no confirmed block.
LostSessionKeepsPart == [][~up => Kept]_vars

\* The same for an attempt that no user cancelled and whose name is free.
OnlyUserDiscards == [][up => Kept \/ byUser \/ file # Nothing]_vars

Delivery == INSTANCE FileDelivery WITH Content <- Contents

\* The whole exchange implements FileDelivery: whole, of one moment of the
\* source, never over another file, and "completed" only afterwards.
DeliverySpec == Delivery!Spec

\* A source edited after its first manifest is SourceChanged in every attempt.
Changed == manifest # Nothing /\ manifest # stamp
Taken == file = Foreign \/ (file = Nothing /\ delivered)
Unusable == ledger # Nothing /\ ~Sound(ledger)

\* Retried often enough, a transfer ends: the file is there and the sender
\* knows; or the source changed, the destination was taken or removed, or a
\* crash left a ledger that no attempt can open.
Finishes == <>[](told \/ Changed \/ Taken \/ Unusable)
=============================================================================
