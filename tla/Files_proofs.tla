---------------------------- MODULE Files_proofs ----------------------------
(***************************************************************************)
(* The transfer of files keeps its promises.  One file, for any number of  *)
(* blocks and of disturbances: what was acknowledged survives a crash,     *)
(* confirmed blocks are not given up, and the destination is never         *)
(* anything but the whole source of one moment.  The tasks around it, for  *)
(* any tasks, requests, queues and clicks: a task that runs is the active  *)
(* one, and what was withdrawn or cancelled does not come back.            *)
(***************************************************************************)
EXTENDS MCFiles, SequenceTheorems, TLAPS

SenderPhases ==
  {"idle", "observe", "verify", "open", "scan", "decision", "ack", "result", "aborted"}
ReceiverPhases ==
  {"idle", "listening", "create", "replace", "rename", "open", "header", "wait",
   "written", "synced", "recorded", "verified", "published", "closing"}

\* The receiver has not answered the entry yet; it has a part with a ledger; it
\* works on a message it took.
Early == {"create", "replace", "rename", "open", "header"}
Engaged == {"wait", "written", "synced", "recorded", "verified"}
Busy == Early \cup {"written", "synced", "recorded", "verified", "published"}

ToSender ==
  [kind : {"decision"}, ok : BOOLEAN, offset : 0..Blocks, proof : Seq(Values)]
    \cup [kind : {"ack"}, offset : 0..Blocks, proof : Seq(Values)]
    \cup [kind : {"result"}, ok : BOOLEAN]
Later ==
  [kind : {"skipped", "abort"}]
    \cup [kind : {"block"}, at : 0..(Blocks - 1), value : 0..Budget]
    \cup [kind : {"complete"}, root : Contents]
Entries == [kind : {"entry"}, root : Contents]
ToReceiver == Later \cup Entries

toSender == wire["sender"]
toReceiver == wire["receiver"]

Senders ==
  [phase : SenderPhases, offset : 0..Blocks, scanned : Seq(0..Budget), stamp : Nat]
Receivers == [phase : ReceiverPhases, root : Contents \cup {<<>>}]
Indexes == [stamp : Nat, root : Contents]
Unfinished == [stamp : Nat, root : {<<>>}]

Wires ==
  /\ wire \in [Ends -> Seq(ToSender \cup ToReceiver)]
  /\ toSender \in Seq(ToSender) /\ toReceiver \in Seq(ToReceiver)

\* What every variable holds.
Holds ==
  /\ source \in Contents /\ versions \in SUBSET Contents /\ source \in versions
  /\ stamp \in Nat /\ budget \in Nat /\ stamp + budget <= Budget
  /\ manifest \in {Nothing} \cup Nat
  /\ index \in {Nothing, Junk} \cup Indexes \cup Unfinished
  /\ sender \in Senders /\ Len(sender.scanned) <= Blocks
  /\ receiver \in Receivers
  /\ meta \in {Nothing} \cup Names
  /\ part \in {Nothing} \cup Parts /\ ledger \in {Nothing} \cup Ledgers
  /\ file \in {Nothing, Foreign} \cup Contents
  /\ told \in BOOLEAN /\ delivered \in BOOLEAN /\ up \in BOOLEAN /\ byUser \in BOOLEAN
  /\ cancelled \in SUBSET Ends /\ cancels \in SUBSET Ends
  /\ Wires

\* A whole index is there while it is used; until there is one the sender is alone, and
\* what it scans is of the source while the identity stays.
Scan ==
  /\ sender.phase \in {"decision", "ack", "result"} => index \in Indexes
  /\ sender.phase \in {"idle", "observe", "verify", "open", "scan", "decision"} =>
       sender.offset = 0
  /\ sender.phase \in {"observe", "verify", "open", "scan"} =>
       toSender = <<>> /\ toReceiver = <<>> /\ receiver.phase \in {"idle", "listening"}
  /\ sender.phase = "scan" =>
       /\ sender.stamp <= stamp
       /\ sender.stamp = stamp =>
            \A i \in 1..Len(sender.scanned) : sender.scanned[i] = source[i]

\* Whatever names a content names one that the source had.
Roots ==
  /\ index \notin {Nothing, Junk} /\ index.root # <<>> => index.root \in versions
  /\ receiver.phase \notin {"idle", "listening"} => receiver.root \in versions
  /\ \A i \in 1..Len(toReceiver) : toReceiver[i].kind = "entry" => toReceiver[i].root \in versions

\* An entry that was sent, and one that is not answered yet, is alone.
Opening ==
  /\ \/ toReceiver \in Seq(Later)
     \/ /\ Len(toReceiver) = 1 /\ toSender = <<>>
        /\ sender.phase \in {"idle", "decision"} /\ receiver.phase \in {"idle", "listening"}
  /\ receiver.phase \in Early => toSender = <<>> /\ sender.phase \in {"idle", "decision"}

\* The messages under way, with the one the receiver works on.
Load == Len(toSender) + Len(toReceiver) + (IF receiver.phase \in Busy THEN 1 ELSE 0)

\* Messages cross only when one side gave up: the sender behind its abort, or the
\* receiver behind its result.
SenderLeft ==
  /\ sender.phase \in {"aborted", "idle"}
  /\ receiver.phase \notin {"idle", "listening"} =>
       toReceiver # <<>> /\ toReceiver[Len(toReceiver)].kind = "abort"
ReceiverLeft ==
  /\ receiver.phase \in {"idle", "listening"}
  /\ toSender # <<>> /\ toSender[Len(toSender)].kind = "result"
Traffic ==
  /\ ~up => toSender = <<>> /\ toReceiver = <<>>
  /\ Load <= 2
  /\ Load = 2 => SenderLeft \/ ReceiverLeft

\* What each step of the receiver has on disk.
Data == Len(part.data)
Records == Len(ledger.records)
Shelf ==
  /\ meta = Nothing => part = Nothing /\ ledger = Nothing
  /\ receiver.phase = "create" => meta = Nothing
  /\ receiver.phase \notin {"idle", "listening", "create"} => meta # Nothing
  /\ receiver.phase \in {"replace", "rename"} => part = Nothing
  /\ receiver.phase = "rename" => ledger = Nothing
  /\ receiver.phase \in {"open", "header"} \cup Engaged => part # Nothing
  /\ receiver.phase \in {"header"} \cup Engaged => ledger # Nothing
  /\ part # Nothing => part.synced <= Data /\ Data <= Blocks
  /\ ledger # Nothing => ledger.synced <= Records /\ Records <= Blocks
  /\ receiver.phase \in {"wait", "verified"} =>
       part.synced = Data /\ Records = Data /\ ledger.synced = Data
  /\ receiver.phase = "written" =>
       part.synced = Records /\ Data = Records + 1 /\ ledger.synced = Records
  /\ receiver.phase = "synced" =>
       part.synced = Data /\ Data = Records + 1 /\ ledger.synced = Records
  /\ receiver.phase = "recorded" =>
       part.synced = Data /\ Data = Records /\ Records = ledger.synced + 1
  /\ receiver.phase = "verified" => part.data = receiver.root

\* A record is of a block whose data is synced, or a crash tore it and no part was
\* opened since.
Proved(i) == i <= part.synced /\ part.data[i] = ledger.records[i]
TornAt(i) == receiver.phase \notin Engaged /\ i > ledger.synced /\ ledger.records[i] = Junk
Proofs ==
  part # Nothing /\ ledger # Nothing =>
    \A i \in 1..Records : Proved(i) \/ TornAt(i)

\* What the sender counts as acknowledged, or will, is synced in the ledger.
Acked ==
  receiver.phase \in Engaged =>
    /\ sender.offset <= ledger.synced
    /\ \A i \in 1..Len(toSender) : toSender[i].kind # "result" => toSender[i].offset <= ledger.synced

\* A good result follows the publication.
Heard ==
  /\ file \notin {Nothing, Foreign} => delivered
  /\ receiver.phase \in {"closing", "published"} => delivered
  /\ \A i \in 1..Len(toSender) : toSender[i].kind = "result" /\ toSender[i].ok => delivered

\* The inductive invariant.
IInv ==
  Holds /\ Scan /\ Roots /\ Opening /\ Traffic /\ Shelf /\ Proofs /\ Acked /\ Heard

-----------------------------------------------------------------------------
(* Sequences, contents and messages.                                       *)

LEMMA TailOf ==
  ASSUME NEW S, NEW s \in Seq(S), s # <<>>
  PROVE  /\ Len(s) \in Nat \ {0} /\ Head(s) = s[1] /\ Head(s) \in S
         /\ Tail(s) \in Seq(S) /\ Len(Tail(s)) = Len(s) - 1
         /\ \A i \in 1..Len(Tail(s)) : i + 1 \in 1..Len(s) /\ Tail(s)[i] = s[i + 1]
<1>1. Len(s) \in Nat \ {0}
  BY EmptySeq, LenProperties
<1> QED
  BY <1>1, HeadTailProperties, ElementOfSeq

LEMMA Appended ==
  ASSUME NEW S, NEW s \in Seq(S), NEW m \in S
  PROVE  /\ Append(s, m) \in Seq(S) /\ Append(s, m) # <<>>
         /\ Len(s) \in Nat /\ Len(Append(s, m)) = Len(s) + 1
         /\ Append(s, m)[Len(s) + 1] = m
         /\ \A i \in 1..Len(s) : Append(s, m)[i] = s[i]
  BY AppendProperties, LenProperties

LEMMA FirstOf ==
  ASSUME NEW S, NEW s \in Seq(S), NEW n \in 0..Len(s)
  PROVE  /\ SubSeq(s, 1, n) \in Seq(S) /\ Len(SubSeq(s, 1, n)) = n
         /\ \A i \in 1..n : SubSeq(s, 1, n)[i] = s[i]
<1>1. \A i \in 1..n : s[i] \in S
  BY ElementOfSeq, LenProperties
<1> QED
  BY <1>1, SubSeqProperties, LenProperties

\* A content is a sequence of its blocks.
LEMMA ContentIsSeq ==
  ASSUME NEW c \in Contents
  PROVE  c \in Seq(0..Budget) /\ c \in Seq(Values) /\ Len(c) = Blocks
<1>1. c \in Seq(0..Budget)
  BY BlocksAssumption, SeqDef DEF Contents
<1>2. c \in Seq(Values)
  BY <1>1, SeqMonotonic DEF Values
<1>3. DOMAIN c = 1..Blocks /\ DOMAIN c = 1..Len(c) /\ Len(c) \in Nat
  BY <1>1, LenProperties DEF Contents
<1> QED
  BY <1>1, <1>2, <1>3, BlocksAssumption

LEMMA SenderMessage ==
  ASSUME NEW m \in ToSender
  PROVE  /\ m.kind \in {"decision", "ack", "result"}
         /\ m.kind # "result" => m.offset \in 0..Blocks
         /\ m.kind # "ack" => m.ok \in BOOLEAN
  BY DEF ToSender

LEMMA ReceiverMessage ==
  ASSUME NEW m \in ToReceiver
  PROVE  /\ m.kind \in {"entry", "skipped", "abort", "block", "complete"}
         /\ m.kind \in {"entry", "complete"} => m.root \in Contents
         /\ m.kind = "block" => m.at \in 0..(Blocks - 1) /\ m.value \in 0..Budget
         /\ m.kind # "entry" => m \in Later
  BY DEF ToReceiver, Later, Entries

-----------------------------------------------------------------------------
(* What a step does to the messages under way.                             *)

LEMMA Joint ==
  /\ \A s \in Seq(ToSender) : s \in Seq(ToSender \cup ToReceiver)
  /\ \A s \in Seq(ToReceiver) : s \in Seq(ToSender \cup ToReceiver)
  BY SeqMonotonic

LEMMA SenderConsumes ==
  ASSUME Wires, toSender # <<>>, Consume("sender")
  PROVE  Wires' /\ toSender' = Tail(toSender) /\ toReceiver' = toReceiver
<1>1. toSender' = Tail(toSender) /\ toReceiver' = toReceiver
  BY DEF Wires, Consume, Ends, toSender, toReceiver
<1>2. Tail(toSender) \in Seq(ToSender)
  BY TailOf DEF Wires
<1>3. wire' \in [Ends -> Seq(ToSender \cup ToReceiver)]
  BY <1>2, Joint DEF Wires, Consume, Ends, toSender
<1> QED
  BY <1>1, <1>2, <1>3 DEF Wires

LEMMA ReceiverConsumes ==
  ASSUME Wires, toReceiver # <<>>, Consume("receiver")
  PROVE  Wires' /\ toReceiver' = Tail(toReceiver) /\ toSender' = toSender
<1>1. toReceiver' = Tail(toReceiver) /\ toSender' = toSender
  BY DEF Wires, Consume, Ends, toSender, toReceiver
<1>2. Tail(toReceiver) \in Seq(ToReceiver)
  BY TailOf DEF Wires
<1>3. wire' \in [Ends -> Seq(ToSender \cup ToReceiver)]
  BY <1>2, Joint DEF Wires, Consume, Ends, toReceiver
<1> QED
  BY <1>1, <1>2, <1>3 DEF Wires

LEMMA SenderAnswers ==
  ASSUME Wires, up, toSender # <<>>, NEW m \in ToReceiver, Answer("sender", m)
  PROVE  Wires' /\ toSender' = Tail(toSender) /\ toReceiver' = Append(toReceiver, m)
<1>1. toSender' = Tail(toSender) /\ toReceiver' = Append(toReceiver, m)
  BY DEF Wires, Answer, Put, Other, Ends, toSender, toReceiver
<1>2. Tail(toSender) \in Seq(ToSender) /\ Append(toReceiver, m) \in Seq(ToReceiver)
  BY TailOf, Appended DEF Wires
<1>3. wire' \in [Ends -> Seq(ToSender \cup ToReceiver)]
  <2>1. wire' = [wire EXCEPT !["sender"] = Tail(toSender), !["receiver"] = Append(toReceiver, m)]
    BY DEF Wires, Answer, Put, Other, Ends, toSender, toReceiver
  <2> QED
    BY <1>2, <2>1, Joint DEF Wires, Ends
<1> QED
  BY <1>1, <1>2, <1>3 DEF Wires

LEMMA ReceiverAnswers ==
  ASSUME Wires, up, toReceiver # <<>>, NEW m \in ToSender, Answer("receiver", m)
  PROVE  Wires' /\ toReceiver' = Tail(toReceiver) /\ toSender' = Append(toSender, m)
<1>1. toReceiver' = Tail(toReceiver) /\ toSender' = Append(toSender, m)
  BY DEF Wires, Answer, Put, Other, Ends, toSender, toReceiver
<1>2. Tail(toReceiver) \in Seq(ToReceiver) /\ Append(toSender, m) \in Seq(ToSender)
  BY TailOf, Appended DEF Wires
<1>3. wire' \in [Ends -> Seq(ToSender \cup ToReceiver)]
  <2>1. wire' = [wire EXCEPT !["receiver"] = Tail(toReceiver), !["sender"] = Append(toSender, m)]
    BY DEF Wires, Answer, Put, Other, Ends, toSender, toReceiver
  <2> QED
    BY <1>2, <2>1, Joint DEF Wires, Ends
<1> QED
  BY <1>1, <1>2, <1>3 DEF Wires

LEMMA SenderSends ==
  ASSUME Wires, NEW m \in ToReceiver, Send("receiver", m)
  PROVE  /\ Wires' /\ toSender' = toSender
         /\ toReceiver' = IF up THEN Append(toReceiver, m) ELSE toReceiver
<1>1. toSender' = toSender /\ toReceiver' = IF up THEN Append(toReceiver, m) ELSE toReceiver
  BY DEF Wires, Send, Put, Ends, toSender, toReceiver
<1>2. Append(toReceiver, m) \in Seq(ToReceiver)
  BY Appended DEF Wires
<1>3. wire' \in [Ends -> Seq(ToSender \cup ToReceiver)]
  BY <1>2, Joint DEF Wires, Send, Put, Ends, toReceiver
<1> QED
  BY <1>1, <1>2, <1>3 DEF Wires

LEMMA ReceiverSends ==
  ASSUME Wires, NEW m \in ToSender, Send("sender", m)
  PROVE  /\ Wires' /\ toReceiver' = toReceiver
         /\ toSender' = IF up THEN Append(toSender, m) ELSE toSender
<1>1. toReceiver' = toReceiver /\ toSender' = IF up THEN Append(toSender, m) ELSE toSender
  BY DEF Wires, Send, Put, Ends, toSender, toReceiver
<1>2. Append(toSender, m) \in Seq(ToSender)
  BY Appended DEF Wires
<1>3. wire' \in [Ends -> Seq(ToSender \cup ToReceiver)]
  BY <1>2, Joint DEF Wires, Send, Put, Ends, toSender
<1> QED
  BY <1>1, <1>2, <1>3 DEF Wires

LEMMA WireStays ==
  ASSUME Wires, UNCHANGED wire
  PROVE  Wires' /\ toSender' = toSender /\ toReceiver' = toReceiver
  BY DEF Wires, toSender, toReceiver

LEMMA WireCleared ==
  ASSUME wire' = [e \in Ends |-> <<>>]
  PROVE  Wires' /\ toSender' = <<>> /\ toReceiver' = <<>>
  BY EmptySeq DEF Wires, Ends, toSender, toReceiver

-----------------------------------------------------------------------------
(* Messages and records that the steps make.                               *)

LEMMA MadeBySender ==
  /\ [kind |-> "abort"] \in Later /\ [kind |-> "skipped"] \in Later
  /\ \A c \in Contents : [kind |-> "complete", root |-> c] \in Later
  /\ \A o \in 0..(Blocks - 1), v \in 0..Budget :
       [kind |-> "block", at |-> o, value |-> v] \in Later
  /\ \A c \in Contents : SendsEntry(c) \in Entries
  /\ Later \subseteq ToReceiver /\ Entries \subseteq ToReceiver
  BY DEF Later, Entries, ToReceiver, SendsEntry

LEMMA MadeByReceiver ==
  /\ Refused \in ToSender /\ Refused.kind = "decision" /\ Refused.offset = 0
  /\ \A b \in BOOLEAN : Result(b) \in ToSender /\ Result(b).kind = "result" /\ Result(b).ok = b
  /\ \A o \in 0..Blocks, s \in Seq(Values) :
       /\ Decision(TRUE, o, s) \in ToSender
       /\ Decision(TRUE, o, s).kind = "decision" /\ Decision(TRUE, o, s).offset = o
       /\ [kind |-> "ack", offset |-> o, proof |-> s] \in ToSender
<1>1. <<>> \in Seq(Values) /\ 0 \in 0..Blocks
  BY EmptySeq, BlocksAssumption
<1>2. \A b \in BOOLEAN : Result(b) \in ToSender /\ Result(b).kind = "result" /\ Result(b).ok = b
  BY DEF ToSender, Result
<1>3. \A b \in BOOLEAN, o \in 0..Blocks, s \in Seq(Values) :
        /\ Decision(b, o, s) \in ToSender
        /\ Decision(b, o, s).kind = "decision" /\ Decision(b, o, s).offset = o
  BY DEF ToSender, Decision
<1>4. \A o \in 0..Blocks, s \in Seq(Values) :
        [kind |-> "ack", offset |-> o, proof |-> s] \in ToSender
  BY DEF ToSender
<1> QED
  BY <1>1, <1>2, <1>3, <1>4 DEF Refused

LEMMA SenderMoves ==
  ASSUME sender \in Senders, NEW p \in SenderPhases, NEW o \in 0..Blocks
  PROVE  /\ [sender EXCEPT !.phase = p] = [sender EXCEPT !.phase = p, !.offset = sender.offset]
         /\ [sender EXCEPT !.phase = p] \in Senders /\ [sender EXCEPT !.phase = p].phase = p
         /\ [sender EXCEPT !.phase = p].offset = sender.offset
         /\ [sender EXCEPT !.phase = p].scanned = sender.scanned
         /\ [sender EXCEPT !.phase = p, !.offset = o] \in Senders
         /\ [sender EXCEPT !.phase = p, !.offset = o].phase = p
         /\ [sender EXCEPT !.phase = p, !.offset = o].offset = o
         /\ [sender EXCEPT !.phase = p, !.offset = o].scanned = sender.scanned
  BY DEF Senders

\* A sender that starts over is one of these.
LEMMA FreshSender ==
  ASSUME NEW p \in SenderPhases, NEW t \in Nat
  PROVE  /\ Idle \in Senders /\ Idle.phase = "idle" /\ Idle.offset = 0 /\ Len(Idle.scanned) = 0
         /\ [Idle EXCEPT !.phase = p] \in Senders /\ [Idle EXCEPT !.phase = p].phase = p
         /\ [Idle EXCEPT !.phase = p].offset = 0 /\ Len([Idle EXCEPT !.phase = p].scanned) = 0
         /\ [Idle EXCEPT !.phase = p, !.stamp = t] \in Senders
         /\ [Idle EXCEPT !.phase = p, !.stamp = t].phase = p
         /\ [Idle EXCEPT !.phase = p, !.stamp = t].offset = 0
         /\ Len([Idle EXCEPT !.phase = p, !.stamp = t].scanned) = 0
         /\ [Idle EXCEPT !.phase = p, !.stamp = t].stamp = t
<1>1. <<>> \in Seq(0..Budget) /\ Len(<<>>) = 0 /\ 0 \in 0..Blocks
  BY EmptySeq, BlocksAssumption
<1> QED
  BY <1>1 DEF Idle, Senders, SenderPhases

LEMMA ReceiverMoves ==
  ASSUME receiver \in Receivers, NEW p \in ReceiverPhases, Moves(p)
  PROVE  receiver' \in Receivers /\ receiver'.phase = p /\ receiver'.root = receiver.root
  BY DEF Receivers, Moves

LEMMA Sizes ==
  ASSUME Holds
  PROVE  /\ Len(toSender) \in Nat /\ Len(toReceiver) \in Nat
         /\ sender.offset \in 0..Blocks /\ sender.phase \in SenderPhases
         /\ receiver.phase \in ReceiverPhases
         /\ part # Nothing =>
              part \in Parts /\ part.data \in Seq(Values) /\ part.synced \in Nat /\ Data \in Nat
         /\ ledger # Nothing =>
              /\ ledger \in Ledgers /\ ledger.records \in Seq(Values)
              /\ ledger.synced \in Nat /\ Records \in Nat
         /\ meta # Nothing => meta \in Names /\ meta.root \in Contents
<1>1. Len(toSender) \in Nat /\ Len(toReceiver) \in Nat
  BY LenProperties DEF Holds, Wires
<1>2. sender.offset \in 0..Blocks /\ sender.phase \in SenderPhases /\ receiver.phase \in ReceiverPhases
  BY DEF Holds, Senders, Receivers
<1>3. part # Nothing =>
        part \in Parts /\ part.data \in Seq(Values) /\ part.synced \in Nat /\ Data \in Nat
  BY LenProperties DEF Holds, Parts, Data
<1>4. ledger # Nothing =>
        /\ ledger \in Ledgers /\ ledger.records \in Seq(Values)
        /\ ledger.synced \in Nat /\ Records \in Nat
  BY LenProperties DEF Holds, Ledgers, Records
<1>5. meta # Nothing => meta \in Names /\ meta.root \in Contents
  BY DEF Holds, Names
<1> QED
  BY <1>1, <1>2, <1>3, <1>4, <1>5

LEMMA PartWith ==
  ASSUME part \in Parts, NEW d \in Seq(Values), NEW n \in Nat
  PROVE  /\ [part EXCEPT !.data = d] \in Parts /\ [part EXCEPT !.data = d] # Nothing
         /\ [part EXCEPT !.data = d].data = d /\ [part EXCEPT !.data = d].synced = part.synced
         /\ [part EXCEPT !.synced = n] \in Parts /\ [part EXCEPT !.synced = n] # Nothing
         /\ [part EXCEPT !.synced = n].data = part.data /\ [part EXCEPT !.synced = n].synced = n
         /\ [data |-> d, synced |-> n] \in Parts /\ [data |-> d, synced |-> n] # Nothing
  BY FilesAssumption DEF Parts

LEMMA LedgerWith ==
  ASSUME ledger \in Ledgers, NEW r \in Seq(Values), NEW n \in Nat
  PROVE  /\ [ledger EXCEPT !.records = r] \in Ledgers /\ [ledger EXCEPT !.records = r] # Nothing
         /\ [ledger EXCEPT !.records = r].records = r
         /\ [ledger EXCEPT !.records = r].synced = ledger.synced
         /\ [ledger EXCEPT !.synced = n] \in Ledgers /\ [ledger EXCEPT !.synced = n] # Nothing
         /\ [ledger EXCEPT !.synced = n].records = ledger.records
         /\ [ledger EXCEPT !.synced = n].synced = n
         /\ [ledger EXCEPT !.header = TRUE] \in Ledgers /\ [ledger EXCEPT !.header = TRUE] # Nothing
         /\ [ledger EXCEPT !.header = TRUE].records = ledger.records
         /\ [ledger EXCEPT !.header = TRUE].synced = ledger.synced
  BY FilesAssumption DEF Ledgers

LEMMA MetaDone ==
  ASSUME meta \in Names
  PROVE  /\ [meta EXCEPT !.done = TRUE] \in Names /\ [meta EXCEPT !.done = TRUE] # Nothing
         /\ [meta EXCEPT !.done = TRUE].root = meta.root
  BY FilesAssumption DEF Names

LEMMA MetaMade ==
  ASSUME NEW c \in Contents
  PROVE  [root |-> c, done |-> FALSE] \in Names /\ [root |-> c, done |-> FALSE] # Nothing
<1>1. [root |-> c, done |-> FALSE] \in Names
  BY Zenon DEF Names
<1> QED
  BY <1>1, FilesAssumption

LEMMA LedgerMade ==
  ASSUME NEW r \in Seq(Values), NEW l, l = [header |-> FALSE, records |-> r, synced |-> 0]
  PROVE  l \in Ledgers /\ l # Nothing /\ l.records = r /\ l.synced = 0
<1>1. l \in Ledgers
  BY Zenon DEF Ledgers
<1> QED
  BY <1>1, FilesAssumption

LEMMA EmptyPart ==
  /\ Empty \in Parts /\ Empty # Nothing /\ Len(Empty.data) = 0 /\ Empty.synced = 0
<1>1. \A d \in Seq(Values) :
        /\ [data |-> d, synced |-> 0] \in Parts /\ [data |-> d, synced |-> 0] # Nothing
        /\ [data |-> d, synced |-> 0].data = d /\ [data |-> d, synced |-> 0].synced = 0
  BY FilesAssumption DEF Parts
<1>2. <<>> \in Seq(Values) /\ Len(<<>>) = 0
  BY EmptySeq
<1>3. Empty \in Parts /\ Empty # Nothing /\ Empty.data = <<>> /\ Empty.synced = 0
  BY <1>1, <1>2, Zenon DEF Empty
<1> QED
  BY <1>2, <1>3

LEMMA PreservedPart ==
  ASSUME Holds
  PROVE  /\ Preserved \in {Nothing} \cup Parts
         /\ Preserved = Nothing <=> part = Nothing
         /\ part # Nothing => Preserved.data = part.data /\ Preserved.synced = Data
<1>1. CASE part = Nothing
  BY <1>1 DEF Preserved
<1>2. CASE part # Nothing
  BY <1>2, Sizes, PartWith DEF Preserved, Data
<1> QED
  BY <1>1, <1>2

-----------------------------------------------------------------------------
(* The steps of the sender.                                                *)

LEMMA SenderAnswersKeeps ==
  ASSUME IInv, NEW m \in Later, NEW p \in {"ack", "result", "aborted"}, NEW o \in 0..Blocks,
         sender.phase \in {"decision", "ack"}, toSender # <<>>, Msg("sender").kind # "result",
         Answer("sender", m), sender' = [sender EXCEPT !.phase = p, !.offset = o],
         receiver.phase \in Engaged => o <= ledger.synced,
         UNCHANGED <<sourceVars, manifest, index, told, partVars, fileVars, receiver, up, cancelVars, budget>>
  PROVE  IInv'
<1> USE DEF IInv, sourceVars, sendVars, partVars, fileVars, cancelVars
<1>1. toSender # <<>> /\ up
  BY DEF Holds, Traffic
<1>2. m \in ToReceiver
  BY MadeBySender
<1>3. Wires' /\ toSender' = Tail(toSender) /\ toReceiver' = Append(toReceiver, m)
  BY <1>1, <1>2, SenderAnswers DEF Holds
<1>4. /\ Len(toSender) \in Nat \ {0} /\ Len(Tail(toSender)) = Len(toSender) - 1
      /\ Msg("sender") = toSender[1] /\ Msg("sender") \in ToSender
      /\ \A i \in 1..Len(Tail(toSender)) : i + 1 \in 1..Len(toSender) /\ Tail(toSender)[i] = toSender[i + 1]
  BY <1>1, TailOf DEF Holds, Wires, Msg, toSender
<1>5. /\ Append(toReceiver, m) # <<>>
      /\ Len(Append(toReceiver, m)) = Len(toReceiver) + 1
      /\ Append(toReceiver, m)[Len(toReceiver) + 1] = m
      /\ \A i \in 1..Len(toReceiver) : Append(toReceiver, m)[i] = toReceiver[i]
  BY <1>2, Appended DEF Holds, Wires
<1>6. /\ Len(toSender) \in Nat /\ Len(toReceiver) \in Nat
      /\ sender.offset \in 0..Blocks /\ sender.phase \in SenderPhases
      /\ receiver.phase \in ReceiverPhases
      /\ part # Nothing =>
           part \in Parts /\ part.data \in Seq(Values) /\ part.synced \in Nat /\ Data \in Nat
      /\ ledger # Nothing =>
           /\ ledger \in Ledgers /\ ledger.records \in Seq(Values)
           /\ ledger.synced \in Nat /\ Records \in Nat
      /\ meta # Nothing => meta \in Names /\ meta.root \in Contents
  BY Sizes
<1>7. p \in SenderPhases
  BY DEF SenderPhases
<1>8. sender' \in Senders /\ sender'.phase = p /\ sender'.offset = o /\ sender'.scanned = sender.scanned
  BY <1>7, SenderMoves DEF Holds
<1>9. m.kind # "entry"
  BY DEF Later
<1>10. Holds'
  BY <1>1, <1>2, <1>3, <1>4, <1>5, <1>6, <1>7, <1>8, <1>9, BlocksAssumption DEF Holds
<1>11. Scan'
  BY <1>1, <1>2, <1>3, <1>4, <1>5, <1>6, <1>7, <1>8, <1>9 DEF Holds, Scan
<1>12. Roots'
  BY <1>1, <1>2, <1>3, <1>4, <1>5, <1>6, <1>7, <1>8, <1>9 DEF Holds, Roots
<1>13. Opening'
  BY <1>1, <1>2, <1>3, <1>4, <1>5, <1>6, <1>7, <1>8, <1>9, MadeBySender, Appended
    DEF Holds, Opening, Early, Wires
<1>14. Traffic'
  BY SMTT(30), <1>1, <1>2, <1>3, <1>4, <1>5, <1>6, <1>7, <1>8, <1>9
    DEF Holds, Traffic, Load, SenderLeft, ReceiverLeft, Busy, Early
<1>15. Shelf'
  BY <1>1, <1>2, <1>3, <1>4, <1>5, <1>6, <1>7, <1>8, <1>9
    DEF Holds, Shelf, Data, Records, Engaged, Early
<1>16. Proofs'
  BY <1>1, <1>2, <1>3, <1>4, <1>5, <1>6, <1>7, <1>8, <1>9
    DEF Holds, Proofs, Proved, TornAt, Records, Engaged
<1>17. Acked'
  BY <1>1, <1>2, <1>3, <1>4, <1>5, <1>6, <1>7, <1>8, <1>9 DEF Holds, Acked, Engaged, Shelf
<1>18. Heard'
  BY <1>1, <1>2, <1>3, <1>4, <1>5, <1>6, <1>7, <1>8, <1>9 DEF Holds, Heard
<1> QED
  BY <1>10, <1>11, <1>12, <1>13, <1>14, <1>15, <1>16, <1>17, <1>18 DEF IInv

LEMMA AbortKeeps ==
  ASSUME IInv, sender.phase \in {"decision", "ack"}, toSender # <<>>, Msg("sender").kind # "result",
         Abort,
         UNCHANGED <<sourceVars, manifest, index, told, partVars, fileVars, receiver, up, cancelVars, budget>>
  PROVE  IInv'
<1>1. [kind |-> "abort"] \in Later /\ sender.offset \in 0..Blocks
  BY MadeBySender, Sizes DEF IInv
<1>2. sender' = [sender EXCEPT !.phase = "aborted", !.offset = sender.offset]
  BY <1>1, SenderMoves DEF IInv, Holds, Abort, SenderPhases
<1>3. receiver.phase \in Engaged => sender.offset <= ledger.synced
  BY DEF IInv, Acked
<1> QED
  BY <1>1, <1>2, <1>3, SenderAnswersKeeps DEF Abort

LEMMA ContinueKeeps ==
  ASSUME IInv, sender.phase \in {"decision", "ack"}, toSender # <<>>, Msg("sender").kind # "result",
         NEW o \in 0..Blocks, receiver.phase \in Engaged => o <= ledger.synced, Continue(o),
         UNCHANGED <<sourceVars, manifest, index, told, partVars, fileVars, receiver, up, cancelVars, budget>>
  PROVE  IInv'
<1>1. CASE stamp # index.stamp
  BY <1>1, AbortKeeps DEF Continue
<1>2. CASE stamp = index.stamp /\ o = Blocks
  <2>1. index.root \in Contents
    BY DEF IInv, Holds, Scan, Indexes
  <2>2. [kind |-> "complete", root |-> index.root] \in Later
    BY <2>1, MadeBySender
  <2> QED
    BY <1>2, <2>2, SenderAnswersKeeps DEF Continue
<1>3. CASE stamp = index.stamp /\ o # Blocks
  <2>1. o \in 0..(Blocks - 1) /\ source[o + 1] \in 0..Budget
    BY <1>3, BlocksAssumption DEF IInv, Holds, Contents
  <2>2. [kind |-> "block", at |-> o, value |-> source[o + 1]] \in Later
    BY <2>1, MadeBySender
  <2> QED
    BY <1>3, <2>2, SenderAnswersKeeps DEF Continue
<1> QED
  BY <1>1, <1>2, <1>3

LEMMA EntryOverKeeps ==
  ASSUME IInv, toSender # <<>>, NEW ok \in BOOLEAN, EntryOver(ok),
         UNCHANGED <<sourceVars, manifest, index, partVars, fileVars, receiver, up, cancelVars, budget>>
  PROVE  IInv'
<1> USE DEF IInv, sourceVars, sendVars, partVars, fileVars, cancelVars, EntryOver
<1>1. Wires' /\ toSender' = Tail(toSender) /\ toReceiver' = toReceiver
  BY SenderConsumes DEF Holds
<1>2. /\ Len(toSender) \in Nat \ {0} /\ Len(Tail(toSender)) = Len(toSender) - 1
      /\ Msg("sender") = toSender[1] /\ Msg("sender") \in ToSender
      /\ \A i \in 1..Len(Tail(toSender)) : i + 1 \in 1..Len(toSender) /\ Tail(toSender)[i] = toSender[i + 1]
  BY TailOf DEF Holds, Wires, Msg, toSender
<1>3. /\ Len(toSender) \in Nat /\ Len(toReceiver) \in Nat
      /\ sender.offset \in 0..Blocks /\ sender.phase \in SenderPhases
      /\ receiver.phase \in ReceiverPhases
      /\ part # Nothing =>
           part \in Parts /\ part.data \in Seq(Values) /\ part.synced \in Nat /\ Data \in Nat
      /\ ledger # Nothing =>
           /\ ledger \in Ledgers /\ ledger.records \in Seq(Values)
           /\ ledger.synced \in Nat /\ Records \in Nat
      /\ meta # Nothing => meta \in Names /\ meta.root \in Contents
  BY Sizes
<1>4. /\ sender' \in Senders /\ sender'.phase = "idle" /\ sender'.offset = 0
      /\ Len(sender'.scanned) = 0
  BY FreshSender DEF SenderPhases
<1>5. Holds'
  BY <1>1, <1>2, <1>3, <1>4, BlocksAssumption DEF Holds
<1>6. Scan'
  BY <1>1, <1>2, <1>3, <1>4 DEF Holds, Scan
<1>7. Roots'
  BY <1>1, <1>2, <1>3, <1>4 DEF Holds, Roots
<1>8. Opening'
  BY <1>1, <1>2, <1>3, <1>4 DEF Holds, Opening, Early
<1>9. Traffic'
  BY <1>1, <1>2, <1>3, <1>4 DEF Holds, Traffic, Load, SenderLeft, ReceiverLeft, Busy, Early
<1>10. Shelf'
  BY <1>1, <1>2, <1>3, <1>4 DEF Holds, Shelf, Data, Records, Engaged
<1>11. Proofs'
  BY <1>1, <1>2, <1>3, <1>4 DEF Holds, Proofs, Proved, TornAt, Records, Engaged
<1>12. Acked'
  BY <1>1, <1>2, <1>3, <1>4 DEF Holds, Acked, Engaged, Shelf
<1>13. Heard'
  BY <1>1, <1>2, <1>3, <1>4 DEF Holds, Heard
<1> QED
  BY <1>5, <1>6, <1>7, <1>8, <1>9, <1>10, <1>11, <1>12, <1>13 DEF IInv

LEMMA DecisionArrivesKeeps ==
  ASSUME IInv, DecisionArrives
  PROVE  IInv'
<1>1. /\ toSender # <<>> /\ Msg("sender") \in ToSender /\ Msg("sender") = toSender[1]
      /\ 1 \in 1..Len(toSender) /\ Msg("sender").kind = "decision"
  BY TailOf DEF IInv, Holds, Wires, DecisionArrives, Arrives, Msg, toSender
<1>2. Msg("sender").offset \in 0..Blocks
  BY <1>1, SenderMessage
<1>3. CASE ~Msg("sender").ok
  BY <1>1, <1>3, EntryOverKeeps DEF DecisionArrives
<1>4. CASE Msg("sender").ok /\ Msg("sender").proof = Proof(Msg("sender").offset)
  <2>1. receiver.phase \in Engaged => Msg("sender").offset <= ledger.synced
    BY <1>1 DEF IInv, Acked
  <2> QED
    BY <1>1, <1>2, <1>4, <2>1, ContinueKeeps DEF DecisionArrives, fileVars
<1>5. CASE Msg("sender").ok /\ Msg("sender").proof # Proof(Msg("sender").offset)
  BY <1>1, <1>5, AbortKeeps DEF DecisionArrives
<1> QED
  BY <1>3, <1>4, <1>5

LEMMA AckArrivesKeeps ==
  ASSUME IInv, AckArrives
  PROVE  IInv'
<1>1. /\ toSender # <<>> /\ Msg("sender") \in ToSender /\ Msg("sender") = toSender[1]
      /\ 1 \in 1..Len(toSender) /\ Msg("sender").kind = "ack"
  BY TailOf DEF IInv, Holds, Wires, AckArrives, Arrives, Msg, toSender
<1>2. CASE Msg("sender").offset = sender.offset + 1 /\ Msg("sender").proof = Proof(sender.offset + 1)
  <2>1. sender.offset + 1 \in 0..Blocks
    BY <1>1, <1>2, SenderMessage
  <2>2. receiver.phase \in Engaged => sender.offset + 1 <= ledger.synced
    BY <1>1, <1>2 DEF IInv, Acked
  <2> QED
    BY <1>1, <1>2, <2>1, <2>2, ContinueKeeps DEF AckArrives
<1>3. CASE ~(Msg("sender").offset = sender.offset + 1 /\ Msg("sender").proof = Proof(sender.offset + 1))
  BY <1>1, <1>3, AbortKeeps DEF AckArrives
<1> QED
  BY <1>2, <1>3

LEMMA ResultArrivesKeeps ==
  ASSUME IInv, ResultArrives
  PROVE  IInv'
<1>1. toSender # <<>> /\ Msg("sender") \in ToSender /\ Msg("sender").kind = "result"
  BY TailOf DEF IInv, Holds, Wires, ResultArrives, Arrives, Msg, toSender
<1>2. Msg("sender").ok \in BOOLEAN
  BY <1>1, SenderMessage
<1> QED
  BY <1>1, <1>2, EntryOverKeeps DEF ResultArrives

LEMMA UnexpectedArrivesKeeps ==
  ASSUME IInv, UnexpectedArrives
  PROVE  IInv'
<1> USE DEF IInv, sourceVars, sendVars, partVars, fileVars, cancelVars, UnexpectedArrives
<1>1. toSender # <<>>
  BY DEF toSender
<1>2. Wires' /\ toSender' = Tail(toSender) /\ toReceiver' = toReceiver
  BY <1>1, SenderConsumes DEF Holds
<1>3. /\ Len(toSender) \in Nat \ {0} /\ Len(Tail(toSender)) = Len(toSender) - 1
      /\ Msg("sender") = toSender[1] /\ Msg("sender") \in ToSender
      /\ \A i \in 1..Len(Tail(toSender)) : i + 1 \in 1..Len(toSender) /\ Tail(toSender)[i] = toSender[i + 1]
  BY <1>1, TailOf DEF Holds, Wires, Msg, toSender
<1>4. /\ Len(toSender) \in Nat /\ Len(toReceiver) \in Nat
      /\ sender.offset \in 0..Blocks /\ sender.phase \in SenderPhases
      /\ receiver.phase \in ReceiverPhases
      /\ part # Nothing =>
           part \in Parts /\ part.data \in Seq(Values) /\ part.synced \in Nat /\ Data \in Nat
      /\ ledger # Nothing =>
           /\ ledger \in Ledgers /\ ledger.records \in Seq(Values)
           /\ ledger.synced \in Nat /\ Records \in Nat
      /\ meta # Nothing => meta \in Names /\ meta.root \in Contents
  BY Sizes
<1>5. /\ sender' \in Senders /\ sender'.phase = "idle" /\ sender'.offset = 0
      /\ Len(sender'.scanned) = 0
  BY FreshSender DEF SenderPhases
<1>6. cancels' \in SUBSET Ends
  BY DEF Holds, Fails, Active, Ends, Other
<1>7. Holds'
  BY <1>1, <1>2, <1>3, <1>4, <1>5, <1>6, BlocksAssumption DEF Holds
<1>8. Scan'
  BY <1>1, <1>2, <1>3, <1>4, <1>5, <1>6 DEF Holds, Scan
<1>9. Roots'
  BY <1>1, <1>2, <1>3, <1>4, <1>5, <1>6 DEF Holds, Roots
<1>10. Opening'
  BY <1>1, <1>2, <1>3, <1>4, <1>5, <1>6 DEF Holds, Opening, Early
<1>11. Traffic'
  BY <1>1, <1>2, <1>3, <1>4, <1>5, <1>6
    DEF Holds, Traffic, Load, SenderLeft, ReceiverLeft, Busy, Early
<1>12. Shelf'
  BY <1>1, <1>2, <1>3, <1>4, <1>5, <1>6 DEF Holds, Shelf, Data, Records, Engaged
<1>13. Proofs'
  BY <1>1, <1>2, <1>3, <1>4, <1>5, <1>6 DEF Holds, Proofs, Proved, TornAt, Records, Engaged
<1>14. Acked'
  BY <1>1, <1>2, <1>3, <1>4, <1>5, <1>6 DEF Holds, Acked, Engaged, Shelf
<1>15. Heard'
  BY <1>1, <1>2, <1>3, <1>4, <1>5, <1>6 DEF Holds, Heard
<1> QED
  BY <1>7, <1>8, <1>9, <1>10, <1>11, <1>12, <1>13, <1>14, <1>15 DEF IInv

LEMMA Scanned ==
  ASSUME sender \in Senders, NEW s \in Seq(0..Budget)
  PROVE  /\ [sender EXCEPT !.scanned = s] \in Senders
         /\ [sender EXCEPT !.scanned = s].phase = sender.phase
         /\ [sender EXCEPT !.scanned = s].offset = sender.offset
         /\ [sender EXCEPT !.scanned = s].stamp = sender.stamp
         /\ [sender EXCEPT !.scanned = s].scanned = s
  BY DEF Senders

LEMMA ScanBlockKeeps ==
  ASSUME IInv, ScanBlock
  PROVE  IInv'
<1> USE DEF IInv, sourceVars, sendVars, partVars, fileVars, cancelVars, ScanBlock
<1>1. Wires' /\ toSender' = toSender /\ toReceiver' = toReceiver
  BY WireStays DEF Holds
<1>2. /\ Len(toSender) \in Nat /\ Len(toReceiver) \in Nat
      /\ sender.offset \in 0..Blocks /\ sender.phase \in SenderPhases
      /\ receiver.phase \in ReceiverPhases
      /\ part # Nothing =>
           part \in Parts /\ part.data \in Seq(Values) /\ part.synced \in Nat /\ Data \in Nat
      /\ ledger # Nothing =>
           /\ ledger \in Ledgers /\ ledger.records \in Seq(Values)
           /\ ledger.synced \in Nat /\ Records \in Nat
      /\ meta # Nothing => meta \in Names /\ meta.root \in Contents
  BY Sizes
<1>3. /\ sender.scanned \in Seq(0..Budget) /\ Len(sender.scanned) \in 0..(Blocks - 1)
      /\ source[Len(sender.scanned) + 1] \in 0..Budget
  BY BlocksAssumption, LenProperties DEF Holds, Senders, Contents
<1>4. /\ sender' \in Senders /\ sender'.phase = "scan" /\ sender'.offset = sender.offset
      /\ sender'.stamp = sender.stamp
      /\ Len(sender'.scanned) = Len(sender.scanned) + 1
      /\ sender'.scanned[Len(sender.scanned) + 1] = source[Len(sender.scanned) + 1]
      /\ \A i \in 1..Len(sender.scanned) : sender'.scanned[i] = sender.scanned[i]
  <2> DEFINE more == Append(sender.scanned, source[Len(sender.scanned) + 1])
  <2>1. sender' = [sender EXCEPT !.scanned = more] /\ sender \in Senders
    BY DEF Holds
  <2>2. /\ Append(sender.scanned, source[Len(sender.scanned) + 1]) \in Seq(0..Budget)
        /\ Len(Append(sender.scanned, source[Len(sender.scanned) + 1])) = Len(sender.scanned) + 1
        /\ Append(sender.scanned, source[Len(sender.scanned) + 1])[Len(sender.scanned) + 1]
             = source[Len(sender.scanned) + 1]
        /\ \A i \in 1..Len(sender.scanned) :
             Append(sender.scanned, source[Len(sender.scanned) + 1])[i] = sender.scanned[i]
    BY <1>3, Appended
  <2> HIDE DEF more
  <2>3. more \in Seq(0..Budget)
    BY <2>2 DEF more
  <2>4. /\ [sender EXCEPT !.scanned = more] \in Senders
        /\ [sender EXCEPT !.scanned = more].phase = sender.phase
        /\ [sender EXCEPT !.scanned = more].offset = sender.offset
        /\ [sender EXCEPT !.scanned = more].stamp = sender.stamp
        /\ [sender EXCEPT !.scanned = more].scanned = more
    BY <2>1, <2>3, Scanned
  <2> QED
    BY <2>1, <2>2, <2>4 DEF more
<1>5. Holds'
  BY SMTT(30), <1>1, <1>2, <1>3, <1>4, BlocksAssumption DEF Holds
<1>6. Scan'
  <2>1. \A i \in 1..Len(sender'.scanned) :
          i \in 1..Len(sender.scanned) \/ i = Len(sender.scanned) + 1
    BY <1>3, <1>4
  <2> QED
    BY <1>1, <1>3, <1>4, <2>1 DEF Scan
<1>7. Roots'
  BY <1>1, <1>2, <1>3, <1>4 DEF Holds, Roots
<1>8. Opening'
  BY <1>1, <1>2, <1>3, <1>4 DEF Holds, Opening, Early
<1>9. Traffic'
  BY <1>1, <1>2, <1>3, <1>4 DEF Holds, Traffic, Load, SenderLeft, ReceiverLeft, Busy, Early
<1>10. Shelf'
  BY <1>1, <1>2, <1>3, <1>4 DEF Holds, Shelf, Data, Records, Engaged
<1>11. Proofs'
  BY <1>1, <1>2, <1>3, <1>4 DEF Holds, Proofs, Proved, TornAt, Records, Engaged
<1>12. Acked'
  BY <1>1, <1>2, <1>3, <1>4 DEF Holds, Acked, Engaged, Shelf
<1>13. Heard'
  BY <1>1, <1>2, <1>3, <1>4 DEF Holds, Heard
<1> QED
  BY <1>5, <1>6, <1>7, <1>8, <1>9, <1>10, <1>11, <1>12, <1>13 DEF IInv

LEMMA ScannedWhole ==
  ASSUME IInv, sender.phase = "scan", Len(sender.scanned) = Blocks, stamp = sender.stamp
  PROVE  sender.scanned = source
<1>1. sender.scanned \in Seq(0..Budget) /\ source \in Seq(0..Budget) /\ Len(source) = Blocks
  BY ContentIsSeq DEF IInv, Holds, Senders
<1>2. \A i \in 1..Len(sender.scanned) : sender.scanned[i] = source[i]
  BY DEF IInv, Scan
<1> QED
  BY <1>1, <1>2, SeqEqual

LEMMA SkipKeeps ==
  ASSUME IInv, sender.phase \in {"verify", "open", "scan"}, index' \in {index, Nothing},
         NEW m \in Later, UNCHANGED manifest,
         sender' = [Idle EXCEPT !.phase = "aborted"], Send("receiver", m),
         UNCHANGED <<sourceVars, told, partVars, fileVars, receiver, up, cancelVars, budget>>
  PROVE  IInv'
<1> USE DEF IInv, sourceVars, sendVars, partVars, fileVars, cancelVars
<1>1. m \in ToReceiver
  BY MadeBySender
<1>2. /\ Wires' /\ toSender' = toSender
      /\ toReceiver' = IF up THEN Append(toReceiver, m) ELSE toReceiver
  BY <1>1, SenderSends DEF Holds
<1>3. /\ Append(toReceiver, m) # <<>>
      /\ Len(Append(toReceiver, m)) = Len(toReceiver) + 1
      /\ Append(toReceiver, m)[Len(toReceiver) + 1] = m
      /\ \A i \in 1..Len(toReceiver) : Append(toReceiver, m)[i] = toReceiver[i]
  <2>1. toReceiver \in Seq(ToReceiver)
    BY DEF Holds, Wires
  <2> HIDE DEF IInv
  <2> QED
    BY <1>1, <2>1, Appended
<1>4. m.kind # "entry"
  BY DEF Later
<1>5. toSender = <<>> /\ toReceiver = <<>> /\ Len(<<>>) = 0 /\ receiver.phase \in {"idle", "listening"}
  BY EmptySeq DEF Scan
<1>6. /\ Len(toSender) \in Nat /\ Len(toReceiver) \in Nat
      /\ sender.offset \in 0..Blocks /\ sender.phase \in SenderPhases
      /\ receiver.phase \in ReceiverPhases
      /\ part # Nothing =>
           part \in Parts /\ part.data \in Seq(Values) /\ part.synced \in Nat /\ Data \in Nat
      /\ ledger # Nothing =>
           /\ ledger \in Ledgers /\ ledger.records \in Seq(Values)
           /\ ledger.synced \in Nat /\ Records \in Nat
      /\ meta # Nothing => meta \in Names /\ meta.root \in Contents
  BY Sizes
<1>7. /\ sender' \in Senders /\ sender'.phase = "aborted" /\ sender'.offset = 0
      /\ Len(sender'.scanned) = 0
  BY FreshSender DEF SenderPhases
<1>8. Holds'
  BY <1>1, <1>2, <1>3, <1>4, <1>5, <1>6, <1>7, BlocksAssumption DEF Holds
<1>9. Scan'
  BY <1>1, <1>2, <1>3, <1>4, <1>5, <1>6, <1>7 DEF Holds, Scan
<1>10. Roots'
  BY <1>1, <1>2, <1>3, <1>4, <1>5, <1>6, <1>7 DEF Holds, Roots
<1>11. Opening'
  BY <1>1, <1>2, <1>3, <1>4, <1>5, <1>6, <1>7, EmptySeq, Appended, MadeBySender
    DEF Holds, Opening, Early, Wires
<1>12. Traffic'
  BY <1>1, <1>2, <1>3, <1>4, <1>5, <1>6, <1>7
    DEF Holds, Traffic, Load, SenderLeft, ReceiverLeft, Busy, Early
<1>13. Shelf'
  BY <1>1, <1>2, <1>3, <1>4, <1>5, <1>6, <1>7 DEF Holds, Shelf, Data, Records, Engaged
<1>14. Proofs'
  BY <1>1, <1>2, <1>3, <1>4, <1>5, <1>6, <1>7
    DEF Holds, Proofs, Proved, TornAt, Records, Engaged
<1>15. Acked'
  BY <1>1, <1>2, <1>3, <1>4, <1>5, <1>6, <1>7 DEF Holds, Acked, Engaged, Shelf
<1>16. Heard'
  BY <1>1, <1>2, <1>3, <1>4, <1>5, <1>6, <1>7 DEF Holds, Heard
<1> QED
  BY <1>8, <1>9, <1>10, <1>11, <1>12, <1>13, <1>14, <1>15, <1>16 DEF IInv

LEMMA ProposeKeeps ==
  ASSUME IInv, sender.phase \in {"open", "scan"}, index' \in Indexes, UNCHANGED manifest,
         index'.root \in versions, NEW m \in Entries, m.root = index'.root,
         sender' = [Idle EXCEPT !.phase = "decision"], Send("receiver", m),
         UNCHANGED <<sourceVars, told, partVars, fileVars, receiver, up, cancelVars, budget>>
  PROVE  IInv'
<1> USE DEF IInv, sourceVars, sendVars, partVars, fileVars, cancelVars
<1>1. m \in ToReceiver
  BY MadeBySender
<1>2. /\ Wires' /\ toSender' = toSender
      /\ toReceiver' = IF up THEN Append(toReceiver, m) ELSE toReceiver
  BY <1>1, SenderSends DEF Holds
<1>3. /\ Append(toReceiver, m) # <<>>
      /\ Len(Append(toReceiver, m)) = Len(toReceiver) + 1
      /\ Append(toReceiver, m)[Len(toReceiver) + 1] = m
      /\ \A i \in 1..Len(toReceiver) : Append(toReceiver, m)[i] = toReceiver[i]
  BY SMTT(30), <1>1, Appended DEF Holds, Wires
<1>4. m.kind = "entry"
  BY DEF Entries
<1>5. toSender = <<>> /\ toReceiver = <<>> /\ Len(<<>>) = 0 /\ receiver.phase \in {"idle", "listening"}
  BY EmptySeq DEF Scan
<1>6. /\ Len(toSender) \in Nat /\ Len(toReceiver) \in Nat
      /\ sender.offset \in 0..Blocks /\ sender.phase \in SenderPhases
      /\ receiver.phase \in ReceiverPhases
      /\ part # Nothing =>
           part \in Parts /\ part.data \in Seq(Values) /\ part.synced \in Nat /\ Data \in Nat
      /\ ledger # Nothing =>
           /\ ledger \in Ledgers /\ ledger.records \in Seq(Values)
           /\ ledger.synced \in Nat /\ Records \in Nat
      /\ meta # Nothing => meta \in Names /\ meta.root \in Contents
  BY Sizes
<1>7. /\ sender' \in Senders /\ sender'.phase = "decision" /\ sender'.offset = 0
      /\ Len(sender'.scanned) = 0
  BY FreshSender DEF SenderPhases
<1>8. Holds'
  BY <1>1, <1>2, <1>3, <1>4, <1>5, <1>6, <1>7, BlocksAssumption DEF Holds
<1>9. Scan'
  BY <1>1, <1>2, <1>3, <1>4, <1>5, <1>6, <1>7 DEF Holds, Scan
<1>10. Roots'
  BY <1>1, <1>2, <1>3, <1>4, <1>5, <1>6, <1>7 DEF Holds, Roots
<1>11. Opening'
  BY <1>1, <1>2, <1>3, <1>4, <1>5, <1>6, <1>7, EmptySeq DEF Holds, Opening, Early
<1>12. Traffic'
  BY <1>1, <1>2, <1>3, <1>4, <1>5, <1>6, <1>7
    DEF Holds, Traffic, Load, SenderLeft, ReceiverLeft, Busy, Early
<1>13. Shelf'
  BY <1>1, <1>2, <1>3, <1>4, <1>5, <1>6, <1>7 DEF Holds, Shelf, Data, Records, Engaged
<1>14. Proofs'
  BY <1>1, <1>2, <1>3, <1>4, <1>5, <1>6, <1>7
    DEF Holds, Proofs, Proved, TornAt, Records, Engaged
<1>15. Acked'
  BY <1>1, <1>2, <1>3, <1>4, <1>5, <1>6, <1>7 DEF Holds, Acked, Engaged, Shelf
<1>16. Heard'
  BY <1>1, <1>2, <1>3, <1>4, <1>5, <1>6, <1>7 DEF Holds, Heard
<1> QED
  BY <1>8, <1>9, <1>10, <1>11, <1>12, <1>13, <1>14, <1>15, <1>16 DEF IInv

LEMMA ScanEndsKeeps ==
  ASSUME IInv, ScanEnds
  PROVE  IInv'
<1>1. CASE stamp = sender.stamp
  <2>1. sender.scanned = source /\ source \in Contents /\ source \in versions /\ stamp \in Nat
    BY <1>1, ScannedWhole DEF ScanEnds, IInv, Holds
  <2>2. index' \in Indexes /\ index'.root = source
    BY <1>1, <2>1 DEF ScanEnds, Indexes
  <2>3. SendsEntry(source) \in Entries /\ SendsEntry(source).root = source
    BY <2>1, MadeBySender DEF SendsEntry
  <2> QED
    BY <1>1, <2>1, <2>2, <2>3, ProposeKeeps DEF ScanEnds
<1>2. CASE stamp # sender.stamp
  BY <1>2, SkipKeeps, MadeBySender DEF ScanEnds, Skip
<1> QED
  BY <1>1, <1>2

\* A step towards an index that is whole.
LEMMA PrepareKeeps ==
  ASSUME IInv, sender.phase \in {"observe", "verify", "open"},
         NEW s \in Senders, sender' = s, s.phase \in {"verify", "open", "scan"},
         s.offset = 0, Len(s.scanned) <= Blocks,
         s.phase = "scan" => s.stamp = stamp /\ Len(s.scanned) = 0,
         manifest' \in {Nothing} \cup Nat, index' \in {index} \cup Unfinished,
         UNCHANGED <<sourceVars, told, partVars, fileVars, receiver, wire, up, cancelVars, budget>>
  PROVE  IInv'
<1> USE DEF IInv, sourceVars, sendVars, partVars, fileVars, cancelVars
<1>1. Wires' /\ toSender' = toSender /\ toReceiver' = toReceiver
  BY WireStays DEF Holds
<1>2. /\ Len(toSender) \in Nat /\ Len(toReceiver) \in Nat
      /\ sender.offset \in 0..Blocks /\ sender.phase \in SenderPhases
      /\ receiver.phase \in ReceiverPhases
      /\ part # Nothing =>
           part \in Parts /\ part.data \in Seq(Values) /\ part.synced \in Nat /\ Data \in Nat
      /\ ledger # Nothing =>
           /\ ledger \in Ledgers /\ ledger.records \in Seq(Values)
           /\ ledger.synced \in Nat /\ Records \in Nat
      /\ meta # Nothing => meta \in Names /\ meta.root \in Contents
  BY Sizes
<1>3. /\ sender' \in Senders /\ sender'.phase \in {"verify", "open", "scan"} /\ sender'.offset = 0
      /\ sender'.phase = "scan" => sender'.stamp = stamp /\ Len(sender'.scanned) = 0
  OBVIOUS
<1>4. index' = index \/ index'.root = <<>>
  BY DEF Unfinished
<1>5. Holds'
  BY <1>1, <1>2, <1>3, BlocksAssumption DEF Holds
<1>6. Scan'
  BY <1>1, <1>2, <1>3 DEF Holds, Scan
<1>7. Roots'
  BY <1>1, <1>2, <1>3, <1>4 DEF Holds, Roots
<1>8. Opening'
  BY <1>1, <1>2, <1>3 DEF Holds, Opening, Early
<1>9. Traffic'
  BY <1>1, <1>2, <1>3 DEF Holds, Traffic, Load, SenderLeft, ReceiverLeft, Busy, Early
<1>10. Shelf'
  BY <1>1, <1>2, <1>3 DEF Holds, Shelf, Data, Records, Engaged
<1>11. Proofs'
  BY <1>1, <1>2, <1>3 DEF Holds, Proofs, Proved, TornAt, Records, Engaged
<1>12. Acked'
  BY <1>1, <1>2, <1>3 DEF Holds, Acked, Engaged, Shelf
<1>13. Heard'
  BY <1>1, <1>2, <1>3 DEF Holds, Heard
<1> QED
  BY <1>5, <1>6, <1>7, <1>8, <1>9, <1>10, <1>11, <1>12, <1>13 DEF IInv

LEMMA RecordManifestKeeps ==
  ASSUME IInv, RecordManifest
  PROVE  IInv'
<1>1. /\ sender' \in Senders /\ sender'.phase = "verify" /\ sender'.offset = 0
      /\ Len(sender'.scanned) <= Blocks
  BY SenderMoves, Sizes DEF RecordManifest, IInv, Holds, Scan, SenderPhases
<1> QED
  BY <1>1, PrepareKeeps DEF RecordManifest, IInv, Holds, sourceVars

LEMMA VerifySourceKeeps ==
  ASSUME IInv, VerifySource
  PROVE  IInv'
<1>1. CASE stamp = manifest
  <2>1. /\ sender' \in Senders /\ sender'.phase = "open" /\ sender'.offset = 0
        /\ Len(sender'.scanned) <= Blocks
    <3>1. sender' = [sender EXCEPT !.phase = "open"] /\ sender.phase = "verify"
      BY <1>1 DEF VerifySource
    <3> QED
      BY <3>1, SenderMoves, Sizes DEF IInv, Holds, Scan, SenderPhases
  <2> QED
    BY <1>1, <2>1, PrepareKeeps DEF VerifySource, IInv, Holds
<1>2. CASE stamp # manifest
  BY <1>2, SkipKeeps, MadeBySender DEF VerifySource, Skip
<1> QED
  BY <1>1, <1>2

LEMMA OpenIndexKeeps ==
  ASSUME IInv, OpenIndex
  PROVE  IInv'
<1>1. CASE index \in {Nothing, Junk} \/ (index.stamp = stamp /\ index.root = <<>>)
  <2>1. stamp \in Nat /\ index' \in Unfinished
    BY <1>1 DEF OpenIndex, IInv, Holds, Unfinished
  <2>2. /\ sender' \in Senders /\ sender'.phase = "scan" /\ sender'.offset = 0
        /\ Len(sender'.scanned) = 0 /\ sender'.stamp = stamp
    <3>1. sender' = [Idle EXCEPT !.phase = "scan", !.stamp = stamp] /\ "scan" \in SenderPhases
      BY <1>1 DEF OpenIndex, SenderPhases
    <3> QED
      BY <2>1, <3>1, FreshSender
  <2> QED
    BY <1>1, <2>1, <2>2, PrepareKeeps, BlocksAssumption DEF OpenIndex, IInv, Holds
<1>2. CASE ~(index \in {Nothing, Junk} \/ (index.stamp = stamp /\ index.root = <<>>))
  <2>1. CASE index.stamp = stamp
    <3>1. index \in Indexes /\ index.root \in versions /\ index.root \in Contents
      BY <1>2, <2>1 DEF IInv, Holds, Roots, Indexes, Unfinished
    <3>2. SendsEntry(index.root) \in Entries /\ SendsEntry(index.root).root = index.root
      BY <3>1, MadeBySender DEF SendsEntry
    <3> QED
      BY <1>2, <2>1, <3>1, <3>2, ProposeKeeps DEF OpenIndex
  <2>2. CASE index.stamp # stamp
    BY <1>2, <2>2, SkipKeeps, MadeBySender DEF OpenIndex, Skip
  <2> QED
    BY <2>1, <2>2
<1> QED
  BY <1>1, <1>2

LEMMA AbortsByTimeoutKeeps ==
  ASSUME IInv, sender.phase = "ack", sender' = [sender EXCEPT !.phase = "aborted"],
         NEW m \in Later, m.kind = "abort", Send("receiver", m), UNCHANGED cancels,
         up, toSender = <<>>, budget > 0, budget' = budget - 1,
         UNCHANGED <<sourceVars, manifest, index, told, partVars, fileVars, receiver, up, cancelled, byUser>>
  PROVE  IInv'
<1> USE DEF IInv, sourceVars, sendVars, partVars, fileVars, cancelVars
<1>1. m \in ToReceiver
  BY MadeBySender
<1>2. /\ Wires' /\ toSender' = toSender
      /\ toReceiver' = IF up THEN Append(toReceiver, m) ELSE toReceiver
  BY <1>1, SenderSends DEF Holds
<1>3. /\ Append(toReceiver, m) # <<>>
      /\ Len(Append(toReceiver, m)) = Len(toReceiver) + 1
      /\ Append(toReceiver, m)[Len(toReceiver) + 1] = m
      /\ \A i \in 1..Len(toReceiver) : Append(toReceiver, m)[i] = toReceiver[i]
  BY SMTT(30), <1>1, Appended DEF Holds, Wires
<1>4. /\ Len(toSender) \in Nat /\ Len(toReceiver) \in Nat
      /\ sender.offset \in 0..Blocks /\ sender.phase \in SenderPhases
      /\ receiver.phase \in ReceiverPhases
      /\ part # Nothing =>
           part \in Parts /\ part.data \in Seq(Values) /\ part.synced \in Nat /\ Data \in Nat
      /\ ledger # Nothing =>
           /\ ledger \in Ledgers /\ ledger.records \in Seq(Values)
           /\ ledger.synced \in Nat /\ Records \in Nat
      /\ meta # Nothing => meta \in Names /\ meta.root \in Contents
  BY Sizes
<1>5. budget' \in Nat /\ stamp + budget' <= Budget
  BY BudgetAssumption DEF Holds, Disturb
<1>6. Len(<<>>) = 0
  BY EmptySeq
<1>7. "aborted" \in SenderPhases /\ m.kind # "entry"
  BY DEF SenderPhases
<1>8. /\ sender' \in Senders /\ sender'.phase = "aborted" /\ sender'.offset = sender.offset
      /\ sender'.scanned = sender.scanned
  BY <1>4, <1>7, SenderMoves DEF Holds
<1>9. toReceiver' # <<>> /\ Len(toReceiver') = Len(toReceiver) + 1 /\ toReceiver'[Len(toReceiver')] = m
  BY <1>2, <1>3, <1>4
<1>10. Holds'
  BY <1>1, <1>2, <1>3, <1>4, <1>5, <1>6, <1>7, <1>8, <1>9, BlocksAssumption DEF Holds
<1>11. Scan'
  BY <1>1, <1>2, <1>3, <1>4, <1>5, <1>6, <1>7, <1>8, <1>9 DEF Holds, Scan
<1>12. Roots'
  BY <1>1, <1>2, <1>3, <1>4, <1>5, <1>6, <1>7, <1>8, <1>9 DEF Holds, Roots
<1>13. Opening'
  BY <1>1, <1>2, <1>3, <1>4, <1>5, <1>6, <1>7, <1>8, <1>9, Appended
    DEF Holds, Opening, Early, Wires
<1>14. Traffic'
  <2>1. Load <= 1 /\ Load \in Nat
    <3>1. Load \in Nat
      BY <1>4 DEF Load
    <3>2. ~SenderLeft /\ ~ReceiverLeft
      BY DEF SenderLeft, ReceiverLeft
    <3> QED
      BY <3>1, <3>2 DEF Traffic
  <2>2. SenderLeft'
    BY <1>8, <1>9 DEF SenderLeft
  <2>3. toSender' = toSender /\ Len(toReceiver') = Len(toReceiver) + 1
    BY <1>2, <1>9
  <2>4. Load' = Load + 1
    BY <1>4, <2>3 DEF Load
  <2> QED
    BY <2>1, <2>2, <2>4 DEF Traffic
<1>15. Shelf'
  BY <1>1, <1>2, <1>3, <1>4, <1>5, <1>6, <1>7, <1>8, <1>9
    DEF Holds, Shelf, Data, Records, Engaged
<1>16. Proofs'
  BY <1>1, <1>2, <1>3, <1>4, <1>5, <1>6, <1>7, <1>8, <1>9
    DEF Holds, Proofs, Proved, TornAt, Records, Engaged
<1>17. Acked'
  BY <1>1, <1>2, <1>3, <1>4, <1>5, <1>6, <1>7, <1>8, <1>9 DEF Holds, Acked, Engaged, Shelf
<1>18. Heard'
  BY <1>1, <1>2, <1>3, <1>4, <1>5, <1>6, <1>7, <1>8, <1>9 DEF Holds, Heard
<1> QED
  BY <1>10, <1>11, <1>12, <1>13, <1>14, <1>15, <1>16, <1>17, <1>18 DEF IInv

LEMMA FailsByTimeoutKeeps ==
  ASSUME IInv, sender' = Idle, Fails("sender"), UNCHANGED wire,
         up, toSender = <<>>, budget > 0, budget' = budget - 1,
         UNCHANGED <<sourceVars, manifest, index, told, partVars, fileVars, receiver, up, cancelled, byUser>>
  PROVE  IInv'
<1> USE DEF IInv, sourceVars, sendVars, partVars, fileVars, cancelVars
<1>1. Wires' /\ toSender' = toSender /\ toReceiver' = toReceiver
  BY WireStays DEF Holds
<1>2. /\ Len(toSender) \in Nat /\ Len(toReceiver) \in Nat
      /\ sender.offset \in 0..Blocks /\ sender.phase \in SenderPhases
      /\ receiver.phase \in ReceiverPhases
      /\ part # Nothing =>
           part \in Parts /\ part.data \in Seq(Values) /\ part.synced \in Nat /\ Data \in Nat
      /\ ledger # Nothing =>
           /\ ledger \in Ledgers /\ ledger.records \in Seq(Values)
           /\ ledger.synced \in Nat /\ Records \in Nat
      /\ meta # Nothing => meta \in Names /\ meta.root \in Contents
  BY Sizes
<1>3. budget' \in Nat /\ stamp + budget' <= Budget
  BY BudgetAssumption DEF Holds, Disturb
<1>4. Len(<<>>) = 0
  BY EmptySeq
<1>5. cancels' \in SUBSET Ends
  BY DEF Holds, Fails, Active, Ends, Other
<1>6. /\ sender' \in Senders /\ sender'.phase = "idle" /\ sender'.offset = 0
      /\ Len(sender'.scanned) = 0
  BY FreshSender DEF SenderPhases
<1>7. Holds'
  BY <1>1, <1>2, <1>3, <1>4, <1>5, <1>6, BlocksAssumption DEF Holds
<1>8. Scan'
  BY <1>1, <1>2, <1>3, <1>4, <1>5, <1>6 DEF Holds, Scan
<1>9. Roots'
  BY <1>1, <1>2, <1>3, <1>4, <1>5, <1>6 DEF Holds, Roots
<1>10. Opening'
  BY <1>1, <1>2, <1>3, <1>4, <1>5, <1>6 DEF Holds, Opening, Early
<1>11. Traffic'
  BY <1>1, <1>2, <1>3, <1>4, <1>5, <1>6
    DEF Holds, Traffic, Load, SenderLeft, ReceiverLeft, Busy, Early
<1>12. Shelf'
  BY <1>1, <1>2, <1>3, <1>4, <1>5, <1>6 DEF Holds, Shelf, Data, Records, Engaged
<1>13. Proofs'
  BY <1>1, <1>2, <1>3, <1>4, <1>5, <1>6 DEF Holds, Proofs, Proved, TornAt, Records, Engaged
<1>14. Acked'
  BY <1>1, <1>2, <1>3, <1>4, <1>5, <1>6 DEF Holds, Acked, Engaged, Shelf
<1>15. Heard'
  BY <1>1, <1>2, <1>3, <1>4, <1>5, <1>6 DEF Holds, Heard
<1> QED
  BY <1>7, <1>8, <1>9, <1>10, <1>11, <1>12, <1>13, <1>14, <1>15 DEF IInv

LEMMA SenderTimesOutKeeps ==
  ASSUME IInv, SenderTimesOut
  PROVE  IInv'
<1>1. [kind |-> "abort"] \in Later /\ [kind |-> "abort"].kind = "abort"
  BY MadeBySender
<1> QED
  BY <1>1, AbortsByTimeoutKeeps, FailsByTimeoutKeeps DEF SenderTimesOut, toSender

LEMMA SenderGivesUpKeeps ==
  ASSUME IInv, SenderGivesUp
  PROVE  IInv'
<1> USE DEF IInv, sourceVars, sendVars, partVars, fileVars, cancelVars, SenderGivesUp
<1>1. Wires' /\ toSender' = toSender /\ toReceiver' = toReceiver
  BY WireStays DEF Holds
<1>2. /\ Len(toSender) \in Nat /\ Len(toReceiver) \in Nat
      /\ sender.offset \in 0..Blocks /\ sender.phase \in SenderPhases
      /\ receiver.phase \in ReceiverPhases
      /\ part # Nothing =>
           part \in Parts /\ part.data \in Seq(Values) /\ part.synced \in Nat /\ Data \in Nat
      /\ ledger # Nothing =>
           /\ ledger \in Ledgers /\ ledger.records \in Seq(Values)
           /\ ledger.synced \in Nat /\ Records \in Nat
      /\ meta # Nothing => meta \in Names /\ meta.root \in Contents
  BY Sizes
<1>3. /\ sender' \in Senders /\ sender'.phase = "idle" /\ sender'.offset = 0
      /\ Len(sender'.scanned) = 0
  BY FreshSender DEF SenderPhases
<1>4. cancels' \in SUBSET Ends
  BY DEF Holds, Fails, Active, Ends, Other
<1>5. Holds'
  BY <1>1, <1>2, <1>3, <1>4, BlocksAssumption DEF Holds
<1>6. Scan'
  BY <1>1, <1>2, <1>3, <1>4 DEF Holds, Scan
<1>7. Roots'
  BY <1>1, <1>2, <1>3, <1>4 DEF Holds, Roots
<1>8. Opening'
  BY <1>1, <1>2, <1>3, <1>4 DEF Holds, Opening, Early
<1>9. Traffic'
  BY <1>1, <1>2, <1>3, <1>4 DEF Holds, Traffic, Load, SenderLeft, ReceiverLeft, Busy, Early
<1>10. Shelf'
  BY <1>1, <1>2, <1>3, <1>4 DEF Holds, Shelf, Data, Records, Engaged
<1>11. Proofs'
  BY <1>1, <1>2, <1>3, <1>4 DEF Holds, Proofs, Proved, TornAt, Records, Engaged
<1>12. Acked'
  BY <1>1, <1>2, <1>3, <1>4 DEF Holds, Acked, Engaged, Shelf
<1>13. Heard'
  BY <1>1, <1>2, <1>3, <1>4 DEF Holds, Heard
<1> QED
  BY <1>5, <1>6, <1>7, <1>8, <1>9, <1>10, <1>11, <1>12, <1>13 DEF IInv

LEMMA StartAttemptKeeps ==
  ASSUME IInv, StartAttempt
  PROVE  IInv'
<1> USE DEF IInv, sourceVars, sendVars, partVars, fileVars, cancelVars, StartAttempt
<1>1. Wires' /\ toSender' = <<>> /\ toReceiver' = <<>> /\ Len(<<>>) = 0 /\ <<>> \in Seq(Later)
  BY WireCleared, EmptySeq
<1>2. /\ sender' \in Senders /\ sender'.phase \in {"observe", "verify"} /\ sender'.offset = 0
      /\ Len(sender'.scanned) = 0
  <2>1. PICK p \in {"observe", "verify"} : sender' = [Idle EXCEPT !.phase = p]
    OBVIOUS
  <2>2. p \in SenderPhases
    BY DEF SenderPhases
  <2> QED
    BY <2>1, <2>2, FreshSender
<1>3. /\ Len(toSender) \in Nat /\ Len(toReceiver) \in Nat
      /\ sender.offset \in 0..Blocks /\ sender.phase \in SenderPhases
      /\ receiver.phase \in ReceiverPhases
      /\ part # Nothing =>
           part \in Parts /\ part.data \in Seq(Values) /\ part.synced \in Nat /\ Data \in Nat
      /\ ledger # Nothing =>
           /\ ledger \in Ledgers /\ ledger.records \in Seq(Values)
           /\ ledger.synced \in Nat /\ Records \in Nat
      /\ meta # Nothing => meta \in Names /\ meta.root \in Contents
  BY Sizes
<1>4. receiver' \in Receivers /\ receiver'.phase = "listening"
      /\ cancelled' \in SUBSET Ends /\ cancels' \in SUBSET Ends
  BY DEF Receivers, ReceiverPhases
<1>5. Holds'
  <2>1. (/\ source \in Contents /\ versions \in SUBSET Contents /\ source \in versions
         /\ stamp \in Nat /\ budget \in Nat /\ stamp + budget <= Budget)'
    BY DEF Holds
  <2>2. (/\ told \in BOOLEAN /\ delivered \in BOOLEAN /\ up \in BOOLEAN /\ byUser \in BOOLEAN
         /\ part \in {Nothing} \cup Parts /\ ledger \in {Nothing} \cup Ledgers
         /\ meta \in {Nothing} \cup Names /\ file \in {Nothing, Foreign} \cup Contents
         /\ manifest \in {Nothing} \cup Nat
         /\ index \in {Nothing, Junk} \cup Indexes \cup Unfinished)'
    BY DEF Holds
  <2> QED
    BY <1>1, <1>2, <1>4, <2>1, <2>2, BlocksAssumption DEF Holds
<1>6. Scan'
  BY <1>1, <1>2, <1>3, <1>4 DEF Holds, Scan
<1>7. Roots'
  BY <1>1, <1>2, <1>3, <1>4 DEF Holds, Roots
<1>8. Opening'
  BY <1>1, <1>2, <1>3, <1>4 DEF Holds, Opening, Early
<1>9. Traffic'
  BY <1>1, <1>2, <1>3, <1>4 DEF Holds, Traffic, Load, SenderLeft, ReceiverLeft, Busy, Early
<1>10. Shelf'
  BY <1>1, <1>2, <1>3, <1>4 DEF Holds, Shelf, Data, Records, Engaged
<1>11. Proofs'
  BY <1>1, <1>2, <1>3, <1>4 DEF Holds, Proofs, Proved, TornAt, Records, Engaged
<1>12. Acked'
  BY <1>1, <1>2, <1>3, <1>4 DEF Holds, Acked, Engaged, Shelf
<1>13. Heard'
  BY <1>1, <1>2, <1>3, <1>4 DEF Holds, Heard
<1> QED
  BY <1>5, <1>6, <1>7, <1>8, <1>9, <1>10, <1>11, <1>12, <1>13 DEF IInv

-----------------------------------------------------------------------------
(* The steps of the receiver.                                              *)

LEMMA TailLater ==
  ASSUME Wires, toReceiver # <<>>
  PROVE  /\ toReceiver \in Seq(Later) => Tail(toReceiver) \in Seq(Later)
         /\ Len(toReceiver) = 1 => Tail(toReceiver) \in Seq(Later)
<1>1. toReceiver \in Seq(Later) => Tail(toReceiver) \in Seq(Later)
  BY TailOf
<1>2. ASSUME Len(toReceiver) = 1
      PROVE  Tail(toReceiver) \in Seq(Later)
  <2>1. Tail(toReceiver) \in Seq(ToReceiver) /\ Len(Tail(toReceiver)) = 0
    BY <1>2, TailOf DEF Wires
  <2> QED
    BY <2>1, EmptySeq
<1> QED
  BY <1>1, <1>2

\* More synced data leaves every record as it is.
LEMMA ProofsKept ==
  ASSUME Holds, Shelf, Proofs, UNCHANGED ledger, receiver'.phase \notin Engaged,
         part' # Nothing => /\ part # Nothing /\ part'.data = part.data
                            /\ part'.synced \in {part.synced, Data}
  PROVE  Proofs'
<1>1. part # Nothing => part.synced \in Nat /\ Data \in Nat /\ part.synced <= Data
  BY Sizes DEF Shelf
<1> QED
  BY <1>1 DEF Proofs, Proved, TornAt, Records

LEMMA RefuseKeeps ==
  ASSUME IInv, receiver.phase \in {"create", "replace", "open"}, Refuse,
         part' \in {part, Preserved},
         UNCHANGED <<sourceVars, sendVars, meta, ledger, fileVars, up, cancelVars, budget>>
  PROVE  IInv'
<1> USE DEF IInv, sourceVars, sendVars, partVars, fileVars, cancelVars, Refuse
<1>1. Refused \in ToSender
  BY MadeByReceiver
<1>2. /\ Wires' /\ toReceiver' = toReceiver
      /\ toSender' = IF up THEN Append(toSender, Refused) ELSE toSender
  BY <1>1, ReceiverSends DEF Holds
<1>3. /\ Append(toSender, Refused) # <<>>
      /\ Len(Append(toSender, Refused)) = Len(toSender) + 1
      /\ Append(toSender, Refused)[Len(toSender) + 1] = Refused
      /\ \A i \in 1..Len(toSender) : Append(toSender, Refused)[i] = toSender[i]
  BY <1>1, Appended DEF Holds, Wires
<1>4. /\ Len(toSender) \in Nat /\ Len(toReceiver) \in Nat
      /\ sender.offset \in 0..Blocks /\ sender.phase \in SenderPhases
      /\ receiver.phase \in ReceiverPhases
      /\ part # Nothing =>
           part \in Parts /\ part.data \in Seq(Values) /\ part.synced \in Nat /\ Data \in Nat
      /\ ledger # Nothing =>
           /\ ledger \in Ledgers /\ ledger.records \in Seq(Values)
           /\ ledger.synced \in Nat /\ Records \in Nat
      /\ meta # Nothing => meta \in Names /\ meta.root \in Contents
  BY Sizes
<1>5. /\ Preserved \in {Nothing} \cup Parts
      /\ Preserved = Nothing <=> part = Nothing
      /\ part # Nothing => Preserved.data = part.data /\ Preserved.synced = Data
  BY PreservedPart
<1>6. receiver' \in Receivers /\ receiver'.phase = "listening" /\ receiver'.root = receiver.root
  BY ReceiverMoves DEF Holds, ReceiverPhases
<1>7. /\ part' \in {Nothing} \cup Parts /\ (part' = Nothing <=> part = Nothing)
      /\ part # Nothing => part'.data = part.data /\ part'.synced \in {part.synced, Data}
  BY <1>4, <1>5 DEF Holds
<1>8. Refused.kind = "decision"
  BY MadeByReceiver
<1>9. Holds'
  BY <1>1, <1>2, <1>3, <1>4, <1>5, <1>6, <1>7, <1>8, BlocksAssumption DEF Holds
<1>10. Scan'
  BY <1>1, <1>2, <1>3, <1>4, <1>5, <1>6, <1>7, <1>8 DEF Holds, Scan, Early
<1>11. Roots'
  BY <1>1, <1>2, <1>3, <1>4, <1>5, <1>6, <1>7, <1>8 DEF Holds, Roots, Early
<1>12. Opening'
  BY <1>1, <1>2, <1>3, <1>4, <1>5, <1>6, <1>7, <1>8 DEF Holds, Opening, Early
<1>13. Traffic'
  BY SMTT(30), <1>1, <1>2, <1>3, <1>4, <1>5, <1>6, <1>7, <1>8
    DEF Holds, Traffic, Load, SenderLeft, ReceiverLeft, Busy, Early
<1>14. Shelf'
  BY <1>1, <1>2, <1>3, <1>4, <1>5, <1>6, <1>7, <1>8
    DEF Holds, Shelf, Data, Records, Engaged, Early
<1>15. Proofs'
  BY <1>7, <1>6, ProofsKept DEF Engaged
<1>16. Acked'
  BY <1>1, <1>2, <1>3, <1>4, <1>5, <1>6, <1>7, <1>8 DEF Holds, Acked, Engaged, Shelf
<1>17. Heard'
  BY <1>1, <1>2, <1>3, <1>4, <1>5, <1>6, <1>7, <1>8 DEF Holds, Heard
<1> QED
  BY <1>9, <1>10, <1>11, <1>12, <1>13, <1>14, <1>15, <1>16, <1>17 DEF IInv

LEMMA ReportKeeps ==
  ASSUME IInv, NEW ok \in BOOLEAN, ok => delivered, Send("sender", Result(ok)), Moves("listening"),
         \/ receiver.phase \in {"verified", "published"}
         \/ receiver.phase \in {"wait", "closing"} /\ toReceiver = <<>>,
         part' \in {part, Preserved, Nothing}, meta' \in {meta, [meta EXCEPT !.done = TRUE]},
         budget' \in Nat, budget' <= budget,
         UNCHANGED <<sourceVars, sendVars, ledger, fileVars, up, cancelVars>>
  PROVE  IInv'
<1> USE DEF IInv, sourceVars, sendVars, partVars, fileVars, cancelVars
<1>1. Result(ok) \in ToSender
  BY MadeByReceiver
<1>2. /\ Wires' /\ toReceiver' = toReceiver
      /\ toSender' = IF up THEN Append(toSender, Result(ok)) ELSE toSender
  BY <1>1, ReceiverSends DEF Holds
<1>3. /\ Append(toSender, Result(ok)) # <<>>
      /\ Len(Append(toSender, Result(ok))) = Len(toSender) + 1
      /\ Append(toSender, Result(ok))[Len(toSender) + 1] = Result(ok)
      /\ \A i \in 1..Len(toSender) : Append(toSender, Result(ok))[i] = toSender[i]
  BY <1>1, Appended DEF Holds, Wires
<1>4. /\ Len(toSender) \in Nat /\ Len(toReceiver) \in Nat
      /\ sender.offset \in 0..Blocks /\ sender.phase \in SenderPhases
      /\ receiver.phase \in ReceiverPhases
      /\ part # Nothing =>
           part \in Parts /\ part.data \in Seq(Values) /\ part.synced \in Nat /\ Data \in Nat
      /\ ledger # Nothing =>
           /\ ledger \in Ledgers /\ ledger.records \in Seq(Values)
           /\ ledger.synced \in Nat /\ Records \in Nat
      /\ meta # Nothing => meta \in Names /\ meta.root \in Contents
  BY Sizes
<1>5. /\ Preserved \in {Nothing} \cup Parts
      /\ Preserved = Nothing <=> part = Nothing
      /\ part # Nothing => Preserved.data = part.data /\ Preserved.synced = Data
  BY PreservedPart
<1>6. receiver' \in Receivers /\ receiver'.phase = "listening" /\ receiver'.root = receiver.root
  BY ReceiverMoves DEF Holds, ReceiverPhases
<1>7. /\ part' \in {Nothing} \cup Parts /\ (part' # Nothing => part # Nothing)
      /\ part' # Nothing => part'.data = part.data /\ part'.synced \in {part.synced, Data}
  BY <1>4, <1>5 DEF Holds
<1>8. Result(ok).kind = "result" /\ Result(ok).ok = ok
  BY MadeByReceiver
<1>9. meta # Nothing /\ meta' \in Names /\ meta' # Nothing
  BY <1>4, MetaDone DEF Shelf
<1>10. Len(<<>>) = 0 /\ budget' \in Nat /\ stamp + budget' <= Budget
  BY EmptySeq, BudgetAssumption DEF Holds
<1>11. Holds'
  BY <1>1, <1>2, <1>3, <1>4, <1>5, <1>6, <1>7, <1>8, <1>9, <1>10, BlocksAssumption DEF Holds
<1>12. Scan'
  BY <1>1, <1>2, <1>3, <1>4, <1>5, <1>6, <1>7, <1>8, <1>9, <1>10 DEF Holds, Scan
<1>13. Roots'
  BY <1>1, <1>2, <1>3, <1>4, <1>5, <1>6, <1>7, <1>8, <1>9, <1>10 DEF Holds, Roots
<1>14. Opening'
  BY <1>1, <1>2, <1>3, <1>4, <1>5, <1>6, <1>7, <1>8, <1>9, <1>10 DEF Holds, Opening, Early
<1>15. Traffic'
  <2>1. CASE ~up
    BY <1>2, <1>6, <1>10, <2>1 DEF Traffic, Load, Busy, Early
  <2>2. CASE up
    <3>1. /\ toSender' # <<>> /\ Len(toSender') = Len(toSender) + 1
          /\ toSender'[Len(toSender')].kind = "result"
      BY <1>2, <1>3, <1>8, <2>2
    <3>2. ReceiverLeft' /\ up'
      BY <1>6, <2>2, <3>1 DEF ReceiverLeft
    <3>3. Load' = Len(toSender) + 1 + Len(toReceiver)
      BY <1>2, <1>4, <1>6, <3>1 DEF Load, Busy, Early
    <3>4. Load' <= 2
      <4>1. CASE receiver.phase \in {"verified", "published"}
        BY <1>4, <3>3, <4>1 DEF Traffic, Load, Busy, Early
      <4>2. CASE receiver.phase \in {"wait", "closing"} /\ toReceiver = <<>>
        <5>1. receiver.phase \notin Busy /\ receiver.phase \notin {"idle", "listening"}
          BY <4>2 DEF Busy, Early
        <5>2. Load = Len(toSender) /\ Load' = Len(toSender) + 1
          BY <1>4, <1>10, <3>3, <4>2, <5>1 DEF Load
        <5>3. ~SenderLeft /\ ~ReceiverLeft
          BY <4>2, <5>1 DEF SenderLeft, ReceiverLeft
        <5>4. Load <= 2 /\ Load # 2
          BY <5>3 DEF Traffic
        <5> QED
          BY <1>4, <5>2, <5>4
      <4> QED
        BY <4>1, <4>2
    <3> QED
      BY <3>2, <3>4 DEF Traffic
  <2> QED
    BY <2>1, <2>2
<1>16. Shelf'
  BY SMTT(30), <1>1, <1>2, <1>3, <1>4, <1>5, <1>6, <1>7, <1>8, <1>9, <1>10
    DEF Holds, Shelf, Data, Records, Engaged
<1>17. Proofs'
  BY <1>7, <1>6, ProofsKept DEF Engaged
<1>18. Acked'
  BY <1>1, <1>2, <1>3, <1>4, <1>5, <1>6, <1>7, <1>8, <1>9, <1>10
    DEF Holds, Acked, Engaged, Shelf
<1>19. Heard'
  BY SMTT(30), <1>1, <1>2, <1>3, <1>4, <1>5, <1>6, <1>7, <1>8, <1>9, <1>10 DEF Holds, Heard
<1> QED
  BY <1>11, <1>12, <1>13, <1>14, <1>15, <1>16, <1>17, <1>18, <1>19 DEF IInv

LEMMA ResultKeeps ==
  ASSUME IInv, NEW ok \in BOOLEAN, ok => delivered, toReceiver # <<>>, Msg("receiver").kind # "entry",
         Answer("receiver", Result(ok)), receiver.phase \in {"listening", "wait", "closing"},
         Moves("listening"), part' \in {part, Preserved},
         UNCHANGED <<sourceVars, sendVars, meta, ledger, fileVars, up, cancelVars, budget>>
  PROVE  IInv'
<1> USE DEF IInv, sourceVars, sendVars, partVars, fileVars, cancelVars
<1>1. toReceiver # <<>> /\ up
  BY DEF Holds, Traffic
<1>2. Result(ok) \in ToSender
  BY MadeByReceiver
<1>3. Wires' /\ toReceiver' = Tail(toReceiver) /\ toSender' = Append(toSender, Result(ok))
  BY <1>1, <1>2, ReceiverAnswers DEF Holds
<1>4. /\ Len(toReceiver) \in Nat \ {0} /\ Len(Tail(toReceiver)) = Len(toReceiver) - 1
      /\ Msg("receiver") = toReceiver[1] /\ Msg("receiver") \in ToReceiver
      /\ \A i \in 1..Len(Tail(toReceiver)) : i + 1 \in 1..Len(toReceiver) /\ Tail(toReceiver)[i] = toReceiver[i + 1]
  BY <1>1, TailOf DEF Holds, Wires, Msg, toReceiver
<1>5. /\ Append(toSender, Result(ok)) # <<>>
      /\ Len(Append(toSender, Result(ok))) = Len(toSender) + 1
      /\ Append(toSender, Result(ok))[Len(toSender) + 1] = Result(ok)
      /\ \A i \in 1..Len(toSender) : Append(toSender, Result(ok))[i] = toSender[i]
  BY <1>2, Appended DEF Holds, Wires
<1>6. /\ Len(toSender) \in Nat /\ Len(toReceiver) \in Nat
      /\ sender.offset \in 0..Blocks /\ sender.phase \in SenderPhases
      /\ receiver.phase \in ReceiverPhases
      /\ part # Nothing =>
           part \in Parts /\ part.data \in Seq(Values) /\ part.synced \in Nat /\ Data \in Nat
      /\ ledger # Nothing =>
           /\ ledger \in Ledgers /\ ledger.records \in Seq(Values)
           /\ ledger.synced \in Nat /\ Records \in Nat
      /\ meta # Nothing => meta \in Names /\ meta.root \in Contents
  BY Sizes
<1>7. /\ Preserved \in {Nothing} \cup Parts
      /\ Preserved = Nothing <=> part = Nothing
      /\ part # Nothing => Preserved.data = part.data /\ Preserved.synced = Data
  BY PreservedPart
<1>8. receiver' \in Receivers /\ receiver'.phase = "listening" /\ receiver'.root = receiver.root
  BY ReceiverMoves DEF Holds, ReceiverPhases
<1>9. /\ part' \in {Nothing} \cup Parts /\ (part' = Nothing <=> part = Nothing)
      /\ part # Nothing => part'.data = part.data /\ part'.synced \in {part.synced, Data}
  BY <1>6, <1>7 DEF Holds
<1>10. Result(ok).kind = "result" /\ Result(ok).ok = ok
  BY MadeByReceiver
<1>11. /\ toReceiver \in Seq(Later) => Tail(toReceiver) \in Seq(Later)
      /\ Len(toReceiver) = 1 => Tail(toReceiver) \in Seq(Later)
  BY <1>1, TailLater DEF Holds
<1>12. Holds'
  BY <1>1, <1>2, <1>3, <1>4, <1>5, <1>6, <1>7, <1>8, <1>9, <1>10, <1>11, BlocksAssumption
    DEF Holds
<1>13. Scan'
  BY <1>1, <1>2, <1>3, <1>4, <1>5, <1>6, <1>7, <1>8, <1>9, <1>10, <1>11 DEF Holds, Scan
<1>14. Roots'
  BY <1>1, <1>2, <1>3, <1>4, <1>5, <1>6, <1>7, <1>8, <1>9, <1>10, <1>11 DEF Holds, Roots
<1>15. Opening'
  BY <1>1, <1>2, <1>3, <1>4, <1>5, <1>6, <1>7, <1>8, <1>9, <1>10, <1>11
    DEF Holds, Opening, Early
<1>16. Traffic'
  BY <1>1, <1>2, <1>3, <1>4, <1>5, <1>6, <1>7, <1>8, <1>9, <1>10, <1>11
    DEF Holds, Traffic, Load, SenderLeft, ReceiverLeft, Busy, Early
<1>17. Shelf'
  BY SMTT(30), <1>1, <1>2, <1>3, <1>4, <1>5, <1>6, <1>7, <1>8, <1>9, <1>10, <1>11
    DEF Holds, Shelf, Data, Records, Engaged
<1>18. Proofs'
  BY <1>9, <1>8, ProofsKept DEF Engaged
<1>19. Acked'
  BY <1>1, <1>2, <1>3, <1>4, <1>5, <1>6, <1>7, <1>8, <1>9, <1>10, <1>11
    DEF Holds, Acked, Engaged, Shelf
<1>20. Heard'
  BY <1>1, <1>2, <1>3, <1>4, <1>5, <1>6, <1>7, <1>8, <1>9, <1>10, <1>11 DEF Holds, Heard
<1> QED
  BY <1>12, <1>13, <1>14, <1>15, <1>16, <1>17, <1>18, <1>19, <1>20 DEF IInv

LEMMA EntryAlone ==
  ASSUME IInv, Arrives("receiver", "entry")
  PROVE  /\ toReceiver # <<>> /\ up /\ Len(toReceiver) = 1 /\ toSender = <<>> /\ Len(toSender) = 0
         /\ sender.phase \in {"idle", "decision"} /\ sender.offset = 0
         /\ Msg("receiver").root \in versions /\ Msg("receiver").root \in Contents
<1>1. toReceiver # <<>> /\ toReceiver[1].kind = "entry" /\ Msg("receiver") = toReceiver[1]
      /\ 1 \in 1..Len(toReceiver)
  BY TailOf DEF IInv, Holds, Wires, Arrives, Msg, toReceiver
<1>2. toReceiver \notin Seq(Later)
  BY <1>1, ElementOfSeq DEF Later
<1>3. Msg("receiver").root \in versions
  BY <1>1 DEF IInv, Roots
<1>4. Msg("receiver").root \in Contents
  BY <1>3 DEF IInv, Holds
<1> QED
  BY <1>1, <1>2, <1>3, <1>4, EmptySeq DEF IInv, Holds, Opening, Traffic, Scan

LEMMA EntryRefusedKeeps ==
  ASSUME IInv, Arrives("receiver", "entry"), receiver.phase = "listening",
         Answer("receiver", Refused),
         UNCHANGED <<sourceVars, sendVars, partVars, fileVars, receiver, up, cancelVars, budget>>
  PROVE  IInv'
<1> USE DEF IInv, sourceVars, sendVars, partVars, fileVars, cancelVars
<1>1. toReceiver # <<>> /\ up
  BY EntryAlone
<1>2. Refused \in ToSender
  BY MadeByReceiver
<1>3. Wires' /\ toReceiver' = Tail(toReceiver) /\ toSender' = Append(toSender, Refused)
  BY <1>1, <1>2, ReceiverAnswers DEF Holds
<1>4. /\ Len(toReceiver) \in Nat \ {0} /\ Len(Tail(toReceiver)) = Len(toReceiver) - 1
      /\ Msg("receiver") = toReceiver[1] /\ Msg("receiver") \in ToReceiver
      /\ \A i \in 1..Len(Tail(toReceiver)) : i + 1 \in 1..Len(toReceiver) /\ Tail(toReceiver)[i] = toReceiver[i + 1]
  BY <1>1, TailOf DEF Holds, Wires, Msg, toReceiver
<1>5. /\ Append(toSender, Refused) # <<>>
      /\ Len(Append(toSender, Refused)) = Len(toSender) + 1
      /\ Append(toSender, Refused)[Len(toSender) + 1] = Refused
      /\ \A i \in 1..Len(toSender) : Append(toSender, Refused)[i] = toSender[i]
  BY <1>2, Appended DEF Holds, Wires
<1>6. /\ toReceiver # <<>> /\ up /\ Len(toReceiver) = 1 /\ toSender = <<>> /\ Len(toSender) = 0
      /\ sender.phase \in {"idle", "decision"} /\ sender.offset = 0
      /\ Msg("receiver").root \in versions /\ Msg("receiver").root \in Contents
  BY EntryAlone
<1>7. /\ toReceiver \in Seq(Later) => Tail(toReceiver) \in Seq(Later)
      /\ Len(toReceiver) = 1 => Tail(toReceiver) \in Seq(Later)
  BY <1>1, TailLater DEF Holds
<1>8. /\ Len(toSender) \in Nat /\ Len(toReceiver) \in Nat
      /\ sender.offset \in 0..Blocks /\ sender.phase \in SenderPhases
      /\ receiver.phase \in ReceiverPhases
      /\ part # Nothing =>
           part \in Parts /\ part.data \in Seq(Values) /\ part.synced \in Nat /\ Data \in Nat
      /\ ledger # Nothing =>
           /\ ledger \in Ledgers /\ ledger.records \in Seq(Values)
           /\ ledger.synced \in Nat /\ Records \in Nat
      /\ meta # Nothing => meta \in Names /\ meta.root \in Contents
  BY Sizes
<1>9. Refused.kind = "decision"
  BY MadeByReceiver
<1>10. Holds'
  BY <1>1, <1>2, <1>3, <1>4, <1>5, <1>6, <1>7, <1>8, <1>9, BlocksAssumption DEF Holds
<1>11. Scan'
  BY <1>1, <1>2, <1>3, <1>4, <1>5, <1>6, <1>7, <1>8, <1>9 DEF Holds, Scan
<1>12. Roots'
  BY <1>1, <1>2, <1>3, <1>4, <1>5, <1>6, <1>7, <1>8, <1>9 DEF Holds, Roots
<1>13. Opening'
  BY <1>1, <1>2, <1>3, <1>4, <1>5, <1>6, <1>7, <1>8, <1>9 DEF Holds, Opening, Early
<1>14. Traffic'
  BY SMTT(30), <1>1, <1>2, <1>3, <1>4, <1>5, <1>6, <1>7, <1>8, <1>9
    DEF Holds, Traffic, Load, SenderLeft, ReceiverLeft, Busy, Early
<1>15. Shelf'
  BY <1>1, <1>2, <1>3, <1>4, <1>5, <1>6, <1>7, <1>8, <1>9
    DEF Holds, Shelf, Data, Records, Engaged
<1>16. Proofs'
  BY <1>1, <1>2, <1>3, <1>4, <1>5, <1>6, <1>7, <1>8, <1>9
    DEF Holds, Proofs, Proved, TornAt, Records, Engaged
<1>17. Acked'
  BY <1>1, <1>2, <1>3, <1>4, <1>5, <1>6, <1>7, <1>8, <1>9 DEF Holds, Acked, Engaged, Shelf
<1>18. Heard'
  BY <1>1, <1>2, <1>3, <1>4, <1>5, <1>6, <1>7, <1>8, <1>9 DEF Holds, Heard
<1> QED
  BY <1>10, <1>11, <1>12, <1>13, <1>14, <1>15, <1>16, <1>17, <1>18 DEF IInv

LEMMA EntryClosesKeeps ==
  ASSUME IInv, Arrives("receiver", "entry"), receiver.phase = "listening", meta # Nothing,
         file = Msg("receiver").root, NEW m \in ToSender, m.kind = "decision",
         meta' = [meta EXCEPT !.done = TRUE], receiver' = [phase |-> "closing", root |-> Msg("receiver").root],
         Answer("receiver", m),
         UNCHANGED <<sourceVars, sendVars, part, ledger, fileVars, up, cancelVars, budget>>
  PROVE  IInv'
<1> USE DEF IInv, sourceVars, sendVars, partVars, fileVars, cancelVars
<1>1. toReceiver # <<>> /\ up
  BY EntryAlone
<1>2. m \in ToSender
  OBVIOUS
<1>3. Wires' /\ toReceiver' = Tail(toReceiver) /\ toSender' = Append(toSender, m)
  BY <1>1, <1>2, ReceiverAnswers DEF Holds
<1>4. /\ Len(toReceiver) \in Nat \ {0} /\ Len(Tail(toReceiver)) = Len(toReceiver) - 1
      /\ Msg("receiver") = toReceiver[1] /\ Msg("receiver") \in ToReceiver
      /\ \A i \in 1..Len(Tail(toReceiver)) : i + 1 \in 1..Len(toReceiver) /\ Tail(toReceiver)[i] = toReceiver[i + 1]
  BY <1>1, TailOf DEF Holds, Wires, Msg, toReceiver
<1>5. /\ Append(toSender, m) # <<>>
      /\ Len(Append(toSender, m)) = Len(toSender) + 1
      /\ Append(toSender, m)[Len(toSender) + 1] = m
      /\ \A i \in 1..Len(toSender) : Append(toSender, m)[i] = toSender[i]
  BY <1>2, Appended DEF Holds, Wires
<1>6. /\ toReceiver # <<>> /\ up /\ Len(toReceiver) = 1 /\ toSender = <<>> /\ Len(toSender) = 0
      /\ sender.phase \in {"idle", "decision"} /\ sender.offset = 0
      /\ Msg("receiver").root \in versions /\ Msg("receiver").root \in Contents
  BY EntryAlone
<1>7. /\ toReceiver \in Seq(Later) => Tail(toReceiver) \in Seq(Later)
      /\ Len(toReceiver) = 1 => Tail(toReceiver) \in Seq(Later)
  BY <1>1, TailLater DEF Holds
<1>8. /\ Len(toSender) \in Nat /\ Len(toReceiver) \in Nat
      /\ sender.offset \in 0..Blocks /\ sender.phase \in SenderPhases
      /\ receiver.phase \in ReceiverPhases
      /\ part # Nothing =>
           part \in Parts /\ part.data \in Seq(Values) /\ part.synced \in Nat /\ Data \in Nat
      /\ ledger # Nothing =>
           /\ ledger \in Ledgers /\ ledger.records \in Seq(Values)
           /\ ledger.synced \in Nat /\ Records \in Nat
      /\ meta # Nothing => meta \in Names /\ meta.root \in Contents
  BY Sizes
<1>9. meta' \in Names /\ meta' # Nothing /\ meta'.root = meta.root
  BY <1>8, MetaDone
<1>10. receiver' \in Receivers /\ receiver'.phase = "closing" /\ receiver'.root = Msg("receiver").root
  BY <1>6 DEF Receivers, ReceiverPhases
<1>11. delivered
  BY <1>6, FilesAssumption DEF Heard
<1>12. Holds'
  BY <1>1, <1>2, <1>3, <1>4, <1>5, <1>6, <1>7, <1>8, <1>9, <1>10, <1>11, BlocksAssumption
    DEF Holds
<1>13. Scan'
  BY <1>1, <1>2, <1>3, <1>4, <1>5, <1>6, <1>7, <1>8, <1>9, <1>10, <1>11 DEF Holds, Scan
<1>14. Roots'
  BY <1>1, <1>2, <1>3, <1>4, <1>5, <1>6, <1>7, <1>8, <1>9, <1>10, <1>11 DEF Holds, Roots
<1>15. Opening'
  BY <1>1, <1>2, <1>3, <1>4, <1>5, <1>6, <1>7, <1>8, <1>9, <1>10, <1>11
    DEF Holds, Opening, Early
<1>16. Traffic'
  BY <1>1, <1>2, <1>3, <1>4, <1>5, <1>6, <1>7, <1>8, <1>9, <1>10, <1>11
    DEF Holds, Traffic, Load, SenderLeft, ReceiverLeft, Busy, Early
<1>17. Shelf'
  BY <1>1, <1>2, <1>3, <1>4, <1>5, <1>6, <1>7, <1>8, <1>9, <1>10, <1>11
    DEF Holds, Shelf, Data, Records, Engaged, Early
<1>18. Proofs'
  BY <1>1, <1>2, <1>3, <1>4, <1>5, <1>6, <1>7, <1>8, <1>9, <1>10, <1>11
    DEF Holds, Proofs, Proved, TornAt, Records, Engaged
<1>19. Acked'
  BY <1>1, <1>2, <1>3, <1>4, <1>5, <1>6, <1>7, <1>8, <1>9, <1>10, <1>11
    DEF Holds, Acked, Engaged, Shelf
<1>20. Heard'
  BY <1>1, <1>2, <1>3, <1>4, <1>5, <1>6, <1>7, <1>8, <1>9, <1>10, <1>11 DEF Holds, Heard
<1> QED
  BY <1>12, <1>13, <1>14, <1>15, <1>16, <1>17, <1>18, <1>19, <1>20 DEF IInv

LEMMA EntryAdmittedKeeps ==
  ASSUME IInv, Arrives("receiver", "entry"), receiver.phase = "listening",
         NEW p \in {"create", "replace", "open"}, p = "create" <=> meta = Nothing,
         p = "replace" => part = Nothing, p = "open" => part # Nothing,
         receiver' = [phase |-> p, root |-> Msg("receiver").root], Consume("receiver"), UNCHANGED meta,
         UNCHANGED <<sourceVars, sendVars, part, ledger, fileVars, up, cancelVars, budget>>
  PROVE  IInv'
<1> USE DEF IInv, sourceVars, sendVars, partVars, fileVars, cancelVars
<1>1. toReceiver # <<>>
  BY EntryAlone
<1>2. Wires' /\ toReceiver' = Tail(toReceiver) /\ toSender' = toSender
  BY <1>1, ReceiverConsumes DEF Holds
<1>3. /\ Len(toReceiver) \in Nat \ {0} /\ Len(Tail(toReceiver)) = Len(toReceiver) - 1
      /\ Msg("receiver") = toReceiver[1] /\ Msg("receiver") \in ToReceiver
      /\ \A i \in 1..Len(Tail(toReceiver)) : i + 1 \in 1..Len(toReceiver) /\ Tail(toReceiver)[i] = toReceiver[i + 1]
  BY <1>1, TailOf DEF Holds, Wires, Msg, toReceiver
<1>4. /\ toReceiver # <<>> /\ up /\ Len(toReceiver) = 1 /\ toSender = <<>> /\ Len(toSender) = 0
      /\ sender.phase \in {"idle", "decision"} /\ sender.offset = 0
      /\ Msg("receiver").root \in versions /\ Msg("receiver").root \in Contents
  BY EntryAlone
<1>5. /\ toReceiver \in Seq(Later) => Tail(toReceiver) \in Seq(Later)
      /\ Len(toReceiver) = 1 => Tail(toReceiver) \in Seq(Later)
  BY <1>1, TailLater DEF Holds
<1>6. /\ Len(toSender) \in Nat /\ Len(toReceiver) \in Nat
      /\ sender.offset \in 0..Blocks /\ sender.phase \in SenderPhases
      /\ receiver.phase \in ReceiverPhases
      /\ part # Nothing =>
           part \in Parts /\ part.data \in Seq(Values) /\ part.synced \in Nat /\ Data \in Nat
      /\ ledger # Nothing =>
           /\ ledger \in Ledgers /\ ledger.records \in Seq(Values)
           /\ ledger.synced \in Nat /\ Records \in Nat
      /\ meta # Nothing => meta \in Names /\ meta.root \in Contents
  BY Sizes
<1>7. receiver' \in Receivers /\ receiver'.phase = p /\ receiver'.root = Msg("receiver").root
  BY <1>4 DEF Receivers, ReceiverPhases
<1>8. Holds'
  BY <1>1, <1>2, <1>3, <1>4, <1>5, <1>6, <1>7, BlocksAssumption DEF Holds
<1>9. Scan'
  BY <1>1, <1>2, <1>3, <1>4, <1>5, <1>6, <1>7 DEF Holds, Scan
<1>10. Roots'
  BY <1>1, <1>2, <1>3, <1>4, <1>5, <1>6, <1>7 DEF Holds, Roots
<1>11. Opening'
  BY <1>1, <1>2, <1>3, <1>4, <1>5, <1>6, <1>7 DEF Holds, Opening, Early
<1>12. Traffic'
  BY <1>1, <1>2, <1>3, <1>4, <1>5, <1>6, <1>7
    DEF Holds, Traffic, Load, SenderLeft, ReceiverLeft, Busy, Early
<1>13. Shelf'
  BY <1>1, <1>2, <1>3, <1>4, <1>5, <1>6, <1>7 DEF Holds, Shelf, Data, Records, Engaged
<1>14. Proofs'
  BY <1>1, <1>2, <1>3, <1>4, <1>5, <1>6, <1>7
    DEF Holds, Proofs, Proved, TornAt, Records, Engaged
<1>15. Acked'
  BY <1>1, <1>2, <1>3, <1>4, <1>5, <1>6, <1>7 DEF Holds, Acked, Engaged, Shelf
<1>16. Heard'
  BY <1>1, <1>2, <1>3, <1>4, <1>5, <1>6, <1>7 DEF Holds, Heard
<1> QED
  BY <1>8, <1>9, <1>10, <1>11, <1>12, <1>13, <1>14, <1>15, <1>16 DEF IInv

LEMMA EntryArrivesKeeps ==
  ASSUME IInv, EntryArrives
  PROVE  IInv'
<1>1. CASE meta # Nothing /\ ~(meta.done \/ file # Nothing) /\ meta.root = Msg("receiver").root
  BY <1>1, EntryAdmittedKeeps DEF EntryArrives
<1>2. CASE meta = Nothing
  BY <1>2, EntryAdmittedKeeps DEF EntryArrives
<1>3. CASE /\ meta # Nothing /\ (meta.done \/ file # Nothing)
           /\ meta.root = Msg("receiver").root /\ file = Msg("receiver").root
  <2>1. /\ Decision(TRUE, Blocks, Msg("receiver").root) \in ToSender
        /\ Decision(TRUE, Blocks, Msg("receiver").root).kind = "decision"
    <3>1. Msg("receiver").root \in Seq(Values) /\ Blocks \in 0..Blocks
      BY EntryAlone, ContentIsSeq, BlocksAssumption DEF EntryArrives
    <3> QED
      BY <3>1, MadeByReceiver
  <2> QED
    BY <1>3, <2>1, EntryClosesKeeps DEF EntryArrives
<1>4. CASE /\ meta # Nothing
           /\ \/ meta.root # Msg("receiver").root
              \/ (meta.done \/ file # Nothing) /\ file # Msg("receiver").root
  BY <1>4, EntryRefusedKeeps DEF EntryArrives, partVars
<1> QED
  BY <1>1, <1>2, <1>3, <1>4

LEMMA PartCreatedKeeps ==
  ASSUME IInv, receiver.phase = "create", file = Nothing,
         meta' = [root |-> receiver.root, done |-> FALSE], part' = Empty, Moves("open"),
         UNCHANGED <<sourceVars, sendVars, ledger, fileVars, wire, up, cancelVars, budget>>
  PROVE  IInv'
<1> USE DEF IInv, sourceVars, sendVars, partVars, fileVars, cancelVars
<1>1. Wires' /\ toSender' = toSender /\ toReceiver' = toReceiver
  BY WireStays DEF Holds
<1>2. /\ Len(toSender) \in Nat /\ Len(toReceiver) \in Nat
      /\ sender.offset \in 0..Blocks /\ sender.phase \in SenderPhases
      /\ receiver.phase \in ReceiverPhases
      /\ part # Nothing =>
           part \in Parts /\ part.data \in Seq(Values) /\ part.synced \in Nat /\ Data \in Nat
      /\ ledger # Nothing =>
           /\ ledger \in Ledgers /\ ledger.records \in Seq(Values)
           /\ ledger.synced \in Nat /\ Records \in Nat
      /\ meta # Nothing => meta \in Names /\ meta.root \in Contents
  BY Sizes
<1>3. Empty \in Parts /\ Empty # Nothing /\ Len(Empty.data) = 0 /\ Empty.synced = 0
  BY EmptyPart
<1>4. receiver' \in Receivers /\ receiver'.phase = "open" /\ receiver'.root = receiver.root
  BY ReceiverMoves DEF Holds, ReceiverPhases
<1>5. receiver.root \in Contents
  BY DEF Holds, Roots
<1>6. meta' \in Names /\ meta' # Nothing
  BY <1>5, MetaMade
<1>7. Holds'
  BY <1>1, <1>2, <1>3, <1>4, <1>5, <1>6, BlocksAssumption DEF Holds
<1>8. Scan'
  BY <1>1, <1>2, <1>3, <1>4, <1>5, <1>6 DEF Holds, Scan
<1>9. Roots'
  BY <1>1, <1>2, <1>3, <1>4, <1>5, <1>6 DEF Holds, Roots
<1>10. Opening'
  BY <1>1, <1>2, <1>3, <1>4, <1>5, <1>6 DEF Holds, Opening, Early
<1>11. Traffic'
  BY <1>1, <1>2, <1>3, <1>4, <1>5, <1>6
    DEF Holds, Traffic, Load, SenderLeft, ReceiverLeft, Busy, Early
<1>12. Shelf'
  BY <1>1, <1>2, <1>3, <1>4, <1>5, <1>6, BlocksAssumption
    DEF Holds, Shelf, Data, Records, Engaged, Early
<1>13. Proofs'
  BY <1>1, <1>2, <1>3, <1>4, <1>5, <1>6
    DEF Holds, Proofs, Proved, TornAt, Records, Engaged, Shelf
<1>14. Acked'
  BY <1>1, <1>2, <1>3, <1>4, <1>5, <1>6 DEF Holds, Acked, Engaged, Shelf
<1>15. Heard'
  BY <1>1, <1>2, <1>3, <1>4, <1>5, <1>6 DEF Holds, Heard
<1> QED
  BY <1>7, <1>8, <1>9, <1>10, <1>11, <1>12, <1>13, <1>14, <1>15 DEF IInv

LEMMA CreatePartKeeps ==
  ASSUME IInv, CreatePart
  PROVE  IInv'
<1>1. CASE file # Nothing
  BY <1>1, RefuseKeeps DEF CreatePart
<1>2. CASE file = Nothing
  BY <1>2, PartCreatedKeeps DEF CreatePart
<1> QED
  BY <1>1, <1>2

LEMMA LedgerDroppedKeeps ==
  ASSUME IInv, receiver.phase = "replace", ledger' = Nothing, Moves("rename"),
         UNCHANGED <<sourceVars, sendVars, meta, part, fileVars, wire, up, cancelVars, budget>>
  PROVE  IInv'
<1> USE DEF IInv, sourceVars, sendVars, partVars, fileVars, cancelVars
<1>1. Wires' /\ toSender' = toSender /\ toReceiver' = toReceiver
  BY WireStays DEF Holds
<1>2. /\ Len(toSender) \in Nat /\ Len(toReceiver) \in Nat
      /\ sender.offset \in 0..Blocks /\ sender.phase \in SenderPhases
      /\ receiver.phase \in ReceiverPhases
      /\ part # Nothing =>
           part \in Parts /\ part.data \in Seq(Values) /\ part.synced \in Nat /\ Data \in Nat
      /\ ledger # Nothing =>
           /\ ledger \in Ledgers /\ ledger.records \in Seq(Values)
           /\ ledger.synced \in Nat /\ Records \in Nat
      /\ meta # Nothing => meta \in Names /\ meta.root \in Contents
  BY Sizes
<1>3. receiver' \in Receivers /\ receiver'.phase = "rename" /\ receiver'.root = receiver.root
  BY ReceiverMoves DEF Holds, ReceiverPhases
<1>4. Holds'
  BY <1>1, <1>2, <1>3, BlocksAssumption DEF Holds
<1>5. Scan'
  BY <1>1, <1>2, <1>3 DEF Holds, Scan
<1>6. Roots'
  BY <1>1, <1>2, <1>3 DEF Holds, Roots
<1>7. Opening'
  BY <1>1, <1>2, <1>3 DEF Holds, Opening, Early
<1>8. Traffic'
  BY <1>1, <1>2, <1>3 DEF Holds, Traffic, Load, SenderLeft, ReceiverLeft, Busy, Early
<1>9. Shelf'
  BY <1>1, <1>2, <1>3 DEF Holds, Shelf, Data, Records, Engaged, Early
<1>10. Proofs'
  BY <1>1, <1>2, <1>3 DEF Holds, Proofs, Proved, TornAt, Records, Engaged, Shelf
<1>11. Acked'
  BY <1>1, <1>2, <1>3 DEF Holds, Acked, Engaged, Shelf
<1>12. Heard'
  BY <1>1, <1>2, <1>3 DEF Holds, Heard
<1> QED
  BY <1>4, <1>5, <1>6, <1>7, <1>8, <1>9, <1>10, <1>11, <1>12 DEF IInv

LEMMA DropLedgerKeeps ==
  ASSUME IInv, DropLedger
  PROVE  IInv'
<1>1. CASE file # Nothing
  BY <1>1, RefuseKeeps DEF DropLedger
<1>2. CASE file = Nothing
  BY <1>2, LedgerDroppedKeeps DEF DropLedger
<1> QED
  BY <1>1, <1>2

LEMMA NamePartKeeps ==
  ASSUME IInv, NamePart
  PROVE  IInv'
<1> USE DEF IInv, sourceVars, sendVars, partVars, fileVars, cancelVars, NamePart
<1>1. Wires' /\ toSender' = toSender /\ toReceiver' = toReceiver
  BY WireStays DEF Holds
<1>2. /\ Len(toSender) \in Nat /\ Len(toReceiver) \in Nat
      /\ sender.offset \in 0..Blocks /\ sender.phase \in SenderPhases
      /\ receiver.phase \in ReceiverPhases
      /\ part # Nothing =>
           part \in Parts /\ part.data \in Seq(Values) /\ part.synced \in Nat /\ Data \in Nat
      /\ ledger # Nothing =>
           /\ ledger \in Ledgers /\ ledger.records \in Seq(Values)
           /\ ledger.synced \in Nat /\ Records \in Nat
      /\ meta # Nothing => meta \in Names /\ meta.root \in Contents
  BY Sizes
<1>3. Empty \in Parts /\ Empty # Nothing /\ Len(Empty.data) = 0 /\ Empty.synced = 0
  BY EmptyPart
<1>4. receiver' \in Receivers /\ receiver'.phase = "open" /\ receiver'.root = receiver.root
  BY ReceiverMoves DEF Holds, ReceiverPhases
<1>5. Holds'
  BY <1>1, <1>2, <1>3, <1>4, BlocksAssumption DEF Holds
<1>6. Scan'
  BY <1>1, <1>2, <1>3, <1>4 DEF Holds, Scan
<1>7. Roots'
  BY <1>1, <1>2, <1>3, <1>4 DEF Holds, Roots
<1>8. Opening'
  BY <1>1, <1>2, <1>3, <1>4 DEF Holds, Opening, Early
<1>9. Traffic'
  BY <1>1, <1>2, <1>3, <1>4 DEF Holds, Traffic, Load, SenderLeft, ReceiverLeft, Busy, Early
<1>10. Shelf'
  BY <1>1, <1>2, <1>3, <1>4, BlocksAssumption DEF Holds, Shelf, Data, Records, Engaged, Early
<1>11. Proofs'
  BY <1>1, <1>2, <1>3, <1>4 DEF Holds, Proofs, Proved, TornAt, Records, Engaged, Shelf
<1>12. Acked'
  BY <1>1, <1>2, <1>3, <1>4 DEF Holds, Acked, Engaged, Shelf
<1>13. Heard'
  BY <1>1, <1>2, <1>3, <1>4 DEF Holds, Heard
<1> QED
  BY <1>5, <1>6, <1>7, <1>8, <1>9, <1>10, <1>11, <1>12, <1>13 DEF IInv

LEMMA LedgerMadeKeeps ==
  ASSUME IInv, receiver.phase = "open",
         ledger' = [header |-> FALSE, records |-> <<>>, synced |-> 0], part' = Empty, Moves("header"),
         UNCHANGED <<sourceVars, sendVars, meta, fileVars, wire, up, cancelVars, budget>>
  PROVE  IInv'
<1> USE DEF IInv, sourceVars, sendVars, partVars, fileVars, cancelVars
<1>1. Wires' /\ toSender' = toSender /\ toReceiver' = toReceiver
  BY WireStays DEF Holds
<1>2. /\ Len(toSender) \in Nat /\ Len(toReceiver) \in Nat
      /\ sender.offset \in 0..Blocks /\ sender.phase \in SenderPhases
      /\ receiver.phase \in ReceiverPhases
      /\ part # Nothing =>
           part \in Parts /\ part.data \in Seq(Values) /\ part.synced \in Nat /\ Data \in Nat
      /\ ledger # Nothing =>
           /\ ledger \in Ledgers /\ ledger.records \in Seq(Values)
           /\ ledger.synced \in Nat /\ Records \in Nat
      /\ meta # Nothing => meta \in Names /\ meta.root \in Contents
  BY Sizes
<1>3. Empty \in Parts /\ Empty # Nothing /\ Len(Empty.data) = 0 /\ Empty.synced = 0
  BY EmptyPart
<1>4. receiver' \in Receivers /\ receiver'.phase = "header" /\ receiver'.root = receiver.root
  BY ReceiverMoves DEF Holds, ReceiverPhases
<1>5. /\ ledger' \in Ledgers /\ ledger' # Nothing /\ ledger'.synced = 0
      /\ Len(ledger'.records) = 0
  <2>1. <<>> \in Seq(Values) /\ Len(<<>>) = 0
    BY EmptySeq
  <2>2. ledger' \in Ledgers /\ ledger' # Nothing /\ ledger'.synced = 0 /\ ledger'.records = <<>>
    BY <2>1, LedgerMade
  <2> QED
    BY <2>1, <2>2
<1>6. Holds'
  BY <1>1, <1>2, <1>3, <1>4, <1>5, BlocksAssumption DEF Holds
<1>7. Scan'
  BY <1>1, <1>2, <1>3, <1>4, <1>5 DEF Holds, Scan
<1>8. Roots'
  BY <1>1, <1>2, <1>3, <1>4, <1>5 DEF Holds, Roots
<1>9. Opening'
  BY <1>1, <1>2, <1>3, <1>4, <1>5 DEF Holds, Opening, Early
<1>10. Traffic'
  BY <1>1, <1>2, <1>3, <1>4, <1>5
    DEF Holds, Traffic, Load, SenderLeft, ReceiverLeft, Busy, Early
<1>11. Shelf'
  BY <1>1, <1>2, <1>3, <1>4, <1>5, BlocksAssumption
    DEF Holds, Shelf, Data, Records, Engaged, Early
<1>12. Proofs'
  BY <1>1, <1>2, <1>3, <1>4, <1>5 DEF Holds, Proofs, Proved, TornAt, Records, Engaged
<1>13. Acked'
  BY <1>1, <1>2, <1>3, <1>4, <1>5 DEF Holds, Acked, Engaged, Shelf
<1>14. Heard'
  BY <1>1, <1>2, <1>3, <1>4, <1>5 DEF Holds, Heard
<1> QED
  BY <1>6, <1>7, <1>8, <1>9, <1>10, <1>11, <1>12, <1>13, <1>14 DEF IInv

LEMMA LedgerOpenedKeeps ==
  ASSUME IInv, receiver.phase = "open", ledger # Nothing, Sound(ledger), Data >= Records,
         part' = Adopted(Records), ledger' = [ledger EXCEPT !.synced = Records], Moves("wait"),
         NEW m \in ToSender, m.kind = "decision", m.offset = Records, Send("sender", m),
         UNCHANGED <<sourceVars, sendVars, meta, fileVars, up, cancelVars, budget>>
  PROVE  IInv'
<1> USE DEF IInv, sourceVars, sendVars, partVars, fileVars, cancelVars, Adopted
<1>1. m \in ToSender
  OBVIOUS
<1>2. /\ Wires' /\ toReceiver' = toReceiver
      /\ toSender' = IF up THEN Append(toSender, m) ELSE toSender
  BY <1>1, ReceiverSends DEF Holds
<1>3. /\ Append(toSender, m) # <<>>
      /\ Len(Append(toSender, m)) = Len(toSender) + 1
      /\ Append(toSender, m)[Len(toSender) + 1] = m
      /\ \A i \in 1..Len(toSender) : Append(toSender, m)[i] = toSender[i]
  BY <1>1, Appended DEF Holds, Wires
<1>4. /\ Len(toSender) \in Nat /\ Len(toReceiver) \in Nat
      /\ sender.offset \in 0..Blocks /\ sender.phase \in SenderPhases
      /\ receiver.phase \in ReceiverPhases
      /\ part # Nothing =>
           part \in Parts /\ part.data \in Seq(Values) /\ part.synced \in Nat /\ Data \in Nat
      /\ ledger # Nothing =>
           /\ ledger \in Ledgers /\ ledger.records \in Seq(Values)
           /\ ledger.synced \in Nat /\ Records \in Nat
      /\ meta # Nothing => meta \in Names /\ meta.root \in Contents
  BY Sizes
<1>5. receiver' \in Receivers /\ receiver'.phase = "wait" /\ receiver'.root = receiver.root
  BY ReceiverMoves DEF Holds, ReceiverPhases
<1>6. part # Nothing /\ Records \in 0..Len(part.data)
  BY <1>4 DEF Shelf, Data, Early
<1>7. /\ SubSeq(part.data, 1, Records) \in Seq(Values) /\ Len(SubSeq(part.data, 1, Records)) = Records
      /\ \A i \in 1..Records : SubSeq(part.data, 1, Records)[i] = part.data[i]
  BY <1>4, <1>6, FirstOf
<1>8. /\ part' \in Parts /\ part' # Nothing /\ part'.data = SubSeq(part.data, 1, Records)
      /\ part'.synced = Records
  BY <1>4, <1>6, <1>7, PartWith
<1>9. /\ ledger' \in Ledgers /\ ledger' # Nothing /\ ledger'.records = ledger.records
      /\ ledger'.synced = Records
  BY <1>4, LedgerWith
<1>10. /\ toSender = <<>> /\ Len(<<>>) = 0 /\ sender.phase \in {"idle", "decision"} /\ sender.offset = 0
  BY EmptySeq DEF Opening, Early, Scan
<1>11. Holds'
  BY <1>1, <1>2, <1>3, <1>4, <1>5, <1>6, <1>7, <1>8, <1>9, <1>10, BlocksAssumption DEF Holds
<1>12. Scan'
  BY <1>1, <1>2, <1>3, <1>4, <1>5, <1>6, <1>7, <1>8, <1>9, <1>10 DEF Holds, Scan
<1>13. Roots'
  BY <1>1, <1>2, <1>3, <1>4, <1>5, <1>6, <1>7, <1>8, <1>9, <1>10 DEF Holds, Roots
<1>14. Opening'
  BY <1>1, <1>2, <1>3, <1>4, <1>5, <1>6, <1>7, <1>8, <1>9, <1>10 DEF Holds, Opening, Early
<1>15. Traffic'
  <2>1. ~ReceiverLeft /\ ~ReceiverLeft'
    BY <1>5 DEF ReceiverLeft
  <2>2. /\ toReceiver' = toReceiver /\ Len(toSender') \in Nat /\ Len(toSender') <= Len(toSender) + 1
        /\ ~up => toSender' = <<>>
    BY <1>2, <1>3, <1>4, <1>5, <1>10
  <2>3. Load \in Nat /\ Load' \in Nat /\ Load' <= Load
    BY <1>2, <1>3, <1>4, <1>5, <1>10, <2>2 DEF Load, Busy, Early
  <2>4. SenderLeft => SenderLeft'
    BY <1>2, <1>3, <1>4, <1>5, <1>10, <2>2 DEF SenderLeft
  <2> QED
    BY <2>1, <2>2, <2>3, <2>4 DEF Traffic
<1>16. Shelf'
  BY <1>1, <1>2, <1>3, <1>4, <1>5, <1>6, <1>7, <1>8, <1>9, <1>10, BlocksAssumption
    DEF Holds, Shelf, Data, Records, Engaged
<1>17. Proofs'
  BY SMTT(30), <1>1, <1>2, <1>3, <1>4, <1>5, <1>6, <1>7, <1>8, <1>9, <1>10
    DEF Holds, Proofs, Proved, TornAt, Records, Engaged, Sound
<1>18. Acked'
  BY SMTT(30), <1>1, <1>2, <1>3, <1>4, <1>5, <1>6, <1>7, <1>8, <1>9, <1>10
    DEF Holds, Acked, Engaged, Shelf
<1>19. Heard'
  BY <1>1, <1>2, <1>3, <1>4, <1>5, <1>6, <1>7, <1>8, <1>9, <1>10 DEF Holds, Heard
<1> QED
  BY <1>11, <1>12, <1>13, <1>14, <1>15, <1>16, <1>17, <1>18, <1>19 DEF IInv

LEMMA OpenLedgerKeeps ==
  ASSUME IInv, OpenLedger
  PROVE  IInv'
<1>1. CASE ledger = Nothing
  BY <1>1, LedgerMadeKeeps DEF OpenLedger
<1>2. CASE ledger # Nothing /\ Sound(ledger) /\ Len(part.data) >= Len(ledger.records)
  <2>1. ledger.records \in Seq(Values) /\ Len(ledger.records) \in 0..Blocks
    BY <1>2, Sizes DEF IInv, Shelf, Records
  <2>2. /\ Decision(TRUE, Len(ledger.records), ledger.records) \in ToSender
        /\ Decision(TRUE, Len(ledger.records), ledger.records).kind = "decision"
        /\ Decision(TRUE, Len(ledger.records), ledger.records).offset = Len(ledger.records)
    BY <2>1, MadeByReceiver
  <2> QED
    BY <1>2, <2>2, LedgerOpenedKeeps DEF OpenLedger, Data, Records
<1>3. CASE ledger # Nothing /\ ~(Sound(ledger) /\ Len(part.data) >= Len(ledger.records))
  BY <1>3, RefuseKeeps DEF OpenLedger
<1> QED
  BY <1>1, <1>2, <1>3

LEMMA WriteHeaderKeeps ==
  ASSUME IInv, WriteHeader
  PROVE  IInv'
<1> USE DEF IInv, sourceVars, sendVars, partVars, fileVars, cancelVars, WriteHeader
<1>1. Wires' /\ toSender' = toSender /\ toReceiver' = toReceiver
  BY WireStays DEF Holds
<1>2. /\ Len(toSender) \in Nat /\ Len(toReceiver) \in Nat
      /\ sender.offset \in 0..Blocks /\ sender.phase \in SenderPhases
      /\ receiver.phase \in ReceiverPhases
      /\ part # Nothing =>
           part \in Parts /\ part.data \in Seq(Values) /\ part.synced \in Nat /\ Data \in Nat
      /\ ledger # Nothing =>
           /\ ledger \in Ledgers /\ ledger.records \in Seq(Values)
           /\ ledger.synced \in Nat /\ Records \in Nat
      /\ meta # Nothing => meta \in Names /\ meta.root \in Contents
  BY Sizes
<1>3. receiver' \in Receivers /\ receiver'.phase = "open" /\ receiver'.root = receiver.root
  BY ReceiverMoves DEF Holds, ReceiverPhases
<1>4. /\ ledger # Nothing /\ ledger' \in Ledgers /\ ledger' # Nothing
      /\ ledger'.records = ledger.records /\ ledger'.synced = ledger.synced
  BY <1>2, LedgerWith DEF Shelf
<1>5. Holds'
  BY <1>1, <1>2, <1>3, <1>4, BlocksAssumption DEF Holds
<1>6. Scan'
  BY <1>1, <1>2, <1>3, <1>4 DEF Holds, Scan
<1>7. Roots'
  BY <1>1, <1>2, <1>3, <1>4 DEF Holds, Roots
<1>8. Opening'
  BY <1>1, <1>2, <1>3, <1>4 DEF Holds, Opening, Early
<1>9. Traffic'
  BY <1>1, <1>2, <1>3, <1>4 DEF Holds, Traffic, Load, SenderLeft, ReceiverLeft, Busy, Early
<1>10. Shelf'
  BY <1>1, <1>2, <1>3, <1>4 DEF Holds, Shelf, Data, Records, Engaged, Early
<1>11. Proofs'
  BY <1>1, <1>2, <1>3, <1>4 DEF Holds, Proofs, Proved, TornAt, Records, Engaged
<1>12. Acked'
  BY <1>1, <1>2, <1>3, <1>4 DEF Holds, Acked, Engaged, Shelf
<1>13. Heard'
  BY <1>1, <1>2, <1>3, <1>4 DEF Holds, Heard
<1> QED
  BY <1>5, <1>6, <1>7, <1>8, <1>9, <1>10, <1>11, <1>12, <1>13 DEF IInv

LEMMA BlockArrivesKeeps ==
  ASSUME IInv, BlockArrives
  PROVE  IInv'
<1> USE DEF IInv, sourceVars, sendVars, partVars, fileVars, cancelVars, BlockArrives
<1>1. toReceiver # <<>>
  BY DEF Arrives, toReceiver
<1>2. Wires' /\ toReceiver' = Tail(toReceiver) /\ toSender' = toSender
  BY <1>1, ReceiverConsumes DEF Holds
<1>3. /\ Len(toReceiver) \in Nat \ {0} /\ Len(Tail(toReceiver)) = Len(toReceiver) - 1
      /\ Msg("receiver") = toReceiver[1] /\ Msg("receiver") \in ToReceiver
      /\ \A i \in 1..Len(Tail(toReceiver)) : i + 1 \in 1..Len(toReceiver) /\ Tail(toReceiver)[i] = toReceiver[i + 1]
  BY <1>1, TailOf DEF Holds, Wires, Msg, toReceiver
<1>4. /\ Len(toSender) \in Nat /\ Len(toReceiver) \in Nat
      /\ sender.offset \in 0..Blocks /\ sender.phase \in SenderPhases
      /\ receiver.phase \in ReceiverPhases
      /\ part # Nothing =>
           part \in Parts /\ part.data \in Seq(Values) /\ part.synced \in Nat /\ Data \in Nat
      /\ ledger # Nothing =>
           /\ ledger \in Ledgers /\ ledger.records \in Seq(Values)
           /\ ledger.synced \in Nat /\ Records \in Nat
      /\ meta # Nothing => meta \in Names /\ meta.root \in Contents
  BY Sizes
<1>5. /\ toReceiver \in Seq(Later) => Tail(toReceiver) \in Seq(Later)
      /\ Len(toReceiver) = 1 => Tail(toReceiver) \in Seq(Later)
  BY <1>1, TailLater DEF Holds
<1>6. receiver' \in Receivers /\ receiver'.phase = "written" /\ receiver'.root = receiver.root
  BY ReceiverMoves DEF Holds, ReceiverPhases
<1>7. /\ Msg("receiver").kind = "block" /\ Msg("receiver").at < Blocks
      /\ Msg("receiver").value \in Values
  BY <1>3, ReceiverMessage, BlocksAssumption DEF Arrives, Msg, Values
<1>8. /\ part # Nothing /\ part' \in Parts /\ part' # Nothing /\ part'.synced = part.synced
      /\ Len(part'.data) = Data + 1 /\ \A i \in 1..Data : part'.data[i] = part.data[i]
  <2>1. part \in Parts /\ part # Nothing /\ part.data \in Seq(Values)
    BY <1>4 DEF Shelf, Engaged
  <2>2. PICK d : d = Append(part.data, Msg("receiver").value)
    OBVIOUS
  <2>3. d \in Seq(Values) /\ Len(d) = Data + 1 /\ \A i \in 1..Data : d[i] = part.data[i]
    BY <1>7, <2>1, <2>2, Appended DEF Data
  <2>4. part' = [part EXCEPT !.data = d]
    BY <2>1, <2>2 DEF Parts
  <2> QED
    <3>1. \A n \in Nat : /\ [part EXCEPT !.data = d] \in Parts /\ [part EXCEPT !.data = d] # Nothing
                         /\ [part EXCEPT !.data = d].data = d
                         /\ [part EXCEPT !.data = d].synced = part.synced
      BY <2>1, <2>3, PartWith
    <3>2. part' \in Parts /\ part' # Nothing /\ part'.synced = part.synced /\ part'.data = d
      BY <1>4, <2>1, <2>4, <3>1
    <3> QED
      BY <2>1, <2>3, <3>2
<1>9. Holds'
  BY <1>1, <1>2, <1>3, <1>4, <1>5, <1>6, <1>7, <1>8, BlocksAssumption DEF Holds
<1>10. Scan'
  BY <1>1, <1>2, <1>3, <1>4, <1>5, <1>6, <1>7, <1>8 DEF Holds, Scan
<1>11. Roots'
  BY <1>1, <1>2, <1>3, <1>4, <1>5, <1>6, <1>7, <1>8 DEF Holds, Roots
<1>12. Opening'
  BY <1>1, <1>2, <1>3, <1>4, <1>5, <1>6, <1>7, <1>8 DEF Holds, Opening, Early
<1>13. Traffic'
  <2>1. ~ReceiverLeft /\ ~ReceiverLeft'
    BY <1>6 DEF ReceiverLeft
  <2>2. Load \in Nat /\ Load' = Load
    BY <1>2, <1>3, <1>4, <1>6 DEF Load, Busy, Early
  <2>3. ASSUME SenderLeft
        PROVE  SenderLeft'
    <3>1. toReceiver[Len(toReceiver)].kind = "abort" /\ Len(toReceiver) # 1
      BY <1>3, <1>6, <1>7, <2>3 DEF SenderLeft
    <3>2. Len(toReceiver') \in 1..Len(toReceiver') /\ Len(toReceiver') + 1 = Len(toReceiver)
      BY <1>2, <1>3, <3>1
    <3>3. toReceiver'[Len(toReceiver')] = toReceiver[Len(toReceiver') + 1]
      BY <1>2, <1>3, <3>2
    <3>4. toReceiver' # <<>>
      BY <3>2, EmptySeq
    <3> QED
      BY <2>3, <3>1, <3>2, <3>3, <3>4 DEF SenderLeft
  <2> QED
    BY <1>1, <2>1, <2>2, <2>3 DEF Traffic
<1>14. Shelf'
  <2>1. Msg("receiver").at = Records /\ Data = Records /\ part.synced = Data /\ ledger.synced = Data
    BY DEF Shelf, Records
  <2> QED
    BY <1>4, <1>6, <1>7, <1>8, <2>1, BlocksAssumption DEF Shelf, Data, Records, Engaged
<1>15. Proofs'
  BY <1>1, <1>2, <1>3, <1>4, <1>5, <1>6, <1>7, <1>8
    DEF Holds, Proofs, Proved, TornAt, Records, Engaged, Shelf, Data, Engaged
<1>16. Acked'
  BY <1>1, <1>2, <1>3, <1>4, <1>5, <1>6, <1>7, <1>8 DEF Holds, Acked, Engaged, Shelf
<1>17. Heard'
  BY <1>1, <1>2, <1>3, <1>4, <1>5, <1>6, <1>7, <1>8 DEF Holds, Heard
<1> QED
  BY <1>9, <1>10, <1>11, <1>12, <1>13, <1>14, <1>15, <1>16, <1>17 DEF IInv

LEMMA SyncDataKeeps ==
  ASSUME IInv, SyncData
  PROVE  IInv'
<1> USE DEF IInv, sourceVars, sendVars, partVars, fileVars, cancelVars, SyncData
<1>1. Wires' /\ toSender' = toSender /\ toReceiver' = toReceiver
  BY WireStays DEF Holds
<1>2. /\ Len(toSender) \in Nat /\ Len(toReceiver) \in Nat
      /\ sender.offset \in 0..Blocks /\ sender.phase \in SenderPhases
      /\ receiver.phase \in ReceiverPhases
      /\ part # Nothing =>
           part \in Parts /\ part.data \in Seq(Values) /\ part.synced \in Nat /\ Data \in Nat
      /\ ledger # Nothing =>
           /\ ledger \in Ledgers /\ ledger.records \in Seq(Values)
           /\ ledger.synced \in Nat /\ Records \in Nat
      /\ meta # Nothing => meta \in Names /\ meta.root \in Contents
  BY Sizes
<1>3. receiver' \in Receivers /\ receiver'.phase = "synced" /\ receiver'.root = receiver.root
  BY ReceiverMoves DEF Holds, ReceiverPhases
<1>4. /\ part # Nothing /\ part' \in Parts /\ part' # Nothing /\ part'.data = part.data
      /\ part'.synced = Data
  BY <1>2, PartWith DEF Shelf, Engaged, Data
<1>5. Holds'
  BY <1>1, <1>2, <1>3, <1>4, BlocksAssumption DEF Holds
<1>6. Scan'
  BY <1>1, <1>2, <1>3, <1>4 DEF Holds, Scan
<1>7. Roots'
  BY <1>1, <1>2, <1>3, <1>4 DEF Holds, Roots
<1>8. Opening'
  BY <1>1, <1>2, <1>3, <1>4 DEF Holds, Opening, Early
<1>9. Traffic'
  BY <1>1, <1>2, <1>3, <1>4 DEF Holds, Traffic, Load, SenderLeft, ReceiverLeft, Busy, Early
<1>10. Shelf'
  BY <1>1, <1>2, <1>3, <1>4 DEF Holds, Shelf, Data, Records, Engaged, Early
<1>11. Proofs'
  BY <1>1, <1>2, <1>3, <1>4
    DEF Holds, Proofs, Proved, TornAt, Records, Engaged, Shelf, Data, Engaged
<1>12. Acked'
  BY <1>1, <1>2, <1>3, <1>4 DEF Holds, Acked, Engaged, Shelf
<1>13. Heard'
  BY <1>1, <1>2, <1>3, <1>4 DEF Holds, Heard
<1> QED
  BY <1>5, <1>6, <1>7, <1>8, <1>9, <1>10, <1>11, <1>12, <1>13 DEF IInv

LEMMA AppendRecordKeeps ==
  ASSUME IInv, AppendRecord
  PROVE  IInv'
<1> USE DEF IInv, sourceVars, sendVars, partVars, fileVars, cancelVars, AppendRecord
<1>1. Wires' /\ toSender' = toSender /\ toReceiver' = toReceiver
  BY WireStays DEF Holds
<1>2. /\ Len(toSender) \in Nat /\ Len(toReceiver) \in Nat
      /\ sender.offset \in 0..Blocks /\ sender.phase \in SenderPhases
      /\ receiver.phase \in ReceiverPhases
      /\ part # Nothing =>
           part \in Parts /\ part.data \in Seq(Values) /\ part.synced \in Nat /\ Data \in Nat
      /\ ledger # Nothing =>
           /\ ledger \in Ledgers /\ ledger.records \in Seq(Values)
           /\ ledger.synced \in Nat /\ Records \in Nat
      /\ meta # Nothing => meta \in Names /\ meta.root \in Contents
  BY Sizes
<1>3. receiver' \in Receivers /\ receiver'.phase = "recorded" /\ receiver'.root = receiver.root
  BY ReceiverMoves DEF Holds, ReceiverPhases
<1>4. /\ part # Nothing /\ ledger # Nothing /\ Data = Records + 1 /\ part.data[Data] \in Values
  BY <1>2, ElementOfSeq DEF Shelf, Engaged, Data
<1>5. /\ ledger' \in Ledgers /\ ledger' # Nothing /\ ledger'.synced = ledger.synced
      /\ Len(ledger'.records) = Records + 1 /\ ledger'.records[Records + 1] = part.data[Data]
      /\ \A i \in 1..Records : ledger'.records[i] = ledger.records[i]
  <2>1. PICK r : r = Append(ledger.records, part.data[Data])
    OBVIOUS
  <2>2. /\ r \in Seq(Values) /\ Len(r) = Records + 1 /\ r[Records + 1] = part.data[Data]
        /\ \A i \in 1..Records : r[i] = ledger.records[i]
    BY <1>2, <1>4, <2>1, Appended DEF Records
  <2>3. ledger' = [ledger EXCEPT !.records = r]
    BY <1>2, <1>4, <2>1 DEF Ledgers, Data
  <2> QED
    <3>1. \A n \in Nat :
            /\ [ledger EXCEPT !.records = r] \in Ledgers /\ [ledger EXCEPT !.records = r] # Nothing
            /\ [ledger EXCEPT !.records = r].records = r
            /\ [ledger EXCEPT !.records = r].synced = ledger.synced
      BY <1>2, <1>4, <2>2, LedgerWith
    <3>2. /\ ledger' \in Ledgers /\ ledger' # Nothing /\ ledger'.synced = ledger.synced
          /\ ledger'.records = r
      BY <1>2, <1>4, <2>3, <3>1
    <3> QED
      BY <2>2, <3>2
<1>6. Holds'
  BY <1>1, <1>2, <1>3, <1>4, <1>5, BlocksAssumption DEF Holds
<1>7. Scan'
  BY <1>1, <1>2, <1>3, <1>4, <1>5 DEF Holds, Scan
<1>8. Roots'
  BY <1>1, <1>2, <1>3, <1>4, <1>5 DEF Holds, Roots
<1>9. Opening'
  BY <1>1, <1>2, <1>3, <1>4, <1>5 DEF Holds, Opening, Early
<1>10. Traffic'
  BY <1>1, <1>2, <1>3, <1>4, <1>5
    DEF Holds, Traffic, Load, SenderLeft, ReceiverLeft, Busy, Early
<1>11. Shelf'
  BY SMTT(30), <1>1, <1>2, <1>3, <1>4, <1>5 DEF Holds, Shelf, Data, Records, Engaged, Early
<1>12. Proofs'
  BY SMTT(30), <1>1, <1>2, <1>3, <1>4, <1>5
    DEF Holds, Proofs, Proved, TornAt, Records, Engaged, Shelf, Data, Engaged
<1>13. Acked'
  BY <1>1, <1>2, <1>3, <1>4, <1>5 DEF Holds, Acked, Engaged, Shelf
<1>14. Heard'
  BY <1>1, <1>2, <1>3, <1>4, <1>5 DEF Holds, Heard
<1> QED
  BY <1>6, <1>7, <1>8, <1>9, <1>10, <1>11, <1>12, <1>13, <1>14 DEF IInv

LEMMA AckSentKeeps ==
  ASSUME IInv, receiver.phase = "recorded", NEW m \in ToSender, m.kind = "ack",
         m.offset = Records, ledger' = [ledger EXCEPT !.synced = Records], Moves("wait"),
         Send("sender", m), UNCHANGED <<sourceVars, sendVars, meta, part, fileVars, up, cancelVars, budget>>
  PROVE  IInv'
<1> USE DEF IInv, sourceVars, sendVars, partVars, fileVars, cancelVars
<1>1. /\ Wires' /\ toReceiver' = toReceiver
      /\ toSender' = IF up THEN Append(toSender, m) ELSE toSender
  BY ReceiverSends DEF Holds
<1>2. /\ Append(toSender, m) # <<>>
      /\ Len(Append(toSender, m)) = Len(toSender) + 1
      /\ Append(toSender, m)[Len(toSender) + 1] = m
      /\ \A i \in 1..Len(toSender) : Append(toSender, m)[i] = toSender[i]
  BY Appended DEF Holds, Wires
<1>3. /\ Len(toSender) \in Nat /\ Len(toReceiver) \in Nat
      /\ sender.offset \in 0..Blocks /\ sender.phase \in SenderPhases
      /\ receiver.phase \in ReceiverPhases
      /\ part # Nothing =>
           part \in Parts /\ part.data \in Seq(Values) /\ part.synced \in Nat /\ Data \in Nat
      /\ ledger # Nothing =>
           /\ ledger \in Ledgers /\ ledger.records \in Seq(Values)
           /\ ledger.synced \in Nat /\ Records \in Nat
      /\ meta # Nothing => meta \in Names /\ meta.root \in Contents
  BY Sizes
<1>4. receiver' \in Receivers /\ receiver'.phase = "wait" /\ receiver'.root = receiver.root
  BY ReceiverMoves DEF Holds, ReceiverPhases
<1>5. /\ part # Nothing /\ ledger # Nothing /\ ledger' \in Ledgers /\ ledger' # Nothing
      /\ ledger'.records = ledger.records /\ ledger'.synced = Records
  BY <1>3, LedgerWith DEF Shelf, Engaged
<1>6. Holds'
  BY <1>1, <1>2, <1>3, <1>4, <1>5, BlocksAssumption DEF Holds
<1>7. Scan'
  BY <1>1, <1>2, <1>3, <1>4, <1>5 DEF Holds, Scan
<1>8. Roots'
  BY <1>1, <1>2, <1>3, <1>4, <1>5 DEF Holds, Roots
<1>9. Opening'
  BY <1>1, <1>2, <1>3, <1>4, <1>5 DEF Holds, Opening, Early
<1>10. Traffic'
  BY <1>1, <1>2, <1>3, <1>4, <1>5
    DEF Holds, Traffic, Load, SenderLeft, ReceiverLeft, Busy, Early
<1>11. Shelf'
  BY <1>1, <1>2, <1>3, <1>4, <1>5 DEF Holds, Shelf, Data, Records, Engaged, Early
<1>12. Proofs'
  BY <1>1, <1>2, <1>3, <1>4, <1>5
    DEF Holds, Proofs, Proved, TornAt, Records, Engaged, Shelf, Data, Engaged
<1>13. Acked'
  <2>1. sender' = sender /\ ledger.synced + 1 = Records
    BY DEF Shelf
  <2>2. sender.offset <= ledger'.synced
    BY <1>3, <1>5, <2>1 DEF Acked, Engaged
  <2>3. \A i \in 1..Len(toSender) :
          toSender[i].kind # "result" => toSender[i].offset \in Nat /\ toSender[i].offset <= ledger'.synced
    <3>1. \A i \in 1..Len(toSender) : toSender[i].kind # "result" => toSender[i].offset \in Nat
      BY SenderMessage, ElementOfSeq DEF Holds, Wires
    <3> QED
      BY <1>3, <1>5, <2>1, <3>1 DEF Acked, Engaged
  <2>4. \A i \in 1..Len(toSender') : i \in 1..Len(toSender) \/ (i = Len(toSender) + 1 /\ toSender'[i] = m)
    BY <1>1, <1>2, <1>3
  <2>5. \A i \in 1..Len(toSender) : toSender'[i] = toSender[i]
    BY <1>1, <1>2
  <2> QED
    BY SMTT(30), <1>3, <1>5, <2>1, <2>2, <2>3, <2>4, <2>5 DEF Acked
<1>14. Heard'
  BY SMTT(30), <1>1, <1>2, <1>3, <1>4, <1>5 DEF Holds, Heard
<1> QED
  BY <1>6, <1>7, <1>8, <1>9, <1>10, <1>11, <1>12, <1>13, <1>14 DEF IInv

LEMMA SyncRecordKeeps ==
  ASSUME IInv, SyncRecord
  PROVE  IInv'
<1>1. ledger.records \in Seq(Values) /\ Len(ledger.records) \in 0..Blocks
  BY Sizes DEF IInv, Shelf, SyncRecord, Engaged, Records
<1>2. [kind |-> "ack", offset |-> Len(ledger.records), proof |-> ledger.records] \in ToSender
  BY <1>1, MadeByReceiver
<1> QED
  BY <1>2, AckSentKeeps DEF SyncRecord, Records

LEMMA VerifiesKeeps ==
  ASSUME IInv, Arrives("receiver", "complete"), receiver.phase = "wait", part' = Preserved, Verified,
         Moves("verified"), Consume("receiver"),
         UNCHANGED <<sourceVars, sendVars, meta, ledger, fileVars, up, cancelVars, budget>>
  PROVE  IInv'
<1> USE DEF IInv, sourceVars, sendVars, partVars, fileVars, cancelVars
<1>1. toReceiver # <<>>
  BY DEF Arrives, toReceiver
<1>2. Wires' /\ toReceiver' = Tail(toReceiver) /\ toSender' = toSender
  BY <1>1, ReceiverConsumes DEF Holds
<1>3. /\ Len(toReceiver) \in Nat \ {0} /\ Len(Tail(toReceiver)) = Len(toReceiver) - 1
      /\ Msg("receiver") = toReceiver[1] /\ Msg("receiver") \in ToReceiver
      /\ \A i \in 1..Len(Tail(toReceiver)) : i + 1 \in 1..Len(toReceiver) /\ Tail(toReceiver)[i] = toReceiver[i + 1]
  BY <1>1, TailOf DEF Holds, Wires, Msg, toReceiver
<1>4. /\ Len(toSender) \in Nat /\ Len(toReceiver) \in Nat
      /\ sender.offset \in 0..Blocks /\ sender.phase \in SenderPhases
      /\ receiver.phase \in ReceiverPhases
      /\ part # Nothing =>
           part \in Parts /\ part.data \in Seq(Values) /\ part.synced \in Nat /\ Data \in Nat
      /\ ledger # Nothing =>
           /\ ledger \in Ledgers /\ ledger.records \in Seq(Values)
           /\ ledger.synced \in Nat /\ Records \in Nat
      /\ meta # Nothing => meta \in Names /\ meta.root \in Contents
  BY Sizes
<1>5. /\ Preserved \in {Nothing} \cup Parts
      /\ Preserved = Nothing <=> part = Nothing
      /\ part # Nothing => Preserved.data = part.data /\ Preserved.synced = Data
  BY PreservedPart
<1>6. /\ toReceiver \in Seq(Later) => Tail(toReceiver) \in Seq(Later)
      /\ Len(toReceiver) = 1 => Tail(toReceiver) \in Seq(Later)
  BY <1>1, TailLater DEF Holds
<1>7. receiver' \in Receivers /\ receiver'.phase = "verified" /\ receiver'.root = receiver.root
  BY ReceiverMoves DEF Holds, ReceiverPhases
<1>8. Msg("receiver").kind = "complete"
  BY DEF Arrives, Msg
<1>9. Holds'
  BY <1>1, <1>2, <1>3, <1>4, <1>5, <1>6, <1>7, <1>8, BlocksAssumption DEF Holds
<1>10. Scan'
  BY <1>1, <1>2, <1>3, <1>4, <1>5, <1>6, <1>7, <1>8 DEF Holds, Scan
<1>11. Roots'
  BY <1>1, <1>2, <1>3, <1>4, <1>5, <1>6, <1>7, <1>8 DEF Holds, Roots
<1>12. Opening'
  BY <1>1, <1>2, <1>3, <1>4, <1>5, <1>6, <1>7, <1>8 DEF Holds, Opening, Early
<1>13. Traffic'
  <2>1. ~ReceiverLeft /\ ~ReceiverLeft'
    BY <1>7 DEF ReceiverLeft
  <2>2. Load \in Nat /\ Load' = Load
    BY <1>2, <1>3, <1>4, <1>7 DEF Load, Busy, Early
  <2>3. ASSUME SenderLeft
        PROVE  SenderLeft'
    <3>1. toReceiver[Len(toReceiver)].kind = "abort" /\ Len(toReceiver) # 1
      BY <1>3, <1>7, <1>8, <2>3 DEF SenderLeft
    <3>2. Len(toReceiver') \in 1..Len(toReceiver') /\ Len(toReceiver') + 1 = Len(toReceiver)
      BY <1>2, <1>3, <3>1
    <3>3. toReceiver'[Len(toReceiver')] = toReceiver[Len(toReceiver') + 1]
      BY <1>2, <1>3, <3>2
    <3>4. toReceiver' # <<>>
      BY <3>2, EmptySeq
    <3> QED
      BY <2>3, <3>1, <3>2, <3>3, <3>4 DEF SenderLeft
  <2> QED
    BY <1>1, <2>1, <2>2, <2>3 DEF Traffic
<1>14. Shelf'
  BY <1>1, <1>2, <1>3, <1>4, <1>5, <1>6, <1>7, <1>8
    DEF Holds, Shelf, Data, Records, Engaged, Verified, Early
<1>15. Proofs'
  BY <1>1, <1>2, <1>3, <1>4, <1>5, <1>6, <1>7, <1>8
    DEF Holds, Proofs, Proved, TornAt, Records, Engaged, Shelf, Data, Engaged
<1>16. Acked'
  BY <1>1, <1>2, <1>3, <1>4, <1>5, <1>6, <1>7, <1>8 DEF Holds, Acked, Engaged, Shelf
<1>17. Heard'
  BY <1>1, <1>2, <1>3, <1>4, <1>5, <1>6, <1>7, <1>8 DEF Holds, Heard
<1> QED
  BY <1>9, <1>10, <1>11, <1>12, <1>13, <1>14, <1>15, <1>16, <1>17 DEF IInv

LEMMA CompleteArrivesKeeps ==
  ASSUME IInv, CompleteArrives
  PROVE  IInv'
<1>1. toReceiver # <<>> /\ Msg("receiver").kind # "entry"
  BY DEF CompleteArrives, Arrives, Msg, toReceiver
<1>2. CASE receiver.phase = "wait" /\ Verified
  BY <1>2, VerifiesKeeps DEF CompleteArrives
<1>3. CASE receiver.phase = "wait" /\ ~Verified
  BY <1>1, <1>3, ResultKeeps DEF CompleteArrives
<1>4. CASE receiver.phase = "closing"
  <2>1. delivered
    BY <1>4 DEF IInv, Heard
  <2> QED
    BY <1>1, <1>4, <2>1, ResultKeeps DEF CompleteArrives
<1> QED
  BY <1>2, <1>3, <1>4 DEF CompleteArrives

LEMMA PublishedKeeps ==
  ASSUME IInv, receiver.phase = "verified", file = Nothing, file' = part.data, delivered' = TRUE,
         part' = Nothing, Moves("published"),
         UNCHANGED <<sourceVars, sendVars, meta, ledger, wire, up, cancelVars, budget>>
  PROVE  IInv'
<1> USE DEF IInv, sourceVars, sendVars, partVars, fileVars, cancelVars
<1>1. Wires' /\ toSender' = toSender /\ toReceiver' = toReceiver
  BY WireStays DEF Holds
<1>2. /\ Len(toSender) \in Nat /\ Len(toReceiver) \in Nat
      /\ sender.offset \in 0..Blocks /\ sender.phase \in SenderPhases
      /\ receiver.phase \in ReceiverPhases
      /\ part # Nothing =>
           part \in Parts /\ part.data \in Seq(Values) /\ part.synced \in Nat /\ Data \in Nat
      /\ ledger # Nothing =>
           /\ ledger \in Ledgers /\ ledger.records \in Seq(Values)
           /\ ledger.synced \in Nat /\ Records \in Nat
      /\ meta # Nothing => meta \in Names /\ meta.root \in Contents
  BY Sizes
<1>3. receiver' \in Receivers /\ receiver'.phase = "published" /\ receiver'.root = receiver.root
  BY ReceiverMoves DEF Holds, ReceiverPhases
<1>4. part.data \in Contents
  BY DEF Holds, Shelf, Roots
<1>5. Holds'
  BY <1>1, <1>2, <1>3, <1>4, BlocksAssumption DEF Holds
<1>6. Scan'
  BY <1>1, <1>2, <1>3, <1>4 DEF Holds, Scan
<1>7. Roots'
  BY <1>1, <1>2, <1>3, <1>4 DEF Holds, Roots
<1>8. Opening'
  BY <1>1, <1>2, <1>3, <1>4 DEF Holds, Opening, Early
<1>9. Traffic'
  BY <1>1, <1>2, <1>3, <1>4 DEF Holds, Traffic, Load, SenderLeft, ReceiverLeft, Busy, Early
<1>10. Shelf'
  BY <1>1, <1>2, <1>3, <1>4 DEF Holds, Shelf, Data, Records, Engaged, Early
<1>11. Proofs'
  BY <1>1, <1>2, <1>3, <1>4 DEF Holds, Proofs, Proved, TornAt, Records, Engaged
<1>12. Acked'
  BY <1>1, <1>2, <1>3, <1>4 DEF Holds, Acked, Engaged, Shelf
<1>13. Heard'
  BY <1>1, <1>2, <1>3, <1>4 DEF Holds, Heard
<1> QED
  BY <1>5, <1>6, <1>7, <1>8, <1>9, <1>10, <1>11, <1>12, <1>13 DEF IInv

LEMMA PublishKeeps ==
  ASSUME IInv, Publish
  PROVE  IInv'
<1>1. CASE file = Nothing
  BY <1>1, PublishedKeeps DEF Publish
<1>2. CASE file # Nothing
  <2>1. budget' \in Nat /\ budget' <= budget
    BY DEF IInv, Holds, Publish
  <2>2. Send("sender", Result(FALSE)) /\ Moves("listening") /\ part' = Nothing /\ UNCHANGED fileVars
    BY <1>2 DEF Publish
  <2> QED
    BY <2>1, <2>2, ReportKeeps DEF Publish
<1> QED
  BY <1>1, <1>2

LEMMA CompleteKeeps ==
  ASSUME IInv, Complete
  PROVE  IInv'
<1>1. delivered /\ budget' \in Nat /\ budget' <= budget
  BY DEF IInv, Heard, Holds, Complete
<1>2. Send("sender", Result(TRUE)) /\ Moves("listening") /\ meta' = [meta EXCEPT !.done = TRUE]
  BY DEF Complete
<1> QED
  BY <1>1, <1>2, ReportKeeps DEF Complete

LEMMA AbortArrivesKeeps ==
  ASSUME IInv, AbortArrives
  PROVE  IInv'
<1>1. toReceiver # <<>> /\ Msg("receiver").kind # "entry"
  BY DEF AbortArrives, Arrives, Msg, toReceiver
<1> QED
  BY <1>1, ResultKeeps DEF AbortArrives, EntryFails

LEMMA SkippedArrivesKeeps ==
  ASSUME IInv, SkippedArrives
  PROVE  IInv'
<1>1. toReceiver # <<>> /\ Msg("receiver").kind # "entry"
  BY DEF SkippedArrives, Arrives, Msg, toReceiver
<1>2. Moves("listening")
  BY DEF SkippedArrives, Moves, IInv, Holds, Receivers
<1> QED
  BY <1>1, <1>2, ResultKeeps DEF SkippedArrives, partVars

LEMMA ReceiverFailsKeeps ==
  ASSUME IInv, receiver.phase = "listening", budget > 0, budget' = budget - 1,
         Moves("idle"), Fails("receiver"), UNCHANGED wire,
         UNCHANGED <<sourceVars, sendVars, partVars, fileVars, up, cancelled, byUser>>
  PROVE  IInv'
<1> USE DEF IInv, sourceVars, sendVars, partVars, fileVars, cancelVars
<1>1. Wires' /\ toSender' = toSender /\ toReceiver' = toReceiver
  BY WireStays DEF Holds
<1>2. /\ Len(toSender) \in Nat /\ Len(toReceiver) \in Nat
      /\ sender.offset \in 0..Blocks /\ sender.phase \in SenderPhases
      /\ receiver.phase \in ReceiverPhases
      /\ part # Nothing =>
           part \in Parts /\ part.data \in Seq(Values) /\ part.synced \in Nat /\ Data \in Nat
      /\ ledger # Nothing =>
           /\ ledger \in Ledgers /\ ledger.records \in Seq(Values)
           /\ ledger.synced \in Nat /\ Records \in Nat
      /\ meta # Nothing => meta \in Names /\ meta.root \in Contents
  BY Sizes
<1>3. budget' \in Nat /\ stamp + budget' <= Budget
  BY BudgetAssumption DEF Holds, Disturb
<1>4. cancels' \in SUBSET Ends
  BY DEF Holds, Fails, Active, Ends, Other
<1>5. receiver' \in Receivers /\ receiver'.phase = "idle" /\ receiver'.root = receiver.root
  BY ReceiverMoves DEF Holds, ReceiverPhases
<1>6. Holds'
  BY <1>1, <1>2, <1>3, <1>4, <1>5, BlocksAssumption DEF Holds
<1>7. Scan'
  BY <1>1, <1>2, <1>3, <1>4, <1>5 DEF Holds, Scan
<1>8. Roots'
  BY <1>1, <1>2, <1>3, <1>4, <1>5 DEF Holds, Roots
<1>9. Opening'
  BY <1>1, <1>2, <1>3, <1>4, <1>5 DEF Holds, Opening, Early
<1>10. Traffic'
  BY <1>1, <1>2, <1>3, <1>4, <1>5
    DEF Holds, Traffic, Load, SenderLeft, ReceiverLeft, Busy, Early
<1>11. Shelf'
  BY <1>1, <1>2, <1>3, <1>4, <1>5 DEF Holds, Shelf, Data, Records, Engaged
<1>12. Proofs'
  BY <1>1, <1>2, <1>3, <1>4, <1>5 DEF Holds, Proofs, Proved, TornAt, Records, Engaged
<1>13. Acked'
  BY <1>1, <1>2, <1>3, <1>4, <1>5 DEF Holds, Acked, Engaged, Shelf
<1>14. Heard'
  BY <1>1, <1>2, <1>3, <1>4, <1>5 DEF Holds, Heard
<1> QED
  BY <1>6, <1>7, <1>8, <1>9, <1>10, <1>11, <1>12, <1>13, <1>14 DEF IInv

LEMMA ReceiverTimesOutKeeps ==
  ASSUME IInv, ReceiverTimesOut
  PROVE  IInv'
<1>1. budget' \in Nat /\ budget' <= budget
  BY DEF IInv, Holds, ReceiverTimesOut
<1>2. CASE receiver.phase \in {"wait", "closing"}
  <2>1. part' \in {part, Preserved} /\ Moves("listening") /\ toReceiver = <<>>
    BY <1>2 DEF ReceiverTimesOut, EntryFails, toReceiver
  <2> QED
    BY <1>1, <1>2, <2>1, ReportKeeps DEF ReceiverTimesOut, cancelVars
<1>3. CASE receiver.phase = "listening"
  BY <1>3, ReceiverFailsKeeps DEF ReceiverTimesOut, partVars
<1> QED
  BY <1>2, <1>3 DEF ReceiverTimesOut

LEMMA StrayArrivesKeeps ==
  ASSUME IInv, StrayArrives
  PROVE  IInv'
<1> USE DEF IInv, sourceVars, sendVars, partVars, fileVars, cancelVars, StrayArrives
<1>1. toReceiver # <<>>
  BY DEF toReceiver
<1>2. Wires' /\ toReceiver' = Tail(toReceiver) /\ toSender' = toSender
  BY <1>1, ReceiverConsumes DEF Holds
<1>3. /\ Len(toReceiver) \in Nat \ {0} /\ Len(Tail(toReceiver)) = Len(toReceiver) - 1
      /\ Msg("receiver") = toReceiver[1] /\ Msg("receiver") \in ToReceiver
      /\ \A i \in 1..Len(Tail(toReceiver)) : i + 1 \in 1..Len(toReceiver) /\ Tail(toReceiver)[i] = toReceiver[i + 1]
  BY <1>1, TailOf DEF Holds, Wires, Msg, toReceiver
<1>4. /\ Len(toSender) \in Nat /\ Len(toReceiver) \in Nat
      /\ sender.offset \in 0..Blocks /\ sender.phase \in SenderPhases
      /\ receiver.phase \in ReceiverPhases
      /\ part # Nothing =>
           part \in Parts /\ part.data \in Seq(Values) /\ part.synced \in Nat /\ Data \in Nat
      /\ ledger # Nothing =>
           /\ ledger \in Ledgers /\ ledger.records \in Seq(Values)
           /\ ledger.synced \in Nat /\ Records \in Nat
      /\ meta # Nothing => meta \in Names /\ meta.root \in Contents
  BY Sizes
<1>5. /\ toReceiver \in Seq(Later) => Tail(toReceiver) \in Seq(Later)
      /\ Len(toReceiver) = 1 => Tail(toReceiver) \in Seq(Later)
  BY <1>1, TailLater DEF Holds
<1>6. cancels' \in SUBSET Ends
  BY DEF Holds, Fails, Active, Ends, Other
<1>7. receiver' \in Receivers /\ receiver'.phase = "idle" /\ receiver'.root = receiver.root
  BY ReceiverMoves DEF Holds, ReceiverPhases
<1>8. Holds'
  BY <1>1, <1>2, <1>3, <1>4, <1>5, <1>6, <1>7, BlocksAssumption DEF Holds
<1>9. Scan'
  BY <1>1, <1>2, <1>3, <1>4, <1>5, <1>6, <1>7 DEF Holds, Scan
<1>10. Roots'
  BY <1>1, <1>2, <1>3, <1>4, <1>5, <1>6, <1>7 DEF Holds, Roots
<1>11. Opening'
  BY <1>1, <1>2, <1>3, <1>4, <1>5, <1>6, <1>7 DEF Holds, Opening, Early
<1>12. Traffic'
  BY <1>1, <1>2, <1>3, <1>4, <1>5, <1>6, <1>7
    DEF Holds, Traffic, Load, SenderLeft, ReceiverLeft, Busy, Early
<1>13. Shelf'
  BY <1>1, <1>2, <1>3, <1>4, <1>5, <1>6, <1>7 DEF Holds, Shelf, Data, Records, Engaged
<1>14. Proofs'
  BY <1>1, <1>2, <1>3, <1>4, <1>5, <1>6, <1>7
    DEF Holds, Proofs, Proved, TornAt, Records, Engaged
<1>15. Acked'
  BY <1>1, <1>2, <1>3, <1>4, <1>5, <1>6, <1>7 DEF Holds, Acked, Engaged, Shelf
<1>16. Heard'
  BY <1>1, <1>2, <1>3, <1>4, <1>5, <1>6, <1>7 DEF Holds, Heard
<1> QED
  BY <1>8, <1>9, <1>10, <1>11, <1>12, <1>13, <1>14, <1>15, <1>16 DEF IInv

LEMMA TaskEndsKeeps ==
  ASSUME IInv, TaskEnds
  PROVE  IInv'
<1> USE DEF IInv, sourceVars, sendVars, partVars, fileVars, cancelVars, TaskEnds
<1>1. Wires' /\ toSender' = toSender /\ toReceiver' = toReceiver
  BY WireStays DEF Holds
<1>2. /\ Len(toSender) \in Nat /\ Len(toReceiver) \in Nat
      /\ sender.offset \in 0..Blocks /\ sender.phase \in SenderPhases
      /\ receiver.phase \in ReceiverPhases
      /\ part # Nothing =>
           part \in Parts /\ part.data \in Seq(Values) /\ part.synced \in Nat /\ Data \in Nat
      /\ ledger # Nothing =>
           /\ ledger \in Ledgers /\ ledger.records \in Seq(Values)
           /\ ledger.synced \in Nat /\ Records \in Nat
      /\ meta # Nothing => meta \in Names /\ meta.root \in Contents
  BY Sizes
<1>3. receiver' \in Receivers /\ receiver'.phase = "idle" /\ receiver'.root = receiver.root
  BY ReceiverMoves DEF Holds, ReceiverPhases
<1>4. Holds'
  BY <1>1, <1>2, <1>3, BlocksAssumption DEF Holds
<1>5. Scan'
  BY <1>1, <1>2, <1>3 DEF Holds, Scan
<1>6. Roots'
  BY <1>1, <1>2, <1>3 DEF Holds, Roots
<1>7. Opening'
  BY <1>1, <1>2, <1>3 DEF Holds, Opening, Early
<1>8. Traffic'
  BY <1>1, <1>2, <1>3 DEF Holds, Traffic, Load, SenderLeft, ReceiverLeft, Busy, Early
<1>9. Shelf'
  BY <1>1, <1>2, <1>3 DEF Holds, Shelf, Data, Records, Engaged
<1>10. Proofs'
  BY <1>1, <1>2, <1>3 DEF Holds, Proofs, Proved, TornAt, Records, Engaged
<1>11. Acked'
  BY <1>1, <1>2, <1>3 DEF Holds, Acked, Engaged, Shelf
<1>12. Heard'
  BY <1>1, <1>2, <1>3 DEF Holds, Heard
<1> QED
  BY <1>4, <1>5, <1>6, <1>7, <1>8, <1>9, <1>10, <1>11, <1>12 DEF IInv

LEMMA ReceiverGivesUpKeeps ==
  ASSUME IInv, ReceiverGivesUp
  PROVE  IInv'
<1> USE DEF IInv, sourceVars, sendVars, partVars, fileVars, cancelVars, ReceiverGivesUp
<1>1. Wires' /\ toSender' = toSender /\ toReceiver' = toReceiver
  BY WireStays DEF Holds
<1>2. /\ Len(toSender) \in Nat /\ Len(toReceiver) \in Nat
      /\ sender.offset \in 0..Blocks /\ sender.phase \in SenderPhases
      /\ receiver.phase \in ReceiverPhases
      /\ part # Nothing =>
           part \in Parts /\ part.data \in Seq(Values) /\ part.synced \in Nat /\ Data \in Nat
      /\ ledger # Nothing =>
           /\ ledger \in Ledgers /\ ledger.records \in Seq(Values)
           /\ ledger.synced \in Nat /\ Records \in Nat
      /\ meta # Nothing => meta \in Names /\ meta.root \in Contents
  BY Sizes
<1>3. /\ Preserved \in {Nothing} \cup Parts
      /\ Preserved = Nothing <=> part = Nothing
      /\ part # Nothing => Preserved.data = part.data /\ Preserved.synced = Data
  BY PreservedPart
<1>4. cancels' \in SUBSET Ends
  BY DEF Holds, Fails, Active, Ends, Other
<1>5. receiver' \in Receivers /\ receiver'.phase = "idle" /\ receiver'.root = receiver.root
  BY ReceiverMoves DEF Holds, ReceiverPhases
<1>6. /\ part' \in {Nothing} \cup Parts /\ (part' # Nothing => part # Nothing)
      /\ part' # Nothing => part'.data = part.data /\ part'.synced \in {part.synced, Data}
  BY <1>2, <1>3 DEF Holds
<1>7. Holds'
  BY <1>1, <1>2, <1>3, <1>4, <1>5, <1>6, BlocksAssumption DEF Holds
<1>8. Scan'
  BY <1>1, <1>2, <1>3, <1>4, <1>5, <1>6 DEF Holds, Scan
<1>9. Roots'
  BY <1>1, <1>2, <1>3, <1>4, <1>5, <1>6 DEF Holds, Roots
<1>10. Opening'
  BY <1>1, <1>2, <1>3, <1>4, <1>5, <1>6 DEF Holds, Opening, Early
<1>11. Traffic'
  BY <1>1, <1>2, <1>3, <1>4, <1>5, <1>6
    DEF Holds, Traffic, Load, SenderLeft, ReceiverLeft, Busy, Early
<1>12. Shelf'
  BY <1>1, <1>2, <1>3, <1>4, <1>5, <1>6 DEF Holds, Shelf, Data, Records, Engaged
<1>13. Proofs'
  BY <1>6, <1>5, ProofsKept DEF Engaged
<1>14. Acked'
  BY <1>1, <1>2, <1>3, <1>4, <1>5, <1>6 DEF Holds, Acked, Engaged, Shelf
<1>15. Heard'
  BY <1>1, <1>2, <1>3, <1>4, <1>5, <1>6 DEF Holds, Heard
<1> QED
  BY <1>7, <1>8, <1>9, <1>10, <1>11, <1>12, <1>13, <1>14, <1>15 DEF IInv

-----------------------------------------------------------------------------
(* Disturbances.                                                           *)

LEMMA SessionEndsKeeps ==
  ASSUME IInv, SessionEnds
  PROVE  IInv'
<1> USE DEF IInv, sourceVars, sendVars, partVars, fileVars, cancelVars, SessionEnds,
        SessionOver, Disturb
<1>1. Wires' /\ toSender' = <<>> /\ toReceiver' = <<>> /\ Len(<<>>) = 0
  BY WireCleared, EmptySeq DEF SessionOver
<1>2. /\ Len(toSender) \in Nat /\ Len(toReceiver) \in Nat
      /\ sender.offset \in 0..Blocks /\ sender.phase \in SenderPhases
      /\ receiver.phase \in ReceiverPhases
      /\ part # Nothing =>
           part \in Parts /\ part.data \in Seq(Values) /\ part.synced \in Nat /\ Data \in Nat
      /\ ledger # Nothing =>
           /\ ledger \in Ledgers /\ ledger.records \in Seq(Values)
           /\ ledger.synced \in Nat /\ Records \in Nat
      /\ meta # Nothing => meta \in Names /\ meta.root \in Contents
  BY Sizes
<1>3. budget' \in Nat /\ stamp + budget' <= Budget
  BY BudgetAssumption DEF Holds, Disturb
<1>4. cancels' \in SUBSET Ends
  OBVIOUS
<1>5. <<>> \in Seq(Later)
  BY EmptySeq
<1>6. Holds'
  BY <1>1, <1>2, <1>3, <1>4, <1>5, BlocksAssumption DEF Holds
<1>7. Scan'
  BY <1>1, <1>2, <1>3, <1>4, <1>5 DEF Holds, Scan
<1>8. Roots'
  BY <1>1, <1>2, <1>3, <1>4, <1>5 DEF Holds, Roots
<1>9. Opening'
  BY <1>1, <1>2, <1>3, <1>4, <1>5 DEF Holds, Opening, Early
<1>10. Traffic'
  BY <1>1, <1>2, <1>3, <1>4, <1>5
    DEF Holds, Traffic, Load, SenderLeft, ReceiverLeft, Busy, Early
<1>11. Shelf'
  BY <1>1, <1>2, <1>3, <1>4, <1>5 DEF Holds, Shelf, Data, Records, Engaged
<1>12. Proofs'
  BY <1>1, <1>2, <1>3, <1>4, <1>5 DEF Holds, Proofs, Proved, TornAt, Records, Engaged
<1>13. Acked'
  BY <1>1, <1>2, <1>3, <1>4, <1>5 DEF Holds, Acked, Engaged, Shelf
<1>14. Heard'
  BY <1>1, <1>2, <1>3, <1>4, <1>5 DEF Holds, Heard
<1> QED
  BY <1>6, <1>7, <1>8, <1>9, <1>10, <1>11, <1>12, <1>13, <1>14 DEF IInv

LEMMA KillSenderKeeps ==
  ASSUME IInv, KillSender
  PROVE  IInv'
<1> USE DEF IInv, sourceVars, sendVars, partVars, fileVars, cancelVars, KillSender, SessionOver,
        Disturb
<1>1. Wires' /\ toSender' = <<>> /\ toReceiver' = <<>> /\ Len(<<>>) = 0
  BY WireCleared, EmptySeq DEF SessionOver
<1>2. /\ Len(toSender) \in Nat /\ Len(toReceiver) \in Nat
      /\ sender.offset \in 0..Blocks /\ sender.phase \in SenderPhases
      /\ receiver.phase \in ReceiverPhases
      /\ part # Nothing =>
           part \in Parts /\ part.data \in Seq(Values) /\ part.synced \in Nat /\ Data \in Nat
      /\ ledger # Nothing =>
           /\ ledger \in Ledgers /\ ledger.records \in Seq(Values)
           /\ ledger.synced \in Nat /\ Records \in Nat
      /\ meta # Nothing => meta \in Names /\ meta.root \in Contents
  BY Sizes
<1>3. budget' \in Nat /\ stamp + budget' <= Budget
  BY BudgetAssumption DEF Holds, Disturb
<1>4. cancels' \in SUBSET Ends
  OBVIOUS
<1>5. <<>> \in Seq(Later)
  BY EmptySeq
<1>6. /\ sender' \in Senders /\ sender'.phase = "idle" /\ sender'.offset = 0
      /\ Len(sender'.scanned) = 0
  BY FreshSender DEF SenderPhases
<1>7. Holds'
  <2>1. (/\ source \in Contents /\ versions \in SUBSET Contents /\ source \in versions
         /\ stamp \in Nat /\ budget \in Nat /\ stamp + budget <= Budget)'
    BY <1>3 DEF Holds
  <2>2. (/\ told \in BOOLEAN /\ delivered \in BOOLEAN /\ up \in BOOLEAN /\ byUser \in BOOLEAN
         /\ part \in {Nothing} \cup Parts /\ ledger \in {Nothing} \cup Ledgers
         /\ meta \in {Nothing} \cup Names /\ file \in {Nothing, Foreign} \cup Contents
         /\ manifest \in {Nothing} \cup Nat
         /\ index \in {Nothing, Junk} \cup Indexes \cup Unfinished)'
    BY DEF Holds
  <2> QED
    BY <1>1, <1>4, <1>6, <2>1, <2>2, BlocksAssumption DEF Holds
<1>8. Scan'
  BY <1>1, <1>2, <1>3, <1>4, <1>5, <1>6 DEF Holds, Scan
<1>9. Roots'
  BY <1>1, <1>2, <1>3, <1>4, <1>5, <1>6 DEF Holds, Roots
<1>10. Opening'
  BY <1>1, <1>2, <1>3, <1>4, <1>5, <1>6 DEF Holds, Opening, Early
<1>11. Traffic'
  BY <1>1, <1>2, <1>3, <1>4, <1>5, <1>6
    DEF Holds, Traffic, Load, SenderLeft, ReceiverLeft, Busy, Early
<1>12. Shelf'
  BY <1>1, <1>2, <1>3, <1>4, <1>5, <1>6 DEF Holds, Shelf, Data, Records, Engaged
<1>13. Proofs'
  BY <1>1, <1>2, <1>3, <1>4, <1>5, <1>6 DEF Holds, Proofs, Proved, TornAt, Records, Engaged
<1>14. Acked'
  BY <1>1, <1>2, <1>3, <1>4, <1>5, <1>6 DEF Holds, Acked, Engaged, Shelf
<1>15. Heard'
  BY <1>1, <1>2, <1>3, <1>4, <1>5, <1>6 DEF Holds, Heard
<1> QED
  BY <1>7, <1>8, <1>9, <1>10, <1>11, <1>12, <1>13, <1>14, <1>15 DEF IInv

\* Whatever a crash leaves, what was synced is there, and what is there and is
\* not junk was written.
LEMMA TornOf ==
  ASSUME NEW s \in Seq(Values), NEW n \in 0..Len(s), NEW d \in Torn(s, n)
  PROVE  /\ d \in Seq(Values) /\ Len(d) \in n..Len(s)
         /\ \A i \in 1..n : d[i] = s[i]
         /\ \A i \in 1..Len(d) : d[i] = s[i] \/ (i > n /\ d[i] = Junk)
<1>0. Len(s) \in Nat
  BY LenProperties
<1>1. CASE d = s
  BY <1>0, <1>1
<1>2. CASE d = SubSeq(s, 1, n)
  BY <1>0, <1>2, FirstOf
<1>3. CASE Len(s) > n /\ d = Append(SubSeq(s, 1, n), Junk)
  <2>1. /\ SubSeq(s, 1, n) \in Seq(Values) /\ Len(SubSeq(s, 1, n)) = n
        /\ \A i \in 1..n : SubSeq(s, 1, n)[i] = s[i]
    BY FirstOf
  <2>2. Junk \in Values
    BY DEF Values
  <2>3. /\ d \in Seq(Values) /\ Len(d) = n + 1 /\ d[n + 1] = Junk
        /\ \A i \in 1..n : d[i] = SubSeq(s, 1, n)[i]
    BY <1>3, <2>1, <2>2, Appended
  <2> QED
    BY <1>0, <1>3, <2>1, <2>3
<1> QED
  BY <1>1, <1>2, <1>3 DEF Torn

LEMMA KillReceiverKeeps ==
  ASSUME IInv, KillReceiver
  PROVE  IInv'
<1> USE DEF IInv, sourceVars, sendVars, partVars, fileVars, cancelVars, KillReceiver,
        SessionOver, Disturb
<1>1. Wires' /\ toSender' = <<>> /\ toReceiver' = <<>> /\ Len(<<>>) = 0
  BY WireCleared, EmptySeq DEF SessionOver
<1>2. /\ Len(toSender) \in Nat /\ Len(toReceiver) \in Nat
      /\ sender.offset \in 0..Blocks /\ sender.phase \in SenderPhases
      /\ receiver.phase \in ReceiverPhases
      /\ part # Nothing =>
           part \in Parts /\ part.data \in Seq(Values) /\ part.synced \in Nat /\ Data \in Nat
      /\ ledger # Nothing =>
           /\ ledger \in Ledgers /\ ledger.records \in Seq(Values)
           /\ ledger.synced \in Nat /\ Records \in Nat
      /\ meta # Nothing => meta \in Names /\ meta.root \in Contents
  BY Sizes
<1>3. budget' \in Nat /\ stamp + budget' <= Budget
  BY BudgetAssumption DEF Holds, Disturb
<1>4. cancels' \in SUBSET Ends
  OBVIOUS
<1>5. <<>> \in Seq(Later)
  BY EmptySeq
<1>6. receiver' \in Receivers /\ receiver'.phase = "idle" /\ receiver'.root = receiver.root
  BY ReceiverMoves DEF Holds, ReceiverPhases
<1>7. \/ part = Nothing /\ part' = Nothing
      \/ /\ part # Nothing /\ part' \in Parts /\ part' # Nothing /\ part'.synced = part.synced
         /\ Len(part'.data) \in part.synced..Data
         /\ \A i \in 1..part.synced : part'.data[i] = part.data[i]
  <2>1. CASE part = Nothing
    BY <2>1
  <2>2. CASE part # Nothing
    <3>1. part \in Parts /\ part.data \in Seq(Values) /\ part.synced \in 0..Len(part.data)
      BY <1>2, <2>2 DEF Shelf, Data
    <3>2. PICK d \in Torn(part.data, part.synced) : part' = [part EXCEPT !.data = d]
      BY <2>2
    <3>3. /\ d \in Seq(Values) /\ Len(d) \in part.synced..Data
          /\ \A i \in 1..part.synced : d[i] = part.data[i]
      BY <3>1, TornOf DEF Data
    <3> QED
      BY <2>2, <3>1, <3>2, <3>3, PartWith
  <2> QED
    BY <2>1, <2>2
<1>8. \/ ledger = Nothing /\ ledger' = Nothing
      \/ /\ ledger # Nothing /\ ledger' \in Ledgers /\ ledger' # Nothing /\ ledger'.synced = ledger.synced
         /\ Len(ledger'.records) \in ledger.synced..Records
         /\ \A i \in 1..ledger.synced : ledger'.records[i] = ledger.records[i]
         /\ \A i \in 1..Len(ledger'.records) :
              \/ ledger'.records[i] = ledger.records[i]
              \/ i > ledger.synced /\ ledger'.records[i] = Junk
  <2>1. CASE ledger = Nothing
    BY <2>1
  <2>2. CASE ledger # Nothing
    <3>1. ledger \in Ledgers /\ ledger.records \in Seq(Values) /\ ledger.synced \in 0..Len(ledger.records)
      BY <1>2, <2>2 DEF Shelf, Records
    <3>2. PICK r \in Torn(ledger.records, ledger.synced) : ledger' = [ledger EXCEPT !.records = r]
      BY <2>2
    <3>3. /\ r \in Seq(Values) /\ Len(r) \in ledger.synced..Records
          /\ \A i \in 1..ledger.synced : r[i] = ledger.records[i]
          /\ \A i \in 1..Len(r) : r[i] = ledger.records[i] \/ (i > ledger.synced /\ r[i] = Junk)
      BY <3>1, TornOf DEF Records
    <3>4. /\ ledger' \in Ledgers /\ ledger' # Nothing
          /\ ledger'.records = r /\ ledger'.synced = ledger.synced
      BY <3>1, <3>2, <3>3, LedgerWith
    <3> QED
      BY <2>2, <3>3, <3>4
  <2> QED
    BY <2>1, <2>2
<1>9. Holds'
  BY <1>1, <1>2, <1>3, <1>4, <1>5, <1>6, <1>7, <1>8, BlocksAssumption DEF Holds
<1>10. Scan'
  BY <1>1, <1>2, <1>3, <1>4, <1>5, <1>6, <1>7, <1>8 DEF Holds, Scan
<1>11. Roots'
  BY <1>1, <1>2, <1>3, <1>4, <1>5, <1>6, <1>7, <1>8 DEF Holds, Roots
<1>12. Opening'
  BY <1>1, <1>2, <1>3, <1>4, <1>5, <1>6, <1>7, <1>8 DEF Holds, Opening, Early
<1>13. Traffic'
  BY <1>1, <1>2, <1>3, <1>4, <1>5, <1>6, <1>7, <1>8
    DEF Holds, Traffic, Load, SenderLeft, ReceiverLeft, Busy, Early
<1>14. Shelf'
  BY SMTT(30), <1>1, <1>2, <1>3, <1>4, <1>5, <1>6, <1>7, <1>8, BlocksAssumption
    DEF Holds, Shelf, Data, Records, Engaged, Early
<1>15. Proofs'
  <2>1. SUFFICES ASSUME part # Nothing, ledger # Nothing, NEW i \in 1..Len(ledger'.records)
                PROVE  Proved(i)' \/ TornAt(i)'
    BY <1>7, <1>8 DEF Proofs, Records
  <2>2. i \in 1..Records /\ (Proved(i) \/ TornAt(i)) /\ part.synced \in Nat /\ ledger.synced \in Nat
    BY <1>2, <1>8, <2>1 DEF Proofs
  <2>3. CASE i > ledger.synced /\ ledger'.records[i] = Junk
    BY <1>6, <1>8, <2>1, <2>3 DEF TornAt, Engaged
  <2>4. CASE ledger'.records[i] = ledger.records[i] /\ Proved(i)
    BY <1>7, <1>8, <2>1, <2>2, <2>4 DEF Proved
  <2>5. CASE ledger'.records[i] = ledger.records[i] /\ TornAt(i)
    BY <1>6, <1>8, <2>1, <2>5 DEF TornAt, Engaged
  <2> QED
    BY <1>8, <2>1, <2>2, <2>3, <2>4, <2>5
<1>16. Acked'
  BY <1>1, <1>2, <1>3, <1>4, <1>5, <1>6, <1>7, <1>8 DEF Holds, Acked, Engaged, Shelf
<1>17. Heard'
  BY <1>1, <1>2, <1>3, <1>4, <1>5, <1>6, <1>7, <1>8 DEF Holds, Heard
<1> QED
  BY <1>9, <1>10, <1>11, <1>12, <1>13, <1>14, <1>15, <1>16, <1>17 DEF IInv

LEMMA UserCancelsKeeps ==
  ASSUME IInv, NEW e \in Ends, UserCancels(e)
  PROVE  IInv'
<1> USE DEF IInv, sourceVars, sendVars, partVars, fileVars, cancelVars, UserCancels, Disturb
<1>1. Wires' /\ toSender' = toSender /\ toReceiver' = toReceiver
  BY WireStays DEF Holds
<1>2. /\ Len(toSender) \in Nat /\ Len(toReceiver) \in Nat
      /\ sender.offset \in 0..Blocks /\ sender.phase \in SenderPhases
      /\ receiver.phase \in ReceiverPhases
      /\ part # Nothing =>
           part \in Parts /\ part.data \in Seq(Values) /\ part.synced \in Nat /\ Data \in Nat
      /\ ledger # Nothing =>
           /\ ledger \in Ledgers /\ ledger.records \in Seq(Values)
           /\ ledger.synced \in Nat /\ Records \in Nat
      /\ meta # Nothing => meta \in Names /\ meta.root \in Contents
  BY Sizes
<1>3. budget' \in Nat /\ stamp + budget' <= Budget
  BY BudgetAssumption DEF Holds, Disturb
<1>4. cancelled' \in SUBSET Ends /\ cancels' \in SUBSET Ends
  BY DEF Holds, Ends, Other, Active
<1>5. Holds'
  BY <1>1, <1>2, <1>3, <1>4, BlocksAssumption DEF Holds
<1>6. Scan'
  BY <1>1, <1>2, <1>3, <1>4 DEF Holds, Scan
<1>7. Roots'
  BY <1>1, <1>2, <1>3, <1>4 DEF Holds, Roots
<1>8. Opening'
  BY <1>1, <1>2, <1>3, <1>4 DEF Holds, Opening, Early
<1>9. Traffic'
  BY <1>1, <1>2, <1>3, <1>4 DEF Holds, Traffic, Load, SenderLeft, ReceiverLeft, Busy, Early
<1>10. Shelf'
  BY <1>1, <1>2, <1>3, <1>4 DEF Holds, Shelf, Data, Records, Engaged
<1>11. Proofs'
  BY <1>1, <1>2, <1>3, <1>4 DEF Holds, Proofs, Proved, TornAt, Records, Engaged
<1>12. Acked'
  BY <1>1, <1>2, <1>3, <1>4 DEF Holds, Acked, Engaged, Shelf
<1>13. Heard'
  BY <1>1, <1>2, <1>3, <1>4 DEF Holds, Heard
<1> QED
  BY <1>5, <1>6, <1>7, <1>8, <1>9, <1>10, <1>11, <1>12, <1>13 DEF IInv

LEMMA CancelArrivesKeeps ==
  ASSUME IInv, NEW e \in Ends, CancelArrives(e)
  PROVE  IInv'
<1> USE DEF IInv, sourceVars, sendVars, partVars, fileVars, cancelVars, CancelArrives
<1>1. Wires' /\ toSender' = toSender /\ toReceiver' = toReceiver
  BY WireStays DEF Holds
<1>2. /\ Len(toSender) \in Nat /\ Len(toReceiver) \in Nat
      /\ sender.offset \in 0..Blocks /\ sender.phase \in SenderPhases
      /\ receiver.phase \in ReceiverPhases
      /\ part # Nothing =>
           part \in Parts /\ part.data \in Seq(Values) /\ part.synced \in Nat /\ Data \in Nat
      /\ ledger # Nothing =>
           /\ ledger \in Ledgers /\ ledger.records \in Seq(Values)
           /\ ledger.synced \in Nat /\ Records \in Nat
      /\ meta # Nothing => meta \in Names /\ meta.root \in Contents
  BY Sizes
<1>3. cancelled' \in SUBSET Ends /\ cancels' \in SUBSET Ends
  BY DEF Holds, Ends, Active
<1>4. Holds'
  BY <1>1, <1>2, <1>3, BlocksAssumption DEF Holds
<1>5. Scan'
  BY <1>1, <1>2, <1>3 DEF Holds, Scan
<1>6. Roots'
  BY <1>1, <1>2, <1>3 DEF Holds, Roots
<1>7. Opening'
  BY <1>1, <1>2, <1>3 DEF Holds, Opening, Early
<1>8. Traffic'
  BY <1>1, <1>2, <1>3 DEF Holds, Traffic, Load, SenderLeft, ReceiverLeft, Busy, Early
<1>9. Shelf'
  BY <1>1, <1>2, <1>3 DEF Holds, Shelf, Data, Records, Engaged
<1>10. Proofs'
  BY <1>1, <1>2, <1>3 DEF Holds, Proofs, Proved, TornAt, Records, Engaged
<1>11. Acked'
  BY <1>1, <1>2, <1>3 DEF Holds, Acked, Engaged, Shelf
<1>12. Heard'
  BY <1>1, <1>2, <1>3 DEF Holds, Heard
<1> QED
  BY <1>4, <1>5, <1>6, <1>7, <1>8, <1>9, <1>10, <1>11, <1>12 DEF IInv

LEMMA EditSourceKeeps ==
  ASSUME IInv, NEW i \in 1..Blocks, EditSource(i)
  PROVE  IInv'
<1> USE DEF IInv, sourceVars, sendVars, partVars, fileVars, cancelVars, EditSource, Disturb
<1>1. Wires' /\ toSender' = toSender /\ toReceiver' = toReceiver
  BY WireStays DEF Holds
<1>2. /\ Len(toSender) \in Nat /\ Len(toReceiver) \in Nat
      /\ sender.offset \in 0..Blocks /\ sender.phase \in SenderPhases
      /\ receiver.phase \in ReceiverPhases
      /\ part # Nothing =>
           part \in Parts /\ part.data \in Seq(Values) /\ part.synced \in Nat /\ Data \in Nat
      /\ ledger # Nothing =>
           /\ ledger \in Ledgers /\ ledger.records \in Seq(Values)
           /\ ledger.synced \in Nat /\ Records \in Nat
      /\ meta # Nothing => meta \in Names /\ meta.root \in Contents
  BY Sizes
<1>3. /\ stamp' \in Nat /\ stamp' = stamp + 1 /\ stamp' \in 0..Budget
      /\ budget' \in Nat /\ stamp' + budget' <= Budget
  BY BudgetAssumption DEF Holds
<1>4. source' \in Contents /\ versions' \in SUBSET Contents /\ source' \in versions' /\ versions \subseteq versions'
  BY <1>3 DEF Holds, Contents
<1>5. sender.stamp \in Nat
  BY DEF Holds, Senders
<1>6. Holds'
  BY <1>1, <1>2, <1>3, <1>4, <1>5, BlocksAssumption DEF Holds
<1>7. Scan'
  BY <1>1, <1>2, <1>3, <1>4, <1>5 DEF Holds, Scan
<1>8. Roots'
  BY <1>1, <1>2, <1>3, <1>4, <1>5 DEF Holds, Roots
<1>9. Opening'
  BY <1>1, <1>2, <1>3, <1>4, <1>5 DEF Holds, Opening, Early
<1>10. Traffic'
  BY <1>1, <1>2, <1>3, <1>4, <1>5
    DEF Holds, Traffic, Load, SenderLeft, ReceiverLeft, Busy, Early
<1>11. Shelf'
  BY <1>1, <1>2, <1>3, <1>4, <1>5 DEF Holds, Shelf, Data, Records, Engaged
<1>12. Proofs'
  BY <1>1, <1>2, <1>3, <1>4, <1>5 DEF Holds, Proofs, Proved, TornAt, Records, Engaged
<1>13. Acked'
  BY <1>1, <1>2, <1>3, <1>4, <1>5 DEF Holds, Acked, Engaged, Shelf
<1>14. Heard'
  BY <1>1, <1>2, <1>3, <1>4, <1>5 DEF Holds, Heard
<1> QED
  BY <1>6, <1>7, <1>8, <1>9, <1>10, <1>11, <1>12, <1>13, <1>14 DEF IInv

LEMMA UserTakesNameKeeps ==
  ASSUME IInv, NEW content \in {Nothing, Foreign}, UserTakesName(content)
  PROVE  IInv'
<1> USE DEF IInv, sourceVars, sendVars, partVars, fileVars, cancelVars, UserTakesName, Disturb
<1>1. Wires' /\ toSender' = toSender /\ toReceiver' = toReceiver
  BY WireStays DEF Holds
<1>2. /\ Len(toSender) \in Nat /\ Len(toReceiver) \in Nat
      /\ sender.offset \in 0..Blocks /\ sender.phase \in SenderPhases
      /\ receiver.phase \in ReceiverPhases
      /\ part # Nothing =>
           part \in Parts /\ part.data \in Seq(Values) /\ part.synced \in Nat /\ Data \in Nat
      /\ ledger # Nothing =>
           /\ ledger \in Ledgers /\ ledger.records \in Seq(Values)
           /\ ledger.synced \in Nat /\ Records \in Nat
      /\ meta # Nothing => meta \in Names /\ meta.root \in Contents
  BY Sizes
<1>3. budget' \in Nat /\ stamp + budget' <= Budget
  BY BudgetAssumption DEF Holds, Disturb
<1>4. Holds'
  BY <1>1, <1>2, <1>3, BlocksAssumption DEF Holds
<1>5. Scan'
  BY <1>1, <1>2, <1>3 DEF Holds, Scan
<1>6. Roots'
  BY <1>1, <1>2, <1>3 DEF Holds, Roots
<1>7. Opening'
  BY <1>1, <1>2, <1>3 DEF Holds, Opening, Early
<1>8. Traffic'
  BY <1>1, <1>2, <1>3 DEF Holds, Traffic, Load, SenderLeft, ReceiverLeft, Busy, Early
<1>9. Shelf'
  BY <1>1, <1>2, <1>3 DEF Holds, Shelf, Data, Records, Engaged
<1>10. Proofs'
  BY <1>1, <1>2, <1>3 DEF Holds, Proofs, Proved, TornAt, Records, Engaged
<1>11. Acked'
  BY <1>1, <1>2, <1>3 DEF Holds, Acked, Engaged, Shelf
<1>12. Heard'
  BY <1>1, <1>2, <1>3 DEF Holds, Heard
<1> QED
  BY <1>4, <1>5, <1>6, <1>7, <1>8, <1>9, <1>10, <1>11, <1>12 DEF IInv

-----------------------------------------------------------------------------
(* The invariant.                                                          *)

LEMMA InitHolds ==
  ASSUME Init
  PROVE  IInv
<1> USE BlocksAssumption, BudgetAssumption
<1>1. Wires /\ toSender = <<>> /\ toReceiver = <<>> /\ Len(<<>>) = 0 /\ <<>> \in Seq(Later)
  <2>1. <<>> \in Seq(ToSender) /\ <<>> \in Seq(ToReceiver) /\ <<>> \in Seq(Later) /\ Len(<<>>) = 0
    BY EmptySeq
  <2>2. wire = [e \in Ends |-> <<>>]
    BY DEF Init
  <2>3. toSender = <<>> /\ toReceiver = <<>>
    BY <2>2 DEF Ends, toSender, toReceiver
  <2> QED
    BY <2>1, <2>2, <2>3, Joint DEF Wires
<1>2. /\ sender \in Senders /\ sender.phase = "idle" /\ sender.offset = 0 /\ Len(sender.scanned) = 0
  BY FreshSender DEF Init, SenderPhases
<1>3. receiver \in Receivers /\ receiver.phase = "idle"
  BY DEF Init, Receivers, ReceiverPhases
<1>4. /\ source \in Contents /\ versions \in SUBSET Contents /\ source \in versions
      /\ stamp \in Nat /\ budget \in Nat /\ stamp + budget <= Budget
  BY DEF Init, Contents
<1>5. cancelled \in SUBSET Ends /\ cancels \in SUBSET Ends
  BY DEF Init
<1>6. /\ manifest = Nothing /\ index = Nothing /\ meta = Nothing /\ part = Nothing /\ ledger = Nothing /\ file = Nothing
      /\ told = FALSE /\ delivered = FALSE /\ up = FALSE /\ byUser = FALSE
  BY DEF Init
<1>7. Holds
  <2>1. /\ manifest \in {Nothing} \cup Nat /\ meta \in {Nothing} \cup Names
        /\ index \in {Nothing, Junk} \cup Indexes \cup Unfinished
        /\ part \in {Nothing} \cup Parts /\ ledger \in {Nothing} \cup Ledgers
        /\ file \in {Nothing, Foreign} \cup Contents
        /\ told \in BOOLEAN /\ delivered \in BOOLEAN /\ up \in BOOLEAN /\ byUser \in BOOLEAN
    BY <1>6
  <2> QED
    BY <1>1, <1>2, <1>3, <1>4, <1>5, <2>1 DEF Holds
<1>8. Scan /\ Roots /\ Opening
  BY <1>1, <1>2, <1>3, <1>6 DEF Scan, Roots, Opening, Early
<1>9. Traffic
  BY <1>1, <1>3 DEF Traffic, Load, Busy, Early
<1>10. Shelf /\ Proofs /\ Acked /\ Heard
  BY <1>1, <1>3, <1>6 DEF Shelf, Proofs, Acked, Heard, Engaged
<1> QED
  BY <1>7, <1>8, <1>9, <1>10 DEF IInv

LEMMA StepKeeps ==
  ASSUME IInv, [Next]_vars
  PROVE  IInv'
<1>1. CASE Progress
  <2>1. ASSUME NEW e \in Ends, CancelArrives(e)
        PROVE  IInv'
    BY <2>1, CancelArrivesKeeps
  <2> QED
    BY <1>1, <2>1,
       StartAttemptKeeps, RecordManifestKeeps, VerifySourceKeeps, OpenIndexKeeps,
         ScanBlockKeeps, ScanEndsKeeps,
         DecisionArrivesKeeps, AckArrivesKeeps, ResultArrivesKeeps,
         UnexpectedArrivesKeeps, SenderGivesUpKeeps, EntryArrivesKeeps,
         CreatePartKeeps, DropLedgerKeeps, NamePartKeeps, OpenLedgerKeeps,
         WriteHeaderKeeps, BlockArrivesKeeps, SyncDataKeeps,
         AppendRecordKeeps, SyncRecordKeeps, CompleteArrivesKeeps,
         PublishKeeps, CompleteKeeps, AbortArrivesKeeps, SkippedArrivesKeeps,
         StrayArrivesKeeps, TaskEndsKeeps, ReceiverGivesUpKeeps
       DEF Progress
<1>2. CASE Disturbance
  <2>1. ASSUME NEW e \in Ends, UserCancels(e)
        PROVE  IInv'
    BY <2>1, UserCancelsKeeps
  <2>2. ASSUME NEW i \in 1..Blocks, EditSource(i)
        PROVE  IInv'
    BY <2>2, EditSourceKeeps
  <2>3. ASSUME NEW content \in {Nothing, Foreign}, UserTakesName(content)
        PROVE  IInv'
    BY <2>3, UserTakesNameKeeps
  <2> QED
    BY <1>2, <2>1, <2>2, <2>3, SenderTimesOutKeeps, ReceiverTimesOutKeeps, SessionEndsKeeps,
       KillSenderKeeps, KillReceiverKeeps DEF Disturbance
<1>3. CASE UNCHANGED vars
  <2> USE <1>3 DEF IInv, vars, sourceVars, sendVars, partVars, fileVars, cancelVars
  <2>1. Wires' /\ toSender' = toSender /\ toReceiver' = toReceiver
    BY WireStays DEF Holds
  <2>2. Holds' /\ Scan' /\ Roots' /\ Opening'
    BY <2>1 DEF Holds, Scan, Roots, Opening
  <2>3. Traffic'
    BY <2>1 DEF Traffic, Load, SenderLeft, ReceiverLeft
  <2>4. Shelf' /\ Proofs'
    BY DEF Shelf, Data, Records, Proofs, Proved, TornAt
  <2>5. Acked' /\ Heard'
    BY <2>1 DEF Acked, Heard
  <2> QED
    BY <2>2, <2>3, <2>4, <2>5
<1> QED
  BY <1>1, <1>2, <1>3 DEF Next

\* The inductive invariant holds in every state of every transfer.
THEOREM TransferInvariant == Spec => []IInv
<1> QED
  BY InitHolds, StepKeeps, PTL DEF Spec

-----------------------------------------------------------------------------
(* What the invariant says of the part file.                               *)

LEMMA InvariantTypes ==
  ASSUME IInv
  PROVE  TypeOK
<1> USE DEF IInv
<1>1. source \in versions /\ stamp \in 0..Budget /\ budget \in 0..Budget
  BY BudgetAssumption DEF Holds
<1>2. /\ sender.phase \in SenderPhases
      /\ sender.offset \in 0..Blocks /\ Len(sender.scanned) <= Blocks
  BY DEF Holds, Senders, SenderPhases
<1>3. receiver.phase \in ReceiverPhases
  BY Sizes
<1>4. /\ part # Nothing => part.synced <= Len(part.data) /\ Len(part.data) <= Blocks
      /\ ledger # Nothing => ledger.synced <= Len(ledger.records) /\ Len(ledger.records) <= Blocks
  BY DEF Shelf, Data, Records
<1>5. \A e \in Ends : Len(wire[e]) <= 2
  <2>1. Len(toSender) <= 2 /\ Len(toReceiver) <= 2
    BY Sizes DEF Traffic, Load
  <2> QED
    BY <2>1 DEF Ends, toSender, toReceiver
<1>6. {told, delivered, up, byUser} \subseteq BOOLEAN /\ cancelled \cup cancels \subseteq Ends
  BY DEF Holds
<1> QED
  BY <1>1, <1>2, <1>3, <1>4, <1>5, <1>6 DEF TypeOK, SenderPhases, ReceiverPhases

\* While a part is open, its ledger is the one that is behind.
LEMMA SafeIsLedger ==
  ASSUME IInv, receiver.phase \in Engaged
  PROVE  Safe = ledger.synced
  BY Sizes DEF IInv, Shelf, Engaged, Safe

LEMMA InvariantProof ==
  ASSUME IInv
  PROVE  AckIsDurable /\ RecordsProveData
<1>1. AckIsDurable
  <2>1. ASSUME receiver.phase \in Engaged
        PROVE  Safe >= sender.offset
    BY <2>1, SafeIsLedger, Sizes DEF IInv, Acked, Shelf
  <2> QED
    BY <2>1 DEF AckIsDurable, Engaged
<1>2. RecordsProveData
  <2>1. SUFFICES ASSUME part # Nothing, ledger # Nothing, NEW i \in 1..ledger.synced
                 PROVE  i <= Len(part.data) /\ part.data[i] = ledger.records[i]
    BY DEF RecordsProveData
  <2>2. part.synced \in Nat /\ ledger.synced \in Nat /\ Data \in Nat /\ Records \in Nat
    BY <2>1, Sizes DEF IInv
  <2>3. i \in 1..Records /\ ~TornAt(i)
    BY <2>1, <2>2 DEF IInv, Shelf, TornAt
  <2>4. Proved(i)
    BY <2>1, <2>3 DEF IInv, Proofs
  <2> QED
    BY <2>1, <2>2, <2>4 DEF IInv, Shelf, Proved, Data
<1> QED
  BY <1>1, <1>2

\* What was acknowledged survives a crash, and every record proves its block.
THEOREM PartStaysProved == Spec => []PartIsProved
<1>1. IInv => PartIsProved
  BY InvariantTypes, InvariantProof DEF PartIsProved
<1> QED
  BY <1>1, TransferInvariant, PTL

-----------------------------------------------------------------------------
(* Confirmed blocks last.                                                  *)

LEMMA SafeIsNat ==
  ASSUME IInv
  PROVE  Safe \in Nat
  BY Sizes DEF IInv, Safe

\* The blocks that survive are no fewer while part and ledger are synced further.
LEMMA SafeGrows ==
  ASSUME IInv,
         part # Nothing /\ ledger # Nothing =>
           /\ part' # Nothing /\ ledger' # Nothing
           /\ part'.synced \in Nat /\ part'.synced >= part.synced
           /\ ledger'.synced \in Nat /\ ledger'.synced >= ledger.synced,
         Safe' \in Nat
  PROVE  Kept
<1>1. Safe \in Nat
  BY SafeIsNat
<1> QED
  BY <1>1, Sizes DEF IInv, Safe, Kept

\* A step that leaves part and ledger alone, or syncs more of the part.
LEMMA PreservingKeeps ==
  ASSUME IInv, Safe' \in Nat, UNCHANGED ledger, part' \in {part, Preserved}
  PROVE  Kept
<1>1. part # Nothing => /\ part' # Nothing /\ part'.synced \in Nat /\ part'.synced >= part.synced
  BY PreservedPart, Sizes DEF IInv, Shelf
<1>2. ledger # Nothing => /\ ledger' # Nothing /\ ledger'.synced \in Nat /\ ledger'.synced >= ledger.synced
  BY Sizes DEF IInv
<1> QED
  BY <1>1, <1>2, SafeGrows

LEMMA FirstStepsKeep ==
  ASSUME IInv, Safe' \in Nat, CreatePart \/ DropLedger \/ NamePart \/ OpenLedger
  PROVE  Kept
<1>1. CASE CreatePart
  BY <1>1, SafeGrows DEF IInv, CreatePart, Shelf
<1>2. CASE DropLedger
  BY <1>2, SafeGrows DEF IInv, DropLedger, Shelf
<1>3. CASE NamePart
  BY <1>3, SafeGrows DEF IInv, NamePart, Shelf
<1>4. CASE OpenLedger
  <2>1. CASE ledger = Nothing
    BY <2>1, SafeGrows
  <2>2. CASE ledger # Nothing /\ Sound(ledger) /\ Len(part.data) >= Len(ledger.records)
    <3>1. /\ part \in Parts /\ part.data \in Seq(Values) /\ part.synced \in Nat
          /\ ledger \in Ledgers /\ ledger.records \in Seq(Values) /\ Records \in Nat
          /\ Records \in 0..Len(part.data) /\ ledger.synced \in Nat /\ ledger.synced <= Records
      BY <1>4, <2>2, Sizes DEF IInv, OpenLedger, Shelf, Data, Records
    <3>2. PICK d \in Seq(Values) : d = SubSeq(part.data, 1, Records)
      BY <3>1, FirstOf
    <3>3. part' = Adopted(Records) /\ ledger' = [ledger EXCEPT !.synced = Records]
      BY <1>4, <2>2 DEF OpenLedger, Records
    <3>4. part' # Nothing /\ part'.synced = Records
      BY <3>1, <3>2, <3>3, PartWith DEF Adopted
    <3>5. ledger' # Nothing /\ ledger'.synced = Records
      BY <3>1, <3>3, LedgerWith
    <3>6. Safe <= ledger.synced
      BY <3>1 DEF Safe
    <3>7. Safe' = Records
      BY <3>4, <3>5 DEF Safe
    <3> QED
      BY <3>1, <3>6, <3>7, SafeIsNat DEF Kept
  <2>3. CASE ledger # Nothing /\ ~(Sound(ledger) /\ Len(part.data) >= Len(ledger.records))
    BY <1>4, <2>3, PreservingKeeps DEF OpenLedger
  <2> QED
    BY <2>1, <2>2, <2>3
<1> QED
  BY <1>1, <1>2, <1>3, <1>4

LEMMA SyncStepsKeep ==
  ASSUME IInv, Safe' \in Nat,
         WriteHeader \/ BlockArrives \/ SyncData \/ AppendRecord \/ SyncRecord
  PROVE  Kept
<1>1. /\ ledger # Nothing => /\ ledger \in Ledgers /\ ledger.records \in Seq(Values)
                            /\ ledger.synced \in Nat /\ Records \in Nat /\ ledger.synced <= Records
      /\ part # Nothing => /\ part \in Parts /\ part.data \in Seq(Values)
                          /\ part.synced \in Nat /\ Data \in Nat /\ part.synced <= Data
  BY Sizes DEF IInv, Shelf
<1>2. CASE WriteHeader
  <2>1. ledger # Nothing => ledger' # Nothing /\ ledger'.synced = ledger.synced
    BY <1>1, <1>2, LedgerWith DEF WriteHeader
  <2> QED
    BY <1>1, <1>2, <2>1, SafeGrows DEF WriteHeader
<1>3. CASE BlockArrives
  <2>1. part # Nothing /\ Msg("receiver").value \in Values
    <3>1. Msg("receiver") \in ToReceiver /\ Msg("receiver").kind = "block"
      BY <1>3, TailOf DEF IInv, Holds, Wires, BlockArrives, Arrives, Msg, toReceiver
    <3> QED
      BY <1>3, <3>1, ReceiverMessage DEF IInv, Shelf, Engaged, BlockArrives, Values
  <2>2. PICK d : d = Append(part.data, Msg("receiver").value)
    OBVIOUS
  <2>3. d \in Seq(Values) /\ part' = [part EXCEPT !.data = d]
    BY <1>1, <1>3, <2>1, <2>2, Appended DEF BlockArrives, Parts
  <2>4. part' # Nothing /\ part'.synced = part.synced
    BY <1>1, <2>1, <2>3, PartWith
  <2> QED
    BY <1>1, <1>3, <2>4, SafeGrows DEF BlockArrives
<1>4. CASE SyncData
  <2>1. part # Nothing => part' # Nothing /\ part'.synced = Data
    BY <1>1, <1>4, PartWith DEF SyncData, Data
  <2> QED
    BY <1>1, <1>4, <2>1, SafeGrows DEF SyncData
<1>5. CASE AppendRecord
  <2>1. /\ part # Nothing /\ ledger # Nothing /\ part.data[Data] \in Values
    BY <1>1, <1>5, ElementOfSeq DEF IInv, Shelf, Engaged, AppendRecord, Data
  <2>2. PICK r : r = Append(ledger.records, part.data[Data])
    OBVIOUS
  <2>3. r \in Seq(Values) /\ ledger' = [ledger EXCEPT !.records = r]
    BY <1>1, <1>5, <2>1, <2>2, Appended DEF AppendRecord, Ledgers, Data
  <2>4. ledger' # Nothing /\ ledger'.synced = ledger.synced
    BY <1>1, <2>1, <2>3, LedgerWith
  <2> QED
    BY <1>1, <1>5, <2>4, SafeGrows DEF AppendRecord
<1>6. CASE SyncRecord
  <2>1. ledger # Nothing => ledger' # Nothing /\ ledger'.synced = Records
    BY <1>1, <1>6, LedgerWith DEF SyncRecord, Records
  <2> QED
    BY <1>1, <1>6, <2>1, SafeGrows DEF SyncRecord
<1> QED
  BY <1>2, <1>3, <1>4, <1>5, <1>6

LEMMA CrashKeeps ==
  ASSUME IInv, Safe' \in Nat, KillReceiver
  PROVE  Kept
<1>1. part # Nothing => part' # Nothing /\ part'.synced = part.synced /\ part.synced \in Nat
  <2>1. SUFFICES ASSUME part # Nothing
                 PROVE  part' # Nothing /\ part'.synced = part.synced /\ part.synced \in Nat
    OBVIOUS
  <2>2. /\ part \in Parts /\ part.data \in Seq(Values) /\ part.synced \in 0..Len(part.data)
        /\ part.synced \in Nat
    BY <2>1, Sizes DEF IInv, Shelf, Data
  <2>3. PICK d \in Torn(part.data, part.synced) : part' = [part EXCEPT !.data = d]
    BY <2>1 DEF KillReceiver
  <2>4. d \in Seq(Values)
    BY <2>2, TornOf
  <2> QED
    BY <2>2, <2>3, <2>4, PartWith
<1>2. ledger # Nothing => ledger' # Nothing /\ ledger'.synced = ledger.synced /\ ledger.synced \in Nat
  <2>1. SUFFICES ASSUME ledger # Nothing
                 PROVE  ledger' # Nothing /\ ledger'.synced = ledger.synced /\ ledger.synced \in Nat
    OBVIOUS
  <2>2. /\ ledger \in Ledgers /\ ledger.records \in Seq(Values) /\ ledger.synced \in 0..Len(ledger.records)
        /\ ledger.synced \in Nat
    BY <2>1, Sizes DEF IInv, Shelf, Records
  <2>3. PICK r \in Torn(ledger.records, ledger.synced) : ledger' = [ledger EXCEPT !.records = r]
    BY <2>1 DEF KillReceiver
  <2>4. r \in Seq(Values)
    BY <2>2, TornOf
  <2> QED
    BY <2>2, <2>3, <2>4, LedgerWith
<1> QED
  BY <1>1, <1>2, SafeGrows

Lasts == Kept \/ "receiver" \in cancelled \/ file # Nothing \/ (receiver.phase = "verified" /\ ~up)

LEMMA EndsKeep ==
  ASSUME IInv, Safe' \in Nat, Publish \/ ReceiverGivesUp
  PROVE  Lasts
<1>1. CASE Publish /\ file = Nothing
  <2>1. receiver.phase = "verified" /\ file' = receiver.root
    BY <1>1 DEF IInv, Shelf, Publish
  <2> QED
    BY <2>1 DEF Lasts, Kept
<1>2. CASE ReceiverGivesUp /\ ~up
  BY <1>2, PreservingKeeps DEF Lasts, ReceiverGivesUp
<1>3. CASE ReceiverGivesUp /\ up
  BY <1>3 DEF Lasts, ReceiverGivesUp
<1> QED
  BY <1>1, <1>2, <1>3 DEF Lasts

LEMMA StepLasts ==
  ASSUME IInv, Safe' \in Nat, [Next]_vars
  PROVE  Lasts
<1>1. CASE part' \in {part, Preserved} /\ UNCHANGED ledger
  BY <1>1, PreservingKeeps DEF Lasts
<1>2. CASE \/ CreatePart \/ DropLedger \/ NamePart \/ OpenLedger \/ WriteHeader \/ BlockArrives
           \/ SyncData \/ AppendRecord \/ SyncRecord \/ KillReceiver \/ Publish \/ ReceiverGivesUp
  BY <1>2, FirstStepsKeep, SyncStepsKeep, CrashKeeps, EndsKeep DEF Lasts
<1>3. \/ CreatePart \/ DropLedger \/ NamePart \/ OpenLedger \/ WriteHeader \/ BlockArrives
      \/ SyncData \/ AppendRecord \/ SyncRecord \/ KillReceiver \/ Publish \/ ReceiverGivesUp
      \/ part' \in {part, Preserved} /\ UNCHANGED ledger
  <2> USE DEF vars, partVars
  <2>1. CASE UNCHANGED vars
    BY <2>1
  <2>2. CASE \/ StartAttempt \/ RecordManifest \/ VerifySource \/ OpenIndex \/ ScanBlock
             \/ ScanEnds \/ DecisionArrives \/ AckArrives
    BY <2>2 DEF StartAttempt, RecordManifest, VerifySource, OpenIndex, ScanBlock, ScanEnds,
         DecisionArrives, AckArrives
  <2>3. CASE ResultArrives \/ UnexpectedArrives \/ SenderGivesUp \/ SenderTimesOut
    BY <2>3 DEF ResultArrives, UnexpectedArrives, SenderGivesUp, SenderTimesOut
  <2>4. CASE EntryArrives \/ CompleteArrives \/ Complete \/ AbortArrives \/ ReceiverTimesOut
    BY <2>4
      DEF EntryArrives, CompleteArrives, Complete, AbortArrives, ReceiverTimesOut, EntryFails
  <2>5. CASE SkippedArrives \/ StrayArrives \/ TaskEnds \/ SessionEnds \/ KillSender
    BY <2>5 DEF SkippedArrives, StrayArrives, TaskEnds, SessionEnds, KillSender
  <2>6. CASE \E e \in Ends : CancelArrives(e) \/ UserCancels(e)
    BY <2>6 DEF CancelArrives, UserCancels
  <2>7. CASE \/ \E i \in 1..Blocks : EditSource(i)
             \/ \E content \in {Nothing, Foreign} : UserTakesName(content)
    BY <2>7 DEF EditSource, UserTakesName
  <2> QED
    BY <2>1, <2>2, <2>3, <2>4, <2>5, <2>6, <2>7 DEF Next, Progress, Disturbance
<1> QED
  BY <1>1, <1>2, <1>3

\* Confirmed blocks are given up only when the attempt is cancelled, the final name
\* is taken, or the session ends between verification and publication.
THEOREM ConfirmedIsKept == Spec => ConfirmedLasts
<1>1. IInv => Safe \in Nat
  BY SafeIsNat
<1>2. IInv /\ (Safe \in Nat)' /\ [Next]_vars => Lasts
  BY StepLasts
<1>3. Spec => [][Lasts]_vars
  BY <1>1, <1>2, TransferInvariant, PTL DEF Spec
<1> QED
  BY <1>3, PTL DEF ConfirmedLasts, Lasts

-----------------------------------------------------------------------------
(* The destination: every step is one of FileDelivery, or changes nothing it *)
(* knows of.                                                               *)

DeliveryStays == UNCHANGED <<source, versions, file, delivered, told>>

LEMMA EntryOverTells ==
  ASSUME IInv, NEW ok \in BOOLEAN, ok => delivered, EntryOver(ok),
         UNCHANGED <<source, versions, file, delivered>>
  PROVE  Delivery!Tell \/ DeliveryStays
<1>1. CASE ok
  BY <1>1 DEF EntryOver, Delivery!Tell
<1>2. CASE ~ok
  <2>1. told \in BOOLEAN
    BY DEF IInv, Holds
  <2>2. told' = told
    BY <1>2, <2>1 DEF EntryOver
  <2> QED
    BY <2>2 DEF DeliveryStays
<1> QED
  BY <1>1, <1>2

LEMMA TellsRefines ==
  ASSUME IInv, DecisionArrives \/ ResultArrives
  PROVE  Delivery!Tell \/ DeliveryStays
<1> USE DEF sourceVars, fileVars
<1>1. CASE DecisionArrives
  <2>1. CASE ~Msg("sender").ok
    BY <1>1, <2>1, EntryOverTells DEF DecisionArrives
  <2>2. CASE Msg("sender").ok
    BY <1>1, <2>2 DEF DecisionArrives, DeliveryStays
  <2> QED
    BY <2>1, <2>2
<1>2. CASE ResultArrives
  <2>1. /\ Msg("sender") = toSender[1] /\ Msg("sender") \in ToSender /\ 1 \in 1..Len(toSender)
        /\ Msg("sender").kind = "result"
    BY <1>2, TailOf DEF IInv, Holds, Wires, ResultArrives, Arrives, Msg, toSender
  <2>2. Msg("sender").ok \in BOOLEAN
    BY <2>1, SenderMessage
  <2>3. Msg("sender").ok => delivered
    BY <2>1 DEF IInv, Heard
  <2> QED
    BY <1>2, <2>2, <2>3, EntryOverTells DEF ResultArrives
<1> QED
  BY <1>1, <1>2

LEMMA PublishRefines ==
  ASSUME IInv, Publish
  PROVE  Delivery!Deliver \/ DeliveryStays
<1> USE DEF Publish, sourceVars, sendVars, fileVars
<1>1. CASE file = Nothing
  <2>1. part.data \in versions
    BY DEF IInv, Shelf, Roots
  <2> QED
    BY <1>1, <2>1 DEF Delivery!Deliver
<1>2. CASE file # Nothing
  BY <1>2 DEF DeliveryStays
<1> QED
  BY <1>1, <1>2

LEMMA UserRefines ==
  ASSUME IInv, \/ \E i \in 1..Blocks : EditSource(i)
               \/ \E content \in {Nothing, Foreign} : UserTakesName(content)
  PROVE  Delivery!Edit \/ Delivery!UserTakes
<1>1. ASSUME NEW i \in 1..Blocks, EditSource(i)
      PROVE  Delivery!Edit
  <2>1. stamp + 1 \in 0..Budget
    BY <1>1, BudgetAssumption DEF IInv, Holds, EditSource, Disturb
  <2>2. source' \in Contents
    BY <1>1, <2>1 DEF IInv, Holds, Contents, EditSource
  <2> QED
    BY <1>1, <2>2 DEF EditSource, Delivery!Edit, sendVars, fileVars
<1>2. ASSUME NEW content \in {Nothing, Foreign}, UserTakesName(content)
      PROVE  Delivery!UserTakes
  BY <1>2 DEF UserTakesName, Delivery!UserTakes, sourceVars, sendVars
<1> QED
  BY <1>1, <1>2

LEMMA OthersStay ==
  ASSUME IInv, [Next]_vars
  PROVE  \/ DecisionArrives \/ ResultArrives \/ Publish
         \/ \E i \in 1..Blocks : EditSource(i)
         \/ \E content \in {Nothing, Foreign} : UserTakesName(content)
         \/ DeliveryStays
<1> USE DEF DeliveryStays, vars, sourceVars, sendVars, fileVars
<1>1. CASE UNCHANGED vars
  BY <1>1
<1>2. CASE \/ StartAttempt \/ RecordManifest \/ VerifySource \/ OpenIndex \/ ScanBlock \/ ScanEnds
           \/ AckArrives \/ UnexpectedArrives \/ SenderGivesUp
  BY <1>2 DEF StartAttempt, RecordManifest, VerifySource, OpenIndex, ScanBlock, ScanEnds,
       AckArrives, UnexpectedArrives, SenderGivesUp
<1>3. CASE EntryArrives \/ CreatePart \/ DropLedger \/ NamePart \/ OpenLedger \/ WriteHeader
  BY <1>3 DEF EntryArrives, CreatePart, DropLedger, NamePart, OpenLedger, WriteHeader
<1>4. CASE BlockArrives \/ SyncData \/ AppendRecord \/ SyncRecord \/ CompleteArrives \/ Complete
  BY <1>4 DEF BlockArrives, SyncData, AppendRecord, SyncRecord, CompleteArrives, Complete
<1>5. CASE AbortArrives \/ SkippedArrives \/ StrayArrives \/ TaskEnds \/ ReceiverGivesUp
  BY <1>5 DEF AbortArrives, SkippedArrives, StrayArrives, TaskEnds, ReceiverGivesUp
<1>6. CASE SenderTimesOut \/ ReceiverTimesOut \/ SessionEnds \/ KillSender \/ KillReceiver
  BY <1>6 DEF SenderTimesOut, ReceiverTimesOut, SessionEnds, KillSender, KillReceiver
<1>7. CASE \E e \in Ends : CancelArrives(e) \/ UserCancels(e)
  BY <1>7 DEF CancelArrives, UserCancels
<1> QED
  BY <1>1, <1>2, <1>3, <1>4, <1>5, <1>6, <1>7 DEF Next, Progress, Disturbance

\* The whole exchange implements FileDelivery: whole, of one moment of the source,
\* never over another file, and "completed" only afterwards.
THEOREM TransferDelivers == Spec => DeliverySpec
<1>1. Init => Delivery!Init
  <2>1. Init => source \in Contents
    BY BudgetAssumption DEF Init, Contents
  <2> QED
    BY <2>1 DEF Init, Delivery!Init
<1>2. IInv /\ [Next]_vars => [Delivery!Next]_<<source, versions, file, delivered, told>>
  BY OthersStay, TellsRefines, PublishRefines, UserRefines DEF Delivery!Next, DeliveryStays
<1> QED
  BY <1>1, <1>2, TransferInvariant, PTL DEF Spec, DeliverySpec, Delivery!Spec

-----------------------------------------------------------------------------
(* The tasks of the two participants.                                      *)

Owned == Tasks \cup {0}
Asked == Requests \cup {0}
OfSelection == {"selectionRequest", "selectionCancel", "selectionResult"}
OfTask ==
  {"start", "retry", "cancelStored", "retryRequest", "retryResult", "action", "offer",
   "decision", "complete", "result"}
Items ==
  [kind : OfSelection, task : Owned, request : Asked, ok : BOOLEAN]
    \cup [kind : OfTask, task : Tasks, request : Asked, ok : BOOLEAN]

Handles ==
  [active : Owned, cancelled : BOOLEAN, halfCancelled : BOOLEAN, pendingRequest : Asked,
   activeRequest : Asked, selectorRequest : Asked, cancelledSelection : Asked,
   pendingRetry : Owned, cancelledRetry : Owned, commands : Seq(Items), control : Owned,
   outgoing : Seq(Items)]

AtWork ==
  {"select", "approve", "offer", "decision", "send", "result", "ask", "accept", "receiving",
   "report", "claimed"}
AtRest == {"idle", "answer"}
Between ==
  {"unselect", "respond", "finish", "fail", "answerOffer", "decline", "refuse", "retry",
   "release", "request"}
Workers ==
  [pc : AtWork \cup AtRest \cup Between, task : Owned, request : Asked, selecting : BOOLEAN,
   responding : BOOLEAN, ok : BOOLEAN, current : Owned]
TaskRecords == [Tasks -> {"none", "source", "receive"}]

\* The queues of a handle have room for what is in them, and a task that answers
\* a request is active when no request is pending.
Fits(s) == Len(s.commands) <= TaskQueue /\ Len(s.outgoing) <= TaskQueue
Answering(s) == s.activeRequest # 0 => s.active # 0 /\ s.pendingRequest = 0

TaskTypes ==
  /\ handle \in [Transfers!Ends -> Handles] /\ worker \in [Transfers!Ends -> Workers]
  /\ transit \in [Transfers!Ends -> Seq(Items)] /\ stored \in [Transfers!Ends -> TaskRecords]
  /\ \A e \in Transfers!Ends :
       Fits(handle[e]) /\ Answering(handle[e]) /\ Len(transit[e]) <= TaskTransit
  /\ gaveUp \subseteq Tasks /\ withdrawn \subseteq Requests /\ clicks \in 0..TaskClicks

\* The task a worker is about is one, and the active one while it runs.
WorksOn(s, x) ==
  /\ x.pc \notin AtRest => x.task # 0
  /\ x.pc \in AtWork => s.active = x.task

\* A request is asked once: what was, and what was withdrawn, is of an earlier
\* click; and a withdrawn one is not pending.
AskedOnce ==
  LET s == handle["controller"] IN
  /\ (withdrawn \cup {s.pendingRequest, s.activeRequest}) \ {0} \subseteq 1..(TaskClicks - clicks)
  /\ s.pendingRequest \notin withdrawn

\* The inductive invariant.
TaskInv ==
  /\ TaskTypes
  /\ \A e \in Transfers!Ends : WorksOn(handle[e], worker[e])
  /\ AskedOnce /\ Transfers!WithdrawnStaysOut /\ Transfers!CancelledSelectionCloses

-----------------------------------------------------------------------------
(* The functions of a handle.                                              *)

\* The queues aside, the handle is as it was.
AsBefore(s, t) ==
  /\ t \in Handles /\ Fits(t)
  /\ t.active = s.active /\ t.activeRequest = s.activeRequest /\ t.cancelled = s.cancelled
  /\ t.pendingRequest = s.pendingRequest /\ t.halfCancelled = s.halfCancelled
  /\ t.cancelledSelection = s.cancelledSelection

\* An active task stays active, for its request, and cancelled once it is.
ActiveStays(s, t) ==
  s.active # 0 =>
    t.active = s.active /\ t.activeRequest = s.activeRequest /\ (s.cancelled => t.cancelled)

\* What a cancellation leaves.
Cancels(s, t) ==
  /\ t \in Handles /\ Fits(t) /\ ActiveStays(s, t)
  /\ t.activeRequest \in {0, s.activeRequest} /\ t.pendingRequest = s.pendingRequest
  /\ t.halfCancelled = s.halfCancelled /\ t.cancelledSelection = s.cancelledSelection

\* What a message that was taken, or the user, leaves.
Leaves(s, t) ==
  /\ t \in Handles /\ Fits(t) /\ Answering(t) /\ ActiveStays(s, t)
  /\ t.pendingRequest \in {0, s.pendingRequest}
  /\ t.activeRequest \in {0, s.activeRequest, s.pendingRequest}
  /\ s.halfCancelled => t.halfCancelled
  /\ s.active # 0 => t.cancelledSelection = s.cancelledSelection \/ t.halfCancelled

LEMMA ItemTyped ==
  ASSUME NEW m \in Items
  PROVE  /\ m.kind \in OfSelection \cup OfTask /\ m.task \in Owned /\ m.request \in Asked
         /\ m.ok \in BOOLEAN
         /\ m.kind \in OfTask => m.task \in Tasks /\ m.task # 0
  BY TasksBounds DEF Items, Owned, OfSelection, OfTask

LEMMA ItemMade ==
  ASSUME NEW kind \in OfTask, NEW task \in Tasks, NEW r \in Asked, NEW ok \in BOOLEAN
  PROVE  Transfers!Item(kind, task, r, ok) \in Items
  BY DEF Transfers!Item, Items

LEMMA AnswersMade ==
  ASSUME NEW task \in Tasks, NEW r \in Asked, NEW ok \in BOOLEAN
  PROVE  /\ Transfers!SelectionResult(r) \in Items /\ Transfers!RetryResult(task) \in Items
         /\ Transfers!DecisionOn(task, ok) \in Items /\ Transfers!Action(task) \in Items
         /\ Transfers!Item("selectionRequest", 0, r, FALSE) \in Items
         /\ Transfers!Item("selectionCancel", 0, r, FALSE) \in Items
  BY DEF Transfers!Item, Items, Transfers!SelectionResult, Transfers!RetryResult, Asked, Owned,
         Transfers!DecisionOn, Transfers!Action, OfSelection, OfTask, Transfers!None

LEMMA Enqueued ==
  ASSUME NEW s \in Handles, Fits(s), NEW m \in Items, ~Transfers!Full(s.commands)
  PROVE  AsBefore(s, Transfers!Enqueue(s, m))
<1>1. /\ s.commands \in Seq(Items) /\ Len(s.commands) \in Nat
      /\ Append(s.commands, m) \in Seq(Items)
      /\ Len(Append(s.commands, m)) = Len(s.commands) + 1
  BY Appended DEF Handles
<1>2. Len(s.commands) < TaskQueue
  BY <1>1, TasksBounds DEF Fits, Transfers!Full
<1>3. Transfers!Enqueue(s, m) = [s EXCEPT !.commands = Append(s.commands, m)]
  BY DEF Transfers!Enqueue
<1> HIDE DEF Transfers!Enqueue
<1>4. Transfers!Enqueue(s, m) \in Handles
  BY <1>1, <1>3 DEF Handles
<1> QED
  BY <1>1, <1>2, <1>3, <1>4, TasksBounds DEF AsBefore, Fits, Handles

LEMMA SentOn ==
  ASSUME NEW s \in Handles, Fits(s), NEW m \in Items
  PROVE  /\ AsBefore(s, Transfers!TrySend(s, m))
         /\ ~Transfers!Full(s.outgoing) =>
              AsBefore(s, [s EXCEPT !.outgoing = Append(s.outgoing, m)])
<1>1. /\ s.outgoing \in Seq(Items) /\ Len(s.outgoing) \in Nat
      /\ Append(s.outgoing, m) \in Seq(Items)
      /\ Len(Append(s.outgoing, m)) = Len(s.outgoing) + 1
  BY Appended DEF Handles
<1>2. CASE Transfers!Full(s.outgoing)
  BY <1>2 DEF Transfers!TrySend, AsBefore
<1>3. CASE ~Transfers!Full(s.outgoing)
  <2>1. Len(s.outgoing) < TaskQueue
    BY <1>1, <1>3, TasksBounds DEF Fits, Transfers!Full
  <2> DEFINE t == [s EXCEPT !.outgoing = Append(s.outgoing, m)]
  <2>2. t \in Handles
    BY <1>1 DEF Handles
  <2>3. AsBefore(s, t)
    BY <1>1, <2>1, <2>2, TasksBounds DEF AsBefore, Fits, Handles
  <2> QED
    BY <1>3, <2>3 DEF Transfers!TrySend
<1> QED
  BY <1>2, <1>3

LEMMA CommandTaken ==
  ASSUME NEW s \in Handles, Fits(s), s.commands # <<>>
  PROVE  /\ Head(s.commands) \in Items
         /\ AsBefore(s, [s EXCEPT !.commands = Tail(@)])
<1>1. /\ s.commands \in Seq(Items) /\ Tail(s.commands) \in Seq(Items)
      /\ Head(s.commands) \in Items /\ Len(s.commands) \in Nat
      /\ Len(Tail(s.commands)) = Len(s.commands) - 1
  BY TailOf DEF Handles
<1> DEFINE t == [s EXCEPT !.commands = Tail(s.commands)]
<1>2. t \in Handles
  BY <1>1 DEF Handles
<1> QED
  BY <1>1, <1>2, TasksBounds DEF AsBefore, Fits, Handles

\* A task that is admitted is one.
LEMMA Admitted ==
  ASSUME NEW s \in Handles, Fits(s), NEW c \in Items, c.kind \in OfTask, Answering(s)
  PROVE  Cancels(s, Transfers!Admit(s, c))
<1>1. CASE Transfers!IsBusy(s)
  BY <1>1 DEF Transfers!Admit, Cancels, ActiveStays
<1>2. CASE ~Transfers!IsBusy(s)
  <2> DEFINE clear == [s EXCEPT !.cancelled = FALSE, !.activeRequest = 0]
             admitted == [clear EXCEPT !.active = c.task]
  <2>1. s.active = 0
    BY <1>2 DEF Transfers!IsBusy, Transfers!None
  <2>2. /\ clear \in Handles /\ clear.activeRequest = 0 /\ clear.commands = s.commands
        /\ clear.outgoing = s.outgoing /\ clear.pendingRequest = s.pendingRequest
        /\ clear.halfCancelled = s.halfCancelled
        /\ clear.cancelledSelection = s.cancelledSelection
    BY DEF Handles, Asked
  <2>3. /\ admitted \in Handles /\ admitted.activeRequest = 0 /\ admitted.commands = s.commands
        /\ admitted.outgoing = s.outgoing /\ admitted.pendingRequest = s.pendingRequest
        /\ admitted.halfCancelled = s.halfCancelled
        /\ admitted.cancelledSelection = s.cancelledSelection
    BY <2>2, ItemTyped DEF Handles
  <2> HIDE DEF clear, admitted
  <2>4. Fits(clear) /\ Fits(admitted)
    BY <2>2, <2>3 DEF Fits
  <2>5. CASE Transfers!Full(s.commands)
    <3>1. Transfers!Admit(s, c) = clear
      BY <1>2, <2>2, <2>5 DEF Transfers!Admit, clear, Transfers!None
    <3> QED
      BY <2>1, <2>2, <2>4, <3>1 DEF Cancels, ActiveStays
  <2>6. CASE ~Transfers!Full(s.commands)
    <3>1. Transfers!Admit(s, c) = Transfers!Enqueue(admitted, c)
      BY <1>2, <2>2, <2>6 DEF Transfers!Admit, admitted, clear, Transfers!None
    <3>2. AsBefore(admitted, Transfers!Enqueue(admitted, c))
      BY <2>3, <2>4, <2>6, Enqueued
    <3> QED
      BY <2>1, <2>3, <3>1, <3>2 DEF Cancels, ActiveStays, AsBefore
  <2> QED
    BY <2>5, <2>6
<1> QED
  BY <1>1, <1>2

LEMMA CancelledTask ==
  ASSUME NEW s \in Handles, Fits(s), NEW task \in Tasks, Answering(s)
  PROVE  Cancels(s, Transfers!CancelTask(s, task))
<1> DEFINE marked == [s EXCEPT !.cancelled = TRUE, !.control = task]
           left == [s EXCEPT !.pendingRetry = 0, !.cancelledRetry = task, !.control = task]
           before == IF s.pendingRetry = task THEN left ELSE s
           c == Transfers!Item("cancelStored", task, 0, FALSE)
<1>1. task # 0 /\ task \in Owned
  BY TasksBounds DEF Owned
<1>2. CASE s.active = task
  <2>1. marked \in Handles /\ Fits(marked) /\ marked.active = s.active
    BY <1>1 DEF Handles, Fits
  <2>2. Transfers!CancelTask(s, task) = marked
    BY <1>2 DEF Transfers!CancelTask
  <2>3. /\ marked.activeRequest = s.activeRequest /\ marked.cancelled
        /\ marked.pendingRequest = s.pendingRequest /\ marked.halfCancelled = s.halfCancelled
        /\ marked.cancelledSelection = s.cancelledSelection
    BY DEF Handles
  <2> HIDE DEF marked
  <2> QED
    BY <2>1, <2>2, <2>3 DEF Cancels, ActiveStays
<1>3. CASE s.active # task /\ s.active # 0
  BY <1>3 DEF Transfers!CancelTask, Cancels, ActiveStays, Transfers!None
<1>4. CASE s.active # task /\ s.active = 0
  <2>1. /\ left \in Handles /\ left.active = s.active /\ left.activeRequest = s.activeRequest
        /\ left.pendingRequest = s.pendingRequest /\ left.halfCancelled = s.halfCancelled
        /\ left.cancelledSelection = s.cancelledSelection
        /\ left.commands = s.commands /\ left.outgoing = s.outgoing
    BY <1>1 DEF Handles, Owned
  <2>2. c \in Items /\ c.kind \in OfTask
    BY ItemMade DEF Transfers!Item, OfTask, Asked
  <2>3. Transfers!CancelTask(s, task) = Transfers!Admit(before, c)
    BY <1>4 DEF Transfers!CancelTask, Transfers!None
  <2> HIDE DEF c, left
  <2>4. before \in Handles /\ Fits(before) /\ Answering(before)
    BY <2>1 DEF Fits, Answering
  <2>5. Cancels(before, Transfers!Admit(before, c))
    BY <2>2, <2>4, Admitted
  <2> QED
    BY <1>4, <2>1, <2>3, <2>5 DEF Cancels, ActiveStays
<1> QED
  BY <1>2, <1>3, <1>4

LEMMA CancelsLeaves ==
  ASSUME NEW s \in Handles, NEW t, Answering(s), Cancels(s, t)
  PROVE  Leaves(s, t)
<1>1. Answering(t)
  BY DEF Answering, Cancels, ActiveStays
<1> QED
  BY <1>1 DEF Leaves, Cancels, ActiveStays

LEMMA BeforeLeaves ==
  ASSUME NEW s \in Handles, NEW t, Answering(s), AsBefore(s, t)
  PROVE  Leaves(s, t) /\ Cancels(s, t)
  BY DEF Leaves, AsBefore, Answering, ActiveStays, Cancels

LEMMA RefusalCancels ==
  ASSUME NEW e \in Transfers!Ends, NEW s \in Handles, Fits(s), Answering(s), NEW task \in Tasks
  PROVE  Cancels(s, Transfers!Refuses(e, s, task))
<1>1. CASE e = "host"
  BY <1>1, CancelledTask DEF Transfers!Refuses
<1>2. CASE e # "host"
  BY <1>2 DEF Transfers!Refuses, Cancels, ActiveStays
<1> QED
  BY <1>1, <1>2

LEMMA Answered ==
  ASSUME NEW e \in Transfers!Ends, NEW s \in Handles, Fits(s), Answering(s),
         NEW m \in Items, m.kind \in OfTask
  PROVE  Cancels(s, Transfers!Answers(e, s, m))
<1>1. m.task \in Tasks
  BY ItemTyped
<1>2. CASE Transfers!Full(s.outgoing)
  <2>1. Transfers!Answers(e, s, m) = Transfers!Refuses(e, s, m.task)
    BY <1>2 DEF Transfers!Answers
  <2> QED
    BY <1>1, <2>1, RefusalCancels
<1>3. CASE ~Transfers!Full(s.outgoing)
  <2>1. Transfers!DecisionOn(m.task, FALSE) \in Items
    BY <1>1, AnswersMade DEF Asked
  <2> QED
    BY <1>3, <2>1, SentOn, BeforeLeaves DEF Transfers!Answers
<1> QED
  BY <1>2, <1>3

LEMMA CancelledRemote ==
  ASSUME NEW s \in Handles, Fits(s), Answering(s)
  PROVE  /\ Leaves(s, Transfers!CancelRemote(s))
         /\ Transfers!CancelRemote(s) # s => Transfers!CancelRemote(s).pendingRequest = 0
         /\ Transfers!CancelRemote(s) # s /\ s.pendingRequest = 0 =>
              s.active # 0 /\ Transfers!CancelRemote(s).cancelled
         /\ Transfers!CancelRemote(s).activeRequest = s.activeRequest
<1> DEFINE t == Transfers!CancelRemote(s)
<1>1. CASE t = s
  BY <1>1 DEF Leaves, ActiveStays
<1>2. CASE t # s /\ s.pendingRequest = 0
  <2> DEFINE marked == [s EXCEPT !.cancelled = TRUE, !.control = s.active]
  <2>1. t = marked /\ s.active # 0
    BY <1>2 DEF Transfers!CancelRemote, Transfers!None
  <2>2. /\ marked \in Handles /\ marked.cancelled /\ marked.active = s.active
        /\ marked.activeRequest = s.activeRequest
        /\ marked.pendingRequest = s.pendingRequest /\ marked.halfCancelled = s.halfCancelled
        /\ marked.cancelledSelection = s.cancelledSelection
        /\ marked.commands = s.commands /\ marked.outgoing = s.outgoing
    BY DEF Handles
  <2> HIDE DEF marked, t
  <2> QED
    BY <1>2, <2>1, <2>2 DEF Leaves, ActiveStays, Answering, Fits, t
<1>3. CASE t # s /\ s.pendingRequest # 0
  <2> DEFINE m == Transfers!Item("selectionCancel", 0, s.pendingRequest, FALSE)
             sent == [s EXCEPT !.outgoing = Append(s.outgoing, m)]
             cleared == [sent EXCEPT !.pendingRequest = 0]
  <2>1. ~Transfers!Full(s.outgoing)
    BY <1>3 DEF Transfers!CancelRemote, Transfers!None
  <2>2. m \in Items
    <3>1. s.pendingRequest \in Asked /\ 0 \in Owned
      BY DEF Handles, Owned
    <3> QED
      BY <3>1 DEF Items, Transfers!Item, OfSelection
  <2>3. t = [s EXCEPT !.pendingRequest = 0, !.outgoing = Append(s.outgoing, m)]
    BY <1>3, <2>1 DEF Transfers!CancelRemote, Transfers!None
  <2> HIDE DEF m
  <2>4. AsBefore(s, sent)
    BY <2>1, <2>2, SentOn
  <2>5. t = cleared
    BY <2>3 DEF Handles
  <2> HIDE DEF sent, t
  <2>6. /\ cleared \in Handles /\ cleared.pendingRequest = 0 /\ cleared.active = sent.active
        /\ cleared.activeRequest = sent.activeRequest /\ cleared.cancelled = sent.cancelled
        /\ cleared.halfCancelled = sent.halfCancelled
        /\ cleared.cancelledSelection = sent.cancelledSelection
        /\ cleared.commands = sent.commands /\ cleared.outgoing = sent.outgoing
    BY <2>4 DEF Handles, AsBefore, Asked
  <2> HIDE DEF cleared
  <2> QED
    BY <1>3, <2>4, <2>5, <2>6 DEF Leaves, ActiveStays, Answering, Fits, t, AsBefore
<1> QED
  BY <1>1, <1>2, <1>3

LEMMA RequestedRemote ==
  ASSUME NEW s \in Handles, Fits(s), Answering(s), NEW r \in Requests,
         s.active = 0, ~Transfers!Full(s.outgoing)
  PROVE  LET t == Transfers!RequestRemote(s, r) IN
         /\ t \in Handles /\ Fits(t) /\ Answering(t) /\ t.active = 0 /\ t.activeRequest = 0
         /\ t.pendingRequest = r /\ t.halfCancelled = s.halfCancelled
         /\ t.cancelledSelection = s.cancelledSelection
<1> DEFINE t == Transfers!RequestRemote(s, r)
           m == Transfers!Item("selectionRequest", 0, r, FALSE)
           sent == [s EXCEPT !.outgoing = Append(s.outgoing, m)]
           asked == [sent EXCEPT !.pendingRequest = r]
<1>1. m \in Items
  BY DEF Items, Transfers!Item, OfSelection, Asked, Owned
<1>2. t = [s EXCEPT !.pendingRequest = r, !.outgoing = Append(s.outgoing, m)]
  BY DEF Transfers!RequestRemote, Transfers!None
<1> HIDE DEF m
<1>3. AsBefore(s, sent)
  BY <1>1, SentOn
<1>4. t = asked
  BY <1>2 DEF Handles
<1> HIDE DEF sent, t
<1>5. /\ asked \in Handles /\ asked.pendingRequest = r /\ asked.active = sent.active
      /\ asked.activeRequest = sent.activeRequest
      /\ asked.halfCancelled = sent.halfCancelled
      /\ asked.cancelledSelection = sent.cancelledSelection
      /\ asked.commands = sent.commands /\ asked.outgoing = sent.outgoing
  BY <1>3 DEF Handles, AsBefore, Asked
<1> HIDE DEF asked
<1> QED
  BY <1>3, <1>4, <1>5 DEF Answering, Fits, t, AsBefore

-----------------------------------------------------------------------------
(* ingest.                                                                 *)

LEMMA SelectionRequestLeaves ==
  ASSUME NEW s \in Handles, Fits(s), Answering(s), NEW m \in Items
  PROVE  Leaves(s, Transfers!IngestSelectionRequest(s, m))
<1> DEFINE t == Transfers!IngestSelectionRequest(s, m)
           busy == s.active # 0 \/ s.pendingRetry # 0 \/ s.selectorRequest # 0
           quiet == [s EXCEPT !.cancelledSelection = 0]
           chosen == [s EXCEPT !.selectorRequest = m.request, !.cancelledSelection = 0]
<1>1. m.request \in Asked
  BY ItemTyped
<1>2. CASE busy
  <2>1. Transfers!SelectionResult(m.request) \in Items
    BY <1>1 DEF Transfers!SelectionResult, Transfers!Item, Transfers!None, Items, OfSelection, Owned
  <2>2. t = Transfers!TrySend(s, Transfers!SelectionResult(m.request))
    BY <1>2 DEF Transfers!IngestSelectionRequest, Transfers!None
  <2> QED
    BY <2>1, <2>2, SentOn, BeforeLeaves
<1>3. CASE ~busy /\ Transfers!Full(s.commands)
  <2>1. t = quiet /\ s.active = 0
    BY <1>3 DEF Transfers!IngestSelectionRequest, Transfers!None
  <2>2. /\ quiet \in Handles /\ quiet.active = s.active /\ quiet.activeRequest = s.activeRequest
        /\ quiet.pendingRequest = s.pendingRequest /\ quiet.halfCancelled = s.halfCancelled
        /\ quiet.commands = s.commands /\ quiet.outgoing = s.outgoing
    BY DEF Handles, Asked
  <2> HIDE DEF quiet, t
  <2> QED
    BY <2>1, <2>2 DEF Leaves, ActiveStays, Answering, Fits, t
<1>4. CASE ~busy /\ ~Transfers!Full(s.commands)
  <2>1. t = Transfers!Enqueue(chosen, m) /\ s.active = 0
    BY <1>4 DEF Transfers!IngestSelectionRequest, Transfers!None
  <2>2. /\ chosen \in Handles /\ chosen.active = s.active
        /\ chosen.activeRequest = s.activeRequest
        /\ chosen.pendingRequest = s.pendingRequest /\ chosen.halfCancelled = s.halfCancelled
        /\ chosen.commands = s.commands /\ chosen.outgoing = s.outgoing
    BY <1>1 DEF Handles, Asked
  <2> HIDE DEF chosen, t
  <2>3. AsBefore(chosen, Transfers!Enqueue(chosen, m))
    BY <1>4, <2>2, Enqueued DEF Fits
  <2> QED
    BY <2>1, <2>2, <2>3 DEF Leaves, ActiveStays, Answering, AsBefore, t
<1> QED
  BY <1>2, <1>3, <1>4

LEMMA SelectionCancelLeaves ==
  ASSUME NEW s \in Handles, Fits(s), Answering(s), NEW m \in Items
  PROVE  Leaves(s, Transfers!IngestSelectionCancel(s, m))
<1> DEFINE t == [s EXCEPT !.cancelledSelection = m.request, !.halfCancelled = TRUE]
<1>1. m.request \in Asked
  BY ItemTyped
<1>2. /\ t \in Handles /\ t.active = s.active /\ t.activeRequest = s.activeRequest
      /\ t.pendingRequest = s.pendingRequest /\ t.halfCancelled /\ t.cancelled = s.cancelled
      /\ t.commands = s.commands /\ t.outgoing = s.outgoing
  BY <1>1 DEF Handles
<1>3. Transfers!IngestSelectionCancel(s, m) \in {s, t}
  BY DEF Transfers!IngestSelectionCancel
<1> HIDE DEF t
<1>4. Leaves(s, t) /\ Leaves(s, s)
  BY <1>2 DEF Leaves, ActiveStays, Answering, Fits
<1> QED
  BY <1>3, <1>4

LEMMA SelectionResultLeaves ==
  ASSUME NEW s \in Handles, Fits(s), Answering(s), NEW m \in Items
  PROVE  Leaves(s, Transfers!IngestSelectionResult(s, m))
<1> DEFINE t == [s EXCEPT !.pendingRequest = 0]
<1>1. /\ t \in Handles /\ t.active = s.active /\ t.activeRequest = s.activeRequest
      /\ t.pendingRequest = 0 /\ t.halfCancelled = s.halfCancelled
      /\ t.cancelled = s.cancelled /\ t.cancelledSelection = s.cancelledSelection
      /\ t.commands = s.commands /\ t.outgoing = s.outgoing
  BY DEF Handles, Asked
<1>2. Transfers!IngestSelectionResult(s, m) \in {s, t}
  BY DEF Transfers!IngestSelectionResult, Transfers!None
<1> HIDE DEF t
<1>3. Leaves(s, t) /\ Leaves(s, s)
  BY <1>1 DEF Leaves, ActiveStays, Answering, Fits
<1> QED
  BY <1>2, <1>3

LEMMA RetryRequestLeaves ==
  ASSUME NEW e \in Transfers!Ends, NEW s \in Handles, Fits(s), Answering(s),
         NEW m \in Items, m.kind \in OfTask
  PROVE  Leaves(s, Transfers!IngestRetryRequest(e, s, m))
<1> DEFINE t == Transfers!IngestRetryRequest(e, s, m)
           busy == s.active # 0 \/ s.selectorRequest # 0
           clear == [s EXCEPT !.cancelled = FALSE]
           taken == [s EXCEPT !.cancelled = FALSE, !.active = m.task]
<1>1. m.task \in Tasks /\ m.task \in Owned
  BY ItemTyped
<1>2. CASE busy /\ Transfers!Full(s.outgoing)
  <2>1. t = Transfers!Refuses(e, s, m.task)
    BY <1>2 DEF Transfers!IngestRetryRequest, Transfers!None
  <2> QED
    BY <1>1, <2>1, RefusalCancels, CancelsLeaves
<1>3. CASE busy /\ ~Transfers!Full(s.outgoing)
  <2>1. t = Transfers!TrySend(s, Transfers!RetryResult(m.task))
    BY <1>3 DEF Transfers!IngestRetryRequest, Transfers!None
  <2>2. Transfers!RetryResult(m.task) \in Items
    BY <1>1, AnswersMade DEF Asked
  <2> QED
    BY <2>1, <2>2, SentOn, BeforeLeaves
<1>4. CASE ~busy /\ Transfers!Full(s.commands)
  <2>1. t = Transfers!Refuses(e, clear, m.task) /\ s.active = 0
    BY <1>4 DEF Transfers!IngestRetryRequest, Transfers!None
  <2>2. /\ clear \in Handles /\ clear.active = s.active /\ clear.activeRequest = s.activeRequest
        /\ clear.pendingRequest = s.pendingRequest /\ clear.halfCancelled = s.halfCancelled
        /\ clear.cancelledSelection = s.cancelledSelection
        /\ clear.commands = s.commands /\ clear.outgoing = s.outgoing
    BY DEF Handles
  <2> HIDE DEF clear, t
  <2>3. Fits(clear) /\ Answering(clear)
    BY <2>2 DEF Fits, Answering
  <2>4. Cancels(clear, Transfers!Refuses(e, clear, m.task))
    BY <1>1, <2>2, <2>3, RefusalCancels
  <2> QED
    BY <2>1, <2>2, <2>4 DEF Leaves, Cancels, ActiveStays, Answering, t
<1>5. CASE ~busy /\ ~Transfers!Full(s.commands)
  <2>1. t = Transfers!Enqueue(taken, m) /\ s.active = 0
    BY <1>5 DEF Transfers!IngestRetryRequest, Transfers!None
  <2>2. /\ taken \in Handles /\ taken.activeRequest = s.activeRequest
        /\ taken.pendingRequest = s.pendingRequest /\ taken.halfCancelled = s.halfCancelled
        /\ taken.commands = s.commands /\ taken.outgoing = s.outgoing
    BY <1>1 DEF Handles
  <2> HIDE DEF taken, t
  <2>3. AsBefore(taken, Transfers!Enqueue(taken, m))
    BY <1>5, <2>2, Enqueued DEF Fits
  <2> QED
    BY <2>1, <2>2, <2>3 DEF Leaves, AsBefore, ActiveStays, Answering, t
<1> QED
  BY <1>2, <1>3, <1>4, <1>5

LEMMA RetryResultLeaves ==
  ASSUME NEW e \in Transfers!Ends, NEW s \in Handles, Fits(s), Answering(s),
         NEW m \in Items, m.kind \in OfTask
  PROVE  Leaves(s, Transfers!IngestRetryResult(e, s, m))
<1> DEFINE t == Transfers!IngestRetryResult(e, s, m)
           heard == [s EXCEPT !.pendingRetry = 0]
<1>1. m.task \in Tasks
  BY ItemTyped
<1>2. CASE s.pendingRetry # m.task \/ Transfers!Full(s.commands)
  <2>1. t = Transfers!Refuses(e, s, m.task)
    BY <1>2 DEF Transfers!IngestRetryResult
  <2> QED
    BY <1>1, <2>1, RefusalCancels, CancelsLeaves
<1>3. CASE ~(s.pendingRetry # m.task \/ Transfers!Full(s.commands))
  <2>1. t = Transfers!Enqueue(heard, m)
    BY <1>3 DEF Transfers!IngestRetryResult, Transfers!None
  <2>2. /\ heard \in Handles /\ AsBefore(s, heard) /\ heard.commands = s.commands
    BY DEF Handles, Owned, AsBefore, Fits
  <2> HIDE DEF heard, t
  <2>3. AsBefore(heard, Transfers!Enqueue(heard, m))
    BY <1>3, <2>2, Enqueued DEF AsBefore
  <2> QED
    BY <2>1, <2>2, <2>3, BeforeLeaves DEF AsBefore, t
<1> QED
  BY <1>2, <1>3

LEMMA ActionLeaves ==
  ASSUME NEW s \in Handles, Fits(s), Answering(s), NEW m \in Items
  PROVE  Leaves(s, Transfers!IngestAction(s, m))
<1> DEFINE t == [s EXCEPT !.cancelled = TRUE]
<1>1. /\ t \in Handles /\ t.active = s.active /\ t.activeRequest = s.activeRequest
      /\ t.pendingRequest = s.pendingRequest /\ t.halfCancelled = s.halfCancelled
      /\ t.cancelled /\ t.cancelledSelection = s.cancelledSelection
      /\ t.commands = s.commands /\ t.outgoing = s.outgoing
  BY DEF Handles
<1>2. Transfers!IngestAction(s, m) \in {s, t}
  BY DEF Transfers!IngestAction
<1> HIDE DEF t
<1>3. Leaves(s, t) /\ Leaves(s, s)
  BY <1>1 DEF Leaves, ActiveStays, Answering, Fits
<1> QED
  BY <1>2, <1>3

LEMMA BodyLeaves ==
  ASSUME NEW e \in Transfers!Ends, NEW s \in Handles, Fits(s), Answering(s),
         NEW m \in Items, m.kind \in OfTask
  PROVE  Leaves(s, Transfers!IngestBody(e, s, m))
<1>1. m.task \in Tasks
  BY ItemTyped
<1>2. CASE Transfers!Full(s.commands)
  <2>1. Transfers!IngestBody(e, s, m) = Transfers!Refuses(e, s, m.task)
    BY <1>2 DEF Transfers!IngestBody
  <2> QED
    BY <1>1, <2>1, RefusalCancels, CancelsLeaves
<1>3. CASE ~Transfers!Full(s.commands)
  BY <1>3, Enqueued, BeforeLeaves DEF Transfers!IngestBody
<1> QED
  BY <1>2, <1>3

LEMMA OfferLeaves ==
  ASSUME NEW e \in Transfers!Ends, NEW s \in Handles, Fits(s), Answering(s),
         NEW m \in Items, m.kind \in OfTask
  PROVE  Leaves(s, Transfers!IngestOffer(e, s, m))
<1> DEFINE t == Transfers!IngestOffer(e, s, m)
           stale == s.cancelledRetry = m.task \/ (m.request # 0 /\ s.pendingRequest # m.request)
           taken == IF m.request = 0 THEN s ELSE [s EXCEPT !.pendingRequest = 0]
           kept == IF taken.pendingRetry = m.task THEN 0 ELSE taken.pendingRetry
           clear == [taken EXCEPT !.cancelled = FALSE, !.pendingRetry = kept]
           busy == s.active # 0 \/ s.selectorRequest # 0 \/ s.pendingRetry \notin {0, m.task}
           dropped == [clear EXCEPT !.activeRequest = 0]
           made == [clear EXCEPT !.activeRequest = m.request, !.active = m.task]
<1>1. m.task \in Tasks /\ m.task \in Owned /\ m.request \in Asked /\ m.task # 0
  BY ItemTyped
<1>2. CASE stale
  <2>1. t = Transfers!Answers(e, s, m)
    BY <1>2 DEF Transfers!IngestOffer, Transfers!None
  <2> QED
    BY <2>1, Answered, CancelsLeaves
<1>3. CASE ~stale
  <2>1. /\ taken \in Handles /\ taken.active = s.active /\ taken.activeRequest = s.activeRequest
        /\ taken.halfCancelled = s.halfCancelled /\ taken.cancelled = s.cancelled
        /\ taken.cancelledSelection = s.cancelledSelection /\ taken.commands = s.commands
        /\ taken.outgoing = s.outgoing /\ taken.pendingRequest \in {0, s.pendingRequest}
        /\ m.request # 0 => taken.pendingRequest = 0
    BY DEF Handles, Asked
  <2>2. m.request \in {0, s.pendingRequest}
    BY <1>3
  <2>3. t = IF busy THEN Transfers!Answers(e, taken, m)
            ELSE IF Transfers!Full(s.commands) THEN Transfers!Refuses(e, dropped, m.task)
            ELSE Transfers!Enqueue(made, m)
    BY <1>3 DEF Transfers!IngestOffer, Transfers!None
  <2> HIDE DEF taken, t
  <2>4. Fits(taken) /\ Answering(taken)
    BY <2>1 DEF Fits, Answering
  <2>5. CASE busy
    <3>1. Cancels(taken, Transfers!Answers(e, taken, m))
      BY <2>1, <2>4, Answered
    <3> QED
      BY <2>1, <2>3, <2>5, <3>1 DEF Leaves, Cancels, ActiveStays, Answering, t
  <2>6. CASE ~busy
    <3>1. s.active = 0
      BY <2>6
    <3>2. kept \in Owned
      BY <2>1 DEF Handles, Owned
    <3> HIDE DEF kept
    <3>3. /\ clear \in Handles /\ clear.active = 0 /\ clear.commands = s.commands
          /\ clear.outgoing = s.outgoing /\ clear.pendingRequest = taken.pendingRequest
          /\ clear.halfCancelled = s.halfCancelled
          /\ clear.cancelledSelection = s.cancelledSelection
      BY <2>1, <3>1, <3>2 DEF Handles
    <3> HIDE DEF clear
    <3>4. /\ dropped \in Handles /\ dropped.active = 0 /\ dropped.activeRequest = 0
          /\ dropped.commands = s.commands
          /\ dropped.outgoing = s.outgoing /\ dropped.pendingRequest = taken.pendingRequest
          /\ dropped.halfCancelled = s.halfCancelled
      BY <3>3 DEF Handles, Asked
    <3>5. /\ made \in Handles /\ made.active = m.task /\ made.activeRequest = m.request
          /\ made.commands = s.commands
          /\ made.outgoing = s.outgoing /\ made.pendingRequest = taken.pendingRequest
          /\ made.halfCancelled = s.halfCancelled
      BY <1>1, <3>3 DEF Handles
    <3> HIDE DEF dropped, made
    <3>6. CASE Transfers!Full(s.commands)
      <4>1. Cancels(dropped, Transfers!Refuses(e, dropped, m.task))
        BY <1>1, <3>4, RefusalCancels DEF Fits, Answering
      <4>2. t = Transfers!Refuses(e, dropped, m.task)
        BY <2>3, <2>6, <3>6
      <4> QED
        BY <2>1, <3>1, <3>4, <4>1, <4>2 DEF Leaves, Cancels, ActiveStays, Answering, t
    <3>7. CASE ~Transfers!Full(s.commands)
      <4>1. AsBefore(made, Transfers!Enqueue(made, m))
        BY <3>5, <3>7, Enqueued DEF Fits
      <4>2. t = Transfers!Enqueue(made, m)
        BY <2>3, <2>6, <3>7
      <4> QED
        BY <1>1, <2>1, <2>2, <3>1, <3>5, <4>1, <4>2
           DEF Leaves, AsBefore, ActiveStays, Answering, t
    <3> QED
      BY <3>6, <3>7
  <2> QED
    BY <2>5, <2>6
<1> QED
  BY <1>2, <1>3

LEMMA IngestedLeaves ==
  ASSUME NEW e \in Transfers!Ends, NEW s \in Handles, Fits(s), Answering(s), NEW m \in Items
  PROVE  Leaves(s, Transfers!Ingested(e, s, m))
<1> DEFINE t == Transfers!Ingested(e, s, m)
<1>1. m.kind \in OfSelection \cup OfTask
  BY ItemTyped
<1>2. CASE m.kind = "selectionRequest"
  <2>1. t = Transfers!IngestSelectionRequest(s, m)
    BY <1>2 DEF Transfers!Ingested
  <2> QED
    BY <2>1, SelectionRequestLeaves
<1>3. CASE m.kind = "selectionCancel"
  <2>1. t = Transfers!IngestSelectionCancel(s, m)
    BY <1>3 DEF Transfers!Ingested
  <2> QED
    BY <2>1, SelectionCancelLeaves
<1>4. CASE m.kind = "selectionResult"
  <2>1. t = Transfers!IngestSelectionResult(s, m)
    BY <1>4 DEF Transfers!Ingested
  <2> QED
    BY <2>1, SelectionResultLeaves
<1>5. CASE m.kind = "retryRequest"
  <2>1. t = Transfers!IngestRetryRequest(e, s, m) /\ m.kind \in OfTask
    BY <1>5 DEF Transfers!Ingested, OfTask
  <2> QED
    BY <2>1, RetryRequestLeaves
<1>6. CASE m.kind = "retryResult"
  <2>1. t = Transfers!IngestRetryResult(e, s, m) /\ m.kind \in OfTask
    BY <1>6 DEF Transfers!Ingested, OfTask
  <2> QED
    BY <2>1, RetryResultLeaves
<1>7. CASE m.kind = "action"
  <2>1. t = Transfers!IngestAction(s, m)
    BY <1>7 DEF Transfers!Ingested
  <2> QED
    BY <2>1, ActionLeaves
<1>8. CASE m.kind = "offer"
  <2>1. t = Transfers!IngestOffer(e, s, m) /\ m.kind \in OfTask
    BY <1>8 DEF Transfers!Ingested, OfTask
  <2> QED
    BY <2>1, OfferLeaves
<1>9. CASE m.kind \notin {"selectionRequest", "selectionCancel", "selectionResult",
                          "retryRequest", "retryResult", "action", "offer"}
  <2>1. t = Transfers!IngestBody(e, s, m) /\ m.kind \in OfTask
    BY <1>1, <1>9 DEF Transfers!Ingested, OfSelection
  <2> QED
    BY <2>1, BodyLeaves
<1> QED
  BY <1>2, <1>3, <1>4, <1>5, <1>6, <1>7, <1>8, <1>9

-----------------------------------------------------------------------------
(* The loops and the user.                                                 *)

\* What else does not change while a handle does.
OnlyHandle(e, t) ==
  handle' = [handle EXCEPT ![e] = t] /\ worker' = worker /\ stored' = stored

LEMMA HandleTypes ==
  ASSUME TaskTypes, NEW e \in Transfers!Ends
  PROVE  /\ handle[e] \in Handles /\ worker[e] \in Workers /\ transit[e] \in Seq(Items)
         /\ Fits(handle[e]) /\ Answering(handle[e]) /\ Len(transit[e]) <= TaskTransit
  BY DEF TaskTypes

LEMMA LeavesTypes ==
  ASSUME TaskTypes, NEW e \in Transfers!Ends, NEW t \in Handles, Fits(t), Answering(t),
         OnlyHandle(e, t), transit' \in [Transfers!Ends -> Seq(Items)],
         \A d \in Transfers!Ends : Len(transit'[d]) <= TaskTransit,
         gaveUp' \subseteq Tasks, withdrawn' \subseteq Requests, clicks' \in 0..TaskClicks
  PROVE  TaskTypes'
<1>1. handle' \in [Transfers!Ends -> Handles]
  BY DEF TaskTypes, OnlyHandle
<1>2. ASSUME NEW d \in Transfers!Ends PROVE Fits(handle'[d]) /\ Answering(handle'[d])
  BY <1>2 DEF TaskTypes, OnlyHandle
<1> QED
  BY <1>1, <1>2 DEF TaskTypes, OnlyHandle

LEMMA LeavesKeeps ==
  ASSUME TaskInv, NEW e \in Transfers!Ends, NEW t, Leaves(handle[e], t), OnlyHandle(e, t),
         transit' \in [Transfers!Ends -> Seq(Items)],
         \A d \in Transfers!Ends : Len(transit'[d]) <= TaskTransit,
         UNCHANGED <<gaveUp, withdrawn, clicks>>
  PROVE  TaskInv'
<1> DEFINE s == handle[e]
<1>1. TaskTypes'
  BY LeavesTypes DEF TaskInv, Leaves, TaskTypes
<1>2. /\ handle \in [Transfers!Ends -> Handles] /\ handle'[e] = t
      /\ \A d \in Transfers!Ends \ {e} : handle'[d] = handle[d]
  BY DEF TaskInv, TaskTypes, OnlyHandle
<1>3. ASSUME NEW d \in Transfers!Ends PROVE WorksOn(handle'[d], worker'[d])
  <2>1. WorksOn(handle[d], worker[d])
    BY DEF TaskInv
  <2>2. worker[d].pc \in AtWork => worker[d].pc \notin AtRest
    BY DEF AtWork, AtRest
  <2> QED
    BY <1>2, <2>1, <2>2 DEF WorksOn, OnlyHandle, Leaves, ActiveStays
<1>4. /\ "controller" \in Transfers!Ends /\ "host" \in Transfers!Ends
      /\ Answering(handle["controller"]) /\ 0 \notin withdrawn
  BY TasksBounds DEF TaskInv, TaskTypes, Transfers!Ends
<1>5. AskedOnce'
  <2>1. \/ handle'["controller"] = handle["controller"]
        \/ Leaves(handle["controller"], handle'["controller"])
    BY <1>2, <1>4
  <2>2. AskedOnce
    BY DEF TaskInv
  <2> QED
    BY <1>4, <2>1, <2>2 DEF AskedOnce, Leaves
<1>6. Transfers!WithdrawnStaysOut'
  <2>1. \/ handle'["controller"] = handle["controller"]
        \/ Leaves(handle["controller"], handle'["controller"])
    BY <1>2, <1>4
  <2>2. AskedOnce /\ Transfers!WithdrawnStaysOut
    BY DEF TaskInv
  <2> QED
    BY <1>4, <2>1, <2>2
       DEF AskedOnce, Transfers!WithdrawnStaysOut, Leaves, ActiveStays, Answering
<1>7. Transfers!CancelledSelectionCloses'
  <2>1. \/ handle'["host"] = handle["host"]
        \/ Leaves(handle["host"], handle'["host"])
    BY <1>2, <1>4
  <2>2. worker["host"].pc = "select" => handle["host"].active # 0
    <3>1. WorksOn(handle["host"], worker["host"])
      BY <1>4 DEF TaskInv
    <3> QED
      BY <3>1 DEF WorksOn, AtWork, AtRest
  <2>3. Transfers!CancelledSelectionCloses
    BY DEF TaskInv
  <2> QED
    BY <2>1, <2>2, <2>3
       DEF Transfers!CancelledSelectionCloses, Leaves, ActiveStays, OnlyHandle
<1> QED
  BY <1>1, <1>3, <1>5, <1>6, <1>7 DEF TaskInv

LEMMA IngestKeeps ==
  ASSUME TaskInv, NEW e \in Transfers!Ends, Transfers!Ingest(e)
  PROVE  TaskInv'
<1> DEFINE d == Transfers!Other(e)
           t == Transfers!Ingested(e, handle[e], Head(transit[d]))
<1>1. /\ transit[d] # <<>> /\ OnlyHandle(e, t) /\ transit' = [transit EXCEPT ![d] = Tail(@)]
      /\ UNCHANGED <<gaveUp, withdrawn, clicks>>
  BY DEF Transfers!Ingest, OnlyHandle
<1>2. d \in Transfers!Ends
  BY DEF Transfers!Other, Transfers!Ends
<1> HIDE DEF d
<1>3. /\ transit[d] \in Seq(Items) /\ Head(transit[d]) \in Items /\ Tail(transit[d]) \in Seq(Items)
      /\ Len(Tail(transit[d])) <= Len(transit[d]) /\ Len(transit[d]) \in Nat
      /\ Len(Tail(transit[d])) \in Nat
  BY <1>1, <1>2, HandleTypes, TailOf DEF TaskInv
<1>4. Leaves(handle[e], t)
  BY <1>3, HandleTypes, IngestedLeaves DEF TaskInv
<1> HIDE DEF t
<1>5. /\ transit' \in [Transfers!Ends -> Seq(Items)]
      /\ \A c \in Transfers!Ends : Len(transit'[c]) <= TaskTransit
  BY <1>1, <1>2, <1>3, TasksBounds DEF TaskInv, TaskTypes
<1> QED
  BY <1>1, <1>4, <1>5, LeavesKeeps

LEMMA ApplySelectionCancelKeeps ==
  ASSUME TaskInv, NEW e \in Transfers!Ends, Transfers!ApplySelectionCancel(e)
  PROVE  TaskInv'
<1> DEFINE s == handle[e]
           t == [s EXCEPT !.halfCancelled = FALSE, !.cancelled = TRUE]
<1>1. OnlyHandle(e, t) /\ UNCHANGED <<transit, gaveUp, withdrawn, clicks>>
  BY DEF Transfers!ApplySelectionCancel, OnlyHandle
<1>2. s \in Handles /\ Fits(s) /\ Answering(s)
  BY HandleTypes DEF TaskInv
<1> HIDE DEF s
<1>3. /\ t \in Handles /\ t.active = s.active /\ t.activeRequest = s.activeRequest
      /\ t.cancelled /\ t.pendingRequest = s.pendingRequest
      /\ t.commands = s.commands /\ t.outgoing = s.outgoing
  BY <1>2 DEF Handles
<1> HIDE DEF t
<1>4. Fits(t) /\ Answering(t)
  BY <1>2, <1>3 DEF Fits, Answering
<1>5. /\ handle \in [Transfers!Ends -> Handles] /\ handle'[e] = t /\ worker' = worker
      /\ \A d \in Transfers!Ends \ {e} : handle'[d] = handle[d]
  BY <1>1 DEF TaskInv, TaskTypes, OnlyHandle
<1>6. TaskTypes'
  BY <1>1, <1>3, <1>4, LeavesTypes DEF TaskInv, TaskTypes
<1>7. ASSUME NEW d \in Transfers!Ends PROVE WorksOn(handle'[d], worker'[d])
  <2>1. WorksOn(handle[d], worker[d])
    BY DEF TaskInv
  <2> QED
    BY <1>3, <1>5, <2>1 DEF WorksOn, s
<1>8. AskedOnce' /\ Transfers!WithdrawnStaysOut'
  BY <1>1, <1>3, <1>5 DEF TaskInv, AskedOnce, Transfers!WithdrawnStaysOut, Transfers!Ends, s
<1>9. Transfers!CancelledSelectionCloses'
  BY <1>3, <1>5 DEF TaskInv, Transfers!CancelledSelectionCloses, Transfers!Ends, s
<1> QED
  BY <1>6, <1>7, <1>8, <1>9 DEF TaskInv

LEMMA PumpKeeps ==
  ASSUME TaskInv, NEW e \in Transfers!Ends, Transfers!Pump(e)
  PROVE  TaskInv'
<1> DEFINE s == handle[e]
<1>1. /\ s \in Handles /\ Fits(s) /\ Answering(s) /\ transit[e] \in Seq(Items)
      /\ Len(transit[e]) <= TaskTransit /\ Len(transit[e]) < TaskTransit
      /\ UNCHANGED <<worker, stored, gaveUp, withdrawn, clicks>>
  BY HandleTypes DEF TaskInv, Transfers!Pump
<1>2. ASSUME NEW m \in Items, NEW t, AsBefore(s, t), handle' = [handle EXCEPT ![e] = t],
             transit' = [transit EXCEPT ![e] = Append(@, m)]
      PROVE  TaskInv'
  <2>1. /\ Append(transit[e], m) \in Seq(Items) /\ Len(transit[e]) \in Nat
        /\ Len(Append(transit[e], m)) = Len(transit[e]) + 1
    BY <1>1, Appended
  <2>2. /\ transit' \in [Transfers!Ends -> Seq(Items)]
        /\ \A c \in Transfers!Ends : Len(transit'[c]) <= TaskTransit
    BY <1>1, <1>2, <2>1, TasksBounds DEF TaskInv, TaskTypes
  <2>3. Leaves(s, t)
    BY <1>1, <1>2, BeforeLeaves
  <2>4. OnlyHandle(e, t)
    BY <1>1, <1>2 DEF OnlyHandle
  <2> QED
    BY <1>1, <2>2, <2>3, <2>4, LeavesKeeps
<1>3. CASE s.control # 0 /\ transit' = [transit EXCEPT ![e] = Append(@, Transfers!Action(s.control))]
             /\ handle' = [handle EXCEPT ![e] = [s EXCEPT !.control = 0]]
  <2>1. s.control \in Tasks
    BY <1>1, <1>3 DEF Handles, Owned
  <2>2. Transfers!Action(s.control) \in Items
    BY <2>1, AnswersMade DEF Asked
  <2>3. AsBefore(s, [s EXCEPT !.control = 0])
    BY <1>1 DEF AsBefore, Handles, Owned, Fits
  <2> QED
    BY <1>2, <1>3, <2>2, <2>3
<1>4. CASE s.outgoing # <<>> /\ transit' = [transit EXCEPT ![e] = Append(@, Head(s.outgoing))]
             /\ handle' = [handle EXCEPT ![e] = [s EXCEPT !.outgoing = Tail(@)]]
  <2> DEFINE t == [s EXCEPT !.outgoing = Tail(s.outgoing)]
  <2>1. /\ s.outgoing \in Seq(Items) /\ Head(s.outgoing) \in Items
        /\ Tail(s.outgoing) \in Seq(Items) /\ Len(s.outgoing) \in Nat
        /\ Len(Tail(s.outgoing)) = Len(s.outgoing) - 1
    BY <1>1, <1>4, TailOf DEF Handles
  <2>2. t \in Handles
    BY <1>1, <2>1 DEF Handles
  <2>3. AsBefore(s, t)
    BY <1>1, <2>1, <2>2, TasksBounds DEF AsBefore, Fits, Handles
  <2> QED
    BY <1>2, <1>4, <2>1, <2>3
<1> QED
  BY <1>3, <1>4 DEF Transfers!Pump, Transfers!None

LEMMA UsedAreTasks == Transfers!Used \subseteq Tasks /\ Transfers!Fresh \subseteq Tasks
  BY DEF Transfers!Used, Transfers!Fresh

\* The user starts, retries or cancels a task.
LEMMA ClickKeeps ==
  ASSUME TaskInv, NEW t, Cancels(handle["controller"], t), Transfers!Click(t),
         gaveUp' \subseteq Tasks, UNCHANGED withdrawn
  PROVE  TaskInv'
<1> DEFINE s == handle["controller"]
<1>1. /\ "controller" \in Transfers!Ends /\ "host" \in Transfers!Ends /\ "host" # "controller"
  BY DEF Transfers!Ends
<1>2. s \in Handles /\ Fits(s) /\ Answering(s)
  BY <1>1, HandleTypes DEF TaskInv
<1>3. Leaves(s, t)
  BY <1>2, CancelsLeaves
<1>4. OnlyHandle("controller", t) /\ transit' = transit /\ clicks > 0 /\ clicks' = clicks - 1
  BY DEF Transfers!Click, OnlyHandle
<1>5. clicks \in 0..TaskClicks /\ clicks' \in 0..TaskClicks
  BY <1>4, TasksBounds DEF TaskInv, TaskTypes
<1>6. TaskTypes'
  BY <1>1, <1>3, <1>4, <1>5, LeavesTypes DEF TaskInv, TaskTypes, Leaves
<1>7. /\ handle'["controller"] = t /\ handle'["host"] = handle["host"] /\ worker' = worker
      /\ 0 \notin withdrawn
  BY <1>1, <1>4, TasksBounds DEF TaskInv, TaskTypes, OnlyHandle
<1>8. ASSUME NEW d \in Transfers!Ends PROVE WorksOn(handle'[d], worker'[d])
  <2>1. WorksOn(handle[d], worker[d])
    BY DEF TaskInv
  <2>2. worker[d].pc \in AtWork => worker[d].pc \notin AtRest
    BY DEF AtWork, AtRest
  <2>3. d = "controller" \/ d = "host"
    BY DEF Transfers!Ends
  <2> QED
    BY <1>3, <1>7, <2>1, <2>2, <2>3 DEF WorksOn, Leaves, ActiveStays
<1>9. AskedOnce'
  <2> DEFINE all == (withdrawn \cup {s.pendingRequest, s.activeRequest}) \ {0}
             new == (withdrawn \cup {t.pendingRequest, t.activeRequest}) \ {0}
  <2>1. new \subseteq all /\ t.pendingRequest \notin withdrawn
    BY <1>7 DEF TaskInv, AskedOnce, Cancels
  <2>2. all \subseteq 1..(TaskClicks - clicks)
    BY DEF TaskInv, AskedOnce
  <2>3. 1..(TaskClicks - clicks) \subseteq 1..(TaskClicks - clicks')
    BY <1>4, <1>5, TasksBounds
  <2>4. new \subseteq 1..(TaskClicks - clicks')
    BY <2>1, <2>2, <2>3
  <2> QED
    BY <1>7, <2>1, <2>4 DEF AskedOnce
<1>10. Transfers!WithdrawnStaysOut'
  BY <1>2, <1>3, <1>7
     DEF TaskInv, AskedOnce, Transfers!WithdrawnStaysOut, Leaves, ActiveStays, Answering
<1>11. Transfers!CancelledSelectionCloses'
  BY <1>7 DEF TaskInv, Transfers!CancelledSelectionCloses
<1> QED
  BY <1>6, <1>8, <1>9, <1>10, <1>11 DEF TaskInv

LEMMA UserAdmits ==
  ASSUME TaskInv, NEW kind \in OfTask, NEW t \in Tasks
  PROVE  Cancels(handle["controller"],
                 Transfers!Admit(handle["controller"], Transfers!Item(kind, t, 0, FALSE)))
<1>1. "controller" \in Transfers!Ends
  BY DEF Transfers!Ends
<1>2. Transfers!Item(kind, t, 0, FALSE) \in Items /\ Transfers!Item(kind, t, 0, FALSE).kind = kind
  BY ItemMade DEF Asked, Transfers!Item
<1> QED
  BY <1>1, <1>2, HandleTypes, Admitted DEF TaskInv

LEMMA UserTasksKeep ==
  ASSUME TaskInv, NEW t \in Tasks,
         Transfers!UserStarts(t) \/ Transfers!UserRetries(t) \/ Transfers!UserCancels(t)
  PROVE  TaskInv'
<1>1. gaveUp \subseteq Tasks /\ "controller" \in Transfers!Ends
  BY DEF TaskInv, TaskTypes, Transfers!Ends
<1>2. CASE Transfers!UserStarts(t)
  <2>1. /\ Transfers!Click(Transfers!Admit(handle["controller"], Transfers!Item("start", t, 0, FALSE)))
        /\ gaveUp' \subseteq Tasks /\ UNCHANGED withdrawn
    BY <1>1, <1>2 DEF Transfers!UserStarts, Transfers!None
  <2> QED
    BY <2>1, UserAdmits, ClickKeeps DEF OfTask
<1>3. CASE Transfers!UserRetries(t)
  <2>1. /\ Transfers!Click(Transfers!Admit(handle["controller"], Transfers!Item("retry", t, 0, FALSE)))
        /\ gaveUp' \subseteq Tasks /\ UNCHANGED withdrawn
    BY <1>1, <1>3 DEF Transfers!UserRetries, Transfers!None
  <2> QED
    BY <2>1, UserAdmits, ClickKeeps DEF OfTask
<1>4. CASE Transfers!UserCancels(t)
  <2>1. /\ Transfers!Click(Transfers!CancelTask(handle["controller"], t))
        /\ gaveUp' \subseteq Tasks /\ UNCHANGED withdrawn
    BY <1>1, <1>4 DEF Transfers!UserCancels
  <2>2. Cancels(handle["controller"], Transfers!CancelTask(handle["controller"], t))
    BY <1>1, HandleTypes, CancelledTask DEF TaskInv
  <2> QED
    BY <2>1, <2>2, ClickKeeps
<1> QED
  BY <1>2, <1>3, <1>4

\* The controller's handle and the history of its requests after a click.
LEMMA RequestKeeps ==
  ASSUME TaskInv, NEW t \in Handles, Fits(t), Answering(t), Transfers!Click(t),
         ActiveStays(handle["controller"], t),
         gaveUp' \subseteq Tasks, withdrawn' \subseteq Requests, AskedOnce',
         Transfers!WithdrawnStaysOut'
  PROVE  TaskInv'
<1>1. /\ "controller" \in Transfers!Ends /\ "host" \in Transfers!Ends /\ "host" # "controller"
  BY DEF Transfers!Ends
<1>2. OnlyHandle("controller", t) /\ transit' = transit /\ clicks > 0 /\ clicks' = clicks - 1
  BY DEF Transfers!Click, OnlyHandle
<1>3. clicks' \in 0..TaskClicks
  BY <1>2, TasksBounds DEF TaskInv, TaskTypes
<1>4. TaskTypes'
  BY <1>1, <1>2, <1>3, LeavesTypes DEF TaskInv, TaskTypes
<1>5. handle'["controller"] = t /\ handle'["host"] = handle["host"] /\ worker' = worker
  BY <1>1, <1>2 DEF TaskInv, TaskTypes, OnlyHandle
<1>6. ASSUME NEW d \in Transfers!Ends PROVE WorksOn(handle'[d], worker'[d])
  <2>1. WorksOn(handle[d], worker[d])
    BY DEF TaskInv
  <2>2. worker[d].pc \in AtWork => worker[d].pc \notin AtRest
    BY DEF AtWork, AtRest
  <2>3. d = "controller" \/ d = "host"
    BY DEF Transfers!Ends
  <2> QED
    BY <1>5, <2>1, <2>2, <2>3 DEF WorksOn, ActiveStays
<1>7. Transfers!CancelledSelectionCloses'
  BY <1>5 DEF TaskInv, Transfers!CancelledSelectionCloses
<1> QED
  BY <1>4, <1>6, <1>7 DEF TaskInv

LEMMA UserRequestsKeeps ==
  ASSUME TaskInv, NEW r \in Requests, Transfers!UserRequests(r)
  PROVE  TaskInv'
<1> DEFINE s == handle["controller"]
           t == Transfers!RequestRemote(s, r)
<1>1. /\ r = TaskClicks + 1 - clicks /\ s.active = 0 /\ ~Transfers!Full(s.outgoing)
      /\ Transfers!Click(t) /\ UNCHANGED <<gaveUp, withdrawn>>
  BY DEF Transfers!UserRequests, Transfers!IsBusy, Transfers!None
<1>2. "controller" \in Transfers!Ends /\ s \in Handles /\ Fits(s) /\ Answering(s)
  BY HandleTypes DEF TaskInv, Transfers!Ends
<1> HIDE DEF s
<1>3. /\ t \in Handles /\ Fits(t) /\ Answering(t) /\ t.active = 0 /\ t.activeRequest = 0
      /\ t.pendingRequest = r
  BY <1>1, <1>2, RequestedRemote
<1> HIDE DEF t
<1>4. handle'["controller"] = t /\ clicks' = clicks - 1 /\ clicks > 0 /\ clicks \in 0..TaskClicks
  BY <1>1, <1>2 DEF Transfers!Click, TaskInv, TaskTypes
<1>5. withdrawn \subseteq 1..(TaskClicks - clicks) /\ 0 \notin withdrawn
  BY TasksBounds DEF TaskInv, TaskTypes, AskedOnce
<1>6. r \in 1..(TaskClicks - clicks') /\ r \notin 1..(TaskClicks - clicks)
  BY <1>1, <1>4, TasksBounds
<1>7. 1..(TaskClicks - clicks) \subseteq 1..(TaskClicks - clicks')
  BY <1>4, TasksBounds
<1>8. AskedOnce'
  <2>1. (withdrawn \cup {r, 0}) \ {0} \subseteq 1..(TaskClicks - clicks') /\ r \notin withdrawn
    BY <1>5, <1>6, <1>7
  <2> QED
    BY <1>1, <1>3, <1>4, <2>1 DEF AskedOnce
<1>9. Transfers!WithdrawnStaysOut'
  BY <1>1, <1>3, <1>4, <1>5 DEF Transfers!WithdrawnStaysOut
<1> QED
  BY <1>1, <1>3, <1>8, <1>9, RequestKeeps DEF TaskInv, TaskTypes, ActiveStays, s

LEMMA UserWithdrawsKeeps ==
  ASSUME TaskInv, Transfers!UserWithdraws
  PROVE  TaskInv'
<1> DEFINE s == handle["controller"]
           t == Transfers!CancelRemote(s)
<1>1. /\ s.pendingRequest # 0 \/ s.activeRequest # 0
      /\ Transfers!Click(t)
      /\ \/ /\ t = s \/ s.cancelled
            /\ UNCHANGED <<gaveUp, withdrawn>>
         \/ /\ t # s
            /\ withdrawn' = (withdrawn \union {s.pendingRequest, s.activeRequest}) \ {0}
            /\ gaveUp' = IF s.pendingRequest = 0 THEN gaveUp \union {s.active} ELSE gaveUp
  BY DEF Transfers!UserWithdraws, Transfers!None
<1>2. "controller" \in Transfers!Ends /\ s \in Handles /\ Fits(s) /\ Answering(s)
  BY HandleTypes DEF TaskInv, Transfers!Ends
<1>3. /\ gaveUp \subseteq Tasks /\ withdrawn \subseteq Requests /\ 0 \notin withdrawn
      /\ clicks \in 0..TaskClicks
      /\ (withdrawn \cup {s.pendingRequest, s.activeRequest}) \ {0} \subseteq 1..(TaskClicks - clicks)
      /\ s.pendingRequest \notin withdrawn
      /\ s.activeRequest \in withdrawn => s.cancelled
  BY TasksBounds DEF TaskInv, TaskTypes, AskedOnce, Transfers!WithdrawnStaysOut
<1> HIDE DEF s
<1>4. /\ Leaves(s, t) /\ t.activeRequest = s.activeRequest
      /\ t # s => t.pendingRequest = 0
      /\ t # s /\ s.pendingRequest = 0 => s.active # 0 /\ t.cancelled
  BY <1>2, CancelledRemote
<1> HIDE DEF t
<1>5. handle'["controller"] = t /\ clicks' = clicks - 1 /\ clicks > 0
  BY <1>1, <1>2 DEF Transfers!Click, TaskInv, TaskTypes
<1>6. 1..(TaskClicks - clicks) \subseteq 1..(TaskClicks - clicks')
  BY <1>3, <1>5, TasksBounds
<1>7. /\ s.active \in Owned /\ s.pendingRequest \in Asked /\ s.activeRequest \in Asked
  BY <1>2 DEF Handles
<1>8. gaveUp' \subseteq Tasks /\ withdrawn' \subseteq Requests /\ 0 \notin withdrawn'
  BY <1>1, <1>3, <1>4, <1>7 DEF Owned, Asked
<1>9. AskedOnce'
  <2>1. t.pendingRequest \notin withdrawn'
    BY <1>1, <1>3, <1>4, <1>8 DEF Leaves
  <2>2. (withdrawn' \cup {t.pendingRequest, t.activeRequest}) \ {0}
          \subseteq (withdrawn \cup {s.pendingRequest, s.activeRequest}) \ {0}
    BY <1>1, <1>4 DEF Leaves
  <2>3. (withdrawn' \cup {t.pendingRequest, t.activeRequest}) \ {0}
          \subseteq 1..(TaskClicks - clicks')
    BY <1>3, <1>6, <2>2
  <2> QED
    BY <1>5, <2>1, <2>3 DEF AskedOnce
<1>10. t.activeRequest \in withdrawn' => t.cancelled
  <2>1. CASE withdrawn' = withdrawn
    BY <1>2, <1>3, <1>4, <2>1 DEF Leaves, ActiveStays, Answering
  <2>2. CASE t # s /\ withdrawn' = (withdrawn \union {s.pendingRequest, s.activeRequest}) \ {0}
    <3>1. CASE s.pendingRequest = 0
      BY <1>4, <2>2, <3>1
    <3>2. CASE s.pendingRequest # 0
      <4>1. s.activeRequest = 0
        BY <1>2, <3>2 DEF Answering
      <4>2. t.activeRequest = 0
        BY <1>4, <4>1
      <4> QED
        BY <1>8, <4>2
    <3> QED
      BY <3>1, <3>2
  <2> QED
    BY <1>1, <2>1, <2>2
<1>11. Transfers!WithdrawnStaysOut'
  BY <1>5, <1>10 DEF Transfers!WithdrawnStaysOut
<1> QED
  BY <1>1, <1>4, <1>8, <1>9, <1>11, RequestKeeps DEF Leaves, s

-----------------------------------------------------------------------------
(* The worker.                                                             *)

\* What a step of the worker leaves of the handle, and of the worker.
WorkerLeaves(s, t, y) ==
  /\ t \in Handles /\ Fits(t) /\ Answering(t) /\ y \in Workers /\ WorksOn(t, y)
  /\ t.pendingRequest = s.pendingRequest /\ t.halfCancelled = s.halfCancelled
  /\ t.cancelledSelection = s.cancelledSelection
  /\ t.activeRequest \in {0, s.activeRequest}
  /\ t.activeRequest # 0 => (s.cancelled => t.cancelled)
  /\ y.pc = "select" => t.cancelledSelection # y.request

\* A worker that goes on while its handle keeps the active task.
Onward(s, y) == y \in Workers /\ y.pc # "select" /\ WorksOn(s, y)

RecordsTyped == stored' \in [Transfers!Ends -> TaskRecords]

LEMMA WorkerKeeps ==
  ASSUME TaskInv, NEW e \in Transfers!Ends, NEW t, NEW y, WorkerLeaves(handle[e], t, y),
         Transfers!Step(e, t, y), RecordsTyped
  PROVE  TaskInv'
<1> DEFINE s == handle[e]
<1>1. /\ handle' = [handle EXCEPT ![e] = t] /\ worker' = [worker EXCEPT ![e] = y]
      /\ UNCHANGED <<transit, gaveUp, withdrawn, clicks>>
  BY DEF Transfers!Step
<1>2. /\ handle \in [Transfers!Ends -> Handles] /\ handle'[e] = t
      /\ \A d \in Transfers!Ends \ {e} : handle'[d] = handle[d]
      /\ worker \in [Transfers!Ends -> Workers] /\ worker'[e] = y
      /\ \A d \in Transfers!Ends \ {e} : worker'[d] = worker[d]
  BY <1>1 DEF TaskInv, TaskTypes
<1>3. TaskTypes'
  <2>1. handle' \in [Transfers!Ends -> Handles] /\ worker' \in [Transfers!Ends -> Workers]
    BY <1>1, <1>2 DEF WorkerLeaves
  <2>2. ASSUME NEW d \in Transfers!Ends PROVE Fits(handle'[d]) /\ Answering(handle'[d])
    BY <1>2 DEF TaskInv, TaskTypes, WorkerLeaves
  <2> QED
    BY <1>1, <2>1, <2>2 DEF TaskInv, TaskTypes, RecordsTyped
<1>4. ASSUME NEW d \in Transfers!Ends PROVE WorksOn(handle'[d], worker'[d])
  BY <1>2 DEF TaskInv, WorkerLeaves
<1>5. /\ "controller" \in Transfers!Ends /\ "host" \in Transfers!Ends /\ 0 \notin withdrawn
  BY TasksBounds DEF TaskInv, TaskTypes, Transfers!Ends
<1>6. AskedOnce'
  <2>1. \/ handle'["controller"] = handle["controller"]
        \/ WorkerLeaves(handle["controller"], handle'["controller"], y)
    BY <1>2, <1>5
  <2> QED
    BY <1>1, <2>1 DEF TaskInv, AskedOnce, WorkerLeaves
<1>7. Transfers!WithdrawnStaysOut'
  <2>1. \/ handle'["controller"] = handle["controller"]
        \/ WorkerLeaves(handle["controller"], handle'["controller"], y)
    BY <1>2, <1>5
  <2> QED
    BY <1>1, <1>5, <2>1 DEF TaskInv, Transfers!WithdrawnStaysOut, WorkerLeaves
<1>8. Transfers!CancelledSelectionCloses'
  <2>1. \/ handle'["host"] = handle["host"] /\ worker'["host"] = worker["host"]
        \/ WorkerLeaves(handle["host"], handle'["host"], worker'["host"])
    BY <1>2, <1>5
  <2> QED
    BY <2>1 DEF TaskInv, Transfers!CancelledSelectionCloses, WorkerLeaves
<1> QED
  BY <1>3, <1>4, <1>6, <1>7, <1>8 DEF TaskInv

LEMMA RecordsStay ==
  ASSUME TaskInv, UNCHANGED stored
  PROVE  RecordsTyped
  BY DEF TaskInv, TaskTypes, RecordsTyped

LEMMA OnwardKeeps ==
  ASSUME TaskInv, NEW e \in Transfers!Ends, NEW t, NEW y, AsBefore(handle[e], t),
         Onward(handle[e], y), Transfers!Step(e, t, y), RecordsTyped
  PROVE  TaskInv'
<1>1. WorkerLeaves(handle[e], t, y)
  BY HandleTypes DEF TaskInv, WorkerLeaves, Onward, AsBefore, Answering, WorksOn
<1> QED
  BY <1>1, WorkerKeeps

LEMMA StandsKeeps ==
  ASSUME TaskInv, NEW e \in Transfers!Ends, NEW y, Onward(handle[e], y),
         Transfers!Step(e, handle[e], y), RecordsTyped
  PROVE  TaskInv'
<1>1. AsBefore(handle[e], handle[e])
  BY HandleTypes DEF TaskInv, AsBefore
<1> QED
  BY <1>1, OnwardKeeps

LEMMA WiresKeeps ==
  ASSUME TaskInv, NEW e \in Transfers!Ends, NEW m \in Items, NEW y, NEW z,
         Onward(handle[e], y), Onward(handle[e], z), Transfers!Wires(e, m, y, z), RecordsTyped
  PROVE  TaskInv'
<1>1. CASE Transfers!Step(e, handle[e], z)
  BY <1>1, StandsKeeps
<1>2. CASE Transfers!Step(e, Transfers!TrySend(handle[e], m), y)
  <2>1. AsBefore(handle[e], Transfers!TrySend(handle[e], m))
    BY HandleTypes, SentOn DEF TaskInv
  <2> QED
    BY <1>2, <2>1, OnwardKeeps
<1> QED
  BY <1>1, <1>2 DEF Transfers!Wires

LEMMA PlacesApart ==
  /\ \A pc \in Between : pc \notin AtRest /\ pc \notin AtWork /\ pc # "select"
  /\ \A pc \in AtWork : pc \notin AtRest
  /\ \A pc \in AtRest : pc \notin AtWork /\ pc # "select"
  BY DEF Between, AtRest, AtWork

LEMMA WorkerIs ==
  ASSUME TaskInv, NEW e \in Transfers!Ends, worker[e].pc \notin AtRest
  PROVE  /\ worker[e] \in Workers /\ worker[e].task # 0 /\ worker[e].task \in Tasks
         /\ worker[e].request \in Asked
         /\ worker[e].pc \in AtWork => handle[e].active = worker[e].task
<1>1. WorksOn(handle[e], worker[e]) /\ worker[e] \in Workers
  BY HandleTypes DEF TaskInv
<1> QED
  BY <1>1 DEF WorksOn, Workers, Owned

LEMMA WithFields ==
  ASSUME NEW x \in Workers, NEW ok \in BOOLEAN, NEW r \in Asked
  PROVE  /\ [x EXCEPT !.request = r] \in Workers /\ [x EXCEPT !.request = r].task = x.task
         /\ [x EXCEPT !.request = r].pc = x.pc
         /\ [x EXCEPT !.responding = ok] \in Workers /\ [x EXCEPT !.responding = ok].task = x.task
         /\ [x EXCEPT !.selecting = ok] \in Workers /\ [x EXCEPT !.selecting = ok].task = x.task
  BY DEF Workers

LEMMA AtIs ==
  ASSUME NEW x \in Workers, NEW pc \in AtWork \cup AtRest \cup Between
  PROVE  /\ Transfers!At(x, pc) \in Workers /\ Transfers!At(x, pc).pc = pc
         /\ Transfers!At(x, pc).task = x.task
  BY DEF Transfers!At, Workers

LEMMA AtBetween ==
  ASSUME NEW s, NEW x \in Workers, x.task # 0, NEW pc \in Between
  PROVE  Onward(s, Transfers!At(x, pc))
  BY AtIs, PlacesApart DEF Onward, WorksOn

LEMMA AtGoesOn ==
  ASSUME NEW s, NEW x \in Workers, x.task # 0, s.active = x.task, NEW pc \in AtWork, pc # "select"
  PROVE  Onward(s, Transfers!At(x, pc))
  BY AtIs DEF Onward, WorksOn

LEMMA EndsOnward ==
  ASSUME NEW s, NEW x \in Workers, x.task # 0, NEW ok \in BOOLEAN
  PROVE  Onward(s, Transfers!Ends_(x, ok))
<1> DEFINE pc == IF x.selecting THEN "unselect" ELSE IF x.responding THEN "respond"
                 ELSE IF ok THEN "finish" ELSE "fail"
           y == [x EXCEPT !.ok = ok]
<1>1. pc \in Between
  BY DEF Between
<1>2. Transfers!Ends_(x, ok) = [x EXCEPT !.ok = ok, !.pc = pc]
  BY DEF Transfers!Ends_
<1> HIDE DEF pc
<1>3. [x EXCEPT !.ok = ok, !.pc = pc] = Transfers!At(y, pc) /\ y \in Workers /\ y.task = x.task
  BY DEF Transfers!At, Workers
<1> HIDE DEF y
<1> QED
  BY <1>1, <1>2, <1>3, AtBetween

LEMMA RestIs ==
  /\ Transfers!Rest \in Workers /\ Transfers!Rest.pc = "idle"
  BY DEF Transfers!Rest, Workers, AtRest, Owned, Asked, Transfers!None

LEMMA RestingFor ==
  ASSUME NEW task \in Owned, NEW current \in Owned
  PROVE  /\ [Transfers!Rest EXCEPT !.task = task, !.current = current] \in Workers
         /\ [Transfers!Rest EXCEPT !.task = task, !.current = current].task = task
         /\ [Transfers!Rest EXCEPT !.current = current] \in Workers
         /\ [Transfers!Rest EXCEPT !.current = current].pc = "idle"
  BY RestIs DEF Workers

LEMMA ActiveSet ==
  ASSUME NEW s \in Handles, Fits(s), Answering(s), NEW task \in Owned
  PROVE  LET t == Transfers!SetActive(s, task) IN
         /\ t \in Handles /\ Fits(t) /\ Answering(t) /\ t.active = task
         /\ t.pendingRequest = s.pendingRequest /\ t.halfCancelled = s.halfCancelled
         /\ t.cancelledSelection = s.cancelledSelection
         /\ t.activeRequest \in {0, s.activeRequest}
         /\ t.activeRequest # 0 => t.cancelled = s.cancelled
<1> DEFINE none == [s EXCEPT !.active = 0, !.activeRequest = 0]
           fresh == [s EXCEPT !.active = task, !.cancelled = FALSE, !.activeRequest = 0]
<1>1. /\ none \in Handles /\ none.active = 0 /\ none.activeRequest = 0
      /\ none.pendingRequest = s.pendingRequest /\ none.halfCancelled = s.halfCancelled
      /\ none.cancelledSelection = s.cancelledSelection
      /\ none.commands = s.commands /\ none.outgoing = s.outgoing
  BY DEF Handles, Owned, Asked
<1>2. /\ fresh \in Handles /\ fresh.active = task /\ fresh.activeRequest = 0
      /\ fresh.pendingRequest = s.pendingRequest /\ fresh.halfCancelled = s.halfCancelled
      /\ fresh.cancelledSelection = s.cancelledSelection
      /\ fresh.commands = s.commands /\ fresh.outgoing = s.outgoing
  BY DEF Handles, Asked
<1>3. Transfers!SetActive(s, task) =
        IF task = 0 THEN none ELSE IF s.active = task THEN s ELSE fresh
  BY DEF Transfers!SetActive, Transfers!None
<1> HIDE DEF none, fresh
<1>4. Fits(none) /\ Answering(none) /\ Fits(fresh) /\ Answering(fresh)
  BY <1>1, <1>2 DEF Fits, Answering
<1> QED
  BY <1>1, <1>2, <1>3, <1>4

\* A worker at rest takes a command.
LEMMA WorkerTakes ==
  ASSUME TaskInv, NEW e \in Transfers!Ends, handle[e].commands # <<>>
  PROVE  /\ AsBefore(handle[e], [handle[e] EXCEPT !.commands = Tail(@)])
         /\ Answering([handle[e] EXCEPT !.commands = Tail(@)])
         /\ Head(handle[e].commands) \in Items
         /\ Head(handle[e].commands).task \in Owned /\ Head(handle[e].commands).request \in Asked
         /\ Head(handle[e].commands).kind \in OfTask =>
              Head(handle[e].commands).task \in Tasks /\ Head(handle[e].commands).task # 0
<1> DEFINE s == [handle[e] EXCEPT !.commands = Tail(@)]
           c == Head(handle[e].commands)
<1>1. handle[e] \in Handles /\ Fits(handle[e]) /\ Answering(handle[e])
  BY HandleTypes DEF TaskInv
<1>2. c \in Items /\ AsBefore(handle[e], s)
  BY <1>1, CommandTaken
<1> HIDE DEF s, c
<1>3. Answering(s)
  BY <1>1, <1>2, BeforeLeaves DEF Leaves
<1>4. c.task \in Owned /\ c.request \in Asked /\ (c.kind \in OfTask => c.task \in Tasks /\ c.task # 0)
  BY <1>2, ItemTyped
<1> QED
  BY <1>2, <1>3, <1>4 DEF s, c

LEMMA Dispatched ==
  ASSUME TaskInv, NEW e \in Transfers!Ends, NEW x \in Workers, NEW s, NEW c \in Items,
         c.kind \in {"start", "retry", "retryRequest", "offer"},
         x.task = c.task, s.active = c.task
  PROVE  Onward(s, Transfers!Dispatch(e, x, c))
<1> DEFINE y == Transfers!Dispatch(e, x, c)
           mine == stored[e][c.task]
<1>1. c.task \in Tasks /\ x.task # 0 /\ s.active = x.task
  BY ItemTyped DEF OfTask
<1>2. mine \in {"none", "source", "receive"}
  BY <1>1 DEF TaskInv, TaskTypes, TaskRecords
<1>3. CASE c.kind = "start" \/ (c.kind = "retry" /\ mine = "source")
  <2>1. y = Transfers!At(x, "offer")
    BY <1>3 DEF Transfers!Dispatch
  <2> QED
    BY <1>1, <2>1, AtGoesOn DEF AtWork
<1>4. CASE c.kind = "retry" /\ mine = "receive"
  <2>1. y = Transfers!At(x, "retry")
    BY <1>4 DEF Transfers!Dispatch
  <2> QED
    BY <1>1, <2>1, AtBetween DEF Between
<1>5. CASE c.kind = "retry" /\ mine = "none"
  <2>1. y = Transfers!At(x, "fail")
    BY <1>5 DEF Transfers!Dispatch
  <2> QED
    BY <1>1, <2>1, AtBetween DEF Between
<1>6. CASE c.kind = "retryRequest"
  <2> DEFINE pc == IF mine = "source" THEN "approve" ELSE "respond"
             z == [x EXCEPT !.responding = TRUE]
  <2>1. y = [x EXCEPT !.responding = TRUE, !.pc = pc]
    BY <1>6 DEF Transfers!Dispatch
  <2>2. z \in Workers /\ z.task = x.task
    BY DEF Workers
  <2>3. pc \in {"approve", "respond"}
    OBVIOUS
  <2> HIDE DEF y, pc
  <2>4. y = Transfers!At(z, pc)
    BY <2>1 DEF Transfers!At, Workers
  <2> HIDE DEF z
  <2>5. CASE pc = "approve"
    BY <1>1, <2>2, <2>4, <2>5, AtGoesOn DEF AtWork, y
  <2>6. CASE pc = "respond"
    BY <1>1, <2>2, <2>4, <2>6, AtBetween DEF Between, y
  <2> QED
    BY <2>3, <2>5, <2>6
<1>7. CASE c.kind = "offer"
  <2>1. y = Transfers!At(x, IF mine = "source" THEN "refuse" ELSE "ask")
    BY <1>7 DEF Transfers!Dispatch
  <2>2. CASE mine = "source"
    <3>1. y = Transfers!At(x, "refuse")
      BY <2>1, <2>2
    <3> QED
      BY <1>1, <3>1, AtBetween DEF Between
  <2>3. CASE mine # "source"
    <3>1. y = Transfers!At(x, "ask")
      BY <2>1, <2>3
    <3> QED
      BY <1>1, <3>1, AtGoesOn DEF AtWork
  <2> QED
    BY <2>2, <2>3
<1> QED
  BY <1>2, <1>3, <1>4, <1>5, <1>6, <1>7

LEMMA TakeTaskKeeps ==
  ASSUME TaskInv, NEW e \in Transfers!Ends, Transfers!TakeTask(e)
  PROVE  TaskInv'
<1> DEFINE c == Head(handle[e].commands)
           s == [handle[e] EXCEPT !.commands = Tail(@)]
           t == Transfers!SetActive(s, c.task)
           x == [Transfers!Rest EXCEPT !.task = c.task, !.current = c.task]
           y == Transfers!Dispatch(e, x, c)
<1>1. /\ handle[e].commands # <<>> /\ c.kind \in {"start", "retry", "retryRequest", "offer"}
      /\ Transfers!Step(e, t, y) /\ UNCHANGED stored
  BY DEF Transfers!TakeTask
<1>2. /\ AsBefore(handle[e], s) /\ Answering(s) /\ c \in Items /\ c.task \in Owned
      /\ c.task \in Tasks /\ c.task # 0
  BY <1>1, WorkerTakes DEF OfTask
<1> HIDE DEF c, s
<1>3. /\ t \in Handles /\ Fits(t) /\ Answering(t) /\ t.active = c.task
      /\ t.pendingRequest = s.pendingRequest /\ t.halfCancelled = s.halfCancelled
      /\ t.cancelledSelection = s.cancelledSelection
      /\ t.activeRequest \in {0, s.activeRequest}
      /\ t.activeRequest # 0 => t.cancelled = s.cancelled
  BY <1>2, ActiveSet DEF AsBefore
<1>4. x \in Workers /\ x.task = c.task
  BY <1>2, RestingFor
<1> HIDE DEF t, x
<1>5. Onward(t, y)
  BY <1>1, <1>2, <1>3, <1>4, Dispatched
<1> HIDE DEF y
<1>6. WorkerLeaves(handle[e], t, y)
  BY <1>2, <1>3, <1>5 DEF WorkerLeaves, Onward, AsBefore
<1> QED
  BY <1>1, <1>6, WorkerKeeps, RecordsStay

\* A worker at rest that stays so, or ends a task.
LEMMA RestingKeeps ==
  ASSUME TaskInv, NEW e \in Transfers!Ends, NEW t, NEW y \in Workers,
         AsBefore(handle[e], t), Transfers!Step(e, t, y), UNCHANGED stored,
         y.pc \in AtRest \/ (y.pc \in Between /\ y.task # 0)
  PROVE  TaskInv'
<1>1. Onward(handle[e], y)
  BY PlacesApart DEF Onward, WorksOn
<1> QED
  BY <1>1, OnwardKeeps, RecordsStay

LEMMA TakeCancelStoredKeeps ==
  ASSUME TaskInv, NEW e \in Transfers!Ends, Transfers!TakeCancelStored(e)
  PROVE  TaskInv'
<1> DEFINE c == Head(handle[e].commands)
           s == [handle[e] EXCEPT !.commands = Tail(@)]
           t == Transfers!SetActive(s, 0)
           x == [Transfers!Rest EXCEPT !.task = c.task, !.current = c.task]
           y == [Transfers!Rest EXCEPT !.task = c.task, !.current = c.task, !.pc = "fail"]
<1>1. /\ handle[e].commands # <<>> /\ c.kind = "cancelStored" /\ worker[e].pc = "idle"
      /\ Transfers!Step(e, t, worker[e]) \/ Transfers!Step(e, s, y)
      /\ UNCHANGED stored
  BY DEF Transfers!TakeCancelStored, Transfers!None
<1>2. /\ AsBefore(handle[e], s) /\ Answering(s) /\ c \in Items /\ c.task \in Owned
      /\ c.task \in Tasks /\ c.task # 0
  BY <1>1, WorkerTakes DEF OfTask
<1>3. worker[e] \in Workers
  BY HandleTypes DEF TaskInv
<1> HIDE DEF c, s
<1>4. CASE Transfers!Step(e, t, worker[e])
  <2>1. /\ t \in Handles /\ Fits(t) /\ Answering(t) /\ t.active = 0
        /\ t.pendingRequest = s.pendingRequest /\ t.halfCancelled = s.halfCancelled
        /\ t.cancelledSelection = s.cancelledSelection
        /\ t.activeRequest \in {0, s.activeRequest}
        /\ t.activeRequest # 0 => t.cancelled = s.cancelled
    BY <1>2, ActiveSet DEF AsBefore, Owned
  <2> HIDE DEF t
  <2>2. WorksOn(t, worker[e]) /\ worker[e].pc # "select"
    BY <1>1 DEF WorksOn, AtRest, AtWork
  <2>3. WorkerLeaves(handle[e], t, worker[e])
    BY <1>2, <1>3, <2>1, <2>2 DEF WorkerLeaves, AsBefore
  <2> QED
    BY <1>1, <1>4, <2>3, WorkerKeeps, RecordsStay
<1>5. CASE Transfers!Step(e, s, y)
  <2>1. x \in Workers /\ x.task = c.task
    BY <1>2, RestingFor
  <2>2. y = Transfers!At(x, "fail")
    BY DEF Transfers!At, Transfers!Rest
  <2> HIDE DEF x, y
  <2>3. y \in Workers /\ y.pc = "fail" /\ y.task # 0
    BY <1>2, <2>1, <2>2, AtIs DEF Between
  <2> QED
    BY <1>1, <1>2, <1>5, <2>3, RestingKeeps DEF Between
<1> QED
  BY <1>1, <1>4, <1>5

LEMMA TakeStrayKeeps ==
  ASSUME TaskInv, NEW e \in Transfers!Ends, Transfers!TakeStray(e)
  PROVE  TaskInv'
<1> DEFINE s == [handle[e] EXCEPT !.commands = Tail(@)]
<1>1. /\ handle[e].commands # <<>> /\ worker[e].pc = "idle"
      /\ Transfers!Step(e, s, worker[e]) /\ UNCHANGED stored
  BY DEF Transfers!TakeStray
<1>2. AsBefore(handle[e], s) /\ worker[e] \in Workers
  BY <1>1, WorkerTakes, HandleTypes DEF TaskInv
<1> QED
  BY <1>1, <1>2, RestingKeeps DEF AtRest

LEMMA TakeSelectionKeeps ==
  ASSUME TaskInv, NEW e \in Transfers!Ends, Transfers!TakeSelection(e)
  PROVE  TaskInv'
<1> DEFINE c == Head(handle[e].commands)
           s == [handle[e] EXCEPT !.commands = Tail(@)]
           free == [s EXCEPT !.selectorRequest = 0]
           x == [worker[e] EXCEPT !.request = c.request, !.pc = "answer"]
           claim(t) == [s EXCEPT !.active = t, !.activeRequest = 0, !.cancelled = FALSE]
           y(t) == [Transfers!Rest EXCEPT !.task = t, !.request = c.request, !.pc = "claimed",
                                          !.current = worker[e].current]
<1>1. /\ handle[e].commands # <<>> /\ worker[e].pc = "idle" /\ UNCHANGED stored
      /\ \/ Transfers!Step(e, free, x)
         \/ \E t \in Transfers!Fresh : Transfers!Step(e, claim(t), y(t))
  BY DEF Transfers!TakeSelection, Transfers!None
<1>2. AsBefore(handle[e], s) /\ Answering(s) /\ c.request \in Asked
  BY <1>1, WorkerTakes
<1>3. worker[e] \in Workers /\ worker[e].current \in Owned
  BY HandleTypes DEF TaskInv, Workers
<1> HIDE DEF c, s
<1>4. CASE Transfers!Step(e, free, x)
  <2>1. AsBefore(handle[e], free)
    BY <1>2 DEF AsBefore, Handles, Asked, Fits
  <2>2. x \in Workers /\ x.pc = "answer"
    BY <1>2, <1>3 DEF Workers, AtRest
  <2> HIDE DEF x, free
  <2> QED
    BY <1>1, <1>4, <2>1, <2>2, RestingKeeps DEF AtRest
<1>5. ASSUME NEW t \in Transfers!Fresh, Transfers!Step(e, claim(t), y(t)) PROVE TaskInv'
  <2>1. t \in Tasks /\ t # 0 /\ t \in Owned
    BY UsedAreTasks, TasksBounds DEF Owned
  <2>2. /\ claim(t) \in Handles /\ claim(t).active = t /\ claim(t).activeRequest = 0
        /\ claim(t).pendingRequest = s.pendingRequest /\ claim(t).halfCancelled = s.halfCancelled
        /\ claim(t).cancelledSelection = s.cancelledSelection
        /\ claim(t).commands = s.commands /\ claim(t).outgoing = s.outgoing
    BY <1>2, <2>1 DEF Handles, AsBefore, Asked
  <2>3. y(t) \in Workers /\ y(t).pc = "claimed" /\ y(t).task = t
    BY <1>2, <1>3, <2>1, RestIs DEF Workers, AtWork
  <2> DEFINE h == claim(t)
             z == y(t)
  <2>4. Transfers!Step(e, h, z)
    BY <1>5
  <2> HIDE DEF claim, y, h, z
  <2>5. WorkerLeaves(handle[e], h, z)
    BY <1>2, <2>1, <2>2, <2>3
       DEF WorkerLeaves, WorksOn, Answering, Fits, AsBefore, AtRest, AtWork, h, z
  <2> QED
    BY <1>1, <2>4, <2>5, WorkerKeeps, RecordsStay
<1> QED
  BY <1>1, <1>4, <1>5

LEMMA UnselectedIs ==
  ASSUME NEW s \in Handles, Fits(s), Answering(s)
  PROVE  LET t == Transfers!Unselected(s) IN
         /\ t \in Handles /\ Fits(t) /\ Answering(t) /\ t.activeRequest = 0
         /\ t.pendingRequest = s.pendingRequest /\ t.halfCancelled = s.halfCancelled
         /\ t.cancelledSelection = s.cancelledSelection
<1> DEFINE t == Transfers!Unselected(s)
<1>1. /\ t \in Handles /\ t.activeRequest = 0
      /\ t.pendingRequest = s.pendingRequest /\ t.halfCancelled = s.halfCancelled
      /\ t.cancelledSelection = s.cancelledSelection
      /\ t.commands = s.commands /\ t.outgoing = s.outgoing
  BY DEF Handles, Owned, Asked, Transfers!Unselected, Transfers!None
<1> HIDE DEF t
<1>2. Fits(t) /\ Answering(t)
  BY <1>1 DEF Fits, Answering
<1> QED
  BY <1>1, <1>2 DEF t

\* The selection is over: its dialog was not opened, or was closed.
LEMMA UnselectsKeeps ==
  ASSUME TaskInv, NEW e \in Transfers!Ends, NEW s, AsBefore(handle[e], s),
         worker[e].pc \notin AtRest, UNCHANGED stored,
         Transfers!Step(e, Transfers!Unselected(s), Transfers!At(worker[e], "answer"))
  PROVE  TaskInv'
<1> DEFINE t == Transfers!Unselected(s)
           y == Transfers!At(worker[e], "answer")
<1>1. s \in Handles /\ Fits(s) /\ Answering(s)
  BY HandleTypes, BeforeLeaves DEF TaskInv, AsBefore, Leaves
<1>2. /\ t \in Handles /\ Fits(t) /\ Answering(t) /\ t.activeRequest = 0
      /\ t.pendingRequest = s.pendingRequest /\ t.halfCancelled = s.halfCancelled
      /\ t.cancelledSelection = s.cancelledSelection
  BY <1>1, UnselectedIs
<1>3. y \in Workers /\ y.pc = "answer"
  BY WorkerIs, AtIs DEF AtRest
<1>4. Transfers!Step(e, t, y)
  OBVIOUS
<1> HIDE DEF t, y
<1>5. WorkerLeaves(handle[e], t, y)
  BY <1>2, <1>3 DEF WorkerLeaves, WorksOn, AsBefore, AtRest, AtWork
<1> QED
  BY <1>4, <1>5, WorkerKeeps, RecordsStay

LEMMA ClaimedKeeps ==
  ASSUME TaskInv, NEW e \in Transfers!Ends, Transfers!Claimed(e)
  PROVE  TaskInv'
<1> DEFINE x == worker[e]
           s == [handle[e] EXCEPT !.selectorRequest = x.request]
           y == Transfers!At(x, "select")
<1>1. /\ x.pc = "claimed" /\ UNCHANGED stored
      /\ \/ Transfers!Step(e, Transfers!Unselected(s), Transfers!At(x, "answer"))
         \/ s.cancelledSelection # x.request /\ Transfers!Step(e, s, y)
  BY DEF Transfers!Claimed
<1>2. /\ x \in Workers /\ x.task # 0 /\ x.request \in Asked /\ handle[e].active = x.task
      /\ x.pc \notin AtRest
  BY <1>1, WorkerIs DEF AtRest, AtWork
<1>3. AsBefore(handle[e], s) /\ Answering(s)
  BY <1>2, HandleTypes DEF TaskInv, AsBefore, Handles, Fits, Answering
<1> HIDE DEF s
<1>4. CASE Transfers!Step(e, Transfers!Unselected(s), Transfers!At(x, "answer"))
  BY <1>1, <1>2, <1>3, <1>4, UnselectsKeeps
<1>5. CASE s.cancelledSelection # x.request /\ Transfers!Step(e, s, y)
  <2>1. y \in Workers /\ y.pc = "select" /\ y.task = x.task /\ y.request = x.request
    BY <1>2 DEF Transfers!At, Workers, AtWork
  <2> HIDE DEF y
  <2>2. WorkerLeaves(handle[e], s, y)
    BY <1>2, <1>3, <1>5, <2>1 DEF WorkerLeaves, WorksOn, AsBefore
  <2> QED
    BY <1>1, <1>5, <2>2, WorkerKeeps, RecordsStay
<1> QED
  BY <1>1, <1>4, <1>5

LEMMA SelectKeeps ==
  ASSUME TaskInv, NEW e \in Transfers!Ends, Transfers!Select(e)
  PROVE  TaskInv'
<1> DEFINE x == worker[e]
           y == [x EXCEPT !.selecting = TRUE, !.pc = "offer", !.current = x.task]
<1>1. /\ x.pc = "select" /\ UNCHANGED stored
      /\ \/ Transfers!Step(e, Transfers!Unselected(handle[e]), Transfers!At(x, "answer"))
         \/ Transfers!Step(e, handle[e], y)
  BY DEF Transfers!Select
<1>2. x \in Workers /\ x.task # 0 /\ handle[e].active = x.task /\ x.pc \notin AtRest
  BY <1>1, WorkerIs DEF AtRest, AtWork
<1>3. AsBefore(handle[e], handle[e])
  BY HandleTypes DEF TaskInv, AsBefore
<1>4. CASE Transfers!Step(e, handle[e], y)
  <2>1. y \in Workers /\ y.pc = "offer" /\ y.task = x.task
    BY <1>2 DEF Workers, AtWork
  <2> HIDE DEF y
  <2>2. Onward(handle[e], y)
    BY <1>2, <2>1 DEF Onward, WorksOn
  <2> QED
    BY <1>1, <1>4, <2>2, StandsKeeps, RecordsStay
<1> QED
  BY <1>1, <1>2, <1>3, <1>4, UnselectsKeeps

LEMMA RestsOnward ==
  ASSUME NEW s, NEW y \in Workers, y.pc \in AtRest
  PROVE  Onward(s, y)
  BY PlacesApart DEF Onward, WorksOn

LEMMA WorkerOnward ==
  ASSUME TaskInv, NEW e \in Transfers!Ends, worker[e].pc # "select"
  PROVE  Onward(handle[e], worker[e])
  BY HandleTypes DEF TaskInv, Onward

LEMMA AnswerKeeps ==
  ASSUME TaskInv, NEW e \in Transfers!Ends, Transfers!Answer(e)
  PROVE  TaskInv'
<1> DEFINE x == worker[e]
           y == [Transfers!Rest EXCEPT !.current = x.current]
           m == Transfers!SelectionResult(x.request)
<1>1. x.pc = "answer" /\ Transfers!Wires(e, m, y, x) /\ UNCHANGED stored
  BY DEF Transfers!Answer
<1>2. x \in Workers /\ x.request \in Asked /\ x.current \in Owned
  BY HandleTypes DEF TaskInv, Workers
<1>3. m \in Items
  BY <1>2 DEF Transfers!SelectionResult, Transfers!Item, Items, OfSelection, Owned, Transfers!None
<1>4. Onward(handle[e], y)
  BY <1>2, RestingFor, RestsOnward DEF AtRest, Owned
<1>5. Onward(handle[e], x)
  BY <1>1, WorkerOnward
<1> QED
  BY <1>1, <1>3, <1>4, <1>5, WiresKeeps, RecordsStay

LEMMA OfferKeeps ==
  ASSUME TaskInv, NEW e \in Transfers!Ends, Transfers!Offer(e)
  PROVE  TaskInv'
<1> DEFINE x == worker[e]
           z == [x EXCEPT !.request = 0]
           w == [z EXCEPT !.responding = FALSE]
           y == [z EXCEPT !.responding = FALSE, !.pc = "decision"]
           m == Transfers!Item("offer", x.task, x.request, TRUE)
<1>1. /\ x.pc = "offer"
      /\ \/ Transfers!Step(e, handle[e], Transfers!Ends_(x, FALSE)) /\ UNCHANGED stored
         \/ /\ Transfers!Wires(e, m, y, Transfers!Ends_(z, FALSE))
            /\ stored' = [stored EXCEPT ![e][x.task] = "source"]
  BY DEF Transfers!Offer, Transfers!None
<1>2. /\ x \in Workers /\ x.task # 0 /\ x.task \in Tasks /\ x.request \in Asked
      /\ handle[e].active = x.task
  BY <1>1, WorkerIs DEF AtRest, AtWork
<1>3. CASE Transfers!Step(e, handle[e], Transfers!Ends_(x, FALSE)) /\ UNCHANGED stored
  BY <1>2, <1>3, EndsOnward, StandsKeeps, RecordsStay
<1>4. CASE /\ Transfers!Wires(e, m, y, Transfers!Ends_(z, FALSE))
           /\ stored' = [stored EXCEPT ![e][x.task] = "source"]
  <2>1. z \in Workers /\ z.task = x.task /\ w \in Workers /\ w.task = x.task
    BY <1>2 DEF Workers, Asked
  <2>2. y = Transfers!At(w, "decision")
    BY DEF Transfers!At
  <2>3. m \in Items
    BY <1>2, ItemMade DEF OfTask
  <2>4. RecordsTyped
    BY <1>2, <1>4 DEF RecordsTyped, TaskInv, TaskTypes, TaskRecords
  <2> HIDE DEF w, z, y, m
  <2>5. Onward(handle[e], Transfers!Ends_(z, FALSE))
    BY <1>2, <2>1, EndsOnward
  <2>6. Onward(handle[e], y)
    BY <1>2, <2>1, <2>2, AtGoesOn DEF AtWork
  <2> QED
    BY <1>4, <2>3, <2>4, <2>5, <2>6, WiresKeeps
<1> QED
  BY <1>1, <1>3, <1>4

LEMMA ApproveKeeps ==
  ASSUME TaskInv, NEW e \in Transfers!Ends, Transfers!Approve(e)
  PROVE  TaskInv'
<1> DEFINE x == worker[e]
<1>1. /\ x.pc = "approve" /\ UNCHANGED stored
      /\ \/ Transfers!Step(e, handle[e], Transfers!Ends_(x, FALSE))
         \/ Transfers!Step(e, handle[e], Transfers!At(x, "offer"))
  BY DEF Transfers!Approve
<1>2. x \in Workers /\ x.task # 0 /\ handle[e].active = x.task
  BY <1>1, WorkerIs DEF AtRest, AtWork
<1>3. /\ Onward(handle[e], Transfers!Ends_(x, FALSE))
      /\ Onward(handle[e], Transfers!At(x, "offer"))
  BY <1>2, EndsOnward, AtGoesOn DEF AtWork
<1> QED
  BY <1>1, <1>3, StandsKeeps, RecordsStay

LEMMA RespondKeeps ==
  ASSUME TaskInv, NEW e \in Transfers!Ends, Transfers!Respond(e)
  PROVE  TaskInv'
<1> DEFINE x == [worker[e] EXCEPT !.responding = FALSE]
<1>1. /\ worker[e].pc = "respond" /\ UNCHANGED stored
      /\ Transfers!Wires(e, Transfers!RetryResult(x.task), Transfers!Ends_(x, FALSE),
                         Transfers!Ends_(x, FALSE))
  BY DEF Transfers!Respond
<1>2. worker[e] \in Workers /\ worker[e].task # 0 /\ worker[e].task \in Tasks
  BY <1>1, WorkerIs DEF AtRest
<1>3. x \in Workers /\ x.task # 0 /\ x.task \in Tasks
  BY <1>2 DEF Workers
<1> HIDE DEF x
<1>4. Transfers!RetryResult(x.task) \in Items
  BY <1>3, AnswersMade DEF Asked
<1>5. Onward(handle[e], Transfers!Ends_(x, FALSE))
  BY <1>3, EndsOnward
<1> QED
  BY <1>1, <1>4, <1>5, WiresKeeps, RecordsStay

LEMMA UnselectKeeps ==
  ASSUME TaskInv, NEW e \in Transfers!Ends, Transfers!Unselect(e)
  PROVE  TaskInv'
<1> DEFINE x == [worker[e] EXCEPT !.selecting = FALSE]
           s == [handle[e] EXCEPT !.selectorRequest = 0]
           y == IF x.request = 0 THEN Transfers!Ends_(x, x.ok) ELSE Transfers!At(x, "answerOffer")
<1>1. worker[e].pc = "unselect" /\ UNCHANGED stored /\ Transfers!Step(e, s, y)
  BY DEF Transfers!Unselect, Transfers!None
<1>2. worker[e] \in Workers /\ worker[e].task # 0
  BY <1>1, WorkerIs DEF AtRest
<1>3. x \in Workers /\ x.task # 0 /\ x.ok \in BOOLEAN
  BY <1>2 DEF Workers
<1>4. AsBefore(handle[e], s)
  BY HandleTypes DEF TaskInv, AsBefore, Handles, Fits, Asked
<1> HIDE DEF x, s
<1>5. Onward(handle[e], y)
  BY <1>3, EndsOnward, AtBetween DEF Between
<1> QED
  BY <1>1, <1>4, <1>5, OnwardKeeps, RecordsStay

LEMMA AnswerOfferKeeps ==
  ASSUME TaskInv, NEW e \in Transfers!Ends, Transfers!AnswerOffer(e)
  PROVE  TaskInv'
<1> DEFINE x == [worker[e] EXCEPT !.request = 0]
           m == Transfers!SelectionResult(worker[e].request)
<1>1. /\ worker[e].pc = "answerOffer" /\ UNCHANGED stored
      /\ Transfers!Wires(e, m, Transfers!Ends_(x, FALSE), Transfers!Ends_(x, FALSE))
  BY DEF Transfers!AnswerOffer, Transfers!None
<1>2. /\ worker[e] \in Workers /\ worker[e].task # 0 /\ worker[e].task \in Tasks
      /\ worker[e].request \in Asked
  BY <1>1, WorkerIs DEF AtRest
<1>3. x \in Workers /\ x.task # 0
  BY <1>2 DEF Workers, Asked
<1>4. m \in Items
  BY <1>2, AnswersMade
<1> HIDE DEF x
<1>5. Onward(handle[e], Transfers!Ends_(x, FALSE))
  BY <1>3, EndsOnward
<1> QED
  BY <1>1, <1>4, <1>5, WiresKeeps, RecordsStay

LEMMA AskKeeps ==
  ASSUME TaskInv, NEW e \in Transfers!Ends, Transfers!Ask(e)
  PROVE  TaskInv'
<1> DEFINE x == worker[e]
<1>1. /\ x.pc = "ask"
      /\ \/ Transfers!Step(e, handle[e], Transfers!At(x, "decline")) /\ UNCHANGED stored
         \/ /\ stored' = [stored EXCEPT ![e][x.task] = "receive"]
            /\ Transfers!Step(e, handle[e], Transfers!At(x, "accept"))
  BY DEF Transfers!Ask
<1>2. x \in Workers /\ x.task # 0 /\ handle[e].active = x.task
  BY <1>1, WorkerIs DEF AtRest, AtWork
<1>3. RecordsTyped
  <2>1. CASE UNCHANGED stored
    BY <2>1, RecordsStay
  <2>2. CASE stored' = [stored EXCEPT ![e][x.task] = "receive"]
    BY <2>2 DEF RecordsTyped, TaskInv, TaskTypes, TaskRecords
  <2> QED
    BY <1>1, <2>1, <2>2
<1>4. /\ Onward(handle[e], Transfers!At(x, "decline"))
      /\ Onward(handle[e], Transfers!At(x, "accept"))
  BY <1>2, AtBetween, AtGoesOn DEF AtWork, Between
<1> QED
  BY <1>1, <1>3, <1>4, StandsKeeps

\* A message about the task, and where the worker is once it is sent or was not.
LEMMA TaskWires ==
  ASSUME TaskInv, NEW e \in Transfers!Ends, NEW m \in Items, NEW y, NEW z,
         worker[e].pc \notin AtRest, UNCHANGED stored,
         y \in {Transfers!Ends_(worker[e], FALSE), Transfers!Ends_(worker[e], TRUE)}
           \/ Onward(handle[e], y),
         z = Transfers!Ends_(worker[e], FALSE) \/ Onward(handle[e], z),
         Transfers!Wires(e, m, y, z)
  PROVE  TaskInv'
<1>1. worker[e] \in Workers /\ worker[e].task # 0
  BY WorkerIs
<1>2. \A ok \in BOOLEAN : Onward(handle[e], Transfers!Ends_(worker[e], ok))
  BY <1>1, EndsOnward
<1>3. Onward(handle[e], y) /\ Onward(handle[e], z)
  BY <1>2
<1> QED
  BY <1>3, WiresKeeps, RecordsStay

LEMMA AcceptKeeps ==
  ASSUME TaskInv, NEW e \in Transfers!Ends, Transfers!Accept(e)
  PROVE  TaskInv'
<1> DEFINE x == worker[e]
<1>1. /\ x.pc = "accept" /\ UNCHANGED stored
      /\ Transfers!Wires(e, Transfers!DecisionOn(x.task, TRUE), Transfers!At(x, "receiving"),
                         Transfers!Ends_(x, FALSE))
  BY DEF Transfers!Accept
<1>2. /\ x \in Workers /\ x.task # 0 /\ x.task \in Tasks /\ handle[e].active = x.task
      /\ x.pc \notin AtRest
  BY <1>1, WorkerIs DEF AtRest, AtWork
<1>3. Transfers!DecisionOn(x.task, TRUE) \in Items
  BY <1>2, AnswersMade DEF Asked
<1>4. Onward(handle[e], Transfers!At(x, "receiving"))
  BY <1>2, AtGoesOn DEF AtWork
<1> QED
  BY <1>1, <1>2, <1>3, <1>4, TaskWires

LEMMA DeclineKeeps ==
  ASSUME TaskInv, NEW e \in Transfers!Ends, Transfers!Decline(e)
  PROVE  TaskInv'
<1> DEFINE x == worker[e]
           ok == x.pc = "refuse"
<1>1. /\ x.pc \in {"decline", "refuse"} /\ UNCHANGED stored
      /\ Transfers!Wires(e, Transfers!DecisionOn(x.task, FALSE), Transfers!Ends_(x, ok),
                         Transfers!Ends_(x, FALSE))
  BY DEF Transfers!Decline
<1>2. x \in Workers /\ x.task # 0 /\ x.task \in Tasks /\ x.pc \notin AtRest
  BY <1>1, WorkerIs DEF AtRest
<1>3. Transfers!DecisionOn(x.task, FALSE) \in Items
  BY <1>2, AnswersMade DEF Asked
<1>4. ok \in BOOLEAN
  OBVIOUS
<1> HIDE DEF ok
<1>5. Onward(handle[e], Transfers!Ends_(x, ok))
  BY <1>2, <1>4, EndsOnward
<1> QED
  BY <1>1, <1>2, <1>3, <1>5, TaskWires

LEMMA SendBodyKeeps ==
  ASSUME TaskInv, NEW e \in Transfers!Ends, Transfers!SendBody(e)
  PROVE  TaskInv'
<1> DEFINE x == worker[e]
           m == Transfers!Item("complete", x.task, 0, TRUE)
<1>1. /\ x.pc = "send" /\ UNCHANGED stored
      /\ Transfers!Wires(e, m, Transfers!At(x, "result"), Transfers!Ends_(x, FALSE))
  BY DEF Transfers!SendBody, Transfers!None
<1>2. /\ x \in Workers /\ x.task # 0 /\ x.task \in Tasks /\ handle[e].active = x.task
      /\ x.pc \notin AtRest
  BY <1>1, WorkerIs DEF AtRest, AtWork
<1>3. m \in Items
  BY <1>2, ItemMade DEF OfTask, Asked
<1>4. Onward(handle[e], Transfers!At(x, "result"))
  BY <1>2, AtGoesOn DEF AtWork
<1> QED
  BY <1>1, <1>2, <1>3, <1>4, TaskWires

LEMMA ReportKeepsTask ==
  ASSUME TaskInv, NEW e \in Transfers!Ends, Transfers!Report(e)
  PROVE  TaskInv'
<1> DEFINE x == worker[e]
           m == Transfers!Item("result", x.task, 0, TRUE)
<1>1. /\ x.pc = "report" /\ UNCHANGED stored
      /\ Transfers!Wires(e, m, Transfers!Ends_(x, TRUE), Transfers!Ends_(x, FALSE))
  BY DEF Transfers!Report, Transfers!None
<1>2. x \in Workers /\ x.task # 0 /\ x.task \in Tasks /\ x.pc \notin AtRest
  BY <1>1, WorkerIs DEF AtRest
<1>3. m \in Items
  BY <1>2, ItemMade DEF OfTask, Asked
<1> QED
  BY <1>1, <1>2, <1>3, TaskWires

LEMMA FailKeeps ==
  ASSUME TaskInv, NEW e \in Transfers!Ends, Transfers!Fail(e)
  PROVE  TaskInv'
<1> DEFINE x == worker[e]
<1>1. /\ x.pc = "fail" /\ UNCHANGED stored
      /\ Transfers!Wires(e, Transfers!Action(x.task), Transfers!At(x, "finish"), x)
  BY DEF Transfers!Fail
<1>2. x \in Workers /\ x.task # 0 /\ x.task \in Tasks /\ x.pc \notin AtRest /\ x.pc # "select"
  BY <1>1, WorkerIs DEF AtRest
<1>3. Transfers!Action(x.task) \in Items
  BY <1>2, AnswersMade DEF Asked
<1>4. Onward(handle[e], Transfers!At(x, "finish")) /\ Onward(handle[e], x)
  BY <1>2, AtBetween, WorkerOnward DEF Between
<1> QED
  BY <1>1, <1>2, <1>3, <1>4, TaskWires

LEMMA RequestRetryKeeps ==
  ASSUME TaskInv, NEW e \in Transfers!Ends, Transfers!RequestRetry(e)
  PROVE  TaskInv'
<1> DEFINE x == worker[e]
           s == [handle[e] EXCEPT !.pendingRetry = 0]
           m == Transfers!Item("retryRequest", x.task, 0, FALSE)
           y == [Transfers!Rest EXCEPT !.current = x.task]
<1>1. /\ x.pc = "request" /\ UNCHANGED stored
      /\ \/ Transfers!Step(e, s, Transfers!At(x, "fail"))
         \/ Transfers!Wires(e, m, y, x)
  BY DEF Transfers!RequestRetry, Transfers!None
<1>2. /\ x \in Workers /\ x.task # 0 /\ x.task \in Tasks /\ x.pc \notin AtRest
      /\ x.pc # "select" /\ x.task \in Owned
  BY <1>1, WorkerIs DEF AtRest, Owned
<1>3. CASE Transfers!Step(e, s, Transfers!At(x, "fail"))
  <2>1. AsBefore(handle[e], s)
    BY HandleTypes DEF TaskInv, AsBefore, Handles, Fits, Owned
  <2>2. Onward(handle[e], Transfers!At(x, "fail"))
    BY <1>2, AtBetween DEF Between
  <2> QED
    BY <1>1, <1>3, <2>1, <2>2, OnwardKeeps, RecordsStay
<1>4. CASE Transfers!Wires(e, m, y, x)
  <2>1. m \in Items
    BY <1>2, ItemMade DEF OfTask, Asked
  <2>2. Onward(handle[e], y)
    BY <1>2, RestingFor, RestsOnward DEF AtRest
  <2>3. Onward(handle[e], x)
    BY <1>2, WorkerOnward
  <2> QED
    BY <1>1, <1>4, <2>1, <2>2, <2>3, WiresKeeps, RecordsStay
<1> QED
  BY <1>1, <1>3, <1>4

\* The task is active no more.
LEMMA ReleasesKeeps ==
  ASSUME TaskInv, NEW e \in Transfers!Ends, NEW y \in Workers, UNCHANGED stored,
         y.pc \in AtRest \/ (y.pc \in Between /\ y.task # 0),
         Transfers!Step(e, Transfers!SetActive(handle[e], 0), y)
  PROVE  TaskInv'
<1> DEFINE s == handle[e]
           t == Transfers!SetActive(s, 0)
<1>1. s \in Handles /\ Fits(s) /\ Answering(s)
  BY HandleTypes DEF TaskInv
<1>2. /\ t \in Handles /\ Fits(t) /\ Answering(t)
      /\ t.pendingRequest = s.pendingRequest /\ t.halfCancelled = s.halfCancelled
      /\ t.cancelledSelection = s.cancelledSelection
      /\ t.activeRequest \in {0, s.activeRequest}
      /\ t.activeRequest # 0 => t.cancelled = s.cancelled
  BY <1>1, ActiveSet DEF Owned
<1> HIDE DEF t
<1>3. WorksOn(t, y) /\ y.pc # "select"
  BY PlacesApart DEF WorksOn
<1>4. WorkerLeaves(s, t, y)
  BY <1>2, <1>3 DEF WorkerLeaves
<1> QED
  BY <1>4, WorkerKeeps, RecordsStay DEF t

LEMMA FinishKeeps ==
  ASSUME TaskInv, NEW e \in Transfers!Ends, Transfers!Finish(e)
  PROVE  TaskInv'
<1> DEFINE y == [Transfers!Rest EXCEPT !.current = worker[e].current]
<1>1. UNCHANGED stored /\ Transfers!Step(e, Transfers!SetActive(handle[e], 0), y)
  BY DEF Transfers!Finish, Transfers!None
<1>2. worker[e].current \in Owned
  BY HandleTypes DEF TaskInv, Workers
<1>3. y \in Workers /\ y.pc \in AtRest
  BY <1>2, RestingFor DEF AtRest, Owned
<1> QED
  BY <1>1, <1>3, ReleasesKeeps

LEMMA ReleaseKeeps ==
  ASSUME TaskInv, NEW e \in Transfers!Ends, Transfers!Release(e)
  PROVE  TaskInv'
<1> DEFINE y == Transfers!At(worker[e], "request")
<1>1. /\ worker[e].pc = "release" /\ UNCHANGED stored
      /\ Transfers!Step(e, Transfers!SetActive(handle[e], 0), y)
  BY DEF Transfers!Release, Transfers!None
<1>2. worker[e] \in Workers /\ worker[e].task # 0
  BY <1>1, WorkerIs DEF AtRest
<1>3. y \in Workers /\ y.pc \in Between /\ y.task # 0
  BY <1>2, AtIs DEF Between
<1> QED
  BY <1>1, <1>3, ReleasesKeeps

LEMMA RetryKeeps ==
  ASSUME TaskInv, NEW e \in Transfers!Ends, Transfers!Retry(e)
  PROVE  TaskInv'
<1> DEFINE x == worker[e]
           s == [handle[e] EXCEPT !.cancelledRetry = 0, !.pendingRetry = x.task]
<1>1. x.pc = "retry" /\ UNCHANGED stored /\ Transfers!Step(e, s, Transfers!At(x, "release"))
  BY DEF Transfers!Retry, Transfers!None
<1>2. x \in Workers /\ x.task # 0 /\ x.task \in Owned
  BY <1>1, WorkerIs DEF AtRest, Owned
<1>3. AsBefore(handle[e], s)
  BY <1>2, HandleTypes DEF TaskInv, AsBefore, Handles, Fits, Owned
<1>4. Onward(handle[e], Transfers!At(x, "release"))
  BY <1>2, AtBetween DEF Between
<1> QED
  BY <1>1, <1>3, <1>4, OnwardKeeps, RecordsStay

\* A worker waits only while it works on its task.
LEMMA WaitingIs ==
  ASSUME TaskInv, NEW e \in Transfers!Ends, Transfers!Waiting(e)
  PROVE  /\ worker[e] \in Workers /\ worker[e].task # 0 /\ worker[e].task \in Tasks
         /\ handle[e].active = worker[e].task /\ worker[e].pc # "select"
         /\ worker[e].pc \in {"decision", "result", "receiving"}
<1>1. worker[e].pc \in {"decision", "result", "receiving"}
  BY DEF Transfers!Waiting
<1> QED
  BY <1>1, WorkerIs DEF AtRest, AtWork

LEMMA ReceiveKeeps ==
  ASSUME TaskInv, NEW e \in Transfers!Ends, Transfers!Receive(e)
  PROVE  TaskInv'
<1> DEFINE x == worker[e]
           c == Head(handle[e].commands)
           s == [handle[e] EXCEPT !.commands = Tail(@)]
           next == CASE x.pc = "decision" -> Transfers!At(x, "send")
                     [] x.pc = "receiving" -> Transfers!At(x, "report")
                     [] x.pc = "result" -> Transfers!Ends_(x, TRUE)
           d == Transfers!DecisionOn(c.task, FALSE)
<1>1. /\ Transfers!Waiting(e) /\ handle[e].commands # <<>> /\ UNCHANGED stored
      /\ \/ c.kind = "offer" /\ Transfers!Step(e, Transfers!TrySend(s, d), x)
         \/ Transfers!Step(e, s, next)
         \/ Transfers!Step(e, s, Transfers!Ends_(x, FALSE))
  BY DEF Transfers!Receive
<1>2. /\ x \in Workers /\ x.task # 0 /\ handle[e].active = x.task
      /\ x.pc \in {"decision", "result", "receiving"} /\ x.pc # "select"
  BY <1>1, WaitingIs
<1>3. /\ AsBefore(handle[e], s) /\ c \in Items
      /\ c.kind \in OfTask => c.task \in Tasks
  BY <1>1, WorkerTakes
<1>4. Onward(handle[e], next)
  <2>1. CASE x.pc = "decision"
    <3>1. next = Transfers!At(x, "send")
      BY <2>1
    <3> HIDE DEF next
    <3> QED
      BY <1>2, <3>1, AtGoesOn DEF AtWork
  <2>2. CASE x.pc = "receiving"
    <3>1. next = Transfers!At(x, "report")
      BY <2>2
    <3> HIDE DEF next
    <3> QED
      BY <1>2, <3>1, AtGoesOn DEF AtWork
  <2>3. CASE x.pc = "result"
    <3>1. next = Transfers!Ends_(x, TRUE)
      BY <2>3
    <3> HIDE DEF next
    <3> QED
      BY <1>2, <3>1, EndsOnward
  <2> QED
    BY <1>2, <2>1, <2>2, <2>3
<1> HIDE DEF next, s, c
<1>5. CASE c.kind = "offer" /\ Transfers!Step(e, Transfers!TrySend(s, d), x)
  <2>1. d \in Items
    BY <1>3, <1>5, AnswersMade DEF OfTask, Asked
  <2>2. AsBefore(s, Transfers!TrySend(s, d))
    BY <1>3, <2>1, SentOn DEF AsBefore
  <2>3. AsBefore(handle[e], Transfers!TrySend(s, d))
    BY <1>3, <2>2 DEF AsBefore
  <2>4. Onward(handle[e], x)
    BY <1>2, WorkerOnward
  <2> QED
    BY <1>1, <1>5, <2>3, <2>4, OnwardKeeps, RecordsStay
<1>6. CASE Transfers!Step(e, s, next)
  BY <1>1, <1>3, <1>4, <1>6, OnwardKeeps, RecordsStay
<1>7. CASE Transfers!Step(e, s, Transfers!Ends_(x, FALSE))
  BY <1>1, <1>2, <1>3, <1>7, EndsOnward, OnwardKeeps, RecordsStay
<1> QED
  BY <1>1, <1>5, <1>6, <1>7

LEMMA WaitEndsKeeps ==
  ASSUME TaskInv, NEW e \in Transfers!Ends,
         Transfers!ReceiveCancelled(e) \/ Transfers!ReceiveTimesOut(e)
  PROVE  TaskInv'
<1>1. /\ Transfers!Waiting(e) /\ UNCHANGED stored
      /\ Transfers!Step(e, handle[e], Transfers!Ends_(worker[e], FALSE))
  BY DEF Transfers!ReceiveCancelled, Transfers!ReceiveTimesOut
<1>2. Onward(handle[e], Transfers!Ends_(worker[e], FALSE))
  BY <1>1, WaitingIs, EndsOnward
<1> QED
  BY <1>1, <1>2, StandsKeeps, RecordsStay

-----------------------------------------------------------------------------
(* Theorems.                                                               *)

LEMMA TasksBegin == Transfers!Init => TaskInv
<1> SUFFICES ASSUME Transfers!Init PROVE TaskInv
  OBVIOUS
<1> DEFINE h == [active |-> 0, cancelled |-> FALSE, halfCancelled |-> FALSE,
                 pendingRequest |-> 0, activeRequest |-> 0,
                 selectorRequest |-> 0, cancelledSelection |-> 0,
                 pendingRetry |-> 0, cancelledRetry |-> 0,
                 commands |-> <<>>, control |-> 0, outgoing |-> <<>>]
<1>1. /\ handle = [e \in Transfers!Ends |-> h]
      /\ worker = [e \in Transfers!Ends |-> Transfers!Rest]
      /\ transit = [e \in Transfers!Ends |-> <<>>]
      /\ stored = [e \in Transfers!Ends |-> [t \in Tasks |-> "none"]]
      /\ gaveUp = {} /\ withdrawn = {} /\ clicks = TaskClicks
  BY DEF Transfers!Init, Transfers!None
<1>2. /\ h \in Handles /\ Fits(h) /\ Answering(h) /\ h.pendingRequest = 0 /\ h.activeRequest = 0
  BY TasksBounds, EmptySeq DEF Handles, Owned, Asked, Fits, Answering
<1> HIDE DEF h
<1>3. TaskTypes
  BY <1>1, <1>2, RestIs, EmptySeq, TasksBounds DEF TaskTypes, TaskRecords
<1>4. ASSUME NEW e \in Transfers!Ends PROVE WorksOn(handle[e], worker[e])
  BY <1>1, RestIs DEF WorksOn, AtRest, AtWork
<1>5. AskedOnce /\ Transfers!WithdrawnStaysOut
  BY <1>1, <1>2 DEF AskedOnce, Transfers!WithdrawnStaysOut, Transfers!Ends
<1>6. Transfers!CancelledSelectionCloses
  BY <1>1, RestIs DEF Transfers!CancelledSelectionCloses, Transfers!Ends
<1> QED
  BY <1>3, <1>4, <1>5, <1>6 DEF TaskInv

LEMMA WorkerStepKeeps ==
  ASSUME TaskInv, NEW e \in Transfers!Ends, Transfers!WorkerStep(e)
  PROVE  TaskInv'
  BY TakeTaskKeeps, TakeCancelStoredKeeps, TakeStrayKeeps, TakeSelectionKeeps, ClaimedKeeps,
     SelectKeeps, AnswerKeeps, OfferKeeps, ApproveKeeps, RespondKeeps, UnselectKeeps,
     AnswerOfferKeeps, AskKeeps, AcceptKeeps, DeclineKeeps, ReceiveKeeps, WaitEndsKeeps,
     SendBodyKeeps, ReportKeepsTask, FailKeeps, FinishKeeps, RetryKeeps, ReleaseKeeps,
     RequestRetryKeeps
     DEF Transfers!WorkerStep

LEMMA TaskStepKeeps ==
  ASSUME TaskInv, Transfers!Next
  PROVE  TaskInv'
<1>1. CASE Transfers!User
  BY <1>1, UserTasksKeep, UserRequestsKeeps, UserWithdrawsKeeps DEF Transfers!User
<1>2. ASSUME NEW e \in Transfers!Ends,
             Transfers!WorkerStep(e) \/ Transfers!ReceiveTimesOut(e) \/ Transfers!LoopStep(e)
      PROVE  TaskInv'
  BY <1>2, WorkerStepKeeps, WaitEndsKeeps, IngestKeeps, ApplySelectionCancelKeeps, PumpKeeps
     DEF Transfers!LoopStep
<1> QED
  BY <1>1, <1>2 DEF Transfers!Next

LEMMA TasksAgreeHolds ==
  ASSUME TaskInv
  PROVE  TasksAgree
<1>1. Transfers!TypeOK
  <2>1. ASSUME NEW e \in Transfers!Ends
        PROVE  /\ Len(handle[e].commands) <= TaskQueue /\ Len(handle[e].outgoing) <= TaskQueue
               /\ Len(transit[e]) <= TaskTransit
               /\ {handle[e].active, handle[e].pendingRetry, handle[e].cancelledRetry,
                   handle[e].control, worker[e].task} \subseteq Tasks \union {0}
               /\ {handle[e].pendingRequest, handle[e].activeRequest,
                   handle[e].selectorRequest} \subseteq Requests \union {0}
               /\ \A t \in Tasks : stored[e][t] \in {"none", "source", "receive"}
    <3>1. handle[e] \in Handles /\ worker[e] \in Workers /\ stored[e] \in TaskRecords
      BY DEF TaskInv, TaskTypes
    <3>2. /\ {handle[e].active, handle[e].pendingRetry, handle[e].cancelledRetry,
              handle[e].control, worker[e].task} \subseteq Tasks \union {0}
          /\ {handle[e].pendingRequest, handle[e].activeRequest,
              handle[e].selectorRequest} \subseteq Requests \union {0}
      BY <3>1 DEF Handles, Workers, Owned, Asked
    <3>3. \A t \in Tasks : stored[e][t] \in {"none", "source", "receive"}
      BY <3>1 DEF TaskRecords
    <3> QED
      BY <3>2, <3>3, HandleTypes DEF TaskInv, Fits
  <2> QED
    BY <2>1 DEF Transfers!TypeOK, TaskInv, TaskTypes, Transfers!None
<1>2. Transfers!RunningIsActive
  <2>1. ASSUME NEW e \in Transfers!Ends, Transfers!Running(e)
        PROVE  handle[e].active = worker[e].task
    BY <2>1 DEF TaskInv, WorksOn, Transfers!Running, AtWork
  <2> QED
    BY <2>1 DEF Transfers!RunningIsActive
<1> QED
  BY <1>1, <1>2 DEF TasksAgree, TaskInv

\* While a worker runs a task its handle knows it as the active one; a request
\* that was withdrawn has no task but a cancelled one; and a selection that was
\* cancelled before its dialog opened is closed.
THEOREM TasksStayAgreed == FilesSpec => []TasksAgree
<1>1. FilesInit => TaskInv
  BY TasksBegin DEF FilesInit
<1>2. TaskInv /\ [FilesNext]_parts => TaskInv'
  <2> SUFFICES ASSUME TaskInv, [FilesNext]_parts PROVE TaskInv'
    OBVIOUS
  <2>1. CASE Transfers!Next
    BY <2>1, TaskStepKeeps
  <2>2. CASE UNCHANGED tasksVars
    BY <2>2 DEF tasksVars, TaskInv, TaskTypes, AskedOnce, WorksOn, Fits, Answering,
                Transfers!WithdrawnStaysOut, Transfers!CancelledSelectionCloses
  <2> QED
    BY <2>1, <2>2 DEF FilesNext, parts
<1>3. TaskInv => TasksAgree
  BY TasksAgreeHolds
<1> QED
  BY <1>1, <1>2, <1>3, PTL DEF FilesSpec
==============================================================================
