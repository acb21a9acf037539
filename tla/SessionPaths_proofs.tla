-------------------------- MODULE SessionPaths_proofs ------------------------
(***************************************************************************)
(* A reliable lane delivers in order and once whichever path carries it,   *)
(* and its direct path has no backlog behind it, for any number of         *)
(* messages and LAN connections and any capacity of the receiver; the two  *)
(* ends agree on a LAN connection or neither uses it; video goes by the    *)
(* path of the host's slot; and a participant on the relay hears its peers *)
(* one after the other, each in order.                                     *)
(***************************************************************************)
EXTENDS MCSessionPaths, SequenceTheorems, FiniteSetTheorems, TLAPS

\* How many messages the receiver has.
Got == Len(delivered)

\* Message n was delivered or is on its way over the relay, if that is up.
Carried(n) == link /\ n > Got => \E i \in 1..Len(wire) : wire[i] = Data(n)

\* No trace of the fence of generation g.
Unseen(g) ==
    /\ fence # g
    /\ \A i \in 1..Len(wire) : wire[i] # Fence(g)
    /\ [g |-> g, c |-> Fence(g)] \notin lan \cup receipts

FenceOp == op.c.g # 0
Free == FenceOp \/ op.at \in {"idle", "sealing"}

\* What each step of the sender goes with.
Steps ==
    /\ op.at \in {"idle", "sealing"} => op.c = None /\ op.g = 0
    /\ op.at = "sealing" => given < MaxMessages
    /\ op.at = "direct" => /\ op.c = Data(given) /\ given # 0 /\ op.g \in Generations
                           /\ route \in {op.g, Relay, Interrupted}
    /\ op.at \in {"submit", "relay"} /\ ~FenceOp => op.c = Data(given) /\ given # 0 /\ route <= 0
    /\ op.at = "query" => FenceOp
    /\ FenceOp => /\ op.c = Fence(fencing) /\ op.g = fencing
                  /\ op.at \in {"submit", "relay", "query"}
    /\ op.at # "idle" => ~closed
    /\ op.at = "relay" => writer = op.c
    /\ route > 0 /\ ~closed => direct["a"] = route

\* A fence is sent once, for the last connection attached.
Fences ==
    /\ fencing <= last["a"]
    /\ \A g \in Generations : g > last["a"] => Unseen(g) /\ writer # Fence(g)
    /\ fencing # 0 /\ op.at \notin {"relay", "query"} => Unseen(fencing) /\ writer # Fence(fencing)
    /\ fencing # 0 /\ ~FenceOp => Unseen(fencing) /\ writer # Fence(fencing)
    /\ FenceOp /\ op.at = "relay" => Unseen(fencing)

\* A query waits behind everything that was sent before it.
Query ==
    op.at = "query" =>
        /\ writer = None
        /\ \A i \in 1..Len(wire) : wire[i] = op.c =>
              i = Len(wire) /\ (given > Got => \E j \in 1..(i - 1) : wire[j] = Data(given))
        /\ fence = op.g => wire = <<>> /\ given <= Got
        /\ [g |-> op.g, c |-> op.c] \in receipts => fence = op.g

\* The receiver has a prefix of what was given, and the wire what comes next.
Prefix ==
    /\ opened = 1..Got /\ Got <= given
    /\ IsData(admitted) => admitted.n <= Got
    /\ \A i \in 1..Len(wire) : IsData(wire[i]) =>
          /\ wire[i].n <= given
          /\ wire[i].n > Got + 1 => \E j \in 1..(i - 1) : wire[j] = Data(wire[i].n - 1)
    /\ IsData(writer) => writer.n <= given /\ Carried(writer.n - 1)
    /\ \A s \in lan : IsData(s.c) => s.c.n <= given /\ s.c.n <= Got + 1
    /\ \A s \in receipts : IsData(s.c) => s.c.n <= Got

\* What the next message finds.
Ahead ==
    /\ Free /\ (route # Interrupted \/ op.at # "idle") => Carried(given)
    /\ op.at \in {"submit", "relay"} /\ ~FenceOp => Carried(given - 1)
    /\ op.at = "direct" =>
          /\ given <= Got + 1
          /\ \A i \in 1..Len(wire) : wire[i].n < given
          /\ writer.n < given
    /\ route > 0 /\ op.at # "direct" => given <= Got

IInv == TypeOK /\ Steps /\ Fences /\ Query /\ Prefix /\ Ahead

-----------------------------------------------------------------------------
(* Types. *)

LEMMA Cipher ==
    ASSUME NEW c \in Ciphertexts \cup {None}
    PROVE  /\ c.n \in 0..MaxMessages /\ c.g \in 0..MaxGeneration
           /\ c.n # 0 => c = Data(c.n) /\ c.g = 0 /\ c \in Ciphertexts
           /\ c.g # 0 => c = Fence(c.g) /\ c.n = 0 /\ c \in Ciphertexts
           /\ c.n = 0 /\ c.g = 0 <=> c = None
<1>1. CASE c = None
  BY <1>1, DataPlaneAssumption DEF None
<1>2. CASE \E n \in 1..MaxMessages : c = Data(n)
  <2>1. PICK n \in 1..MaxMessages : c = Data(n)
    BY <1>2
  <2>2. n \in Nat /\ n # 0 /\ c.n = n /\ c.g = 0
    BY <2>1, DataPlaneAssumption DEF Data
  <2> QED
    BY <1>2, <2>1, <2>2, DataPlaneAssumption DEF Ciphertexts, None
<1>3. CASE \E g \in Generations : c = Fence(g)
  <2>1. PICK g \in Generations : c = Fence(g)
    BY <1>3
  <2>2. g \in 1..MaxGeneration /\ g # 0 /\ c.g = g /\ c.n = 0
    BY <2>1, DataPlaneAssumption DEF Fence, Generations
  <2> QED
    BY <1>3, <2>1, <2>2, DataPlaneAssumption DEF Ciphertexts, None
<1> QED
  BY <1>1, <1>2, <1>3 DEF Ciphertexts

LEMMA Ciphers ==
    /\ \A n \in 1..MaxMessages : Data(n) \in Ciphertexts
    /\ \A g \in Generations : Fence(g) \in Ciphertexts
    /\ None \notin Ciphertexts
<1>1. \A n \in 1..MaxMessages : Data(n) # None
  BY DataPlaneAssumption DEF None, Data
<1>2. \A g \in Generations : Fence(g) # None
  BY DataPlaneAssumption DEF None, Fence, Generations
<1> QED
  BY <1>1, <1>2 DEF Ciphertexts

LEMMA Parts ==
    /\ \A n : Data(n).n = n /\ Data(n).g = 0
    /\ \A g : Fence(g).g = g /\ Fence(g).n = 0
    /\ None.n = 0 /\ None.g = 0
  BY DEF Data, Fence, None

LEMMA WireTyped ==
    ASSUME TypeOK
    PROVE  /\ Len(wire) \in Nat /\ Got \in Nat /\ given \in Nat /\ taken \in Nat
           /\ \A i \in 1..Len(wire) : wire[i] \in Ciphertexts
           /\ wire # <<>> => /\ Head(wire) = wire[1] /\ 1 \in 1..Len(wire)
                             /\ Tail(wire) \in Seq(Ciphertexts) /\ Len(Tail(wire)) = Len(wire) - 1
                             /\ \A i \in 1..Len(Tail(wire)) : Tail(wire)[i] = wire[i + 1]
<1>1. wire \in Seq(Ciphertexts) /\ delivered \in Seq(1..MaxMessages)
  BY DEF TypeOK
<1>2. Len(wire) \in Nat /\ Len(delivered) \in Nat
  BY <1>1, LenProperties
<1>3. given \in Nat /\ taken \in Nat
  BY <1>2, DataPlaneAssumption DEF TypeOK
<1>4. \A i \in 1..Len(wire) : wire[i] \in Ciphertexts
  BY <1>1, ElementOfSeq
<1>5. wire # <<>> => /\ Head(wire) = wire[1] /\ 1 \in 1..Len(wire)
                    /\ Tail(wire) \in Seq(Ciphertexts) /\ Len(Tail(wire)) = Len(wire) - 1
                    /\ \A i \in 1..Len(Tail(wire)) : Tail(wire)[i] = wire[i + 1]
  BY <1>1, <1>2, HeadTailProperties, EmptySeq
<1> QED
  BY <1>2, <1>3, <1>4, <1>5 DEF Got

OpType == [at : {"idle", "sealing", "direct", "submit", "relay", "query"},
           g : 0..MaxGeneration, c : Ciphertexts \cup {None}]

LEMMA OpTyped ==
    ASSUME TypeOK
    PROVE  /\ op \in OpType
           /\ op.at \in {"idle", "sealing", "direct", "submit", "relay", "query"}
           /\ op.g \in 0..MaxGeneration /\ op.c \in Ciphertexts \cup {None}
           /\ op.c.n \in 0..MaxMessages /\ op.c.g \in 0..MaxGeneration
           /\ op.c.n # 0 => op.c.g = 0
  BY Cipher DEF TypeOK, OpType

LEMMA OpOf ==
    ASSUME NEW a \in {"idle", "sealing", "direct", "submit", "relay", "query"},
           NEW g \in 0..MaxGeneration, NEW c \in Ciphertexts \cup {None}
    PROVE  [at |-> a, g |-> g, c |-> c] \in OpType
  BY DEF OpType

LEMMA IdleOp ==
    /\ Idle \in OpType /\ Idle.at = "idle" /\ Idle.g = 0 /\ Idle.c = None
    /\ Idle.c.n = 0 /\ Idle.c.g = 0
  BY DataPlaneAssumption DEF Idle, OpType, None

-----------------------------------------------------------------------------
(* Fences and messages in the next state. *)

UnseenLater(g) ==
    /\ fence' # g
    /\ \A i \in 1..Len(wire') : wire'[i] # Fence(g)
    /\ [g |-> g, c |-> Fence(g)] \notin lan' \cup receipts'

LEMMA FencesNext ==
    ASSUME fencing' <= last'["a"],
           \A g \in Generations : g > last'["a"] => UnseenLater(g) /\ writer' # Fence(g),
           fencing' # 0 /\ (op'.at \notin {"relay", "query"} \/ op'.c.g = 0) =>
               UnseenLater(fencing') /\ writer' # Fence(fencing'),
           op'.c.g # 0 /\ op'.at = "relay" => UnseenLater(fencing')
    PROVE  Fences'
  BY DEF Fences, Unseen, UnseenLater, FenceOp

\* Nothing but data is added.
LEMMA UnseenStays ==
    ASSUME fence' = fence,
           \A i \in 1..Len(wire') : \E j \in 1..Len(wire) : wire'[i] = wire[j],
           \A s \in lan' \cup receipts' : s \in lan \cup receipts \/ IsData(s.c)
    PROVE  \A g : Unseen(g) => UnseenLater(g)
  BY Parts DEF Unseen, UnseenLater, IsData

LEMMA Beyond ==
    ASSUME NEW a \in Nat, NEW b \in Nat, NEW n \in Nat, a <= b, n > b + 1
    PROVE  n > a + 1 /\ n - 1 > b /\ n - 1 # 0
  OBVIOUS

CarriedLater(n) == link' /\ n > Got' => \E i \in 1..Len(wire') : wire'[i] = Data(n)

LEMMA CarriedStays ==
    ASSUME TypeOK, link' => link, Got <= Got', Got' \in Nat,
           \A i \in 1..Len(wire) :
               IsData(wire[i]) /\ wire[i].n > Got' => \E j \in 1..Len(wire') : wire'[j] = wire[i]
    PROVE  \A n \in Int : Carried(n) => CarriedLater(n)
<1>1. ASSUME NEW n \in Int, Carried(n), link', n > Got'
      PROVE  \E j \in 1..Len(wire') : wire'[j] = Data(n)
  <2>1. n > Got /\ n # 0
    BY <1>1, WireTyped
  <2>2. PICK i \in 1..Len(wire) : wire[i] = Data(n)
    BY <1>1, <2>1 DEF Carried
  <2> QED
    BY <1>1, <2>1, <2>2, Parts DEF IsData
<1> QED
  BY <1>1 DEF CarriedLater

-----------------------------------------------------------------------------
(* The steps.  Each is one action of SessionDataPlane; what it disturbs of    *)
(* the invariant has steps of its own.                                        *)

LEMMA BeginStep ==
    ASSUME IInv, Begin
    PROVE  IInv'
<1> USE DataPlaneAssumption, Parts, WireTyped, OpTyped, IdleOp
    DEF IInv, Begin, sender, relay, paths, streams, receiver, Interrupted, Relay, CanSend
<1>0. op' \in OpType
  BY OpOf
<1>1. TypeOK'
  BY <1>0 DEF TypeOK, OpType
<1>2. Steps'
  BY DEF TypeOK, Steps, FenceOp
<1>3. Fences'
  BY DEF TypeOK, Steps, Fences, Unseen, FenceOp
<1>4. Query'
  BY DEF TypeOK, Steps, Query, Fences, Unseen, FenceOp, Got
<1>5. Prefix'
  BY DEF TypeOK, Steps, Prefix, Carried, Ahead, IsData, Got
<1>6. Ahead'
  BY DEF TypeOK, Steps, Ahead, Carried, Prefix, FenceOp, Free, IsData, Got
<1> QED
  BY <1>1, <1>2, <1>3, <1>4, <1>5, <1>6 DEF IInv

LEMMA SealDirectStep ==
    ASSUME IInv, SealDirect
    PROVE  IInv'
<1> USE DataPlaneAssumption, Parts, WireTyped, OpTyped, IdleOp
    DEF IInv, SealDirect, sender, relay, paths, streams, receiver, Interrupted, Relay, Stream
<1>0. /\ given + 1 \in 1..MaxMessages /\ Data(given + 1) \in Ciphertexts /\ route \in Generations
      /\ op' \in OpType
  <2>1. given + 1 \in 1..MaxMessages /\ route \in Generations
    BY DEF TypeOK, Steps, Generations
  <2>2. Data(given + 1) \in Ciphertexts /\ route \in 0..MaxGeneration
    BY <2>1, Ciphers DEF Generations
  <2> QED
    BY <2>1, <2>2, OpOf
<1>1. TypeOK'
  <2>1. lan' \subseteq [g : Generations, c : Ciphertexts]
    BY <1>0 DEF TypeOK
  <2> QED
    BY SMTT(30), <1>0, <2>1 DEF TypeOK, OpType
<1>2. Steps'
  BY DEF TypeOK, Steps, FenceOp
<1>3. Fences'
  BY DEF TypeOK, Steps, Fences, Unseen, FenceOp
<1>4. Query'
  BY DEF TypeOK, Steps, Query, Fences, Unseen, FenceOp, Got
<1>5. Prefix'
  <2>1. /\ opened' = 1..Got' /\ Got' <= given' /\ (IsData(admitted) => admitted.n <= Got)'
        /\ (\A s \in receipts : IsData(s.c) => s.c.n <= Got)'
    BY DEF Prefix, Got
  <2>2. (\A i \in 1..Len(wire) : IsData(wire[i]) =>
            /\ wire[i].n <= given
            /\ wire[i].n > Got + 1 => \E j \in 1..(i - 1) : wire[j] = Data(wire[i].n - 1))'
    <3>1. \A i \in 1..Len(wire) : wire[i].n \in Nat
      BY Cipher
    <3>2. \A i \in 1..Len(wire) : IsData(wire[i]) => wire[i].n <= given'
      BY <3>1 DEF Prefix
    <3> QED
      BY <3>2 DEF Prefix, Got
  <2>3. (IsData(writer) => writer.n <= given /\ Carried(writer.n - 1))'
    BY SMTT(30), Cipher DEF TypeOK, Prefix, Carried, Got, IsData
  <2>4. (\A s \in lan : IsData(s.c) => s.c.n <= given /\ s.c.n <= Got + 1)'
    <3>1. given <= Got
      BY DEF Ahead
    <3>2. \A s \in lan' : s \in lan \/ s.c.n = given + 1
      OBVIOUS
    <3>3. \A s \in lan : s.c.n \in Int
      BY Cipher DEF TypeOK
    <3> QED
      BY <3>1, <3>2, <3>3 DEF Prefix, Got
  <2> QED
    BY <2>1, <2>2, <2>3, <2>4 DEF Prefix
<1>6. Ahead'
  <2>1. given <= Got /\ op'.at = "direct" /\ op'.c.g = 0
    BY DEF Ahead
  <2>2. (\A i \in 1..Len(wire) : wire[i].n < given)' /\ writer'.n < given'
    <3>1. \A i \in 1..Len(wire) : wire[i].n \in Nat /\ wire[i].n <= given
      BY Cipher DEF Prefix, IsData
    <3>2. writer.n \in Nat /\ writer.n <= given
      BY Cipher DEF TypeOK, Prefix, IsData
    <3> QED
      BY <3>1, <3>2
  <2> QED
    BY <2>1, <2>2 DEF Ahead, Free, FenceOp, Got
<1> QED
  BY <1>1, <1>2, <1>3, <1>4, <1>5, <1>6 DEF IInv

LEMMA SealRelayStep ==
    ASSUME IInv, SealRelay
    PROVE  IInv'
<1> USE DataPlaneAssumption, Parts, WireTyped, OpTyped, IdleOp
    DEF IInv, SealRelay, sender, relay, paths, streams, receiver, Interrupted, Relay
<1>0. op' \in OpType /\ given' \in 0..MaxMessages
  <2>1. given + 1 \in 1..MaxMessages
    BY DEF TypeOK, Steps
  <2>2. Data(given + 1) \in Ciphertexts
    BY <2>1, Ciphers
  <2> QED
    BY <2>1, <2>2, OpOf
<1>1. TypeOK'
  BY <1>0 DEF TypeOK, OpType
<1>2. Steps'
  <2>1. given + 1 # 0 /\ route <= 0
    BY DEF TypeOK, Steps, Generations
  <2> QED
    BY SMTT(30), <2>1 DEF TypeOK, Steps, FenceOp
<1>3. Fences'
  BY SMTT(30) DEF TypeOK, Steps, Fences, Unseen, FenceOp
<1>4. Query'
  BY DEF TypeOK, Steps, Query, Fences, Unseen, FenceOp, Got
<1>5. Prefix'
  <2>1. given <= given' /\ given' \in Nat
    OBVIOUS
  <2>2. /\ opened' = 1..Got' /\ Got' <= given' /\ (IsData(admitted) => admitted.n <= Got)'
        /\ (\A s \in receipts : IsData(s.c) => s.c.n <= Got)'
    BY <2>1 DEF Prefix, Got
  <2>3. (\A i \in 1..Len(wire) : IsData(wire[i]) =>
            /\ wire[i].n <= given
            /\ wire[i].n > Got + 1 => \E j \in 1..(i - 1) : wire[j] = Data(wire[i].n - 1))'
    <3>1. \A i \in 1..Len(wire) : wire[i].n \in Nat
      BY Cipher
    <3>2. \A i \in 1..Len(wire) : IsData(wire[i]) => wire[i].n <= given'
      BY <3>1, <2>1 DEF Prefix
    <3> QED
      BY <3>2 DEF Prefix, Got
  <2>4. (IsData(writer) => writer.n <= given /\ Carried(writer.n - 1))'
    BY SMTT(30), <2>1, Cipher DEF TypeOK, Prefix, Carried, Got, IsData
  <2>5. (\A s \in lan : IsData(s.c) => s.c.n <= given /\ s.c.n <= Got + 1)'
    <3>1. \A s \in lan : s.c.n \in Int
      BY Cipher DEF TypeOK
    <3> QED
      BY <2>1, <3>1 DEF Prefix, Got
  <2> QED
    BY <2>2, <2>3, <2>4, <2>5 DEF Prefix
<1>6. Ahead'
  BY SMTT(30) DEF TypeOK, Steps, Ahead, Carried, Prefix, FenceOp, Free, IsData, Got
<1> QED
  BY <1>1, <1>2, <1>3, <1>4, <1>5, <1>6 DEF IInv

LEMMA DirectDoneStep ==
    ASSUME IInv, DirectDone
    PROVE  IInv'
<1> USE DataPlaneAssumption, Parts, WireTyped, OpTyped, IdleOp
    DEF IInv, DirectDone, sender, relay, paths, streams, receiver, Interrupted, Relay
<1>0. op' \in OpType
  BY OpOf
<1>1. TypeOK'
  BY <1>0 DEF TypeOK, OpType
<1>2. Steps'
  BY DEF TypeOK, Steps, FenceOp
<1>3. Fences'
  BY DEF TypeOK, Steps, Fences, Unseen, FenceOp
<1>4. Query'
  BY DEF TypeOK, Steps, Query, Fences, Unseen, FenceOp, Got
<1>5. Prefix'
  BY DEF TypeOK, Steps, Prefix, Carried, Ahead, IsData, Got
<1>6. Ahead'
  <2>1. given <= Got
    BY DEF Steps, Prefix, IsData
  <2> QED
    BY <2>1 DEF Ahead, Carried, Free, FenceOp, Got
<1> QED
  BY <1>1, <1>2, <1>3, <1>4, <1>5, <1>6 DEF IInv

LEMMA DirectFailsStep ==
    ASSUME IInv, DirectFails
    PROVE  IInv'
<1> USE DataPlaneAssumption, Parts, WireTyped, OpTyped, IdleOp
    DEF IInv, DirectFails, sender, relay, paths, streams, receiver, Interrupted, Relay
<1>0. op' \in OpType
  BY OpOf
<1>1. TypeOK'
  BY <1>0 DEF TypeOK, OpType
<1>2. Steps'
  <2>1. route' <= 0
    BY DEF TypeOK, Steps
  <2>2. CASE relayUp
    <3>1. op'.at = "submit" /\ op'.g = 0 /\ op'.c = Data(given) /\ given # 0 /\ op'.c.g = 0
      BY <2>2 DEF Steps
    <3> QED
      BY <2>1, <2>2, <3>1 DEF Steps, FenceOp
  <2>3. CASE ~relayUp
    BY <2>1, <2>3 DEF Steps, FenceOp
  <2> QED
    BY <2>2, <2>3
<1>3. Fences'
  BY DEF TypeOK, Steps, Fences, Unseen, FenceOp
<1>4. Query'
  BY DEF TypeOK, Steps, Query, Fences, Unseen, FenceOp, Got
<1>5. Prefix'
  BY DEF TypeOK, Steps, Prefix, Carried, Ahead, IsData, Got
<1>6. Ahead'
  BY SMTT(30) DEF TypeOK, Steps, Ahead, Carried, Prefix, FenceOp, Free, IsData, Got
<1> QED
  BY <1>1, <1>2, <1>3, <1>4, <1>5, <1>6 DEF IInv

LEMMA SubmitStep ==
    ASSUME IInv, Submit
    PROVE  IInv'
<1> USE DataPlaneAssumption, Parts, WireTyped, OpTyped, IdleOp
    DEF IInv, Submit, sender, relay, paths, streams, receiver, Interrupted, Relay
<1>0. op' \in OpType
  BY OpOf
<1>1. TypeOK'
  BY <1>0 DEF TypeOK, OpType
<1>2. Steps'
  BY DEF TypeOK, Steps, FenceOp
<1>3. Fences'
  <2>1. \A h : Unseen(h) => UnseenLater(h)
    BY UnseenStays DEF IsData
  <2>2. fencing' <= last'["a"] /\ last["a"] \in Nat /\ last'["a"] \in Nat
    BY DEF TypeOK, Fences, Ends
  <2>3. \A h \in Generations : h > last'["a"] => UnseenLater(h) /\ writer' # Fence(h)
    BY SMTT(30), <2>1, <2>2 DEF TypeOK, Steps, Fences, FenceOp, Generations
  <2>4. fencing' # 0 /\ (op'.at \notin {"relay", "query"} \/ op'.c.g = 0) =>
            UnseenLater(fencing') /\ writer' # Fence(fencing')
    BY <2>1, <2>2 DEF Steps, Fences, FenceOp
  <2>5. op'.c.g # 0 /\ op'.at = "relay" => UnseenLater(fencing')
    BY <2>1 DEF Steps, Fences, FenceOp
  <2> QED
    BY <2>2, <2>3, <2>4, <2>5, FencesNext
<1>4. Query'
  BY DEF TypeOK, Steps, Query, Fences, Unseen, FenceOp, Got
<1>5. Prefix'
  BY SMTT(40) DEF TypeOK, Steps, Prefix, Carried, Ahead, IsData, Got
<1>6. Ahead'
  BY DEF TypeOK, Steps, Ahead, Carried, Prefix, FenceOp, Free, IsData, Got
<1> QED
  BY <1>1, <1>2, <1>3, <1>4, <1>5, <1>6 DEF IInv

LEMMA RelaySendFailsStep ==
    ASSUME IInv, RelaySendFails
    PROVE  IInv'
<1> USE DataPlaneAssumption, Parts, WireTyped, OpTyped, IdleOp
    DEF IInv, RelaySendFails, sender, relay, paths, streams, receiver, Interrupted, Relay,
        Abandon, Sending, FenceOp
<1>0. op' \in OpType
  BY OpOf
<1>1. TypeOK'
  BY <1>0 DEF TypeOK, OpType
<1>2. Steps'
  BY DEF TypeOK, Steps, FenceOp
<1>3. Fences'
  <2>1. \A h : Unseen(h) => UnseenLater(h)
    BY UnseenStays DEF IsData
  <2>2. fencing' <= last'["a"] /\ last["a"] \in Nat /\ last'["a"] \in Nat
    BY DEF TypeOK, Fences, Ends
  <2>3. \A h \in Generations : h > last'["a"] => UnseenLater(h) /\ writer' # Fence(h)
    BY <2>1, <2>2 DEF TypeOK, Steps, Fences, FenceOp, Generations
  <2>4. fencing' # 0 /\ (op'.at \notin {"relay", "query"} \/ op'.c.g = 0) =>
            UnseenLater(fencing') /\ writer' # Fence(fencing')
    BY <2>1, <2>2 DEF Steps, Fences, FenceOp
  <2>5. op'.c.g # 0 /\ op'.at = "relay" => UnseenLater(fencing')
    BY <2>1 DEF Steps, Fences, FenceOp
  <2> QED
    BY <2>2, <2>3, <2>4, <2>5, FencesNext
<1>4. Query'
  BY DEF TypeOK, Steps, Query, Fences, Unseen, FenceOp, Got
<1>5. Prefix'
  BY DEF TypeOK, Steps, Prefix, Carried, Ahead, IsData, Got
<1>6. Ahead'
  BY DEF TypeOK, Steps, Ahead, Carried, Prefix, FenceOp, Free, IsData, Got
<1> QED
  BY <1>1, <1>2, <1>3, <1>4, <1>5, <1>6 DEF IInv

LEMMA OperationTimesOutStep ==
    ASSUME IInv, OperationTimesOut
    PROVE  IInv'
<1> USE DataPlaneAssumption, Parts, WireTyped, OpTyped, IdleOp
    DEF IInv, OperationTimesOut, sender, relay, paths, streams, receiver, Interrupted, Relay,
        Abandon, Sending, FenceOp
<1>0. op' \in OpType
  BY OpOf
<1>1. TypeOK'
  BY <1>0 DEF TypeOK, OpType
<1>2. Steps'
  BY DEF TypeOK, Steps, FenceOp
<1>3. Fences'
  <2>1. \A h : Unseen(h) => UnseenLater(h)
    BY UnseenStays DEF IsData
  <2>2. fencing' <= last'["a"] /\ last["a"] \in Nat /\ last'["a"] \in Nat
    BY DEF TypeOK, Fences, Ends
  <2>3. \A h \in Generations : h > last'["a"] => UnseenLater(h) /\ writer' # Fence(h)
    BY <2>1, <2>2 DEF TypeOK, Steps, Fences, FenceOp, Generations
  <2>4. fencing' # 0 /\ (op'.at \notin {"relay", "query"} \/ op'.c.g = 0) =>
            UnseenLater(fencing') /\ writer' # Fence(fencing')
    BY <2>1, <2>2 DEF Steps, Fences, FenceOp
  <2>5. op'.c.g # 0 /\ op'.at = "relay" => UnseenLater(fencing')
    BY <2>1 DEF Steps, Fences, FenceOp
  <2> QED
    BY <2>2, <2>3, <2>4, <2>5, FencesNext
<1>4. Query'
  BY DEF TypeOK, Steps, Query, Fences, Unseen, FenceOp, Got
<1>5. Prefix'
  BY DEF TypeOK, Steps, Prefix, Carried, Ahead, IsData, Got
<1>6. Ahead'
  BY DEF TypeOK, Steps, Ahead, Carried, Prefix, FenceOp, Free, IsData, Got
<1> QED
  BY <1>1, <1>2, <1>3, <1>4, <1>5, <1>6 DEF IInv

LEMMA LockWaitTimesOutStep ==
    ASSUME IInv, LockWaitTimesOut
    PROVE  IInv'
<1> USE DataPlaneAssumption, Parts, WireTyped, OpTyped, IdleOp
    DEF IInv, LockWaitTimesOut, sender, relay, paths, streams, receiver, Interrupted, Relay
<1>0. op' \in OpType
  BY OpOf
<1>1. TypeOK'
  BY <1>0 DEF TypeOK, OpType
<1>2. Steps'
  BY DEF TypeOK, Steps, FenceOp
<1>3. Fences'
  BY DEF TypeOK, Steps, Fences, Unseen, FenceOp
<1>4. Query'
  BY DEF TypeOK, Steps, Query, Fences, Unseen, FenceOp, Got
<1>5. Prefix'
  BY DEF TypeOK, Steps, Prefix, Carried, Ahead, IsData, Got
<1>6. Ahead'
  BY DEF TypeOK, Steps, Ahead, Carried, Prefix, FenceOp, Free, IsData, Got
<1> QED
  BY <1>1, <1>2, <1>3, <1>4, <1>5, <1>6 DEF IInv

LEMMA WriterWritesStep ==
    ASSUME IInv, WriterWrites
    PROVE  IInv'
<1> USE DataPlaneAssumption, Parts, WireTyped, OpTyped, IdleOp DEF IInv, Interrupted, Relay
<1>1. /\ writer # None /\ link /\ link' /\ wire' = Append(wire, writer) /\ writer' = None
      /\ UNCHANGED <<route, relayUp, closed, fencing, given, open, direct, last, receipts,
                     allowed, admitted, fence, opened, delivered, taken>>
  BY DEF WriterWrites, paths, receiver
<1>2. /\ writer \in Ciphertexts /\ wire' \in Seq(Ciphertexts) /\ Len(wire') = Len(wire) + 1
      /\ \A i \in 1..Len(wire') : \/ i \in 1..Len(wire) /\ wire'[i] = wire[i]
                                  \/ i = Len(wire) + 1 /\ wire'[i] = writer
      /\ \A i \in 1..Len(wire) : i \in 1..Len(wire') /\ wire'[i] = wire[i]
      /\ Len(wire') \in 1..Len(wire') /\ wire'[Len(wire')] = writer
  <2>1. writer \in Ciphertexts /\ wire \in Seq(Ciphertexts)
    BY <1>1 DEF TypeOK
  <2> QED
    BY <1>1, <2>1, AppendProperties
<1>3. Got' = Got
  BY <1>1 DEF Got
<1> DEFINE Other  == op.at # "relay" /\ op' = op /\ lan' = lan
           Told   == op.at = "relay" /\ ~FenceOp /\ writer = Data(given) /\ given # 0 /\ op' = Idle
                     /\ lan' = lan
           Fenced == /\ op.at = "relay" /\ FenceOp /\ writer = Fence(fencing) /\ fencing # 0
                     /\ op' = [at |-> "query", g |-> fencing, c |-> writer]
                     /\ lan' \subseteq lan \cup {[g |-> fencing, c |-> writer]}
<1>4. Other \/ Told \/ Fenced
  BY DEF WriterWrites, Written, AwaitsWrite, Stream, Steps, FenceOp, IsData
<1>5. TypeOK'
  <2>1. op' \in OpType /\ lan' \subseteq [g : Generations, c : Ciphertexts]
    BY <1>2, <1>4, OpOf DEF TypeOK, Generations
  <2> QED
    BY <1>1, <1>2, <2>1 DEF TypeOK, OpType
<1>6. Steps'
  BY SMTT(30), <1>1, <1>4 DEF Steps, FenceOp
<1>7. Fences'
  <2>1. \A h : Unseen(h) /\ writer # Fence(h) /\ (Fenced => h # fencing) => UnseenLater(h)
    BY <1>1, <1>2, <1>4 DEF Unseen, UnseenLater
  <2>2. fencing' <= last'["a"] /\ last["a"] \in Nat /\ fencing \in Nat
    BY <1>1 DEF TypeOK, Fences, Ends
  <2>3. \A h \in Generations : h > last'["a"] => UnseenLater(h) /\ writer' # Fence(h)
    BY <1>1, <2>1, <2>2 DEF Fences, Generations
  <2>4. fencing' # 0 /\ (op'.at \notin {"relay", "query"} \/ op'.c.g = 0) =>
            UnseenLater(fencing') /\ writer' # Fence(fencing')
    BY <1>1, <1>4, <2>1 DEF Steps, Fences, FenceOp
  <2>5. op'.at # "relay"
    BY <1>4
  <2> QED
    BY <2>2, <2>3, <2>4, <2>5, FencesNext
<1>8. Query'
  <2>1. CASE Other
    BY <1>1, <2>1 DEF Query
  <2>2. CASE Told
    BY <2>2 DEF Query
  <2>3. CASE Fenced
    <3>1. Unseen(fencing)
      BY <2>3 DEF Fences
    <3>2. given > Got => \E j \in 1..Len(wire) : wire[j] = Data(given)
      BY <1>1, <2>3 DEF Ahead, Free, Carried
    <3>3. \A i \in 1..Len(wire') : wire'[i] = Fence(fencing) => i = Len(wire')
      BY <1>2, <3>1 DEF Unseen
    <3>4. given > Got => \E j \in 1..(Len(wire') - 1) : wire'[j] = Data(given)
      BY <1>2, <3>2
    <3>5. fence # fencing /\ [g |-> fencing, c |-> writer] \notin receipts
      BY <2>3, <3>1 DEF Unseen
    <3>6. op'.at = "query" /\ op'.g = fencing /\ op'.c = Fence(fencing) /\ writer = Fence(fencing)
      BY <2>3
    <3> QED
      BY <1>1, <1>3, <3>3, <3>4, <3>5, <3>6 DEF Query
  <2> QED
    BY <1>4, <2>1, <2>2, <2>3
<1>9. Prefix'
  <2>1. /\ opened' = 1..Got' /\ Got' <= given' /\ (IsData(admitted) => admitted.n <= Got)'
        /\ (\A s \in receipts : IsData(s.c) => s.c.n <= Got)' /\ ~IsData(writer)'
    BY <1>1, <1>3 DEF Prefix, IsData
  <2>2. (\A s \in lan : IsData(s.c) => s.c.n <= given /\ s.c.n <= Got + 1)'
    BY <1>1, <1>3, <1>4 DEF Prefix, IsData
  <2>3. \A i \in 1..Len(wire') : IsData(wire'[i]) =>
            /\ wire'[i].n <= given
            /\ wire'[i].n > Got + 1 => \E j \in 1..(i - 1) : wire'[j] = Data(wire'[i].n - 1)
    <3>1. ASSUME NEW i \in 1..Len(wire), IsData(wire[i])
          PROVE  /\ wire[i].n <= given
                 /\ wire[i].n > Got + 1 => \E j \in 1..(i - 1) : wire'[j] = Data(wire[i].n - 1)
      BY <1>2, <3>1 DEF Prefix
    <3>2. writer.n \in Nat
      BY <1>2, Cipher
    <3>3. ASSUME IsData(writer)
          PROVE  /\ writer.n <= given
                 /\ writer.n > Got + 1 => \E j \in 1..Len(wire) : wire'[j] = Data(writer.n - 1)
      BY <1>1, <1>2, <3>2, <3>3 DEF Prefix, Carried
    <3> QED
      BY SMTT(30), <1>2, <3>1, <3>3
  <2> QED
    BY <1>1, <1>3, <2>1, <2>2, <2>3 DEF Prefix, IsData
<1>10. Ahead'
  <2>1. \A n \in Int : Carried(n) => CarriedLater(n)
    BY <1>1, <1>2, <1>3, CarriedStays
  <2>2. Free' /\ (route' # Interrupted \/ op'.at # "idle") => CarriedLater(given')
    <3>1. Told => CarriedLater(given)
      BY <1>2 DEF CarriedLater
    <3>2. Other \/ Fenced => (Free' => Free)
      BY DEF Free, FenceOp
    <3> QED
      BY <1>1, <1>4, <2>1, <3>1, <3>2 DEF Ahead
  <2>3. op'.at \in {"submit", "relay"} /\ ~FenceOp' => CarriedLater(given' - 1)
    BY <1>1, <1>4, <2>1 DEF Ahead, FenceOp
  <2>4. op'.at = "direct" =>
          /\ given' <= Got' + 1
          /\ \A i \in 1..Len(wire') : wire'[i].n < given'
          /\ writer'.n < given'
    BY <1>1, <1>2, <1>3, <1>4 DEF Ahead, Steps
  <2>5. route' > 0 /\ op'.at # "direct" => given' <= Got'
    BY <1>1, <1>3, <1>4 DEF Ahead, Steps
  <2> QED
    BY <2>2, <2>3, <2>4, <2>5 DEF Ahead, Carried, CarriedLater
<1> QED
  BY <1>5, <1>6, <1>7, <1>8, <1>9, <1>10

LEMMA WriterSkipsStep ==
    ASSUME IInv, WriterSkips
    PROVE  IInv'
<1> USE DataPlaneAssumption, Parts, WireTyped, OpTyped, IdleOp
    DEF IInv, WriterSkips, sender, relay, paths, streams, receiver, Interrupted, Relay,
        AwaitsWrite
<1>0. op' \in OpType
  BY OpOf
<1>1. TypeOK'
  BY <1>0 DEF TypeOK, OpType
<1>2. Steps'
  BY DEF TypeOK, Steps, FenceOp
<1>3. Fences'
  <2>1. \A h : Unseen(h) => UnseenLater(h)
    BY UnseenStays DEF IsData
  <2>2. fencing' <= last'["a"] /\ last["a"] \in Nat /\ last'["a"] \in Nat
    BY DEF TypeOK, Fences, Ends
  <2>3. \A h \in Generations : h > last'["a"] => UnseenLater(h) /\ writer' # Fence(h)
    BY SMTT(30), <2>1, <2>2 DEF TypeOK, Steps, Fences, FenceOp, Generations
  <2>4. fencing' # 0 /\ (op'.at \notin {"relay", "query"} \/ op'.c.g = 0) =>
            UnseenLater(fencing') /\ writer' # Fence(fencing')
    BY <2>1, <2>2 DEF Steps, Fences, FenceOp
  <2>5. op'.c.g # 0 /\ op'.at = "relay" => UnseenLater(fencing')
    BY <2>1 DEF Steps, Fences, FenceOp
  <2> QED
    BY <2>2, <2>3, <2>4, <2>5, FencesNext
<1>4. Query'
  BY DEF TypeOK, Steps, Query, Fences, Unseen, FenceOp, Got
<1>5. Prefix'
  BY DEF TypeOK, Steps, Prefix, Carried, Ahead, IsData, Got
<1>6. Ahead'
  BY DEF TypeOK, Steps, Ahead, Carried, Prefix, FenceOp, Free, IsData, Got
<1> QED
  BY <1>1, <1>2, <1>3, <1>4, <1>5, <1>6 DEF IInv

LEMMA FenceStartStep ==
    ASSUME IInv, FenceStart
    PROVE  IInv'
<1> USE DataPlaneAssumption, Parts, WireTyped, OpTyped, IdleOp
    DEF IInv, FenceStart, sender, relay, paths, streams, receiver, Interrupted, Relay
<1>0. op' \in OpType
  <2>1. fencing # 0 => fencing \in 0..MaxGeneration /\ Fence(fencing) \in Ciphertexts
    BY Ciphers DEF TypeOK, Generations
  <2> QED
    BY <2>1, OpOf
<1>1. TypeOK'
  BY SMTT(30), <1>0 DEF TypeOK, OpType
<1>2. Steps'
  BY DEF TypeOK, Steps, FenceOp
<1>3. Fences'
  <2>1. \A h : Unseen(h) => UnseenLater(h)
    BY UnseenStays DEF IsData
  <2>2. fencing' <= last'["a"] /\ last["a"] \in Nat /\ last'["a"] \in Nat
    BY DEF TypeOK, Fences, Ends
  <2>3. \A h \in Generations : h > last'["a"] => UnseenLater(h) /\ writer' # Fence(h)
    BY <2>1, <2>2 DEF TypeOK, Steps, Fences, FenceOp, Generations
  <2>4. fencing' # 0 /\ (op'.at \notin {"relay", "query"} \/ op'.c.g = 0) =>
            UnseenLater(fencing') /\ writer' # Fence(fencing')
    BY <2>1, <2>2 DEF Steps, Fences, FenceOp
  <2>5. op'.c.g # 0 /\ op'.at = "relay" => UnseenLater(fencing')
    BY <2>1 DEF Steps, Fences, FenceOp
  <2> QED
    BY <2>2, <2>3, <2>4, <2>5, FencesNext
<1>4. Query'
  BY DEF TypeOK, Steps, Query, Fences, Unseen, FenceOp, Got
<1>5. Prefix'
  BY DEF TypeOK, Steps, Prefix, Carried, Ahead, IsData, Got
<1>6. Ahead'
  BY DEF TypeOK, Steps, Ahead, Carried, Prefix, FenceOp, Free, IsData, Got
<1> QED
  BY <1>1, <1>2, <1>3, <1>4, <1>5, <1>6 DEF IInv

LEMMA FenceTimesOutStep ==
    ASSUME IInv, FenceTimesOut
    PROVE  IInv'
<1> USE DataPlaneAssumption, Parts, WireTyped, OpTyped, IdleOp
    DEF IInv, FenceTimesOut, sender, relay, paths, streams, receiver, Interrupted, Relay
<1>0. op' \in OpType
  BY OpOf
<1>1. TypeOK'
  BY <1>0 DEF TypeOK, OpType
<1>2. Steps'
  BY DEF TypeOK, Steps, FenceOp
<1>3. Fences'
  <2>1. \A h : Unseen(h) => UnseenLater(h)
    BY UnseenStays DEF IsData
  <2>2. fencing' <= last'["a"] /\ last["a"] \in Nat /\ last'["a"] \in Nat
    BY DEF TypeOK, Fences, Ends
  <2>3. \A h \in Generations : h > last'["a"] => UnseenLater(h) /\ writer' # Fence(h)
    BY <2>1, <2>2 DEF TypeOK, Steps, Fences, FenceOp, Generations
  <2>4. fencing' # 0 /\ (op'.at \notin {"relay", "query"} \/ op'.c.g = 0) =>
            UnseenLater(fencing') /\ writer' # Fence(fencing')
    BY <2>1, <2>2 DEF Steps, Fences, FenceOp
  <2>5. op'.c.g # 0 /\ op'.at = "relay" => UnseenLater(fencing')
    BY <2>1 DEF Steps, Fences, FenceOp
  <2> QED
    BY <2>2, <2>3, <2>4, <2>5, FencesNext
<1>4. Query'
  BY DEF TypeOK, Steps, Query, Fences, Unseen, FenceOp, Got
<1>5. Prefix'
  BY DEF TypeOK, Steps, Prefix, Carried, Ahead, IsData, Got
<1>6. Ahead'
  BY DEF TypeOK, Steps, Ahead, Carried, Prefix, FenceOp, Free, IsData, Got
<1> QED
  BY <1>1, <1>2, <1>3, <1>4, <1>5, <1>6 DEF IInv

LEMMA FenceDoneStep ==
    ASSUME IInv, FenceDone
    PROVE  IInv'
<1> USE DataPlaneAssumption, Parts, WireTyped, OpTyped, IdleOp
    DEF IInv, FenceDone, sender, relay, paths, streams, receiver, Interrupted, Relay, Promoted
<1>0. op' \in OpType
  BY OpOf
<1>1. TypeOK'
  BY <1>0 DEF TypeOK, OpType
<1>2. Steps'
  BY DEF TypeOK, Steps, FenceOp
<1>3. Fences'
  BY DEF TypeOK, Steps, Fences, Unseen, FenceOp
<1>4. Query'
  BY DEF TypeOK, Steps, Query, Fences, Unseen, FenceOp, Got
<1>5. Prefix'
  BY DEF TypeOK, Steps, Prefix, Carried, Ahead, IsData, Got
<1>6. Ahead'
  <2>1. wire = <<>> /\ given <= Got /\ op'.at = "idle"
    BY DEF Steps, Query, FenceOp
  <2> QED
    BY <2>1 DEF Ahead, Carried, Free, FenceOp, Got
<1> QED
  BY <1>1, <1>2, <1>3, <1>4, <1>5, <1>6 DEF IInv

LEMMA AttachSenderStep ==
    ASSUME IInv, NEW g \in Generations, AttachSender(g)
    PROVE  IInv'
<1> USE DataPlaneAssumption, Parts, WireTyped, OpTyped, IdleOp
    DEF IInv, AttachSender, sender, relay, paths, streams, receiver, Interrupted, Relay,
        CanAttach, Installed
<1>0. op' \in OpType
  BY OpOf
<1>1. TypeOK'
  <2>1. direct' \in [Ends -> 0..MaxGeneration] /\ last' \in [Ends -> 0..MaxGeneration]
    BY SMTT(30) DEF TypeOK, Ends, Generations
  <2> QED
    BY <1>0, <2>1 DEF TypeOK, OpType
<1>2. Steps'
  BY DEF TypeOK, Steps, FenceOp
<1>3. Fences'
  <2>1. \A h : Unseen(h) => UnseenLater(h)
    BY UnseenStays DEF IsData
  <2>2. fencing' <= last'["a"] /\ last["a"] \in Nat /\ last'["a"] \in Nat
    <3>1. last'["a"] = g /\ fencing' = g /\ g \in Nat
      BY DEF TypeOK, Ends, Generations
    <3> QED
      BY <3>1 DEF TypeOK, Ends
  <2>3. \A h \in Generations : h > last'["a"] => UnseenLater(h) /\ writer' # Fence(h)
    BY <2>1, <2>2 DEF TypeOK, Steps, Fences, FenceOp, Generations
  <2>4. fencing' # 0 /\ (op'.at \notin {"relay", "query"} \/ op'.c.g = 0) =>
            UnseenLater(fencing') /\ writer' # Fence(fencing')
    BY <2>1, <2>2 DEF Steps, Fences, FenceOp
  <2>5. op'.c.g # 0 /\ op'.at = "relay" => UnseenLater(fencing')
    BY <2>1 DEF Steps, Fences, FenceOp
  <2> QED
    BY <2>2, <2>3, <2>4, <2>5, FencesNext
<1>4. Query'
  BY DEF TypeOK, Steps, Query, Fences, Unseen, FenceOp, Got
<1>5. Prefix'
  BY DEF TypeOK, Steps, Prefix, Carried, Ahead, IsData, Got
<1>6. Ahead'
  <2>1. route' <= 0
    BY DEF TypeOK
  <2>2. Free /\ (route # Interrupted \/ op.at # "idle") => \A n : n = given => Carried(n)
    BY DEF Ahead
  <2> QED
    BY SMTT(30), <2>1, <2>2 DEF TypeOK, Steps, Ahead, Carried, FenceOp, Free, Got
<1> QED
  BY <1>1, <1>2, <1>3, <1>4, <1>5, <1>6 DEF IInv

LEMMA AttachReceiverStep ==
    ASSUME IInv, NEW g \in Generations, AttachReceiver(g)
    PROVE  IInv'
<1> USE DataPlaneAssumption, Parts, WireTyped, OpTyped, IdleOp
    DEF IInv, AttachReceiver, sender, relay, paths, streams, receiver, Interrupted, Relay,
        CanAttach, Installed
<1>0. op' \in OpType
  BY OpOf
<1>1. TypeOK'
  <2>1. direct' \in [Ends -> 0..MaxGeneration] /\ last' \in [Ends -> 0..MaxGeneration]
    BY SMTT(30) DEF TypeOK, Ends, Generations
  <2> QED
    BY <1>0, <2>1 DEF TypeOK, OpType
<1>2. Steps'
  BY DEF TypeOK, Steps, FenceOp
<1>3. Fences'
  BY DEF TypeOK, Steps, Fences, Unseen, FenceOp
<1>4. Query'
  BY DEF TypeOK, Steps, Query, Fences, Unseen, FenceOp, Got
<1>5. Prefix'
  BY DEF TypeOK, Steps, Prefix, Carried, Ahead, IsData, Got
<1>6. Ahead'
  BY DEF TypeOK, Steps, Ahead, Carried, Prefix, FenceOp, Free, IsData, Got
<1> QED
  BY <1>1, <1>2, <1>3, <1>4, <1>5, <1>6 DEF IInv

LEMMA LoseLanStep ==
    ASSUME IInv, NEW e \in Ends, NEW g \in Generations, LoseLan(e, g)
    PROVE  IInv'
<1> USE DataPlaneAssumption, Parts, WireTyped, OpTyped, IdleOp
    DEF IInv, LoseLan, sender, relay, paths, streams, receiver, Interrupted, Relay
<1>0. op' \in OpType
  BY OpOf
<1>1. TypeOK'
  BY <1>0 DEF TypeOK, OpType
<1>2. Steps'
  BY DEF TypeOK, Steps, FenceOp
<1>3. Fences'
  BY DEF TypeOK, Steps, Fences, Unseen, FenceOp
<1>4. Query'
  BY DEF TypeOK, Steps, Query, Fences, Unseen, FenceOp, Got
<1>5. Prefix'
  BY DEF TypeOK, Steps, Prefix, Carried, Ahead, IsData, Got
<1>6. Ahead'
  BY DEF TypeOK, Steps, Ahead, Carried, Prefix, FenceOp, Free, IsData, Got
<1> QED
  BY <1>1, <1>2, <1>3, <1>4, <1>5, <1>6 DEF IInv

LEMMA CloseObservedStep ==
    ASSUME IInv, NEW e \in Ends, CloseObserved(e)
    PROVE  IInv'
<1> USE DataPlaneAssumption, Parts, WireTyped, OpTyped, IdleOp
    DEF IInv, CloseObserved, sender, relay, paths, streams, receiver, Interrupted, Relay
<1>0. op' \in OpType
  BY OpOf
<1>1. TypeOK'
  BY <1>0 DEF TypeOK, OpType
<1>2. Steps'
  BY SMTT(30) DEF TypeOK, Steps, FenceOp
<1>3. Fences'
  BY DEF TypeOK, Steps, Fences, Unseen, FenceOp
<1>4. Query'
  BY DEF TypeOK, Steps, Query, Fences, Unseen, FenceOp, Got
<1>5. Prefix'
  BY DEF TypeOK, Steps, Prefix, Carried, Ahead, IsData, Got
<1>6. Ahead'
  BY DEF TypeOK, Steps, Ahead, Carried, Prefix, FenceOp, Free, IsData, Got
<1> QED
  BY <1>1, <1>2, <1>3, <1>4, <1>5, <1>6 DEF IInv

LEMMA LoseRelayStep ==
    ASSUME IInv, LoseRelay
    PROVE  IInv'
<1> USE DataPlaneAssumption, Parts, WireTyped, OpTyped, IdleOp
    DEF IInv, LoseRelay, sender, relay, paths, streams, receiver, Interrupted, Relay
<1>0. op' \in OpType
  BY OpOf
<1>1. TypeOK'
  <2>1. wire' \in Seq(Ciphertexts)
    BY SubSeqProperties DEF TypeOK
  <2> QED
    BY ZenonT(30), <2>1 DEF TypeOK
<1>2. Steps'
  BY DEF TypeOK, Steps, FenceOp
<1>3. Fences'
  BY DEF TypeOK, Steps, Fences, Unseen, FenceOp
<1>4. Query'
  BY DEF TypeOK, Steps, Query, Fences, Unseen, FenceOp, Got
<1>5. Prefix'
  BY SMTT(30) DEF TypeOK, Steps, Prefix, Carried, Ahead, IsData, Got
<1>6. Ahead'
  BY DEF TypeOK, Steps, Ahead, Carried, Prefix, FenceOp, Free, IsData, Got
<1> QED
  BY <1>1, <1>2, <1>3, <1>4, <1>5, <1>6 DEF IInv

LEMMA RelayLossObservedStep ==
    ASSUME IInv, RelayLossObserved
    PROVE  IInv'
<1> USE DataPlaneAssumption, Parts, WireTyped, OpTyped, IdleOp
    DEF IInv, RelayLossObserved, sender, relay, paths, streams, receiver, Interrupted, Relay
<1>0. op' \in OpType
  BY OpOf
<1>1. TypeOK'
  BY <1>0 DEF TypeOK, OpType
<1>2. Steps'
  BY DEF TypeOK, Steps, FenceOp
<1>3. Fences'
  BY DEF TypeOK, Steps, Fences, Unseen, FenceOp
<1>4. Query'
  BY DEF TypeOK, Steps, Query, Fences, Unseen, FenceOp, Got
<1>5. Prefix'
  BY DEF TypeOK, Steps, Prefix, Carried, Ahead, IsData, Got
<1>6. Ahead'
  BY DEF TypeOK, Steps, Ahead, Carried, Prefix, FenceOp, Free, IsData, Got
<1> QED
  BY <1>1, <1>2, <1>3, <1>4, <1>5, <1>6 DEF IInv

LEMMA CloseStep ==
    ASSUME IInv, Close
    PROVE  IInv'
<1> USE DataPlaneAssumption, Parts, WireTyped, OpTyped, IdleOp
    DEF IInv, Close, sender, relay, paths, streams, receiver, Interrupted, Relay, Sending,
        FenceOp
<1>0. op' \in OpType
  BY OpOf
<1>1. TypeOK'
  BY <1>0 DEF TypeOK, OpType
<1>2. Steps'
  BY DEF TypeOK, Steps, FenceOp
<1>3. Fences'
  <2>1. \A h : Unseen(h) => UnseenLater(h)
    BY UnseenStays DEF IsData
  <2>2. fencing' <= last'["a"] /\ last["a"] \in Nat /\ last'["a"] \in Nat
    BY DEF TypeOK, Fences, Ends
  <2>3. \A h \in Generations : h > last'["a"] => UnseenLater(h) /\ writer' # Fence(h)
    BY <2>1, <2>2 DEF TypeOK, Steps, Fences, FenceOp, Generations
  <2>4. fencing' # 0 /\ (op'.at \notin {"relay", "query"} \/ op'.c.g = 0) =>
            UnseenLater(fencing') /\ writer' # Fence(fencing')
    BY <2>1, <2>2 DEF Steps, Fences, FenceOp
  <2>5. op'.c.g # 0 /\ op'.at = "relay" => UnseenLater(fencing')
    BY <2>1 DEF Steps, Fences, FenceOp
  <2> QED
    BY <2>2, <2>3, <2>4, <2>5, FencesNext
<1>4. Query'
  BY DEF TypeOK, Steps, Query, Fences, Unseen, FenceOp, Got
<1>5. Prefix'
  BY DEF TypeOK, Steps, Prefix, Carried, Ahead, IsData, Got
<1>6. Ahead'
  BY DEF TypeOK, Steps, Ahead, Carried, Prefix, FenceOp, Free, IsData, Got
<1> QED
  BY <1>1, <1>2, <1>3, <1>4, <1>5, <1>6 DEF IInv

LEMMA RelayAdmitsStep ==
    ASSUME IInv, RelayAdmits
    PROVE  IInv'
<1> USE DataPlaneAssumption, Parts, WireTyped, OpTyped DEF IInv, Interrupted, Relay
<1>0. PICK c : c = Head(wire)
  OBVIOUS
<1>1. /\ wire # <<>> /\ wire' = Tail(wire)
      /\ UNCHANGED <<route, relayUp, closed, op, fencing, given, writer, link, open, direct, last,
                     lan, receipts, allowed, taken>>
  BY DEF RelayAdmits, sender, paths, streams, receiver, Admit
<1>2. /\ c = wire[1] /\ c \in Ciphertexts /\ Len(wire) >= 1 /\ Len(wire') = Len(wire) - 1
      /\ wire' \in Seq(Ciphertexts)
      /\ \A i \in 1..Len(wire') : i + 1 \in 1..Len(wire) /\ wire'[i] = wire[i + 1]
      /\ \A i \in 1..Len(wire) : i = 1 \/ (i - 1 \in 1..Len(wire') /\ wire'[i - 1] = wire[i])
  BY SMTT(30), <1>0, <1>1
<1>3. /\ c.n \in Nat /\ (IsData(c) => c = Data(c.n)) /\ (~IsData(c) => c = Fence(c.g) /\ c.g \in 1..MaxGeneration)
      /\ IsData(c) => c.n \in 1..MaxMessages
  BY <1>2, Ciphers, Cipher DEF IsData
<1>4. IsData(c) => c.n <= Got + 1 /\ c.n <= given
  <2>1. IsData(c) => c.n <= given /\ (c.n > Got + 1 => \E j \in 1..(1 - 1) : wire[j] = Data(c.n - 1))
    BY <1>2 DEF Prefix
  <2> QED
    BY <1>3, <2>1
<1>5. opened = 1..Got /\ Got <= given
  BY DEF Prefix
<1> DEFINE Known == UNCHANGED receiver /\ (IsData(c) => c.n <= Got)
           Fenced == ~IsData(c) /\ fence' = c.g /\ UNCHANGED <<admitted, opened, delivered>>
           New == /\ IsData(c) /\ c.n = Got + 1 /\ Room /\ opened' = opened \cup {c.n}
                  /\ delivered' = Append(delivered, c.n) /\ admitted' = c /\ UNCHANGED fence
<1>6. Known \/ Fenced \/ New
  <2>1. IsData(c) /\ c = admitted => c.n <= Got
    BY DEF Prefix
  <2>2. IsData(c) /\ c.n \in opened => c.n <= Got
    BY <1>5
  <2>3. IsData(c) /\ c.n \notin opened => c.n = Got + 1
    BY <1>3, <1>4, <1>5
  <2> QED
    BY <1>0, <2>1, <2>2, <2>3 DEF RelayAdmits, Repeated, Admit, receiver
<1>7. /\ Got' = Got \/ (Got' = Got + 1 /\ New)
      /\ delivered' \in Seq(1..MaxMessages)
  <2>1. delivered \in Seq(1..MaxMessages)
    BY DEF TypeOK
  <2>2. New => /\ delivered' \in Seq(1..MaxMessages) /\ Len(delivered') = Len(delivered) + 1
    BY <1>3, <2>1, AppendProperties
  <2> QED
    BY <1>6, <2>1, <2>2 DEF Got, receiver
<1>8. /\ Got' \in Nat /\ Got <= Got' /\ Got' <= given /\ (IsData(c) => c.n <= Got')
      /\ opened' = 1..Got'
      /\ IsData(admitted') => admitted'.n <= Got'
      /\ fence' # fence => ~IsData(c) /\ fence' = c.g /\ Got' = Got
  <2>1. CASE New
    <3>1. Got' = Got + 1 /\ c.n = Got + 1 /\ admitted' = c /\ fence' = fence
      BY <2>1 DEF Got
    <3>2. opened' = 1..Got'
      BY <1>5, <2>1, <3>1
    <3> QED
      BY <1>4, <2>1, <3>1, <3>2
  <2>2. CASE Known \/ Fenced
    <3>1. Got' = Got /\ opened' = opened /\ admitted' = admitted
      BY <2>2 DEF Got, receiver
    <3> QED
      BY <1>5, <2>2, <3>1 DEF Prefix, receiver
  <2> QED
    BY <1>6, <2>1, <2>2
<1>9. TypeOK'
  <2>1. /\ taken' \in 0..Len(delivered') /\ Len(delivered') - taken' <= Capacity
    BY SMTT(30), <1>1, <1>6, <1>7 DEF TypeOK, Got, Room, receiver
  <2>2. admitted' \in Ciphertexts \cup {None} /\ fence' \in 0..MaxGeneration
    BY <1>2, <1>3, <1>6 DEF TypeOK, receiver
  <2>3. opened' \subseteq 1..MaxMessages
    BY <1>1, <1>8 DEF TypeOK
  <2> QED
    BY SMTT(30), <1>1, <1>2, <1>7, <2>1, <2>2, <2>3 DEF TypeOK
<1> HIDE DEF Known, Fenced, New
<1>10. Steps'
  BY <1>1 DEF Steps, FenceOp
<1>11. Fences'
  <2>1. \A h : Unseen(h) => UnseenLater(h)
    BY <1>1, <1>2, <1>3, <1>8 DEF Unseen, UnseenLater
  <2> QED
    BY <1>1, <2>1, FencesNext DEF Fences, FenceOp
<1>12. Query'
  <2> SUFFICES ASSUME op.at = "query"
               PROVE  /\ writer' = None
                      /\ \A i \in 1..Len(wire') : wire'[i] = op.c =>
                            /\ i = Len(wire')
                            /\ given > Got' => \E j \in 1..(i - 1) : wire'[j] = Data(given)
                      /\ fence' = op.g => wire' = <<>> /\ given <= Got'
                      /\ [g |-> op.g, c |-> op.c] \in receipts => fence' = op.g
    BY <1>1 DEF Query
  <2>1. writer' = None
    BY <1>1 DEF Query
  <2>2. fence # op.g /\ [g |-> op.g, c |-> op.c] \notin receipts
    BY <1>1 DEF Query
  <2>3. ASSUME NEW i \in 1..Len(wire'), wire'[i] = op.c
        PROVE  /\ i = Len(wire')
               /\ given > Got' => \E j \in 1..(i - 1) : wire'[j] = Data(given)
    <3>1. i + 1 \in 1..Len(wire) /\ wire[i + 1] = op.c
      BY <1>2, <2>3
    <3>2. i + 1 = Len(wire) /\ (given > Got => \E j \in 1..i : wire[j] = Data(given))
      BY <3>1 DEF Query
    <3>3. ASSUME given > Got'
          PROVE  \E j \in 1..(i - 1) : wire'[j] = Data(given)
      <4>1. PICK j \in 1..i : wire[j] = Data(given)
        BY <1>8, <3>2, <3>3
      <4>2. j # 1
        BY <1>2, <1>8, <3>3, <4>1 DEF IsData
      <4>3. j - 1 \in 1..(i - 1) /\ wire'[j - 1] = Data(given)
        BY SMTT(30), <1>2, <4>1, <4>2
      <4> QED
        BY <4>3
    <3>4. i = Len(wire')
      BY <1>2, <3>2
    <3> QED
      BY <3>3, <3>4
  <2>4. ASSUME fence' = op.g
        PROVE  wire' = <<>> /\ given <= Got'
    <3>1. c = Fence(op.g) /\ Got' = Got
      BY <1>3, <1>8, <2>2, <2>4
    <3>2. wire[1] = op.c
      BY <1>2, <3>1 DEF Steps, FenceOp
    <3>3. 1 = Len(wire) /\ (given > Got => \E j \in 1..0 : wire[j] = Data(given))
      BY <1>2, <3>2 DEF Query
    <3>4. Len(wire') = 0
      BY <1>2, <3>3
    <3> QED
      BY <1>2, <3>1, <3>3, <3>4, EmptySeq
  <2> QED
    BY <2>1, <2>2, <2>3, <2>4
<1>13. \A n \in Int : Carried(n) => CarriedLater(n)
  <2>1. \A i \in 1..Len(wire) :
            IsData(wire[i]) /\ wire[i].n > Got' => \E j \in 1..Len(wire') : wire'[j] = wire[i]
    BY <1>2, <1>3, <1>8
  <2> QED
    BY <1>1, <1>8, <2>1, CarriedStays
<1>14. Prefix'
  <2>1. \A i \in 1..Len(wire') : IsData(wire'[i]) =>
            /\ wire'[i].n <= given
            /\ wire'[i].n > Got' + 1 => \E j \in 1..(i - 1) : wire'[j] = Data(wire'[i].n - 1)
    <3>1. SUFFICES ASSUME NEW i \in 1..Len(wire'), IsData(wire'[i])
                   PROVE  /\ wire'[i].n <= given
                          /\ wire'[i].n > Got' + 1 => \E j \in 1..(i - 1) : wire'[j] = Data(wire'[i].n - 1)
      OBVIOUS
    <3>2. PICK n : n = wire'[i].n
      OBVIOUS
    <3>3. i + 1 \in 1..Len(wire) /\ wire[i + 1].n = n /\ IsData(wire[i + 1]) /\ n \in Nat
      BY <1>2, <3>1, <3>2, Cipher, SMTT(40)
    <3>4. n <= given /\ (n > Got + 1 => \E j \in 1..i : wire[j] = Data(n - 1))
      BY SMTT(30), <3>3 DEF Prefix
    <3>5. ASSUME n > Got' + 1
          PROVE  \E j \in 1..(i - 1) : wire'[j] = Data(n - 1)
      <4>0. n > Got + 1 /\ n - 1 > Got' /\ n - 1 # 0
        <5>1. Got \in Nat /\ Got' \in Nat /\ Got <= Got' /\ n \in Nat /\ n > Got' + 1
          BY <1>8, <3>3, <3>5
        <5> HIDE DataPlaneAssumption, Parts, WireTyped, OpTyped
        <5> QED
          BY <5>1, Beyond
      <4>1. PICK j \in 1..i : wire[j] = Data(n - 1)
        BY <3>4, <4>0
      <4>2. j # 1
        <5>1. c = Data(n - 1) => c.n = n - 1 /\ IsData(c)
          BY <4>0 DEF IsData
        <5>2. c # Data(n - 1)
          BY <1>8, <3>3, <4>0, <5>1
        <5> QED
          BY <1>2, <4>1, <5>2
      <4>3. j - 1 \in 1..(i - 1) /\ wire'[j - 1] = Data(n - 1)
        BY SMTT(30), <1>2, <3>3, <4>1, <4>2
      <4> QED
        BY <4>3
    <3> QED
      BY <3>2, <3>4, <3>5
  <2>2. IsData(writer) => writer.n <= given /\ CarriedLater(writer.n - 1)
    <3>1. writer.n \in Nat
      BY Cipher DEF TypeOK
    <3> QED
      BY <1>13, <3>1 DEF Prefix
  <2>3. \A s \in lan : IsData(s.c) => s.c.n <= given /\ s.c.n <= Got' + 1
    <3>1. \A s \in lan : s.c.n \in Nat
      BY Cipher DEF TypeOK
    <3> QED
      BY <1>8, <3>1 DEF Prefix
  <2>4. \A s \in receipts : IsData(s.c) => s.c.n <= Got'
    <3>1. \A s \in receipts : s.c.n \in Nat
      BY Cipher DEF TypeOK
    <3> QED
      BY <1>8, <3>1 DEF Prefix
  <2> QED
    BY <1>1, <1>8, <2>1, <2>2, <2>3, <2>4 DEF Prefix, Carried, CarriedLater, IsData
<1>15. Ahead'
  <2>1. Free /\ (route # Interrupted \/ op.at # "idle") => CarriedLater(given)
    BY <1>13 DEF Ahead
  <2>2. op.at \in {"submit", "relay"} /\ ~FenceOp => CarriedLater(given - 1)
    BY <1>13 DEF Ahead
  <2>3. op.at = "direct" =>
          /\ given <= Got' + 1
          /\ \A i \in 1..Len(wire') : wire'[i].n < given
          /\ writer.n < given
    BY SMTT(30), <1>2, <1>8 DEF Ahead
  <2>4. route > 0 /\ op.at # "direct" => given <= Got'
    BY <1>8 DEF Ahead
  <2> QED
    BY <1>1, <2>1, <2>2, <2>3, <2>4 DEF Ahead, Carried, CarriedLater, Free, FenceOp
<1> QED
  BY <1>9, <1>10, <1>11, <1>12, <1>14, <1>15

LEMMA LanAdmitsStep ==
    ASSUME IInv, NEW s \in lan, LanAdmits(s)
    PROVE  IInv'
<1> USE DataPlaneAssumption, Parts, WireTyped, OpTyped DEF IInv, Interrupted, Relay
<1>1. /\ IsData(s.c) /\ lan' = lan \ {s} /\ receipts' \subseteq receipts \cup {s}
      /\ UNCHANGED <<route, relayUp, closed, op, fencing, given, writer, link, wire, open, direct,
                     last, allowed, fence, taken>>
  BY DEF LanAdmits, Acknowledged, sender, relay, paths, receiver, Admit
<1>2. /\ s.c.n \in 1..MaxMessages /\ s.c.n <= given /\ s.c.n <= Got + 1 /\ s.c \in Ciphertexts
      /\ s \in [g : Generations, c : Ciphertexts]
      /\ opened = 1..Got /\ Got <= given
  <2>1. s \in [g : Generations, c : Ciphertexts]
    BY DEF TypeOK
  <2> QED
    BY <1>1, <2>1, Cipher DEF Prefix, IsData
<1> DEFINE Known == UNCHANGED receiver /\ s.c.n <= Got
           New == /\ s.c.n = Got + 1 /\ Room /\ opened' = opened \cup {s.c.n}
                  /\ delivered' = Append(delivered, s.c.n) /\ admitted' = s.c
<1>3. Known \/ New
  <2>1. s.c = admitted => s.c.n <= Got
    BY <1>1 DEF Prefix
  <2>2. s.c.n \notin opened => s.c.n = Got + 1
    BY <1>2
  <2> QED
    BY <2>1, <2>2 DEF LanAdmits, Repeated, Admit
<1>4. /\ Got' = Got \/ (Got' = Got + 1 /\ New)
      /\ delivered' \in Seq(1..MaxMessages)
  <2>1. delivered \in Seq(1..MaxMessages)
    BY DEF TypeOK
  <2>2. New => /\ delivered' \in Seq(1..MaxMessages) /\ Len(delivered') = Len(delivered) + 1
    BY <1>2, <2>1, AppendProperties
  <2> QED
    BY <1>3, <2>1, <2>2 DEF Got, receiver
<1>5. /\ Got' \in Nat /\ Got <= Got' /\ Got' <= given /\ s.c.n <= Got' /\ opened' = 1..Got'
      /\ IsData(admitted') => admitted'.n <= Got'
  <2>1. CASE New
    <3>1. Got' = Got + 1 /\ s.c.n = Got + 1 /\ admitted' = s.c
      BY <2>1 DEF Got
    <3>2. opened' = 1..Got'
      BY <1>2, <2>1, <3>1
    <3> QED
      BY <1>2, <3>1, <3>2
  <2>2. CASE Known
    BY <1>2, <2>2 DEF Got, receiver, Prefix
  <2> QED
    BY <1>3, <2>1, <2>2
<1>6. TypeOK'
  <2>1. /\ taken' \in 0..Len(delivered') /\ Len(delivered') - taken' <= Capacity
    BY <1>1, <1>3, <1>4 DEF TypeOK, Got, Room, receiver
  <2>2. admitted' \in Ciphertexts \cup {None} /\ opened' \subseteq 1..MaxMessages
    BY <1>2, <1>3 DEF TypeOK, receiver
  <2>3. lan' \subseteq [g : Generations, c : Ciphertexts] /\ receipts' \subseteq [g : Generations, c : Ciphertexts]
    BY <1>1, <1>2 DEF TypeOK
  <2> QED
    BY <1>1, <1>4, <2>1, <2>2, <2>3 DEF TypeOK
<1> HIDE DEF Known, New
<1>7. Steps'
  BY <1>1 DEF Steps, FenceOp
<1>8. Fences'
  <2>1. \A h : Unseen(h) => UnseenLater(h)
    BY <1>1, UnseenStays
  <2> QED
    BY <1>1, <2>1, FencesNext DEF Fences, FenceOp
<1>9. Query'
  <2> SUFFICES ASSUME op.at = "query"
               PROVE  /\ \A i \in 1..Len(wire) : wire[i] = op.c =>
                            i = Len(wire) /\ (given > Got' => \E j \in 1..(i - 1) : wire[j] = Data(given))
                      /\ fence = op.g => wire = <<>> /\ given <= Got'
                      /\ [g |-> op.g, c |-> op.c] \in receipts' => fence = op.g
                      /\ writer = None
    BY <1>1 DEF Query
  <2>1. op.c.n = 0
    BY DEF Steps, FenceOp
  <2>2. [g |-> op.g, c |-> op.c] \in receipts' => [g |-> op.g, c |-> op.c] \in receipts
    BY <1>1, <2>1 DEF IsData
  <2> QED
    BY <1>5, <2>2, SMTT(40) DEF Query
<1>10. \A n \in Int : Carried(n) => CarriedLater(n)
  BY <1>1, <1>5, CarriedStays
<1>11. Prefix'
  <2>1. \A i \in 1..Len(wire) : IsData(wire[i]) =>
            /\ wire[i].n <= given
            /\ wire[i].n > Got' + 1 => \E j \in 1..(i - 1) : wire[j] = Data(wire[i].n - 1)
    <3> SUFFICES ASSUME NEW i \in 1..Len(wire), IsData(wire[i])
                 PROVE  /\ wire[i].n <= given
                        /\ wire[i].n > Got' + 1 =>
                             \E j \in 1..(i - 1) : wire[j] = Data(wire[i].n - 1)
      OBVIOUS
    <3>1. wire[i].n \in Nat
      BY Cipher
    <3>2. /\ wire[i].n <= given
          /\ wire[i].n > Got + 1 => \E j \in 1..(i - 1) : wire[j] = Data(wire[i].n - 1)
      BY DEF Prefix
    <3>3. Got \in Nat /\ (wire[i].n > Got' + 1 => wire[i].n > Got + 1)
      BY <1>5, <3>1 DEF TypeOK, Got
    <3> QED
      BY <3>2, <3>3
  <2>2. IsData(writer) => writer.n <= given /\ CarriedLater(writer.n - 1)
    <3>1. writer.n \in Nat
      BY Cipher DEF TypeOK
    <3> QED
      BY <1>10, <3>1 DEF Prefix
  <2>3. \A t \in lan' : IsData(t.c) => t.c.n <= given /\ t.c.n <= Got' + 1
    <3>1. \A t \in lan : t.c.n \in Nat
      BY Cipher DEF TypeOK
    <3> QED
      BY <1>1, <1>5, <3>1 DEF Prefix
  <2>4. \A t \in receipts' : IsData(t.c) => t.c.n <= Got'
    <3>1. \A t \in receipts : t.c.n \in Nat
      BY Cipher DEF TypeOK
    <3> QED
      BY <1>1, <1>5, <3>1 DEF Prefix
  <2> QED
    BY <1>1, <1>5, <2>1, <2>2, <2>3, <2>4 DEF Prefix, Carried, CarriedLater, IsData
<1>12. Ahead'
  <2>1. Free /\ (route # Interrupted \/ op.at # "idle") => CarriedLater(given)
    BY <1>10 DEF Ahead
  <2>2. op.at \in {"submit", "relay"} /\ ~FenceOp => CarriedLater(given - 1)
    BY <1>10 DEF Ahead
  <2>3. op.at = "direct" =>
          /\ given <= Got' + 1
          /\ \A i \in 1..Len(wire) : wire[i].n < given
          /\ writer.n < given
    BY <1>5 DEF Ahead
  <2>4. route > 0 /\ op.at # "direct" => given <= Got'
    BY <1>5 DEF Ahead
  <2> QED
    BY <1>1, <2>1, <2>2, <2>3, <2>4 DEF Ahead, Carried, CarriedLater, Free, FenceOp
<1> QED
  BY <1>6, <1>7, <1>8, <1>9, <1>11, <1>12

LEMMA LanQueryStep ==
    ASSUME IInv, NEW s \in lan, LanQuery(s)
    PROVE  IInv'
<1> USE DataPlaneAssumption, Parts, WireTyped, OpTyped, IdleOp
    DEF IInv, LanQuery, sender, relay, paths, streams, receiver, Interrupted, Relay,
        Acknowledged, FenceAdmitted
<1>0. op' \in OpType
  BY OpOf
<1>1. TypeOK'
  BY <1>0 DEF TypeOK, OpType
<1>2. Steps'
  BY DEF TypeOK, Steps, FenceOp
<1>3. Fences'
  BY DEF TypeOK, Steps, Fences, Unseen, FenceOp
<1>4. Query'
  BY DEF TypeOK, Steps, Query, Fences, Unseen, FenceOp, Got
<1>5. Prefix'
  BY SMTT(30) DEF TypeOK, Steps, Prefix, Carried, Ahead, IsData, Got
<1>6. Ahead'
  BY DEF TypeOK, Steps, Ahead, Carried, Prefix, FenceOp, Free, IsData, Got
<1> QED
  BY <1>1, <1>2, <1>3, <1>4, <1>5, <1>6 DEF IInv

LEMMA LanGivesUpStep ==
    ASSUME IInv, NEW s \in lan, LanGivesUp(s)
    PROVE  IInv'
<1> USE DataPlaneAssumption, Parts, WireTyped, OpTyped, IdleOp
    DEF IInv, LanGivesUp, sender, relay, paths, streams, receiver, Interrupted, Relay
<1>0. op' \in OpType
  BY OpOf
<1>1. TypeOK'
  BY <1>0 DEF TypeOK, OpType
<1>2. Steps'
  BY DEF TypeOK, Steps, FenceOp
<1>3. Fences'
  BY DEF TypeOK, Steps, Fences, Unseen, FenceOp
<1>4. Query'
  BY DEF TypeOK, Steps, Query, Fences, Unseen, FenceOp, Got
<1>5. Prefix'
  BY DEF TypeOK, Steps, Prefix, Carried, Ahead, IsData, Got
<1>6. Ahead'
  BY DEF TypeOK, Steps, Ahead, Carried, Prefix, FenceOp, Free, IsData, Got
<1> QED
  BY <1>1, <1>2, <1>3, <1>4, <1>5, <1>6 DEF IInv

LEMMA TakeStep ==
    ASSUME IInv, Take
    PROVE  IInv'
<1> USE DataPlaneAssumption, Parts, WireTyped, OpTyped, IdleOp
    DEF IInv, Take, sender, relay, paths, streams, receiver, Interrupted, Relay
<1>0. op' \in OpType
  BY OpOf
<1>1. TypeOK'
  <2>1. taken' \in 0..Len(delivered) /\ Len(delivered) - taken' <= Capacity
    BY DEF TypeOK, Got
  <2> QED
    BY ZenonT(30), <1>0, <2>1 DEF TypeOK
<1>2. Steps'
  BY DEF TypeOK, Steps, FenceOp
<1>3. Fences'
  BY DEF TypeOK, Steps, Fences, Unseen, FenceOp
<1>4. Query'
  BY DEF TypeOK, Steps, Query, Fences, Unseen, FenceOp, Got
<1>5. Prefix'
  BY DEF TypeOK, Steps, Prefix, Carried, Ahead, IsData, Got
<1>6. Ahead'
  BY DEF TypeOK, Steps, Ahead, Carried, Prefix, FenceOp, Free, IsData, Got
<1> QED
  BY <1>1, <1>2, <1>3, <1>4, <1>5, <1>6 DEF IInv

-----------------------------------------------------------------------------
(* The invariant. *)

LEMMA Initially ==
    ASSUME Init
    PROVE  IInv
<1> USE DataPlaneAssumption, Parts, IdleOp DEF Init
<1>1. TypeOK
  <2>1. op \in OpType /\ Len(delivered) = 0 /\ Len(wire) = 0
    OBVIOUS
  <2>2. /\ wire \in Seq(Ciphertexts) /\ delivered \in Seq(1..MaxMessages)
        /\ taken \in 0..Len(delivered) /\ Len(delivered) - taken <= Capacity
    BY <2>1
  <2>3. /\ open \in [Generations -> SUBSET Ends]
        /\ direct \in [Ends -> 0..MaxGeneration] /\ last \in [Ends -> 0..MaxGeneration]
    BY DEF Ends
  <2>4. /\ fencing \in 0..MaxGeneration /\ given \in 0..MaxMessages /\ fence \in 0..MaxGeneration
        /\ writer \in Ciphertexts \cup {None} /\ admitted \in Ciphertexts \cup {None}
    OBVIOUS
  <2>5. /\ lan \subseteq [g : Generations, c : Ciphertexts]
        /\ receipts \subseteq [g : Generations, c : Ciphertexts]
        /\ opened \subseteq 1..MaxMessages
    OBVIOUS
  <2>6. /\ route \in Generations \cup {Relay, Interrupted} /\ relayUp \in BOOLEAN
        /\ closed \in BOOLEAN /\ link \in BOOLEAN /\ allowed \in BOOLEAN
    OBVIOUS
  <2> HIDE DEF Init
  <2> QED
    BY <2>1, <2>2, <2>3, <2>4, <2>5, <2>6 DEF TypeOK, OpType
<1>2. Steps /\ Fences /\ Query
  BY <1>1 DEF Steps, Fences, Query, Unseen, FenceOp, Relay, Interrupted, Generations, Ends
<1>3. Prefix /\ Ahead
  BY <1>1 DEF Prefix, Ahead, Carried, FenceOp, Free, Got, IsData, Relay, Interrupted
<1> QED
  BY <1>1, <1>2, <1>3 DEF IInv

LEMMA StutterStep ==
    ASSUME IInv, UNCHANGED vars
    PROVE  IInv'
<1> USE DEF IInv, vars, sender, relay, paths, streams, receiver
<1>1. TypeOK'
  BY DEF TypeOK
<1>2. Steps' /\ Query'
  BY DEF Steps, Query, FenceOp, Got
<1>3. Fences'
  BY DEF Fences, Unseen, FenceOp
<1>4. Prefix'
  BY DEF Prefix, Carried, Got
<1>5. Ahead'
  BY DEF Ahead, Carried, Free, FenceOp, Got
<1> QED
  BY <1>1, <1>2, <1>3, <1>4, <1>5

LEMMA Inductive ==
    ASSUME IInv, [Next]_vars
    PROVE  IInv'
<1>1. CASE Begin \/ SealDirect \/ SealRelay \/ DirectDone \/ DirectFails \/ Submit
  BY <1>1, BeginStep, SealDirectStep, SealRelayStep, DirectDoneStep, DirectFailsStep, SubmitStep
<1>2. CASE RelaySendFails \/ OperationTimesOut \/ LockWaitTimesOut \/ WriterWrites \/ WriterSkips
  BY <1>2, RelaySendFailsStep, OperationTimesOutStep, LockWaitTimesOutStep, WriterWritesStep,
     WriterSkipsStep
<1>3. CASE FenceStart \/ FenceTimesOut \/ FenceDone
  BY <1>3, FenceStartStep, FenceTimesOutStep, FenceDoneStep
<1>4. CASE \E g \in Generations : AttachSender(g) \/ AttachReceiver(g)
  BY <1>4, AttachSenderStep, AttachReceiverStep
<1>5. CASE \E e \in Ends, g \in Generations : LoseLan(e, g)
  BY <1>5, LoseLanStep
<1>6. CASE \E e \in Ends : CloseObserved(e)
  BY <1>6, CloseObservedStep
<1>7. CASE LoseRelay \/ RelayLossObserved \/ Close \/ RelayAdmits \/ Take \/ UNCHANGED vars
  BY <1>7, LoseRelayStep, RelayLossObservedStep, CloseStep, RelayAdmitsStep, TakeStep,
      StutterStep
<1>8. CASE \E s \in lan : LanAdmits(s) \/ LanQuery(s) \/ LanGivesUp(s)
  BY <1>8, LanAdmitsStep, LanQueryStep, LanGivesUpStep
<1> QED
  BY <1>1, <1>2, <1>3, <1>4, <1>5, <1>6, <1>7, <1>8 DEF Next

\* What the lane keeps true over any number of path switches and losses.
THEOREM LaneInvariant == Spec => []IInv
<1> QED
  BY Initially, Inductive, PTL DEF Spec

\* Every variable of the lane keeps its type; the receiver's queue its capacity.
THEOREM LaneTypes == Spec => []TypeOK
<1>1. IInv => TypeOK
  BY DEF IInv
<1> QED
  BY <1>1, LaneInvariant, PTL

\* A lane is promoted to a LAN connection only when the fence of that very
\* connection was admitted behind everything sent before (the fence and its
\* query in session_data_plane): nothing sent over the LAN overtakes.
THEOREM NothingOvertakes == Spec => []NoBacklogBehindDirect
<1>1. ASSUME IInv PROVE NoBacklogBehindDirect
  <2> USE <1>1, DataPlaneAssumption, WireTyped DEF IInv
  <2>1. \A i \in 1..Len(wire) : wire[i].n \in Nat
    BY Cipher
  <2>2. writer.n \in Nat
    BY Cipher DEF TypeOK
  <2>3. opened = 1..Got
    BY DEF Prefix
  <2>4. ASSUME route > 0
        PROVE  /\ \A i \in 1..Len(wire) : IsData(wire[i]) => wire[i].n <= Got
               /\ IsData(writer) => writer.n <= Got
    <3>1. CASE op.at = "direct"
      BY <2>1, <2>2, <3>1 DEF Ahead
    <3>2. CASE op.at # "direct"
      BY <2>1, <2>2, <2>4, <3>2 DEF Ahead, Prefix
    <3> QED
      BY <3>1, <3>2
  <2>5. DOMAIN wire = 1..Len(wire)
    BY LenProperties DEF TypeOK
  <2> QED
    BY <2>1, <2>2, <2>3, <2>4, <2>5 DEF NoBacklogBehindDirect, IsData
<1> QED
  BY <1>1, LaneInvariant, PTL

-----------------------------------------------------------------------------
(* The refinement: what each step is to the callers of the lane.             *)

Unanswered == op.at \in {"direct", "submit", "relay"} /\ Sending
Broken == (route = Interrupted \/ closed) /\ op.at # "sealing"

LEMMA Gives ==
    ASSUME ~Unanswered, ~Broken, given' = given + 1, Unanswered', UNCHANGED delivered
    PROVE  Lane!Give
  BY DEF Lane!Give, Unanswered, Broken

LEMMA Delivers ==
    ASSUME Got < given, delivered' = Append(delivered, Got + 1), UNCHANGED given,
           Unanswered' <=> Unanswered, Broken' <=> Broken
    PROVE  Lane!Deliver
  BY DEF Lane!Deliver, Unanswered, Broken, Got

LEMMA AnswersRelay ==
    ASSUME Unanswered, ~Unanswered', Broken' <=> Broken, UNCHANGED <<given, delivered>>
    PROVE  Lane!AnswerRelay
  BY DEF Lane!AnswerRelay, Unanswered, Broken

LEMMA AnswersDirect ==
    ASSUME Unanswered, ~Unanswered', Broken' <=> Broken, UNCHANGED <<given, delivered>>,
           Got = given
    PROVE  Lane!AnswerDirect
  BY AnswersRelay DEF Lane!AnswerDirect, Got

LEMMA Fails ==
    ASSUME Unanswered, ~Unanswered', Broken', UNCHANGED <<given, delivered>>
    PROVE  Lane!Fail
  BY DEF Lane!Fail, Unanswered, Broken

LEMMA Breaks ==
    ASSUME Unanswered' <=> Unanswered, Broken', UNCHANGED <<given, delivered>>
    PROVE  Lane!Break
  BY DEF Lane!Break, Unanswered, Broken

LEMMA Stutters ==
    ASSUME Unanswered' <=> Unanswered, Broken' <=> Broken, UNCHANGED <<given, delivered>>
    PROVE  UNCHANGED Lane!vars
  BY DEF Lane!vars, Unanswered, Broken

LEMMA SenderRefines ==
    ASSUME IInv,
           \/ Begin \/ SealDirect \/ SealRelay \/ DirectDone \/ DirectFails \/ Submit
           \/ RelaySendFails \/ OperationTimesOut \/ LockWaitTimesOut \/ Close
    PROVE  Lane!Next \/ UNCHANGED Lane!vars
<1> USE DataPlaneAssumption, Parts, WireTyped, OpTyped, IdleOp
    DEF IInv, sender, relay, paths, streams, receiver, Interrupted, Relay, Unanswered, Broken, Sending
<1>1. CASE Begin
  BY <1>1, Stutters DEF Begin, CanSend
<1>2. CASE SealDirect
  BY <1>2, Gives DEF SealDirect, Steps, Lane!Next
<1>3. CASE SealRelay /\ relayUp
  BY <1>3, Gives DEF SealRelay, Steps, Lane!Next
<1>4. CASE SealRelay /\ ~relayUp
  BY <1>4, Breaks, Stutters DEF SealRelay, Steps, Lane!Next
<1>5. CASE DirectDone
  <2>1. Got = given
    BY <1>5 DEF DirectDone, Steps, Prefix, IsData
  <2> QED
    BY <1>5, <2>1, AnswersDirect DEF DirectDone, Steps, Lane!Next
<1>6. CASE DirectFails /\ relayUp
  BY <1>6, Stutters DEF DirectFails, Steps, TypeOK, Generations
<1>7. CASE DirectFails /\ ~relayUp
  BY <1>7, Fails DEF DirectFails, Steps, Lane!Next
<1>8. CASE Submit
  BY <1>8, Stutters DEF Submit
<1>9. CASE RelaySendFails
  BY <1>9, Fails, Stutters DEF RelaySendFails, Abandon, Steps, FenceOp, Lane!Next
<1>10. CASE OperationTimesOut
  BY <1>10, Fails, Breaks, Stutters DEF OperationTimesOut, Abandon, Steps, FenceOp, Lane!Next
<1>11. CASE LockWaitTimesOut
  BY <1>11, Breaks, Stutters DEF LockWaitTimesOut, Lane!Next
<1>12. CASE Close
  BY <1>12, Fails, Breaks DEF Close, Lane!Next
<1> QED
  BY <1>1, <1>2, <1>3, <1>4, <1>5, <1>6, <1>7, <1>8, <1>9, <1>10, <1>11, <1>12

LEMMA PathsRefine ==
    ASSUME IInv,
           \/ WriterWrites \/ WriterSkips \/ FenceStart \/ FenceTimesOut \/ FenceDone
           \/ \E g \in Generations : AttachSender(g) \/ AttachReceiver(g)
           \/ \E e \in Ends, g \in Generations : LoseLan(e, g)
           \/ \E e \in Ends : CloseObserved(e)
           \/ LoseRelay \/ RelayLossObserved \/ Take \/ UNCHANGED vars
    PROVE  Lane!Next \/ UNCHANGED Lane!vars
<1> USE DataPlaneAssumption, Parts, WireTyped, OpTyped, IdleOp
    DEF IInv, sender, relay, paths, streams, receiver, Interrupted, Relay, Unanswered, Broken, Sending
<1>1. CASE WriterWrites
  BY <1>1, AnswersRelay, Stutters
     DEF WriterWrites, Written, AwaitsWrite, Steps, FenceOp, IsData, Lane!Next
<1>2. CASE WriterSkips
  BY <1>2, Stutters DEF WriterSkips
<1>3. CASE FenceStart
  BY <1>3, Stutters DEF FenceStart
<1>4. CASE FenceTimesOut
  BY <1>4, Stutters DEF FenceTimesOut, Steps, FenceOp
<1>5. CASE FenceDone
  BY <1>5, Stutters DEF FenceDone, Promoted, Steps, FenceOp, TypeOK, Generations
<1>6. ASSUME NEW g \in Generations, AttachSender(g)
      PROVE  UNCHANGED Lane!vars
  BY <1>6, Stutters DEF AttachSender, Steps, FenceOp
<1>7. ASSUME NEW g \in Generations, AttachReceiver(g)
      PROVE  UNCHANGED Lane!vars
  BY <1>7, Stutters DEF AttachReceiver
<1>8. ASSUME NEW e \in Ends, NEW g \in Generations, LoseLan(e, g)
      PROVE  UNCHANGED Lane!vars
  BY <1>8, Stutters DEF LoseLan
<1>9. ASSUME NEW e \in Ends, CloseObserved(e)
      PROVE  UNCHANGED Lane!vars
  BY <1>9, Stutters DEF CloseObserved, TypeOK, Ends
<1>10. CASE LoseRelay \/ RelayLossObserved \/ Take \/ UNCHANGED vars
  BY <1>10, Stutters DEF LoseRelay, RelayLossObserved, Take, vars
<1> QED
  BY <1>1, <1>2, <1>3, <1>4, <1>5, <1>6, <1>7, <1>8, <1>9, <1>10

LEMMA ReceiverRefines ==
    ASSUME IInv,
           RelayAdmits \/ \E s \in lan : LanAdmits(s) \/ LanQuery(s) \/ LanGivesUp(s)
    PROVE  Lane!Next \/ UNCHANGED Lane!vars
<1> USE DataPlaneAssumption, WireTyped DEF IInv
<1>1. opened = 1..Got /\ Got <= given
  BY DEF Prefix
<1>2. UNCHANGED <<op, route, closed, given>>
  BY DEF RelayAdmits, LanAdmits, LanQuery, LanGivesUp, sender
<1>3. (Unanswered' <=> Unanswered) /\ (Broken' <=> Broken)
  BY <1>2 DEF Unanswered, Broken, Sending
<1>4. ASSUME NEW c \in Ciphertexts, IsData(c), c.n \notin opened, c.n <= Got + 1, c.n <= given,
             delivered' = Append(delivered, c.n)
      PROVE  Lane!Next
  <2>1. c.n = Got + 1
    BY <1>1, <1>4, Cipher DEF IsData
  <2> QED
    BY <1>2, <1>3, <1>4, <2>1, Delivers DEF Lane!Next
<1>5. CASE UNCHANGED delivered
  BY <1>2, <1>3, <1>5, Stutters
<1>6. CASE RelayAdmits
  <2>1. PICK c : c = Head(wire)
    OBVIOUS
  <2>2. c \in Ciphertexts /\ c = wire[1] /\ 1 \in 1..Len(wire)
    BY <1>6, <2>1 DEF RelayAdmits
  <2>3. IsData(c) => c.n <= given /\ (c.n > Got + 1 => \E j \in 1..(1 - 1) : wire[j] = Data(c.n - 1))
    BY <2>2 DEF Prefix
  <2>4. IsData(c) => c.n <= given /\ c.n <= Got + 1
    BY <2>2, <2>3, Cipher
  <2>5. \/ UNCHANGED delivered
        \/ IsData(c) /\ c.n \notin opened /\ delivered' = Append(delivered, c.n)
    BY <1>6, <2>1 DEF RelayAdmits, Admit, receiver
  <2> QED
    BY <1>4, <1>5, <2>2, <2>4, <2>5
<1>7. ASSUME NEW s \in lan, LanAdmits(s)
      PROVE  Lane!Next \/ UNCHANGED Lane!vars
  <2>1. s.c \in Ciphertexts
    BY DEF TypeOK
  <2>2. IsData(s.c) => s.c.n <= given /\ s.c.n <= Got + 1
    BY DEF Prefix
  <2>3. \/ UNCHANGED delivered
        \/ IsData(s.c) /\ s.c.n \notin opened /\ delivered' = Append(delivered, s.c.n)
    BY <1>7 DEF LanAdmits, Admit, receiver
  <2> QED
    BY <1>4, <1>5, <2>1, <2>2, <2>3
<1>8. ASSUME NEW s \in lan, LanQuery(s) \/ LanGivesUp(s)
      PROVE  UNCHANGED delivered
  BY <1>8 DEF LanQuery, LanGivesUp, receiver
<1> QED
  BY <1>5, <1>6, <1>7, <1>8

LEMMA LaneStep ==
    ASSUME IInv, [Next]_vars
    PROVE  [Lane!Next]_(Lane!vars)
  BY SenderRefines, PathsRefine, ReceiverRefines DEF Next

\* A caller of a lane sees one message at a time, answered once, delivered in
\* order, whether it travelled by relay, by LAN, or by the relay after the LAN
\* failed it (send_lane and its fallback in session_data_plane).
THEOREM LaneImplementsReliable == Spec => LaneSpec
<1>1. Init => Lane!Init
  BY DEF Init, Lane!Init, Idle, Sending, Relay, Interrupted
<1>2. IInv /\ [Next]_vars => [Lane!Next]_(Lane!vars)
  BY LaneStep
<1> QED
  BY <1>1, <1>2, LaneInvariant, PTL DEF Spec, LaneSpec, Lane!Spec

-----------------------------------------------------------------------------
(*                       The agreement on a LAN connection                 *)

Lanes == {<<>>, <<"candidate">>, <<"offer">>, <<"ready">>, <<"commit">>}

\* At most one message is under way to each end, and each belongs to a stage.
Handshake ==
    /\ control \in [Switch!Ends -> Lanes]
    /\ control[Switch!Controller] \in {<<>>, <<"candidate">>, <<"offer">>, <<"commit">>}
    /\ control[Switch!Host] \in {<<>>, <<"ready">>}
    /\ control[Switch!Controller] = <<"offer">> =>
         /\ stage[Switch!Host] = "offered" /\ stage[Switch!Controller] = "none"
         /\ control[Switch!Host] = <<>> /\ ~parked
    /\ control[Switch!Controller] = <<"commit">> =>
         stage[Switch!Host] \in {"commitPending", "finished"} /\ stage[Switch!Controller] = "readySent"
    /\ control[Switch!Host] = <<"ready">> =>
         /\ stage[Switch!Host] = "offered" /\ stage[Switch!Controller] = "readySent"
         /\ control[Switch!Controller] = <<>>
    /\ parked =>
         /\ control = [e \in Switch!Ends |-> <<>>]
         /\ stage[Switch!Host] = "offered" /\ stage[Switch!Controller] = "none"
         /\ Switch!Probing /\ ~connection

\* What the stages of the two ends say of each other.
Stages ==
    /\ stage \in [Switch!Ends -> {"none", "offered", "readySent", "commitPending", "finished"}]
    /\ ended \in [Switch!Ends -> BOOLEAN] /\ attached \in [Switch!Ends -> BOOLEAN]
    /\ stage[Switch!Host] # "readySent"
    /\ stage[Switch!Controller] \notin {"offered", "commitPending"}
    /\ stage[Switch!Host] = "none" =>
         /\ stage[Switch!Controller] = "none" /\ control[Switch!Host] = <<>>
         /\ control[Switch!Controller] \in {<<>>, <<"candidate">>}
    /\ stage[Switch!Host] \in {"commitPending", "finished"} =>
         /\ stage[Switch!Controller] \in {"readySent", "finished"}
         /\ control[Switch!Host] = <<>>
    /\ stage[Switch!Host] = "offered" =>
         stage[Switch!Controller] # "finished" /\ control[Switch!Controller] \in {<<>>, <<"offer">>}
    /\ stage[Switch!Controller] = "readySent" => connection
    /\ attached[Switch!Host] => stage[Switch!Host] = "finished"
    /\ attached[Switch!Controller] => stage[Switch!Controller] = "finished"
    /\ stage[Switch!Controller] = "finished" =>
         attached[Switch!Controller] \/ ended[Switch!Controller]

\* What the probe has come to: nothing is confirmed before it succeeded, and none that
\* was given up succeeded.
ProbeIsTrue ==
    /\ probe \in {"none", "running", "answered", "over"}
    /\ probe \in {"none", "running"} =>
         /\ ~accepted /\ stage = [e \in Switch!Ends |-> "none"]
         /\ control[Switch!Host] = <<>> /\ ~connection /\ ~parked
    /\ control[Switch!Controller] = <<"candidate">> => probe = "none" /\ ~accepted /\ ~failed
    /\ Switch!Probing =>
         /\ ~failed /\ ~connection /\ stage[Switch!Controller] = "none"
         /\ ~ended[Switch!Controller]
    /\ accepted => /\ control = [e \in Switch!Ends |-> <<>>] /\ ~parked
                   /\ stage = [e \in Switch!Ends |-> "none"]
    /\ connection => probe = "over" /\ ~failed
    /\ probe = "over" /\ ~failed => connection \/ stage[Switch!Controller] = "finished"
    /\ failed => /\ stage[Switch!Controller] = "none" /\ ~ended[Switch!Controller]
                 /\ ~attached[Switch!Controller] /\ ~connection

SwitchInv ==
    /\ Handshake /\ Stages /\ ProbeIsTrue

\* A lane that holds at most one message.
LEMMA OneMessage ==
    ASSUME NEW m
    PROVE  /\ Head(<<m>>) = m /\ Tail(<<m>>) = <<>> /\ Append(<<>>, m) = <<m>>
           /\ <<>> \o <<m>> = <<m>> /\ <<>> \o <<>> = <<>> /\ <<m>> # <<>>
  OBVIOUS

\* The lanes are different from each other.
LEMMA LanesDiffer ==
    /\ <<>> # <<"candidate">> /\ <<>> # <<"offer">> /\ <<>> # <<"ready">> /\ <<>> # <<"commit">>
    /\ <<"candidate">> # <<"offer">>
    /\ <<"candidate">> # <<"ready">>
    /\ <<"candidate">> # <<"commit">>
    /\ <<"offer">> # <<"ready">> /\ <<"offer">> # <<"commit">> /\ <<"ready">> # <<"commit">>
  OBVIOUS

\* A message that is received was the only one.
LEMMA ReceivesOne ==
    ASSUME SwitchInv, NEW e \in Switch!Ends, NEW m, control[e] # <<>>, Head(control[e]) = m
    PROVE  control[e] = <<m>> /\ Tail(control[e]) = <<>>
  BY ZenonT(30), OneMessage DEF SwitchInv, Handshake, Lanes

LEMMA SwitchBegins == Switch!Init => SwitchInv
<1> SUFFICES ASSUME Switch!Init PROVE SwitchInv
  OBVIOUS
<1> USE DEF Switch!Init, Switch!Ends,
         Switch!Host, Switch!Controller, Switch!Probing
<1>1. Handshake
  BY DEF Handshake, Lanes
<1>2. Stages
  BY DEF Stages
<1>3. ProbeIsTrue
  BY DEF ProbeIsTrue
<1> QED
  BY <1>1, <1>2, <1>3 DEF SwitchInv

LEMMA SwitchStep ==
    ASSUME SwitchInv, [Switch!Next]_(Switch!vars)
    PROVE  SwitchInv'
<1> USE OneMessage, LanesDiffer, ReceivesOne
    DEF SwitchInv, Handshake, Stages, ProbeIsTrue, Switch!Ends, Lanes, Switch!Host, Switch!Controller, Switch!Probing,
         Switch!Receive, Switch!Send, Switch!EndSession, Switch!ApplyOffer, Switch!Ready,
         Switch!Attach, Switch!probing
<1>1. CASE Switch!Expire
  BY <1>1 DEF Switch!Expire
<1>2. CASE Switch!CandidateArrives
  <2>1. Handshake'
    BY <1>2 DEF Switch!CandidateArrives
  <2>2. Stages'
    BY <1>2 DEF Switch!CandidateArrives
  <2>3. ProbeIsTrue'
    BY SMTT(30), <1>2 DEF Switch!CandidateArrives
  <2> QED
    BY <2>1, <2>2, <2>3
<1>3. CASE Switch!ProbeConnects
  BY <1>3 DEF Switch!ProbeConnects
<1>4. CASE Switch!ProbeFails
  BY <1>4 DEF Switch!ProbeFails
<1>5. CASE Switch!ProbeSucceeds
  <2>1. Handshake'
    BY <1>5 DEF Switch!ProbeSucceeds
  <2>4. stage[Switch!Controller] = "none" \/ UNCHANGED stage
    BY <1>5 DEF Switch!ProbeSucceeds
  <2>5. stage' = [stage EXCEPT ![Switch!Controller] = "readySent"] \/ UNCHANGED stage
    BY <1>5 DEF Switch!ProbeSucceeds
  <2>6. UNCHANGED attached /\ connection'
    BY <1>5 DEF Switch!ProbeSucceeds
  <2>8. ended' = [ended EXCEPT ![Switch!Controller] = TRUE] \/ UNCHANGED ended
    BY <1>5 DEF Switch!ProbeSucceeds
  <2>7. ended' \in [Switch!Ends -> BOOLEAN]
    BY <2>8
  <2>2. Stages'
    <3>1. CASE parked
      <4>1. /\ control[Switch!Controller] = <<>> /\ control[Switch!Host] = <<>>
            /\ stage[Switch!Host] = "offered" /\ stage[Switch!Controller] = "none"
        BY <3>1
      <4>2. control'[Switch!Controller] = <<>> /\ stage'[Switch!Host] = "offered"
            /\ stage'[Switch!Controller] \in {"none", "readySent"}
        BY <1>5, <2>5, <3>1, <4>1 DEF Switch!ProbeSucceeds
      <4>3. stage' \in [Switch!Ends -> {"none", "offered", "readySent", "commitPending", "finished"}]
        BY <2>5
      <4>4. ~attached[Switch!Controller] /\ ~attached[Switch!Host]
        BY <4>1
      <4> QED
        BY <2>6, <2>7, <4>2, <4>3, <4>4
    <3>2. CASE ~parked
      <4>1. UNCHANGED <<ended, stage, control>>
        BY <1>5, <3>2 DEF Switch!ProbeSucceeds
      <4> QED
        BY <2>6, <4>1
    <3> QED
      BY <3>1, <3>2
  <2>3. ProbeIsTrue'
    BY <1>5 DEF Switch!ProbeSucceeds
  <2> QED
    BY <2>1, <2>2, <2>3
<1>6. CASE Switch!HostOffers
  <2>4. control = [e \in Switch!Ends |-> <<>>] /\ stage = [e \in Switch!Ends |-> "none"]
    BY <1>6 DEF Switch!HostOffers
  <2>5. \/ UNCHANGED <<control, stage>>
        \/ /\ control' = [control EXCEPT ![Switch!Controller] = <<"offer">>]
           /\ stage' = [stage EXCEPT ![Switch!Host] = "offered"]
    BY <1>6, <2>4 DEF Switch!HostOffers
  <2>6. /\ ended' \in [Switch!Ends -> BOOLEAN]
        /\ accepted /\ ~parked /\ UNCHANGED <<attached, connection, parked>>
    BY ZenonT(30), <1>6 DEF Switch!HostOffers
  <2>1. Handshake'
    BY <2>4, <2>5, <2>6
  <2>2. Stages'
    BY <2>4, <2>5, <2>6
  <2>3. ProbeIsTrue'
    BY <1>6 DEF Switch!HostOffers
  <2> QED
    BY <2>1, <2>2, <2>3
<1>7. CASE Switch!OfferIgnored
  BY <1>7 DEF Switch!OfferIgnored
<1>8. CASE Switch!OfferParked
  <2>1. Handshake'
    BY <1>8 DEF Switch!OfferParked
  <2>2. Stages'
    BY <1>8 DEF Switch!OfferParked
  <2>3. ProbeIsTrue'
    BY <1>8 DEF Switch!OfferParked
  <2> QED
    BY <2>1, <2>2, <2>3
<1>9. CASE Switch!OfferApplied
  <2>1. Handshake'
    BY <1>9 DEF Switch!OfferApplied
  <2>4. /\ control[Switch!Controller] = <<"offer">> /\ control[Switch!Host] = <<>>
        /\ stage[Switch!Host] = "offered" /\ stage[Switch!Controller] = "none"
    BY <1>9 DEF Switch!OfferApplied
  <2>5. connection /\ UNCHANGED <<connection, attached>>
    BY <1>9, <2>4 DEF Switch!OfferApplied
  <2>6. control'[Switch!Controller] = <<>>
    BY <1>9, <2>4 DEF Switch!OfferApplied
  <2>7. \/ /\ ended' = [ended EXCEPT ![Switch!Controller] = TRUE] /\ UNCHANGED stage
        \/ UNCHANGED ended /\ stage' = [stage EXCEPT ![Switch!Controller] = "readySent"]
    BY <1>9 DEF Switch!OfferApplied
  <2>2. Stages'
    BY <2>4, <2>5, <2>6, <2>7
  <2>3. ProbeIsTrue'
    BY <1>9 DEF Switch!OfferApplied
  <2> QED
    BY <2>1, <2>2, <2>3
<1>10. CASE Switch!HostCommits
  <2>4. /\ control[Switch!Host] = <<"ready">> /\ control[Switch!Controller] = <<>>
        /\ stage[Switch!Host] = "offered" /\ stage[Switch!Controller] = "readySent"
    BY <1>10 DEF Switch!HostCommits
  <2>5. \/ /\ control' = [control EXCEPT ![Switch!Host] = <<>>] /\ UNCHANGED stage
        \/ /\ control' = [control EXCEPT ![Switch!Host] = <<>>, ![Switch!Controller] = <<"commit">>]
           /\ stage' = [stage EXCEPT ![Switch!Host] = "commitPending"]
    BY <1>10, <2>4 DEF Switch!HostCommits
  <2>6. ~parked /\ UNCHANGED <<parked, connection, probe, accepted>>
    BY <1>10, <2>4 DEF Switch!HostCommits
  <2>1. Handshake'
    BY <2>4, <2>5, <2>6
  <2>8. UNCHANGED attached /\ (ended' = [ended EXCEPT ![Switch!Host] = TRUE] \/ UNCHANGED ended)
    BY <1>10 DEF Switch!HostCommits
  <2>7. UNCHANGED attached /\ ended' \in [Switch!Ends -> BOOLEAN]
        /\ ended'[Switch!Controller] = ended[Switch!Controller]
    BY <2>8
  <2>2. Stages'
    BY <2>4, <2>5, <2>6, <2>7
  <2>3. ProbeIsTrue'
    BY <1>10 DEF Switch!HostCommits
  <2> QED
    BY <2>1, <2>2, <2>3
<1>11. CASE Switch!HostAttaches
  <2>1. Handshake'
    BY <1>11 DEF Switch!HostAttaches
  <2>2. Stages'
    BY ZenonT(30), <1>11 DEF Switch!HostAttaches
  <2>3. ProbeIsTrue'
    BY <1>11 DEF Switch!HostAttaches
  <2> QED
    BY <2>1, <2>2, <2>3
<1>12. CASE Switch!CommitFails
  BY <1>12 DEF Switch!CommitFails
<1>13. CASE Switch!CommitArrives
  <2>1. Handshake'
    BY <1>13 DEF Switch!CommitArrives
  <2>4. /\ control[Switch!Controller] = <<"commit">>
        /\ control' = [control EXCEPT ![Switch!Controller] = <<>>]
        /\ stage[Switch!Host] \in {"commitPending", "finished"}
        /\ stage[Switch!Controller] = "readySent"
    BY <1>13 DEF Switch!CommitArrives
  <2>5. \/ /\ ended' = [ended EXCEPT ![Switch!Controller] = TRUE]
           /\ UNCHANGED <<stage, connection, attached>>
        \/ /\ ended' = [ended EXCEPT ![Switch!Controller] = TRUE] /\ UNCHANGED attached
           /\ stage' = [stage EXCEPT ![Switch!Controller] = "finished"]
        \/ /\ attached' = [attached EXCEPT ![Switch!Controller] = TRUE] /\ UNCHANGED ended
           /\ stage' = [stage EXCEPT ![Switch!Controller] = "finished"]
    BY <1>13 DEF Switch!CommitArrives
  <2>2. Stages'
    BY ZenonT(30), <2>4, <2>5
  <2>3. ProbeIsTrue'
    BY <1>13 DEF Switch!CommitArrives
  <2> QED
    BY <2>1, <2>2, <2>3
<1>14. ASSUME NEW e \in Switch!Ends, Switch!LoseConnection(e)
       PROVE  SwitchInv'
  BY <1>14 DEF Switch!LoseConnection
<1>15. CASE UNCHANGED Switch!vars
  BY <1>15 DEF Switch!vars
<1> QED
  BY <1>1, <1>2, <1>3, <1>4, <1>5, <1>6, <1>7, <1>8, <1>9, <1>10, <1>11, <1>12, <1>13, <1>14,
      <1>15
    DEF Switch!Next

\* A LAN connection is used by both ends or by none, and a probe that was given up
\* changes nothing.
THEOREM SwitchStaysAgreed == PathsSpec => []SwitchIsAgreed
<1>1. PathsInit => SwitchInv
  BY SwitchBegins DEF PathsInit
<1>2. SwitchInv /\ [PathsNext]_parts => SwitchInv'
  <2>1. [PathsNext]_parts => [Switch!Next]_(Switch!vars)
    BY DEF PathsNext, parts, switchVars, Switch!vars, Switch!probing
  <2> QED
    BY <2>1, SwitchStep
<1>3. SwitchInv => SwitchIsAgreed
  BY DEF SwitchInv, Handshake, Stages, ProbeIsTrue, SwitchIsAgreed, Switch!AttachNeedsBoth,
         Switch!RetiredProbeIsHarmless, Switch!Host, Switch!Controller, Switch!Ends
<1> QED
  BY <1>1, <1>2, <1>3, PTL DEF PathsSpec

-----------------------------------------------------------------------------
(*                             The direct path for video                   *)

Letters == [kind : {"offer", "answer"}, accepted : BOOLEAN]

\* The host's end of connection c.
AtHost(c) == conn[c]["host"]
Live(c) == c \in Direct!Conns /\ AtHost(c) = "open"
Settled(c) == AtHost(c) \in {"open", "closed"}

HostTasks ==
  [pc : {"idle", "dial", "install", "attach", "register", "retire"},
   conn : Direct!Conns \union {"none"}, id : Nat]

\* Each task of the host has the one connection that can be its own.
TasksHaveTheirs ==
    /\ task \in [{"accept", "probe"} -> HostTasks]
    /\ task["accept"].pc # "idle" => task["accept"].conn = "host"
    /\ task["probe"].pc # "idle" => task["probe"].conn = "controller"
    /\ task["accept"].pc # "dial"
    /\ task["probe"].pc = "dial" => AtHost("controller") = "dialing"
    /\ \A p \in {"accept", "probe"} :
         task[p].pc \in {"install", "attach", "register", "retire"} => Settled(task[p].conn)

\* A probe begins with the one offer of the controller, the first of its messages.
OfferIsFirst ==
    \A i \in 1..Len(directWire["host"]) :
      directWire["host"][i].kind = "offer" => i = 1 /\ AtHost("controller") = "none"

\* Until a task installed it, or the plane took it over, a connection is in neither place;
\* while it is open it leaves the slot with the listener only.
PathIsInSlot ==
    /\ slot # "none" => Settled(slot)
    /\ plane # "none" => Settled(plane)
    /\ \A p \in {"accept", "probe"} :
         /\ task[p].pc = "retire" => ~Live(task[p].conn)
         /\ task[p].pc \in {"attach", "register"} /\ Live(task[p].conn) => slot = task[p].conn

DirectTypes ==
    /\ directWire \in [Direct!Conns -> Seq(Letters)]
    /\ conn \in [Direct!Conns -> [Direct!Conns -> {"none", "dialing", "open", "closed"}]]
    /\ {directDirect, slot, plane} \subseteq Direct!Conns \union {"none"}
    /\ generation \in Nat /\ enabled \in BOOLEAN

DirectInv ==
    /\ DirectTypes /\ TasksHaveTheirs /\ OfferIsFirst /\ PathIsInSlot
    /\ Direct!PlaneFollowsSlot /\ Direct!NothingAfterStop /\ Direct!DirectHasPath

LEMMA DirectBegins == Direct!Init => DirectInv
<1> SUFFICES ASSUME Direct!Init PROVE DirectInv
  OBVIOUS
<1> USE DEF Direct!Init, Direct!Conns, Direct!None, Direct!Idle, AtHost, Settled, Live
<1>1. DirectTypes
  <2>1. Direct!Offer \in Letters
    BY DEF Direct!Offer, Letters
  <2> QED
    BY <2>1 DEF DirectTypes
<1>2. TasksHaveTheirs
  BY DEF TasksHaveTheirs, HostTasks
<1>3. OfferIsFirst
  BY DEF OfferIsFirst
<1>4. PathIsInSlot
  BY DEF PathIsInSlot
<1>5. Direct!PlaneFollowsSlot /\ Direct!NothingAfterStop /\ Direct!DirectHasPath
  BY DEF Direct!PlaneFollowsSlot, Direct!NothingAfterStop, Direct!DirectHasPath, Direct!Open
<1> QED
  BY <1>1, <1>2, <1>3, <1>4, <1>5 DEF DirectInv

\* A message that is taken leaves no offer behind it, and the answers that are sent are
\* none.
LEMMA NoOfferBehind ==
    ASSUME DirectTypes, OfferIsFirst, directWire["host"] # <<>>
    PROVE  /\ Tail(directWire["host"]) \in Seq(Letters)
           /\ \A i \in 1..Len(Tail(directWire["host"])) : Tail(directWire["host"])[i].kind # "offer"
           /\ Head(directWire["host"]) = directWire["host"][1] /\ 1 \in 1..Len(directWire["host"])
<1>1. directWire["host"] \in Seq(Letters)
  BY DEF DirectTypes, Direct!Conns
<1>2. \A i \in 1..Len(Tail(directWire["host"])) :
        Tail(directWire["host"])[i] = directWire["host"][i + 1] /\ i + 1 \in 1..Len(directWire["host"])
  BY <1>1
<1> QED
  BY <1>1, <1>2 DEF OfferIsFirst

LEMMA LetterSeq ==
    ASSUME NEW w \in Seq(Letters), NEW m \in Letters
    PROVE  Append(w, m) \in Seq(Letters) /\ (w # <<>> => Tail(w) \in Seq(Letters))
  OBVIOUS

LEMMA Answers ==
    ASSUME NEW yes \in BOOLEAN
    PROVE  Direct!AnswerOf(yes) \in Letters /\ Direct!AnswerOf(yes).kind = "answer"
  BY DEF Direct!AnswerOf, Letters

\* At most an answer is sent to the host.
SendsAnswer ==
    \/ directWire'["host"] = directWire["host"]
    \/ \E m \in Letters : /\ m.kind = "answer"
                         /\ directWire'["host"] = Append(directWire["host"], m)

\* What the controller and the network do at its end touches nothing of the host's.
HostKept ==
    /\ UNCHANGED Direct!hostVars
    /\ \A c \in Direct!Conns : AtHost(c)' = AtHost(c)
    /\ SendsAnswer

LEMMA KeptInv ==
    ASSUME DirectInv, HostKept, DirectTypes', Direct!DirectHasPath'
    PROVE  DirectInv'
<1> USE DEF Direct!Conns, Direct!None, HostKept, SendsAnswer, Direct!hostVars, AtHost
<1>1. slot \in Direct!Conns \union {"none"} /\ plane \in Direct!Conns \union {"none"}
  BY DEF DirectInv, DirectTypes
<1>2. \A p \in {"accept", "probe"} : task[p].conn \in Direct!Conns \union {"none"}
  BY DEF DirectInv, TasksHaveTheirs, HostTasks
<1>3. TasksHaveTheirs'
  BY <1>2 DEF DirectInv, TasksHaveTheirs, HostTasks, Settled
<1>4. OfferIsFirst'
  <2>1. directWire["host"] \in Seq(Letters)
    BY DEF DirectInv, DirectTypes
  <2>2. \A i \in 1..Len(directWire'["host"]) : directWire'["host"][i].kind = "offer" =>
          i \in 1..Len(directWire["host"]) /\ directWire'["host"][i] = directWire["host"][i]
    BY <2>1
  <2> QED
    BY <2>2 DEF DirectInv, OfferIsFirst
<1>5. PathIsInSlot'
  BY <1>1, <1>2 DEF DirectInv, PathIsInSlot, Settled, Live
<1>6. Direct!PlaneFollowsSlot' /\ Direct!NothingAfterStop'
  BY <1>1 DEF DirectInv, Direct!PlaneFollowsSlot, Direct!NothingAfterStop, Direct!Open
<1> QED
  BY <1>3, <1>4, <1>5, <1>6 DEF DirectInv

LEMMA ControllerKeepsHost ==
    ASSUME DirectInv,
           Direct!ControllerStep \/ Direct!Silence \/ Direct!ControllerListenerEnds
    PROVE  HostKept /\ DirectTypes' /\ Direct!DirectHasPath'
<1> USE DEF DirectInv, Direct!Conns, Direct!None, Direct!hostVars, Direct!controllerVars, AtHost,
         Direct!Put, Direct!Activated, Direct!UseRelay, Direct!DirectHasPath, DirectTypes,
         HostKept, SendsAnswer, Direct!Looping
<1>1. CASE Direct!AcceptInbound
  BY <1>1 DEF Direct!AcceptInbound
<1>2. CASE Direct!AcceptWhileProbing
  BY <1>2 DEF Direct!AcceptWhileProbing
<1>3. CASE Direct!Connect
  BY <1>3 DEF Direct!Connect
<1>4. CASE Direct!Connected
  BY <1>4 DEF Direct!Connected
<1>5. CASE Direct!ProbeFails
  BY <1>5 DEF Direct!ProbeFails
<1>6. CASE Direct!DirectFails
  BY <1>6 DEF Direct!DirectFails
<1>7. CASE Direct!Silence
  BY <1>7 DEF Direct!Silence
<1>8. CASE Direct!ControllerListenerEnds
  BY <1>8 DEF Direct!ControllerListenerEnds
<1>9. ASSUME NEW valid \in BOOLEAN, Direct!ControllerOffer(valid)
       PROVE  HostKept /\ DirectTypes' /\ Direct!DirectHasPath'
  <2>1. PICK yes \in BOOLEAN :
          directWire' = [directWire EXCEPT !["controller"] = Tail(@),
                                           !["host"] = Append(@, Direct!AnswerOf(yes))]
    BY <1>9 DEF Direct!ControllerOffer
  <2>2. Tail(directWire["controller"]) \in Seq(Letters)
    BY <1>9, LetterSeq, Answers DEF Direct!ControllerOffer
  <2>3. Append(directWire["host"], Direct!AnswerOf(yes)) \in Seq(Letters)
    BY LetterSeq, Answers
  <2>4. directWire' \in [Direct!Conns -> Seq(Letters)] /\ SendsAnswer
    BY <2>1, <2>2, <2>3, Answers
  <2> QED
    BY <1>9, <2>4 DEF Direct!ControllerOffer
<1>10. ASSUME NEW valid \in BOOLEAN, Direct!ControllerAnswer(valid)
       PROVE  HostKept /\ DirectTypes' /\ Direct!DirectHasPath'
  BY <1>10 DEF Direct!ControllerAnswer
<1> QED
  BY <1>1, <1>2, <1>3, <1>4, <1>5, <1>6, <1>7, <1>8, <1>9, <1>10 DEF Direct!ControllerStep

LEMMA HostStep ==
    ASSUME DirectInv,
           \/ \E valid \in BOOLEAN : Direct!HostOffer(valid)
           \/ Direct!HostAnswer \/ Direct!HostAccepts \/ Direct!ProbeEnds
           \/ \E p \in {"accept", "probe"} : Direct!TaskStep(p)
           \/ Direct!PlaneObserves
           \/ \E aborted \in BOOLEAN : Direct!HostListenerEnds(aborted)
           \/ \E c \in Direct!Conns, e \in Direct!Conns : Direct!Closes(c, e)
    PROVE  DirectInv'
<1> USE DEF DirectInv, Direct!Conns, Direct!None, Direct!hostVars, Direct!controllerVars, AtHost,
         Direct!Put, Direct!Open, Direct!Idle, Direct!Dialed, Direct!Other, Direct!Over,
         Settled, Live
<1>1. ASSUME NEW valid \in BOOLEAN, Direct!HostOffer(valid)
       PROVE  DirectInv'
  <2>5. PICK yes \in BOOLEAN :
          directWire' = [directWire EXCEPT !["host"] = Tail(@),
                                           !["controller"] = Append(@, Direct!AnswerOf(yes))]
    BY <1>1 DEF Direct!HostOffer
  <2>6. Append(directWire["controller"], Direct!AnswerOf(yes)) \in Seq(Letters)
    BY LetterSeq, Answers DEF DirectTypes
  <2>7. /\ Tail(directWire["host"]) \in Seq(Letters)
        /\ \A i \in 1..Len(Tail(directWire["host"])) : Tail(directWire["host"])[i].kind # "offer"
        /\ AtHost("controller") = "none"
    BY <1>1, NoOfferBehind DEF Direct!HostOffer, OfferIsFirst
  <2>8. directWire' \in [Direct!Conns -> Seq(Letters)]
        /\ directWire'["host"] = Tail(directWire["host"])
    BY <2>5, <2>6, <2>7 DEF DirectTypes
  <2>11. conn' \in [Direct!Conns -> [Direct!Conns -> {"none", "dialing", "open", "closed"}]]
    BY <1>1 DEF Direct!HostOffer, DirectTypes
  <2>1. DirectTypes'
    BY <1>1, <2>8, <2>11 DEF Direct!HostOffer, DirectTypes
  <2>2. TasksHaveTheirs'
    BY <1>1, <2>7 DEF Direct!HostOffer, DirectTypes, TasksHaveTheirs, HostTasks, OfferIsFirst
  <2>9. OfferIsFirst'
    BY <2>7, <2>8 DEF OfferIsFirst
  <2>10. PathIsInSlot'
    BY <1>1, <2>7 DEF Direct!HostOffer, TasksHaveTheirs, HostTasks, PathIsInSlot, DirectTypes,
           Direct!PlaneFollowsSlot, Direct!NothingAfterStop
  <2>3. OfferIsFirst' /\ PathIsInSlot'
    BY <2>9, <2>10
  <2>4. Direct!PlaneFollowsSlot' /\ Direct!NothingAfterStop' /\ Direct!DirectHasPath'
    BY <1>1, NoOfferBehind, Answers
      DEF Direct!HostOffer, Direct!PlaneFollowsSlot, Direct!NothingAfterStop,
           Direct!DirectHasPath, TasksHaveTheirs, HostTasks, PathIsInSlot, DirectTypes, OfferIsFirst
  <2> QED
    BY <2>1, <2>2, <2>3, <2>4
<1>2. CASE Direct!HostAnswer
  <2>1. DirectTypes'
    BY <1>2, NoOfferBehind, Answers DEF Direct!HostAnswer, DirectTypes
  <2>2. TasksHaveTheirs'
    BY <1>2 DEF Direct!HostAnswer, DirectTypes, TasksHaveTheirs, HostTasks
  <2>3. OfferIsFirst' /\ PathIsInSlot'
    BY <1>2, NoOfferBehind, Answers
      DEF Direct!HostAnswer, OfferIsFirst, TasksHaveTheirs, HostTasks, PathIsInSlot, DirectTypes,
           Direct!PlaneFollowsSlot, Direct!NothingAfterStop
  <2>4. Direct!PlaneFollowsSlot' /\ Direct!NothingAfterStop' /\ Direct!DirectHasPath'
    BY <1>2, NoOfferBehind, Answers
      DEF Direct!HostAnswer, Direct!PlaneFollowsSlot, Direct!NothingAfterStop,
           Direct!DirectHasPath, TasksHaveTheirs, HostTasks, PathIsInSlot, DirectTypes, OfferIsFirst
  <2> QED
    BY <2>1, <2>2, <2>3, <2>4
<1>3. CASE Direct!HostAccepts
  <2>1. DirectTypes'
    BY <1>3 DEF Direct!HostAccepts, DirectTypes
  <2>2. TasksHaveTheirs'
    BY <1>3 DEF Direct!HostAccepts, DirectTypes, TasksHaveTheirs, HostTasks
  <2>3. OfferIsFirst' /\ PathIsInSlot'
    BY <1>3 DEF Direct!HostAccepts, OfferIsFirst, TasksHaveTheirs, HostTasks, PathIsInSlot, DirectTypes,
           Direct!PlaneFollowsSlot, Direct!NothingAfterStop
  <2>4. Direct!PlaneFollowsSlot' /\ Direct!NothingAfterStop' /\ Direct!DirectHasPath'
    BY <1>3 DEF Direct!HostAccepts, Direct!PlaneFollowsSlot, Direct!NothingAfterStop,
           Direct!DirectHasPath, TasksHaveTheirs, HostTasks, PathIsInSlot, DirectTypes, OfferIsFirst
  <2> QED
    BY <2>1, <2>2, <2>3, <2>4
<1>4. CASE Direct!ProbeEnds
  <2>1. DirectTypes'
    BY <1>4 DEF Direct!ProbeEnds, DirectTypes
  <2>5. /\ task["probe"].pc = "dial" /\ task["probe"].conn = "controller"
        /\ \/ /\ task' = [task EXCEPT !["probe"].pc = "install"]
              /\ conn' = [conn EXCEPT !["controller"]["host"] = "open"]
           \/ /\ task' = [task EXCEPT !["probe"] = Direct!Idle]
              /\ conn' = [conn EXCEPT !["controller"]["host"] = "closed"]
    BY <1>4 DEF Direct!ProbeEnds, TasksHaveTheirs, HostTasks
  <2>6. AtHost("host")' = AtHost("host") /\ Settled("controller")'
    BY <2>5 DEF DirectTypes
  <2>7. task'["accept"] = task["accept"] /\ task'["probe"].pc \in {"idle", "install"}
        /\ (task'["probe"].pc = "install" => task'["probe"].conn = "controller")
    BY <2>5 DEF TasksHaveTheirs, HostTasks
  <2>8. task' \in [{"accept", "probe"} -> HostTasks]
    BY <2>5 DEF TasksHaveTheirs, HostTasks
  <2>2. TasksHaveTheirs'
    BY <2>6, <2>7, <2>8 DEF TasksHaveTheirs, HostTasks
  <2>3. OfferIsFirst' /\ PathIsInSlot'
    BY <1>4 DEF Direct!ProbeEnds, OfferIsFirst, TasksHaveTheirs, HostTasks, PathIsInSlot, DirectTypes,
           Direct!PlaneFollowsSlot, Direct!NothingAfterStop
  <2>4. Direct!PlaneFollowsSlot' /\ Direct!NothingAfterStop' /\ Direct!DirectHasPath'
    BY <1>4 DEF Direct!ProbeEnds, Direct!PlaneFollowsSlot, Direct!NothingAfterStop,
           Direct!DirectHasPath, TasksHaveTheirs, HostTasks, PathIsInSlot, DirectTypes, OfferIsFirst
  <2> QED
    BY <2>1, <2>2, <2>3, <2>4
<1>5. ASSUME NEW p \in {"accept", "probe"}, Direct!Install(p)
       PROVE  DirectInv'
  <2>1. DirectTypes'
    BY SMTT(30), <1>5 DEF Direct!Install, DirectTypes, TasksHaveTheirs, HostTasks
  <2>5. /\ task' \in [{"accept", "probe"} -> HostTasks]
        /\ \A q \in {"accept", "probe"} : task'[q].pc = "idle" \/ task'[q].conn = task[q].conn
        /\ \A q \in {"accept", "probe"} \ {p} : task'[q] = task[q]
        /\ task'[p].pc # "dial" /\ task[p].pc \in {"install", "register"}
    BY <1>5 DEF Direct!Install, TasksHaveTheirs, HostTasks
  <2>6. \A c \in Direct!Conns : Settled(c) => Settled(c)'
    BY <1>5 DEF Direct!Install, DirectTypes, TasksHaveTheirs, HostTasks
  <2>7. Settled(task[p].conn) /\ task[p].conn \in Direct!Conns
    BY <2>5 DEF TasksHaveTheirs, HostTasks
  <2>2. TasksHaveTheirs'
    <3>1. task["probe"].pc = "dial" => conn'["controller"]["host"] = conn["controller"]["host"]
      BY <1>5 DEF Direct!Install, TasksHaveTheirs, HostTasks, DirectTypes
    <3> QED
      BY <2>5, <2>6, <2>7, <3>1 DEF TasksHaveTheirs, HostTasks
  <2>3. OfferIsFirst' /\ PathIsInSlot'
    BY SMTT(30),
       <1>5 DEF Direct!Install, OfferIsFirst, TasksHaveTheirs, HostTasks, PathIsInSlot, DirectTypes,
           Direct!PlaneFollowsSlot, Direct!NothingAfterStop
  <2>4. Direct!PlaneFollowsSlot' /\ Direct!NothingAfterStop' /\ Direct!DirectHasPath'
    BY <1>5 DEF Direct!Install, Direct!PlaneFollowsSlot, Direct!NothingAfterStop,
           Direct!DirectHasPath, TasksHaveTheirs, HostTasks, PathIsInSlot, DirectTypes, OfferIsFirst
  <2> QED
    BY <2>1, <2>2, <2>3, <2>4
<1>6. ASSUME NEW p \in {"accept", "probe"}, Direct!ReadGeneration(p)
       PROVE  DirectInv'
  <2>1. DirectTypes'
    BY <1>6 DEF Direct!ReadGeneration, DirectTypes
  <2>2. TasksHaveTheirs'
    BY SMTT(30), <1>6 DEF Direct!ReadGeneration, DirectTypes, TasksHaveTheirs, HostTasks
  <2>3. OfferIsFirst' /\ PathIsInSlot'
    BY SMTT(30),
       <1>6 DEF Direct!ReadGeneration, OfferIsFirst, TasksHaveTheirs, HostTasks, PathIsInSlot, DirectTypes,
           Direct!PlaneFollowsSlot, Direct!NothingAfterStop
  <2>4. Direct!PlaneFollowsSlot' /\ Direct!NothingAfterStop' /\ Direct!DirectHasPath'
    BY <1>6 DEF Direct!ReadGeneration, Direct!PlaneFollowsSlot, Direct!NothingAfterStop,
           Direct!DirectHasPath, TasksHaveTheirs, HostTasks, PathIsInSlot, DirectTypes, OfferIsFirst
  <2> QED
    BY <2>1, <2>2, <2>3, <2>4
<1>7. ASSUME NEW p \in {"accept", "probe"}, Direct!Register(p)
       PROVE  DirectInv'
  <2>1. DirectTypes'
    BY <1>7 DEF Direct!Register, DirectTypes, TasksHaveTheirs, HostTasks
  <2>5. /\ task' \in [{"accept", "probe"} -> HostTasks]
        /\ \A q \in {"accept", "probe"} : task'[q].pc = "idle" \/ task'[q].conn = task[q].conn
        /\ \A q \in {"accept", "probe"} \ {p} : task'[q] = task[q]
        /\ task'[p].pc # "dial" /\ task[p].pc \in {"install", "register"}
    BY <1>7 DEF Direct!Register, TasksHaveTheirs, HostTasks
  <2>6. \A c \in Direct!Conns : Settled(c) => Settled(c)'
    BY <1>7 DEF Direct!Register, DirectTypes, TasksHaveTheirs, HostTasks
  <2>7. Settled(task[p].conn) /\ task[p].conn \in Direct!Conns
    BY <2>5 DEF TasksHaveTheirs, HostTasks
  <2>2. TasksHaveTheirs'
    <3>1. task["probe"].pc = "dial" => conn'["controller"]["host"] = conn["controller"]["host"]
      BY <1>7 DEF Direct!Register, TasksHaveTheirs, HostTasks, DirectTypes
    <3> QED
      BY <2>5, <2>6, <2>7, <3>1 DEF TasksHaveTheirs, HostTasks
  <2>3. OfferIsFirst' /\ PathIsInSlot'
    BY <1>7 DEF Direct!Register, OfferIsFirst, TasksHaveTheirs, HostTasks, PathIsInSlot, DirectTypes,
           Direct!PlaneFollowsSlot, Direct!NothingAfterStop
  <2>4. Direct!PlaneFollowsSlot' /\ Direct!NothingAfterStop' /\ Direct!DirectHasPath'
    BY <1>7 DEF Direct!Register, Direct!PlaneFollowsSlot, Direct!NothingAfterStop,
           Direct!DirectHasPath, TasksHaveTheirs, HostTasks, PathIsInSlot, DirectTypes, OfferIsFirst
  <2> QED
    BY <2>1, <2>2, <2>3, <2>4
<1>8. ASSUME NEW p \in {"accept", "probe"}, Direct!Retire(p)
       PROVE  DirectInv'
  <2>1. DirectTypes'
    BY <1>8 DEF Direct!Retire, DirectTypes
  <2>2. TasksHaveTheirs'
    BY <1>8 DEF Direct!Retire, DirectTypes, TasksHaveTheirs, HostTasks
  <2>3. OfferIsFirst' /\ PathIsInSlot'
    BY <1>8 DEF Direct!Retire, OfferIsFirst, TasksHaveTheirs, HostTasks, PathIsInSlot, DirectTypes,
           Direct!PlaneFollowsSlot, Direct!NothingAfterStop
  <2>4. Direct!PlaneFollowsSlot' /\ Direct!NothingAfterStop' /\ Direct!DirectHasPath'
    BY <1>8 DEF Direct!Retire, Direct!PlaneFollowsSlot, Direct!NothingAfterStop,
           Direct!DirectHasPath, TasksHaveTheirs, HostTasks, PathIsInSlot, DirectTypes, OfferIsFirst
  <2> QED
    BY <2>1, <2>2, <2>3, <2>4
<1>9. CASE Direct!PlaneObserves
  <2>1. DirectTypes'
    BY <1>9 DEF Direct!PlaneObserves, DirectTypes
  <2>2. TasksHaveTheirs'
    BY <1>9 DEF Direct!PlaneObserves, DirectTypes, TasksHaveTheirs, HostTasks
  <2>3. OfferIsFirst' /\ PathIsInSlot'
    BY <1>9 DEF Direct!PlaneObserves, OfferIsFirst, TasksHaveTheirs, HostTasks, PathIsInSlot, DirectTypes,
           Direct!PlaneFollowsSlot, Direct!NothingAfterStop
  <2>4. Direct!PlaneFollowsSlot' /\ Direct!NothingAfterStop' /\ Direct!DirectHasPath'
    BY <1>9 DEF Direct!PlaneObserves, Direct!PlaneFollowsSlot, Direct!NothingAfterStop,
           Direct!DirectHasPath, TasksHaveTheirs, HostTasks, PathIsInSlot, DirectTypes, OfferIsFirst
  <2> QED
    BY <2>1, <2>2, <2>3, <2>4
<1>10. ASSUME NEW aborted \in BOOLEAN, Direct!HostListenerEnds(aborted)
       PROVE  DirectInv'
  <2>1. DirectTypes'
    BY <1>10 DEF Direct!HostListenerEnds, DirectTypes
  <2>2. TasksHaveTheirs'
    BY ZenonT(30), <1>10
      DEF Direct!HostListenerEnds, DirectTypes, TasksHaveTheirs, HostTasks, PathIsInSlot, OfferIsFirst,
           Direct!PlaneFollowsSlot, Direct!NothingAfterStop
  <2>3. OfferIsFirst' /\ PathIsInSlot'
    <3>1. OfferIsFirst'
      <4>1. UNCHANGED directWire
        BY <1>10 DEF Direct!HostListenerEnds
      <4>2. AtHost("controller") = "none" => AtHost("controller")' = "none"
        BY <1>10 DEF Direct!HostListenerEnds, PathIsInSlot, DirectTypes, TasksHaveTheirs, HostTasks
      <4> QED
        BY <4>1, <4>2 DEF OfferIsFirst
    <3>2. (slot # "none" => Settled(slot))' /\ (plane # "none" => Settled(plane))'
      BY <1>10 DEF Direct!HostListenerEnds, PathIsInSlot, DirectTypes, TasksHaveTheirs, HostTasks
    <3>3. (\A p \in {"accept", "probe"} :
             /\ task[p].pc = "retire" => ~Live(task[p].conn)
             /\ task[p].pc \in {"attach", "register"} /\ Live(task[p].conn) => slot = task[p].conn)'
      BY <1>10 DEF Direct!HostListenerEnds, PathIsInSlot, DirectTypes, TasksHaveTheirs, HostTasks,
             Direct!NothingAfterStop
    <3> QED
      BY <3>1, <3>2, <3>3 DEF PathIsInSlot
  <2>4. Direct!PlaneFollowsSlot' /\ Direct!NothingAfterStop' /\ Direct!DirectHasPath'
    BY <1>10 DEF Direct!HostListenerEnds, Direct!PlaneFollowsSlot, Direct!NothingAfterStop,
           Direct!DirectHasPath, TasksHaveTheirs, HostTasks, PathIsInSlot, DirectTypes, OfferIsFirst
  <2> QED
    BY <2>1, <2>2, <2>3, <2>4
<1>11. ASSUME NEW c \in Direct!Conns, NEW e \in Direct!Conns, Direct!Closes(c, e)
       PROVE  DirectInv'
  <2>1. DirectTypes'
    BY <1>11 DEF Direct!Closes, DirectTypes
  <2>2. TasksHaveTheirs'
    BY <1>11 DEF Direct!Closes, DirectTypes, TasksHaveTheirs, HostTasks
  <2>3. OfferIsFirst' /\ PathIsInSlot'
    BY <1>11 DEF Direct!Closes, OfferIsFirst, TasksHaveTheirs, HostTasks, PathIsInSlot, DirectTypes,
           Direct!PlaneFollowsSlot, Direct!NothingAfterStop
  <2>4. Direct!PlaneFollowsSlot' /\ Direct!NothingAfterStop' /\ Direct!DirectHasPath'
    BY <1>11 DEF Direct!Closes, Direct!PlaneFollowsSlot, Direct!NothingAfterStop,
           Direct!DirectHasPath, TasksHaveTheirs, HostTasks, PathIsInSlot, DirectTypes, OfferIsFirst
  <2> QED
    BY <2>1, <2>2, <2>3, <2>4
<1> QED
  BY <1>1, <1>2, <1>3, <1>4, <1>5, <1>6, <1>7, <1>8, <1>9, <1>10, <1>11 DEF Direct!TaskStep

\* A step keeps the invariant, and takes an open path out of the slot only with the
\* listener.
LEMMA DirectStep ==
    ASSUME DirectInv, [Direct!Next]_(Direct!vars)
    PROVE  DirectInv'
<1>1. CASE Direct!ControllerStep \/ Direct!Silence \/ Direct!ControllerListenerEnds
  BY <1>1, ControllerKeepsHost, KeptInv
<1>2. CASE UNCHANGED Direct!vars
  <2>1. HostKept
    BY <1>2 DEF Direct!vars, Direct!hostVars, HostKept, SendsAnswer, AtHost
  <2>2. DirectTypes' /\ Direct!DirectHasPath'
    BY <1>2 DEF Direct!vars, DirectInv, DirectTypes, Direct!DirectHasPath
  <2> QED
    BY <2>1, <2>2, KeptInv
<1> QED
  BY <1>1, <1>2, HostStep DEF Direct!Next

LEMMA OpenPathStays ==
    ASSUME DirectInv, [Direct!Next]_(Direct!vars),
           slot # "none", AtHost(slot) = "open", slot' # slot
    PROVE  ~enabled'
<1> USE DEF Direct!None, AtHost, Live, Direct!Conns
<1>1. CASE Direct!ControllerStep \/ Direct!Silence \/ Direct!ControllerListenerEnds
  BY <1>1, ControllerKeepsHost DEF HostKept, Direct!hostVars
<1>2. CASE UNCHANGED Direct!vars
  BY <1>2 DEF Direct!vars
<1>3. ASSUME NEW p \in {"accept", "probe"}, Direct!TaskStep(p)
      PROVE  ~enabled'
  <2>1. task[p].pc = "retire" => slot # task[p].conn
    BY DEF DirectInv, PathIsInSlot, DirectTypes
  <2> QED
    BY <1>3, <2>1 DEF Direct!TaskStep, Direct!Install, Direct!ReadGeneration, Direct!Register,
                      Direct!Retire, Direct!Open, Direct!Over
<1>4. ASSUME NEW aborted \in BOOLEAN, Direct!HostListenerEnds(aborted)
      PROVE  ~enabled'
  BY <1>4 DEF Direct!HostListenerEnds
<1>5. CASE \/ \E valid \in BOOLEAN : Direct!HostOffer(valid)
           \/ Direct!HostAnswer \/ Direct!HostAccepts \/ Direct!ProbeEnds
           \/ Direct!PlaneObserves
           \/ \E c \in Direct!Conns, e \in Direct!Conns : Direct!Closes(c, e)
  BY <1>5 DEF Direct!HostOffer, Direct!HostAnswer, Direct!HostAccepts, Direct!ProbeEnds,
              Direct!PlaneObserves, Direct!Closes, Direct!hostVars
<1> QED
  BY <1>1, <1>2, <1>3, <1>4, <1>5 DEF Direct!Next

LEMMA DirectBehaviour == PathsSpec => []DirectInv /\ [][Direct!Next]_(Direct!vars)
<1>1. PathsInit => DirectInv
  BY DirectBegins DEF PathsInit
<1>2. [PathsNext]_parts => [Direct!Next]_(Direct!vars)
  BY DEF PathsNext, parts, directVars, Direct!vars
<1>3. DirectInv /\ [PathsNext]_parts => DirectInv'
  BY <1>2, DirectStep
<1> QED
  BY <1>1, <1>2, <1>3, PTL DEF PathsSpec

\* Video goes by the path of the slot, no path is left behind by a listener that ended,
\* and a controller on the direct path has one.
THEOREM SlotStaysTrue == PathsSpec => []SlotIsTruth
<1>1. DirectInv => SlotIsTruth
  BY DEF DirectInv, SlotIsTruth
<1> QED
  BY <1>1, DirectBehaviour, PTL

\* A late failure of a path leaves a newer one alone.
THEOREM LateFailureIsHarmless == PathsSpec => LateFailureHarmless
<1>1. DirectInv /\ [Direct!Next]_(Direct!vars) =>
        [slot # Direct!None /\ conn[slot]["host"] = "open" /\ slot' # slot => ~enabled']_(Direct!vars)
  BY OpenPathStays DEF AtHost, Direct!None
<1> QED
  BY <1>1, DirectBehaviour, PTL DEF LateFailureHarmless, Direct!LateFailureHarmless

-----------------------------------------------------------------------------
(* The client on the relay.                                                *)

Peers == 1..ClientPeers
Ways == {"control", "input"}
Events == [generation : Peers, message : Nat]
Streams == [sent : Nat, read : Nat, header : BOOLEAN, over : BOOLEAN]
Calls ==
  [at : {"call", "wait", "settle", "told"}, channel : Ways,
   event : Events \cup {Client!NoEvent}, selected : BOOLEAN]

\* What a caller has still to get of a channel, the event that was kept included.
Kept == clientPending # Client!NoEvent /\ clientPending.generation = active
Queue(c) == IF c = "control" /\ Kept THEN <<clientPending>> \o lane[c] ELSE lane[c]

\* The messages of peer a in a queue, of whose stream t were taken and r read:
\* they are in order, none was taken or is still to be read, none after them is
\* missing, and if all were to be taken then none is missing at all.
Is(q, i, a) == q[i].generation = a /\ q[i].message # 0
Rising(q, a) ==
  \A i \in 1..Len(q), j \in 1..Len(q) :
    i < j /\ Is(q, i, a) /\ Is(q, j, a) => q[i].message < q[j].message
Within(q, a, t, r) ==
  \A i \in 1..Len(q) : Is(q, i, a) => t < q[i].message /\ q[i].message <= r
Has(q, a, m) == \E j \in 1..Len(q) : Is(q, j, a) /\ q[j].message = m
Onwards(q, a, r) ==
  \A i \in 1..Len(q), m \in 1..r : Is(q, i, a) /\ q[i].message < m => Has(q, a, m)
Ordered(q, a, t, r) == Rising(q, a) /\ Within(q, a, t, r) /\ Onwards(q, a, r)
Whole(q, a, t, r) == t < r => Has(q, a, t + 1)

ClientTypes ==
  /\ peers \in Peers /\ present \in BOOLEAN /\ active \in 0..ClientPeers
  /\ stream \in [Ways -> [Peers -> Streams]] /\ lane \in [Ways -> Seq(Events)]
  /\ clientOpen \in [Ways -> BOOLEAN] /\ caller \in Calls
  /\ clientSession \in 0..ClientPeers /\ clientPending \in Events \cup {Client!NoEvent}
  /\ clientTaken \in [Ways -> [Peers -> Nat]]

\* Nothing was read, and so nothing is queued or was taken, of a peer that is
\* newer than the active one.
NoneIsNewer ==
  /\ \A c \in Ways, g \in Peers :
       /\ stream[c][g].header => g <= active
       /\ ~stream[c][g].header => stream[c][g].read = 0
       /\ stream[c][g].read <= stream[c][g].sent /\ clientTaken[c][g] <= stream[c][g].read
  /\ \A c \in Ways : \A i \in 1..Len(lane[c]) : lane[c][i].generation <= active
  /\ clientPending # Client!NoEvent => clientPending.generation <= active
  /\ clientSession <= active

\* Of the active peer, what next_event, or the session with that peer, has not
\* taken is there.
Engaged == component = "client" \/ clientSession = active
InOrder ==
  active # 0 =>
    \A c \in Ways :
      /\ Ordered(Queue(c), active, clientTaken[c][active], stream[c][active].read)
      /\ Engaged => Whole(Queue(c), active, clientTaken[c][active], stream[c][active].read)

\* A host's session took the hello of its peer, which sends input only then; it
\* leaves nothing behind that was kept, and next_event keeps nothing.
Durably ==
  /\ component = "client" => clientPending = Client!NoEvent
  /\ component = "host" =>
       /\ clientSession # 0 =>
            clientTaken["control"][clientSession] > 0 /\ clientPending = Client!NoEvent
       /\ \A g \in Peers : stream["input"][g].sent > 0 => clientTaken["control"][g] > 0

\* A disconnect that waits for a replacement is of the last peer anything was
\* taken of.
LastHeard ==
  component = "client" /\ caller.at = "settle" =>
    /\ caller.event \in Events
    /\ \A c \in Ways, g \in Peers : clientTaken[c][g] > 0 => g <= caller.event.generation

\* The inductive invariant.
ClientInv == ClientTypes /\ NoneIsNewer /\ InOrder /\ Durably /\ LastHeard

\* A set of numbers that has an element has a least one: else the successor
\* would map the numbers below all of its elements, which are finitely many,
\* into themselves without 0.
LEMMA HasLeast ==
    ASSUME NEW S \in SUBSET Nat, NEW n \in S
    PROVE  \E i \in S : \A j \in S : i <= j
<1> SUFFICES ASSUME \A i \in S : \E j \in S : j < i
             PROVE  FALSE
  OBVIOUS
<1> DEFINE Below == {x \in 0..n : \A j \in S : x < j}
           Positive == Below \ {0}
<1>1. IsFiniteSet(Below) /\ 0 \in Below
  <2>1. IsFiniteSet(0..n)
    BY FS_Interval
  <2>2. IsFiniteSet(Below)
    BY <2>1, FS_Subset
  <2>3. 0 \notin S
    OBVIOUS
  <2> QED
    BY <2>2, <2>3
<1>2. \A x \in Below : x + 1 \in Positive
  <2> SUFFICES ASSUME NEW x \in Below PROVE x + 1 \in Positive
    OBVIOUS
  <2>1. x + 1 \notin S
    <3> SUFFICES ASSUME x + 1 \in S PROVE FALSE
      OBVIOUS
    <3>1. PICK j \in S : j < x + 1
      OBVIOUS
    <3> QED
      BY <3>1
  <2> QED
    BY <2>1
<1>3. IsFiniteSet(Positive) /\ Cardinality(Positive) < Cardinality(Below)
  <2>1. Cardinality(Below) \in Nat /\ Cardinality(Positive) = Cardinality(Below) - 1
    BY <1>1, FS_RemoveElement, FS_CardinalityType
  <2> HIDE DEF Below
  <2> QED
    BY <1>1, <2>1, FS_RemoveElement
<1> DEFINE next == [x \in Below |-> x + 1]
<1>4. next \in [Below -> Positive]
  BY <1>2
<1>5. \E x \in Below, y \in Below : x # y /\ next[x] = next[y]
  <2> HIDE DEF Below, next, Positive
  <2> QED
    BY <1>1, <1>3, <1>4, FS_PigeonHole
<1> QED
  BY <1>5

-----------------------------------------------------------------------------
(* What is taken of a queue.                                               *)

\* What is left of a queue without its first k events.
LEMMA RestOf ==
    ASSUME NEW q \in Seq(Events), NEW k \in 0..Len(q)
    PROVE  /\ SubSeq(q, k + 1, Len(q)) \in Seq(Events)
           /\ Len(SubSeq(q, k + 1, Len(q))) = Len(q) - k
           /\ \A i \in 1..(Len(q) - k) :
                 SubSeq(q, k + 1, Len(q))[i] = q[k + i] /\ q[k + i] \in Events
<1>1. \A i \in (k + 1)..Len(q) : q[i] \in Events
  OBVIOUS
<1>2. SubSeq(q, k + 1, Len(q)) \in Seq(Events)
  BY <1>1, SubSeqProperties
<1>3. \A i \in 1..(Len(q) - k) : SubSeq(q, k + 1, Len(q))[i] = q[k + i]
  BY SubSeqProperties
<1>4. Len(SubSeq(q, k + 1, Len(q))) = Len(q) - k
  BY SubSeqProperties
<1> QED
  BY <1>1, <1>2, <1>3, <1>4

\* A queue whose first k events are no messages of a peer loses nothing of that
\* peer with them.
LEMMA DroppingKeeps ==
    ASSUME NEW q \in Seq(Events), NEW k \in 0..Len(q), NEW p \in Seq(Events),
           NEW a, NEW t \in Nat, NEW r \in Nat,
           Len(p) = Len(q) - k, \A i \in 1..Len(p) : p[i] = q[k + i],
           \A i \in 1..k : ~Is(q, i, a)
    PROVE  /\ Ordered(q, a, t, r) => Ordered(p, a, t, r)
           /\ Whole(q, a, t, r) => Whole(p, a, t, r)
<1>1. \A i \in 1..Len(p) : k + i \in 1..Len(q) /\ (Is(p, i, a) <=> Is(q, k + i, a))
  BY DEF Is
<1>2. \A m : Has(q, a, m) => Has(p, a, m)
  <2> SUFFICES ASSUME NEW m, NEW j \in 1..Len(q), Is(q, j, a), q[j].message = m
               PROVE  Has(p, a, m)
    BY DEF Has
  <2>1. j - k \in 1..Len(p) /\ p[j - k] = q[j]
    OBVIOUS
  <2> QED
    BY <2>1 DEF Has, Is
<1>3. Ordered(q, a, t, r) => Rising(p, a)
  <2> SUFFICES ASSUME Rising(q, a), NEW i \in 1..Len(p), NEW j \in 1..Len(p), i < j,
                      Is(p, i, a), Is(p, j, a)
               PROVE  p[i].message < p[j].message
    BY DEF Ordered, Rising
  <2>1. k + i \in 1..Len(q) /\ k + j \in 1..Len(q) /\ k + i < k + j
    OBVIOUS
  <2> QED
    BY <1>1, <2>1 DEF Rising
<1>4. Ordered(q, a, t, r) => Within(p, a, t, r)
  BY <1>1 DEF Ordered, Within
<1>5. Ordered(q, a, t, r) => Onwards(p, a, r)
  BY <1>1, <1>2 DEF Ordered, Onwards
<1> QED
  BY <1>2, <1>3, <1>4, <1>5 DEF Ordered, Whole

\* A message at the head of a queue in order leaves one in order, of which
\* nothing is missing; if nothing was missing before, it is the next one.
LEMMA TakingHead ==
    ASSUME NEW q \in Seq(Events), NEW p \in Seq(Events),
           NEW a, NEW t \in Nat, NEW r \in Nat,
           q # <<>>, Len(p) = Len(q) - 1, \A i \in 1..Len(p) : p[i] = q[i + 1],
           Ordered(q, a, t, r), Is(q, 1, a)
    PROVE  /\ t < q[1].message /\ q[1].message <= r
           /\ Ordered(p, a, q[1].message, r) /\ Whole(p, a, q[1].message, r)
           /\ Whole(q, a, t, r) => q[1].message = t + 1
<1> DEFINE n == q[1].message
<1>0. 1 \in 1..Len(q) /\ n \in Nat
  <2>1. 1 \in 1..Len(q) /\ q[1] \in Events
    OBVIOUS
  <2> QED
    BY <2>1 DEF Events
<1>1. \A i \in 1..Len(p) : i + 1 \in 1..Len(q) /\ (Is(p, i, a) <=> Is(q, i + 1, a))
  BY DEF Is
<1>2. t < n /\ n <= r
  BY <1>0 DEF Ordered, Within
<1>3. \A j \in 1..Len(q) : Is(q, j, a) => j = 1 \/ (n < q[j].message /\ j - 1 \in 1..Len(p))
  <2> SUFFICES ASSUME NEW j \in 1..Len(q), Is(q, j, a), j # 1
               PROVE  n < q[j].message /\ j - 1 \in 1..Len(p)
    OBVIOUS
  <2>1. 1 < j
    OBVIOUS
  <2>2. n < q[j].message
    BY <1>0, <2>1 DEF Ordered, Rising
  <2> QED
    BY <2>2
<1>4. \A m \in Nat : n < m /\ Has(q, a, m) => Has(p, a, m)
  <2> SUFFICES ASSUME NEW m \in Nat, n < m, NEW j \in 1..Len(q), Is(q, j, a), q[j].message = m
               PROVE  Has(p, a, m)
    BY DEF Has
  <2>1. j - 1 \in 1..Len(p) /\ p[j - 1] = q[j]
    BY <1>0, <1>3
  <2> QED
    BY <2>1 DEF Has, Is
<1>5. Rising(p, a)
  <2> SUFFICES ASSUME NEW i \in 1..Len(p), NEW j \in 1..Len(p), i < j, Is(p, i, a), Is(p, j, a)
               PROVE  p[i].message < p[j].message
    BY DEF Rising
  <2>1. i + 1 \in 1..Len(q) /\ j + 1 \in 1..Len(q) /\ i + 1 < j + 1
    OBVIOUS
  <2> QED
    BY <1>1, <2>1 DEF Ordered, Rising
<1>6. Within(p, a, n, r)
  <2> SUFFICES ASSUME NEW i \in 1..Len(p), Is(p, i, a)
               PROVE  n < p[i].message /\ p[i].message <= r
    BY DEF Within
  <2>1. i + 1 \in 1..Len(q) /\ i + 1 # 1 /\ Is(q, i + 1, a)
    BY <1>1
  <2> QED
    BY <1>3, <2>1 DEF Ordered, Within
<1>7. Onwards(p, a, r)
  <2> SUFFICES ASSUME NEW i \in 1..Len(p), NEW m \in 1..r, Is(p, i, a), p[i].message < m
               PROVE  Has(p, a, m)
    BY DEF Onwards
  <2>1. Has(q, a, m)
    BY <1>1 DEF Ordered, Onwards
  <2>2. n < m
    <3>1. p[i] \in Events
      OBVIOUS
    <3>2. p[i].message \in Nat
      BY <3>1 DEF Events
    <3> QED
      BY <1>0, <1>6, <3>2 DEF Within
  <2> QED
    BY <1>4, <2>1, <2>2
<1>8. Whole(p, a, n, r)
  <2> SUFFICES ASSUME n < r PROVE Has(p, a, n + 1)
    BY DEF Whole
  <2>1. Has(q, a, n + 1)
    BY <1>0 DEF Ordered, Onwards
  <2> QED
    BY <1>0, <1>4, <2>1
<1>9. Whole(q, a, t, r) => n = t + 1
  <2> SUFFICES ASSUME NEW j \in 1..Len(q), Is(q, j, a), q[j].message = t + 1 PROVE n = t + 1
    BY <1>2, <1>0 DEF Whole, Has
  <2> QED
    BY <1>0, <1>2, <1>3
<1> QED
  BY <1>2, <1>5, <1>6, <1>7, <1>8, <1>9 DEF Ordered

\* A queue in order to which the next message of the peer is added.
LEMMA AddingNext ==
    ASSUME NEW q \in Seq(Events), NEW e \in Events,
           NEW a, NEW t \in Nat, NEW r \in Nat,
           Ordered(q, a, t, r), t <= r, e.generation = a, e.message = r + 1
    PROVE  /\ Ordered(Append(q, e), a, t, r + 1)
           /\ Whole(q, a, t, r) => Whole(Append(q, e), a, t, r + 1)
<1> DEFINE p == Append(q, e)
<1>0. /\ p \in Seq(Events) /\ Len(p) = Len(q) + 1 /\ p[Len(q) + 1] = e
      /\ \A i \in 1..Len(q) : p[i] = q[i]
  BY AppendProperties
<1> HIDE DEF p
<1>1. \A i \in 1..Len(p) : Is(p, i, a) => (i \in 1..Len(q) /\ Is(q, i, a)) \/ i = Len(q) + 1
  BY <1>0 DEF Is
<1>2. Is(p, Len(q) + 1, a) /\ Has(p, a, r + 1)
  <2>1. Len(q) + 1 \in 1..Len(p) /\ Is(p, Len(q) + 1, a)
    BY <1>0 DEF Is
  <2> QED
    BY <1>0, <2>1 DEF Has
<1>3. \A m : Has(q, a, m) => Has(p, a, m)
  <2> SUFFICES ASSUME NEW m, NEW j \in 1..Len(q), Is(q, j, a), q[j].message = m
               PROVE  Has(p, a, m)
    BY DEF Has
  <2>1. j \in 1..Len(p) /\ Is(p, j, a)
    BY <1>0 DEF Is
  <2> QED
    BY <1>0, <2>1 DEF Has
<1>4. \A i \in 1..Len(q) : Is(q, i, a) => t < q[i].message /\ q[i].message <= r /\ q[i].message \in Nat
  <2>1. \A i \in 1..Len(q) : q[i] \in Events
    OBVIOUS
  <2> QED
    BY <2>1 DEF Ordered, Within, Events
<1>5. Rising(p, a)
  <2> SUFFICES ASSUME NEW i \in 1..Len(p), NEW j \in 1..Len(p), i < j, Is(p, i, a), Is(p, j, a)
               PROVE  p[i].message < p[j].message
    BY DEF Rising
  <2>1. i \in 1..Len(q) /\ Is(q, i, a) /\ p[i] = q[i]
    BY <1>0, <1>1
  <2>2. CASE j = Len(q) + 1
    BY <1>0, <1>4, <2>1, <2>2
  <2>3. CASE j # Len(q) + 1
    BY <1>0, <1>1, <2>1, <2>3 DEF Ordered, Rising
  <2> QED
    BY <2>2, <2>3
<1>6. Within(p, a, t, r + 1)
  BY <1>0, <1>1, <1>4 DEF Within
<1>7. Onwards(p, a, r + 1)
  <2> SUFFICES ASSUME NEW i \in 1..Len(p), NEW m \in 1..(r + 1), Is(p, i, a), p[i].message < m
               PROVE  Has(p, a, m)
    BY DEF Onwards
  <2>1. CASE m = r + 1
    BY <1>2, <2>1
  <2>2. CASE m # r + 1
    <3>1. i \in 1..Len(q) /\ Is(q, i, a) /\ m \in 1..r
      BY <1>0, <1>1, <2>2
    <3> QED
      BY <1>0, <1>3, <3>1 DEF Ordered, Onwards
  <2> QED
    BY <2>1, <2>2
<1>8. Whole(q, a, t, r) => Whole(p, a, t, r + 1)
  <2>1. CASE t = r
    BY <1>2, <2>1 DEF Whole
  <2>2. CASE t < r
    BY <1>3, <2>2 DEF Whole
  <2> QED
    BY <2>1, <2>2
<1> QED
  BY <1>5, <1>6, <1>7, <1>8 DEF Ordered, p

\* Anything else that is added changes nothing.
LEMMA AddingOther ==
    ASSUME NEW q \in Seq(Events), NEW e \in Events,
           NEW a, NEW t \in Nat, NEW r \in Nat,
           ~(e.generation = a /\ e.message # 0)
    PROVE  /\ Ordered(q, a, t, r) => Ordered(Append(q, e), a, t, r)
           /\ Whole(q, a, t, r) => Whole(Append(q, e), a, t, r)
<1> DEFINE p == Append(q, e)
<1>0. /\ p \in Seq(Events) /\ Len(p) = Len(q) + 1 /\ p[Len(q) + 1] = e
      /\ \A i \in 1..Len(q) : p[i] = q[i]
  BY AppendProperties
<1> HIDE DEF p
<1>1. \A i \in 1..Len(p) : Is(p, i, a) => i \in 1..Len(q) /\ Is(q, i, a) /\ p[i] = q[i]
  BY <1>0 DEF Is
<1>2. \A m : Has(q, a, m) => Has(p, a, m)
  <2> SUFFICES ASSUME NEW m, NEW j \in 1..Len(q), Is(q, j, a), q[j].message = m
               PROVE  Has(p, a, m)
    BY DEF Has
  <2>1. j \in 1..Len(p) /\ Is(p, j, a)
    BY <1>0 DEF Is
  <2> QED
    BY <1>0, <2>1 DEF Has
<1>3. Ordered(q, a, t, r) => Rising(p, a)
  BY <1>1 DEF Ordered, Rising
<1>4. Ordered(q, a, t, r) => Within(p, a, t, r)
  BY <1>1 DEF Ordered, Within
<1>5. Ordered(q, a, t, r) => Onwards(p, a, r)
  BY <1>1, <1>2 DEF Ordered, Onwards
<1> QED
  BY <1>2, <1>3, <1>4, <1>5 DEF Ordered, Whole, p

\* A queue without messages of the peer.
LEMMA NoneOf ==
    ASSUME NEW q \in Seq(Events), NEW a, NEW t \in Nat, NEW r \in Nat,
           \A i \in 1..Len(q) : q[i].generation # a
    PROVE  Ordered(q, a, t, r) /\ (t >= r => Whole(q, a, t, r))
BY DEF Ordered, Whole, Rising, Within, Onwards, Is

\* What is fresh of a queue begins with an event of the active peer.
LEMMA FreshOf ==
    ASSUME NEW q \in Seq(Events)
    PROVE  /\ Client!Fresh(q) \in Seq(Events) /\ Durable!Fresh(q) = Client!Fresh(q)
           /\ Client!Fresh(q) = <<>> => \A i \in 1..Len(q) : q[i].generation # active
           /\ Client!Fresh(q) # <<>> =>
                \E k \in 0..(Len(q) - 1) :
                  /\ Len(Client!Fresh(q)) = Len(q) - k
                  /\ \A i \in 1..(Len(q) - k) : Client!Fresh(q)[i] = q[k + i]
                  /\ \A i \in 1..k : q[i].generation # active
                  /\ q[k + 1].generation = active
<1> DEFINE current == {i \in DOMAIN q : q[i].generation = active}
<1>1. Durable!Fresh(q) = Client!Fresh(q)
  BY DEF Client!Fresh, Durable!Fresh
<1>2. CASE current = {}
  <2>1. Client!Fresh(q) = <<>>
    BY <1>2 DEF Client!Fresh
  <2>2. \A i \in 1..Len(q) : q[i].generation # active
    BY <1>2
  <2> QED
    BY <1>1, <2>1, <2>2, EmptySeq
<1>3. CASE current # {}
  <2>1. current \in SUBSET Nat
    OBVIOUS
  <2> DEFINE m == CHOOSE i \in current : \A j \in current : i <= j
  <2>2. m \in current /\ \A j \in current : m <= j
    <3> HIDE DEF current
    <3>1. \E i \in current : \A j \in current : i <= j
      BY <1>3, <2>1, HasLeast
    <3> QED
      BY <3>1
  <2>3. Client!Fresh(q) = SubSeq(q, m, Len(q))
    BY <1>3 DEF Client!Fresh
  <2> HIDE DEF m
  <2>4. m \in 1..Len(q) /\ q[m].generation = active
    BY <2>2
  <2>5. \A i \in 1..(m - 1) : q[i].generation # active
    <3> SUFFICES ASSUME NEW i \in 1..(m - 1), q[i].generation = active PROVE FALSE
      OBVIOUS
    <3>1. i \in current
      BY <2>4
    <3> QED
      BY <2>2, <2>4, <3>1
  <2> DEFINE k == m - 1
  <2>6. k \in 0..(Len(q) - 1) /\ k + 1 = m
    BY <2>4
  <2>7. /\ SubSeq(q, m, Len(q)) \in Seq(Events)
        /\ Len(SubSeq(q, m, Len(q))) = Len(q) - k
        /\ \A i \in 1..(Len(q) - k) : SubSeq(q, m, Len(q))[i] = q[k + i]
    <3> HIDE DEF k
    <3>1. k \in 0..Len(q)
      BY <2>6
    <3> QED
      BY <2>6, <3>1, RestOf
  <2>8. Client!Fresh(q) # <<>>
    BY <2>3, <2>6, <2>7
  <2> QED
    BY <1>1, <2>3, <2>4, <2>5, <2>6, <2>7, <2>8
<1> QED
  BY <1>2, <1>3

\* Event h was taken of queue q, and p is left.
Drawn(q, h, p, a) ==
  \A t \in Nat, r \in Nat :
    Ordered(q, a, t, r) =>
      /\ h.message # 0 =>
           /\ t < h.message /\ h.message <= r
           /\ Ordered(p, a, h.message, r) /\ Whole(p, a, h.message, r)
           /\ Whole(q, a, t, r) => h.message = t + 1
      /\ h.message = 0 => Ordered(p, a, t, r) /\ (Whole(q, a, t, r) => Whole(p, a, t, r))

LEMMA HeadDrawn ==
    ASSUME NEW q \in Seq(Events), NEW a, q # <<>>, Head(q).generation = a
    PROVE  Head(q) \in Events /\ Tail(q) \in Seq(Events) /\ Drawn(q, Head(q), Tail(q), a)
<1> DEFINE p == Tail(q)
<1>1. /\ Head(q) = q[1] /\ p \in Seq(Events) /\ Len(p) = Len(q) - 1
      /\ \A i \in 1..Len(p) : p[i] = q[i + 1]
  OBVIOUS
<1>2. 1 \in 1..Len(q) /\ q[1] \in Events
  OBVIOUS
<1> HIDE DEF p
<1>3. ASSUME NEW t \in Nat, NEW r \in Nat, Ordered(q, a, t, r), q[1].message # 0
      PROVE  /\ t < q[1].message /\ q[1].message <= r
             /\ Ordered(p, a, q[1].message, r) /\ Whole(p, a, q[1].message, r)
             /\ Whole(q, a, t, r) => q[1].message = t + 1
  <2>1. Is(q, 1, a)
    BY <1>1, <1>3 DEF Is
  <2> QED
    BY <1>1, <1>3, <2>1, TakingHead
<1>4. ASSUME NEW t \in Nat, NEW r \in Nat, Ordered(q, a, t, r), q[1].message = 0
      PROVE  Ordered(p, a, t, r) /\ (Whole(q, a, t, r) => Whole(p, a, t, r))
  <2>1. 1 \in 0..Len(q) /\ Len(p) = Len(q) - 1 /\ \A i \in 1..Len(p) : p[i] = q[1 + i]
    BY <1>1, <1>2
  <2>2. \A i \in 1..1 : ~Is(q, i, a)
    BY <1>4 DEF Is
  <2> QED
    BY <1>1, <1>4, <2>1, <2>2, DroppingKeeps
<1> QED
  BY <1>1, <1>2, <1>3, <1>4 DEF Drawn, p

\* What is fresh of a queue, and its head.
LEMMA FreshDrawn ==
    ASSUME NEW q \in Seq(Events), Client!Fresh(q) # <<>>,
           \A i \in 1..Len(q) : q[i].generation <= active
    PROVE  LET f == Client!Fresh(q) IN
           /\ f \in Seq(Events) /\ Head(f) \in Events /\ Head(f).generation = active
           /\ Tail(f) \in Seq(Events) /\ Drawn(q, Head(f), Tail(f), active)
           /\ \A i \in 1..Len(Tail(f)) : Tail(f)[i].generation <= active
           /\ \A t \in Nat, r \in Nat : Ordered(q, active, t, r) => Ordered(f, active, t, r)
<1> DEFINE f == Client!Fresh(q)
<1>1. f \in Seq(Events)
  BY FreshOf
<1>2. PICK k \in 0..(Len(q) - 1) :
           /\ Len(f) = Len(q) - k
           /\ \A i \in 1..(Len(q) - k) : f[i] = q[k + i]
           /\ \A i \in 1..k : q[i].generation # active
           /\ q[k + 1].generation = active
  BY FreshOf
<1>3. f # <<>>
  OBVIOUS
<1> HIDE DEF f
<1>4. Head(f) = q[k + 1] /\ Head(f).generation = active
  BY <1>1, <1>2, <1>3
<1>5. Head(f) \in Events /\ Tail(f) \in Seq(Events) /\ Drawn(f, Head(f), Tail(f), active)
  BY <1>1, <1>3, <1>4, HeadDrawn
<1>6. \A t \in Nat, r \in Nat :
        /\ Ordered(q, active, t, r) => Ordered(f, active, t, r)
        /\ Whole(q, active, t, r) => Whole(f, active, t, r)
  <2> TAKE t \in Nat, r \in Nat
  <2>1. k \in 0..Len(q) /\ \A i \in 1..Len(f) : f[i] = q[k + i]
    BY <1>2
  <2>2. \A i \in 1..k : ~Is(q, i, active)
    BY <1>2 DEF Is
  <2>3. Len(f) = Len(q) - k
    BY <1>2
  <2> HIDE DEF Is
  <2> QED
    BY <1>1, <2>1, <2>2, <2>3, DroppingKeeps, Zenon
<1>7. Drawn(q, Head(f), Tail(f), active)
  BY <1>5, <1>6 DEF Drawn
<1>8. \A i \in 1..Len(Tail(f)) : Tail(f)[i].generation <= active
  <2> SUFFICES ASSUME NEW i \in 1..Len(Tail(f)) PROVE Tail(f)[i].generation <= active
    OBVIOUS
  <2>1. i + 1 \in 1..Len(f) /\ Tail(f)[i] = f[i + 1] /\ Len(f) = Len(q) - k
    BY <1>1, <1>2, <1>3
  <2>2. i + 1 \in 1..(Len(q) - k) /\ k + (i + 1) \in 1..Len(q)
    BY <2>1
  <2>3. f[i + 1] = q[k + (i + 1)]
    BY <1>2, <2>2
  <2> DEFINE j == k + (i + 1)
  <2>4. q[j].generation <= active
    <3>1. j \in 1..Len(q)
      BY <2>2
    <3> HIDE DEF j
    <3> QED
      BY <3>1
  <2>5. Tail(f)[i] = q[j]
    BY <2>1, <2>3
  <2> HIDE DEF j
  <2> QED
    BY <2>4, <2>5
<1> QED
  BY <1>1, <1>4, <1>5, <1>6, <1>7, <1>8 DEF f

\* Of a queue with nothing fresh nothing is missed.
LEMMA NoneFresh ==
    ASSUME NEW q \in Seq(Events), Client!Fresh(q) = <<>>, NEW t \in Nat, NEW r \in Nat
    PROVE  /\ Ordered(<<>>, active, t, r)
           /\ Whole(q, active, t, r) => Whole(<<>>, active, t, r)
<1>1. \A i \in 1..Len(q) : q[i].generation # active
  BY FreshOf
<1>2. <<>> \in Seq(Events) /\ Len(<<>>) = 0 /\ \A i \in 1..Len(<<>>) : FALSE
  OBVIOUS
<1>3. Ordered(<<>>, active, t, r)
  BY <1>2, NoneOf
<1>4. Whole(q, active, t, r) => Whole(<<>>, active, t, r)
  BY <1>1 DEF Whole, Has, Is
<1> QED
  BY <1>3, <1>4

LEMMA QueueOf ==
    ASSUME ClientTypes, NEW c \in Ways
    PROVE  /\ Queue(c) \in Seq(Events) /\ lane[c] \in Seq(Events)
           /\ c = "input" \/ ~Kept => Queue(c) = lane[c]
           /\ Kept => /\ clientPending \in Events
                      /\ Queue("control") = <<clientPending>> \o lane["control"]
<1>1. lane[c] \in Seq(Events)
  BY DEF ClientTypes, Ways
<1>2. Kept => clientPending \in Events
  BY DEF Kept, ClientTypes
<1>3. c = "input" \/ ~Kept => Queue(c) = lane[c]
  BY DEF Queue
<1>4. Kept => Queue("control") = <<clientPending>> \o lane["control"]
  BY DEF Queue
<1>5. Queue(c) \in Seq(Events)
  <2>1. CASE c = "control" /\ Kept
    <3>1. <<clientPending>> \in Seq(Events)
      BY <1>2, <2>1
    <3> QED
      BY <1>1, <1>4, <2>1, <3>1, ConcatProperties
  <2> QED
    BY <1>1, <1>3, <2>1 DEF Ways
<1> QED
  BY <1>1, <1>2, <1>3, <1>4, <1>5

\* What next_current_control_event takes.
LEMMA ControlDrawn ==
    ASSUME ClientTypes, NoneIsNewer, Durable!ControlLane # <<>>
    PROVE  LET f == Durable!ControlLane IN
           /\ f \in Seq(Events) /\ Head(f) \in Events /\ Head(f).generation = active
           /\ Tail(f) \in Seq(Events) /\ Drawn(Queue("control"), Head(f), Tail(f), active)
           /\ \A i \in 1..Len(Tail(f)) : Tail(f)[i].generation <= active
           /\ \A t \in Nat, r \in Nat :
                Ordered(Queue("control"), active, t, r) => Ordered(f, active, t, r)
<1> DEFINE f == Durable!ControlLane
           q == lane["control"]
<1>1. q \in Seq(Events) /\ \A i \in 1..Len(q) : q[i].generation <= active
  BY DEF ClientTypes, NoneIsNewer, Ways
<1>2. Kept <=> Durable!FromPending
  BY DEF Kept, Durable!FromPending, Client!NoEvent, Durable!NoEvent, Client!Event,
         Durable!Event, Client!Bye, Durable!Bye
<1>3. CASE Kept
  <2>1. f = Queue("control") /\ f = <<clientPending>> \o q /\ f \in Seq(Events)
    <3>1. "control" \in Ways
      BY DEF Ways
    <3> QED
      BY <1>2, <1>3, <3>1, QueueOf DEF Durable!ControlLane
  <2>2. clientPending \in Events /\ clientPending.generation = active
    BY <1>3 DEF Kept, ClientTypes
  <2>3. Head(f) = clientPending /\ Tail(f) = q
    <3> HIDE DEF q
    <3> QED
      BY <1>1, <2>1, <2>2
  <2>4. f # <<>>
    OBVIOUS
  <2> HIDE DEF f
  <2>5. Drawn(f, Head(f), Tail(f), active)
    BY <2>1, <2>2, <2>3, <2>4, HeadDrawn
  <2> QED
    BY <1>1, <2>1, <2>2, <2>3, <2>5 DEF f
<1>4. CASE ~Kept
  <2>1. f = Client!Fresh(q) /\ Queue("control") = q
    BY <1>1, <1>2, <1>4, FreshOf DEF Durable!ControlLane, Queue
  <2>2. Client!Fresh(q) # <<>>
    BY <2>1
  <2> HIDE DEF f, q
  <2> QED
    BY <1>1, <2>1, <2>2, FreshDrawn DEF f
<1> QED
  BY <1>3, <1>4

-----------------------------------------------------------------------------
(* The steps of the relay and of the tasks that read it.                   *)

resting == <<clientOpen, caller, clientSession, clientPending, clientTaken, component>>

\* ClientInv holds at the beginning.
LEMMA ClientBegins ==
    ASSUME component \in {"lane", "switch", "direct", "client", "host"}, Client!Init
    PROVE  ClientInv
<1> USE PathsBounds DEF Client!Init, Client!NoEvent, Client!Event, Client!Bye, Client!Calling,
        Client!Channels, Client!Generations, Ways, Peers
<1>1. ClientTypes
  <2>1. stream \in [Ways -> [Peers -> Streams]]
    BY DEF Streams
  <2>2. lane \in [Ways -> Seq(Events)]
    <3>1. <<>> \in Seq(Events)
      OBVIOUS
    <3> QED
      BY <3>1
  <2>3. caller \in Calls
    BY DEF Calls
  <2>4. clientPending \in {Client!NoEvent} /\ clientTaken \in [Ways -> [Peers -> Nat]]
    OBVIOUS
  <2> QED
    BY <2>1, <2>2, <2>3, <2>4 DEF ClientTypes
<1>2. NoneIsNewer /\ InOrder /\ Durably /\ LastHeard
  BY DEF NoneIsNewer, InOrder, Durably, LastHeard
<1> QED
  BY <1>1, <1>2 DEF ClientInv

\* One field of one stream changes.
LEMMA OneStream ==
    ASSUME stream \in [Ways -> [Peers -> Streams]], NEW c \in Ways, NEW g \in Peers,
           NEW s \in Streams, stream' = [stream EXCEPT ![c] = [stream[c] EXCEPT ![g] = s]]
    PROVE  /\ stream' \in [Ways -> [Peers -> Streams]]
           /\ stream'[c][g] = s
           /\ \A d \in Ways, h \in Peers : d # c \/ h # g => stream'[d][h] = stream[d][h]
<1>1. stream[c] \in [Peers -> Streams]
  OBVIOUS
<1>2. [stream[c] EXCEPT ![g] = s] \in [Peers -> Streams]
  BY <1>1
<1>3. stream' \in [Ways -> [Peers -> Streams]]
  BY <1>2
<1>4. stream'[c] = [stream[c] EXCEPT ![g] = s]
  OBVIOUS
<1>5. stream'[c][g] = s /\ \A h \in Peers : h # g => stream'[c][h] = stream[c][h]
  BY <1>1, <1>4
<1>6. \A d \in Ways : d # c => stream'[d] = stream[d]
  OBVIOUS
<1> QED
  BY <1>3, <1>5, <1>6

\* A message that is sent is not there yet.
LEMMA SendingKeeps ==
    ASSUME ClientInv, NEW c \in Ways, component' = component,
           stream' = [stream EXCEPT ![c][peers].sent = @ + 1],
           c = "input" /\ component = "host" => clientTaken["control"][peers] > 0,
           peers' = peers, present' = present, active' = active, lane' = lane, UNCHANGED resting
    PROVE  ClientInv'
<1> DEFINE old == stream[c][peers]
<1>1. peers \in Peers /\ stream \in [Ways -> [Peers -> Streams]]
  BY DEF ClientInv, ClientTypes
<1> DEFINE new == [old EXCEPT !.sent = @ + 1]
<1>2. /\ old \in Streams /\ new \in Streams
      /\ new.read = old.read /\ new.header = old.header /\ new.sent = old.sent + 1
  <2>1. old \in Streams
    BY <1>1
  <2> HIDE DEF old
  <2> QED
    BY <2>1 DEF Streams
<1>3. stream' = [stream EXCEPT ![c] = [stream[c] EXCEPT ![peers] = new]]
  OBVIOUS
<1>4. /\ stream' \in [Ways -> [Peers -> Streams]]
      /\ \A d \in Ways, g \in Peers :
           /\ stream'[d][g].read = stream[d][g].read /\ stream'[d][g].header = stream[d][g].header
           /\ stream'[d][g].sent >= stream[d][g].sent
           /\ stream'[d][g].sent # stream[d][g].sent => d = c /\ g = peers
  <2> HIDE DEF new
  <2>1. /\ stream' \in [Ways -> [Peers -> Streams]] /\ stream'[c][peers] = new
        /\ \A d \in Ways, h \in Peers : d # c \/ h # peers => stream'[d][h] = stream[d][h]
    <3>1. PICK h \in Peers : h = peers
      BY <1>1
    <3>2. stream' = [stream EXCEPT ![c] = [stream[c] EXCEPT ![h] = new]]
      BY <1>3, <3>1
    <3>3. stream \in [Ways -> [Peers -> Streams]] /\ new \in Streams
      BY <1>1, <1>2
    <3>4. /\ stream' \in [Ways -> [Peers -> Streams]] /\ stream'[c][h] = new
          /\ \A d \in Ways, g \in Peers : d # c \/ g # h => stream'[d][g] = stream[d][g]
      <4> HIDE DEF new, old
      <4> QED
        BY ONLY <3>2, <3>3, OneStream
    <3> QED
      BY <3>1, <3>4
  <2>2. \A d \in Ways, g \in Peers : stream[d][g].sent \in Nat
    BY <1>1 DEF Streams
  <2>3. old.sent \in Nat
    BY <1>1, <2>2
  <2> QED
    BY <1>2, <2>1, <2>2, <2>3
<1> HIDE DEF new
<1> HIDE DEF old
<1>5. ClientTypes'
  BY <1>4 DEF ClientInv, ClientTypes, resting
<1>6. NoneIsNewer'
  <2>1. \A d \in Ways, g \in Peers : stream[d][g].read \in Nat /\ stream[d][g].sent \in Nat
                                       /\ stream'[d][g].sent \in Nat
    BY <1>1, <1>4 DEF Streams
  <2> QED
    BY <1>4, <2>1 DEF ClientInv, NoneIsNewer, resting
<1>7. InOrder'
  <2>1. active # 0 => active \in Peers
    BY DEF ClientInv, ClientTypes, Peers
  <2>2. \A d \in Ways : Queue(d)' = Queue(d)
    BY DEF Queue, Kept, resting
  <2>3. Engaged' <=> Engaged
    BY DEF Engaged, resting
  <2> QED
    BY <1>4, <2>1, <2>2, <2>3 DEF ClientInv, InOrder, resting
<1>8. Durably'
  <2>1. component = "host" =>
          \A g \in Peers : stream'["input"][g].sent > 0 => clientTaken["control"][g] > 0
    BY <1>4 DEF ClientInv, Durably, Ways
  <2> QED
    BY <2>1 DEF ClientInv, Durably, resting
<1>9. LastHeard'
  BY DEF ClientInv, LastHeard, resting
<1> QED
  BY <1>5, <1>6, <1>7, <1>8, <1>9 DEF ClientInv

LEMMA PeersKeep ==
    ASSUME ClientInv, component' = component,
           \/ Client!PeerLeaves \/ Client!PeerJoins
           \/ Durable!PeerLeaves \/ Durable!PeerJoins
    PROVE  ClientInv'
<1>1. /\ peers' \in Peers /\ present' \in BOOLEAN
      /\ UNCHANGED <<stream, active, lane>> /\ UNCHANGED resting
  <2>1. peers \in Peers /\ present \in BOOLEAN
    BY DEF ClientInv, ClientTypes
  <2>2. /\ peers' = peers \/ (peers < ClientPeers /\ peers' = peers + 1)
        /\ present' \in BOOLEAN
    BY DEF Client!PeerLeaves, Client!PeerJoins, Durable!PeerLeaves, Durable!PeerJoins, Client!unread
  <2>3. UNCHANGED <<stream, active, lane>> /\ UNCHANGED resting
    BY DEF resting, Client!PeerLeaves, Client!PeerJoins, Client!unread,
           Durable!PeerLeaves, Durable!PeerJoins, Durable!unread
  <2> QED
    BY <2>1, <2>2, <2>3, PathsBounds DEF Peers
<1>2. ClientTypes'
  BY <1>1 DEF ClientInv, ClientTypes, resting
<1>3. NoneIsNewer'
  BY <1>1 DEF ClientInv, NoneIsNewer, resting
<1>4. InOrder'
  BY <1>1 DEF ClientInv, InOrder, resting, Queue, Kept, Engaged
<1>5. Durably' /\ LastHeard'
  BY <1>1 DEF ClientInv, Durably, LastHeard, resting
<1> QED
  BY <1>2, <1>3, <1>4, <1>5 DEF ClientInv

\* The header of a stream may be the first that is heard of its peer.
LEMMA HeaderKeeps ==
    ASSUME ClientInv, component' = component, NEW c \in Ways, NEW g \in Peers,
           Client!ReadHeader(c, g) \/ Durable!ReadHeader(c, g)
    PROVE  ClientInv'
<1> DEFINE old == stream[c][g]
<1>1. /\ ~old.header
      /\ stream' = [stream EXCEPT ![c][g].header = TRUE]
      /\ active' = IF g > active THEN g ELSE active
      /\ peers' = peers /\ present' = present /\ lane' = lane /\ UNCHANGED resting
  BY DEF Client!ReadHeader, Client!reader, Durable!ReadHeader, Durable!reader, resting
<1>2. stream \in [Ways -> [Peers -> Streams]] /\ active \in 0..ClientPeers
  BY DEF ClientInv, ClientTypes
<1>3. active' \in 0..ClientPeers /\ active <= active' /\ g <= active'
  BY <1>1, <1>2, PathsBounds DEF Peers
<1>4. /\ stream' \in [Ways -> [Peers -> Streams]]
      /\ \A d \in Ways, h \in Peers :
           /\ stream'[d][h].read = stream[d][h].read /\ stream'[d][h].sent = stream[d][h].sent
           /\ stream[d][h].header => stream'[d][h].header
           /\ stream'[d][h].header /\ ~stream[d][h].header => d = c /\ h = g
  <2> DEFINE new == [old EXCEPT !.header = TRUE]
  <2>1. old \in Streams
    BY <1>2
  <2>2. new \in Streams /\ new.read = old.read /\ new.sent = old.sent /\ new.header = TRUE
    <3> HIDE DEF old
    <3> QED
      BY <2>1 DEF Streams
  <2>3. stream' = [stream EXCEPT ![c] = [stream[c] EXCEPT ![g] = new]]
    BY <1>1
  <2> HIDE DEF new
  <2>4. /\ stream' \in [Ways -> [Peers -> Streams]] /\ stream'[c][g] = new
        /\ \A d \in Ways, h \in Peers : d # c \/ h # g => stream'[d][h] = stream[d][h]
    BY <1>2, <2>2, <2>3, OneStream
  <2> QED
    BY <2>2, <2>4
<1> HIDE DEF old
<1>5. ClientTypes'
  BY <1>1, <1>3, <1>4 DEF ClientInv, ClientTypes, resting
<1>6. NoneIsNewer'
  <2>1. \A d \in Ways, h \in Peers :
          /\ stream'[d][h].header => h <= active'
          /\ ~stream'[d][h].header => stream'[d][h].read = 0
          /\ stream'[d][h].read <= stream'[d][h].sent /\ clientTaken'[d][h] <= stream'[d][h].read
    BY <1>1, <1>2, <1>3, <1>4 DEF ClientInv, NoneIsNewer, resting, Peers
  <2>2. \A d \in Ways : \A i \in 1..Len(lane[d]) : lane[d][i].generation <= active'
    <3> SUFFICES ASSUME NEW d \in Ways, NEW i \in 1..Len(lane[d])
                 PROVE  lane[d][i].generation <= active'
      OBVIOUS
    <3>1. lane[d] \in Seq(Events)
      BY DEF ClientInv, ClientTypes
    <3>2. lane[d][i] \in Events
      BY <3>1
    <3>3. lane[d][i].generation \in Nat
      BY <3>2 DEF Events, Peers
    <3>4. lane[d][i].generation <= active
      BY DEF ClientInv, NoneIsNewer
    <3> QED
      BY <1>2, <1>3, <3>3, <3>4
  <2>3. /\ clientPending # Client!NoEvent => clientPending.generation <= active'
        /\ clientSession <= active'
    <3>1. clientSession \in Nat
      BY DEF ClientInv, ClientTypes
    <3>2. clientPending # Client!NoEvent => clientPending.generation \in Nat
      BY DEF ClientInv, ClientTypes, Events, Peers
    <3> QED
      BY <1>2, <1>3, <3>1, <3>2 DEF ClientInv, NoneIsNewer
  <2> QED
    BY <1>1, <2>1, <2>2, <2>3 DEF NoneIsNewer, Client!NoEvent, Client!Event, Client!Bye, resting
<1>7. InOrder'
  <2>1. CASE g <= active
    <3>1. active' = active
      BY <1>1, <1>2, <2>1 DEF Peers
    <3>2. \A d \in Ways : Queue(d)' = Queue(d)
      BY <1>1, <3>1 DEF Queue, Kept, resting
    <3>3. (Engaged' <=> Engaged) /\ (active # 0 => active \in Peers)
      BY <1>1, <1>2, <3>1 DEF Engaged, resting, Peers
    <3> QED
      BY <1>1, <1>4, <3>1, <3>2, <3>3 DEF ClientInv, InOrder, resting
  <2>2. CASE g > active
    <3>1. active' = g /\ ~Kept'
      <4>1. active' = g
        BY <1>1, <2>2
      <4>2. clientPending # Client!NoEvent => clientPending.generation # g
        BY <1>2, <2>2 DEF ClientInv, NoneIsNewer, ClientTypes, Peers, Events
      <4> QED
        BY <1>1, <4>1, <4>2 DEF Kept, resting, Client!NoEvent, Client!Event, Client!Bye
    <3>2. ASSUME NEW d \in Ways
          PROVE  /\ Ordered(Queue(d)', g, clientTaken'[d][g], stream'[d][g].read)
                 /\ Whole(Queue(d)', g, clientTaken'[d][g], stream'[d][g].read)
      <4>1. Queue(d)' = lane[d] /\ lane[d] \in Seq(Events)
        BY <1>1, <3>1 DEF Queue, ClientInv, ClientTypes
      <4>2. ~stream[d][g].header /\ stream[d][g].read = 0 /\ clientTaken[d][g] = 0
        <5>1. ~(g <= active)
          BY <1>2, <2>2 DEF Peers
        <5>2. clientTaken[d][g] \in Nat
          <6>1. clientTaken \in [Ways -> [Peers -> Nat]]
            BY DEF ClientInv, ClientTypes
          <6> QED
            BY <6>1
        <5>3. ~stream[d][g].header /\ stream[d][g].read = 0
          BY <5>1 DEF ClientInv, NoneIsNewer
        <5>4. clientTaken[d][g] <= stream[d][g].read
          BY DEF ClientInv, NoneIsNewer
        <5> QED
          BY <5>2, <5>3, <5>4
      <4>3. \A i \in 1..Len(lane[d]) : lane[d][i].generation # g
        BY <1>2, <2>2 DEF ClientInv, NoneIsNewer, Peers
      <4>4. clientTaken'[d][g] = 0 /\ stream'[d][g].read = 0
        BY <1>1, <1>4, <4>2 DEF resting
      <4> QED
        BY <4>1, <4>3, <4>4, NoneOf
    <3> QED
      BY <3>1, <3>2 DEF InOrder
  <2> QED
    BY <1>2, <2>1, <2>2 DEF Peers
<1>8. Durably' /\ LastHeard'
  BY <1>1, <1>4 DEF ClientInv, Durably, LastHeard, resting, Ways, Client!NoEvent, Client!Event, Client!Bye
<1> QED
  BY <1>5, <1>6, <1>7, <1>8 DEF ClientInv

\* A queue grows with its lane.
LEMMA QueueGrows ==
    ASSUME ClientTypes, NEW c \in Ways, NEW e \in Events,
           lane' = [lane EXCEPT ![c] = Append(@, e)], active' = active, UNCHANGED resting
    PROVE  /\ lane' \in [Ways -> Seq(Events)]
           /\ lane'[c] = Append(lane[c], e) /\ \A d \in Ways : d # c => lane'[d] = lane[d]
           /\ Queue(c)' = Append(Queue(c), e) /\ \A d \in Ways : d # c => Queue(d)' = Queue(d)
<1>1. lane \in [Ways -> Seq(Events)]
  BY DEF ClientTypes
<1>2. lane'[c] = Append(lane[c], e) /\ \A d \in Ways : d # c => lane'[d] = lane[d]
  BY <1>1
<1>3. lane' \in [Ways -> Seq(Events)]
  <2>1. Append(lane[c], e) \in Seq(Events)
    BY <1>1, AppendProperties
  <2> QED
    BY <1>1, <2>1
<1>4. Kept' <=> Kept
  BY DEF Kept, resting, Client!NoEvent, Client!Event, Client!Bye
<1>5. \A d \in Ways : d # c => Queue(d)' = Queue(d)
  BY <1>2, <1>4 DEF Queue, resting
<1>6. Queue(c)' = Append(Queue(c), e)
  <2>1. CASE c = "control" /\ Kept
    <3>1. Queue(c)' = <<clientPending>> \o Append(lane[c], e)
      BY <1>2, <1>4, <2>1 DEF Queue, resting
    <3>2. Queue(c) = <<clientPending>> \o lane[c]
      BY <2>1 DEF Queue
    <3>3. <<clientPending>> \in Seq(Events) /\ lane[c] \in Seq(Events)
      BY <1>1, <2>1 DEF Kept, ClientTypes
    <3>4. ASSUME NEW s \in Seq(Events), NEW u \in Seq(Events)
          PROVE  s \o Append(u, e) = Append(s \o u, e)
      OBVIOUS
    <3> QED
      BY <3>1, <3>2, <3>3, <3>4
  <2>2. CASE ~(c = "control" /\ Kept)
    BY <1>2, <1>4, <2>2 DEF Queue
  <2> QED
    BY <2>1, <2>2
<1> QED
  BY <1>2, <1>3, <1>5, <1>6

\* Events of peers that were heard of stay so.
LEMMA GrownStaysOld ==
    ASSUME NEW q \in Seq(Events), NEW e \in Events, NEW a \in Nat, e.generation <= a,
           \A i \in 1..Len(q) : q[i].generation <= a
    PROVE  \A i \in 1..Len(Append(q, e)) : Append(q, e)[i].generation <= a
<1>1. Len(Append(q, e)) = Len(q) + 1 /\ Append(q, e)[Len(q) + 1] = e
  BY AppendProperties
<1>2. \A i \in 1..Len(q) : Append(q, e)[i] = q[i]
  BY AppendProperties
<1> QED
  BY <1>1, <1>2

\* A message is read.
LEMMA ReadingKeeps ==
    ASSUME ClientInv, component' = component, NEW c \in Ways, NEW g \in Peers,
           Client!ReadMessage(c, g) \/ Durable!ReadMessage(c, g)
    PROVE  ClientInv'
<1> DEFINE old == stream[c][g]
           new == [old EXCEPT !.read = @ + 1]
           e == [generation |-> g, message |-> old.read + 1]
<1>1. /\ old.header /\ old.read < old.sent
      /\ stream' = [stream EXCEPT ![c] = [stream[c] EXCEPT ![g] = new]]
      /\ lane' = [lane EXCEPT ![c] = Append(@, e)]
      /\ peers' = peers /\ present' = present /\ active' = active /\ UNCHANGED resting
  BY DEF Client!ReadMessage, Client!reader, Durable!ReadMessage, Durable!reader, resting,
         Client!Event, Durable!Event
<1>2. stream \in [Ways -> [Peers -> Streams]] /\ active \in 0..ClientPeers /\ ClientTypes
  BY DEF ClientInv, ClientTypes
<1>3. /\ old \in Streams /\ new \in Streams /\ old.read \in Nat /\ old.sent \in Nat
      /\ new.read = old.read + 1 /\ new.sent = old.sent /\ new.header = old.header
  <2>1. old \in Streams
    BY <1>2
  <2> HIDE DEF old
  <2> QED
    BY <2>1 DEF Streams
<1>4. e \in Events /\ e.generation = g /\ e.message = old.read + 1 /\ g <= active
  <2>1. g <= active
    BY <1>1 DEF ClientInv, NoneIsNewer
  <2> HIDE DEF old
  <2> QED
    BY <1>3, <2>1 DEF Events
<1>5. /\ stream' \in [Ways -> [Peers -> Streams]] /\ stream'[c][g] = new
      /\ \A d \in Ways, h \in Peers : d # c \/ h # g => stream'[d][h] = stream[d][h]
  <2> HIDE DEF new, old, e
  <2> QED
    BY <1>1, <1>2, <1>3, OneStream
<1>6. /\ lane' \in [Ways -> Seq(Events)]
      /\ lane'[c] = Append(lane[c], e) /\ \A d \in Ways : d # c => lane'[d] = lane[d]
      /\ Queue(c)' = Append(Queue(c), e) /\ \A d \in Ways : d # c => Queue(d)' = Queue(d)
  <2> HIDE DEF new, old, e
  <2> QED
    BY <1>1, <1>2, <1>4, QueueGrows
<1>7. e.message = old.read + 1
  BY <1>4
<1> HIDE DEF e, new
<1>8. ClientTypes'
  BY <1>1, <1>5, <1>6 DEF ClientInv, ClientTypes, resting
<1>9. NoneIsNewer'
  <2>1. \A d \in Ways, h \in Peers :
          /\ stream'[d][h].header => h <= active
          /\ ~stream'[d][h].header => stream'[d][h].read = 0
          /\ stream'[d][h].read <= stream'[d][h].sent /\ clientTaken[d][h] <= stream'[d][h].read
    <3> SUFFICES ASSUME NEW d \in Ways, NEW h \in Peers
                 PROVE  /\ stream'[d][h].header => h <= active
                        /\ ~stream'[d][h].header => stream'[d][h].read = 0
                        /\ stream'[d][h].read <= stream'[d][h].sent
                        /\ clientTaken[d][h] <= stream'[d][h].read
      OBVIOUS
    <3>1. CASE d = c /\ h = g
      <4>1. clientTaken[c][g] <= old.read
        BY DEF ClientInv, NoneIsNewer
      <4>2. clientTaken[c][g] \in Nat
        <5>1. clientTaken \in [Ways -> [Peers -> Nat]]
          BY DEF ClientInv, ClientTypes
        <5> QED
          BY <5>1
      <4>3. stream'[d][h] = new /\ h <= active
        BY <1>4, <1>5, <3>1
      <4>4. new.header /\ new.read <= new.sent
        <5> HIDE DEF old
        <5> QED
          BY <1>1, <1>3
      <4> HIDE DEF old
      <4> QED
        BY <1>3, <3>1, <4>1, <4>2, <4>3, <4>4
    <3>2. CASE ~(d = c /\ h = g)
      BY <1>5, <3>2 DEF ClientInv, NoneIsNewer
    <3> QED
      BY <3>1, <3>2
  <2>2. \A d \in Ways : \A i \in 1..Len(lane'[d]) : lane'[d][i].generation <= active
    <3>1. \A d \in Ways : lane[d] \in Seq(Events) /\ \A i \in 1..Len(lane[d]) : lane[d][i].generation <= active
      BY DEF ClientInv, ClientTypes, NoneIsNewer
    <3>2. \A i \in 1..Len(Append(lane[c], e)) : Append(lane[c], e)[i].generation <= active
      <4>1. PICK a \in Nat : a = active
        BY <1>2
      <4> QED
        <5> HIDE DEF old
        <5> QED
          BY <1>4, <3>1, <4>1, GrownStaysOld
    <3> QED
      BY <1>6, <3>1, <3>2
  <2> QED
    BY <1>1, <2>1, <2>2 DEF ClientInv, NoneIsNewer, resting, Client!NoEvent, Client!Event, Client!Bye
<1>10. InOrder'
  <2> SUFFICES ASSUME active # 0, NEW d \in Ways
               PROVE  /\ Ordered(Queue(d)', active, clientTaken[d][active], stream'[d][active].read)
                      /\ Engaged => Whole(Queue(d)', active, clientTaken[d][active], stream'[d][active].read)
    BY <1>1 DEF InOrder, Engaged, resting
  <2>1. active \in Peers
    BY <1>2 DEF Peers
  <2> DEFINE t == clientTaken[d][active]
             r == stream[d][active].read
             q == Queue(d)
  <2>2. t \in Nat /\ r \in Nat /\ t <= r /\ q \in Seq(Events)
    <3>1. clientTaken \in [Ways -> [Peers -> Nat]] /\ stream[d][active] \in Streams
      BY <1>2, <2>1 DEF ClientTypes
    <3>2. t <= r
      BY <2>1 DEF ClientInv, NoneIsNewer
    <3> QED
      BY <1>2, <2>1, <3>1, <3>2, QueueOf DEF Streams
  <2>3. Ordered(q, active, t, r) /\ (Engaged => Whole(q, active, t, r))
    BY DEF ClientInv, InOrder
  <2>4. PICK a \in Nat : a = active
    BY <1>2
  <2>5. CASE d = c /\ g = active
    <3>1. stream'[d][active].read = r + 1 /\ old.read = r /\ Queue(d)' = Append(q, e)
      BY <1>3, <1>5, <1>6, <2>5
    <3> HIDE DEF t, r, q
    <3>2. e.generation = a /\ e.message = r + 1
      BY <1>4, <2>4, <2>5, <3>1
    <3>3. Ordered(q, a, t, r) /\ (Engaged => Whole(q, a, t, r))
      BY <2>3, <2>4
    <3>4. Ordered(Append(q, e), a, t, r + 1) /\ (Whole(q, a, t, r) => Whole(Append(q, e), a, t, r + 1))
      BY <1>4, <2>2, <3>2, <3>3, AddingNext
    <3> QED
      BY <2>4, <3>1, <3>3, <3>4 DEF t
  <2>6. CASE d = c /\ g # active
    <3>1. stream'[d][active].read = r /\ Queue(d)' = Append(q, e)
      BY <1>5, <1>6, <2>1, <2>6
    <3> HIDE DEF t, r, q
    <3>2. ~(e.generation = a /\ e.message # 0)
      BY <1>4, <2>4, <2>6
    <3>3. Ordered(q, a, t, r) /\ (Engaged => Whole(q, a, t, r))
      BY <2>3, <2>4
    <3>4. /\ Ordered(q, a, t, r) => Ordered(Append(q, e), a, t, r)
          /\ Whole(q, a, t, r) => Whole(Append(q, e), a, t, r)
      BY <1>4, <2>2, <3>2, AddingOther
    <3> QED
      BY <2>4, <3>1, <3>3, <3>4 DEF t
  <2>7. CASE d # c
    BY <1>5, <1>6, <2>1, <2>3, <2>7
  <2> QED
    BY <2>5, <2>6, <2>7
<1>11. Durably' /\ LastHeard'
  <2>1. \A h \in Peers : stream'["input"][h].sent = stream["input"][h].sent
    <3>1. "input" \in Ways
      BY DEF Ways
    <3> QED
      BY <1>3, <1>5, <3>1
  <2> QED
    BY <1>1, <2>1 DEF ClientInv, Durably, LastHeard, resting, Client!NoEvent, Client!Event, Client!Bye
<1> QED
  BY <1>8, <1>9, <1>10, <1>11 DEF ClientInv

\* So is the end of a stream.
LEMMA EndingKeeps ==
    ASSUME ClientInv, component' = component, NEW c \in Ways, NEW g \in Peers,
           Client!ReadEnd(c, g) \/ Durable!ReadEnd(c, g)
    PROVE  ClientInv'
<1> DEFINE old == stream[c][g]
           new == [old EXCEPT !.over = TRUE]
           e == [generation |-> g, message |-> 0]
<1>1. /\ old.header
      /\ stream' = [stream EXCEPT ![c] = [stream[c] EXCEPT ![g] = new]]
      /\ lane' = [lane EXCEPT ![c] = Append(@, e)]
      /\ peers' = peers /\ present' = present /\ active' = active /\ UNCHANGED resting
  BY DEF Client!ReadEnd, Client!reader, Durable!ReadEnd, Durable!reader, resting,
         Client!Event, Durable!Event, Client!Bye, Durable!Bye
<1>2. stream \in [Ways -> [Peers -> Streams]] /\ active \in 0..ClientPeers /\ ClientTypes
  BY DEF ClientInv, ClientTypes
<1>3. /\ old \in Streams /\ new \in Streams
      /\ new.read = old.read /\ new.sent = old.sent /\ new.header = old.header
  <2>1. old \in Streams
    BY <1>2
  <2> HIDE DEF old
  <2> QED
    BY <2>1 DEF Streams
<1>4. e \in Events /\ e.generation = g /\ e.message = 0 /\ g <= active
  <2>1. g <= active
    BY <1>1 DEF ClientInv, NoneIsNewer
  <2> QED
    BY <2>1 DEF Events
<1> HIDE DEF new, old, e
<1>5. /\ stream' \in [Ways -> [Peers -> Streams]]
      /\ \A d \in Ways, h \in Peers :
           /\ stream'[d][h].read = stream[d][h].read /\ stream'[d][h].sent = stream[d][h].sent
           /\ stream'[d][h].header = stream[d][h].header
  <2>1. /\ stream' \in [Ways -> [Peers -> Streams]] /\ stream'[c][g] = new
        /\ \A d \in Ways, h \in Peers : d # c \/ h # g => stream'[d][h] = stream[d][h]
    BY <1>1, <1>2, <1>3, OneStream
  <2> QED
    BY <1>3, <2>1 DEF old
<1>6. /\ lane' \in [Ways -> Seq(Events)]
      /\ lane'[c] = Append(lane[c], e) /\ \A d \in Ways : d # c => lane'[d] = lane[d]
      /\ Queue(c)' = Append(Queue(c), e) /\ \A d \in Ways : d # c => Queue(d)' = Queue(d)
  BY <1>1, <1>2, <1>4, QueueGrows
<1>8. ClientTypes'
  BY <1>1, <1>5, <1>6 DEF ClientInv, ClientTypes, resting
<1>9. NoneIsNewer'
  <2>2. \A d \in Ways : \A i \in 1..Len(lane'[d]) : lane'[d][i].generation <= active
    <3>1. \A d \in Ways : lane[d] \in Seq(Events) /\ \A i \in 1..Len(lane[d]) : lane[d][i].generation <= active
      BY DEF ClientInv, ClientTypes, NoneIsNewer
    <3>2. \A i \in 1..Len(Append(lane[c], e)) : Append(lane[c], e)[i].generation <= active
      <4>1. PICK a \in Nat : a = active
        BY <1>2
      <4> QED
        BY <1>4, <3>1, <4>1, GrownStaysOld
    <3> QED
      BY <1>6, <3>1, <3>2
  <2> QED
    BY <1>1, <1>5, <2>2 DEF ClientInv, NoneIsNewer, resting, Client!NoEvent, Client!Event, Client!Bye
<1>10. InOrder'
  <2> SUFFICES ASSUME active # 0, NEW d \in Ways
               PROVE  /\ Ordered(Queue(d)', active, clientTaken[d][active], stream[d][active].read)
                      /\ Engaged => Whole(Queue(d)', active, clientTaken[d][active], stream[d][active].read)
    <3>1. active # 0 => active \in Peers
      BY <1>2 DEF Peers
    <3> QED
      BY <1>1, <1>5, <3>1 DEF InOrder, Engaged, resting
  <2>1. active \in Peers
    BY <1>2 DEF Peers
  <2> DEFINE t == clientTaken[d][active]
             r == stream[d][active].read
             q == Queue(d)
  <2>2. t \in Nat /\ r \in Nat /\ q \in Seq(Events)
    <3>1. clientTaken \in [Ways -> [Peers -> Nat]] /\ stream[d][active] \in Streams
      BY <1>2, <2>1 DEF ClientTypes
    <3> QED
      BY <1>2, <2>1, <3>1, QueueOf DEF Streams
  <2>3. Ordered(q, active, t, r) /\ (Engaged => Whole(q, active, t, r))
    BY DEF ClientInv, InOrder
  <2>4. PICK a \in Nat : a = active
    BY <1>2
  <2>6. CASE d = c
    <3>1. Queue(d)' = Append(q, e)
      BY <1>6, <2>6
    <3> HIDE DEF t, r, q
    <3>3. Ordered(q, a, t, r) /\ (Engaged => Whole(q, a, t, r))
      BY <2>3, <2>4
    <3>4. /\ Ordered(q, a, t, r) => Ordered(Append(q, e), a, t, r)
          /\ Whole(q, a, t, r) => Whole(Append(q, e), a, t, r)
      BY <1>4, <2>2, AddingOther
    <3> QED
      BY <2>4, <3>1, <3>3, <3>4 DEF t, r
  <2>7. CASE d # c
    BY <1>6, <2>3, <2>7
  <2> QED
    BY <2>6, <2>7
<1>11. Durably' /\ LastHeard'
  <2>1. "input" \in Ways
    BY DEF Ways
  <2> QED
    BY <1>1, <1>5, <2>1 DEF ClientInv, Durably, LastHeard, resting, Client!NoEvent, Client!Event, Client!Bye
<1> QED
  BY <1>8, <1>9, <1>10, <1>11 DEF ClientInv

-----------------------------------------------------------------------------
(* next_event                                                              *)

\* An event of the active peer is taken, and handed over or passed over.
LEMMA DrawnStays ==
    ASSUME ClientInv, NEW c \in Ways, NEW h \in Events, h.generation = active,
           NEW p \in Seq(Events), Drawn(Queue(c), h, p, active),
           \/ h.message # 0 /\ clientTaken' = [clientTaken EXCEPT ![c][h.generation] = h.message]
           \/ clientTaken' = clientTaken
    PROVE  /\ clientTaken' \in [Ways -> [Peers -> Nat]]
           /\ \A d \in Ways, g \in Peers :
                d # c \/ g # active => clientTaken'[d][g] = clientTaken[d][g]
           /\ clientTaken'[c][active] <= stream[c][active].read
           /\ clientTaken'[c][active] >= clientTaken[c][active]
           /\ Ordered(p, active, clientTaken'[c][active], stream[c][active].read)
           /\ Engaged /\ (h.message = 0 \/ clientTaken'[c][active] = h.message) =>
                Whole(p, active, clientTaken'[c][active], stream[c][active].read)
           /\ h.message # 0 /\ clientTaken'[c][active] = h.message =>
                Whole(p, active, clientTaken'[c][active], stream[c][active].read)
           /\ clientTaken'[c][active] # clientTaken[c][active] =>
                /\ clientTaken'[c][active] = h.message
                /\ Engaged => h.message = clientTaken[c][active] + 1
<1> DEFINE t == clientTaken[c][active]
           r == stream[c][active].read
           q == Queue(c)
<1>1. active \in Peers /\ active # 0 /\ h.message \in Nat
  BY DEF Events, Peers
<1>2. clientTaken \in [Ways -> [Peers -> Nat]] /\ stream[c][active] \in Streams
  BY <1>1 DEF ClientInv, ClientTypes
<1>3. t \in Nat /\ r \in Nat /\ t <= r
  BY <1>1, <1>2 DEF ClientInv, NoneIsNewer, Streams
<1>4. Ordered(q, active, t, r) /\ (Engaged => Whole(q, active, t, r))
  BY <1>1 DEF ClientInv, InOrder
<1>5. /\ h.message # 0 =>
           /\ t < h.message /\ h.message <= r
           /\ Ordered(p, active, h.message, r) /\ Whole(p, active, h.message, r)
           /\ Whole(q, active, t, r) => h.message = t + 1
      /\ h.message = 0 =>
           Ordered(p, active, t, r) /\ (Whole(q, active, t, r) => Whole(p, active, t, r))
  BY <1>3, <1>4 DEF Drawn
<1>6. CASE h.message # 0 /\ clientTaken' = [clientTaken EXCEPT ![c][h.generation] = h.message]
  <2>1. clientTaken' = [clientTaken EXCEPT ![c] = [clientTaken[c] EXCEPT ![active] = h.message]]
    BY <1>6
  <2>2. clientTaken[c] \in [Peers -> Nat]
    BY <1>2
  <2>3. [clientTaken[c] EXCEPT ![active] = h.message] \in [Peers -> Nat]
    BY <1>1, <2>2
  <2>4. clientTaken' \in [Ways -> [Peers -> Nat]]
    BY <1>2, <2>1, <2>3
  <2>5. clientTaken'[c] = [clientTaken[c] EXCEPT ![active] = h.message]
    BY <1>2, <2>1
  <2>6. clientTaken'[c][active] = h.message
    BY <1>1, <2>2, <2>5
  <2>7. \A d \in Ways, g \in Peers :
                d # c \/ g # active => clientTaken'[d][g] = clientTaken[d][g]
    BY <1>2, <2>1, <2>2, <2>5
  <2> HIDE DEF t, r, q
  <2>8. h.message >= t
    BY <1>1, <1>3, <1>5, <1>6
  <2> QED
    BY <1>4, <1>5, <1>6, <2>4, <2>6, <2>7, <2>8 DEF t, r
<1>7. CASE clientTaken' = clientTaken
  <2>1. h.message # 0 => Ordered(p, active, t, r)
    <3> SUFFICES ASSUME h.message # 0 PROVE Ordered(p, active, t, r)
      OBVIOUS
    <3>1. \A i \in 1..Len(p) : p[i].message \in Nat
      <4>1. \A i \in 1..Len(p) : p[i] \in Events
        OBVIOUS
      <4> QED
        BY <4>1 DEF Events
    <3> HIDE DEF t, r, q
    <3>2. Within(p, active, t, r)
      BY <1>1, <1>3, <1>5, <3>1 DEF Ordered, Within
    <3> QED
      BY <1>5, <3>2 DEF Ordered
  <2> HIDE DEF q
  <2>2. t # h.message \/ h.message = 0
    <3> HIDE DEF t, r
    <3> QED
      BY <1>1, <1>3, <1>5
  <2> QED
    BY <1>2, <1>3, <1>4, <1>5, <1>7, <2>1, <2>2
<1> QED
  BY <1>6, <1>7

\* The parts of ClientInv that speak of one lane only.
LEMMA LaneSet ==
    ASSUME lane \in [Ways -> Seq(Events)], NEW c \in Ways, NEW p \in Seq(Events),
           lane' = [lane EXCEPT ![c] = p],
           \A d \in Ways : \A i \in 1..Len(lane[d]) : lane[d][i].generation <= active,
           \A i \in 1..Len(p) : p[i].generation <= active
    PROVE  /\ lane' \in [Ways -> Seq(Events)] /\ lane'[c] = p
           /\ \A d \in Ways : d # c => lane'[d] = lane[d]
           /\ \A d \in Ways : \A i \in 1..Len(lane'[d]) : lane'[d][i].generation <= active
OBVIOUS

LEMMA TakingKeeps ==
    ASSUME ClientInv, component = "client", component' = component, NEW c \in Ways,
           Client!TakeEvent(c)
    PROVE  /\ ClientInv'
           /\ \A d \in Ways, g \in Peers :
                clientTaken'[d][g] # clientTaken[d][g] =>
                  g = active /\ clientTaken'[d][g] = clientTaken[d][g] + 1
<1> DEFINE f == Client!Fresh(lane[c])
           h == Head(f)
           p == Tail(f)
<1>1. /\ caller.at \in {"call", "wait"} /\ f # <<>>
      /\ lane' = [lane EXCEPT ![c] = p]
      /\ peers' = peers /\ present' = present /\ stream' = stream /\ active' = active
      /\ clientSession' = clientSession /\ clientPending' = clientPending
      /\ clientOpen' = clientOpen
      /\ \/ /\ h.message = 0 /\ clientTaken' = clientTaken
            /\ caller' = [at |-> "settle", channel |-> c, event |-> h, selected |-> caller.at = "wait"]
         \/ /\ h.message # 0
            /\ clientTaken' = [clientTaken EXCEPT ![c][h.generation] = h.message]
            /\ caller' = Client!Calling
  BY DEF Client!TakeEvent, Client!Settles, Client!Takes, Client!idle, Client!Bye
<1>2. /\ lane \in [Ways -> Seq(Events)] /\ ClientTypes
      /\ \A d \in Ways : \A i \in 1..Len(lane[d]) : lane[d][i].generation <= active
  BY DEF ClientInv, ClientTypes, NoneIsNewer
<1>3. /\ h \in Events /\ h.generation = active
      /\ p \in Seq(Events) /\ Drawn(lane[c], h, p, active)
      /\ \A i \in 1..Len(p) : p[i].generation <= active
  <2>1. lane[c] \in Seq(Events)
    BY <1>2
  <2> QED
    BY <1>1, <1>2, <2>1, FreshDrawn
<1>4. ~Kept /\ ~Kept' /\ \A d \in Ways : Queue(d) = lane[d] /\ Queue(d)' = lane'[d]
  <2>1. clientPending = Client!NoEvent
    BY DEF ClientInv, Durably
  <2> QED
    BY <1>1, <2>1 DEF Kept, Queue, Client!NoEvent, Client!Event, Client!Bye
<1> HIDE DEF f, h, p
<1>5. /\ clientTaken' \in [Ways -> [Peers -> Nat]]
      /\ \A d \in Ways, g \in Peers :
           d # c \/ g # active => clientTaken'[d][g] = clientTaken[d][g]
      /\ clientTaken'[c][active] <= stream[c][active].read
      /\ Ordered(p, active, clientTaken'[c][active], stream[c][active].read)
      /\ Whole(p, active, clientTaken'[c][active], stream[c][active].read)
      /\ clientTaken'[c][active] # clientTaken[c][active] =>
           clientTaken'[c][active] = clientTaken[c][active] + 1
  <2>1. Drawn(Queue(c), h, p, active) /\ Engaged
    BY <1>3, <1>4 DEF Engaged
  <2>2. \/ h.message # 0 /\ clientTaken' = [clientTaken EXCEPT ![c][h.generation] = h.message]
        \/ clientTaken' = clientTaken
    BY <1>1
  <2>3. h.message = 0 \/ clientTaken'[c][active] = h.message
    <3>1. CASE clientTaken' = [clientTaken EXCEPT ![c][h.generation] = h.message]
      <4>1. clientTaken \in [Ways -> [Peers -> Nat]] /\ active \in Peers
        BY <1>2, <1>3 DEF ClientTypes, Events
      <4>2. clientTaken' = [clientTaken EXCEPT ![c] = [clientTaken[c] EXCEPT ![active] = h.message]]
        BY <1>3, <3>1
      <4>3. clientTaken'[c] = [clientTaken[c] EXCEPT ![active] = h.message]
            /\ clientTaken[c] \in [Peers -> Nat]
        BY <4>1, <4>2
      <4> QED
        BY <4>1, <4>3
    <3> QED
      BY <1>1, <3>1
  <2> HIDE DEF ClientInv
  <2> QED
    BY <1>3, <2>1, <2>2, <2>3, DrawnStays
<1>6. /\ lane' \in [Ways -> Seq(Events)] /\ lane'[c] = p
      /\ \A d \in Ways : d # c => lane'[d] = lane[d]
      /\ \A d \in Ways : \A i \in 1..Len(lane'[d]) : lane'[d][i].generation <= active
  BY <1>1, <1>2, <1>3, LaneSet
<1>7. ClientTypes'
  <2>1. caller' \in Calls
    <3>1. (caller.at = "wait") \in BOOLEAN
      OBVIOUS
    <3>2. ASSUME NEW b \in BOOLEAN
          PROVE  [at |-> "settle", channel |-> c, event |-> h, selected |-> b] \in Calls
      BY <1>3 DEF Calls
    <3>3. Client!Calling \in Calls
      BY DEF Calls, Client!Calling, Client!NoEvent, Client!Event, Client!Bye, Ways
    <3>4. [at |-> "settle", channel |-> c, event |-> h, selected |-> caller.at = "wait"] \in Calls
      BY <3>1, <3>2, Zenon
    <3> QED
      BY <1>1, <3>3, <3>4
  <2> QED
    BY <1>1, <1>5, <1>6, <2>1 DEF ClientInv, ClientTypes, Client!NoEvent, Client!Event, Client!Bye
<1>8. NoneIsNewer'
  <2>1. \A d \in Ways, g \in Peers : clientTaken'[d][g] <= stream[d][g].read
    BY <1>5 DEF ClientInv, NoneIsNewer
  <2> QED
    BY <1>1, <1>6, <2>1 DEF ClientInv, NoneIsNewer, Client!NoEvent, Client!Event, Client!Bye
<1>9. InOrder'
  <2>1. active \in Peers /\ active # 0
    BY <1>3 DEF Events, Peers
  <2>2. \A d \in Ways : d # c => clientTaken'[d][active] = clientTaken[d][active] /\ Queue(d)' = Queue(d)
    BY <1>4, <1>5, <1>6, <2>1
  <2>3. Queue(c)' = p /\ Engaged /\ Engaged'
    BY <1>4, <1>6 DEF Engaged
  <2> QED
    BY <1>1, <1>5, <2>1, <2>2, <2>3 DEF ClientInv, InOrder
<1>10. Durably'
  BY <1>1 DEF ClientInv, Durably, Client!NoEvent, Client!Event, Client!Bye
<1>11. LastHeard'
  <2> SUFFICES ASSUME caller'.at = "settle"
               PROVE  /\ caller'.event \in Events
                      /\ \A d \in Ways, g \in Peers :
                           clientTaken'[d][g] > 0 => g <= caller'.event.generation
    BY DEF LastHeard
  <2>1. caller'.event = h /\ clientTaken' = clientTaken
    BY <1>1 DEF Client!Calling
  <2>2. ASSUME NEW d \in Ways, NEW g \in Peers, clientTaken[d][g] > 0
        PROVE  g <= active
    <3>1. clientTaken[d][g] <= stream[d][g].read /\ stream[d][g] \in Streams
          /\ clientTaken[d][g] \in Nat
      <4>1. clientTaken \in [Ways -> [Peers -> Nat]] /\ stream \in [Ways -> [Peers -> Streams]]
        BY <1>2 DEF ClientTypes
      <4> QED
        BY <4>1 DEF ClientInv, NoneIsNewer
    <3>2. stream[d][g].read \in Nat /\ stream[d][g].read # 0
      BY <2>2, <3>1 DEF Streams
    <3> QED
      BY <3>2 DEF ClientInv, NoneIsNewer
  <2> QED
    BY <1>3, <2>1, <2>2
<1> QED
  <2>1. active \in Peers
    BY <1>3 DEF Events
  <2> QED
    BY <1>5, <1>7, <1>8, <1>9, <1>10, <1>11, <2>1 DEF ClientInv

\* Nothing fresh is on a lane that is open: what is there is thrown away.
LEMMA WaitingKeeps ==
    ASSUME ClientInv, component = "client", component' = component, Client!Waits
    PROVE  ClientInv' /\ clientTaken' = clientTaken
<1>1. /\ caller.at \in {"call", "wait"} /\ caller' = [caller EXCEPT !.at = "wait"]
      /\ \A c \in Ways : clientOpen[c] => Client!Fresh(lane[c]) = <<>>
      /\ lane' = [c \in Ways |-> IF clientOpen[c] THEN <<>> ELSE lane[c]]
      /\ peers' = peers /\ present' = present /\ stream' = stream /\ active' = active
      /\ clientSession' = clientSession /\ clientPending' = clientPending
      /\ clientOpen' = clientOpen /\ clientTaken' = clientTaken
  BY DEF Client!Waits, Client!idle, Client!Channels, Ways
<1>2. ClientTypes
  BY DEF ClientInv
<1>3. lane' \in [Ways -> Seq(Events)] /\ \A c \in Ways : lane'[c] = <<>> \/ lane'[c] = lane[c]
  <2>1. lane \in [Ways -> Seq(Events)] /\ <<>> \in Seq(Events)
    BY <1>2 DEF ClientTypes
  <2> QED
    BY <1>1, <2>1
<1>4. caller \in Calls /\ caller' \in Calls /\ caller'.at = "wait"
  BY <1>1, <1>2 DEF ClientTypes, Calls
<1>5. ~Kept /\ ~Kept' /\ \A d \in Ways : Queue(d) = lane[d] /\ Queue(d)' = lane'[d]
  <2>1. clientPending = Client!NoEvent
    BY DEF ClientInv, Durably
  <2> QED
    BY <1>1, <2>1 DEF Kept, Queue, Client!NoEvent, Client!Event, Client!Bye
<1>6. ClientTypes'
  BY <1>1, <1>2, <1>3, <1>4 DEF ClientTypes, Client!NoEvent, Client!Event, Client!Bye
<1>7. NoneIsNewer'
  <2>1. \A d \in Ways : \A i \in 1..Len(lane'[d]) : lane'[d][i].generation <= active
    <3>1. Len(<<>>) = 0
      OBVIOUS
    <3> QED
      BY <1>3, <3>1 DEF ClientInv, NoneIsNewer
  <2> QED
    BY <1>1, <2>1 DEF ClientInv, NoneIsNewer, Client!NoEvent, Client!Event, Client!Bye
<1>8. InOrder'
  <2> SUFFICES ASSUME active # 0, NEW d \in Ways
               PROVE  /\ Ordered(lane'[d], active, clientTaken[d][active], stream[d][active].read)
                      /\ Engaged => Whole(lane'[d], active, clientTaken[d][active], stream[d][active].read)
    BY <1>1, <1>5 DEF InOrder, Engaged
  <2>1. /\ Ordered(lane[d], active, clientTaken[d][active], stream[d][active].read)
        /\ Engaged => Whole(lane[d], active, clientTaken[d][active], stream[d][active].read)
    BY <1>5 DEF ClientInv, InOrder
  <2>2. CASE clientOpen[d]
    <3>1. lane'[d] = <<>> /\ Client!Fresh(lane[d]) = <<>> /\ lane[d] \in Seq(Events)
      BY <1>1, <1>2, <2>2 DEF ClientTypes
    <3>2. active \in Peers
      BY <1>2 DEF ClientTypes, Peers
    <3>3. clientTaken[d][active] \in Nat /\ stream[d][active].read \in Nat
      <4>1. clientTaken \in [Ways -> [Peers -> Nat]] /\ stream[d][active] \in Streams
        BY <1>2, <3>2 DEF ClientTypes
      <4> QED
        BY <3>2, <4>1 DEF Streams
    <3> QED
      BY <2>1, <3>1, <3>3, NoneFresh
  <2>3. CASE ~clientOpen[d]
    <3>1. lane'[d] = lane[d]
      BY <1>1, <2>3
    <3> QED
      BY <2>1, <3>1
  <2> QED
    BY <2>2, <2>3
<1>9. Durably' /\ LastHeard'
  BY <1>1, <1>4 DEF ClientInv, Durably, LastHeard, Client!NoEvent, Client!Event, Client!Bye
<1> QED
  BY <1>1, <1>6, <1>7, <1>8, <1>9 DEF ClientInv

\* A disconnect that waits is passed over, or told.
LEMMA SettlingKeeps ==
    ASSUME ClientInv, component = "client", component' = component,
           Client!Superseded \/ Client!GraceEnds
    PROVE  ClientInv' /\ clientTaken' = clientTaken
<1>1. /\ caller \in Calls /\ clientOpen \in [Ways -> BOOLEAN]
  BY DEF ClientInv, ClientTypes
<1>2. /\ peers' = peers /\ present' = present /\ stream' = stream /\ active' = active
      /\ clientSession' = clientSession /\ clientPending' = clientPending
      /\ lane' = lane /\ clientTaken' = clientTaken
  BY DEF Client!Superseded, Client!GraceEnds, Client!idle
<1>3. clientOpen' \in [Ways -> BOOLEAN]
  <2>1. CASE Client!Superseded
    <3>1. (~caller.selected) \in BOOLEAN
      OBVIOUS
    <3>2. clientOpen' = [clientOpen EXCEPT ![caller.channel] = ~caller.selected]
      BY <2>1 DEF Client!Superseded
    <3> QED
      BY <1>1, <3>1, <3>2
  <2>2. CASE Client!GraceEnds
    BY <1>1, <2>2 DEF Client!GraceEnds
  <2> QED
    BY <2>1, <2>2
<1>4. caller' \in Calls /\ caller'.at # "settle"
  <2>1. CASE Client!Superseded
    <3>1. PICK at \in {"call", "wait"} : caller' = [Client!Calling EXCEPT !.at = at]
      BY <2>1 DEF Client!Superseded
    <3> QED
      BY <3>1 DEF Calls, Client!Calling, Client!NoEvent, Client!Event, Client!Bye, Ways
  <2>2. CASE Client!GraceEnds
    BY <1>1, <2>2 DEF Client!GraceEnds, Calls
  <2> QED
    BY <2>1, <2>2
<1>5. ClientTypes'
  BY <1>2, <1>3, <1>4 DEF ClientInv, ClientTypes, Client!NoEvent, Client!Event, Client!Bye
<1>6. NoneIsNewer'
  BY <1>2 DEF ClientInv, NoneIsNewer, Client!NoEvent, Client!Event, Client!Bye
<1>7. InOrder'
  BY <1>2 DEF ClientInv, InOrder, Queue, Kept, Engaged, Client!NoEvent, Client!Event, Client!Bye
<1>8. Durably' /\ LastHeard'
  BY <1>2, <1>4 DEF ClientInv, Durably, LastHeard, Client!NoEvent, Client!Event, Client!Bye
<1> QED
  BY <1>2, <1>5, <1>6, <1>7, <1>8 DEF ClientInv

-----------------------------------------------------------------------------
(* A host's session.                                                       *)

\* What the host may have taken of the active peer.
LEMMA TakenOf ==
    ASSUME ClientInv, active # 0, NEW d \in Ways
    PROVE  /\ active \in Peers /\ clientTaken[d][active] \in Nat
           /\ stream[d][active].read \in Nat /\ stream[d][active].sent \in Nat
           /\ clientTaken[d][active] <= stream[d][active].read
           /\ stream[d][active].read <= stream[d][active].sent
<1>1. active \in Peers
  BY DEF ClientInv, ClientTypes, Peers
<1>2. clientTaken \in [Ways -> [Peers -> Nat]] /\ stream[d][active] \in Streams
  BY <1>1 DEF ClientInv, ClientTypes
<1> QED
  BY <1>1, <1>2 DEF ClientInv, NoneIsNewer, Streams

\* The control lane: a hello starts a session, which takes what its peer sent;
\* anything else ends it, and what a newer peer sent is kept.
LEMMA ControlKeeps ==
    ASSUME ClientInv, component = "host", component' = component,
           Durable!Listen \/ Durable!ReceiveControl
    PROVE  /\ ClientInv'
           /\ \A d \in Ways, g \in Peers :
                clientTaken'[d][g] # clientTaken[d][g] =>
                  clientTaken'[d][g] = clientTaken[d][g] + 1 /\ g = clientSession'
           /\ clientSession' # clientSession /\ clientSession' # 0 =>
                clientSession' = active /\ \A d \in Ways : clientTaken[d][active] = 0
<1> DEFINE f == Durable!ControlLane
           h == Head(f)
           p == Tail(f)
<1>1. /\ f # <<>> /\ lane' = [lane EXCEPT !["control"] = p]
      /\ peers' = peers /\ present' = present /\ stream' = stream /\ active' = active
      /\ clientOpen' = clientOpen /\ caller' = caller
  BY DEF Durable!Listen, Durable!ReceiveControl, Durable!TakeControl, Durable!host
<1>2. /\ lane \in [Ways -> Seq(Events)] /\ ClientTypes /\ "control" \in Ways /\ "input" \in Ways
      /\ \A d \in Ways : \A i \in 1..Len(lane[d]) : lane[d][i].generation <= active
  BY DEF ClientInv, ClientTypes, NoneIsNewer, Ways
<1>3. /\ f \in Seq(Events) /\ h \in Events /\ h.generation = active
      /\ p \in Seq(Events) /\ Drawn(Queue("control"), h, p, active)
      /\ \A i \in 1..Len(p) : p[i].generation <= active
      /\ \A t \in Nat, r \in Nat :
           Ordered(Queue("control"), active, t, r) => Ordered(f, active, t, r)
  BY <1>1, ControlDrawn DEF ClientInv
<1>4. f = <<h>> \o p
  <2> HIDE DEF f
  <2> QED
    BY <1>1, <1>3
<1>5. \/ /\ h.message # 0 /\ clientTaken' = [clientTaken EXCEPT !["control"][h.generation] = h.message]
         /\ clientPending' = Durable!NoEvent /\ clientSession' = active
         /\ clientSession = active \/ (clientSession = 0 /\ h.message = 1)
      \/ /\ clientTaken' = clientTaken /\ clientSession' = 0
         /\ clientPending' \in {Durable!NoEvent, h}
  <2>1. CASE Durable!Listen
    <3>1. clientSession = 0 /\ Durable!Hears(h)
      BY <2>1 DEF Durable!Listen
    <3> HIDE DEF h
    <3> QED
      BY <1>3, <3>1 DEF Durable!Hears, Durable!Takes
  <2>2. CASE Durable!ReceiveControl
    <3>1. clientSession # 0 /\ Durable!BoundControl(h)
      BY <2>2 DEF Durable!ReceiveControl
    <3>2. clientSession = h.generation => ~(h.generation > clientSession)
      BY <1>2 DEF ClientTypes
    <3> HIDE DEF h
    <3> QED
      BY <1>3, <3>1, <3>2 DEF Durable!BoundControl, Durable!Takes, Durable!Bye
  <2> QED
    BY <2>1, <2>2
<1>6. active # 0 /\ active \in Peers /\ h.message \in Nat /\ active \in 0..ClientPeers
  <2>1. \A x \in Events : x.generation \in Peers /\ x.message \in Nat
    BY DEF Events
  <2> HIDE DEF h
  <2> QED
    BY <1>2, <1>3, <2>1 DEF Peers, ClientTypes
<1>7. Durable!NoEvent = Client!NoEvent
  BY DEF Durable!NoEvent, Client!NoEvent, Client!Event, Durable!Event, Client!Bye, Durable!Bye
<1> HIDE DEF f, h, p
<1>8. /\ clientTaken' \in [Ways -> [Peers -> Nat]]
      /\ \A d \in Ways, g \in Peers :
           d # "control" \/ g # active => clientTaken'[d][g] = clientTaken[d][g]
      /\ clientTaken'["control"][active] <= stream["control"][active].read
      /\ clientTaken'["control"][active] >= clientTaken["control"][active]
      /\ Ordered(p, active, clientTaken'["control"][active], stream["control"][active].read)
      /\ h.message # 0 /\ clientTaken'["control"][active] = h.message =>
           Whole(p, active, clientTaken'["control"][active], stream["control"][active].read)
      /\ clientTaken'["control"][active] # clientTaken["control"][active] =>
           /\ clientTaken'["control"][active] = h.message
           /\ Engaged => h.message = clientTaken["control"][active] + 1
  <2>1. \/ h.message # 0 /\ clientTaken' = [clientTaken EXCEPT !["control"][h.generation] = h.message]
        \/ clientTaken' = clientTaken
    BY <1>5
  <2> HIDE DEF ClientInv
  <2> QED
    BY <1>2, <1>3, <2>1, DrawnStays
<1>9. /\ lane' \in [Ways -> Seq(Events)] /\ lane'["control"] = p /\ lane'["input"] = lane["input"]
      /\ \A d \in Ways : \A i \in 1..Len(lane'[d]) : lane'[d][i].generation <= active
  BY <1>1, <1>2, <1>3, LaneSet
<1>10. /\ clientSession' \in 0..ClientPeers /\ clientSession' <= active
       /\ clientPending' \in Events \cup {Client!NoEvent}
       /\ clientPending' # Client!NoEvent => clientPending' = h
  <2>1. clientSession' = active \/ clientSession' = 0
    BY <1>5
  <2>2. clientPending' \in {Client!NoEvent, h}
    BY <1>5, <1>7
  <2>3. 0 <= active /\ active <= active /\ 0 \in 0..ClientPeers
    BY <1>6, PathsBounds
  <2> QED
    BY <1>3, <1>6, <2>1, <2>2, <2>3
<1>11. clientTaken' = [clientTaken EXCEPT !["control"][h.generation] = h.message] =>
         clientTaken'["control"][active] = h.message
  <2> SUFFICES ASSUME clientTaken' = [clientTaken EXCEPT !["control"][h.generation] = h.message]
               PROVE  clientTaken'["control"][active] = h.message
    OBVIOUS
  <2>1. clientTaken \in [Ways -> [Peers -> Nat]]
    BY <1>2 DEF ClientTypes
  <2>2. clientTaken' = [clientTaken EXCEPT !["control"] = [clientTaken["control"] EXCEPT ![active] = h.message]]
    BY <1>3
  <2>3. /\ clientTaken'["control"] = [clientTaken["control"] EXCEPT ![active] = h.message]
        /\ clientTaken["control"] \in [Peers -> Nat]
    BY <1>2, <2>1, <2>2
  <2> QED
    BY <1>6, <2>3
<1>12. ClientTypes'
  BY <1>1, <1>2, <1>8, <1>9, <1>10 DEF ClientTypes, Client!NoEvent, Client!Event, Client!Bye
<1>13. NoneIsNewer'
  <2>1. \A d \in Ways, g \in Peers : clientTaken'[d][g] <= stream[d][g].read
    BY <1>8 DEF ClientInv, NoneIsNewer
  <2>2. clientPending' # Client!NoEvent => clientPending'.generation <= active
    BY <1>3, <1>6, <1>10
  <2> QED
    BY <1>1, <1>9, <1>10, <2>1, <2>2 DEF ClientInv, NoneIsNewer, Client!NoEvent, Client!Event, Client!Bye
<1>14. /\ clientSession # active /\ clientSession' = active =>
            \A d \in Ways : clientTaken[d][active] = 0 /\ (d = "input" => stream[d][active].read = 0)
       /\ clientTaken'["control"][active] # clientTaken["control"][active] =>
            clientTaken'["control"][active] = clientTaken["control"][active] + 1
  <2>1. \A d \in Ways :
          /\ clientTaken[d][active] \in Nat
          /\ stream[d][active].read \in Nat /\ stream[d][active].sent \in Nat
          /\ clientTaken[d][active] <= stream[d][active].read
          /\ stream[d][active].read <= stream[d][active].sent
    BY <1>6, TakenOf
  <2>2. clientSession = active => Engaged
    BY DEF Engaged
  <2>3. CASE clientSession = active
    BY <1>8, <2>2, <2>3
  <2>4. CASE clientSession # active /\ clientSession' = active
    <3>1. h.message = 1 /\ clientTaken'["control"][active] = 1
      BY <1>5, <1>6, <1>11, <2>4
    <3>2. clientTaken["control"][active] < h.message
      <4>1. Ordered(Queue("control"), active, clientTaken["control"][active], stream["control"][active].read)
        BY <1>2, <1>6 DEF ClientInv, InOrder
      <4> QED
        BY <1>2, <1>3, <2>1, <3>1, <4>1 DEF Drawn
    <3>3. clientTaken["control"][active] = 0
      BY <1>2, <2>1, <3>1, <3>2
    <3>4. stream["input"][active].sent = 0
      <4>1. ~(stream["input"][active].sent > 0)
        BY <1>6, <3>3 DEF ClientInv, Durably
      <4> QED
        BY <1>2, <2>1, <4>1
    <3>5. stream["input"][active].read = 0 /\ clientTaken["input"][active] = 0
      BY <1>2, <2>1, <3>4
    <3> QED
      BY <3>1, <3>3, <3>5 DEF Ways
  <2>5. CASE clientSession' # active
    BY <1>5, <2>5
  <2> QED
    BY <2>3, <2>4, <2>5
<1>15. InOrder'
  <2> DEFINE t(d) == clientTaken'[d][active]
             r(d) == stream[d][active].read
  <2> SUFFICES ASSUME NEW d \in Ways
               PROVE  /\ Ordered(Queue(d)', active, t(d), r(d))
                      /\ clientSession' = active => Whole(Queue(d)', active, t(d), r(d))
    BY <1>1 DEF InOrder, Engaged
  <2>1. CASE d = "input"
    <3>1. Queue(d)' = Queue(d) /\ t(d) = clientTaken[d][active]
      BY <1>6, <1>8, <1>9, <2>1 DEF Queue
    <3>2. Ordered(Queue(d), active, t(d), r(d)) /\ (Engaged => Whole(Queue(d), active, t(d), r(d)))
      BY <1>6, <3>1 DEF ClientInv, InOrder
    <3>3. clientSession # active /\ clientSession' = active => Whole(Queue(d), active, t(d), r(d))
      BY <1>14, <2>1, <3>1 DEF Whole
    <3> QED
      BY <3>1, <3>2, <3>3 DEF Engaged
  <2>2. CASE d = "control" /\ clientPending' = Client!NoEvent
    <3>1. Queue(d)' = p
      <4>1. ~Kept'
        BY <2>2 DEF Kept, Client!NoEvent, Client!Event, Client!Bye
      <4> QED
        BY <1>9, <2>2, <4>1 DEF Queue
    <3>2. clientSession' = active => h.message # 0 /\ t(d) = h.message
      BY <1>5, <1>6, <1>11, <2>2
    <3> QED
      BY <1>8, <2>2, <3>1, <3>2
  <2>3. CASE d = "control" /\ clientPending' # Client!NoEvent
    <3>1. clientPending' = h /\ clientSession' = 0 /\ clientTaken' = clientTaken
      BY <1>5, <1>7, <1>10, <2>3
    <3>2. Queue(d)' = f
      <4>1. Kept'
        BY <1>1, <1>3, <2>3, <3>1 DEF Kept, Client!NoEvent, Client!Event, Client!Bye
      <4> QED
        BY <1>4, <1>9, <2>3, <3>1, <4>1 DEF Queue
    <3>3. Ordered(Queue(d), active, t(d), r(d)) /\ t(d) \in Nat /\ r(d) \in Nat
      BY <1>6, <3>1, TakenOf DEF ClientInv, InOrder
    <3> QED
      BY <1>3, <1>6, <2>3, <3>1, <3>2, <3>3
  <2> QED
    BY <2>1, <2>2, <2>3 DEF Ways
<1>16. Durably'
  <2>1. clientSession' # 0 =>
          clientTaken'["control"][clientSession'] > 0 /\ clientPending' = Client!NoEvent
    BY <1>5, <1>6, <1>7, <1>11
  <2>2. \A g \in Peers : stream["input"][g].sent > 0 => clientTaken'["control"][g] > 0
    <3> SUFFICES ASSUME NEW g \in Peers, stream["input"][g].sent > 0
                 PROVE  clientTaken'["control"][g] > 0
      OBVIOUS
    <3>1. clientTaken["control"][g] > 0
      BY DEF ClientInv, Durably
    <3>2. g # active => clientTaken'["control"][g] = clientTaken["control"][g]
      BY <1>2, <1>8
    <3>3. /\ clientTaken'["control"][active] \in Nat /\ clientTaken["control"][active] \in Nat
          /\ clientTaken'["control"][active] >= clientTaken["control"][active]
      BY <1>2, <1>6, <1>8, TakenOf
    <3> QED
      BY <3>1, <3>2, <3>3
  <2> QED
    BY <1>1, <2>1, <2>2 DEF Durably, Client!NoEvent, Client!Event, Client!Bye
<1>17. LastHeard'
  BY DEF LastHeard
<1>18. \A d \in Ways, g \in Peers :
         clientTaken'[d][g] # clientTaken[d][g] =>
           clientTaken'[d][g] = clientTaken[d][g] + 1 /\ g = clientSession'
  <2> SUFFICES ASSUME NEW d \in Ways, NEW g \in Peers, clientTaken'[d][g] # clientTaken[d][g]
               PROVE  clientTaken'[d][g] = clientTaken[d][g] + 1 /\ g = clientSession'
    OBVIOUS
  <2>1. d = "control" /\ g = active
    BY <1>8
  <2>2. clientSession' = active
    BY <1>5
  <2> QED
    BY <1>14, <2>1, <2>2
<1>19. clientSession' # clientSession /\ clientSession' # 0 =>
         clientSession' = active /\ \A d \in Ways : clientTaken[d][active] = 0
  BY <1>5, <1>14
<1> QED
  BY <1>12, <1>13, <1>15, <1>16, <1>17, <1>18, <1>19 DEF ClientInv

\* The input lane: what its peer sent is the session's, anything else ends it.
LEMMA InputKeeps ==
    ASSUME ClientInv, component = "host", component' = component, Durable!ReceiveInput
    PROVE  /\ ClientInv'
           /\ \A d \in Ways, g \in Peers :
                clientTaken'[d][g] # clientTaken[d][g] =>
                  clientTaken'[d][g] = clientTaken[d][g] + 1 /\ g = clientSession
           /\ clientSession' \in {clientSession, 0}
<1> DEFINE f == Client!Fresh(lane["input"])
           h == Head(f)
           p == Tail(f)
<1>2. /\ lane \in [Ways -> Seq(Events)] /\ ClientTypes /\ "control" \in Ways /\ "input" \in Ways
      /\ \A d \in Ways : \A i \in 1..Len(lane[d]) : lane[d][i].generation <= active
  BY DEF ClientInv, ClientTypes, NoneIsNewer, Ways
<1>1. /\ clientSession # 0 /\ f # <<>> /\ lane' = [lane EXCEPT !["input"] = p]
      /\ peers' = peers /\ present' = present /\ stream' = stream /\ active' = active
      /\ clientOpen' = clientOpen /\ caller' = caller /\ clientPending' = clientPending
      /\ \/ /\ h.generation = clientSession /\ h.message # 0
            /\ clientTaken' = [clientTaken EXCEPT !["input"][h.generation] = h.message]
            /\ clientSession' = clientSession
         \/ clientTaken' = clientTaken /\ clientSession' = 0
  <2>1. f = Durable!Fresh(lane["input"])
    BY <1>2, FreshOf
  <2> HIDE DEF f
  <2> QED
    BY <2>1 DEF Durable!ReceiveInput, Durable!host, Durable!Takes, Durable!Bye
<1>3. /\ h \in Events /\ h.generation = active
      /\ p \in Seq(Events) /\ Drawn(lane["input"], h, p, active)
      /\ \A i \in 1..Len(p) : p[i].generation <= active
  <2>1. lane["input"] \in Seq(Events)
    BY <1>2
  <2> QED
    BY <1>1, <1>2, <2>1, FreshDrawn
<1>6. active # 0 /\ active \in Peers /\ h.message \in Nat /\ active \in 0..ClientPeers
  <2>1. \A x \in Events : x.generation \in Peers /\ x.message \in Nat
    BY DEF Events
  <2> HIDE DEF h
  <2> QED
    BY <1>2, <1>3, <2>1 DEF Peers, ClientTypes
<1> HIDE DEF f, h, p
<1>4. clientPending = Client!NoEvent /\ ~Kept /\ ~Kept'
  <2>1. clientPending = Client!NoEvent
    BY <1>1 DEF ClientInv, Durably
  <2> QED
    BY <1>1, <2>1 DEF Kept, Client!NoEvent, Client!Event, Client!Bye
<1>5. \A d \in Ways : Queue(d) = lane[d] /\ Queue(d)' = lane'[d]
  BY <1>4 DEF Queue
<1>8. /\ clientTaken' \in [Ways -> [Peers -> Nat]]
      /\ \A d \in Ways, g \in Peers :
           d # "input" \/ g # active => clientTaken'[d][g] = clientTaken[d][g]
      /\ clientTaken'["input"][active] <= stream["input"][active].read
      /\ clientTaken'["input"][active] >= clientTaken["input"][active]
      /\ Ordered(p, active, clientTaken'["input"][active], stream["input"][active].read)
      /\ h.message # 0 /\ clientTaken'["input"][active] = h.message =>
           Whole(p, active, clientTaken'["input"][active], stream["input"][active].read)
      /\ clientTaken'["input"][active] # clientTaken["input"][active] =>
           /\ clientTaken'["input"][active] = h.message
           /\ Engaged => h.message = clientTaken["input"][active] + 1
  <2>1. \/ h.message # 0 /\ clientTaken' = [clientTaken EXCEPT !["input"][h.generation] = h.message]
        \/ clientTaken' = clientTaken
    BY <1>1
  <2>2. Drawn(Queue("input"), h, p, active)
    BY <1>2, <1>3, <1>5
  <2> HIDE DEF ClientInv
  <2> QED
    BY <1>2, <1>3, <2>1, <2>2, DrawnStays
<1>9. /\ lane' \in [Ways -> Seq(Events)] /\ lane'["input"] = p /\ lane'["control"] = lane["control"]
      /\ \A d \in Ways : \A i \in 1..Len(lane'[d]) : lane'[d][i].generation <= active
  BY <1>1, <1>2, <1>3, LaneSet
<1>11. clientTaken' = [clientTaken EXCEPT !["input"][h.generation] = h.message] =>
         clientTaken'["input"][active] = h.message
  <2> SUFFICES ASSUME clientTaken' = [clientTaken EXCEPT !["input"][h.generation] = h.message]
               PROVE  clientTaken'["input"][active] = h.message
    OBVIOUS
  <2>1. clientTaken \in [Ways -> [Peers -> Nat]]
    BY <1>2 DEF ClientTypes
  <2>2. clientTaken' = [clientTaken EXCEPT !["input"] = [clientTaken["input"] EXCEPT ![active] = h.message]]
    BY <1>3
  <2>3. /\ clientTaken'["input"] = [clientTaken["input"] EXCEPT ![active] = h.message]
        /\ clientTaken["input"] \in [Peers -> Nat]
    BY <1>2, <2>1, <2>2
  <2> QED
    BY <1>6, <2>3
<1>12. ClientTypes'
  <2>1. clientSession' \in 0..ClientPeers
    BY <1>1, <1>2, PathsBounds DEF ClientTypes
  <2> QED
    BY <1>1, <1>2, <1>8, <1>9, <2>1 DEF ClientTypes, Client!NoEvent, Client!Event, Client!Bye
<1>13. NoneIsNewer'
  <2>1. \A d \in Ways, g \in Peers : clientTaken'[d][g] <= stream[d][g].read
    BY <1>8 DEF ClientInv, NoneIsNewer
  <2>2. clientSession' <= active
    BY <1>1, <1>6 DEF ClientInv, NoneIsNewer
  <2> QED
    BY <1>1, <1>9, <2>1, <2>2 DEF ClientInv, NoneIsNewer, Client!NoEvent, Client!Event, Client!Bye
<1>15. InOrder'
  <2> DEFINE t(d) == clientTaken'[d][active]
             r(d) == stream[d][active].read
  <2> SUFFICES ASSUME NEW d \in Ways
               PROVE  /\ Ordered(Queue(d)', active, t(d), r(d))
                      /\ clientSession' = active => Whole(Queue(d)', active, t(d), r(d))
    BY <1>1 DEF InOrder, Engaged
  <2>0. clientSession' = active => clientSession = active
    BY <1>1, <1>6
  <2>1. CASE d = "control"
    <3>1. Queue(d)' = Queue(d) /\ t(d) = clientTaken[d][active]
      BY <1>5, <1>6, <1>8, <1>9, <2>1
    <3>2. Ordered(Queue(d), active, t(d), r(d)) /\ (Engaged => Whole(Queue(d), active, t(d), r(d)))
      BY <1>6, <3>1 DEF ClientInv, InOrder
    <3> QED
      BY <2>0, <3>1, <3>2 DEF Engaged
  <2>2. CASE d = "input"
    <3>1. Queue(d)' = p
      BY <1>5, <1>9, <2>2
    <3>2. clientSession' = active => h.message # 0 /\ t(d) = h.message
      BY <1>1, <1>6, <1>11, <2>2
    <3> QED
      BY <1>8, <2>2, <3>1, <3>2
  <2> QED
    BY <2>1, <2>2 DEF Ways
<1>16. Durably'
  <2>1. \A g \in Peers : clientTaken'["control"][g] = clientTaken["control"][g]
    BY <1>2, <1>8
  <2>2. clientSession' # 0 => clientTaken'["control"][clientSession'] > 0
    <3>1. clientSession' # 0 => clientSession' = clientSession /\ clientSession \in Peers
      BY <1>1, <1>2 DEF ClientTypes, Peers
    <3>2. clientTaken["control"][clientSession] > 0
      BY <1>1 DEF ClientInv, Durably
    <3> QED
      BY <2>1, <3>1, <3>2
  <2> QED
    BY <1>1, <1>4, <2>1, <2>2 DEF ClientInv, Durably, Client!NoEvent, Client!Event, Client!Bye
<1>17. LastHeard'
  BY DEF LastHeard
<1>18. \A d \in Ways, g \in Peers :
         clientTaken'[d][g] # clientTaken[d][g] =>
           clientTaken'[d][g] = clientTaken[d][g] + 1 /\ g = clientSession
  <2> SUFFICES ASSUME NEW d \in Ways, NEW g \in Peers, clientTaken'[d][g] # clientTaken[d][g]
               PROVE  clientTaken'[d][g] = clientTaken[d][g] + 1 /\ g = clientSession
    OBVIOUS
  <2>1. d = "input" /\ g = active
    BY <1>8
  <2>2. clientSession = active /\ Engaged
    BY <1>1, <1>3 DEF Engaged
  <2> QED
    BY <1>8, <2>1, <2>2
<1> QED
  BY <1>1, <1>12, <1>13, <1>15, <1>16, <1>17, <1>18 DEF ClientInv

\* A session that fails for a reason of its own.
LEMMA FailingKeeps ==
    ASSUME ClientInv, component = "host", component' = component, Durable!SessionFails
    PROVE  ClientInv' /\ clientTaken' = clientTaken /\ clientSession' = 0
<1>1. /\ clientSession' = 0
      /\ peers' = peers /\ present' = present /\ stream' = stream /\ active' = active
      /\ lane' = lane /\ clientOpen' = clientOpen /\ caller' = caller
      /\ clientPending' = clientPending /\ clientTaken' = clientTaken
  BY DEF Durable!SessionFails, Durable!receiving
<1>2. active \in 0..ClientPeers
  BY DEF ClientInv, ClientTypes
<1>3. ClientTypes'
  BY <1>1, PathsBounds DEF ClientInv, ClientTypes, Client!NoEvent, Client!Event, Client!Bye
<1>4. NoneIsNewer'
  BY <1>1, <1>2 DEF ClientInv, NoneIsNewer, Client!NoEvent, Client!Event, Client!Bye
<1>5. InOrder'
  <2>1. active # 0 => ~Engaged'
    BY <1>1 DEF Engaged
  <2>2. \A d \in Ways : Queue(d)' = Queue(d)
    BY <1>1 DEF Queue, Kept, Client!NoEvent, Client!Event, Client!Bye
  <2> QED
    BY <1>1, <2>1, <2>2 DEF ClientInv, InOrder
<1>6. Durably' /\ LastHeard'
  BY <1>1 DEF ClientInv, Durably, LastHeard, Client!NoEvent, Client!Event, Client!Bye
<1> QED
  BY <1>1, <1>3, <1>4, <1>5, <1>6 DEF ClientInv

\* Nothing fresh is on a lane that is waited on: what is there is thrown away.
LEMMA DiscardingKeeps ==
    ASSUME ClientInv, component = "host", component' = component,
           NEW c \in Ways, Durable!Discards(c)
    PROVE  ClientInv' /\ clientTaken' = clientTaken /\ clientSession' = clientSession
<1>1. /\ Durable!Fresh(lane[c]) = <<>> /\ (c = "control" => ~Durable!FromPending)
      /\ lane' = [lane EXCEPT ![c] = <<>>]
      /\ peers' = peers /\ present' = present /\ stream' = stream /\ active' = active
      /\ clientOpen' = clientOpen /\ caller' = caller /\ clientSession' = clientSession
      /\ clientPending' = clientPending /\ clientTaken' = clientTaken
  BY DEF Durable!Discards, Durable!host
<1>2. /\ lane \in [Ways -> Seq(Events)] /\ ClientTypes
      /\ \A d \in Ways : \A i \in 1..Len(lane[d]) : lane[d][i].generation <= active
  BY DEF ClientInv, ClientTypes, NoneIsNewer
<1>3. /\ lane' \in [Ways -> Seq(Events)] /\ lane'[c] = <<>>
      /\ \A d \in Ways : d # c => lane'[d] = lane[d]
      /\ \A d \in Ways : \A i \in 1..Len(lane'[d]) : lane'[d][i].generation <= active
  <2>1. <<>> \in Seq(Events) /\ \A i \in 1..Len(<<>>) : <<>>[i].generation <= active
    OBVIOUS
  <2> QED
    BY <1>1, <1>2, <2>1, LaneSet
<1>4. (Kept' <=> Kept) /\ (Kept <=> Durable!FromPending)
  BY <1>1 DEF Kept, Client!NoEvent, Client!Event, Client!Bye, Durable!FromPending,
              Durable!NoEvent, Durable!Event, Durable!Bye
<1>5. /\ Queue(c) = lane[c] /\ Queue(c)' = <<>>
      /\ \A d \in Ways : d # c => Queue(d)' = Queue(d)
  BY <1>1, <1>3, <1>4 DEF Queue
<1>6. ClientTypes'
  BY <1>1, <1>2, <1>3 DEF ClientTypes, Client!NoEvent, Client!Event, Client!Bye
<1>7. NoneIsNewer'
  BY <1>1, <1>3 DEF ClientInv, NoneIsNewer, Client!NoEvent, Client!Event, Client!Bye
<1>8. InOrder'
  <2> SUFFICES ASSUME active # 0, NEW d \in Ways
               PROVE  /\ Ordered(Queue(d)', active, clientTaken[d][active], stream[d][active].read)
                      /\ Engaged => Whole(Queue(d)', active, clientTaken[d][active], stream[d][active].read)
    BY <1>1 DEF InOrder, Engaged
  <2>1. /\ Ordered(Queue(d), active, clientTaken[d][active], stream[d][active].read)
        /\ Engaged => Whole(Queue(d), active, clientTaken[d][active], stream[d][active].read)
    BY DEF ClientInv, InOrder
  <2>2. CASE d = c
    <3>1. Client!Fresh(lane[d]) = <<>> /\ lane[d] \in Seq(Events)
      BY <1>1, <1>2, <2>2, FreshOf
    <3>2. clientTaken[d][active] \in Nat /\ stream[d][active].read \in Nat
      BY TakenOf
    <3> QED
      BY <1>5, <2>1, <2>2, <3>1, <3>2, NoneFresh
  <2>3. CASE d # c
    BY <1>5, <2>1, <2>3
  <2> QED
    BY <2>2, <2>3
<1>9. Durably' /\ LastHeard'
  BY <1>1 DEF ClientInv, Durably, LastHeard, Client!NoEvent, Client!Event, Client!Bye
<1> QED
  BY <1>1, <1>6, <1>7, <1>8, <1>9 DEF ClientInv

-----------------------------------------------------------------------------

\* What was taken changes only when an event is taken.
LEMMA ReadersKeep ==
    ASSUME ClientInv, component' = component,
           \/ component = "client" /\ Client!Peer(TRUE)
           \/ component = "host" /\ Durable!Peer(clientSession = peers)
           \/ Client!Reader
           \/ Durable!Reader
    PROVE  ClientInv' /\ UNCHANGED <<clientTaken, caller, clientSession>>
<1> USE DEF Ways, Peers, Client!Channels, Client!Generations,
            Durable!Channels, Durable!Generations
<1>1. CASE \/ Client!PeerLeaves \/ Client!PeerJoins
           \/ Durable!PeerLeaves \/ Durable!PeerJoins
  <2>1. ClientInv'
    BY <1>1, PeersKeep
  <2>2. UNCHANGED <<clientTaken, caller, clientSession>>
    BY <1>1 DEF Client!PeerLeaves, Client!PeerJoins, Client!unread,
                Durable!PeerLeaves, Durable!PeerJoins, Durable!unread
  <2> QED
    BY <2>1, <2>2
<1>2. ASSUME NEW c \in Ways,
             \/ Client!PeerSends(c, TRUE) /\ component = "client"
             \/ Durable!PeerSends(c, clientSession = peers) /\ component = "host"
      PROVE  ClientInv' /\ UNCHANGED <<clientTaken, caller, clientSession>>
  <2>1. /\ stream' = [stream EXCEPT ![c][peers].sent = @ + 1]
        /\ peers' = peers /\ present' = present /\ active' = active /\ lane' = lane
        /\ UNCHANGED resting
    BY <1>2 DEF Client!PeerSends, Durable!PeerSends, Client!unread, Durable!unread, resting
  <2>2. c = "input" /\ component = "host" => clientTaken["control"][peers] > 0
    <3>1. c = "input" /\ component = "host" => clientSession = peers /\ peers # 0
      BY <1>2, PathsBounds DEF Durable!PeerSends, ClientInv, ClientTypes
    <3> QED
      BY <3>1 DEF ClientInv, Durably
  <2> QED
    BY <2>1, <2>2, SendingKeeps DEF resting
<1>3. ASSUME NEW c \in Ways, NEW g \in Peers, Client!Reads(c, g) \/ Durable!Reads(c, g)
      PROVE  ClientInv' /\ UNCHANGED <<clientTaken, caller, clientSession>>
  <2>1. ClientInv'
    BY <1>3, HeaderKeeps, ReadingKeeps, EndingKeeps DEF Client!Reads, Durable!Reads
  <2>2. UNCHANGED <<clientTaken, caller, clientSession>>
    BY <1>3 DEF Client!Reads, Client!ReadHeader, Client!ReadMessage, Client!ReadEnd, Client!reader,
                Durable!Reads, Durable!ReadHeader, Durable!ReadMessage, Durable!ReadEnd, Durable!reader
  <2> QED
    BY <2>1, <2>2
<1> QED
  BY <1>1, <1>2, <1>3 DEF Client!Peer, Durable!Peer, Client!Reader, Durable!Reader

\* The events a step of next_event takes.
LEMMA EventStep ==
    ASSUME ClientInv, component = "client", component' = component, Client!EventNext
    PROVE  /\ ClientInv'
           /\ \A d \in Ways, g \in Peers :
                clientTaken'[d][g] # clientTaken[d][g] =>
                  g = active /\ clientTaken'[d][g] = clientTaken[d][g] + 1
<1>1. CASE Client!Peer(TRUE) \/ Client!Reader
  BY <1>1, ReadersKeep
<1>2. CASE Client!NextEvent
  BY <1>2, TakingKeeps, WaitingKeeps, SettlingKeeps DEF Client!NextEvent, Ways, Client!Channels
<1> QED
  BY <1>1, <1>2 DEF Client!EventNext

\* Nothing was taken of a peer that is newer than the active one.
LEMMA HeardIsOld ==
    ASSUME ClientInv, NEW d \in Ways, NEW g \in Peers, clientTaken[d][g] > 0
    PROVE  g <= active
<1>1. clientTaken \in [Ways -> [Peers -> Nat]] /\ stream \in [Ways -> [Peers -> Streams]]
  BY DEF ClientInv, ClientTypes
<1>2. clientTaken[d][g] \in Nat /\ stream[d][g] \in Streams
  BY <1>1
<1>3. stream[d][g].read \in Nat /\ stream[d][g].read # 0
  BY <1>2 DEF Streams, ClientInv, NoneIsNewer
<1> QED
  BY <1>3 DEF ClientInv, NoneIsNewer

\* What a step of next_event does keeps the peers apart.
LEMMA EventsApart ==
    ASSUME ClientInv, component = "client", component' = component, Client!EventNext
    PROVE  Client!KeepsOrder /\ Client!KeepsPeers
<1> USE DEF Ways, Peers, Client!Channels, Client!Generations
<1>1. Client!KeepsOrder
  BY EventStep DEF Client!KeepsOrder
<1>2. Client!KeepsPeers
  <2> SUFFICES ASSUME NEW g \in Peers, NEW h \in Peers, g < h, NEW c \in Ways, clientTaken[c][h] > 0
               PROVE  /\ \A d \in Ways : clientTaken'[d][g] = clientTaken[d][g]
                      /\ ~(caller'.at = "told" /\ caller.at # "told" /\ caller.event.generation = g)
    BY DEF Client!KeepsPeers, Client!Heard
  <2>1. h <= active
    BY HeardIsOld
  <2>2. g # active
    BY <2>1 DEF ClientInv, ClientTypes
  <2>3. \A d \in Ways : clientTaken'[d][g] = clientTaken[d][g]
    BY <2>2, EventStep
  <2>4. ASSUME caller'.at = "told", caller.at # "told", caller.event.generation = g
        PROVE  FALSE
    <3>1. caller.at = "settle"
      <4>1. caller' # caller
        BY <2>4
      <4>2. Client!NextEvent
        BY <4>1, ReadersKeep DEF Client!EventNext
      <4>3. ~(\E d \in Ways : Client!TakeEvent(d))
        BY <2>4 DEF Client!TakeEvent, Client!Settles, Client!Calling
      <4>4. ~Client!Waits
        <5>1. caller \in Calls
          BY DEF ClientInv, ClientTypes
        <5> QED
          BY <2>4, <5>1 DEF Client!Waits, Calls
      <4>5. ~Client!Superseded
        BY <2>4 DEF Client!Superseded, Client!Calling
      <4> QED
        BY <4>2, <4>3, <4>4, <4>5 DEF Client!NextEvent, Client!GraceEnds
    <3>2. h <= caller.event.generation
      BY <3>1 DEF ClientInv, LastHeard
    <3> QED
      BY <2>4, <3>2
  <2> QED
    BY <2>3, <2>4
<1> QED
  BY <1>1, <1>2

\* What a host takes.
LEMMA DurableStep ==
    ASSUME ClientInv, component = "host", component' = component, Durable!HostNext
    PROVE  ClientInv' /\ Durable!KeepsOrder /\ Durable!StaysBound /\ Durable!Ascends
<1> USE DEF Durable!KeepsOrder, Durable!StaysBound, Durable!Ascends, Durable!Heard,
            Ways, Peers, Durable!Channels, Durable!Generations
<1>1. CASE Durable!Peer(clientSession = peers) \/ Durable!Reader
  BY <1>1, ReadersKeep
<1>2. CASE Durable!Listen \/ Durable!ReceiveControl
  <2>1. /\ ClientInv'
        /\ \A d \in Ways, g \in Peers :
             clientTaken'[d][g] # clientTaken[d][g] =>
               clientTaken'[d][g] = clientTaken[d][g] + 1 /\ g = clientSession'
        /\ clientSession' # clientSession /\ clientSession' # 0 =>
             clientSession' = active /\ \A d \in Ways : clientTaken[d][active] = 0
    BY <1>2, ControlKeeps
  <2>2. ASSUME clientSession' # clientSession, clientSession' # 0,
               NEW g \in clientSession'..ClientPeers, NEW d \in Ways, clientTaken[d][g] > 0
        PROVE  FALSE
    <3>1. clientSession' = active /\ clientTaken[d][active] = 0 /\ active \in 0..ClientPeers
      BY <2>1, <2>2 DEF ClientInv, ClientTypes
    <3>2. g \in Peers
      BY <2>2, <3>1
    <3>3. g <= active
      BY <2>2, <3>2, HeardIsOld
    <3> QED
      BY <2>2, <3>1, <3>3
  <2> QED
    BY <2>1, <2>2
<1>3. CASE Durable!ReceiveInput
  BY <1>3, InputKeeps
<1>4. CASE Durable!SessionFails \/ \E c \in Ways : Durable!Discards(c)
  BY <1>4, FailingKeeps, DiscardingKeeps
<1> QED
  BY <1>1, <1>2, <1>3, <1>4 DEF Durable!HostNext, Durable!HostReceives

LEMMA ClientStep ==
    ASSUME ClientInv, [PathsNext]_parts
    PROVE  /\ ClientInv'
           /\ [/\ component = "client" => Client!KeepsOrder /\ Client!KeepsPeers
               /\ component = "host" => Durable!KeepsOrder /\ Durable!StaysBound /\ Durable!Ascends]_parts
<1>1. component' = component
  BY DEF PathsNext, parts
<1>2. CASE component = "client" /\ Client!EventNext
  BY <1>1, <1>2, EventStep, EventsApart
<1>3. CASE component = "host" /\ Durable!HostNext
  BY <1>1, <1>3, DurableStep
<1>4. CASE UNCHANGED clientVars
  <2>1. ClientInv'
    BY <1>1, <1>4 DEF clientVars, ClientInv, ClientTypes, NoneIsNewer, InOrder, Durably, LastHeard,
                      Queue, Kept, Engaged, Client!NoEvent, Client!Event, Client!Bye
  <2>2. Client!KeepsOrder /\ Durable!KeepsOrder /\ Durable!StaysBound /\ Durable!Ascends
    BY <1>4 DEF clientVars, Client!KeepsOrder, Durable!KeepsOrder, Durable!StaysBound, Durable!Ascends
  <2>3. Client!KeepsPeers
    BY <1>4 DEF clientVars, Client!KeepsPeers
  <2> QED
    BY <2>1, <2>2, <2>3
<1> QED
  BY <1>2, <1>3, <1>4 DEF PathsNext, parts

\* Events of the peers, one after the other, keep their order; a host's session
\* is with one peer, and the next with a later one.
THEOREM PeersStayApart == PathsSpec => PeersKeptApart
<1>1. PathsInit => ClientInv
  BY ClientBegins DEF PathsInit
<1>2. ClientInv /\ [PathsNext]_parts => ClientInv'
  BY ClientStep
<1>3. ClientInv /\ [PathsNext]_parts =>
        [/\ component = "client" => Client!KeepsOrder /\ Client!KeepsPeers
         /\ component = "host" => Durable!KeepsOrder /\ Durable!StaysBound /\ Durable!Ascends]_parts
  BY ClientStep
<1> QED
  BY <1>1, <1>2, <1>3, PTL DEF PathsSpec, PeersKeptApart
=============================================================================
