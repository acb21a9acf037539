------------------------- MODULE RelayTraffic_proofs -------------------------
(***************************************************************************)
(* What the relay does for its connections beside their sessions. The      *)
(* table of lookup failures is bounded, and so is what a key can exceed    *)
(* its limit by, and a refusal rests on failures of its own window, for    *)
(* any number of keys and concurrent lookups. Streams and datagrams are    *)
(* those of RelayForwarding_proofs and RelayDatagrams_proofs, here in the  *)
(* behaviours of MCRelayTraffic.                                           *)
(***************************************************************************)
EXTENDS MCRelayTraffic, FiniteSetTheorems, TLAPS

Table == [Key -> Attempt \cup {NoAttempt}]

-----------------------------------------------------------------------------
(* What the helpers return. *)

LEMMA Counts ==
    ASSUME NEW a \in Attempt \cup {NoAttempt}
    PROVE  a.failures \in Nat /\ a.started \in Nat
  BY LimitsAssumption DEF Attempt, NoAttempt, Time

(* One more failure is a record again, and adds at most one.                 *)
LEMMA OneMoreAttempt ==
    ASSUME NEW a \in Attempt \cup {NoAttempt}, NEW t \in Time
    PROVE  /\ OneMore(a, t) \in Attempt
           /\ OneMore(a, t).failures <= a.failures + 1
<1> USE LimitsAssumption DEF OneMore, Attempt, NoAttempt, Time
<1>1. CASE a = NoAttempt \/ t - a.started >= Window
  BY <1>1
<1>2. CASE ~(a = NoAttempt \/ t - a.started >= Window)
  BY <1>2
<1> QED
  BY <1>1, <1>2

LEMMA CurrentTable ==
    ASSUME TypeOK, NEW t \in Time
    PROVE  /\ Current(t) \in Table
           /\ \A k \in Key : Current(t)[k] \in {attempts[k], NoAttempt}
           /\ Counted(Current(t)) \subseteq Counted(attempts)
  BY DEF TypeOK, Table, Current, Counted

LEMMA CountedFinite ==
    ASSUME NEW t
    PROVE  IsFiniteSet(Counted(t)) /\ Cardinality(Counted(t)) \in Nat
<1>1. Counted(t) \subseteq Key
  BY DEF Counted
<1> QED
  BY <1>1, LookupAssumption, FS_Subset, FS_CardinalityType

(* Pruning leaves room for one more key.                                     *)
LEMMA PrunedTable ==
    ASSUME TypeOK, AttemptsBounded, NEW t \in Time, NEW u \in Pruned(t)
    PROVE  /\ u \in Table
           /\ \A k \in Key : u[k] \in {attempts[k], NoAttempt}
           /\ Cardinality(Counted(u)) < MaxAttempts
<1> DEFINE kept == Current(t)
           full == Counted(kept)
<1>1. /\ kept \in Table /\ \A k \in Key : kept[k] \in {attempts[k], NoAttempt}
      /\ full \subseteq Counted(attempts)
  BY CurrentTable
<1>2. /\ IsFiniteSet(full) /\ Cardinality(full) \in Nat
      /\ Cardinality(full) <= MaxAttempts
  <2>1. Cardinality(full) <= Cardinality(Counted(attempts))
    BY <1>1, CountedFinite, FS_Subset
  <2> QED
    BY <2>1, CountedFinite, LimitsAssumption DEF AttemptsBounded
<1>3. CASE Cardinality(full) < MaxAttempts
  <2>1. u = kept
    BY <1>3 DEF Pruned
  <2> QED
    BY <1>1, <1>3, <2>1
<1>4. CASE ~(Cardinality(full) < MaxAttempts)
  <2>1. PICK k \in full : u = [kept EXCEPT ![k] = NoAttempt]
    BY <1>4 DEF Pruned
  <2>2. k \in Key
    BY DEF Counted
  <2> HIDE DEF kept, full
  <2>3. u \in Table /\ \A x \in Key : u[x] = IF x = k THEN NoAttempt ELSE kept[x]
    BY <1>1, <2>1, <2>2 DEF Table
  <2>4. Counted(u) = full \ {k}
    BY <2>2, <2>3 DEF Counted, full
  <2>5. Cardinality(full \ {k}) = Cardinality(full) - 1
    BY <1>2, FS_RemoveElement
  <2> QED
    BY <1>1, <1>2, <2>3, <2>4, <2>5, LimitsAssumption
<1> QED
  BY <1>3, <1>4

LEMMA PendingFinite ==
    ASSUME NEW k \in Key
    PROVE  /\ IsFiniteSet(Pending(k)) /\ Cardinality(Pending(k)) \in Nat
           /\ Cardinality(Pending(k)) <= Cardinality(Lookup)
           /\ Cardinality(Lookup) \in Nat
<1>1. Pending(k) \subseteq Lookup
  BY DEF Pending
<1> QED
  BY <1>1, LookupAssumption, FS_Subset, FS_CardinalityType

LEMMA PendingFinitePrimed ==
    ASSUME NEW k \in Key
    PROVE  /\ IsFiniteSet(Pending(k)') /\ Cardinality(Pending(k)') \in Nat
           /\ Cardinality(Pending(k)') <= Cardinality(Lookup)
<1>1. Pending(k)' \subseteq Lookup
  BY DEF Pending
<1> QED
  BY <1>1, LookupAssumption, FS_Subset, FS_CardinalityType

(* What a failure writes.                                                    *)
LEMMA CountWrites ==
    ASSUME TypeOK, AttemptsBounded, NEW l \in Lookup, Count(l)
    PROVE  /\ attempts' \in Table
           /\ \A k \in Key \ {key[l]} : attempts'[k] \in {attempts[k], NoAttempt}
           /\ attempts'[key[l]].failures <= attempts[key[l]].failures + 1
           /\ Cardinality(Counted(attempts')) <= MaxAttempts
<1>1. PICK t \in IF attempts[key[l]] = NoAttempt THEN Pruned(now[l]) ELSE {attempts} :
         attempts' = [t EXCEPT ![key[l]] = OneMore(t[key[l]], now[l])]
  BY DEF Count
<1>2. key[l] \in Key /\ now[l] \in Time /\ attempts \in Table
  BY DEF TypeOK, Table
<1>3. /\ t \in Table
      /\ \A k \in Key : t[k] \in {attempts[k], NoAttempt}
      /\ t[key[l]] = attempts[key[l]]
      /\ Cardinality(Counted(t) \cup {key[l]}) <= MaxAttempts
  <2>1. CASE attempts[key[l]] = NoAttempt
    <3>1. /\ t \in Table /\ \A k \in Key : t[k] \in {attempts[k], NoAttempt}
          /\ Cardinality(Counted(t)) < MaxAttempts
      BY <1>1, <1>2, <2>1, PrunedTable
    <3>2. Cardinality(Counted(t) \cup {key[l]}) <= Cardinality(Counted(t)) + 1
      BY SMTT(30), CountedFinite, FS_AddElement
    <3>3. Cardinality(Counted(t) \cup {key[l]}) \in Nat
      BY CountedFinite, FS_AddElement, FS_CardinalityType
    <3> QED
      BY <1>2, <2>1, <3>1, <3>2, <3>3, CountedFinite, LimitsAssumption
  <2>2. CASE attempts[key[l]] # NoAttempt
    <3>1. t = attempts
      BY <1>1, <2>2
    <3>2. Counted(t) \cup {key[l]} = Counted(t)
      BY <1>2, <2>2, <3>1 DEF Counted
    <3> QED
      BY <1>2, <3>1, <3>2 DEF AttemptsBounded
  <2> QED
    BY <2>1, <2>2
<1>4. /\ OneMore(t[key[l]], now[l]) \in Attempt
      /\ OneMore(t[key[l]], now[l]).failures <= t[key[l]].failures + 1
  BY <1>2, <1>3, OneMoreAttempt DEF Table
<1>5. /\ attempts' \in Table
      /\ \A k \in Key : attempts'[k] = IF k = key[l] THEN OneMore(t[k], now[l]) ELSE t[k]
  BY <1>1, <1>2, <1>3, <1>4 DEF Table
<1>6. Cardinality(Counted(attempts')) <= MaxAttempts
  <2>1. Counted(attempts') \subseteq Counted(t) \cup {key[l]}
    BY <1>5 DEF Counted
  <2>2. IsFiniteSet(Counted(t) \cup {key[l]})
    BY CountedFinite, FS_AddElement
  <2>3. Cardinality(Counted(attempts')) <= Cardinality(Counted(t) \cup {key[l]})
    BY <2>1, <2>2, FS_Subset
  <2> QED
    BY <1>3, <2>2, <2>3, CountedFinite, FS_CardinalityType, LimitsAssumption
<1> QED
  BY <1>2, <1>3, <1>4, <1>5, <1>6

-----------------------------------------------------------------------------
(* The inductive invariant. *)

LEMMA TypeStep ==
    ASSUME IInv, [Next]_vars
    PROVE  TypeOK'
<1> USE LimitsAssumption DEF IInv, TypeOK, Goto, Time
<1>1. ASSUME NEW l \in Lookup, NEW k \in Key, Begin(l, k) PROVE TypeOK'
  <2>1. /\ attempts' = attempts /\ clock' = clock /\ misses' = misses
        /\ pc' = [pc EXCEPT ![l] = "check"]
        /\ key' = [key EXCEPT ![l] = k] /\ now' = [now EXCEPT ![l] = clock]
    BY <1>1 DEF Begin
  <2>2. now' \in [Lookup -> Time] /\ \A x \in Lookup : now'[x] <= clock
    BY <2>1
  <2> QED
    BY <2>1, <2>2
<1>2. ASSUME NEW l \in Lookup, Check(l) PROVE TypeOK'
  <2>1. now[l] \in Time
    OBVIOUS
  <2>2. attempts' \in Table
    BY <1>2, <2>1, CurrentTable DEF Check
  <2> QED
    BY <1>2, <2>2 DEF Check, Table, Running, Answered
<1>3. ASSUME NEW l \in Lookup, Read(l) PROVE TypeOK'
  BY <1>3 DEF Read, Running
<1>4. ASSUME NEW l \in Lookup, Forget(l) PROVE TypeOK'
  BY <1>4 DEF Forget, Answered
<1>5. ASSUME NEW l \in Lookup, Count(l) PROVE TypeOK'
  <2>1. attempts' \in Table
    BY <1>5, CountWrites
  <2>2. misses' \in [Key -> [Time -> Nat]]
    BY <1>5 DEF Count
  <2> QED
    BY <1>5, <2>1, <2>2 DEF Count, Table, Answered
<1>6. ASSUME Tick PROVE TypeOK'
  BY <1>6 DEF Tick, lookups
<1>7. ASSUME UNCHANGED vars PROVE TypeOK'
  BY <1>7 DEF vars
<1> QED
  BY <1>1, <1>2, <1>3, <1>4, <1>5, <1>6, <1>7 DEF Next

LEMMA BoundStep ==
    ASSUME IInv, [Next]_vars
    PROVE  AttemptsBounded'
<1> USE DEF IInv
<1>1. ASSUME Counted(attempts') \subseteq Counted(attempts)
      PROVE  AttemptsBounded'
  <2>1. Cardinality(Counted(attempts')) <= Cardinality(Counted(attempts))
    BY <1>1, CountedFinite, FS_Subset
  <2> QED
    BY <2>1, CountedFinite, LimitsAssumption DEF AttemptsBounded
<1>2. ASSUME NEW l \in Lookup, Check(l) PROVE AttemptsBounded'
  <2>1. now[l] \in Time
    BY DEF TypeOK
  <2> QED
    BY <1>1, <1>2, <2>1, CurrentTable DEF Check
<1>3. ASSUME NEW l \in Lookup, Forget(l) PROVE AttemptsBounded'
  BY <1>1, <1>3 DEF Forget, Counted, TypeOK
<1>4. ASSUME NEW l \in Lookup, Count(l) PROVE AttemptsBounded'
  BY <1>4, CountWrites DEF AttemptsBounded
<1>5. CASE attempts' = attempts
  BY <1>1, <1>5
<1> QED
  BY <1>2, <1>3, <1>4, <1>5 DEF Next, Begin, Read, Tick, vars

LEMMA OvershootStep ==
    ASSUME IInv, [Next]_vars
    PROVE  OvershootAccounted'
<1> USE DEF IInv
<1>t. /\ attempts \in Table /\ attempts' \in Table /\ pc \in [Lookup -> {"idle", "check"} \cup Running \cup Answered]
      /\ key \in [Lookup -> Key] /\ now \in [Lookup -> Time]
  BY TypeStep DEF TypeOK, Table
<1>n. \A k \in Key : attempts[k].failures \in Nat /\ attempts'[k].failures \in Nat
  BY <1>t, Counts DEF Table
<1>0. ASSUME NEW k \in Key, Pending(k)' \subseteq Pending(k),
             attempts'[k].failures <= attempts[k].failures
      PROVE  attempts'[k].failures + Cardinality(Pending(k)')
                <= FailureLimit - 1 + Cardinality(Lookup)
  <2>1. Cardinality(Pending(k)') <= Cardinality(Pending(k))
    BY <1>0, PendingFinite, FS_Subset
  <2> QED
    BY <1>0, <1>n, <2>1, PendingFinite, PendingFinitePrimed, LimitsAssumption
       DEF OvershootAccounted
<1>1. ASSUME NEW l \in Lookup, NEW x \in Key, Begin(l, x) PROVE OvershootAccounted'
  <2>1. \A k \in Key : Pending(k)' = Pending(k)
    BY <1>1, <1>t DEF Begin, Goto, Pending, Running, Answered
  <2> QED
    BY <1>0, <1>1, <1>n, <2>1 DEF Begin, OvershootAccounted
<1>2. ASSUME NEW l \in Lookup, Check(l) PROVE OvershootAccounted'
  <2>1. \A k \in Key : attempts'[k] \in {attempts[k], NoAttempt}
    BY <1>2, <1>t, CurrentTable DEF Check
  <2>2. \A k \in Key : attempts'[k].failures <= attempts[k].failures
    BY <2>1, <1>n DEF NoAttempt
  <2>3. ASSUME NEW k \in Key
        PROVE  attempts'[k].failures + Cardinality(Pending(k)')
                  <= FailureLimit - 1 + Cardinality(Lookup)
    <3>1. CASE k # key[l] \/ pc'[l] # "read"
      <4>1. Pending(k)' \subseteq Pending(k)
        BY <1>2, <1>t, <3>1 DEF Check, Goto, Pending, Running
      <4> QED
        BY <1>0, <2>2, <4>1
    <3>2. CASE k = key[l] /\ pc'[l] = "read"
      <4>1. ~(attempts'[k].failures >= FailureLimit)
        BY <1>2, <1>t, <3>2 DEF Check, Goto
      <4> QED
        BY <1>n, <4>1, PendingFinite, PendingFinitePrimed, LimitsAssumption
    <3> QED
      BY <3>1, <3>2
  <2> QED
    BY <2>3 DEF OvershootAccounted
<1>3. ASSUME NEW l \in Lookup, Read(l) PROVE OvershootAccounted'
  <2>1. \A k \in Key : Pending(k)' = Pending(k)
    BY <1>3, <1>t DEF Read, Goto, Pending, Running
  <2> QED
    BY <1>0, <1>3, <1>n, <2>1 DEF Read, OvershootAccounted
<1>4. ASSUME NEW l \in Lookup, Forget(l) PROVE OvershootAccounted'
  <2>1. \A k \in Key : Pending(k)' \subseteq Pending(k)
    BY <1>4, <1>t DEF Forget, Goto, Pending, Running
  <2>2. \A k \in Key : attempts'[k].failures <= attempts[k].failures
    BY <1>4, <1>t, <1>n DEF Forget, NoAttempt, Table
  <2> QED
    BY <1>0, <2>1, <2>2 DEF OvershootAccounted
<1>5. ASSUME NEW l \in Lookup, Count(l) PROVE OvershootAccounted'
  <2>1. ASSUME NEW k \in Key, k # key[l]
        PROVE  attempts'[k].failures + Cardinality(Pending(k)')
                  <= FailureLimit - 1 + Cardinality(Lookup)
    <3>1. Pending(k)' \subseteq Pending(k)
      BY <1>5, <1>t DEF Count, Goto, Pending, Running
    <3>2. attempts'[k] \in {attempts[k], NoAttempt}
      BY <1>5, <2>1, CountWrites
    <3>3. attempts'[k].failures <= attempts[k].failures
      BY <3>2, <1>n DEF NoAttempt
    <3> QED
      BY <1>0, <3>1, <3>3
  <2>2. ASSUME NEW k \in Key, k = key[l]
        PROVE  attempts'[k].failures + Cardinality(Pending(k)')
                  <= FailureLimit - 1 + Cardinality(Lookup)
    <3>1. Pending(k)' = Pending(k) \ {l} /\ l \in Pending(k)
      BY <1>5, <1>t, <2>2 DEF Count, Goto, Pending, Running
    <3>2. Cardinality(Pending(k)') = Cardinality(Pending(k)) - 1
      BY <3>1, PendingFinite, FS_RemoveElement
    <3>3. attempts'[k].failures <= attempts[k].failures + 1
      BY <1>5, <2>2, CountWrites
    <3> QED
      BY <1>n, <3>2, <3>3, PendingFinite, LimitsAssumption DEF OvershootAccounted
  <2> QED
    BY <2>1, <2>2 DEF OvershootAccounted
<1>6. ASSUME Tick \/ UNCHANGED vars PROVE OvershootAccounted'
  <2>1. \A k \in Key : Pending(k)' = Pending(k)
    BY <1>6 DEF Tick, lookups, vars, Pending
  <2> QED
    BY <1>0, <1>6, <1>n, <2>1 DEF Tick, vars, OvershootAccounted
<1> QED
  BY <1>1, <1>2, <1>3, <1>4, <1>5, <1>6 DEF Next

LEMMA InitHolds == Init => IInv
<1> SUFFICES ASSUME Init PROVE IInv
  OBVIOUS
<1>1. TypeOK
  BY LimitsAssumption DEF Init, TypeOK, Time
<1>2. Counted(attempts) = {}
  BY DEF Init, Counted
<1>3. AttemptsBounded
  BY <1>2, FS_EmptySet, LimitsAssumption DEF AttemptsBounded
<1>4. \A k \in Key : attempts[k].failures = 0
  BY DEF Init, NoAttempt
<1>5. OvershootAccounted
  BY <1>4, PendingFinite, LimitsAssumption DEF OvershootAccounted
<1> QED
  BY <1>1, <1>3, <1>5 DEF IInv

\* The inductive invariant holds in every reachable state of the lookups.
THEOREM LookupInvariance == Spec => []IInv
<1>1. IInv /\ [Next]_vars => IInv'
  BY TypeStep, BoundStep, OvershootStep DEF IInv
<1> QED
  BY InitHolds, <1>1, PTL DEF Spec

(* Type correctness of the lookups; no lookup reads a clock that is ahead.   *)
THEOREM LookupTypes == Spec => []TypeOK
  BY LookupInvariance, PTL DEF IInv

(* The table of failures never outgrows its limit.                           *)
THEOREM TableIsBounded == Spec => []AttemptsBounded
  BY LookupInvariance, PTL DEF IInv

(* The failures of a key exceed the limit by no more than the lookups that   *)
(* can run at once.                                                          *)
THEOREM OvershootIsBounded == Spec => []OvershootBounded
<1>1. IInv => OvershootBounded
  <2> SUFFICES ASSUME IInv, NEW k \in Key
               PROVE  attempts[k].failures <= FailureLimit - 1 + Cardinality(Lookup)
    BY DEF OvershootBounded
  <2>1. attempts[k].failures \in Nat
    BY Counts DEF IInv, TypeOK
  <2> QED
    BY <2>1, PendingFinite, LimitsAssumption DEF IInv, OvershootAccounted
<1> QED
  BY LookupInvariance, <1>1, PTL

(* What the run checks, in one piece.                                        *)
THEOREM DirectoryStaysBounded == Spec => []DirectoryBounded
<1>1. TypeOK /\ AttemptsBounded /\ OvershootBounded => DirectoryBounded
  BY DEF DirectoryBounded
<1> QED
  BY <1>1, LookupTypes, TableIsBounded, OvershootIsBounded, PTL

-----------------------------------------------------------------------------
(* What a refusal rests on. *)

\* Every failure a key was charged with is one that was met; each is finite.
LEMMA FailuresFinite ==
    ASSUME NEW k, NEW t
    PROVE  /\ IsFiniteSet(Failures(k, t)) /\ Cardinality(Failures(k, t)) \in Nat
           /\ IsFiniteSet(Failures(k, t)') /\ Cardinality(Failures(k, t)') \in Nat
<1>1. IsFiniteSet(Time) /\ IsFiniteSet(1..MaxMisses)
  BY FS_Interval, LimitsAssumption DEF Time
<1>2. IsFiniteSet(Time \X (1..MaxMisses))
  BY <1>1, FS_Product
<1>3. /\ Failures(k, t) \subseteq Time \X (1..MaxMisses)
      /\ Failures(k, t)' \subseteq Time \X (1..MaxMisses)
  BY DEF Failures
<1> QED
  BY <1>2, <1>3, FS_Subset, FS_CardinalityType

\* None is ever taken back, and those of a longer time are more.
LEMMA FailuresKept ==
    ASSUME TypeOK, TypeOK', NEW k \in Key,
           \A u \in Time : misses[k][u] <= misses'[k][u],
           NEW t \in Int, NEW s \in Int, s <= t
    PROVE  Cardinality(Failures(k, t)) <= Cardinality(Failures(k, s)')
<1>1. \A u \in Time : misses[k][u] \in Nat /\ misses'[k][u] \in Nat
  BY DEF TypeOK
<1>2. Failures(k, t) \subseteq Failures(k, s)'
  BY <1>1 DEF Failures, Time
<1> QED
  BY <1>2, FailuresFinite, FS_Subset

\* What a failure writes to the record of its key.
LEMMA CountWritesOne ==
    ASSUME TypeOK, AttemptsBounded, NEW l \in Lookup, Count(l)
    PROVE  attempts'[key[l]] = OneMore(attempts[key[l]], now[l])
<1>1. PICK t \in IF attempts[key[l]] = NoAttempt THEN Pruned(now[l]) ELSE {attempts} :
         attempts' = [t EXCEPT ![key[l]] = OneMore(t[key[l]], now[l])]
  BY DEF Count
<1>2. key[l] \in Key /\ now[l] \in Time /\ attempts \in Table
  BY DEF TypeOK, Table
<1>3. t \in Table /\ t[key[l]] = attempts[key[l]]
  <2>1. CASE attempts[key[l]] = NoAttempt
    BY <1>1, <1>2, <2>1, PrunedTable
  <2>2. CASE attempts[key[l]] # NoAttempt
    BY <1>1, <1>2, <2>2
  <2> QED
    BY <2>1, <2>2
<1> QED
  BY <1>1, <1>2, <1>3 DEF Table

LEMMA MissesGrow ==
    ASSUME TypeOK, [Next]_vars
    PROVE  \A k \in Key : \A u \in Time : misses[k][u] <= misses'[k][u]
<1>1. \A k \in Key : \A u \in Time : misses[k][u] \in Nat
  BY DEF TypeOK
<1>2. CASE misses' = misses
  BY <1>1, <1>2
<1>3. ASSUME NEW l \in Lookup, Count(l)
      PROVE  \A k \in Key : \A u \in Time : misses[k][u] <= misses'[k][u]
  <2>1. misses' = [misses EXCEPT ![key[l]] = [misses[key[l]] EXCEPT ![clock] = misses[key[l]][clock] + 1]]
    BY <1>3 DEF Count
  <2>2. misses \in [Key -> [Time -> Nat]]
    BY DEF TypeOK
  <2>3. \A k \in Key : \A u \in Time :
          misses'[k][u] = IF k = key[l] /\ u = clock THEN misses[k][u] + 1 ELSE misses[k][u]
    BY <2>1, <2>2
  <2> QED
    BY <1>1, <2>3
<1> QED
  BY <1>2, <1>3 DEF Next, Begin, Check, Read, Forget, Tick, vars, lookups

\* A record says no more than what its key has met since it was started.
LEMMA AccountedStep ==
    ASSUME IInv, TypeOK', FailuresAccounted, [Next]_vars
    PROVE  FailuresAccounted'
<1>1. TypeOK /\ TypeOK' /\ AttemptsBounded
  BY DEF IInv
<1>2. attempts \in Table /\ attempts' \in Table /\ clock \in Time /\ clock' \in Time
  BY <1>1 DEF TypeOK, Table
<1>3. clock <= clock'
  <2>1. clock' = clock \/ clock' = clock + 1
    BY DEF Next, Begin, Check, Read, Forget, Count, Tick, vars
  <2> QED
    BY <1>2, <2>1 DEF Time
<1>4. SUFFICES ASSUME NEW k \in Key, attempts'[k] # NoAttempt,
                      NEW s, s = attempts'[k].started
               PROVE  s <= clock' /\ attempts'[k].failures <= Cardinality(Failures(k, s - 1)')
  BY DEF FailuresAccounted, Failures
<1>5. s \in Time /\ s \in Nat /\ s - 1 \in Int /\ attempts'[k].failures \in Nat
  BY <1>2, <1>4, LimitsAssumption DEF Table, Attempt, Time
<1>6. \A u \in Time : misses[k][u] <= misses'[k][u]
  BY <1>1, MissesGrow
<1>7. /\ Cardinality(Failures(k, s - 1)) <= Cardinality(Failures(k, s - 1)')
      /\ Cardinality(Failures(k, s - 1)) \in Nat /\ Cardinality(Failures(k, s - 1)') \in Nat
  <2>1. s - 1 <= s - 1
    BY <1>5
  <2> DEFINE x == s - 1
  <2> HIDE DEF x
  <2>2. x \in Int /\ x <= x
    BY <1>5, <2>1 DEF x
  <2>3. Cardinality(Failures(k, x)) <= Cardinality(Failures(k, x)')
    BY <1>1, <1>6, <2>2, FailuresKept
  <2> QED
    BY <2>3, FailuresFinite DEF x
<1>8. CASE attempts'[k] = attempts[k]
  <2>1. s <= clock /\ attempts'[k].failures <= Cardinality(Failures(k, s - 1))
    BY <1>4, <1>8 DEF FailuresAccounted
  <2> QED
    BY <1>2, <1>3, <1>5, <1>7, <2>1 DEF Time
<1>9. ASSUME attempts'[k] # attempts[k]
      PROVE  s <= clock' /\ attempts'[k].failures <= Cardinality(Failures(k, s - 1)')
  <2>1. PICK l \in Lookup : Count(l) /\ k = key[l]
    <3>1. \A l \in Lookup : Check(l) => attempts'[k] \in {attempts[k], NoAttempt}
      BY <1>1, CurrentTable DEF Check, TypeOK
    <3>2. \A l \in Lookup : Forget(l) => attempts'[k] \in {attempts[k], NoAttempt}
      BY <1>2 DEF Forget, Table
    <3>3. \A l \in Lookup : Count(l) /\ k # key[l] => attempts'[k] \in {attempts[k], NoAttempt}
      BY <1>1, CountWrites
    <3>4. \A l \in Lookup : ~Check(l) /\ ~Forget(l)
      BY <1>4, <1>9, <3>1, <3>2
    <3>5. ~Tick /\ ~UNCHANGED vars /\ \A l \in Lookup : ~Read(l) /\ \A j \in Key : ~Begin(l, j)
      BY <1>9 DEF Tick, vars, Read, Begin
    <3>6. PICK l \in Lookup : Count(l)
      BY <3>4, <3>5 DEF Next
    <3> QED
      BY <1>4, <1>9, <3>3, <3>6
  <2>2. attempts'[k] = OneMore(attempts[k], now[l])
    BY <1>1, <2>1, CountWritesOne
  <2>3. /\ now[l] \in Time /\ now[l] <= clock /\ clock' = clock
        /\ misses[k][clock] \in Nat /\ misses[k][clock] + 1 \in 1..MaxMisses
        /\ misses' = [misses EXCEPT ![k] = [misses[k] EXCEPT ![clock] = misses[k][clock] + 1]]
    <3>1. misses[k][clock] < MaxMisses /\ clock' = clock
          /\ misses' = [misses EXCEPT ![k] = [misses[k] EXCEPT ![clock] = misses[k][clock] + 1]]
      BY <2>1 DEF Count
    <3>2. now[l] \in Time /\ now[l] <= clock /\ misses[k][clock] \in Nat
      BY <1>1, <1>2 DEF TypeOK
    <3> QED
      BY <3>1, <3>2, LimitsAssumption
  <2>4. misses'[k] = [misses[k] EXCEPT ![clock] = misses[k][clock] + 1] /\ misses[k] \in [Time -> Nat]
    BY <1>1, <2>3 DEF TypeOK
  <2>5. misses'[k][clock] = misses[k][clock] + 1
    BY <1>2, <2>4
  <2> DEFINE one == <<clock, misses[k][clock] + 1>>
  <2>6. \A u \in Int : u < clock => one \in Failures(k, u)' /\ one \notin Failures(k, u)
    BY <1>2, <2>3, <2>5 DEF Failures
  <2>7. s <= clock =>
          /\ one \in Failures(k, s - 1)' /\ one \notin Failures(k, s - 1)
          /\ Failures(k, s - 1) \subseteq Failures(k, s - 1)'
    <3>1. s <= clock => s - 1 < clock
      BY <1>2, <1>5 DEF Time
    <3>2. Failures(k, s - 1) \subseteq Failures(k, s - 1)'
      <4>1. \A u \in Time : misses[k][u] \in Nat /\ misses'[k][u] \in Nat
        BY <1>1 DEF TypeOK
      <4> QED
        BY <1>6, <4>1 DEF Failures
    <3> HIDE DEF one
    <3> QED
      BY <1>5, <2>6, <3>1, <3>2
  <2> HIDE DEF one
  <2>8. s <= clock =>
          Cardinality(Failures(k, s - 1)) + 1 <= Cardinality(Failures(k, s - 1)')
    <3> SUFFICES ASSUME s <= clock
                 PROVE  Cardinality(Failures(k, s - 1)) + 1 <= Cardinality(Failures(k, s - 1)')
      OBVIOUS
    <3> DEFINE old == Failures(k, s - 1)
               new == Failures(k, s - 1)'
    <3>1. IsFiniteSet(old) /\ IsFiniteSet(new)
      BY FailuresFinite
    <3>2. one \in new /\ one \notin old /\ old \subseteq new
      BY <2>7
    <3> HIDE DEF old, new
    <3>3. Cardinality(old \cup {one}) = Cardinality(old) + 1 /\ IsFiniteSet(old \cup {one})
      BY <3>1, <3>2, FS_AddElement
    <3>4. Cardinality(old \cup {one}) <= Cardinality(new)
      BY <3>1, <3>2, FS_Subset
    <3> QED
      BY <3>3, <3>4 DEF old, new
  <2>9. CASE attempts[k] = NoAttempt \/ now[l] - attempts[k].started >= Window
    <3>1. s = now[l] /\ attempts'[k].failures = 1
      BY <1>4, <2>2, <2>9 DEF OneMore
    <3> QED
      BY <1>2, <1>7, <2>3, <2>8, <3>1 DEF Time
  <2>10. CASE ~(attempts[k] = NoAttempt \/ now[l] - attempts[k].started >= Window)
    <3>1. s = attempts[k].started /\ attempts[k].failures \in Nat
          /\ attempts'[k].failures <= attempts[k].failures + 1
      <4>1. attempts[k] \in Attempt \cup {NoAttempt}
        BY <1>2 DEF Table
      <4>2. attempts'[k].failures <= attempts[k].failures + 1
        BY <2>2, <2>3, <4>1, OneMoreAttempt
      <4>3. s = attempts[k].started
        BY <1>4, <2>2, <2>10 DEF OneMore
      <4> QED
        BY <4>1, <4>2, <4>3, Counts
    <3>2. s <= clock /\ attempts[k].failures <= Cardinality(Failures(k, s - 1))
      BY <2>10, <3>1 DEF FailuresAccounted
    <3> QED
      BY <1>5, <1>7, <2>3, <2>8, <3>1, <3>2
  <2> QED
    BY <2>9, <2>10
<1> QED
  BY <1>8, <1>9

\* A lookup is refused for what its key met within its window.
LEMMA RefusalStep ==
    ASSUME IInv, TypeOK', FailuresAccounted, RefusalIsEarned, [Next]_vars
    PROVE  RefusalIsEarned'
<1>1. TypeOK /\ TypeOK'
  BY DEF IInv
<1>2. /\ pc \in [Lookup -> {"idle", "check"} \cup Running \cup Answered]
      /\ key \in [Lookup -> Key] /\ now \in [Lookup -> Time] /\ attempts \in Table
  BY <1>1 DEF TypeOK, Table
<1>3. SUFFICES ASSUME NEW l \in Lookup, pc'[l] = "limited",
                      NEW k, k = key'[l], NEW n, n = now'[l]
               PROVE  FailureLimit <= Cardinality(Failures(k, n - Window)')
  BY DEF RefusalIsEarned, Failures
<1>6. key[l] = k /\ now[l] = n
  BY <1>2, <1>3 DEF Next, Begin, Check, Read, Forget, Count, Tick, vars, lookups, Goto
<1>4. k \in Key /\ n \in Time /\ n \in Int /\ n - Window \in Int
  BY <1>2, <1>6, LimitsAssumption DEF Time
<1>5. \A u \in Time : misses[k][u] <= misses'[k][u]
  BY <1>1, <1>4, MissesGrow
<1>7. \A t \in Int : n - Window <= t =>
        /\ Cardinality(Failures(k, t)) <= Cardinality(Failures(k, n - Window)')
        /\ Cardinality(Failures(k, t)) \in Nat /\ Cardinality(Failures(k, n - Window)') \in Nat
  <2> DEFINE x == n - Window
  <2>1. x \in Int
    BY <1>4
  <2> HIDE DEF x
  <2>2. \A t \in Int : x <= t => Cardinality(Failures(k, t)) <= Cardinality(Failures(k, x)')
    BY <1>1, <1>4, <1>5, <2>1, FailuresKept
  <2> QED
    BY <2>2, FailuresFinite DEF x
<1>8. CASE pc[l] = "limited"
  <2>1. FailureLimit <= Cardinality(Failures(k, n - Window))
    BY <1>6, <1>8 DEF RefusalIsEarned
  <2>2. n - Window <= n - Window
    BY <1>4
  <2> QED
    BY <1>4, <1>6, <1>7, <2>1, <2>2, LimitsAssumption
<1>9. CASE pc[l] # "limited"
  <2>1. Check(l)
    BY <1>2, <1>3, <1>9 DEF Next, Begin, Check, Read, Forget, Count, Tick, vars, lookups, Goto
  <2>2. Current(n)[k].failures >= FailureLimit
    <3>1. attempts' = Current(n) /\ pc' = [pc EXCEPT ![l] =
                        IF attempts'[k].failures >= FailureLimit THEN "limited" ELSE "read"]
      BY <1>6, <2>1 DEF Check, Goto
    <3> QED
      BY <1>2, <1>3, <3>1
  <2>3. attempts[k] # NoAttempt /\ ~(n - attempts[k].started >= Window)
        /\ attempts[k].failures >= FailureLimit
    <3>1. Current(n)[k] = IF Past(k, n) THEN NoAttempt ELSE attempts[k]
      BY <1>4 DEF Current
    <3>2. ~(NoAttempt.failures >= FailureLimit)
      BY LimitsAssumption DEF NoAttempt
    <3> QED
      BY <2>2, <3>1, <3>2 DEF Past
  <2> DEFINE t == attempts[k].started - 1
  <2>4. t \in Int /\ n - Window <= t /\ attempts[k].failures \in Nat
    BY <1>2, <1>4, <2>3, Counts, LimitsAssumption DEF Table
  <2>5. attempts[k].failures <= Cardinality(Failures(k, t))
    BY <1>4, <2>3 DEF FailuresAccounted
  <2> HIDE DEF t
  <2> QED
    BY <1>6, <1>7, <2>3, <2>4, <2>5, LimitsAssumption
<1> QED
  BY <1>8, <1>9

\* A lookup is refused for its key's own failures of the last window only.
THEOREM RefusalStaysEarned == Spec => []RefusalIsEarned
<1>1. Init => FailuresAccounted /\ RefusalIsEarned
  BY DEF Init, FailuresAccounted, RefusalIsEarned
<1>2. IInv /\ IInv' /\ FailuresAccounted /\ RefusalIsEarned /\ [Next]_vars =>
        FailuresAccounted' /\ RefusalIsEarned'
  <2>1. IInv' => TypeOK'
    BY DEF IInv
  <2> QED
    BY <2>1, AccountedStep, RefusalStep
<1> QED
  BY <1>1, <1>2, LookupInvariance, PTL DEF Spec

-----------------------------------------------------------------------------
(*             The forwarding and the datagrams, as the run has them       *)

\* The component a behaviour is of, as the temporal steps have it.
IsPair == component = "pair"
IsBurst == component = "burst"

\* A behaviour stays with the component it began with, and is one of its behaviours.
LEMMA PairedBehaviour ==
    TrafficSpec => ([]IsPair /\ Paired!Spec) \/ ([](~IsPair) /\ Forwarding!Spec)
<1>1. TrafficInit /\ IsPair => Paired!Init
  BY DEF TrafficInit, IsPair
<1>2. TrafficInit /\ ~IsPair => Forwarding!Init
  BY DEF TrafficInit, IsPair
<1>3. IsPair /\ [TrafficNext]_parts => IsPair' /\ [Paired!Next]_(Paired!vars)
  BY DEF TrafficNext, parts, forwardingVars, Paired!vars, Paired!joined, Paired!slots, IsPair
<1>4. ~IsPair /\ [TrafficNext]_parts => ~IsPair' /\ [Forwarding!Next]_(Forwarding!vars)
  BY DEF TrafficNext, parts, forwardingVars, Forwarding!vars, Forwarding!joined,
         Forwarding!slots, IsPair
<1> QED
  BY <1>1, <1>2, <1>3, <1>4, PTL DEF TrafficSpec, Paired!Spec, Forwarding!Spec

LEMMA BurstBehaviour ==
    TrafficSpec => ([]IsBurst /\ Burst!Spec) \/ ([](~IsBurst) /\ Media!Spec)
<1>1. TrafficInit /\ IsBurst => Burst!Init
  BY DEF TrafficInit, IsBurst
<1>2. TrafficInit /\ ~IsBurst => Media!Init
  BY DEF TrafficInit, IsBurst
<1>3. IsBurst /\ [TrafficNext]_parts => IsBurst' /\ [Burst!Next]_(Burst!vars)
  BY DEF TrafficNext, parts, mediaVars, Burst!vars, Burst!joined, Burst!slots,
         Burst!lanes, IsBurst
<1>4. ~IsBurst /\ [TrafficNext]_parts => ~IsBurst' /\ [Media!Next]_(Media!vars)
  BY DEF TrafficNext, parts, mediaVars, Media!vars, Media!joined, Media!slots,
         Media!lanes, IsBurst
<1> QED
  BY <1>1, <1>2, <1>3, <1>4, PTL DEF TrafficSpec, Burst!Spec, Media!Spec

\* A message of a stream that names a generation goes to that connection only, a
\* host's stream to one, each message in order and once, to a connection that was the
\* peer since it was read, and by no task that outlives its connection.
THEOREM StreamsReachTheirPeer == TrafficSpec => []ForwardedToPeer
<1>1. Paired!ForwardingConstants /\ Forwarding!ForwardingConstants
  BY TrafficConstants
<1>2. Paired!Spec => [](Paired!TypeOK /\ Paired!NoOrphanForwarder /\ Paired!PairedDelivery)
  <2>1. Paired!Spec => []Paired!TypeOK
    BY <1>1, Paired!StreamTypes
  <2>2. Paired!Spec => []Paired!NoOrphanForwarder
    BY <1>1, Paired!NoneForwardsAlone
  <2>3. Paired!Spec => []Paired!PairedDelivery
    BY <1>1, Paired!PeersWerePaired
  <2> QED
    BY <2>1, <2>2, <2>3, PTL
<1>3. Forwarding!Spec =>
        [](/\ Forwarding!TypeOK /\ Forwarding!AddressedDelivery /\ Forwarding!HostStreamBound
           /\ Forwarding!InOrderOnce /\ Forwarding!PairedDelivery
           /\ Forwarding!NoOrphanForwarder)
  <2>1. Forwarding!Spec => []Forwarding!TypeOK
    BY <1>1, Forwarding!StreamTypes
  <2>2. Forwarding!Spec => []Forwarding!AddressedDelivery
    BY <1>1, Forwarding!AddressedStays
  <2>3. Forwarding!Spec => []Forwarding!HostStreamBound
    BY <1>1, Forwarding!HostStaysBound
  <2>4. Forwarding!Spec => []Forwarding!InOrderOnce
    BY <1>1, Forwarding!OrderIsKept
  <2>5. Forwarding!Spec => []Forwarding!PairedDelivery
    BY <1>1, Forwarding!PeersWerePaired
  <2>6. Forwarding!Spec => []Forwarding!NoOrphanForwarder
    BY <1>1, Forwarding!NoneForwardsAlone
  <2> QED
    BY <2>1, <2>2, <2>3, <2>4, <2>5, <2>6, PTL
<1>4. IsPair /\ Paired!TypeOK /\ Paired!NoOrphanForwarder /\ Paired!PairedDelivery
        => ForwardedToPeer
  BY DEF ForwardedToPeer, IsPair
<1>5. ~IsPair
        /\ Forwarding!TypeOK /\ Forwarding!AddressedDelivery /\ Forwarding!HostStreamBound
        /\ Forwarding!InOrderOnce /\ Forwarding!PairedDelivery /\ Forwarding!NoOrphanForwarder
      => ForwardedToPeer
  BY DEF ForwardedToPeer, IsPair
<1> QED
  BY <1>2, <1>3, <1>4, <1>5, PairedBehaviour, PTL

\* A datagram is sent to the connection it was bound to when it came, in the order of
\* its channel and once, out of a queue that stays within its budget.
THEOREM DatagramsReachTheirPeer == TrafficSpec => []DatagramsToPeer
<1>1. Burst!DatagramConstants /\ Media!DatagramConstants
  BY TrafficConstants
<1>2. Burst!Spec => [](Burst!TypeOK /\ Burst!LaneBudget /\ Burst!LaneOrder)
  <2>1. Burst!Spec => []Burst!TypeOK
    BY <1>1, Burst!DatagramTypes
  <2>2. Burst!Spec => []Burst!LaneBudget
    BY <1>1, Burst!ChannelBudget
  <2>3. Burst!Spec => []Burst!LaneOrder
    BY <1>1, Burst!ChannelOrder
  <2> QED
    BY <2>1, <2>2, <2>3, PTL
<1>3. Media!Spec => [](/\ Media!TypeOK /\ Media!NeverReaddressed /\ Media!QueuedForPeer
                       /\ Media!LaneOrder /\ Media!LaneBudget)
  <2>1. Media!Spec => []Media!TypeOK
    BY <1>1, Media!DatagramTypes
  <2>2. Media!Spec => []Media!NeverReaddressed
    BY <1>1, Media!AddressKept
  <2>3. Media!Spec => []Media!QueuedForPeer
    BY <1>1, Media!PeerAtDequeue
  <2>4. Media!Spec => []Media!LaneOrder
    BY <1>1, Media!ChannelOrder
  <2>5. Media!Spec => []Media!LaneBudget
    BY <1>1, Media!ChannelBudget
  <2> QED
    BY <2>1, <2>2, <2>3, <2>4, <2>5, PTL
<1>4. IsBurst /\ Burst!TypeOK /\ Burst!LaneBudget /\ Burst!LaneOrder
        => DatagramsToPeer
  BY DEF DatagramsToPeer, IsBurst
<1>5. ~IsBurst
        /\ Media!TypeOK /\ Media!NeverReaddressed /\ Media!QueuedForPeer
        /\ Media!LaneOrder /\ Media!LaneBudget
      => DatagramsToPeer
  BY DEF DatagramsToPeer, IsBurst
<1> QED
  BY <1>2, <1>3, <1>4, <1>5, BurstBehaviour, PTL
=============================================================================
