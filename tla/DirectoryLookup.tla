--------------------------- MODULE DirectoryLookup ---------------------------
(***************************************************************************)
(* The failure limit of directory lookups (lookup_directory in             *)
(* server/relay/src/lib.rs).  A lookup reads the clock once, then takes    *)
(* three critical sections: it checks the failures of its key, asks the    *)
(* directory, and forgets or counts.  Lookups of different connections     *)
(* run at the same time, so the counts a lookup acts on may be old, and so *)
(* may its own reading of the clock.                                       *)
(*                                                                         *)
(* What the directory holds is RelayMembership's: here it may answer       *)
(* anything, and "found" is any answer to the right access code, a         *)
(* protocol mismatch included.                                             *)
(***************************************************************************)
EXTENDS Integers, FiniteSets

CONSTANTS
    Lookup,         \* connections, each with one lookup at a time
    Key,            \* pairs of a source address and a device
    FailureLimit,   \* DIRECTORY_LOOKUP_FAILURE_LIMIT
    Window,         \* DIRECTORY_LOOKUP_WINDOW, in ticks
    MaxAttempts,    \* MAX_DIRECTORY_LOOKUP_ATTEMPTS
    MaxCount,       \* the largest u8
    MaxTime,        \* bound of the clock
    MaxMisses       \* bound of the failures one key can meet

ASSUME LookupAssumption == IsFiniteSet(Lookup) /\ IsFiniteSet(Key)
ASSUME LimitsAssumption ==
    /\ FailureLimit \in Nat \ {0} /\ Window \in Nat \ {0} /\ MaxAttempts \in Nat \ {0}
    /\ MaxCount \in Nat /\ MaxCount >= FailureLimit
    /\ MaxTime \in Nat /\ MaxMisses \in Nat

VARIABLES
    attempts,   \* RelayState::lookup_attempts
    clock,
    pc,         \* where the lookup of each connection is, or its last answer
    key,
    now,        \* the instant it read when it began
    misses      \* history: how many lookups of a key failed at each instant

lookups == <<pc, key, now>>
vars    == <<attempts, clock, pc, key, now, misses>>

Time == 0..MaxTime

NoAttempt == [started |-> 0, failures |-> 0, seen |-> 0]
Attempt   == [started : Time, failures : 1..MaxCount, seen : Time]

Counted(t) == {k \in Key : t[k] # NoAttempt}

\* Lookups past their check, before they forget or count.
Running == {"read", "forget", "count"}
Answered == {"found", "missing", "limited"}

TypeOK ==
    /\ attempts \in [Key -> Attempt \cup {NoAttempt}]
    /\ clock \in Time
    /\ pc \in [Lookup -> {"idle", "check"} \cup Running \cup Answered]
    /\ key \in [Lookup -> Key]
    /\ now \in [Lookup -> Time]
    /\ \A l \in Lookup : now[l] <= clock
    /\ misses \in [Key -> [Time -> Nat]]

Init ==
    /\ attempts = [k \in Key |-> NoAttempt]
    /\ clock = 0
    /\ pc = [l \in Lookup |-> "idle"]
    /\ key \in [Lookup -> Key]
    /\ now = [l \in Lookup |-> 0]
    /\ misses = [k \in Key |-> [t \in Time |-> 0]]

Goto(l, point) == pc' = [pc EXCEPT ![l] = point]

\* Fault: the window is measured from the last failure.
PastLast(k, t) == attempts[k] # NoAttempt /\ t - attempts[k].seen >= Window

Past(k, t) == attempts[k] # NoAttempt /\ t - attempts[k].started >= Window

\* expire_lookup_attempts
Current(t) == [k \in Key |-> IF Past(k, t) THEN NoAttempt ELSE attempts[k]]

\* Fault: a full table is only pruned once it is over its limit.
PrunedLate(t) ==
    LET kept == Current(t)
        full == Counted(kept)
        oldest == {k \in full : \A x \in full : kept[k].seen <= kept[x].seen}
    IN  IF Cardinality(full) <= MaxAttempts
          THEN {kept}
          ELSE {[kept EXCEPT ![k] = NoAttempt] : k \in oldest}

\* prune_lookup_attempts: of keys last seen together any may be the one to go
\* (the order of a HashMap).
Pruned(t) ==
    LET kept == Current(t)
        full == Counted(kept)
        oldest == {k \in full : \A x \in full : kept[k].seen <= kept[x].seen}
    IN  IF Cardinality(full) < MaxAttempts
          THEN {kept}
          ELSE {[kept EXCEPT ![k] = NoAttempt] : k \in oldest}

Begin(l, k) ==
    /\ pc[l] \in {"idle"} \cup Answered
    /\ key' = [key EXCEPT ![l] = k]
    /\ now' = [now EXCEPT ![l] = clock]
    /\ Goto(l, "check")
    /\ UNCHANGED <<attempts, clock, misses>>

Check(l) ==
    /\ pc[l] = "check"
    /\ attempts' = Current(now[l])
    /\ Goto(l, IF attempts'[key[l]].failures >= FailureLimit THEN "limited" ELSE "read")
    /\ UNCHANGED <<clock, key, now, misses>>

Read(l) ==
    /\ pc[l] = "read"
    /\ \E next \in {"forget", "count"} : Goto(l, next)
    /\ UNCHANGED <<attempts, clock, key, now, misses>>

Forget(l) ==
    /\ pc[l] = "forget"
    /\ attempts' = [attempts EXCEPT ![key[l]] = NoAttempt]
    /\ Goto(l, "found")
    /\ UNCHANGED <<clock, key, now, misses>>

\* The record after one more failure; "or_insert" makes one that starts now.
OneMore(attempt, t) ==
    IF attempt = NoAttempt \/ t - attempt.started >= Window
      THEN [started |-> t, failures |-> 1, seen |-> t]
      ELSE [started  |-> attempt.started,
            failures |-> IF attempt.failures < MaxCount THEN attempt.failures + 1 ELSE MaxCount,
            seen     |-> t]

Count(l) ==
    LET k == key[l]
    IN  /\ pc[l] = "count"
        /\ misses[k][clock] < MaxMisses
        /\ \E t \in IF attempts[k] = NoAttempt THEN Pruned(now[l]) ELSE {attempts} :
              attempts' = [t EXCEPT ![k] = OneMore(t[k], now[l])]
        /\ misses' = [misses EXCEPT ![k][clock] = @ + 1]
        /\ Goto(l, "missing")
        /\ UNCHANGED <<clock, key, now>>

Tick ==
    /\ clock < MaxTime
    /\ clock' = clock + 1
    /\ UNCHANGED <<attempts, lookups, misses>>

Next ==
    \/ \E l \in Lookup :
          \/ \E k \in Key : Begin(l, k)
          \/ Check(l) \/ Read(l) \/ Forget(l) \/ Count(l)
    \/ Tick

Spec == Init /\ [][Next]_vars
-----------------------------------------------------------------------------
(* Properties. *)

(* However many keys are tried at once, and whatever clock each lookup goes  *)
(* by, the table of failures never outgrows MAX_DIRECTORY_LOOKUP_ATTEMPTS.   *)
AttemptsBounded == Cardinality(Counted(attempts)) <= MaxAttempts

(* Lookups that passed the check together may all fail: the failures of a    *)
(* key exceed the limit by no more than the lookups that can run at once.    *)
OvershootBounded ==
    \A k \in Key : attempts[k].failures <= FailureLimit - 1 + Cardinality(Lookup)

(* However lookups overlap, the table and the failures of every key stay     *)
(* within their bounds.                                                      *)
DirectoryBounded == TypeOK /\ AttemptsBounded /\ OvershootBounded

\* The failures of a key later than an instant, as its history has them.
Failures(k, after) ==
    {f \in Time \X (1..MaxMisses) : f[1] > after /\ f[2] <= misses[k][f[1]]}

(* A lookup is refused for its key's own failures of the last window only:   *)
(* neither those of another key or of an earlier window, nor a clock read    *)
(* before another lookup's, hold it back.                                    *)
RefusalIsEarned ==
    \A l \in Lookup :
        pc[l] = "limited" => FailureLimit <= Cardinality(Failures(key[l], now[l] - Window))
-----------------------------------------------------------------------------
(* The inductive strengthening the proofs use. *)

Pending(k) == {l \in Lookup : pc[l] \in Running /\ key[l] = k}

\* What a key may still come to: its failures and the lookups that may add one.
OvershootAccounted ==
    \A k \in Key :
        attempts[k].failures + Cardinality(Pending(k)) <= FailureLimit - 1 + Cardinality(Lookup)

IInv == TypeOK /\ AttemptsBounded /\ OvershootAccounted

\* Every failure a key is charged with happened since its record was started.
FailuresAccounted ==
    \A k \in Key :
        attempts[k] # NoAttempt =>
            /\ attempts[k].started <= clock
            /\ attempts[k].failures <= Cardinality(Failures(k, attempts[k].started - 1))
=============================================================================
