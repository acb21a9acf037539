--------------------------- MODULE AccountSession ---------------------------
(***************************************************************************)
(* The account of the Windows client: operations numbered by the user      *)
(* interface (account-operation.ts, main.ts), handled by commands that run *)
(* concurrently and in any order (AccountManager, account.rs), with the    *)
(* session store on disk and requests to the account service that may be   *)
(* late, lost or answered after the client gave up.                        *)
(*                                                                         *)
(* An operation stages the session it got; the user interface accepts it,  *)
(* which stores it and keeps the former one, and finishes it, which drops  *)
(* the former one; until then a newer operation puts the former one back.  *)
(*                                                                         *)
(* Left out: registration, verification and password mail (they stage      *)
(* nothing), the host restarts in between (HostLifecycle), loads that      *)
(* fail.                                                                   *)
(***************************************************************************)
EXTENDS AccountService

CONSTANTS MaxOps,     \* generations the user interface hands out
          MaxFaults,  \* writes of the store that fail
          MaxCrashes  \* ends of the process

Ops == 1..MaxOps
Absent == -1   \* previous_session is None

VARIABLES
    gen, active, pending, previous,  \* OperationState
    stored,   \* the session on disk
    op,       \* the operations: kind, user, where they are, session, reply
    wire,     \* requests on their way to the service
    cancels,  \* account_cancel_operation commands on their way
    front,    \* AccountOperations.generation
    shown,    \* the session the user interface shows as signed in
    busy,     \* a logout waits for the service
    faults, crashes,
    settled   \* the session confirmed last (history)

owner == <<gen, active, pending, previous, stored, settled>>
ui == <<front, shown, busy>>
vars == <<service, owner, op, wire, cancels, ui, faults, crashes>>

Unused == [kind |-> "none", user |-> None, at |-> "over", session |-> None, reply |-> "none"]
Waits == {"login", "me", "refresh", "again"}
Restore == [Unused EXCEPT !.kind = "restore", !.at = "sent"]
Value == Sessions \cup {None}

TypeOK ==
    /\ ServiceTypeOK
    /\ gen \in 0..MaxOps /\ active \in BOOLEAN
    /\ pending \in Value /\ previous \in Value \cup {Absent} /\ stored \in Value /\ settled \in Value
    /\ op \in [Ops -> [kind : {"none", "login", "restore"}, user : Users \cup {None},
                       at : Waits \cup {"over", "sent", "opened", "signedOut", "staged", "accepting",
                                        "accepted", "finishing", "finished"},
                       session : Value, reply : {"none", "ok", "error"}]]
    /\ \A m \in wire : m.call \in Waits \cup {"logout"} /\ m.of \in 0..MaxOps /\ m.session \in Value /\ m.user \in Users \cup {None}
    /\ cancels \subseteq Ops /\ front \in 0..MaxOps /\ shown \in Value /\ busy \in BOOLEAN
    /\ faults \in 0..MaxFaults /\ crashes \in 0..MaxCrashes

\* The installation was never signed in, or it was before this start; the
\* window opens with a restore.
Init ==
    /\ \/ issued = <<>> /\ stored = None
       \/ \E u \in Users : issued = <<[user |-> u, family |-> 1]>> /\ stored = 1
    /\ rotated = {} /\ revoked = {} /\ expired = {}
    /\ gen = 0 /\ active = FALSE /\ pending = None /\ previous = Absent /\ settled = stored
    /\ op = [[g \in Ops |-> Unused] EXCEPT ![1] = Restore] /\ wire = {} /\ cancels = {}
    /\ front = 1 /\ shown = None /\ busy = FALSE /\ faults = 0 /\ crashes = 0

Current(g) == active /\ gen = g
Goes(g, at) == op' = [op EXCEPT ![g] = IF at = "over" THEN Unused
                                        ELSE [@ EXCEPT !.at = at, !.reply = "none"]]
Fault == faults < MaxFaults /\ faults' = faults + 1

Calls(g, call, s) ==
    /\ op' = [op EXCEPT ![g].at = call, ![g].reply = "none", ![g].session = s]
    /\ wire' = wire \cup {[of |-> g, call |-> call, user |-> op[g].user, session |-> s]}

(* ---------------------------- user interface --------------------------- *)

\* bootstrap: the window is loaded again.
Bootstrap ==
    /\ front < MaxOps /\ front' = front + 1
    /\ op' = [op EXCEPT ![front + 1] = Restore]
    /\ shown' = None /\ busy' = FALSE
    /\ UNCHANGED <<service, owner, wire, cancels, faults, crashes>>

\* submitAccount: the window is loaded and no operation keeps it busy.
Login(u) ==
    /\ shown = None /\ ~busy /\ op[front].at = "over"
    /\ front < MaxOps /\ front' = front + 1
    /\ op' = [op EXCEPT ![front + 1] = [Unused EXCEPT !.kind = "login", !.user = u, !.at = "sent"]]
    /\ UNCHANGED <<service, owner, wire, cancels, shown, busy, faults, crashes>>

\* The user turns to another form, or to local mode: invalidateAccountOperation.
Leave ==
    /\ shown = None /\ ~busy /\ op[front].kind # "restore"
    /\ front < MaxOps /\ front' = front + 1 /\ cancels' = cancels \cup {front + 1}
    /\ UNCHANGED <<service, owner, op, wire, shown, busy, faults, crashes>>

\* A command has returned: the next one is sent if the operation still is the
\* one of the user interface.  A restore that found no session skips accept.
Continues(g) ==
    LET next == CASE op[g].at = "staged" -> "accepting"
                  [] op[g].at \in {"accepted", "signedOut"} -> "finishing"
                  [] OTHER -> "over"
    IN  /\ op[g].at \in {"staged", "signedOut", "accepted", "finished"}
        /\ Goes(g, IF front = g THEN next ELSE "over")
        /\ shown' = IF front = g /\ op[g].at = "finished" THEN op[g].session ELSE shown
        /\ UNCHANGED <<service, owner, wire, cancels, front, busy, faults, crashes>>

(* ---------------------------- AccountManager --------------------------- *)

\* rollback_session: the session kept for that is stored again.
Rollback ==
    /\ stored' = IF previous = Absent THEN stored ELSE previous
    /\ previous' = Absent /\ pending' = None
    /\ UNCHANGED <<settled, faults>>

\* It could not be stored: it is kept for a later attempt.
RollbackFails ==
    /\ previous # Absent /\ Fault
    /\ UNCHANGED <<stored, previous, pending, settled>>

BeginStale(g) ==
    /\ op[g].at = "sent" /\ g <= gen
    /\ Goes(g, "over")
    /\ UNCHANGED <<service, owner, wire, cancels, ui, faults, crashes>>

\* begin_operation, and the login request.
Begin(g) ==
    /\ op[g].at = "sent" /\ g > gen
    /\ gen' = g /\ active' = TRUE /\ Rollback
    /\ IF op[g].kind = "login" THEN Calls(g, "login", None)
       ELSE Goes(g, "opened") /\ UNCHANGED wire
    /\ UNCHANGED <<service, cancels, ui, crashes>>

BeginFails(g) ==
    /\ op[g].at = "sent" /\ g > gen
    /\ gen' = g /\ active' = FALSE /\ RollbackFails /\ Goes(g, "over")
    /\ UNCHANGED <<service, wire, cancels, ui, crashes>>

\* restore loads the session after begin_operation gave the lock back.
Load(g) ==
    /\ op[g].at = "opened"
    /\ IF stored = None THEN Goes(g, "signedOut") /\ UNCHANGED wire ELSE Calls(g, "me", stored)
    /\ UNCHANGED <<service, owner, cancels, ui, faults, crashes>>

\* stage_session.
Stage(g) ==
    /\ IF Current(g) THEN pending' = op[g].session /\ Goes(g, "staged")
       ELSE Goes(g, "over") /\ UNCHANGED pending
    /\ UNCHANGED <<service, gen, active, previous, stored, settled, wire, cancels, ui, faults, crashes>>

\* The operation gives up, or asks on if it still owns the state.
Fails(g) ==
    /\ Goes(g, "over")
    /\ UNCHANGED <<service, owner, wire, cancels, ui, faults, crashes>>
AsksOn(g, call) ==
    /\ IF Current(g) THEN Calls(g, call, op[g].session) ELSE Goes(g, "over") /\ UNCHANGED wire
    /\ UNCHANGED <<service, owner, cancels, ui, faults, crashes>>

Answered(g) ==
    \/ op[g].at \in {"login", "me", "again"} /\ op[g].reply = "ok" /\ Stage(g)
    \/ op[g].at = "me" /\ op[g].reply = "error" /\ AsksOn(g, "refresh")
    \/ op[g].at = "refresh" /\ op[g].reply = "ok" /\ AsksOn(g, "again")
    \/ op[g].at \in {"login", "refresh", "again"} /\ op[g].reply = "error" /\ Fails(g)

\* Fault: the session it replaces is not kept.
AcceptForgets(g) ==
    /\ op[g].at = "accepting"
    /\ IF Current(g) /\ pending # None
       THEN stored' = pending /\ pending' = None /\ \E at \in {"accepted", "over"} : Goes(g, at)
       ELSE Goes(g, "over") /\ UNCHANGED <<pending, stored>>
    /\ UNCHANGED <<service, gen, active, previous, settled, wire, cancels, ui, faults, crashes>>

\* accept_operation; the restart of the host that follows may fail.
Accept(g) ==
    /\ op[g].at = "accepting"
    /\ IF Current(g) /\ pending # None
       THEN /\ previous' = stored /\ stored' = pending /\ pending' = None
            /\ \E at \in {"accepted", "over"} : Goes(g, at)
       ELSE Goes(g, "over") /\ UNCHANGED <<previous, pending, stored>>
    /\ UNCHANGED <<service, gen, active, settled, wire, cancels, ui, faults, crashes>>

AcceptFails(g) ==
    /\ op[g].at = "accepting" /\ Current(g) /\ pending # None /\ Fault
    /\ Goes(g, "over")
    /\ UNCHANGED <<service, owner, wire, cancels, ui, crashes>>

\* finish_operation.
Finish(g) ==
    /\ op[g].at = "finishing"
    /\ IF Current(g)
       THEN /\ previous' = Absent /\ active' = FALSE /\ Goes(g, "finished")
            /\ settled' = IF op[g].session = None THEN settled ELSE stored
       ELSE Goes(g, "over") /\ UNCHANGED <<previous, active, settled>>
    /\ UNCHANGED <<service, gen, pending, stored, wire, cancels, ui, faults, crashes>>

\* cancel_operation.
Cancel(g) ==
    /\ g \in cancels /\ cancels' = cancels \ {g}
    /\ IF g < gen THEN UNCHANGED <<owner, faults>>
       ELSE gen' = g /\ active' = FALSE /\ (Rollback \/ RollbackFails)
    /\ UNCHANGED <<service, op, wire, ui, crashes>>

\* logout: the local part, under the lock, before the request.
Logout ==
    /\ shown # None /\ ~busy
    /\ active' = FALSE /\ pending' = None /\ previous' = Absent
    /\ \/ /\ stored' = None /\ settled' = None /\ busy' = TRUE
          /\ wire' = IF stored = None THEN wire
                     ELSE wire \cup {[of |-> 0, call |-> "logout", user |-> None, session |-> stored]}
          /\ UNCHANGED faults
       \/ Fault /\ UNCHANGED <<stored, settled, busy, wire>>
    /\ UNCHANGED <<service, gen, op, cancels, front, shown, crashes>>

\* The service answered, or twelve seconds are over.
LogoutEnds ==
    /\ busy
    /\ busy' = FALSE /\ shown' = None
    /\ UNCHANGED <<service, owner, op, wire, cancels, front, faults, crashes>>

\* The process ends; the next one starts with an operation state of its own,
\* and what is stored is its session.
Crash ==
    /\ crashes < MaxCrashes /\ crashes' = crashes + 1 /\ front < MaxOps /\ front' = front + 1
    /\ gen' = 0 /\ active' = FALSE /\ pending' = None /\ previous' = Absent /\ settled' = stored
    /\ op' = [[g \in Ops |-> Unused] EXCEPT ![front + 1] = Restore]
    /\ cancels' = {} /\ shown' = None /\ busy' = FALSE
    /\ wire' = {m \in wire : m.call \notin {"me", "again"}}
    /\ UNCHANGED <<service, stored, faults>>

(* ------------------------------ the service ---------------------------- *)

\* The answer m gets, if its operation still waits for it and it is not lost.
Replies(m, reply, s) ==
    op' = IF m.of \in Ops /\ op[m.of].at = m.call /\ op[m.of].reply = "none"
          THEN [op EXCEPT ![m.of].reply = reply,
                          ![m.of].session = IF reply = "ok" THEN s ELSE @]
          ELSE op

Handles(m) ==
    \/ /\ m.call = "login" /\ Len(issued) < MaxSessions
       /\ Create(m.user) /\ Replies(m, "ok", Len(issued) + 1)
    \/ /\ m.call \in {"me", "again"}
       /\ Replies(m, IF Authenticates(m.session) THEN "ok" ELSE "error", m.session)
       /\ UNCHANGED service
    \/ /\ m.call = "refresh" /\ Refreshable(m.session) /\ Len(issued) < MaxSessions
       /\ Rotate(m.session) /\ Replies(m, "ok", Len(issued) + 1)
    \/ /\ m.call = "refresh" /\ ~Refreshable(m.session)
       /\ Replayed(m.session) /\ Replies(m, "error", None)
    \/ m.call = "logout" /\ SignOut(m.session) /\ UNCHANGED op

Serve(m) ==
    /\ Handles(m) /\ wire' = wire \ {m}
    /\ UNCHANGED <<owner, cancels, ui, faults, crashes>>

\* The client no longer waits: the request was lost, is late, or its answer is.
\* One that only reads does nothing when it is late.
Reads(g) == {m \in wire : m.of = g /\ m.call \in {"me", "again"}}
TimesOut(g) ==
    /\ op[g].at \in Waits /\ op[g].reply = "none"
    /\ op' = [op EXCEPT ![g].reply = "error"] /\ wire' = wire \ Reads(g)
    /\ UNCHANGED <<service, owner, cancels, ui, faults, crashes>>

Expires ==
    /\ Expire
    /\ UNCHANGED <<owner, op, wire, cancels, ui, faults, crashes>>

Next ==
    \/ Bootstrap \/ Leave \/ Logout \/ LogoutEnds \/ Crash \/ Expires
    \/ \E u \in Users : Login(u)
    \/ \E g \in Ops :
          \/ Continues(g) \/ BeginStale(g) \/ Begin(g) \/ BeginFails(g) \/ Load(g) \/ Answered(g)
          \/ Accept(g) \/ AcceptFails(g) \/ Finish(g) \/ Cancel(g) \/ TimesOut(g)
    \/ \E m \in wire : Serve(m)

Spec == Init /\ [][Next]_vars

(* ----------------------------- properties ------------------------------ *)

\* Until an operation is finished the session confirmed last is on disk, or is
\* kept for putting it back: no order of commands, answers and failing writes
\* loses it (account.rs 60-67, 131-228).
Retained == (IF previous = Absent THEN stored ELSE previous) = settled

\* The session the user interface shows is the one on disk, whatever commands
\* of former operations are still on their way (main.ts 403-460, 2446-2467).
ShownIsStored == shown # None /\ ~busy => stored = shown

\* The operation the user interface waits for owns the state until it ends:
\* commands of former operations that arrive late take nothing from it
\* (account.rs 149-178).
NewestOwns == [][Current(front) /\ front' = front => gen' = front]_vars

\* What the owner of the state has in hand, staged or stored.
Owned == {stored, pending} \cup {op[g].session : g \in {h \in Ops : Current(h)}}

\* "A late logout response must never erase a newer login", and the late
\* request does not revoke one either (account.rs 376-405).
LogoutSpares ==
    [][\A m \in wire : m.call = "logout" /\ Serve(m) => (revoked' \ revoked) \cap Owned = {}]_vars

\* late_first_login_cannot_replace_a_completed_retry (account.rs 756): the
\* session a completed login shows is not revoked.
ShownIsAlive == shown # None /\ ~busy => shown \notin revoked

\* login_is_pending_until_accepted_and_cancel_restores_prior_session
\* (account.rs 646): what a newer operation puts back still serves.
CancelRestores ==
    [][(previous \in Sessions /\ previous' = Absent /\ stored' = previous) => stored' \notin revoked]_vars

\* "Retain the old session until the frontend confirms workspace ownership"
\* (account.rs 65): a process that ends before has not kept the new one.
UnconfirmedIsNotKept == [][crashes' # crashes => stored = settled]_vars

\* Logging out removes the registration of the device (docs/account-login.md
\* 14): a logout the service handles revokes the session.
LogoutRevokes == [][\A m \in wire : m.call = "logout" /\ Serve(m) => m.session \in revoked']_vars
=============================================================================
