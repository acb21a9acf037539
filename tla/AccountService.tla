--------------------------- MODULE AccountService ---------------------------
(***************************************************************************)
(* The sessions of the account service (session-service.ts, store.ts): a   *)
(* session is a row with one access and one refresh token, of a user on    *)
(* this installation.  A login revokes what the user had on this device, a *)
(* refresh rotates a row into the next one of its family, a rotated token  *)
(* that is shown again revokes the family.                                 *)
(*                                                                         *)
(* One device.  Disabled users, password resets, revocation from another   *)
(* device and the thirty days of a refresh token are left out.             *)
(***************************************************************************)
EXTENDS Integers, Sequences

CONSTANTS Users, MaxSessions   \* MaxSessions bounds the rows the service creates

None == 0

VARIABLES
    issued,   \* the rows: user and family of each session
    rotated,  \* rotated_at is set
    revoked,  \* revoked_at is set
    expired   \* the access token has run out

service == <<issued, rotated, revoked, expired>>

Sessions == DOMAIN issued
OfUser(u) == {s \in Sessions : issued[s].user = u}
Family(s) == {t \in Sessions : issued[t].family = issued[s].family}

ServiceTypeOK ==
    /\ issued \in Seq([user : Users, family : 1..MaxSessions]) /\ Len(issued) <= MaxSessions
    /\ rotated \subseteq Sessions /\ revoked \subseteq Sessions /\ expired \subseteq Sessions

\* authenticate: an unrevoked row whose access token is still good; a rotated
\* one passes.
Authenticates(s) == s \notin revoked \cup expired

\* Fault: the sessions the user had on the device stay.
CreateBeside(u) ==
    /\ issued' = Append(issued, [user |-> u, family |-> Len(issued) + 1])
    /\ UNCHANGED <<rotated, revoked, expired>>

\* login: a family of its own, and what the user had on this device is revoked.
Create(u) ==
    /\ issued' = Append(issued, [user |-> u, family |-> Len(issued) + 1])
    /\ revoked' = revoked \cup OfUser(u)
    /\ UNCHANGED <<rotated, expired>>

\* refresh of a usable token: the next row of the family.
Refreshable(s) == s \notin rotated \cup revoked

Rotate(s) ==
    /\ issued' = Append(issued, issued[s])
    /\ rotated' = rotated \cup {s}
    /\ UNCHANGED <<revoked, expired>>

\* refresh of a token that was rotated: the family is revoked.
Replayed(s) ==
    /\ revoked' = IF s \in rotated THEN revoked \cup Family(s) ELSE revoked
    /\ UNCHANGED <<issued, rotated, expired>>

\* logout: the session and the device are revoked, if the token still serves.
SignOut(s) ==
    /\ revoked' = IF Authenticates(s) THEN revoked \cup OfUser(issued[s].user) ELSE revoked
    /\ UNCHANGED <<issued, rotated, expired>>

Expire ==
    /\ \E s \in Sessions \ expired : expired' = expired \cup {s}
    /\ UNCHANGED <<issued, rotated, revoked>>
=============================================================================
