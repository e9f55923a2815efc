------------------------------- MODULE Accounts -------------------------------
(***************************************************************************)
(* Users, their sessions, and the administrators' requests about them.     *)
(*                                                                         *)
(* A session in Redis holds the hash of the password hash it was made      *)
(* under; it is honoured while the user's row still has that hash, so a    *)
(* new password ends all sessions of the old one.  Password and role       *)
(* handlers read a user row in one statement and write it in a later one,  *)
(* without a lock and mostly without a transaction around the two, and     *)
(* the profile and role handlers write back every column they read.        *)
(*                                                                         *)
(* Simplifications.  bcrypt salts, so every hash is new: hashes are        *)
(* numbers, in the order they are made.  A client knows the passwords it   *)
(* needs; a request that is refused by a check of its body is not begun.   *)
(* Authentication reads the session and the row in one step.  Bio, avatar, *)
(* name and mail are columns no property tells apart.                      *)
(***************************************************************************)
EXTENDS Naturals

CONSTANTS
    Users,          \* user ids, those not yet used included
    Bootstrap,      \* the user with the name of the built-in administrator
    FirstAdmins,    \* the administrators there are at first
    Tokens,         \* session tokens, drawn at random and never twice
    Requests,       \* bound: requests served at once
    MaxHash,        \* bound: password hashes made
    NoRequest,
    NoSession

ASSUME ConstantsAssumption ==
    /\ Bootstrap \in Users
    /\ FirstAdmins \subseteq Users
    /\ MaxHash \in Nat

Row     == [row: {"absent", "live", "deleted"}, auth: Nat, admin: BOOLEAN]
Session == [user: Users, auth: Nat]
Steps   == {"session", "saveProfile", "savePassword", "checkRole", "saveRole",
            "checkDelete", "delete", "reset"}
(* A handler that has read the row of user: the row it saw, the role it is  *)
(* to give, and the other administrators it counted.                        *)
Request == [step: Steps, user: Users, seen: Row, admin: BOOLEAN, others: SUBSET Users]
Admitted == [step: {"admitted"}]    \* past requireAdmin, nothing read yet

ASSUME NoneAssumption == NoRequest \notin Request \cup Admitted /\ NoSession \notin Session

VARIABLES
    user,       \* the users table
    session,    \* the sessions in Redis
    issued,     \* the tokens drawn so far
    request,    \* the handlers at work
    hashes      \* how many hashes were made

sessions == <<session, issued>>
vars     == <<user, sessions, request, hashes>>

TypeOK ==
    /\ user \in [Users -> Row]
    /\ session \in [Tokens -> Session \cup {NoSession}]
    /\ issued \subseteq Tokens
    /\ request \in [Requests -> Request \cup Admitted \cup {NoRequest}]
    /\ hashes \in Nat

Init ==
    /\ user = [u \in Users |-> [row   |-> IF u \in FirstAdmins THEN "live" ELSE "absent",
                                auth  |-> 0,
                                admin |-> u \in FirstAdmins]]
    /\ session = [t \in Tokens |-> NoSession]
    /\ issued = {}
    /\ request = [r \in Requests |-> NoRequest]
    /\ hashes = 0

-----------------------------------------------------------------------------
Live(u) == user[u].row = "live"
Admins == {u \in Users : Live(u) /\ user[u].admin}
Held(t) == session[t] # NoSession

(* UserFromCookie finds the session, the user, and the hash unchanged.      *)
Alive(t) == Held(t) /\ Live(session[t].user) /\ user[session[t].user].auth = session[t].auth

(* The signed-in user's row, read once per request.                        *)
CurrentUser(t) == session[t].user

(* Mutation of UserByName: deleted users are found too.                     *)
FoundByName(u) == user[u].row # "absent"

UserByName(u) == Live(u)

Asks(r, step, u, admin, others) ==
    request' = [request EXCEPT ![r] = [step |-> step, user |-> u, seen |-> user[u],
                                       admin |-> admin, others |-> others]]
Ends(r) == request' = [request EXCEPT ![r] = NoRequest]
At(r, step) == request[r] # NoRequest /\ request[r].step = step

(* Mutation of NewHash: a hash without a salt.                              *)
UnsaltedHash == 1

(* GenerateFromPassword.                                                    *)
NewHash == hashes + 1

MakeHash == hashes < MaxHash /\ hashes' = hashes + 1

(***************************************************************************)
(* What GORM makes of a write.  Save updates every column of a row that is *)
(* not deleted; when that finds none it inserts the row and, on a conflict *)
(* of the id, overwrites all columns, deleted_at among them.  Update and   *)
(* Delete pass over a deleted row.                                         *)
(***************************************************************************)
Saved(u, row) == user' = [user EXCEPT ![u] = row]
AuthUpdated(u) == user' = [user EXCEPT ![u].auth = IF Live(u) THEN NewHash ELSE @]
SoftDeleted(u) == user' = [user EXCEPT ![u].row = IF Live(u) THEN "deleted" ELSE @]
Created(u, admin) == user' = [user EXCEPT ![u] = [row |-> "live", auth |-> NewHash, admin |-> admin]]

-----------------------------------------------------------------------------
(***************************************************************************)
(* The public handlers.                                                    *)
(***************************************************************************)

(* login has checked the password of the row it read.                       *)
Login(r, u) ==
    /\ request[r] = NoRequest
    /\ Live(u)
    /\ Asks(r, "session", u, FALSE, {})
    /\ UNCHANGED <<user, sessions, hashes>>

(* register: the name and mail of a deleted user stay taken.                *)
Register(r, u) ==
    /\ request[r] = NoRequest
    /\ user[u].row = "absent"
    /\ MakeHash
    /\ Created(u, FALSE)
    /\ request' = [request EXCEPT ![r] = [step |-> "session", user |-> u, seen |-> user'[u],
                                          admin |-> FALSE, others |-> {}]]
    /\ UNCHANGED sessions

CreateSession(r, t) ==
    /\ At(r, "session")
    /\ t \notin issued
    /\ issued' = issued \cup {t}
    /\ session' = [session EXCEPT ![t] = [user |-> request[r].user, auth |-> request[r].seen.auth]]
    /\ Ends(r)
    /\ UNCHANGED <<user, hashes>>

(* logout, and the end of the token's thirty days.                           *)
EndSession(t) ==
    /\ Held(t)
    /\ session' = [session EXCEPT ![t] = NoSession]
    /\ UNCHANGED <<issued, user, request, hashes>>

(* Any request under a session of an older password removes the session.   *)
RejectSession(t) ==
    /\ Held(t)
    /\ Live(session[t].user)
    /\ ~Alive(t)
    /\ session' = [session EXCEPT ![t] = NoSession]
    /\ UNCHANGED <<issued, user, request, hashes>>

UpdateMe(r, t) ==
    /\ request[r] = NoRequest
    /\ Alive(t)
    /\ Asks(r, "saveProfile", CurrentUser(t), FALSE, {})
    /\ UNCHANGED <<user, sessions, hashes>>

SaveProfile(r) ==
    /\ At(r, "saveProfile")
    /\ Saved(request[r].user, request[r].seen)
    /\ Ends(r)
    /\ UNCHANGED <<sessions, hashes>>

(* The old password is compared with the row that authenticated the request. *)
UpdatePassword(r, t) ==
    /\ request[r] = NoRequest
    /\ Alive(t)
    /\ Asks(r, "savePassword", CurrentUser(t), FALSE, {})
    /\ UNCHANGED <<user, sessions, hashes>>

SavePassword(r) ==
    /\ At(r, "savePassword")
    /\ MakeHash
    /\ AuthUpdated(request[r].user)
    /\ Ends(r)
    /\ UNCHANGED sessions

-----------------------------------------------------------------------------
(***************************************************************************)
(* The administrators' handlers.                                           *)
(***************************************************************************)

RequireAdmin(r, t) ==
    /\ request[r] = NoRequest
    /\ Alive(t)
    /\ user[session[t].user].admin
    /\ request' = [request EXCEPT ![r] = [step |-> "admitted"]]
    /\ UNCHANGED <<user, sessions, hashes>>

CreateUser(r, u, admin) ==
    /\ At(r, "admitted")
    /\ user[u].row = "absent"
    /\ MakeHash
    /\ Created(u, admin)
    /\ Ends(r)
    /\ UNCHANGED sessions

(* userByName; who takes the role away, or deletes, goes on to the check.   *)
UpdateUser(r, u, admin) ==
    /\ At(r, "admitted")
    /\ UserByName(u)
    /\ Asks(r, IF user[u].admin /\ ~admin THEN "checkRole" ELSE "saveRole", u, admin, {})
    /\ UNCHANGED <<user, sessions, hashes>>

DeleteUser(r, u) ==
    /\ At(r, "admitted")
    /\ UserByName(u)
    /\ Asks(r, IF user[u].admin THEN "checkDelete" ELSE "delete", u, FALSE, {})
    /\ UNCHANGED <<user, sessions, hashes>>

(* Mutation of OtherAdmins: the user himself is counted.                    *)
AdminsWithSelf(u) == Admins

OtherAdmins(u) == Admins \ {u}

Checked(r) ==
    [request[r] EXCEPT !.others = OtherAdmins(request[r].user),
                       !.step = IF At(r, "checkRole") THEN "saveRole" ELSE "delete"]

EnsureOtherAdmin(r) ==
    /\ At(r, "checkRole") \/ At(r, "checkDelete")
    /\ IF OtherAdmins(request[r].user) = {} THEN Ends(r)
       ELSE request' = [request EXCEPT ![r] = Checked(r)]
    /\ UNCHANGED <<user, sessions, hashes>>

SaveRole(r) ==
    /\ At(r, "saveRole")
    /\ Saved(request[r].user, [request[r].seen EXCEPT !.admin = request[r].admin])
    /\ Ends(r)
    /\ UNCHANGED <<sessions, hashes>>

Delete(r) ==
    /\ At(r, "delete")
    /\ SoftDeleted(request[r].user)
    /\ Ends(r)
    /\ UNCHANGED <<sessions, hashes>>

ResetUserPassword(r, u) ==
    /\ At(r, "admitted")
    /\ UserByName(u)
    /\ Asks(r, "reset", u, FALSE, {})
    /\ UNCHANGED <<user, sessions, hashes>>

SaveReset(r) ==
    /\ At(r, "reset")
    /\ MakeHash
    /\ AuthUpdated(request[r].user)
    /\ Ends(r)
    /\ UNCHANGED sessions

-----------------------------------------------------------------------------
(* A request that fails: a lost connection, a refused statement.            *)
Fail(r) ==
    /\ request[r] # NoRequest
    /\ Ends(r)
    /\ UNCHANGED <<user, sessions, hashes>>

(* A server process starts again, and the requests it was serving end, of   *)
(* those at work.  EnsureAdmin makes the built-in administrator when there  *)
(* is none; while its name is taken, the server does not start.             *)
Restart(served) ==
    /\ request' = [r \in Requests |-> IF r \in served THEN NoRequest ELSE request[r]]
    /\ IF Admins # {} THEN UNCHANGED <<user, hashes>>
       ELSE /\ user[Bootstrap].row = "absent"
            /\ MakeHash
            /\ Created(Bootstrap, TRUE)
    /\ UNCHANGED sessions

Next ==
    \/ \E r \in Requests :
          \/ \E u \in Users : Login(r, u) \/ Register(r, u) \/ DeleteUser(r, u) \/ ResetUserPassword(r, u)
          \/ \E u \in Users, admin \in BOOLEAN : CreateUser(r, u, admin) \/ UpdateUser(r, u, admin)
          \/ \E t \in Tokens : CreateSession(r, t) \/ UpdateMe(r, t) \/ UpdatePassword(r, t) \/ RequireAdmin(r, t)
          \/ SaveProfile(r) \/ SavePassword(r) \/ EnsureOtherAdmin(r) \/ SaveRole(r)
          \/ Delete(r) \/ SaveReset(r) \/ Fail(r)
    \/ \E t \in Tokens : EndSession(t) \/ RejectSession(t)
    \/ \E served \in SUBSET Requests : Restart(served)

Spec == Init /\ [][Next]_vars

-----------------------------------------------------------------------------
(***************************************************************************)
(* Properties.                                                             *)
(***************************************************************************)

(* A handler that has read a row goes on from a live one, about a password  *)
(* that was made; if it is to take an administrator's role or row away, it  *)
(* has counted others than him.                                            *)
Informed(q, h) ==
    q # NoRequest /\ q.step # "admitted" =>
        /\ q.seen.row = "live"
        /\ q.seen.auth <= h
        /\ q.user \notin q.others
        /\ q.step = "saveRole" /\ q.seen.admin => q.admin \/ q.others # {}
        /\ q.step = "delete" /\ q.seen.admin => q.others # {}

(* Rows and sessions are of passwords that were made, sessions of tokens    *)
(* that were drawn.                                                         *)
HashesInv ==
    /\ \A u \in Users : user[u].auth <= hashes
    /\ \A t \in Tokens : Held(t) => t \in issued /\ session[t].auth <= hashes

(* However the handlers of several users interleave, fail and are cut off   *)
(* by restarts, none writes back a row that was not there, or takes an      *)
(* administrator away unchecked.  It is inductive, and what the properties  *)
(* below rest on.                                                          *)
IInv ==
    /\ TypeOK
    /\ HashesInv
    /\ \A r \in Requests : Informed(request[r], hashes)

(* Request r ends by writing a whole row for u that is not the one there.   *)
StaleSave(r, u) ==
    /\ At(r, "saveProfile") \/ At(r, "saveRole")
    /\ request[r].user = u
    /\ request[r].seen # user[u]
    /\ request'[r] = NoRequest

(* A deleted user, and a session whose password was changed or whose user   *)
(* was deleted, come back only when a profile or role handler writes back   *)
(* a row it read before: no other interleaving of logins, resets, password  *)
(* changes and deletions undoes any of them.                                *)
RevivedOnlyByStaleSave ==
    [][\A u \in Users :
          \/ user[u].row = "deleted" /\ user'[u].row # "deleted"
          \/ \E t \in Tokens : Held(t) /\ session[t].user = u /\ ~Alive(t) /\ Alive(t)'
          => \E r \in Requests : StaleSave(r, u)]_vars

(* What r read of the row it is about to write, or of the other             *)
(* administrators it counted on, is no longer so.                           *)
Outdated(r) ==
    /\ At(r, "saveProfile") \/ At(r, "saveRole") \/ At(r, "delete")
    /\ request'[r] = NoRequest
    /\ \/ request[r].seen.admin # user[request[r].user].admin
       \/ request[r].others # {} /\ request[r].others \cap Admins = {}

(* ensureOtherAdmin reads outside the write it guards: the last             *)
(* administrator can be lost, but only to a request whose reads another     *)
(* request has overtaken.                                                   *)
LastAdminLostOnlyToRace ==
    [][Admins # {} /\ Admins' = {} => \E r \in Requests : Outdated(r)]_vars
=============================================================================
