--------------------------- MODULE Accounts_proofs ---------------------------
(***************************************************************************)
(* Proofs about Accounts: for any users, sessions and requests, and any    *)
(* interleaving of the handlers, what a handler undoes or loses it undoes  *)
(* or loses by writing from an outdated read.                              *)
(***************************************************************************)
EXTENDS Accounts, TLAPS

(***************************************************************************)
(* Types.                                                                  *)
(***************************************************************************)

LEMMA Reading ==
    ASSUME TypeOK, NEW r \in Requests, NEW s \in Steps, At(r, s)
    PROVE  /\ request[r] \in Request
           /\ request[r].seen \in Row
           /\ request[r].user \in Users
           /\ request[r].others \subseteq Users
           /\ request[r].admin \in BOOLEAN
<1>1. request[r] \notin Admitted
  BY DEF At, Admitted, Steps
<1>2. request[r] \in Request
  BY <1>1 DEF TypeOK, At
<1>3. QED
  BY <1>2 DEF Request

LEMMA NewRow ==
    ASSUME hashes \in Nat
    PROVE  \A admin \in BOOLEAN : [row |-> "live", auth |-> NewHash, admin |-> admin] \in Row
  BY DEF NewHash, Row

LEMMA AuthUpdatedTyped ==
    ASSUME TypeOK, NEW u \in Users, AuthUpdated(u)
    PROVE  user' \in [Users -> Row]
<1> DEFINE new == [user[u] EXCEPT !.auth = IF Live(u) THEN NewHash ELSE @]
<1>1. user[u] \in Row
  BY DEF TypeOK
<1>2. NewHash \in Nat
  BY DEF NewHash, TypeOK
<1>3. new \in Row
  BY <1>1, <1>2 DEF Row
<1>4. user' = [user EXCEPT ![u] = new]
  BY DEF AuthUpdated
<1> HIDE DEF new
<1>5. QED
  BY <1>3, <1>4 DEF TypeOK

LEMMA SoftDeletedTyped ==
    ASSUME TypeOK, NEW u \in Users, SoftDeleted(u)
    PROVE  user' \in [Users -> Row]
<1> DEFINE new == [user[u] EXCEPT !.row = IF Live(u) THEN "deleted" ELSE @]
<1>1. user[u] \in Row
  BY DEF TypeOK
<1>2. new \in Row
  BY <1>1 DEF Row
<1>3. user' = [user EXCEPT ![u] = new]
  BY DEF SoftDeleted
<1> HIDE DEF new
<1>4. QED
  BY <1>2, <1>3 DEF TypeOK

LEMMA AsksTyped ==
    ASSUME TypeOK, NEW r \in Requests, NEW s \in Steps, NEW u \in Users, NEW admin \in BOOLEAN,
           NEW others \in SUBSET Users, Asks(r, s, u, admin, others)
    PROVE  request' \in [Requests -> Request \cup Admitted \cup {NoRequest}]
<1> DEFINE new == [step |-> s, user |-> u, seen |-> user[u], admin |-> admin, others |-> others]
<1>1. new \in Request
  BY DEF TypeOK, Request
<1>2. request' = [request EXCEPT ![r] = new]
  BY DEF Asks
<1> HIDE DEF new
<1>3. QED
  BY <1>1, <1>2 DEF TypeOK

LEMMA AsksPlain ==
    ASSUME TypeOK, NEW r \in Requests, NEW s \in Steps, NEW u \in Users,
           Asks(r, s, u, FALSE, {})
    PROVE  request' \in [Requests -> Request \cup Admitted \cup {NoRequest}]
<1> DEFINE new == [step |-> s, user |-> u, seen |-> user[u], admin |-> FALSE, others |-> {}]
<1>1. new \in Request
  BY DEF TypeOK, Request
<1>2. request' = [request EXCEPT ![r] = new]
  BY DEF Asks
<1> HIDE DEF new
<1>3. QED
  BY <1>1, <1>2 DEF TypeOK

LEMMA EndsTyped ==
    ASSUME TypeOK, NEW r \in Requests, Ends(r)
    PROVE  request' \in [Requests -> Request \cup Admitted \cup {NoRequest}]
  BY DEF Ends, TypeOK

(* Every action keeps the types.                                            *)
LEMMA TypesKept == TypeOK /\ [Next]_vars => TypeOK'
<1> SUFFICES ASSUME TypeOK, [Next]_vars PROVE TypeOK'
  OBVIOUS
<1> USE DEF sessions, CurrentUser, UserByName
<1>1. ASSUME NEW r \in Requests, NEW u \in Users, Login(r, u) PROVE TypeOK'
  <2>1. Asks(r, "session", u, FALSE, {}) /\ "session" \in Steps
    BY <1>1 DEF Login, Steps
  <2>2. request' \in [Requests -> Request \cup Admitted \cup {NoRequest}]
    BY <2>1, AsksPlain
  <2>3. QED
    BY <1>1, <2>2 DEF Login, TypeOK
<1>2. ASSUME NEW r \in Requests, NEW u \in Users, Register(r, u) PROVE TypeOK'
  <2> DEFINE row == [row |-> "live", auth |-> NewHash, admin |-> FALSE]
             new == [step |-> "session", user |-> u, seen |-> row, admin |-> FALSE, others |-> {}]
  <2>1. row \in Row
    BY NewRow DEF TypeOK
  <2>2. user' = [user EXCEPT ![u] = row] /\ user' \in [Users -> Row] /\ user'[u] = row
    BY <1>2, <2>1 DEF Register, Created, TypeOK
  <2>3. request' = [request EXCEPT ![r] = new]
    BY <1>2, <2>2 DEF Register
  <2>4. new \in Request
    <3> HIDE DEF row
    <3>1. QED  BY <2>1 DEF Request, Steps
  <2> HIDE DEF row, new
  <2>5. QED
    <3>1. request' \in [Requests -> Request \cup Admitted \cup {NoRequest}]
      BY <2>3, <2>4 DEF TypeOK
    <3>2. hashes' \in Nat
      BY <1>2 DEF Register, MakeHash, TypeOK
    <3>3. QED
      BY <1>2, <2>2, <3>1, <3>2 DEF Register, TypeOK
<1>3. ASSUME NEW r \in Requests, NEW u \in Users, DeleteUser(r, u) PROVE TypeOK'
  <2> DEFINE s == IF user[u].admin THEN "checkDelete" ELSE "delete"
  <2>1. Asks(r, s, u, FALSE, {}) /\ s \in Steps
    BY <1>3 DEF DeleteUser, Steps
  <2> HIDE DEF s
  <2>2. request' \in [Requests -> Request \cup Admitted \cup {NoRequest}]
    BY <2>1, AsksPlain
  <2>3. QED
    BY <1>3, <2>2 DEF DeleteUser, TypeOK
<1>4. ASSUME NEW r \in Requests, NEW u \in Users, ResetUserPassword(r, u) PROVE TypeOK'
  <2>1. Asks(r, "reset", u, FALSE, {}) /\ "reset" \in Steps
    BY <1>4 DEF ResetUserPassword, Steps
  <2>2. request' \in [Requests -> Request \cup Admitted \cup {NoRequest}]
    BY <2>1, AsksPlain
  <2>3. QED
    BY <1>4, <2>2 DEF ResetUserPassword, TypeOK
<1>5. ASSUME NEW r \in Requests, NEW u \in Users, NEW admin \in BOOLEAN, CreateUser(r, u, admin) PROVE TypeOK'
  <2>1. user' \in [Users -> Row]
    BY <1>5, NewRow DEF CreateUser, Created, TypeOK
  <2>2. QED
    BY <1>5, <2>1, EndsTyped DEF CreateUser, TypeOK, MakeHash
<1>6. ASSUME NEW r \in Requests, NEW u \in Users, NEW admin \in BOOLEAN, UpdateUser(r, u, admin) PROVE TypeOK'
  <2> DEFINE s == IF user[u].admin /\ ~admin THEN "checkRole" ELSE "saveRole"
  <2>1. Asks(r, s, u, admin, {}) /\ s \in Steps
    BY <1>6 DEF UpdateUser, Steps
  <2> HIDE DEF s
  <2>2. request' \in [Requests -> Request \cup Admitted \cup {NoRequest}]
    BY <2>1, AsksTyped
  <2>3. QED
    BY <1>6, <2>2 DEF UpdateUser, TypeOK
<1>7. ASSUME NEW r \in Requests, NEW t \in Tokens, CreateSession(r, t) PROVE TypeOK'
  <2>1. request[r].user \in Users /\ request[r].seen.auth \in Nat
    BY <1>7, Reading DEF CreateSession, Steps, Row
  <2>2. QED
    BY <1>7, <2>1, EndsTyped DEF CreateSession, TypeOK, Session
<1>8. ASSUME NEW r \in Requests, NEW t \in Tokens, UpdateMe(r, t) \/ UpdatePassword(r, t) PROVE TypeOK'
  <2>1. session[t].user \in Users
    BY <1>8 DEF UpdateMe, UpdatePassword, Alive, Held, TypeOK, Session
  <2>2. request' \in [Requests -> Request \cup Admitted \cup {NoRequest}]
    <3>1. "saveProfile" \in Steps /\ "savePassword" \in Steps
      BY DEF Steps
    <3>2. QED
      BY <1>8, <2>1, <3>1, AsksPlain DEF UpdateMe, UpdatePassword
  <2>3. QED
    BY <1>8, <2>2 DEF UpdateMe, UpdatePassword, TypeOK
<1>9. ASSUME NEW r \in Requests, NEW t \in Tokens, RequireAdmin(r, t) PROVE TypeOK'
  BY <1>9 DEF RequireAdmin, TypeOK, Admitted
<1>10. ASSUME NEW r \in Requests, SaveProfile(r) PROVE TypeOK'
  <2>1. request[r].seen \in Row
    BY <1>10, Reading DEF SaveProfile, Steps
  <2>2. QED
    BY <1>10, <2>1, EndsTyped DEF SaveProfile, Saved, TypeOK
<1>11. ASSUME NEW r \in Requests, SaveRole(r) PROVE TypeOK'
  <2> DEFINE new == [request[r].seen EXCEPT !.admin = request[r].admin]
  <2>1. request[r].seen \in Row /\ request[r].admin \in BOOLEAN
    BY <1>11, Reading DEF SaveRole, Steps
  <2>2. new \in Row
    BY <2>1 DEF Row
  <2>3. user' = [user EXCEPT ![request[r].user] = new]
    BY <1>11 DEF SaveRole, Saved
  <2> HIDE DEF new
  <2>4. QED
    BY <1>11, <2>2, <2>3, EndsTyped DEF SaveRole, TypeOK
<1>12. ASSUME NEW r \in Requests, SavePassword(r) \/ SaveReset(r) PROVE TypeOK'
  <2>1. request[r].user \in Users
    BY <1>12, Reading DEF SavePassword, SaveReset, Steps
  <2>2. user' \in [Users -> Row]
    BY <1>12, <2>1, AuthUpdatedTyped DEF SavePassword, SaveReset
  <2>3. QED
    BY <1>12, <2>2, EndsTyped DEF SavePassword, SaveReset, TypeOK, MakeHash
<1>13. ASSUME NEW r \in Requests, Delete(r) PROVE TypeOK'
  <2>1. request[r].user \in Users
    BY <1>13, Reading DEF Delete, Steps
  <2>2. QED
    BY <1>13, <2>1, SoftDeletedTyped, EndsTyped DEF Delete, TypeOK
<1>14. ASSUME NEW r \in Requests, EnsureOtherAdmin(r) PROVE TypeOK'
  <2>1. Checked(r) \in Request
    <3>1. request[r] \in Request
      BY <1>14, Reading DEF EnsureOtherAdmin, Steps
    <3>2. OtherAdmins(request[r].user) \subseteq Users
      BY DEF OtherAdmins, Admins
    <3>3. QED
      BY <3>1, <3>2 DEF Checked, Request, Steps
  <2>2. request' \in [Requests -> Request \cup Admitted \cup {NoRequest}]
    BY <1>14, <2>1 DEF EnsureOtherAdmin, Ends, TypeOK
  <2>3. QED
    BY <1>14, <2>2 DEF EnsureOtherAdmin, TypeOK
<1>15. ASSUME NEW r \in Requests, Fail(r) PROVE TypeOK'
  BY <1>15, EndsTyped DEF Fail, TypeOK
<1>16. ASSUME NEW t \in Tokens, EndSession(t) \/ RejectSession(t) PROVE TypeOK'
  BY <1>16 DEF EndSession, RejectSession, TypeOK
<1>17. ASSUME NEW served \in SUBSET Requests, Restart(served) PROVE TypeOK'
  <2>1. user' \in [Users -> Row] /\ hashes' \in Nat
    <3>1. CASE Admins # {}
      BY <1>17, <3>1 DEF Restart, TypeOK
    <3>2. CASE Admins = {}
      <4>1. Created(Bootstrap, TRUE) /\ MakeHash
        BY <1>17, <3>2 DEF Restart
      <4> DEFINE row == [row |-> "live", auth |-> NewHash, admin |-> TRUE]
      <4>2. user' = [user EXCEPT ![Bootstrap] = row]
        BY <4>1 DEF Created
      <4>3. row \in Row
        BY NewRow DEF TypeOK
      <4> HIDE DEF row
      <4>4. QED
        BY <4>1, <4>2, <4>3, ConstantsAssumption DEF TypeOK, MakeHash
    <3>3. QED  BY <3>1, <3>2
  <2>2. QED
    BY <1>17, <2>1 DEF Restart, TypeOK
<1>18. CASE UNCHANGED vars
  BY <1>18 DEF vars, TypeOK
<1>19. QED
  BY <1>1, <1>2, <1>3, <1>4, <1>5, <1>6, <1>7, <1>8, <1>9, <1>10, <1>11, <1>12, <1>13,
     <1>14, <1>15, <1>16, <1>17, <1>18 DEF Next

(* The state of the accounts is well formed, whatever handlers interleave. *)
THEOREM TypeCorrect == Spec => []TypeOK
<1>1. Init => TypeOK
  BY DEF Init, TypeOK, Row
<1>2. QED
  BY <1>1, TypesKept, PTL DEF Spec

(***************************************************************************)
(* What a handler knows of the row it read, and which hashes there can be. *)
(***************************************************************************)

LEMMA InformedLater ==
    ASSUME TypeOK, NEW r \in Requests, Informed(request[r], hashes), hashes' \in Nat, hashes <= hashes'
    PROVE  Informed(request[r], hashes')
<1> SUFFICES ASSUME request[r] # NoRequest, request[r].step # "admitted"
             PROVE  request[r].seen.auth <= hashes'
  BY DEF Informed
<1>1. request[r] \in Request
  BY DEF TypeOK, Admitted
<1>2. request[r].seen.auth \in Nat /\ request[r].seen.auth <= hashes
  BY <1>1 DEF Request, Row, Informed
<1>3. QED
  BY <1>2 DEF TypeOK

(* The handlers that read: the row is live and no others are counted yet.  *)
LEMMA AsksInformed ==
    ASSUME IInv, NEW r \in Requests, NEW u \in Users, NEW s \in Steps, NEW admin \in BOOLEAN,
           Live(u), s = "saveRole" => ~user[u].admin \/ admin, s = "delete" => ~user[u].admin,
           request' = [request EXCEPT ![r] = [step |-> s, user |-> u, seen |-> user[u],
                                              admin |-> admin, others |-> {}]],
           hashes' = hashes
    PROVE  \A x \in Requests : Informed(request'[x], hashes')
  BY DEF IInv, TypeOK, HashesInv, Informed, Live

LEMMA EndsInformed ==
    ASSUME IInv, NEW r \in Requests, Ends(r), hashes' \in Nat, hashes <= hashes'
    PROVE  \A x \in Requests : Informed(request'[x], hashes')
<1> TAKE x \in Requests
<1>1. CASE x = r
  BY <1>1 DEF Ends, IInv, TypeOK, Informed
<1>2. CASE x # r
  <2>1. request'[x] = request[x]
    BY <1>2 DEF Ends, IInv, TypeOK
  <2>2. QED
    BY <2>1, InformedLater DEF IInv
<1>3. QED  BY <1>1, <1>2

LEMMA RequestsInformed ==
    ASSUME IInv, [Next]_vars
    PROVE  \A x \in Requests : Informed(request'[x], hashes')
<1> USE DEF sessions, CurrentUser, UserByName
<1>0. hashes \in Nat /\ hashes <= hashes /\ hashes <= hashes + 1
  BY DEF IInv, TypeOK
<1>1. ASSUME NEW r \in Requests, NEW u \in Users, Login(r, u) \/ DeleteUser(r, u) \/ ResetUserPassword(r, u)
      PROVE  \A x \in Requests : Informed(request'[x], hashes')
  BY <1>1 DEF Login, DeleteUser, ResetUserPassword, Asks, IInv, TypeOK, HashesInv, Informed, Live
<1>2. ASSUME NEW r \in Requests, NEW u \in Users, Register(r, u)
      PROVE  \A x \in Requests : Informed(request'[x], hashes')
  <2>1. hashes' \in Nat /\ hashes' = hashes + 1
    BY <1>2, <1>0 DEF Register, MakeHash
  <2>2. user'[u].row = "live" /\ user'[u].auth = hashes'
    BY <1>2, <2>1 DEF Register, Created, NewHash, IInv, TypeOK
  <2>3. Informed(request'[r], hashes')
    <3>1. request'[r] = [step |-> "session", user |-> u, seen |-> user'[u], admin |-> FALSE, others |-> {}]
      BY <1>2 DEF Register, IInv, TypeOK
    <3>2. QED
      BY <2>1, <2>2, <3>1 DEF Informed
  <2>4. ASSUME NEW x \in Requests, x # r PROVE Informed(request'[x], hashes')
    <3>1. request'[x] = request[x]
      BY <1>2, <2>4 DEF Register, IInv, TypeOK
    <3>2. QED
      BY <1>0, <2>1, <3>1, InformedLater DEF IInv
  <2>5. QED  BY <2>3, <2>4
<1>3. ASSUME NEW r \in Requests, NEW u \in Users, NEW admin \in BOOLEAN, UpdateUser(r, u, admin)
      PROVE  \A x \in Requests : Informed(request'[x], hashes')
  BY <1>3 DEF UpdateUser, Asks, IInv, TypeOK, HashesInv, Informed, Live
<1>4. ASSUME NEW r \in Requests, NEW t \in Tokens, UpdateMe(r, t) \/ UpdatePassword(r, t)
      PROVE  \A x \in Requests : Informed(request'[x], hashes')
  <2>1. session[t].user \in Users /\ Live(session[t].user)
    BY <1>4 DEF UpdateMe, UpdatePassword, Alive, Held, IInv, TypeOK, Session
  <2>2. QED
    BY <1>4, <2>1 DEF UpdateMe, UpdatePassword, Asks, IInv, TypeOK, HashesInv, Informed, Live
<1>5. ASSUME NEW r \in Requests, NEW t \in Tokens, RequireAdmin(r, t)
      PROVE  \A x \in Requests : Informed(request'[x], hashes')
  BY <1>5 DEF RequireAdmin, IInv, TypeOK, Informed
<1>6. ASSUME NEW r \in Requests, EnsureOtherAdmin(r)
      PROVE  \A x \in Requests : Informed(request'[x], hashes')
  <2>1. CASE OtherAdmins(request[r].user) = {}
    BY <1>6, <1>0, <2>1, EndsInformed DEF EnsureOtherAdmin
  <2>2. CASE OtherAdmins(request[r].user) # {}
    <3>1. request[r] \in Request /\ Informed(request[r], hashes)
      BY <1>6, Reading DEF EnsureOtherAdmin, Steps, IInv
    <3>2. request[r] # NoRequest /\ request[r].step # "admitted"
      BY <1>6 DEF EnsureOtherAdmin, At
    <3>3. /\ Checked(r).others = OtherAdmins(request[r].user)
          /\ Checked(r).user = request[r].user /\ Checked(r).seen = request[r].seen
      BY <3>1 DEF Checked, Request
    <3>4. request[r].user \notin OtherAdmins(request[r].user)
      BY DEF OtherAdmins
    <3>5. Informed(Checked(r), hashes)
      BY <2>2, <3>1, <3>2, <3>3, <3>4 DEF Informed
    <3>6. request' = [request EXCEPT ![r] = Checked(r)] /\ hashes' = hashes
      BY <1>6, <2>2 DEF EnsureOtherAdmin
    <3>7. QED
      BY <3>5, <3>6 DEF IInv, TypeOK
  <2>3. QED  BY <2>1, <2>2
<1>7. ASSUME NEW r \in Requests, SaveProfile(r) \/ SaveRole(r) \/ Delete(r) \/ Fail(r)
      PROVE  \A x \in Requests : Informed(request'[x], hashes')
  BY <1>7, <1>0, EndsInformed DEF SaveProfile, SaveRole, Delete, Fail
<1>8. ASSUME NEW r \in Requests, SavePassword(r) \/ SaveReset(r)
      PROVE  \A x \in Requests : Informed(request'[x], hashes')
  <2>1. hashes' \in Nat /\ hashes <= hashes'
    BY <1>8, <1>0 DEF SavePassword, SaveReset, MakeHash
  <2>2. QED
    BY <1>8, <2>1, EndsInformed DEF SavePassword, SaveReset
<1>9. ASSUME NEW r \in Requests, NEW u \in Users, NEW admin \in BOOLEAN, CreateUser(r, u, admin)
      PROVE  \A x \in Requests : Informed(request'[x], hashes')
  <2>1. hashes' \in Nat /\ hashes <= hashes'
    BY <1>9, <1>0 DEF CreateUser, MakeHash
  <2>2. QED
    BY <1>9, <2>1, EndsInformed DEF CreateUser
<1>10. ASSUME NEW r \in Requests, NEW t \in Tokens, CreateSession(r, t)
      PROVE  \A x \in Requests : Informed(request'[x], hashes')
  BY <1>10, <1>0, EndsInformed DEF CreateSession
<1>11. ASSUME NEW t \in Tokens, EndSession(t) \/ RejectSession(t)
      PROVE  \A x \in Requests : Informed(request'[x], hashes')
  BY <1>11 DEF EndSession, RejectSession, IInv
<1>12. ASSUME NEW served \in SUBSET Requests, Restart(served) PROVE \A x \in Requests : Informed(request'[x], hashes')
  <2>1. hashes \in Nat /\ hashes' \in Nat /\ hashes <= hashes'
    <3>1. hashes \in Nat
      BY DEF IInv, TypeOK
    <3>2. hashes' = hashes \/ hashes' = hashes + 1
      BY <1>12 DEF Restart, MakeHash
    <3>3. QED  BY <3>1, <3>2
  <2>2. ASSUME NEW x \in Requests PROVE Informed(request[x], hashes')
    BY <2>1, InformedLater DEF IInv
  <2>3. ASSUME NEW x \in Requests PROVE request'[x] = NoRequest \/ request'[x] = request[x]
    BY <1>12, <2>3 DEF Restart
  <2>4. QED
    BY <2>2, <2>3 DEF Informed
<1>13. CASE UNCHANGED vars
  BY <1>13 DEF vars, IInv
<1>14. QED
  BY <1>1, <1>2, <1>3, <1>4, <1>5, <1>6, <1>7, <1>8, <1>9, <1>10, <1>11, <1>12, <1>13 DEF Next

(***************************************************************************)
(* All that a step can do to a row of the users table.                     *)
(***************************************************************************)

Rehashed(u)  == /\ hashes' = hashes + 1
                /\ user[u].row = "live" /\ user'[u].row = "live"
                /\ user'[u].auth = hashes + 1
                /\ user'[u].admin = user[u].admin
Born(u)      == /\ hashes' = hashes + 1
                /\ user[u].row = "absent" /\ user'[u].row = "live"
                /\ user'[u].auth = hashes + 1
Buried(u, r) == /\ At(r, "delete") /\ request[r].user = u /\ request'[r] = NoRequest
                /\ user'[u].auth = user[u].auth
                /\ user'[u].row # "live"
                /\ user[u].row = "live" \/ user'[u].row = user[u].row
Replaced(u, r) == /\ At(r, "saveProfile") \/ At(r, "saveRole")
                  /\ request[r].user = u /\ request'[r] = NoRequest
                  /\ user'[u].row = "live"
                  /\ user'[u].auth = request[r].seen.auth
                  /\ user'[u].admin = IF At(r, "saveRole") THEN request[r].admin
                                      ELSE request[r].seen.admin

RowChange(u) ==
    \/ user'[u] = user[u]
    \/ Rehashed(u) \/ Born(u)
    \/ \E r \in Requests : Buried(u, r) \/ Replaced(u, r)

(* A step changes one row at most.                                          *)
OneRow == \A u, v \in Users : user'[u] # user[u] /\ user'[v] # user[v] => u = v

LEMMA SavesReplace ==
    ASSUME IInv, NEW r \in Requests, SaveProfile(r) \/ SaveRole(r)
    PROVE  OneRow /\ \A u \in Users : user'[u] = user[u] \/ Replaced(u, r)
<1> DEFINE v == request[r].user
           new == IF At(r, "saveRole") THEN [request[r].seen EXCEPT !.admin = request[r].admin]
                  ELSE request[r].seen
<1>1. At(r, "saveProfile") \/ At(r, "saveRole")
  BY DEF SaveProfile, SaveRole
<1>2. request[r] \in Request /\ request[r].seen \in Row /\ v \in Users
  BY <1>1, Reading DEF IInv, Steps
<1>3. request[r].seen.row = "live"
  BY <1>1, <1>2 DEF IInv, Informed, At
<1>4. request'[r] = NoRequest
  BY DEF SaveProfile, SaveRole, Ends, IInv, TypeOK
<1>5. user' = [user EXCEPT ![v] = new]
  BY DEF SaveProfile, SaveRole, Saved, At
<1>6. /\ new.row = "live" /\ new.auth = request[r].seen.auth
      /\ new.admin = IF At(r, "saveRole") THEN request[r].admin ELSE request[r].seen.admin
  BY <1>2, <1>3 DEF Row
<1> HIDE DEF new, v
<1>7. \A u \in Users : u # v => user'[u] = user[u]
  BY <1>5 DEF IInv, TypeOK
<1>8. user'[v] = new
  BY <1>2, <1>5 DEF IInv, TypeOK
<1>9. Replaced(v, r)
  BY <1>1, <1>4, <1>6, <1>8 DEF Replaced, v
<1>10. QED
  BY <1>7, <1>9 DEF OneRow

LEMMA Rehashes ==
    ASSUME IInv, NEW u \in Users, AuthUpdated(u), MakeHash
    PROVE  OneRow /\ \A v \in Users : user'[v] = user[v] \/ Rehashed(v)
<1>1. user[u] \in Row
  BY DEF IInv, TypeOK
<1>2. CASE Live(u)
  <2>1. user' = [user EXCEPT ![u].auth = hashes + 1] /\ hashes' = hashes + 1
    BY <1>2 DEF AuthUpdated, MakeHash, NewHash
  <2>2. \A v \in Users : v # u => user'[v] = user[v]
    BY <2>1 DEF IInv, TypeOK
  <2>3. user'[u] = [user[u] EXCEPT !.auth = hashes + 1]
    BY <2>1 DEF IInv, TypeOK
  <2>4. Rehashed(u)
    BY <1>1, <1>2, <2>1, <2>3 DEF Rehashed, Live, Row
  <2>5. QED
    BY <2>2, <2>4 DEF OneRow
<1>3. CASE ~Live(u)
  <2>1. \A v \in Users : v # u => user'[v] = user[v]
    BY <1>3 DEF AuthUpdated, IInv, TypeOK
  <2>2. user'[u] = [user[u] EXCEPT !.auth = user[u].auth]
    BY <1>3 DEF AuthUpdated, IInv, TypeOK
  <2>3. user'[u] = user[u]
    BY <1>1, <2>2 DEF Row
  <2>4. QED
    BY <2>1, <2>3 DEF OneRow
<1>4. QED  BY <1>2, <1>3

LEMMA Births ==
    ASSUME IInv, NEW u \in Users, NEW admin \in BOOLEAN, MakeHash, user[u].row = "absent",
           user' = [user EXCEPT ![u] = [row |-> "live", auth |-> NewHash, admin |-> admin]]
    PROVE  OneRow /\ \A v \in Users : user'[v] = user[v] \/ Born(v)
<1>1. \A v \in Users : v # u => user'[v] = user[v]
  BY DEF IInv, TypeOK
<1>2. user'[u].row = "live" /\ user'[u].auth = hashes + 1
  BY DEF IInv, TypeOK, NewHash
<1>3. Born(u)
  BY <1>2 DEF Born, MakeHash
<1>4. QED
  BY <1>1, <1>3 DEF OneRow

LEMMA Burials ==
    ASSUME IInv, NEW r \in Requests, Delete(r)
    PROVE  OneRow /\ \A u \in Users : user'[u] = user[u] \/ Buried(u, r)
<1> DEFINE v == request[r].user
<1>1. At(r, "delete") /\ v \in Users
  BY Reading DEF Delete, IInv, Steps
<1>2. user[v] \in Row
  BY <1>1 DEF IInv, TypeOK
<1>3. user' = [user EXCEPT ![v].row = IF Live(v) THEN "deleted" ELSE @]
  BY DEF Delete, SoftDeleted
<1>4. request'[r] = NoRequest
  BY DEF Delete, Ends, IInv, TypeOK
<1> HIDE DEF v
<1>5. \A u \in Users : u # v => user'[u] = user[u]
  BY <1>3 DEF IInv, TypeOK
<1>6. user'[v] = [user[v] EXCEPT !.row = IF Live(v) THEN "deleted" ELSE @]
  BY <1>1, <1>3 DEF IInv, TypeOK
<1>7. user'[v].auth = user[v].auth /\ user'[v].row = IF Live(v) THEN "deleted" ELSE user[v].row
  BY <1>2, <1>6 DEF Row
<1>8. Buried(v, r)
  BY <1>1, <1>4, <1>7 DEF Buried, Live, v
<1>9. QED
  BY <1>5, <1>8 DEF OneRow

LEMMA RowsChange ==
    ASSUME IInv, [Next]_vars
    PROVE  OneRow /\ \A u \in Users : RowChange(u)
<1> USE DEF RowChange
<1>1. ASSUME user' = user PROVE OneRow /\ \A u \in Users : RowChange(u)
  BY <1>1 DEF OneRow
<1>2. ASSUME NEW r \in Requests, NEW u \in Users,
             Register(r, u) \/ \E admin \in BOOLEAN : CreateUser(r, u, admin)
      PROVE  OneRow /\ \A v \in Users : RowChange(v)
  <2>1. CASE Register(r, u)
    <3>1. MakeHash /\ user[u].row = "absent"
          /\ user' = [user EXCEPT ![u] = [row |-> "live", auth |-> NewHash, admin |-> FALSE]]
      BY <2>1 DEF Register, Created
    <3>2. QED  BY <3>1, Births
  <2>2. ASSUME NEW admin \in BOOLEAN, CreateUser(r, u, admin)
        PROVE  OneRow /\ \A v \in Users : RowChange(v)
    BY <2>2, Births DEF CreateUser, Created
  <2>3. QED  BY <1>2, <2>1, <2>2
<1>3. ASSUME NEW r \in Requests, SavePassword(r) \/ SaveReset(r)
      PROVE  OneRow /\ \A u \in Users : RowChange(u)
  <2>1. request[r].user \in Users
    BY <1>3, Reading DEF SavePassword, SaveReset, IInv, Steps
  <2>2. QED
    BY <1>3, <2>1, Rehashes DEF SavePassword, SaveReset
<1>4. ASSUME NEW r \in Requests, SaveProfile(r) \/ SaveRole(r)
      PROVE  OneRow /\ \A u \in Users : RowChange(u)
  BY <1>4, SavesReplace
<1>5. ASSUME NEW r \in Requests, Delete(r)
      PROVE  OneRow /\ \A u \in Users : RowChange(u)
  BY <1>5, Burials
<1>6. ASSUME NEW served \in SUBSET Requests, Restart(served) PROVE OneRow /\ \A u \in Users : RowChange(u)
  <2>1. CASE Admins # {}
    BY <1>6, <2>1, <1>1 DEF Restart
  <2>2. CASE Admins = {}
    <3>1. MakeHash /\ user[Bootstrap].row = "absent"
          /\ user' = [user EXCEPT ![Bootstrap] = [row |-> "live", auth |-> NewHash, admin |-> TRUE]]
      BY <1>6, <2>2 DEF Restart, Created
    <3>2. QED  BY <3>1, Births, ConstantsAssumption
  <2>3. QED  BY <2>1, <2>2
<1>7. QED
  BY <1>1, <1>2, <1>3, <1>4, <1>5, <1>6 DEF Next, vars, Login, DeleteUser, ResetUserPassword,
     UpdateUser, CreateSession, UpdateMe, UpdatePassword, RequireAdmin, EnsureOtherAdmin, Fail,
     EndSession, RejectSession

(***************************************************************************)
(* Sessions come from one handler, under a token never used before.        *)
(***************************************************************************)

Opened(t) == /\ t \notin issued /\ t \in issued'
             /\ session'[t] \in Session /\ session'[t].auth <= hashes

SessionChange(t) == session'[t] = session[t] \/ session'[t] = NoSession \/ Opened(t)

LEMMA SessionsChange ==
    ASSUME IInv, [Next]_vars
    PROVE  issued \subseteq issued' /\ \A t \in Tokens : SessionChange(t)
<1> USE DEF SessionChange
<1>1. ASSUME NEW r \in Requests, NEW t \in Tokens, CreateSession(r, t)
      PROVE  issued \subseteq issued' /\ \A v \in Tokens : SessionChange(v)
  <2>1. request[r].user \in Users /\ request[r].seen.auth \in Nat
    BY <1>1, Reading DEF CreateSession, Steps, Row, IInv
  <2>2. request[r].seen.auth <= hashes
    BY <1>1 DEF CreateSession, At, IInv, Informed
  <2>3. session'[t] = [user |-> request[r].user, auth |-> request[r].seen.auth]
    BY <1>1 DEF CreateSession, IInv, TypeOK
  <2>4. Opened(t)
    BY <1>1, <2>1, <2>2, <2>3 DEF CreateSession, Opened, Session
  <2>5. QED
    BY <1>1, <2>4 DEF CreateSession, IInv, TypeOK
<1>2. ASSUME NEW t \in Tokens, EndSession(t) \/ RejectSession(t)
      PROVE  issued \subseteq issued' /\ \A v \in Tokens : SessionChange(v)
  BY <1>2 DEF EndSession, RejectSession, IInv, TypeOK
<1>3. ASSUME UNCHANGED sessions PROVE issued \subseteq issued' /\ \A v \in Tokens : SessionChange(v)
  BY <1>3 DEF sessions, CurrentUser, UserByName
<1>4. QED
  BY <1>1, <1>2, <1>3 DEF Next, vars, Login, Register, CreateUser, DeleteUser, ResetUserPassword,
     UpdateUser, UpdateMe, SaveProfile, UpdatePassword, SavePassword, RequireAdmin,
     EnsureOtherAdmin, SaveRole, Delete, SaveReset, Fail, Restart

LEMMA HashesKept == IInv /\ [Next]_vars => HashesInv'
<1> SUFFICES ASSUME IInv, [Next]_vars PROVE HashesInv'
  OBVIOUS
<1>1. hashes \in Nat /\ hashes' \in Nat /\ hashes <= hashes'
  <2>1. hashes \in Nat
    BY DEF IInv, TypeOK
  <2>2. hashes' = hashes \/ hashes' = hashes + 1
    BY DEF Next, vars, Login, Register, CreateUser, DeleteUser, ResetUserPassword, UpdateUser,
       CreateSession, EndSession, RejectSession, UpdateMe, SaveProfile, UpdatePassword, SavePassword,
       RequireAdmin, EnsureOtherAdmin, SaveRole, Delete, SaveReset, Fail, Restart, MakeHash
  <2>3. QED  BY <2>1, <2>2
<1>2. ASSUME NEW u \in Users PROVE user'[u].auth <= hashes'
  <2>1. user[u] \in Row /\ user[u].auth <= hashes
    BY DEF IInv, TypeOK, HashesInv
  <2>2. user[u].auth \in Nat
    BY <2>1 DEF Row
  <2>3. CASE user'[u] = user[u]
    BY <1>1, <2>1, <2>2, <2>3
  <2>4. CASE Rehashed(u) \/ Born(u)
    BY <1>1, <2>4 DEF Rehashed, Born
  <2>5. ASSUME NEW r \in Requests, Buried(u, r) PROVE user'[u].auth <= hashes'
    BY <1>1, <2>1, <2>2, <2>5 DEF Buried
  <2>6. ASSUME NEW r \in Requests, Replaced(u, r) PROVE user'[u].auth <= hashes'
    <3>1. request[r].seen.auth \in Nat
      BY <2>6, Reading DEF Replaced, Steps, IInv, Row
    <3>2. request[r].seen.auth <= hashes
      BY <2>6 DEF Replaced, At, IInv, Informed
    <3>3. QED
      BY <1>1, <2>6, <3>1, <3>2 DEF Replaced
  <2>7. QED
    BY <2>3, <2>4, <2>5, <2>6, RowsChange DEF RowChange
<1>3. ASSUME NEW t \in Tokens, Held(t)' PROVE t \in issued' /\ session'[t].auth <= hashes'
  <2>1. CASE session'[t] = session[t]
    <3>1. Held(t) /\ session[t] \in Session
      BY <1>3, <2>1 DEF Held, IInv, TypeOK
    <3>2. session[t].auth \in Nat /\ session[t].auth <= hashes /\ t \in issued
      BY <3>1 DEF Session, IInv, HashesInv
    <3>3. QED
      BY <1>1, <2>1, <3>2, SessionsChange
  <2>2. CASE Opened(t)
    <3>1. session'[t].auth \in Nat
      BY <2>2 DEF Opened, Session
    <3>2. QED
      BY <1>1, <2>2, <3>1 DEF Opened
  <2>3. QED
    BY <1>3, <2>1, <2>2, SessionsChange DEF SessionChange, Held
<1>4. QED
  BY <1>2, <1>3 DEF HashesInv

LEMMA Inductive == IInv /\ [Next]_vars => IInv'
  BY TypesKept, HashesKept, RequestsInformed DEF IInv

LEMMA Initially == Init => IInv
<1> SUFFICES ASSUME Init PROVE IInv
  OBVIOUS
<1>1. TypeOK
  BY DEF Init, TypeOK, Row
<1>2. QED
  BY <1>1 DEF Init, IInv, HashesInv, Held, Informed

(***************************************************************************)
(* The two action properties.                                              *)
(***************************************************************************)

(* However the handlers interleave, every one that is to write has read a  *)
(* live row, and checked that another administrator was there when it is   *)
(* to take one away; sessions and rows are of passwords that were made.    *)
THEOREM HandlersAreInformed == Spec => []IInv
  BY Initially, Inductive, PTL DEF Spec

(* Nothing but a whole-row save brings back a deleted user or the sessions *)
(* of a password that was changed.                                         *)
THEOREM RevivalsAreStaleSaves == Spec => RevivedOnlyByStaleSave
<1>1. ASSUME IInv, [Next]_vars, NEW u \in Users,
             \/ user[u].row = "deleted" /\ user'[u].row # "deleted"
             \/ \E t \in Tokens : Held(t) /\ session[t].user = u /\ ~Alive(t) /\ Alive(t)'
      PROVE  \E r \in Requests : StaleSave(r, u)
  <2>1. ASSUME NEW r \in Requests, Replaced(u, r), user'[u] # user[u]
        PROVE  StaleSave(r, u)
    <3>1. CASE request[r].seen # user[u]
      BY <2>1, <3>1 DEF Replaced, StaleSave
    <3>2. CASE request[r].seen = user[u]
      <4>1. user[u].row = "live" /\ user'[u].row = "live" /\ user'[u].auth = user[u].auth
        BY <1>1, <2>1, <3>2 DEF Replaced, At, IInv, Informed
      <4>2. ASSUME NEW t \in Tokens, Held(t), session[t].user = u, ~Alive(t), Alive(t)' PROVE FALSE
        <5>1. session'[t] = session[t]
          BY <1>1, <4>2, SessionsChange DEF SessionChange, Opened, IInv, HashesInv, Alive, Held
        <5>2. QED
          BY <4>1, <4>2, <5>1 DEF Alive, Held, Live
      <4>3. QED
        BY <1>1, <4>1, <4>2
    <3>3. QED  BY <3>1, <3>2
  <2>2. ASSUME NEW t \in Tokens, Held(t), session[t].user = u, ~Alive(t), Alive(t)'
        PROVE  \E r \in Requests : StaleSave(r, u)
    <3>1. session'[t] = session[t]
      BY <1>1, <2>2, SessionsChange DEF SessionChange, Opened, IInv, HashesInv, Alive, Held
    <3>2. user'[u].row = "live" /\ user'[u].auth = session[t].auth
      BY <2>2, <3>1 DEF Alive, Live
    <3>3. user'[u] # user[u]
      BY <2>2, <3>1, <3>2 DEF Alive, Live
    <3>4. ~Rehashed(u) /\ ~Born(u)
      <4>1. session[t] \in Session
        BY <1>1, <2>2 DEF Held, IInv, TypeOK
      <4>2. session[t].auth <= hashes /\ session[t].auth \in Nat /\ hashes \in Nat
        BY <1>1, <2>2, <4>1 DEF IInv, TypeOK, HashesInv, Session
      <4>3. QED
        BY <3>2, <4>2 DEF Rehashed, Born
    <3>5. \A r \in Requests : ~Buried(u, r)
      BY <3>2 DEF Buried
    <3>6. QED
      BY <1>1, <2>1, <3>3, <3>4, <3>5, RowsChange DEF RowChange
  <2>3. ASSUME user[u].row = "deleted", user'[u].row # "deleted"
        PROVE  \E r \in Requests : StaleSave(r, u)
    BY <1>1, <2>1, <2>3, RowsChange DEF RowChange, Rehashed, Born, Buried
  <2>4. QED
    BY <1>1, <2>2, <2>3
<1>2. IInv /\ [Next]_vars =>
        [\A u \in Users :
          \/ user[u].row = "deleted" /\ user'[u].row # "deleted"
          \/ \E t \in Tokens : Held(t) /\ session[t].user = u /\ ~Alive(t) /\ Alive(t)'
          => \E r \in Requests : StaleSave(r, u)]_vars
  BY <1>1
<1>3. QED
  BY <1>2, Initially, Inductive, PTL DEF Spec, RevivedOnlyByStaleSave

(* The last administrator is lost only to a handler that writes from a     *)
(* role, or a count of the other administrators, that has changed since.   *)
THEOREM LastAdminLossIsARace == Spec => LastAdminLostOnlyToRace
<1>1. ASSUME IInv, [Next]_vars, Admins # {}, Admins' = {}
      PROVE  \E r \in Requests : Outdated(r)
  <2>1. PICK u \in Users : Live(u) /\ user[u].admin
    BY <1>1 DEF Admins
  <2>2. \A v \in Users : ~(user'[v].row = "live" /\ user'[v].admin)
    BY <1>1 DEF Admins, Live
  <2>3. user'[u] # user[u] /\ \A v \in Users : v # u => user'[v] = user[v]
    BY <1>1, <2>1, <2>2, RowsChange DEF OneRow, Live
  <2>4. Admins = {u}
    BY <2>1, <2>2, <2>3 DEF Admins, Live
  <2>5. PICK r \in Requests : Buried(u, r) \/ Replaced(u, r)
    BY <1>1, <2>1, <2>2, <2>3, RowsChange DEF RowChange, Rehashed, Born, Live
  <2>6. u \notin request[r].others
    BY <1>1, <2>5 DEF Buried, Replaced, At, IInv, Informed
  <2>7. request[r].others \cap Admins = {}
    BY <2>4, <2>6
  <2>8. CASE request[r].seen.admin # user[u].admin
    BY <2>5, <2>8 DEF Buried, Replaced, Outdated
  <2>9. CASE request[r].seen.admin = user[u].admin
    <3>1. request[r].seen.admin
      BY <2>1, <2>9
    <3>2. CASE Buried(u, r)
      <4>1. request[r].others # {}
        BY <1>1, <3>1, <3>2 DEF Buried, At, IInv, Informed
      <4>2. QED
        BY <2>7, <3>2, <4>1 DEF Buried, Outdated
    <3>3. CASE Replaced(u, r)
      <4>1. At(r, "saveRole") /\ ~request[r].admin
        BY <2>2, <3>1, <3>3 DEF Replaced
      <4>2. request[r].others # {}
        BY <1>1, <3>1, <4>1 DEF At, IInv, Informed
      <4>3. QED
        BY <2>7, <3>3, <4>2 DEF Replaced, Outdated
    <3>4. QED  BY <2>5, <3>2, <3>3
  <2>10. QED  BY <2>8, <2>9
<1>2. IInv /\ [Next]_vars =>
        [Admins # {} /\ Admins' = {} => \E r \in Requests : Outdated(r)]_vars
  BY <1>1
<1>3. QED
  BY <1>2, Initially, Inductive, PTL DEF Spec, LastAdminLostOnlyToRace
=============================================================================
