------------------------------ MODULE Accounts ------------------------------
(***************************************************************************)
(* User accounts, sign-in and browser sessions (backend/app/auth, users,   *)
(* access).  A request reads in one transaction and commits later; between *)
(* the two, other requests commit (READ COMMITTED, no row is locked by a   *)
(* read).  LOCK TABLE users IN SHARE ROW EXCLUSIVE MODE keeps every other  *)
(* writer of users waiting until its transaction ends.  An account is      *)
(* named by its email, which is unique; a request that refers to an        *)
(* account by its id fails when that account is deleted.                   *)
(***************************************************************************)
EXTENDS Integers, FiniteSets

CONSTANTS
  User,        \* emails
  Subject,     \* subjects of the OIDC provider
  Session,     \* slots for browser sessions; one beyond them is not followed
  Request,     \* requests open at once
  MaxRequest,  \* bound: requests ever begun
  Scope,       \* bound: the sets of operations a behaviour may draw on
  None         \* no user, subject, session or request

ASSUME NoneAssumption == None \notin User \cup Session \cup Request
ASSUME MaxRequestAssumption == MaxRequest \in Nat

Level == {"none", "view", "operate"}
Wish == {"keep", "yes", "no"}
Grants == [User -> Level]

SessionRow ==
  [user : User, password : Nat, state : {"live", "revoked", "expired", "deleted"}, straddled : BOOLEAN]

ASSUME NoSessionAssumption == None \notin SessionRow

VARIABLES
  scope, begun,       \* which operations occur; requests begun
  account, admin,     \* users.is_active ("none": no row), system.admin
  password,           \* version of the local password, 0 without one
  linked,             \* the account an OIDC subject is linked to
  grant, template,    \* the level on the vehicle, and of the default access
  session,            \* None or the session in the slot
  lock,               \* the request that holds the users table
  request,            \* None or what an open request has read
  founders,           \* accounts made as first administrator
  raced,              \* two removals of access overlapped
  collided            \* a first OIDC login met what another had written

userVars == <<account, admin, password, linked, grant, template>>
historyVars == <<founders, raced, collided>>
accountVars == <<scope, begun, userVars, session, lock, request, historyVars>>

(* Mutant: a suspended administrator counts.                               *)
OtherAdmin_suspended(u) == \E w \in User \ {u} : account[w] # "none" /\ admin[w]

Exists(u) == account[u] # "none"
ActiveAdmins == {u \in User : account[u] = "active" /\ admin[u]}
(* _other_active_admin_exists                                              *)
OtherAdmin(u) == ActiveAdmins \ {u} # {}

(* current_user and require_admin: what every request checks again.        *)
Usable(i) ==
  /\ session[i] # None
  /\ session[i].state = "live"
  /\ account[session[i].user] = "active"
AdminSession(i) == Usable(i) /\ admin[session[i].user]

SignedIn(u) == [user |-> u, password |-> 1, state |-> "live", straddled |-> FALSE]

(* Either nothing is installed yet, or every account exists and has a      *)
(* local password, and some sessions are open.                             *)
Fresh ==
  /\ account = [u \in User |-> "none"] /\ admin = [u \in User |-> FALSE]
  /\ password = [u \in User |-> 0]
  /\ session = [i \in Session |-> None]

Installed ==
  /\ account \in [User -> {"active", "suspended"}]
  /\ admin \in [User -> BOOLEAN]
  /\ ActiveAdmins # {}
  /\ password = [u \in User |-> 1]
  /\ \E owner \in [Session -> User \cup {None}] :
       session = [i \in Session |-> IF owner[i] = None THEN None ELSE SignedIn(owner[i])]

(* Scopes that begin before there is any account.                          *)
Uninstalled == {"found", "fleet", "vehicle"}

AccountsInit ==
  /\ scope \in Scope /\ begun = 0
  /\ IF scope \cap Uninstalled # {} THEN Fresh /\ linked = [s \in Subject |-> None]
     ELSE Installed /\ linked \in [Subject -> User]
  /\ grant = [u \in User |-> "none"] /\ template = "none"
  /\ lock = None /\ request = [r \in Request |-> None]
  /\ founders = {} /\ raced = FALSE /\ collided = FALSE

(* Which free slot is taken makes no difference.                           *)
Slot(f) == CHOOSE x \in DOMAIN f : f[x] = None

Start(r, q) ==
  /\ q.op \in scope /\ request[r] = None /\ r = Slot(request) /\ begun < MaxRequest
  /\ begun' = begun + 1
  /\ request' = [request EXCEPT ![r] = q]

Finish(r) == request' = [request EXCEPT ![r] = None]
Open(r, op) == request[r] # None /\ request[r].op = op
MayWrite(r) == lock \in {None, r}
Release(r) == lock' = IF lock = r THEN None ELSE lock

(* A new session takes a free slot when there is one (create_session).     *)
SignIn(u, version, straddled) ==
  IF \A i \in Session : session[i] # None THEN UNCHANGED session
  ELSE session' = [session EXCEPT ![Slot(session)] =
         [user |-> u, password |-> version, state |-> "live", straddled |-> straddled]]

-----------------------------------------------------------------------------
(* Accounts changed by an administrator (users/routes.py, users/services). *)

Applied(wish, value) == wish = "yes" \/ (wish = "keep" /\ value)
Changed(wish, value) == IF (wish = "yes") = value THEN "keep" ELSE wish
(* Two requests both take access away: each trusted what it read.          *)
Removes(q) ==
  q # None /\ (q.op = "delete" \/ (q.op \in {"update", "oidc"} /\ "no" \in {q.admin, q.active}))
Races(r) == Removes(request[r]) /\ \E q \in Request \ {r} : Removes(request[q])

BeginUpdate(r, i, u, wantAdmin, wantActive) ==
  /\ AdminSession(i) /\ Exists(u)
  /\ u = session[i].user => "no" \notin {wantAdmin, wantActive}
  /\ admin[u] /\ wantAdmin = "no" => OtherAdmin(u)
  /\ account[u] = "active" /\ wantActive = "no" /\ Applied(wantAdmin, admin[u]) => OtherAdmin(u)
  /\ Start(r, [op |-> "update", target |-> u, session |-> None,
               admin |-> Changed(wantAdmin, admin[u]),
               active |-> Changed(wantActive, account[u] = "active")])
  /\ UNCHANGED <<scope, userVars, session, lock, historyVars>>

(* Only the columns that changed are written.                              *)
CommitUpdate(r) ==
  /\ Open(r, "update") /\ MayWrite(r)
  /\ LET q == request[r] IN
     /\ admin' = [admin EXCEPT ![q.target] = Applied(q.admin, @)]
     /\ account' = [account EXCEPT ![q.target] =
                      IF Applied(q.active, @ = "active") THEN "active" ELSE "suspended"]
  /\ Finish(r) /\ raced' = (raced \/ Races(r))
  /\ UNCHANGED <<scope, begun, password, linked, grant, template, session, lock, founders, collided>>

BeginDelete(r, i, u) ==
  /\ AdminSession(i) /\ Exists(u) /\ u # session[i].user
  /\ admin[u] => OtherAdmin(u)
  /\ Start(r, [op |-> "delete", target |-> u, session |-> None])
  /\ UNCHANGED <<scope, userVars, session, lock, historyVars>>

(* The cascade waits for a session row that an open request has written.   *)
CommitDelete(r) ==
  /\ Open(r, "delete") /\ MayWrite(r)
  /\ LET u == request[r].target IN
     /\ \A q \in Request \ {r} :
          request[q] # None /\ request[q].session # None => request[q].target # u
     /\ account' = [account EXCEPT ![u] = "none"]
     /\ admin' = [admin EXCEPT ![u] = FALSE]
     /\ password' = [password EXCEPT ![u] = 0]
     /\ linked' = [s \in Subject |-> IF linked[s] = u THEN None ELSE linked[s]]
     /\ grant' = [grant EXCEPT ![u] = "none"]
     /\ session' = [i \in Session |->
          IF session[i] # None /\ session[i].user = u
            THEN [session[i] EXCEPT !.state = "deleted"] ELSE session[i]]
     /\ request' = [q \in Request |->
          IF q = r \/ (request[q] # None /\ request[q].target = u) THEN None ELSE request[q]]
  /\ raced' = (raced \/ Races(r))
  /\ UNCHANGED <<scope, begun, template, lock, founders, collided>>

-----------------------------------------------------------------------------
(* Accounts made (auth/services.py, users/routes.py).                      *)

(* apply_default_access: the template's level, once, when the account is   *)
(* made.                                                                   *)
DefaultAccess(u) == [grant EXCEPT ![u] = template]

(* create_local_user                                                       *)
MakeAccount(u, isAdmin, version) ==
  /\ account' = [account EXCEPT ![u] = "active"]
  /\ admin' = [admin EXCEPT ![u] = isAdmin]
  /\ password' = [password EXCEPT ![u] = version]
  /\ grant' = DefaultAccess(u)

BeginCreate(r, i, u, isAdmin) ==
  /\ AdminSession(i) /\ ~Exists(u)
  /\ Start(r, [op |-> "create", target |-> None, session |-> None, email |-> u, isAdmin |-> isAdmin])
  /\ UNCHANGED <<scope, userVars, session, lock, historyVars>>

(* The unique email refuses a second insertion.                            *)
CommitCreate(r) ==
  /\ Open(r, "create") /\ MayWrite(r) /\ Finish(r)
  /\ IF Exists(request[r].email)
       THEN UNCHANGED <<account, admin, password, grant>>
       ELSE MakeAccount(request[r].email, request[r].isAdmin, 1)
  /\ UNCHANGED <<scope, begun, linked, template, session, lock, historyVars>>

BeginFound(r, u, registering) ==
  /\ Start(r, [op |-> "found", target |-> None, session |-> None, email |-> u,
               registering |-> registering, locked |-> FALSE])
  /\ UNCHANGED <<scope, userVars, session, lock, historyVars>>

(* register is closed when OIDC is configured.                             *)
Register(r, u) == "oidc" \notin scope /\ BeginFound(r, u, TRUE)

(* At startup, with OIDC or without, and no session is opened.             *)
Bootstrap(r, u) == BeginFound(r, u, FALSE)

(* Mutant: the users are counted without the lock.                         *)
LockFound_unlocked(r) ==
  /\ Open(r, "found") /\ ~request[r].locked
  /\ IF \E u \in User : Exists(u)
       THEN Finish(r)
       ELSE request' = [request EXCEPT ![r].locked = TRUE]
  /\ UNCHANGED <<scope, begun, userVars, session, lock, historyVars>>

(* _lock_user_creation, then the count of the users.                       *)
LockFound(r) ==
  /\ Open(r, "found") /\ ~request[r].locked /\ lock = None
  /\ IF \E u \in User : Exists(u)
       THEN Finish(r) /\ UNCHANGED lock
       ELSE /\ request' = [request EXCEPT ![r].locked = TRUE]
            /\ lock' = r
  /\ UNCHANGED <<scope, begun, userVars, session, historyVars>>

CommitFound(r) ==
  /\ Open(r, "found") /\ request[r].locked
  /\ LET u == request[r].email IN
     /\ MakeAccount(u, TRUE, 1)
     /\ founders' = founders \cup {u}
     /\ IF request[r].registering THEN SignIn(u, 1, FALSE) ELSE UNCHANGED session
  /\ Finish(r) /\ Release(r)
  /\ UNCHANGED <<scope, begun, linked, template, raced, collided>>

-----------------------------------------------------------------------------
(* Sign-in through the OIDC provider (auth/oidc.py).                       *)

(* _map_admin_group: a demotion the guard refuses is skipped.              *)
GroupWish(u, group) ==
  IF group THEN Changed("yes", admin[u])
  ELSE IF OtherAdmin(u) THEN Changed("no", admin[u]) ELSE "keep"

Recognised(s, u, group) ==
  [op |-> "oidc", target |-> u, session |-> None, subject |-> s, email |-> None,
   group |-> group, admin |-> GroupWish(u, group), active |-> "keep"]

Unrecognised(s, email, group) ==
  [op |-> "oidc", target |-> None, session |-> None, subject |-> s, email |-> email,
   group |-> group, admin |-> "keep", active |-> "keep"]

(* A linked subject is signed in at once (if its account is active); any   *)
(* other one waits for the lock, with its verified email.                  *)
BeginOidc(r, s, email, group) ==
  /\ IF linked[s] # None
       THEN account[linked[s]] = "active" /\ Start(r, Recognised(s, linked[s], group))
       ELSE Start(r, Unrecognised(s, email, group))
  /\ UNCHANGED <<scope, userVars, session, lock, historyVars>>

(* Mutant: the subject is not looked up again under the lock.              *)
LockOidc_unchecked(r) ==
  /\ Open(r, "oidc") /\ request[r].target = None /\ request[r].email # None /\ lock = None
  /\ LET q == request[r]
     IN IF account[q.email] = "suspended"
          THEN Finish(r) /\ UNCHANGED lock
          ELSE /\ request' = [request EXCEPT ![r] =
                     [Recognised(q.subject, q.email, q.group) EXCEPT !.email = q.email]]
               /\ lock' = r
  /\ UNCHANGED <<scope, begun, userVars, session, historyVars>>

(* With the lock: the subject is looked up again, then its email; what is  *)
(* read stays true until the commit, since nobody else writes users.       *)
LockOidc(r) ==
  /\ Open(r, "oidc") /\ request[r].target = None /\ request[r].email # None /\ lock = None
  /\ LET q == request[r]
         known == linked[q.subject] # None
         u == IF known THEN linked[q.subject] ELSE q.email
         next == [Recognised(q.subject, u, q.group) EXCEPT !.email = IF known THEN None ELSE u]
     IN IF account[u] = "suspended"
          THEN Finish(r) /\ UNCHANGED lock
          ELSE request' = [request EXCEPT ![r] = next] /\ lock' = r
  /\ UNCHANGED <<scope, begun, userVars, session, historyVars>>

(* email # None: the login makes the identity, and the account when there  *)
(* is none of that email (oidc_auto_provision).                            *)
CommitOidc(r) ==
  /\ Open(r, "oidc") /\ request[r].target # None
  /\ LET q == request[r]
         u == q.target
         taken == q.email # None /\ linked[q.subject] # None
     IN /\ q.admin # "keep" \/ q.email # None => MayWrite(r)
        /\ collided' = (collided \/ taken)
        /\ IF taken
             THEN UNCHANGED <<account, admin, password, linked, grant, session>>
             ELSE /\ linked' = [linked EXCEPT ![q.subject] = u]
                  /\ SignIn(u, 0, FALSE)
                  /\ IF Exists(u)
                       THEN /\ admin' = [admin EXCEPT ![u] = Applied(q.admin, @)]
                            /\ UNCHANGED <<account, password, grant>>
                       ELSE MakeAccount(u, Applied(q.admin, FALSE), 0)
  /\ Finish(r) /\ Release(r) /\ raced' = (raced \/ Races(r))
  /\ UNCHANGED <<scope, begun, template, founders>>

-----------------------------------------------------------------------------
(* Local sign-in, passwords and sessions (auth/routes.py).                 *)

BeginLogin(r, u) ==
  /\ account[u] = "active" /\ password[u] > 0
  /\ Start(r, [op |-> "login", target |-> u, session |-> None,
               password |-> password[u], straddled |-> FALSE])
  /\ UNCHANGED <<scope, userVars, session, lock, historyVars>>

CommitLogin(r) ==
  /\ Open(r, "login")
  /\ SignIn(request[r].target, request[r].password, request[r].straddled)
  /\ Finish(r)
  /\ UNCHANGED <<scope, begun, userVars, lock, historyVars>>

(* last_seen_at of the own session is flushed before the first query, so a *)
(* request holds that row until it ends.                                   *)
Holds(q, i) == request[q] # None /\ request[q].session = i

BeginOwn(r, i, q) ==
  /\ Usable(i) /\ \A p \in Request : ~Holds(p, i)
  /\ Start(r, q)
  /\ UNCHANGED <<scope, userVars, session, lock, historyVars>>

BeginPassword(r, i) ==
  /\ session[i] # None /\ password[session[i].user] > 0
  /\ BeginOwn(r, i, [op |-> "password", target |-> session[i].user, session |-> i])

BeginRevoke(r, i, j) ==
  /\ session[i] # None /\ session[j] # None /\ session[j].user = session[i].user
  /\ session[j].state # "deleted"
  /\ BeginOwn(r, i, [op |-> "revoke", target |-> session[i].user, session |-> i, other |-> j])

(* Mutant: changing the password leaves the other sessions open.           *)
Rows_kept(r) == IF request[r].op = "revoke" THEN {request[r].other} ELSE {}

(* The session rows a request writes besides its own.                      *)
Rows(r) ==
  IF request[r].op = "revoke" THEN {request[r].other}
  ELSE {j \in Session : /\ session[j] # None /\ session[j].user = request[r].target
                        /\ session[j].state \in {"live", "expired"} /\ j # request[r].session}

WaitsFor(r, q) == q # r /\ request[q] # None /\ request[q].session \in Rows(r)
Blocked(r) == \E q \in Request : WaitsFor(r, q)

(* change_password and revoke_other_sessions; a login that has verified    *)
(* the old password is not among the sessions yet.                         *)
CommitPassword(r) ==
  /\ Open(r, "password") /\ ~Blocked(r)
  /\ LET u == request[r].target IN
     /\ password' = [password EXCEPT ![u] = @ + 1]
     /\ session' = [j \in Session |->
          IF j = request[r].session THEN [session[j] EXCEPT !.password = password[u] + 1]
          ELSE IF j \in Rows(r) THEN [session[j] EXCEPT !.state = "revoked"]
          ELSE session[j]]
     /\ request' = [q \in Request |->
          IF q = r THEN None
          ELSE IF Open(q, "login") /\ request[q].target = u
               THEN [request[q] EXCEPT !.straddled = TRUE]
          ELSE request[q]]
  /\ UNCHANGED <<scope, begun, account, admin, linked, grant, template, lock, historyVars>>

CommitRevoke(r) ==
  /\ Open(r, "revoke") /\ ~Blocked(r)
  /\ session' = [session EXCEPT ![request[r].other].state = "revoked"]
  /\ Finish(r)
  /\ UNCHANGED <<scope, begun, userVars, lock, historyVars>>

(* Two requests that hold the row the other one waits for: PostgreSQL      *)
(* aborts one of them.                                                     *)
Deadlocked(r) ==
  /\ Open(r, "password") \/ Open(r, "revoke")
  /\ \E q \in Request : WaitsFor(r, q) /\ WaitsFor(q, r)
  /\ Finish(r)
  /\ UNCHANGED <<scope, begun, userVars, session, lock, historyVars>>

Logout(i) ==
  /\ "logout" \in scope /\ Usable(i) /\ \A q \in Request : ~Holds(q, i)
  /\ session' = [session EXCEPT ![i].state = "revoked"]
  /\ UNCHANGED <<scope, begun, userVars, lock, request, historyVars>>

(* expires_at passes.                                                      *)
Expire(i) ==
  /\ "logout" \in scope /\ session[i] # None /\ session[i].state = "live"
  /\ session' = [session EXCEPT ![i].state = "expired"]
  /\ UNCHANGED <<scope, begun, userVars, lock, request, historyVars>>

-----------------------------------------------------------------------------
AccountsNext ==
  \/ \E r \in Request, u \in User :
       \/ BeginLogin(r, u)
       \/ Register(r, u) \/ Bootstrap(r, u)
       \/ \E s \in Subject, group \in BOOLEAN : BeginOidc(r, s, u, group)
       \/ \E i \in Session :
            \/ BeginDelete(r, i, u)
            \/ \E isAdmin \in BOOLEAN : BeginCreate(r, i, u, isAdmin)
            \/ \E wantAdmin, wantActive \in Wish :
                 "update" \in scope /\ BeginUpdate(r, i, u, wantAdmin, wantActive)
  \/ \E r \in Request, i \in Session :
       \/ BeginPassword(r, i)
       \/ \E j \in Session : BeginRevoke(r, i, j)
  \/ \E r \in Request :
       \/ CommitUpdate(r) \/ CommitDelete(r) \/ CommitCreate(r)
       \/ LockFound(r) \/ CommitFound(r) \/ LockOidc(r) \/ CommitOidc(r)
       \/ CommitLogin(r) \/ CommitPassword(r) \/ CommitRevoke(r) \/ Deadlocked(r)
  \/ \E i \in Session : Logout(i) \/ Expire(i)

AccountsSpec == AccountsInit /\ [][AccountsNext]_accountVars

(* The first administrator is made once, whatever else is in progress:     *)
(* only a race that leaves no account reopens the door.                    *)
FirstAdminOnly == ~raced => Cardinality(founders) <= 1

(* Concurrent first logins of one subject find one account and all         *)
(* succeed: none is refused by what another has just written.              *)
FirstLoginsAgree == ~collided

(* No sequence of promotions, suspensions, deletions and group mappings    *)
(* removes the last active administrator, unless two removals overlapped.  *)
AdminRemains == [][ActiveAdmins # {} /\ ActiveAdmins' = {} => raced']_accountVars

(* The last active administrator cannot be demoted, suspended or deleted   *)
(* (docs/developers/architecture.md).                                      *)
AdminAlwaysRemains == [][ActiveAdmins # {} => ActiveAdmins' # {}]_accountVars

(* A session that was opened with an older password is gone, unless it is  *)
(* the one that changed it or its login was in progress meanwhile.         *)
PasswordChangeEvicts ==
  \A i \in Session :
    session[i] # None =>
      (session[i].state = "live" /\ session[i].password \in 1..(password[session[i].user] - 1)
         => session[i].straddled)
=============================================================================
