--------------------------- MODULE AccountsProofs ---------------------------
(***************************************************************************)
(* The first and the last administrator, first logins and changed          *)
(* passwords, for any number of accounts, subjects, sessions and requests. *)
(***************************************************************************)
EXTENDS Accounts, FiniteSetTheorems, TLAPS

States == {"none", "active", "suspended"}

UserTypes ==
  /\ account \in [User -> States] /\ admin \in [User -> BOOLEAN] /\ password \in [User -> Nat]
  /\ linked \in [Subject -> User \union {None}]
  /\ session \in [Session -> SessionRow \union {None}] /\ raced \in BOOLEAN

(* What a request of each kind has read, as far as the proof asks.         *)
Shape(q) ==
  /\ q.op = "update" =>
       q \in [op : {"update"}, target : User, session : {None}, admin : Wish, active : Wish]
  /\ q.op = "delete" => q.target \in User
  /\ q.op = "create" => q.email \in User /\ q.isAdmin \in BOOLEAN
  /\ q.op = "found" =>
       q \in [op : {"found"}, target : {None}, session : {None}, email : User,
              registering : BOOLEAN, locked : BOOLEAN]
  /\ q.op = "oidc" =>
       q \in [op : {"oidc"}, target : User \union {None}, session : {None}, subject : Subject,
              email : User \union {None}, group : BOOLEAN, admin : Wish, active : {"keep"}]
  /\ q.op = "login" =>
       q \in [op : {"login"}, target : User, session : {None}, password : Nat, straddled : BOOLEAN]
  /\ q.op \in {"password", "revoke"} => q.target \in User

RequestTypes ==
  /\ request = [r \in Request |-> request[r]]
  /\ \A r \in Request : request[r] # None => Shape(request[r])

(* The sessions a request has read.                                        *)
Reads(q) ==
  /\ q.op \in {"password", "revoke"} => q.session \in Session /\ session[q.session] \in SessionRow
  /\ q.op = "revoke" => q.other \in Session /\ session[q.other] \in SessionRow

(* The sessions a request has read stay.                                   *)
SessionsRead ==
  \A r \in Request : request[r] # None => Reads(request[r])

(* A step that may open and end sessions.                                  *)
SessionsStay ==
  /\ session' \in [Session -> SessionRow \union {None}]
  /\ \A i \in Session : session[i] \in SessionRow => session'[i] \in SessionRow

(* A request that has found no account keeps it so by its lock; a first    *)
(* login that has found none of its subject holds it too.                  *)
Founds(q) == q # None /\ q.op = "found" /\ q.locked
FirstLogin(q) == q # None /\ q.op = "oidc" /\ q.target # None /\ q.email # None
LockKeepsOut ==
  \A r \in Request :
    /\ Founds(request[r]) => lock = r /\ \A u \in User : ~Exists(u)
    /\ FirstLogin(request[r]) => lock = r

(* Requests that would make an account of their target find it there.      *)
Expects(q) == q # None /\ (q.op = "update" \/ (q.op = "oidc" /\ q.target # None /\ q.email = None))
TargetsExist ==
  /\ \A r \in Request : Expects(request[r]) => Exists(request[r].target)
  /\ \A s \in Subject : linked[s] # None => Exists(linked[s])

(* What a removal has read is still so when it commits, unless another one *)
(* has been committed meanwhile.                                           *)
AdminsCounted ==
  ~raced =>
    /\ founders = {} \/ \E u \in User : founders = {u}
    /\ founders # {} => ActiveAdmins # {}
    /\ \A r \in Request : Removes(request[r]) => ActiveAdmins \ {request[r].target} # {}

AccountsInv == UserTypes /\ RequestTypes /\ SessionsRead /\ LockKeepsOut /\ TargetsExist /\ AdminsCounted

LEMMA AccountsInitHolds == AccountsInit => AccountsInv
<1> SUFFICES ASSUME AccountsInit PROVE AccountsInv
  OBVIOUS
<1>1. RequestTypes /\ SessionsRead /\ LockKeepsOut
  BY DEF AccountsInit, RequestTypes, SessionsRead, LockKeepsOut, Founds, FirstLogin
<1>2. UserTypes /\ TargetsExist
  <2>1. CASE Fresh /\ linked = [s \in Subject |-> None]
    BY <2>1 DEF AccountsInit, Fresh, UserTypes, States, TargetsExist, Expects
  <2>2. CASE Installed /\ linked \in [Subject -> User]
    <3>1. PICK owner \in [Session -> User \union {None}] :
             session = [i \in Session |-> IF owner[i] = None THEN None ELSE SignedIn(owner[i])]
      BY <2>2 DEF Installed
    <3>2. session \in [Session -> SessionRow \union {None}]
      BY <3>1 DEF SignedIn, SessionRow
    <3> QED
      BY <2>2, <3>2 DEF AccountsInit, Installed, UserTypes, States, TargetsExist, Expects, Exists
  <2> QED
    BY <2>1, <2>2 DEF AccountsInit
<1>3. AdminsCounted
  BY DEF AccountsInit, AdminsCounted, Removes
<1> QED
  BY <1>1, <1>2, <1>3 DEF AccountsInv

-----------------------------------------------------------------------------
LEMMA SessionsSame ==
  ASSUME AccountsInv, UNCHANGED session
  PROVE  SessionsStay
  BY DEF AccountsInv, UserTypes, SessionsStay

(* A request begins, goes on or ends, and nothing of the accounts changes. *)
LEMMA RequestKeeps ==
  ASSUME AccountsInv, NEW r \in Request, NEW q,
         request' = [request EXCEPT ![r] = q], UNCHANGED <<userVars, historyVars>>,
         SessionsStay, q # None => Shape(q) /\ Reads(q),
         \A p \in Request \ {r} : lock = p => lock' = p,
         Founds(q) => lock' = r /\ \A u \in User : ~Exists(u),
         FirstLogin(q) => lock' = r,
         Expects(q) => Exists(q.target),
         Removes(q) => ActiveAdmins \ {q.target} # {}
  PROVE  AccountsInv'
<1>1. /\ request'[r] = q
      /\ \A p \in Request \ {r} : request'[p] = request[p]
      /\ request' = [p \in Request |-> request'[p]]
  BY DEF AccountsInv, RequestTypes
<1>2. ActiveAdmins' = ActiveAdmins /\ \A u \in User : Exists(u)' <=> Exists(u)
  BY DEF userVars, ActiveAdmins, Exists
<1>3. UserTypes'
  BY DEF AccountsInv, UserTypes, userVars, historyVars, SessionsStay
<1>8. SessionsRead'
  BY <1>1 DEF AccountsInv, SessionsRead, Reads, SessionsStay
<1>4. RequestTypes'
  BY <1>1 DEF AccountsInv, RequestTypes
<1>5. LockKeepsOut'
  BY <1>1, <1>2 DEF AccountsInv, LockKeepsOut
<1>6. TargetsExist'
  BY <1>1 DEF AccountsInv, TargetsExist, Exists, userVars
<1>7. AdminsCounted'
  BY <1>1, <1>2 DEF AccountsInv, AdminsCounted, historyVars
<1> QED
  BY <1>3, <1>4, <1>5, <1>6, <1>7, <1>8 DEF AccountsInv

(* Nothing but sessions changes.                                           *)
LEMMA SessionKeeps ==
  ASSUME AccountsInv, UNCHANGED <<userVars, lock, request, historyVars>>, SessionsStay
  PROVE  AccountsInv'
<1>1. SessionsRead'
  BY DEF AccountsInv, SessionsRead, Reads, SessionsStay
<1> QED
  BY <1>1 DEF AccountsInv, UserTypes, RequestTypes, LockKeepsOut, TargetsExist, AdminsCounted, ActiveAdmins,
              Exists, userVars, historyVars, SessionsStay

(* A commit ends the request and maybe others, and changes accounts.       *)
LEMMA CommitKeeps ==
  ASSUME AccountsInv, UserTypes', SessionsStay, AdminsCounted',
         request' = [p \in Request |-> request'[p]],
         \A p \in Request : request'[p] \in {None, request[p]},
         \A p \in Request : request'[p] # None /\ lock = p => lock' = p,
         \A p \in Request, u \in User : Founds(request'[p]) => ~Exists(u)',
         TargetsExist'
  PROVE  AccountsInv'
<1>1. RequestTypes'
  BY DEF AccountsInv, RequestTypes
<1>2. LockKeepsOut'
  BY DEF AccountsInv, LockKeepsOut, Founds, FirstLogin
<1>3. SessionsRead'
  BY DEF AccountsInv, SessionsRead, Reads, SessionsStay
<1> QED
  BY <1>1, <1>2, <1>3 DEF AccountsInv

(* Two ways to change who administers: by adding, and by a removal that no *)
(* other one overlaps.                                                     *)
LEMMA AdminsGrow ==
  ASSUME AdminsCounted, ActiveAdmins \subseteq ActiveAdmins', founders' = founders, raced' = FALSE => raced = FALSE,
         raced \in BOOLEAN,
         \A p \in Request : request'[p] \in {None, request[p]}
  PROVE  AdminsCounted'
  BY DEF AdminsCounted, Removes

LEMMA AdminRemoved ==
  ASSUME AdminsCounted, NEW r \in Request, Removes(request[r]),
         ActiveAdmins \ {request[r].target} \subseteq ActiveAdmins',
         founders' = founders, raced' = (raced \/ Races(r)),
         \A p \in Request : request'[p] \in {None, request[p]}, request'[r] = None
  PROVE  AdminsCounted' /\ (ActiveAdmins' = {} => raced')
<1> DEFINE u == request[r].target
<1>1. CASE raced'
  BY <1>1 DEF AdminsCounted
<1>2. CASE ~raced'
  <2>1. ~raced /\ \A p \in Request \ {r} : ~Removes(request[p])
    BY <1>2 DEF Races
  <2>2. ActiveAdmins \ {u} # {} /\ (founders = {} \/ \E v \in User : founders = {v})
    BY <2>1 DEF AdminsCounted
  <2>3. ActiveAdmins' # {}
    BY <2>2
  <2>4. \A p \in Request : ~Removes(request'[p])
    <3>1. ~Removes(None)
      BY DEF Removes
    <3> QED
      BY <2>1, <3>1
  <2> QED
    BY <2>2, <2>3, <2>4 DEF AdminsCounted, Removes
<1> QED
  BY <1>1, <1>2

-----------------------------------------------------------------------------
(* Requests that only read, and the ones of sessions.                      *)

LEMMA BeginUpdateKeeps ==
  ASSUME AccountsInv, NEW r \in Request, NEW i \in Session, NEW u \in User,
         NEW wantAdmin \in Wish, NEW wantActive \in Wish, BeginUpdate(r, i, u, wantAdmin, wantActive)
  PROVE  AccountsInv'
<1> DEFINE q == [op |-> "update", target |-> u, session |-> None,
                 admin |-> Changed(wantAdmin, admin[u]),
                 active |-> Changed(wantActive, account[u] = "active")]
<1>1. /\ request' = [request EXCEPT ![r] = q]
      /\ UNCHANGED <<userVars, session, lock, historyVars>>
  BY DEF BeginUpdate, Start
<1>2. q.admin \in Wish /\ q.active \in Wish
  BY DEF Changed, Wish
<1>3. Shape(q) /\ Reads(q) /\ ~Founds(q) /\ ~FirstLogin(q) /\ q.target = u /\ Exists(u)
  BY <1>2 DEF Shape, Reads, Founds, FirstLogin, BeginUpdate
<1>4. session[i].user \in ActiveAdmins
  BY DEF BeginUpdate, AdminSession, Usable, ActiveAdmins, AccountsInv, UserTypes, SessionRow
<1>5. q.admin = "no" => OtherAdmin(u)
  BY DEF Changed, BeginUpdate, AccountsInv, UserTypes
<1>6. q.active = "no" => OtherAdmin(u) \/ u \notin ActiveAdmins
  BY DEF Changed, Applied, BeginUpdate, AccountsInv, UserTypes, Wish, ActiveAdmins
<1>7. Removes(q) => ActiveAdmins \ {q.target} # {}
  BY <1>3, <1>4, <1>5, <1>6 DEF Removes, OtherAdmin
<1> QED
  BY <1>1, <1>3, <1>7, SessionsSame, RequestKeeps

LEMMA BeginDeleteKeeps ==
  ASSUME AccountsInv, NEW r \in Request, NEW i \in Session, NEW u \in User, BeginDelete(r, i, u)
  PROVE  AccountsInv'
<1> DEFINE q == [op |-> "delete", target |-> u, session |-> None]
<1>1. /\ request' = [request EXCEPT ![r] = q]
      /\ UNCHANGED <<userVars, session, lock, historyVars>>
  BY DEF BeginDelete, Start
<1>2. Shape(q) /\ Reads(q) /\ ~Founds(q) /\ ~FirstLogin(q) /\ ~Expects(q) /\ q.target = u
  BY DEF Shape, Reads, Founds, FirstLogin, Expects
<1>3. session[i].user \in ActiveAdmins
  BY DEF BeginDelete, AdminSession, Usable, ActiveAdmins, AccountsInv, UserTypes, SessionRow
<1>4. ActiveAdmins \ {u} # {}
  BY <1>3 DEF BeginDelete, OtherAdmin
<1> QED
  BY <1>1, <1>2, <1>4, SessionsSame, RequestKeeps

LEMMA BeginOidcKeeps ==
  ASSUME AccountsInv, NEW r \in Request, NEW s \in Subject, NEW email \in User, NEW group \in BOOLEAN,
         BeginOidc(r, s, email, group)
  PROVE  AccountsInv'
<1>1. UNCHANGED <<userVars, session, lock, historyVars>>
  BY DEF BeginOidc
<1>2. CASE linked[s] # None
  <2> DEFINE q == Recognised(s, linked[s], group)
  <2>1. request' = [request EXCEPT ![r] = q] /\ linked[s] \in User
    BY <1>2 DEF BeginOidc, Start, AccountsInv, UserTypes
  <2>2. GroupWish(linked[s], group) \in Wish
    BY DEF GroupWish, Changed, Wish
  <2>3. Shape(q) /\ Reads(q) /\ ~Founds(q) /\ ~FirstLogin(q) /\ q.target = linked[s]
    BY <2>1, <2>2 DEF Shape, Reads, Founds, FirstLogin, Recognised
  <2>4. Exists(linked[s])
    BY <1>2 DEF AccountsInv, TargetsExist
  <2>5. Removes(q) => OtherAdmin(linked[s])
    BY DEF Removes, Recognised, GroupWish, Changed
  <2> QED
    BY <1>1, <2>1, <2>3, <2>4, <2>5, SessionsSame, RequestKeeps DEF OtherAdmin
<1>3. CASE linked[s] = None
  <2> DEFINE q == Unrecognised(s, email, group)
  <2>1. request' = [request EXCEPT ![r] = q]
    BY <1>3 DEF BeginOidc, Start
  <2>2. Shape(q) /\ Reads(q) /\ ~Founds(q) /\ ~FirstLogin(q) /\ ~Expects(q) /\ ~Removes(q)
    BY DEF Shape, Reads, Founds, FirstLogin, Expects, Removes, Unrecognised, Wish
  <2> QED
    BY <1>1, <2>1, <2>2, SessionsSame, RequestKeeps
<1> QED
  BY <1>2, <1>3

(* A request that founds, expects and removes nothing.                     *)
Harmless(q) == Shape(q) /\ Reads(q) /\ ~Founds(q) /\ ~FirstLogin(q) /\ ~Expects(q) /\ ~Removes(q)

LEMMA HarmlessKeeps ==
  ASSUME AccountsInv, NEW r \in Request, NEW q, Harmless(q), Start(r, q),
         UNCHANGED <<userVars, session, lock, historyVars>>
  PROVE  AccountsInv'
  BY SessionsSame, RequestKeeps DEF Harmless, Start

LEMMA BeginOtherKeeps ==
  ASSUME AccountsInv, NEW r \in Request,
         \/ \E u \in User : BeginLogin(r, u) \/ Register(r, u) \/ Bootstrap(r, u)
         \/ \E i \in Session, u \in User, isAdmin \in BOOLEAN : BeginCreate(r, i, u, isAdmin)
         \/ \E i \in Session : BeginPassword(r, i) \/ \E j \in Session : BeginRevoke(r, i, j)
  PROVE  AccountsInv'
<1> USE DEF Harmless, Shape, Reads, Founds, FirstLogin, Expects, Removes
<1>1. ASSUME NEW u \in User, BeginLogin(r, u) PROVE AccountsInv'
  <2> DEFINE q == [op |-> "login", target |-> u, session |-> None, password |-> password[u], straddled |-> FALSE]
  <2>1. Start(r, q) /\ UNCHANGED <<userVars, session, lock, historyVars>>
    BY <1>1 DEF BeginLogin
  <2>2. Harmless(q)
    BY DEF AccountsInv, UserTypes
  <2> HIDE DEF q
  <2> QED
    BY <2>1, <2>2, HarmlessKeeps
<1>2. ASSUME NEW u \in User, NEW registering \in BOOLEAN, BeginFound(r, u, registering) PROVE AccountsInv'
  <2> DEFINE q == [op |-> "found", target |-> None, session |-> None, email |-> u,
                   registering |-> registering, locked |-> FALSE]
  <2>1. Start(r, q) /\ UNCHANGED <<userVars, session, lock, historyVars>>
    BY <1>2 DEF BeginFound
  <2>2. Harmless(q)
    OBVIOUS
  <2> HIDE DEF q
  <2> QED
    BY <2>1, <2>2, HarmlessKeeps
<1>3. ASSUME NEW i \in Session, NEW u \in User, NEW isAdmin \in BOOLEAN, BeginCreate(r, i, u, isAdmin)
      PROVE  AccountsInv'
  <2> DEFINE q == [op |-> "create", target |-> None, session |-> None, email |-> u, isAdmin |-> isAdmin]
  <2>1. Start(r, q) /\ UNCHANGED <<userVars, session, lock, historyVars>>
    BY <1>3 DEF BeginCreate
  <2>2. Harmless(q)
    OBVIOUS
  <2> HIDE DEF q
  <2> QED
    BY <2>1, <2>2, HarmlessKeeps
<1>4. ASSUME NEW i \in Session, BeginPassword(r, i) PROVE AccountsInv'
  <2> DEFINE q == [op |-> "password", target |-> session[i].user, session |-> i]
  <2>1. Start(r, q) /\ UNCHANGED <<userVars, session, lock, historyVars>>
    BY <1>4 DEF BeginPassword, BeginOwn
  <2>2. session[i] \in SessionRow /\ session[i].user \in User
    BY <1>4 DEF BeginPassword, AccountsInv, UserTypes, SessionRow
  <2>3. Harmless(q)
    BY <2>2
  <2> HIDE DEF q
  <2> QED
    BY <2>1, <2>3, HarmlessKeeps
<1>5. ASSUME NEW i \in Session, NEW j \in Session, BeginRevoke(r, i, j) PROVE AccountsInv'
  <2> DEFINE q == [op |-> "revoke", target |-> session[i].user, session |-> i, other |-> j]
  <2>1. Start(r, q) /\ UNCHANGED <<userVars, session, lock, historyVars>>
    BY <1>5 DEF BeginRevoke, BeginOwn
  <2>2. {session[i], session[j]} \subseteq SessionRow /\ session[i].user \in User
    BY <1>5 DEF BeginRevoke, AccountsInv, UserTypes, SessionRow
  <2>3. Harmless(q)
    BY <2>2
  <2> HIDE DEF q
  <2> QED
    BY <2>1, <2>3, HarmlessKeeps
<1> QED
  BY <1>1, <1>2, <1>3, <1>4, <1>5 DEF Register, Bootstrap

(* A session opened takes a free slot.                                     *)
LEMMA SignInTypes ==
  ASSUME UserTypes, NEW u \in User, NEW version \in Nat, NEW straddled \in BOOLEAN,
         SignIn(u, version, straddled)
  PROVE  SessionsStay
<1> USE DEF SessionsStay
<1>1. CASE \A i \in Session : session[i] # None
  BY <1>1 DEF SignIn, UserTypes
<1>2. CASE \E i \in Session : session[i] = None
  <2>1. Slot(session) \in Session
    BY <1>2 DEF Slot, UserTypes
  <2> QED
    BY <1>2, <2>1 DEF SignIn, UserTypes, SessionRow
<1> QED
  BY <1>1, <1>2

(* Requests that end, or wait no longer, without a change of an account.   *)
LEMMA QuietCommitKeeps ==
  ASSUME AccountsInv, NEW r \in Request, CommitLogin(r) \/ CommitRevoke(r) \/ Deadlocked(r)
  PROVE  AccountsInv'
<1>1. /\ request' = [request EXCEPT ![r] = None]
      /\ UNCHANGED <<userVars, lock, historyVars>>
  BY DEF CommitLogin, CommitRevoke, Deadlocked, Finish
<1>2. SessionsStay
  <2>1. CASE CommitLogin(r)
    <3>1. Shape(request[r]) /\ request[r].op = "login"
      BY <2>1 DEF CommitLogin, Open, AccountsInv, RequestTypes
    <3>2. request[r].target \in User /\ request[r].password \in Nat /\ request[r].straddled \in BOOLEAN
      BY <3>1 DEF Shape
    <3> QED
      BY <2>1, <3>2, SignInTypes DEF CommitLogin, AccountsInv
  <2>2. CASE CommitRevoke(r)
    <3>1. request[r].other \in Session /\ session[request[r].other] \in SessionRow
      BY <2>2 DEF CommitRevoke, Open, AccountsInv, SessionsRead, Reads
    <3> QED
      BY <2>2, <3>1 DEF CommitRevoke, AccountsInv, UserTypes, SessionsStay, SessionRow
  <2>3. CASE Deadlocked(r)
    BY <2>3, SessionsSame DEF Deadlocked
  <2> QED
    BY <2>1, <2>2, <2>3
<1> QED
  BY <1>1, <1>2, RequestKeeps DEF Founds, FirstLogin, Expects, Removes

LEMMA SessionEndKeeps ==
  ASSUME AccountsInv, NEW i \in Session, Logout(i) \/ Expire(i)
  PROVE  AccountsInv'
<1>1. SessionsStay
  <2>1. session[i] \in SessionRow
    BY DEF Logout, Expire, Usable, AccountsInv, UserTypes
  <2> QED
    BY <2>1 DEF Logout, Expire, AccountsInv, UserTypes, SessionsStay, SessionRow
<1> QED
  BY <1>1, SessionKeeps DEF Logout, Expire

LEMMA CommitPasswordKeeps ==
  ASSUME AccountsInv, NEW r \in Request, CommitPassword(r)
  PROVE  AccountsInv'
<1> DEFINE u == request[r].target
<1>1. /\ Open(r, "password") /\ u \in User
      /\ UNCHANGED <<account, admin, linked, grant, template, lock, historyVars>>
      /\ password' = [password EXCEPT ![u] = @ + 1]
  BY DEF CommitPassword, Open, AccountsInv, RequestTypes, Shape
<1>2. session[request[r].session] \in SessionRow
  BY <1>1 DEF Open, AccountsInv, SessionsRead, Reads
<1>3. SessionsStay /\ UserTypes'
  <2>1. password[u] + 1 \in Nat
    BY <1>1 DEF AccountsInv, UserTypes
  <2>2. session' = [j \in Session |->
          IF j = request[r].session THEN [session[j] EXCEPT !.password = password[u] + 1]
          ELSE IF j \in Rows(r) THEN [session[j] EXCEPT !.state = "revoked"]
          ELSE session[j]]
    BY DEF CommitPassword
  <2>3. \A j \in Rows(r) : session[j] \in SessionRow
    BY <1>1 DEF Rows, Open, AccountsInv, UserTypes
  <2>4. \A j \in Session : session'[j] \in SessionRow \union {None} /\ (session[j] \in SessionRow => session'[j] \in SessionRow)
    BY <1>2, <2>1, <2>2, <2>3 DEF AccountsInv, UserTypes, SessionRow
  <2>5. SessionsStay
    BY <2>2, <2>4 DEF SessionsStay
  <2> QED
    BY <1>1, <2>1, <2>5 DEF SessionsStay, AccountsInv, UserTypes, historyVars
<1>4. \A q \in Request : \/ request'[q] \in {None, request[q]}
                         \/ Open(q, "login") /\ request'[q] = [request[q] EXCEPT !.straddled = TRUE]
  BY DEF CommitPassword
<1>5. request' = [q \in Request |-> request'[q]]
  BY DEF CommitPassword
<1>6. \A q \in Request : Open(q, "login") => Shape(request[q]) /\ Shape([request[q] EXCEPT !.straddled = TRUE])
                                           /\ [request[q] EXCEPT !.straddled = TRUE].op = "login"
  BY DEF Open, AccountsInv, RequestTypes, Shape
<1>7. RequestTypes'
  BY <1>4, <1>5, <1>6 DEF AccountsInv, RequestTypes
<1>8. \A q \in Request : request'[q] # None => request'[q] = request[q] \/ request'[q].op = "login"
  BY <1>4, <1>6
<1>9. SessionsRead' /\ LockKeepsOut'
  BY <1>1, <1>3, <1>8 DEF AccountsInv, SessionsRead, Reads, SessionsStay, LockKeepsOut, Founds, FirstLogin, Exists
<1>10. TargetsExist'
  BY <1>1, <1>8 DEF AccountsInv, TargetsExist, Expects, Exists
<1>11. AdminsCounted'
  BY <1>1, <1>8 DEF AccountsInv, AdminsCounted, Removes, ActiveAdmins, historyVars
<1> QED
  BY <1>3, <1>7, <1>9, <1>10, <1>11 DEF AccountsInv

-----------------------------------------------------------------------------
(* Commits that change accounts: each keeps the invariant, and leaves an   *)
(* active administrator where there was one unless it has raced.           *)
Remains == ActiveAdmins # {} /\ ActiveAdmins' = {} => raced'

LEMMA Finishes ==
  ASSUME AccountsInv, NEW r \in Request, Finish(r)
  PROVE  /\ request' = [p \in Request |-> request'[p]] /\ request'[r] = None
         /\ \A p \in Request : request'[p] \in {None, request[p]}
  BY DEF Finish, AccountsInv, RequestTypes

LEMMA CommitUpdateKeeps ==
  ASSUME AccountsInv, NEW r \in Request, CommitUpdate(r)
  PROVE  AccountsInv' /\ Remains
<1> DEFINE q == request[r]
           u == request[r].target
<1>1. /\ q # None /\ q.op = "update" /\ lock \in {None, r}
      /\ admin' = [admin EXCEPT ![u] = Applied(q.admin, @)]
      /\ account' = [account EXCEPT ![u] = IF Applied(q.active, @ = "active") THEN "active" ELSE "suspended"]
      /\ Finish(r) /\ raced' = (raced \/ Races(r))
      /\ UNCHANGED <<password, linked, session, lock, founders>>
  BY DEF CommitUpdate, Open, MayWrite
<1>2. u \in User /\ q.admin \in Wish /\ q.active \in Wish /\ Exists(u)
  BY <1>1 DEF AccountsInv, RequestTypes, Shape, TargetsExist, Expects
<1>3. /\ request' = [p \in Request |-> request'[p]] /\ request'[r] = None
      /\ \A p \in Request : request'[p] \in {None, request[p]}
  BY <1>1, Finishes
<1>4. UserTypes' /\ SessionsStay
  BY <1>1, <1>2, SessionsSame DEF AccountsInv, UserTypes, Applied, States, Races
<1>5. \A w \in User : Exists(w)' <=> Exists(w)
  BY <1>1, <1>2 DEF AccountsInv, UserTypes, Exists
<1>6. TargetsExist'
  <2>1. \A p \in Request : Expects(request'[p]) => request'[p] = request[p] /\ request[p].target \in User
    BY <1>3 DEF Expects, AccountsInv, RequestTypes, Shape
  <2>2. \A p \in Request : Expects(request'[p]) => account'[request'[p].target] # "none"
    BY <1>5, <2>1 DEF AccountsInv, TargetsExist, Exists
  <2>3. \A s \in Subject : linked'[s] # None => account'[linked'[s]] # "none"
    BY <1>1, <1>5 DEF AccountsInv, TargetsExist, Exists, UserTypes
  <2> QED
    BY <2>2, <2>3 DEF TargetsExist, Exists, Expects
<1>7. \A w \in User \ {u} : account'[w] = account[w] /\ admin'[w] = admin[w]
  BY <1>1, <1>2 DEF AccountsInv, UserTypes
<1>8. AdminsCounted' /\ Remains
  <2>1. CASE Removes(q)
    <3>1. ActiveAdmins \ {u} \subseteq ActiveAdmins'
      BY <1>7 DEF ActiveAdmins
    <3> QED
      BY <1>1, <1>3, <2>1, <3>1, AdminRemoved DEF AccountsInv, Remains
  <2>2. CASE ~Removes(q)
    <3>1. q.admin # "no" /\ q.active # "no"
      BY <1>1, <2>2 DEF Removes
    <3>2. u \in ActiveAdmins => u \in ActiveAdmins'
      BY <1>1, <1>2, <3>1 DEF ActiveAdmins, Applied, Wish, AccountsInv, UserTypes
    <3>3. ActiveAdmins \subseteq ActiveAdmins'
      BY <1>7, <3>2 DEF ActiveAdmins
    <3> QED
      BY <1>1, <1>3, <3>3, AdminsGrow DEF AccountsInv, UserTypes, Remains
  <2> QED
    BY <2>1, <2>2
<1>9. \A p \in Request, w \in User : Founds(request'[p]) => ~Exists(w)'
  BY <1>3, <1>5 DEF AccountsInv, LockKeepsOut, Founds
<1> QED
  BY <1>1, <1>3, <1>4, <1>6, <1>8, <1>9, CommitKeeps

LEMMA CommitDeleteKeeps ==
  ASSUME AccountsInv, NEW r \in Request, CommitDelete(r)
  PROVE  AccountsInv' /\ Remains
<1> DEFINE q == request[r]
           u == request[r].target
<1>1. /\ q # None /\ q.op = "delete" /\ lock \in {None, r}
      /\ account' = [account EXCEPT ![u] = "none"]
      /\ admin' = [admin EXCEPT ![u] = FALSE]
      /\ password' = [password EXCEPT ![u] = 0]
      /\ linked' = [s \in Subject |-> IF linked[s] = u THEN None ELSE linked[s]]
      /\ raced' = (raced \/ Races(r)) /\ UNCHANGED <<lock, founders>>
  BY DEF CommitDelete, Open, MayWrite
<1>2. u \in User
  BY <1>1 DEF AccountsInv, RequestTypes, Shape
<1>3. /\ request' = [p \in Request |-> request'[p]] /\ request'[r] = None
      /\ \A p \in Request : request'[p] \in {None, request[p]}
      /\ \A p \in Request : request'[p] # None => request[p].target # u
  BY DEF CommitDelete
<1>4. UserTypes' /\ SessionsStay
  <2>1. session' = [i \in Session |->
          IF session[i] # None /\ session[i].user = u
            THEN [session[i] EXCEPT !.state = "deleted"] ELSE session[i]]
    BY DEF CommitDelete
  <2>2. \A i \in Session : session'[i] \in SessionRow \union {None} /\ (session[i] \in SessionRow => session'[i] \in SessionRow)
    BY <2>1 DEF AccountsInv, UserTypes, SessionRow
  <2>3. SessionsStay
    BY <2>1, <2>2 DEF SessionsStay
  <2> QED
    BY <1>1, <1>2, <2>3 DEF AccountsInv, UserTypes, States, Races, SessionsStay
<1>5. \A w \in User \ {u} : account'[w] = account[w] /\ admin'[w] = admin[w]
  BY <1>1 DEF AccountsInv, UserTypes
<1>6. TargetsExist'
  <2>1. \A p \in Request : Expects(request'[p]) =>
          request'[p] = request[p] /\ request[p].target \in User \ {u}
    BY <1>3 DEF Expects, AccountsInv, RequestTypes, Shape
  <2>2. \A p \in Request : Expects(request'[p]) => account'[request'[p].target] # "none"
    BY <1>5, <2>1 DEF AccountsInv, TargetsExist, Exists
  <2>3. \A s \in Subject : linked'[s] # None => account'[linked'[s]] # "none"
    BY <1>1, <1>5 DEF AccountsInv, TargetsExist, Exists, UserTypes
  <2> QED
    BY <2>2, <2>3 DEF TargetsExist, Exists, Expects
<1>7. AdminsCounted' /\ Remains
  <2>1. ActiveAdmins \ {u} \subseteq ActiveAdmins' /\ Removes(q)
    BY <1>1, <1>5 DEF ActiveAdmins, Removes
  <2> QED
    BY <1>1, <1>3, <2>1, AdminRemoved DEF AccountsInv, Remains
<1>8. \A p \in Request, w \in User : Founds(request'[p]) => ~Exists(w)'
  BY <1>1, <1>3, <1>5, <1>2 DEF AccountsInv, LockKeepsOut, Founds, Exists, UserTypes
<1> QED
  BY <1>1, <1>3, <1>4, <1>6, <1>7, <1>8, CommitKeeps

(* An account made where there was none.                                   *)
LEMMA MadeAccount ==
  ASSUME AccountsInv, NEW u \in User, NEW isAdmin \in BOOLEAN, NEW version \in Nat,
         MakeAccount(u, isAdmin, version), ~Exists(u)
  PROVE  /\ account' \in [User -> States] /\ admin' \in [User -> BOOLEAN] /\ password' \in [User -> Nat]
         /\ \A w \in User : Exists(w) => Exists(w)'
         /\ Exists(u)' /\ ActiveAdmins \subseteq ActiveAdmins'
         /\ isAdmin => u \in ActiveAdmins'
<1>1. /\ account' = [account EXCEPT ![u] = "active"]
      /\ admin' = [admin EXCEPT ![u] = isAdmin]
      /\ password' = [password EXCEPT ![u] = version]
  BY DEF MakeAccount
<1> QED
  BY <1>1 DEF AccountsInv, UserTypes, States, Exists, ActiveAdmins

(* Accounts that stay, and links that lead to accounts.                    *)
LEMMA TargetsStay ==
  ASSUME AccountsInv, \A w \in User : Exists(w) => Exists(w)',
         \A p \in Request : request'[p] \in {None, request[p]},
         \A s \in Subject : linked'[s] = linked[s] \/ (linked'[s] \in User /\ account'[linked'[s]] # "none")
  PROVE  TargetsExist'
<1>1. \A p \in Request : Expects(request'[p]) => request'[p] = request[p] /\ request[p].target \in User
  BY DEF Expects, AccountsInv, RequestTypes, Shape
<1>2. \A p \in Request : Expects(request'[p]) => account'[request'[p].target] # "none"
  BY <1>1 DEF AccountsInv, TargetsExist, Exists
<1>3. \A s \in Subject : linked'[s] # None => account'[linked'[s]] # "none"
  BY DEF AccountsInv, TargetsExist, Exists, UserTypes
<1> QED
  BY <1>2, <1>3 DEF TargetsExist, Exists, Expects

LEMMA CommitCreateKeeps ==
  ASSUME AccountsInv, NEW r \in Request, CommitCreate(r)
  PROVE  AccountsInv' /\ Remains
<1> DEFINE q == request[r]
<1>1. /\ q # None /\ q.op = "create" /\ lock \in {None, r} /\ Finish(r)
      /\ UNCHANGED <<linked, session, lock, historyVars>>
  BY DEF CommitCreate, Open, MayWrite
<1>2. q.email \in User /\ q.isAdmin \in BOOLEAN
  BY <1>1 DEF AccountsInv, RequestTypes, Shape
<1>3. /\ request' = [p \in Request |-> request'[p]] /\ request'[r] = None
      /\ \A p \in Request : request'[p] \in {None, request[p]}
  BY <1>1, Finishes
<1>4. CASE Exists(q.email)
  <2>1. UNCHANGED <<account, admin, password, grant, linked, template>>
    BY <1>4 DEF CommitCreate
  <2>2. UNCHANGED <<userVars, historyVars>> /\ SessionsStay
    BY <1>1, <2>1, SessionsSame DEF userVars
  <2>3. /\ ~Founds(None) /\ ~FirstLogin(None) /\ ~Expects(None) /\ ~Removes(None)
        /\ request' = [request EXCEPT ![r] = None] /\ lock' = lock
    BY <1>1 DEF Finish, Founds, FirstLogin, Expects, Removes
  <2>4. AccountsInv'
    BY <2>2, <2>3, RequestKeeps
  <2>5. Remains
    BY <2>1 DEF Remains, ActiveAdmins
  <2> QED
    BY <2>4, <2>5
<1>5. CASE ~Exists(q.email)
  <2>1. MakeAccount(q.email, q.isAdmin, 1)
    BY <1>5 DEF CommitCreate
  <2>2. /\ account' \in [User -> States] /\ admin' \in [User -> BOOLEAN] /\ password' \in [User -> Nat]
        /\ \A w \in User : Exists(w) => Exists(w)'
        /\ ActiveAdmins \subseteq ActiveAdmins'
    BY <1>2, <1>5, <2>1, MadeAccount
  <2>3. UserTypes' /\ SessionsStay
    BY <1>1, <2>2, SessionsSame DEF AccountsInv, UserTypes, historyVars
  <2>4. AdminsCounted' /\ Remains
    BY <1>1, <1>3, <2>2, AdminsGrow DEF AccountsInv, UserTypes, historyVars, Remains
  <2>5. TargetsExist'
    BY <1>1, <1>3, <2>2, TargetsStay
  <2>6. \A p \in Request : ~Founds(request'[p])
    BY <1>1, <1>3, NoneAssumption DEF AccountsInv, LockKeepsOut, Founds
  <2> QED
    BY <1>1, <1>3, <2>3, <2>4, <2>5, <2>6, CommitKeeps
<1> QED
  BY <1>4, <1>5

LEMMA LockFoundKeeps ==
  ASSUME AccountsInv, NEW r \in Request, LockFound(r)
  PROVE  AccountsInv'
<1>1. /\ request[r] # None /\ request[r].op = "found" /\ lock = None
      /\ UNCHANGED <<userVars, session, historyVars>>
  BY DEF LockFound, Open
<1>2. CASE \E u \in User : Exists(u)
  BY <1>1, <1>2, SessionsSame, RequestKeeps DEF LockFound, Finish, Founds, FirstLogin, Expects, Removes
<1>3. CASE \A u \in User : ~Exists(u)
  <2> DEFINE q == [request[r] EXCEPT !.locked = TRUE]
  <2>1. request' = [request EXCEPT ![r] = q] /\ lock' = r
    BY <1>3 DEF LockFound
  <2>2. Shape(q) /\ Reads(q) /\ q.op = "found"
    BY <1>1 DEF AccountsInv, RequestTypes, Shape, Reads
  <2>3. ~FirstLogin(q) /\ ~Expects(q) /\ ~Removes(q)
    BY <2>2 DEF FirstLogin, Expects, Removes
  <2> HIDE DEF q
  <2>4. \A p \in Request : lock # p
    BY <1>1, NoneAssumption
  <2> QED
    BY <1>1, <1>3, <2>1, <2>2, <2>3, <2>4, SessionsSame, RequestKeeps
<1> QED
  BY <1>2, <1>3

LEMMA CommitFoundKeeps ==
  ASSUME AccountsInv, NEW r \in Request, CommitFound(r)
  PROVE  AccountsInv' /\ Remains
<1> DEFINE u == request[r].email
<1>1. /\ Founds(request[r]) /\ Finish(r) /\ Release(r) /\ MakeAccount(u, TRUE, 1)
      /\ founders' = founders \union {u} /\ UNCHANGED <<linked, raced>>
  BY DEF CommitFound, Founds, Open
<1>2. u \in User /\ lock = r /\ \A w \in User : ~Exists(w)
  BY <1>1 DEF AccountsInv, LockKeepsOut, RequestTypes, Shape, Founds
<1>3. /\ request' = [p \in Request |-> request'[p]] /\ request'[r] = None
      /\ \A p \in Request : request'[p] \in {None, request[p]}
  BY <1>1, Finishes
<1>4. /\ account' \in [User -> States] /\ admin' \in [User -> BOOLEAN] /\ password' \in [User -> Nat]
      /\ \A w \in User : Exists(w) => Exists(w)'
      /\ u \in ActiveAdmins'
  BY <1>1, <1>2, MadeAccount
<1>5. SessionsStay
  <2>1. CASE request[r].registering
    BY <1>2, <2>1, SignInTypes DEF CommitFound, AccountsInv
  <2>2. CASE ~request[r].registering
    BY <2>2, SessionsSame DEF CommitFound
  <2> QED
    BY <2>1, <2>2
<1>6. UserTypes'
  BY <1>1, <1>4, <1>5 DEF AccountsInv, UserTypes, SessionsStay
<1>7. ActiveAdmins = {}
  BY <1>2 DEF ActiveAdmins, Exists
<1>8. AdminsCounted' /\ Remains
  <2>1. ~raced => founders = {} /\ \A p \in Request : ~Removes(request[p])
    BY <1>7 DEF AccountsInv, AdminsCounted
  <2>2. \A p \in Request : Removes(request'[p]) => Removes(request[p])
    BY <1>3 DEF Removes
  <2> QED
    BY <1>1, <1>2, <1>4, <1>7, <2>1, <2>2 DEF AdminsCounted, Remains
<1>9. TargetsExist'
  BY <1>1, <1>3, <1>4, TargetsStay
<1>10. \A p \in Request : ~Founds(request'[p])
  BY <1>2, <1>3 DEF AccountsInv, LockKeepsOut, Founds
<1> QED
  BY <1>2, <1>3, <1>5, <1>6, <1>8, <1>9, <1>10, CommitKeeps

LEMMA LockOidcKeeps ==
  ASSUME AccountsInv, NEW r \in Request, LockOidc(r)
  PROVE  AccountsInv'
<1> DEFINE q == request[r]
           known == linked[q.subject] # None
           u == IF known THEN linked[q.subject] ELSE q.email
           next == [Recognised(q.subject, u, q.group) EXCEPT !.email = IF known THEN None ELSE u]
<1>1. /\ q # None /\ q.op = "oidc" /\ q.email # None /\ lock = None
      /\ UNCHANGED <<userVars, session, historyVars>>
  BY DEF LockOidc, Open
<1>2. q.subject \in Subject /\ q.email \in User /\ q.group \in BOOLEAN
  BY <1>1 DEF AccountsInv, RequestTypes, Shape
<1>3. CASE account[u] = "suspended"
  <2>1. request' = [request EXCEPT ![r] = None] /\ UNCHANGED lock
    BY <1>3 DEF LockOidc, Finish
  <2> QED
    BY <1>1, <2>1, SessionsSame, RequestKeeps DEF Founds, FirstLogin, Expects, Removes
<1>4. CASE account[u] # "suspended"
  <2>1. request' = [request EXCEPT ![r] = next] /\ lock' = r
    BY <1>4 DEF LockOidc
  <2>2. u \in User /\ GroupWish(u, q.group) \in Wish
    BY <1>2 DEF AccountsInv, UserTypes, GroupWish, Changed, Wish
  <2>3. next = [op |-> "oidc", target |-> u, session |-> None, subject |-> q.subject,
                email |-> IF known THEN None ELSE u, group |-> q.group,
                admin |-> GroupWish(u, q.group), active |-> "keep"]
    BY DEF Recognised
  <2>7. \A p \in Request : lock # p
    BY <1>1, NoneAssumption
  <2>8. known => Exists(u)
    BY <1>2 DEF AccountsInv, TargetsExist
  <2>9. GroupWish(u, q.group) = "no" => ActiveAdmins \ {u} # {}
    BY DEF GroupWish, Changed, OtherAdmin
  <2>10. known \in BOOLEAN
    OBVIOUS
  <2> HIDE DEF known, u
  <2>11. PICK k \in BOOLEAN, v \in User, wish \in Wish :
            k = known /\ v = u /\ wish = GroupWish(u, q.group)
    BY <2>2, <2>10
  <2>12. PICK n : n = next /\ n = [op |-> "oidc", target |-> v, session |-> None, subject |-> q.subject,
                                   email |-> IF k THEN None ELSE v, group |-> q.group,
                                   admin |-> wish, active |-> "keep"]
    BY <2>3, <2>11
  <2>13. /\ n.op = "oidc" /\ n.target = v /\ n.email = (IF k THEN None ELSE v)
         /\ n.admin = wish /\ n.active = "keep"
    BY <2>12
  <2>14. Shape(n)
    BY <1>2, <2>12, <2>13 DEF Shape
  <2>4. Reads(n) /\ ~Founds(n)
    BY <2>13 DEF Reads, Founds
  <2>5. Expects(n) => Exists(v)
    <3>1. v # None
      BY NoneAssumption
    <3> QED
      BY <2>8, <2>11, <2>13, <3>1 DEF Expects
  <2>6. Removes(n) => ActiveAdmins \ {v} # {}
    BY <2>9, <2>11, <2>13 DEF Removes
  <2>15. request' = [request EXCEPT ![r] = n]
    BY <2>1, <2>12
  <2> HIDE DEF next
  <2> QED
    BY <1>1, <2>1, <2>4, <2>5, <2>6, <2>7, <2>13, <2>14, <2>15, SessionsSame, RequestKeeps
<1> QED
  BY <1>3, <1>4

LEMMA CommitOidcKeeps ==
  ASSUME AccountsInv, NEW r \in Request, CommitOidc(r)
  PROVE  AccountsInv' /\ Remains
<1> DEFINE q == request[r]
           u == request[r].target
           taken == q.email # None /\ linked[q.subject] # None
<1>1. /\ q # None /\ q.op = "oidc" /\ u # None /\ Finish(r) /\ Release(r)
      /\ raced' = (raced \/ Races(r)) /\ founders' = founders
  BY DEF CommitOidc, Open
<1>2. u \in User /\ q.subject \in Subject /\ q.admin \in Wish /\ q.active = "keep"
  BY <1>1 DEF AccountsInv, RequestTypes, Shape
<1>3. /\ request' = [p \in Request |-> request'[p]] /\ request'[r] = None
      /\ \A p \in Request : request'[p] \in {None, request[p]}
  BY <1>1, Finishes
<1>4. \A p \in Request : request'[p] # None /\ lock = p => lock' = p
  BY <1>1, <1>3 DEF Release
<1>5. raced' \in BOOLEAN /\ (raced' = FALSE => raced = FALSE)
  BY <1>1 DEF AccountsInv, UserTypes, Races
<1>6. CASE taken
  <2>1. UNCHANGED <<account, admin, password, linked, session>>
    BY <1>6 DEF CommitOidc
  <2>2. UserTypes' /\ SessionsStay
    BY <1>5, <2>1, SessionsSame DEF AccountsInv, UserTypes
  <2>3. ActiveAdmins' = ActiveAdmins /\ \A w \in User : Exists(w)' <=> Exists(w)
    BY <2>1 DEF ActiveAdmins, Exists
  <2>4. AdminsCounted' /\ Remains
    BY <1>1, <1>3, <1>5, <2>3, AdminsGrow DEF AccountsInv, UserTypes, Remains
  <2>5. TargetsExist'
    BY <1>3, <2>1, <2>3, TargetsStay
  <2>6. \A p \in Request, w \in User : Founds(request'[p]) => ~Exists(w)'
    BY <1>3, <2>3 DEF AccountsInv, LockKeepsOut, Founds
  <2> QED
    BY <1>3, <1>4, <2>2, <2>4, <2>5, <2>6, CommitKeeps
<1>7. CASE ~taken /\ Exists(u)
  <2>1. /\ linked' = [linked EXCEPT ![q.subject] = u] /\ SignIn(u, 0, FALSE)
        /\ admin' = [admin EXCEPT ![u] = Applied(q.admin, @)]
        /\ UNCHANGED <<account, password>>
    BY <1>7 DEF CommitOidc
  <2>2. SessionsStay
    BY <1>2, <2>1, SignInTypes DEF AccountsInv
  <2>3. UserTypes'
    BY <1>2, <1>5, <2>1, <2>2 DEF AccountsInv, UserTypes, SessionsStay, Applied
  <2>4. \A w \in User : Exists(w)' <=> Exists(w)
    BY <2>1 DEF Exists
  <2>5. AdminsCounted' /\ Remains
    <3>1. CASE Removes(q)
      <4>1. ActiveAdmins \ {u} \subseteq ActiveAdmins'
        BY <2>1 DEF ActiveAdmins, AccountsInv, UserTypes
      <4> QED
        BY <1>1, <1>3, <3>1, <4>1, AdminRemoved DEF AccountsInv, Remains
    <3>2. CASE ~Removes(q)
      <4>1. q.admin # "no"
        BY <1>1, <3>2 DEF Removes
      <4>2. ActiveAdmins \subseteq ActiveAdmins'
        BY <1>2, <2>1, <4>1 DEF ActiveAdmins, Applied, Wish, AccountsInv, UserTypes
      <4> QED
        BY <1>1, <1>3, <1>5, <4>2, AdminsGrow DEF AccountsInv, UserTypes, Remains
    <3> QED
      BY <3>1, <3>2
  <2>6. TargetsExist'
    <3>1. \A s \in Subject : linked'[s] = linked[s] \/ linked'[s] = u
      BY <2>1 DEF AccountsInv, UserTypes
    <3>2. u \in User /\ account'[u] # "none"
      BY <1>2, <1>7, <2>1 DEF Exists
    <3> QED
      BY <1>3, <2>4, <3>1, <3>2, TargetsStay
  <2>7. \A p \in Request, w \in User : Founds(request'[p]) => ~Exists(w)'
    BY <1>3, <2>4 DEF AccountsInv, LockKeepsOut, Founds
  <2> QED
    BY <1>3, <1>4, <2>2, <2>3, <2>5, <2>6, <2>7, CommitKeeps
<1>8. CASE ~taken /\ ~Exists(u)
  <2>1. /\ linked' = [linked EXCEPT ![q.subject] = u] /\ SignIn(u, 0, FALSE)
        /\ MakeAccount(u, Applied(q.admin, FALSE), 0)
    BY <1>8 DEF CommitOidc
  <2>2. lock = r
    <3>1. q.email # None
      BY <1>1, <1>8 DEF AccountsInv, TargetsExist, Expects
    <3> QED
      BY <1>1, <3>1 DEF AccountsInv, LockKeepsOut, FirstLogin
  <2>3. SessionsStay
    BY <1>2, <2>1, SignInTypes DEF AccountsInv
  <2>4. /\ account' \in [User -> States] /\ admin' \in [User -> BOOLEAN] /\ password' \in [User -> Nat]
        /\ \A w \in User : Exists(w) => Exists(w)'
        /\ ActiveAdmins \subseteq ActiveAdmins'
    <3>1. PICK w \in User, b \in BOOLEAN : ~Exists(w) /\ MakeAccount(w, b, 0)
      BY <1>2, <1>8, <2>1 DEF Applied
    <3> QED
      BY <3>1, MadeAccount
  <2>5. UserTypes'
    BY <1>2, <1>5, <2>1, <2>3, <2>4 DEF AccountsInv, UserTypes, SessionsStay
  <2>6. AdminsCounted' /\ Remains
    BY <1>1, <1>3, <1>5, <2>4, AdminsGrow DEF AccountsInv, UserTypes, Remains
  <2>7. TargetsExist'
    <3>1. \A s \in Subject : linked'[s] = linked[s] \/ linked'[s] = u
      BY <2>1 DEF AccountsInv, UserTypes
    <3>2. \A s \in Subject : linked'[s] = linked[s] \/ (linked'[s] \in User /\ account'[linked'[s]] # "none")
      <4>1. account'[u] # "none"
        BY <2>1, <1>2 DEF MakeAccount, AccountsInv, UserTypes
      <4> QED
        BY <1>2, <3>1, <4>1
    <3> QED
      BY <1>3, <2>4, <3>2, TargetsStay
  <2>8. \A p \in Request : ~Founds(request'[p])
    BY <1>3, <2>2 DEF AccountsInv, LockKeepsOut, Founds
  <2> QED
    BY <1>3, <1>4, <2>3, <2>5, <2>6, <2>7, <2>8, CommitKeeps
<1> QED
  BY <1>6, <1>7, <1>8

-----------------------------------------------------------------------------
LEMMA AccountsStep ==
  ASSUME AccountsInv, [AccountsNext]_accountVars
  PROVE  AccountsInv' /\ Remains
<1>1. CASE UNCHANGED accountVars
  BY <1>1, SessionsSame, SessionKeeps DEF accountVars, Remains, ActiveAdmins, userVars, historyVars
<1>2. ASSUME NEW r \in Request,
             \/ \E u \in User : BeginLogin(r, u) \/ Register(r, u) \/ Bootstrap(r, u)
             \/ \E u \in User, s \in Subject, group \in BOOLEAN : BeginOidc(r, s, u, group)
             \/ \E i \in Session, u \in User : BeginDelete(r, i, u)
             \/ \E i \in Session, u \in User, isAdmin \in BOOLEAN : BeginCreate(r, i, u, isAdmin)
             \/ \E i \in Session, u \in User, wantAdmin, wantActive \in Wish :
                  BeginUpdate(r, i, u, wantAdmin, wantActive)
             \/ \E i \in Session : BeginPassword(r, i) \/ \E j \in Session : BeginRevoke(r, i, j)
             \/ CommitLogin(r) \/ CommitPassword(r) \/ CommitRevoke(r) \/ Deadlocked(r)
             \/ LockFound(r) \/ LockOidc(r)
      PROVE  AccountsInv' /\ Remains
  <2>1. AccountsInv'
    BY <1>2, BeginUpdateKeeps, BeginDeleteKeeps, BeginOidcKeeps, BeginOtherKeeps, QuietCommitKeeps,
       CommitPasswordKeeps, LockFoundKeeps, LockOidcKeeps
  <2>2. UNCHANGED <<account, admin>>
    BY <1>2 DEF BeginLogin, Register, Bootstrap, BeginFound, BeginOidc, BeginDelete, BeginCreate, BeginUpdate,
                BeginPassword, BeginRevoke, BeginOwn, CommitLogin, CommitPassword, CommitRevoke, Deadlocked,
                LockFound, LockOidc, userVars
  <2> QED
    BY <2>1, <2>2 DEF Remains, ActiveAdmins
<1>3. ASSUME NEW i \in Session, Logout(i) \/ Expire(i)
      PROVE  AccountsInv' /\ Remains
  BY <1>3, SessionEndKeeps DEF Remains, ActiveAdmins, Logout, Expire, userVars
<1>4. ASSUME NEW r \in Request, CommitUpdate(r) \/ CommitDelete(r) \/ CommitCreate(r) \/ CommitFound(r) \/ CommitOidc(r)
      PROVE  AccountsInv' /\ Remains
  BY <1>4, CommitUpdateKeeps, CommitDeleteKeeps, CommitCreateKeeps, CommitFoundKeeps, CommitOidcKeeps
<1> QED
  BY <1>1, <1>2, <1>3, <1>4 DEF AccountsNext

(* The first administrator is made once, unless two removals that          *)
(* overlapped have left nobody (_lock_user_creation before the count).     *)
THEOREM OneFounder == AccountsSpec => []FirstAdminOnly
<1>1. AccountsInv /\ [AccountsNext]_accountVars => AccountsInv'
  BY AccountsStep
<1>2. ASSUME AccountsInv PROVE FirstAdminOnly
  <2>1. CASE raced
    BY <2>1 DEF FirstAdminOnly
  <2>2. CASE ~raced /\ founders = {}
    BY <2>2, FS_EmptySet DEF FirstAdminOnly
  <2>3. CASE ~raced /\ founders # {}
    <3>1. PICK u \in User : founders = {u}
      BY <1>2, <2>3 DEF AccountsInv, AdminsCounted
    <3>2. Cardinality({u}) = 1
      BY FS_Singleton
    <3> QED
      BY <3>1, <3>2 DEF FirstAdminOnly
  <2> QED
    BY <2>1, <2>2, <2>3
<1> QED
  BY AccountsInitHolds, <1>1, <1>2, PTL DEF AccountsSpec

(* An active administrator remains, unless two removals overlapped: the    *)
(* guard of every removal that runs alone is enough.                       *)
THEOREM AnAdminRemains == AccountsSpec => AdminRemains
<1>1. AccountsInv /\ [AccountsNext]_accountVars => AccountsInv'
  BY AccountsStep
<1>2. AccountsInv /\ [AccountsNext]_accountVars => [ActiveAdmins # {} /\ ActiveAdmins' = {} => raced']_accountVars
  BY AccountsStep DEF Remains
<1> QED
  BY AccountsInitHolds, <1>1, <1>2, PTL DEF AccountsSpec, AdminRemains

-----------------------------------------------------------------------------
(* What a request of the OIDC provider has read of its subject is so until *)
(* it commits: a known one is linked to its account, and an unknown one is *)
(* linked to none while its login holds the lock.                          *)
SubjectKnown(q) ==
  q # None /\ q.op = "oidc" /\ q.target # None =>
    linked[q.subject] = IF q.email = None THEN q.target ELSE None

SubjectsInv == ~collided /\ \A r \in Request : SubjectKnown(request[r])

(* One request is replaced, or ends.                                       *)
LEMMA SubjectKeeps ==
  ASSUME AccountsInv, SubjectsInv, NEW r \in Request, NEW q, request' = [request EXCEPT ![r] = q],
         UNCHANGED <<linked, collided>>, SubjectKnown(q)
  PROVE  SubjectsInv'
<1>1. \A p \in Request : request'[p] = IF p = r THEN q ELSE request[p]
  BY DEF AccountsInv, RequestTypes
<1> QED
  BY <1>1 DEF SubjectsInv, SubjectKnown

LEMMA CommitOidcSubject ==
  ASSUME AccountsInv, SubjectsInv, NEW r \in Request, CommitOidc(r)
  PROVE  SubjectsInv'
<1> DEFINE q == request[r]
<1>1. /\ q # None /\ q.op = "oidc" /\ q.target # None
      /\ request' = [request EXCEPT ![r] = None]
      /\ collided' = (collided \/ (q.email # None /\ linked[q.subject] # None))
  BY DEF CommitOidc, Open, Finish
<1>2. linked[q.subject] = IF q.email = None THEN q.target ELSE None
  BY <1>1 DEF SubjectsInv, SubjectKnown
<1>3. collided' = FALSE /\ linked' = [linked EXCEPT ![q.subject] = q.target]
  BY <1>1, <1>2 DEF SubjectsInv, CommitOidc
<1>4. ASSUME NEW p \in Request, request'[p] # None, request'[p].op = "oidc", request'[p].target # None
      PROVE  linked'[request[p].subject] = IF request[p].email = None THEN request[p].target ELSE None
  <2>1. request'[p] = request[p] /\ p # r
    BY <1>1, <1>4 DEF AccountsInv, RequestTypes
  <2>2. linked[request[p].subject] = IF request[p].email = None THEN request[p].target ELSE None
    BY <1>4, <2>1 DEF SubjectsInv, SubjectKnown
  <2>3. q.email = None \/ request[p].email = None
    BY <1>1, <1>4, <2>1 DEF AccountsInv, LockKeepsOut, FirstLogin
  <2>4. request[p].subject = q.subject => linked[q.subject] = q.target
    <3>1. CASE q.email = None
      BY <1>2, <3>1
    <3>2. CASE q.email # None
      BY <1>2, <1>4, <2>1, <2>2, <2>3, <3>2
    <3> QED
      BY <3>1, <3>2
  <2>5. request[p].subject \in Subject
    BY <1>4, <2>1 DEF AccountsInv, RequestTypes, Shape
  <2> QED
    BY <1>3, <2>2, <2>4, <2>5 DEF AccountsInv, UserTypes
<1>5. \A p \in Request : request'[p] \in {None, request[p]}
  BY <1>1 DEF AccountsInv, RequestTypes
<1> QED
  BY <1>3, <1>4, <1>5 DEF SubjectsInv, SubjectKnown

(* What kind of request each operation begins.                             *)
Starts(r, op) == \E q : q.op = op /\ request' = [request EXCEPT ![r] = q]
LEMMA StartStarts ==
  ASSUME NEW r, NEW q, NEW op, q.op = op, Start(r, q)
  PROVE  Starts(r, op)
  BY DEF Start, Starts

LEMMA OperationStarts ==
  ASSUME NEW r \in Request
  PROVE  /\ \A u \in User : BeginLogin(r, u) => Starts(r, "login")
         /\ \A u \in User : Register(r, u) \/ Bootstrap(r, u) => Starts(r, "found")
         /\ \A i \in Session, u \in User : BeginDelete(r, i, u) => Starts(r, "delete")
         /\ \A i \in Session, u \in User, isAdmin \in BOOLEAN :
              BeginCreate(r, i, u, isAdmin) => Starts(r, "create")
         /\ \A i \in Session, u \in User, wantAdmin, wantActive \in Wish :
              BeginUpdate(r, i, u, wantAdmin, wantActive) => Starts(r, "update")
         /\ \A i \in Session : BeginPassword(r, i) => Starts(r, "password")
         /\ \A i, j \in Session : BeginRevoke(r, i, j) => Starts(r, "revoke")
         /\ \A s \in Subject, u \in User, group \in BOOLEAN : BeginOidc(r, s, u, group) => Starts(r, "oidc")
<1>1. ASSUME NEW u \in User, BeginLogin(r, u) PROVE Starts(r, "login")
  BY <1>1, StartStarts DEF BeginLogin
<1>2. ASSUME NEW u \in User, Register(r, u) \/ Bootstrap(r, u) PROVE Starts(r, "found")
  <2>1. PICK registering \in BOOLEAN : BeginFound(r, u, registering)
    BY <1>2 DEF Register, Bootstrap
  <2> QED
    BY <2>1, StartStarts DEF BeginFound
<1>3. ASSUME NEW i \in Session, NEW u \in User, BeginDelete(r, i, u) PROVE Starts(r, "delete")
  BY <1>3, StartStarts DEF BeginDelete
<1>4. ASSUME NEW i \in Session, NEW u \in User, NEW isAdmin \in BOOLEAN, BeginCreate(r, i, u, isAdmin)
      PROVE  Starts(r, "create")
  BY <1>4, StartStarts DEF BeginCreate
<1>5. ASSUME NEW i \in Session, NEW u \in User, NEW wantAdmin \in Wish, NEW wantActive \in Wish,
             BeginUpdate(r, i, u, wantAdmin, wantActive)
      PROVE  Starts(r, "update")
  BY <1>5, StartStarts DEF BeginUpdate
<1>6. ASSUME NEW i \in Session, BeginPassword(r, i) PROVE Starts(r, "password")
  BY <1>6, StartStarts DEF BeginPassword, BeginOwn
<1>7. ASSUME NEW i \in Session, NEW j \in Session, BeginRevoke(r, i, j) PROVE Starts(r, "revoke")
  BY <1>7, StartStarts DEF BeginRevoke, BeginOwn
<1>8. ASSUME NEW s \in Subject, NEW u \in User, NEW group \in BOOLEAN, BeginOidc(r, s, u, group)
      PROVE  Starts(r, "oidc")
  <2>1. Recognised(s, linked[s], group).op = "oidc" /\ Unrecognised(s, u, group).op = "oidc"
    BY DEF Recognised, Unrecognised
  <2>2. Start(r, Recognised(s, linked[s], group)) \/ Start(r, Unrecognised(s, u, group))
    BY <1>8 DEF BeginOidc
  <2> QED
    BY <2>1, <2>2, StartStarts
<1> QED
  BY <1>1, <1>2, <1>3, <1>4, <1>5, <1>6, <1>7, <1>8

LEMMA SubjectsStep ==
  ASSUME AccountsInv, SubjectsInv, [AccountsNext]_accountVars
  PROVE  SubjectsInv'
<1>1. CASE UNCHANGED accountVars
  BY <1>1 DEF accountVars, userVars, historyVars, SubjectsInv, SubjectKnown
<1>2. ASSUME NEW r \in Request,
             \/ \E u \in User : BeginLogin(r, u) \/ Register(r, u) \/ Bootstrap(r, u)
             \/ \E i \in Session, u \in User : BeginDelete(r, i, u)
             \/ \E i \in Session, u \in User, isAdmin \in BOOLEAN : BeginCreate(r, i, u, isAdmin)
             \/ \E i \in Session, u \in User, wantAdmin, wantActive \in Wish :
                  BeginUpdate(r, i, u, wantAdmin, wantActive)
             \/ \E i \in Session : BeginPassword(r, i) \/ \E j \in Session : BeginRevoke(r, i, j)
      PROVE  SubjectsInv'
  <2>1. PICK q : q.op # "oidc" /\ request' = [request EXCEPT ![r] = q]
    <3>1. \E op \in {"login", "found", "delete", "create", "update", "password", "revoke"} : Starts(r, op)
      BY <1>2, OperationStarts
    <3> QED
      BY <3>1 DEF Starts
  <2>2. UNCHANGED <<linked, collided>>
    BY <1>2 DEF BeginLogin, Register, Bootstrap, BeginFound, BeginDelete, BeginCreate, BeginUpdate, BeginPassword,
                BeginRevoke, BeginOwn, userVars, historyVars
  <2> QED
    BY <2>1, <2>2, SubjectKeeps DEF SubjectKnown
<1>3. ASSUME NEW r \in Request, NEW s \in Subject, NEW u \in User, NEW group \in BOOLEAN, BeginOidc(r, s, u, group)
      PROVE  SubjectsInv'
  <2>1. UNCHANGED <<linked, collided>>
    BY <1>3 DEF BeginOidc, userVars, historyVars
  <2>2. CASE linked[s] # None
    <3>1. request' = [request EXCEPT ![r] = Recognised(s, linked[s], group)]
      BY <1>3, <2>2 DEF BeginOidc, Start
    <3>2. SubjectKnown(Recognised(s, linked[s], group))
      BY DEF SubjectKnown, Recognised
    <3> QED
      BY <2>1, <3>1, <3>2, SubjectKeeps
  <2>3. CASE linked[s] = None
    <3>1. request' = [request EXCEPT ![r] = Unrecognised(s, u, group)]
      BY <1>3, <2>3 DEF BeginOidc, Start
    <3>2. SubjectKnown(Unrecognised(s, u, group))
      BY DEF SubjectKnown, Unrecognised
    <3> QED
      BY <2>1, <3>1, <3>2, SubjectKeeps
  <2> QED
    BY <2>2, <2>3
<1>4. ASSUME NEW r \in Request, LockFound(r)
      PROVE  SubjectsInv'
  <2>1. UNCHANGED <<linked, collided>>
    BY <1>4 DEF LockFound, userVars, historyVars
  <2>2. PICK q : (q = None \/ q.op = "found") /\ request' = [request EXCEPT ![r] = q]
    <3>1. [request[r] EXCEPT !.locked = TRUE].op = "found"
      BY <1>4 DEF LockFound, Open, AccountsInv, RequestTypes, Shape
    <3> QED
      BY <1>4, <3>1 DEF LockFound, Finish
  <2> QED
    BY <2>1, <2>2, SubjectKeeps DEF SubjectKnown
<1>5. ASSUME NEW r \in Request, LockOidc(r)
      PROVE  SubjectsInv'
  <2> DEFINE q == request[r]
             known == linked[q.subject] # None
             u == IF known THEN linked[q.subject] ELSE q.email
             next == [Recognised(q.subject, u, q.group) EXCEPT !.email = IF known THEN None ELSE u]
  <2>1. UNCHANGED <<linked, collided>> /\ q.email # None
    BY <1>5 DEF LockOidc, userVars, historyVars
  <2>2. request' = [request EXCEPT ![r] = None] \/ request' = [request EXCEPT ![r] = next]
    BY <1>5 DEF LockOidc, Finish
  <2>3. next = [op |-> "oidc", target |-> u, session |-> None, subject |-> q.subject,
                email |-> IF known THEN None ELSE u, group |-> q.group,
                admin |-> GroupWish(u, q.group), active |-> "keep"]
    BY DEF Recognised
  <2>6. /\ next.op = "oidc" /\ next.target = u /\ next.subject = q.subject
        /\ next.email = IF known THEN None ELSE u
    BY <2>3
  <2>4. SubjectKnown(next)
    <3> HIDE DEF next
    <3> QED
      BY <2>1, <2>6 DEF SubjectKnown
  <2>5. SubjectKnown(None)
    BY DEF SubjectKnown
  <2> HIDE DEF next
  <2> QED
    BY <2>1, <2>2, <2>4, <2>5, SubjectKeeps
<1>6. ASSUME NEW r \in Request,
             \/ CommitUpdate(r) \/ CommitCreate(r) \/ CommitFound(r) \/ CommitLogin(r)
             \/ CommitRevoke(r) \/ Deadlocked(r)
      PROVE  SubjectsInv'
  <2>1. request' = [request EXCEPT ![r] = None] /\ UNCHANGED <<linked, collided>>
    BY <1>6 DEF CommitUpdate, CommitCreate, CommitFound, CommitLogin, CommitRevoke, Deadlocked, Finish, userVars,
                historyVars
  <2> QED
    BY <2>1, SubjectKeeps DEF SubjectKnown
<1>7. ASSUME NEW r \in Request, CommitPassword(r)
      PROVE  SubjectsInv'
  <2>1. /\ UNCHANGED <<linked, collided>>
        /\ \A p \in Request : \/ request'[p] \in {None, request[p]}
                              \/ Open(p, "login") /\ request'[p] = [request[p] EXCEPT !.straddled = TRUE]
    BY <1>7 DEF CommitPassword, historyVars
  <2>2. \A p \in Request : Open(p, "login") => [request[p] EXCEPT !.straddled = TRUE].op = "login"
    BY DEF AccountsInv, RequestTypes, Shape, Open
  <2> QED
    BY <2>1, <2>2 DEF SubjectsInv, SubjectKnown
<1>8. ASSUME NEW r \in Request, CommitDelete(r)
      PROVE  SubjectsInv'
  <2> DEFINE u == request[r].target
  <2>1. /\ UNCHANGED collided
        /\ linked' = [s \in Subject |-> IF linked[s] = u THEN None ELSE linked[s]]
        /\ \A p \in Request : request'[p] \in {None, request[p]}
        /\ \A p \in Request : request[p] # None /\ request[p].target = u => request'[p] = None
    BY <1>8 DEF CommitDelete
  <2>2. u # None
    BY <1>8, NoneAssumption DEF CommitDelete, Open, AccountsInv, RequestTypes, Shape
  <2>3. \A p \in Request : request[p] # None /\ request[p].op = "oidc" => request[p].subject \in Subject
    BY DEF AccountsInv, RequestTypes, Shape
  <2> QED
    BY <2>1, <2>2, <2>3 DEF SubjectsInv, SubjectKnown
<1>9. ASSUME NEW i \in Session, Logout(i) \/ Expire(i)
      PROVE  SubjectsInv'
  BY <1>9 DEF Logout, Expire, userVars, historyVars, SubjectsInv, SubjectKnown
<1> QED
  BY <1>1, <1>2, <1>3, <1>4, <1>5, <1>6, <1>7, <1>8, <1>9, CommitOidcSubject DEF AccountsNext

-----------------------------------------------------------------------------
(* Sessions and passwords: a session, and a login that is still on its way *)
(* to one, was opened with the password of its account unless that changed *)
(* meanwhile; a request changes the password of its session's account.     *)
Old(version, u) == version \in 1..(password[u] - 1)
Evicted(x) == x # None /\ x.state = "live" /\ Old(x.password, x.user) => x.straddled
OwnPassword(q) ==
  q # None =>
    /\ q.op = "login" /\ Old(q.password, q.target) => q.straddled
    /\ q.op = "password" => session[q.session].user = q.target

EvictInv ==
  /\ \A i \in Session : Evicted(session[i])
  /\ \A r \in Request : OwnPassword(request[r])

(* A step that opens and ends sessions: a password starts over at most.    *)
Opens ==
  /\ \A u \in User : password'[u] \in {password[u], 0, 1}
  /\ \A i \in Session :
       /\ \/ session'[i] = session[i]
          \/ session'[i] \in SessionRow /\ session'[i].state # "live"
          \/ session'[i].straddled \/ session'[i].password \notin 1..(password'[session'[i].user] - 1)
       /\ session[i] \in SessionRow => session'[i].user = session[i].user

LEMMA OpensKeeps ==
  ASSUME AccountsInv, EvictInv, Opens,
         \A p \in Request : request'[p] = request[p] \/ OwnPassword(request[p])'
  PROVE  EvictInv'
<1>1. ASSUME NEW u \in User, NEW n \in Nat, n \in 1..(password'[u] - 1)
      PROVE  n \in 1..(password[u] - 1)
  BY <1>1 DEF Opens, AccountsInv, UserTypes
<1>2. \A i \in Session : Evicted(session[i])'
  <2> SUFFICES ASSUME NEW i \in Session, session'[i] # None, session'[i].state = "live",
                      session'[i].password \in 1..(password'[session'[i].user] - 1)
               PROVE  session'[i].straddled
    BY DEF Evicted, Old
  <2>1. CASE session'[i] = session[i]
    <3>1. session[i].user \in User /\ session[i].password \in Nat
      BY <2>1 DEF AccountsInv, UserTypes, SessionRow
    <3> QED
      BY <1>1, <2>1, <3>1 DEF EvictInv, Evicted, Old
  <2>2. CASE session'[i] # session[i]
    BY <2>2 DEF Opens
  <2> QED
    BY <2>1, <2>2
<1>3. \A p \in Request : OwnPassword(request[p])'
  <2> SUFFICES ASSUME NEW p \in Request, request'[p] = request[p] PROVE OwnPassword(request[p])'
    OBVIOUS
  <2>1. CASE request[p] # None /\ request[p].op = "login"
    <3>1. request[p].target \in User /\ request[p].password \in Nat
      BY <2>1 DEF AccountsInv, RequestTypes, Shape
    <3> QED
      BY <1>1, <2>1, <3>1 DEF EvictInv, OwnPassword, Old
  <2>2. CASE request[p] # None /\ request[p].op = "password"
    <3>1. request[p].session \in Session /\ session[request[p].session] \in SessionRow
      BY <2>2 DEF AccountsInv, SessionsRead, Reads
    <3> QED
      BY <2>2, <3>1 DEF EvictInv, OwnPassword, Opens
  <2> QED
    BY <2>1, <2>2 DEF OwnPassword
<1> QED
  BY <1>2, <1>3 DEF EvictInv

(* Who signs in with a password that holds by now, or was told it changed. *)
LEMMA SignInOpens ==
  ASSUME AccountsInv, NEW u \in User, NEW version \in Nat, NEW straddled \in BOOLEAN, SignIn(u, version, straddled),
         \A w \in User : password'[w] \in {password[w], 0, 1},
         straddled \/ version \notin 1..(password'[u] - 1)
  PROVE  Opens
<1>1. CASE \A i \in Session : session[i] # None
  BY <1>1 DEF SignIn, Opens
<1>2. CASE \E i \in Session : session[i] = None
  <2>1. Slot(session) \in Session /\ session[Slot(session)] = None
    BY <1>2 DEF Slot, AccountsInv, UserTypes
  <2>2. session' = [session EXCEPT ![Slot(session)] =
          [user |-> u, password |-> version, state |-> "live", straddled |-> straddled]]
    BY <1>2 DEF SignIn
  <2>3. None \notin SessionRow
    BY NoSessionAssumption
  <2>4. session' = [i \in Session |-> IF i = Slot(session)
          THEN [user |-> u, password |-> version, state |-> "live", straddled |-> straddled] ELSE session[i]]
    BY <2>1, <2>2 DEF AccountsInv, UserTypes
  <2> QED
    BY <2>1, <2>3, <2>4 DEF Opens
<1> QED
  BY <1>1, <1>2

LEMMA CommitPasswordEvicts ==
  ASSUME AccountsInv, EvictInv, NEW r \in Request, CommitPassword(r)
  PROVE  EvictInv'
<1> DEFINE u == request[r].target
           own == request[r].session
<1>1. /\ request[r] # None /\ request[r].op = "password" /\ u \in User
      /\ own \in Session /\ session[own] \in SessionRow /\ session[own].user = u
  BY DEF CommitPassword, Open, AccountsInv, RequestTypes, Shape, SessionsRead, Reads, EvictInv, OwnPassword
<1>2. password[u] \in Nat /\ password' = [password EXCEPT ![u] = @ + 1]
  BY <1>1 DEF CommitPassword, AccountsInv, UserTypes
<1>3. session' = [j \in Session |->
          IF j = own THEN [session[j] EXCEPT !.password = password[u] + 1]
          ELSE IF j \in Rows(r) THEN [session[j] EXCEPT !.state = "revoked"]
          ELSE session[j]]
  BY DEF CommitPassword
<1>4. \A j \in Session : session[j] \in SessionRow => session'[j] \in SessionRow /\ session'[j].user = session[j].user
  BY <1>1, <1>2, <1>3 DEF SessionRow
<1>5. \A i \in Session : Evicted(session[i])'
  <2> SUFFICES ASSUME NEW i \in Session, session'[i] # None, session'[i].state = "live",
                      session'[i].password \in 1..(password'[session'[i].user] - 1)
               PROVE  session'[i].straddled
    BY DEF Evicted, Old
  <2>1. CASE i = own
    <3>1. session'[i].password = password[u] + 1 /\ session'[i].user = u
      BY <1>1, <1>3, <2>1 DEF SessionRow
    <3>2. password'[u] = password[u] + 1
      BY <1>1, <1>2 DEF AccountsInv, UserTypes
    <3> QED
      BY <1>2, <3>1, <3>2
  <2>2. CASE i # own /\ i \in Rows(r)
    <3>1. session[i] \in SessionRow
      BY <1>1, <2>2 DEF Rows, AccountsInv, UserTypes
    <3>2. session'[i].state = "revoked"
      BY <1>3, <2>2, <3>1 DEF SessionRow
    <3> QED
      BY <3>2
  <2>3. CASE i # own /\ i \notin Rows(r)
    <3>1. session'[i] = session[i] /\ session[i] \in SessionRow
      BY <1>3, <2>3 DEF AccountsInv, UserTypes
    <3>2. session[i].user # u
      BY <1>1, <2>3, <3>1 DEF Rows
    <3>3. password'[session[i].user] = password[session[i].user]
      BY <1>2, <3>1, <3>2 DEF SessionRow, AccountsInv, UserTypes
    <3> QED
      BY <3>1, <3>3 DEF EvictInv, Evicted, Old
  <2> QED
    BY <2>1, <2>2, <2>3
<1>6. \A p \in Request : OwnPassword(request[p])'
  <2> SUFFICES ASSUME NEW p \in Request PROVE OwnPassword(request[p])'
    OBVIOUS
  <2>1. request'[p] = IF p = r THEN None
                      ELSE IF Open(p, "login") /\ request[p].target = u THEN [request[p] EXCEPT !.straddled = TRUE]
                      ELSE request[p]
    BY DEF CommitPassword
  <2>2. CASE Open(p, "login")
    <3>1. request[p].target \in User /\ request[p].op = "login" /\ request[p] # None
      BY <2>2 DEF Open, AccountsInv, RequestTypes, Shape
    <3>2. CASE request[p].target = u
      <4>1. request'[p] = None \/ (request'[p].op = "login" /\ request'[p].straddled)
        BY <2>1, <2>2, <3>1, <3>2 DEF AccountsInv, RequestTypes, Shape
      <4> QED
        BY <4>1 DEF OwnPassword
    <3>3. CASE request[p].target # u
      <4>1. request'[p] \in {None, request[p]} /\ password'[request[p].target] = password[request[p].target]
        BY <1>2, <2>1, <3>1, <3>3 DEF AccountsInv, UserTypes
      <4> QED
        BY <3>1, <4>1 DEF EvictInv, OwnPassword, Old
    <3> QED
      BY <3>2, <3>3
  <2>3. CASE ~Open(p, "login")
    <3>1. request'[p] \in {None, request[p]}
      BY <2>1, <2>3
    <3>2. request[p] # None /\ request[p].op = "password" =>
            request[p].session \in Session /\ session[request[p].session] \in SessionRow
      BY DEF AccountsInv, SessionsRead, Reads
    <3> QED
      BY <1>4, <2>3, <3>1, <3>2 DEF EvictInv, OwnPassword, Open
  <2> QED
    BY <2>2, <2>3
<1> QED
  BY <1>5, <1>6 DEF EvictInv

(* A request is replaced or ends.                                          *)
LEMMA RequestEvicts ==
  ASSUME AccountsInv, EvictInv, Opens, NEW r \in Request, NEW q, request' = [request EXCEPT ![r] = q],
         q = None \/ q.op \notin {"login", "password"}
  PROVE  EvictInv'
<1>1. \A p \in Request : request'[p] = request[p] \/ (p = r /\ request'[p] = q)
  BY DEF AccountsInv, RequestTypes
<1>2. \A p \in Request : request'[p] = request[p] \/ OwnPassword(request[p])'
  BY <1>1 DEF OwnPassword
<1> QED
  BY <1>2, OpensKeeps

LEMMA OpensNothing ==
  ASSUME UNCHANGED <<password, session>>
  PROVE  Opens
  BY DEF Opens

LEMMA EvictStep ==
  ASSUME AccountsInv, EvictInv, [AccountsNext]_accountVars
  PROVE  EvictInv'
<1>1. CASE UNCHANGED accountVars
  BY <1>1, OpensNothing, OpensKeeps DEF accountVars, userVars
<1>2. ASSUME NEW r \in Request,
             \/ \E u \in User : Register(r, u) \/ Bootstrap(r, u)
             \/ \E i \in Session, u \in User : BeginDelete(r, i, u)
             \/ \E i \in Session, u \in User, isAdmin \in BOOLEAN : BeginCreate(r, i, u, isAdmin)
             \/ \E i \in Session, u \in User, wantAdmin, wantActive \in Wish :
                  BeginUpdate(r, i, u, wantAdmin, wantActive)
             \/ \E i, j \in Session : BeginRevoke(r, i, j)
             \/ \E s \in Subject, u \in User, group \in BOOLEAN : BeginOidc(r, s, u, group)
      PROVE  EvictInv'
  <2>1. PICK q : q.op \notin {"login", "password"} /\ request' = [request EXCEPT ![r] = q]
    <3>1. \E op \in {"found", "delete", "create", "update", "revoke", "oidc"} : Starts(r, op)
      BY <1>2, OperationStarts
    <3> QED
      BY <3>1 DEF Starts
  <2>2. UNCHANGED <<password, session>>
    BY <1>2 DEF Register, Bootstrap, BeginFound, BeginDelete, BeginCreate, BeginUpdate, BeginRevoke, BeginOwn,
                BeginOidc, userVars
  <2> QED
    BY <2>1, <2>2, OpensNothing, RequestEvicts
<1>3. ASSUME NEW r \in Request, NEW u \in User, BeginLogin(r, u)
      PROVE  EvictInv'
  <2>1. /\ request' = [request EXCEPT ![r] = [op |-> "login", target |-> u, session |-> None,
                                              password |-> password[u], straddled |-> FALSE]]
        /\ UNCHANGED <<password, session>>
    BY <1>3 DEF BeginLogin, Start, userVars
  <2>2. password[u] \in Nat
    BY DEF AccountsInv, UserTypes
  <2>3. \A p \in Request : request'[p] = request[p] \/ OwnPassword(request[p])'
    BY <2>1, <2>2 DEF OwnPassword, Old, AccountsInv, RequestTypes
  <2> QED
    BY <2>1, <2>3, OpensNothing, OpensKeeps
<1>4. ASSUME NEW r \in Request, NEW i \in Session, BeginPassword(r, i)
      PROVE  EvictInv'
  <2>1. /\ request' = [request EXCEPT ![r] = [op |-> "password", target |-> session[i].user, session |-> i]]
        /\ UNCHANGED <<password, session>>
    BY <1>4 DEF BeginPassword, BeginOwn, Start, userVars
  <2>2. \A p \in Request : request'[p] = request[p] \/ OwnPassword(request[p])'
    BY <2>1 DEF OwnPassword, Old, AccountsInv, RequestTypes
  <2> QED
    BY <2>1, <2>2, OpensNothing, OpensKeeps
<1>5. ASSUME NEW r \in Request, LockFound(r) \/ LockOidc(r)
      PROVE  EvictInv'
  <2>1. PICK q : (q = None \/ q.op \in {"found", "oidc"}) /\ request' = [request EXCEPT ![r] = q]
    <3>1. CASE LockFound(r)
      <4>1. [request[r] EXCEPT !.locked = TRUE].op = "found"
        BY <3>1 DEF LockFound, Open, AccountsInv, RequestTypes, Shape
      <4> QED
        BY <3>1, <4>1 DEF LockFound, Finish
    <3>2. CASE LockOidc(r)
      BY <3>2 DEF LockOidc, Finish, Recognised
    <3> QED
      BY <1>5, <3>1, <3>2
  <2>2. UNCHANGED <<password, session>>
    BY <1>5 DEF LockFound, LockOidc, userVars
  <2> QED
    BY <2>1, <2>2, OpensNothing, RequestEvicts
<1>6. ASSUME NEW r \in Request, CommitUpdate(r) \/ Deadlocked(r)
      PROVE  EvictInv'
  <2>1. request' = [request EXCEPT ![r] = None] /\ UNCHANGED <<password, session>>
    BY <1>6 DEF CommitUpdate, Deadlocked, Finish, userVars
  <2> QED
    BY <2>1, OpensNothing, RequestEvicts
<1>7. ASSUME NEW r \in Request, CommitRevoke(r)
      PROVE  EvictInv'
  <2>1. /\ request' = [request EXCEPT ![r] = None] /\ UNCHANGED password
        /\ session' = [session EXCEPT ![request[r].other].state = "revoked"]
    BY <1>7 DEF CommitRevoke, Finish, userVars
  <2>2. request[r].other \in Session /\ session[request[r].other] \in SessionRow
    BY <1>7 DEF CommitRevoke, Open, AccountsInv, SessionsRead, Reads
  <2>3. Opens
    BY <2>1, <2>2 DEF Opens, AccountsInv, UserTypes, SessionRow
  <2> QED
    BY <2>1, <2>3, RequestEvicts
<1>8. ASSUME NEW i \in Session, Logout(i) \/ Expire(i)
      PROVE  EvictInv'
  <2>1. session[i] \in SessionRow /\ UNCHANGED <<password, request>>
    BY <1>8 DEF Logout, Expire, Usable, AccountsInv, UserTypes, userVars
  <2>2. Opens
    BY <1>8, <2>1 DEF Logout, Expire, Opens, AccountsInv, UserTypes, SessionRow
  <2> QED
    BY <2>1, <2>2, OpensKeeps
<1>9. ASSUME NEW r \in Request, CommitLogin(r)
      PROVE  EvictInv'
  <2>1. /\ request[r] # None /\ request[r].op = "login" /\ UNCHANGED password
        /\ request' = [request EXCEPT ![r] = None]
        /\ SignIn(request[r].target, request[r].password, request[r].straddled)
    BY <1>9 DEF CommitLogin, Open, Finish, userVars
  <2>2. request[r].target \in User /\ request[r].password \in Nat /\ request[r].straddled \in BOOLEAN
    BY <2>1 DEF AccountsInv, RequestTypes, Shape
  <2>3. PICK u \in User, v \in Nat, b \in BOOLEAN :
          u = request[r].target /\ v = request[r].password /\ b = request[r].straddled
    BY <2>2
  <2>4. b \/ v \notin 1..(password'[u] - 1)
    BY <2>1, <2>3 DEF EvictInv, OwnPassword, Old
  <2>5. Opens
    BY <2>1, <2>3, <2>4, SignInOpens
  <2> QED
    BY <2>1, <2>5, RequestEvicts
<1>10. ASSUME NEW r \in Request, CommitCreate(r)
       PROVE  EvictInv'
  <2>1. request' = [request EXCEPT ![r] = None] /\ UNCHANGED session
    BY <1>10 DEF CommitCreate, Finish
  <2>2. \A u \in User : password'[u] \in {password[u], 0, 1}
    BY <1>10 DEF CommitCreate, MakeAccount, AccountsInv, UserTypes
  <2>3. Opens
    BY <2>1, <2>2 DEF Opens
  <2> QED
    BY <2>1, <2>3, RequestEvicts
<1>11. ASSUME NEW r \in Request, CommitFound(r)
       PROVE  EvictInv'
  <2>1. /\ request' = [request EXCEPT ![r] = None] /\ MakeAccount(request[r].email, TRUE, 1)
        /\ SignIn(request[r].email, 1, FALSE) \/ UNCHANGED session
    BY <1>11 DEF CommitFound, Finish
  <2>2. PICK u \in User : u = request[r].email
    BY <1>11 DEF CommitFound, Open, AccountsInv, RequestTypes, Shape
  <2>3. password' = [password EXCEPT ![u] = 1]
    BY <2>1, <2>2 DEF MakeAccount
  <2>4. (\A w \in User : password'[w] \in {password[w], 0, 1}) /\ 1 \notin 1..(password'[u] - 1)
    BY <2>3 DEF AccountsInv, UserTypes
  <2>5. Opens
    <3>1. CASE SignIn(u, 1, FALSE)
      BY <2>4, <3>1, SignInOpens
    <3>2. CASE UNCHANGED session
      BY <2>4, <3>2 DEF Opens
    <3> QED
      BY <2>1, <2>2, <3>1, <3>2
  <2> QED
    BY <2>1, <2>5, RequestEvicts
<1>12. ASSUME NEW r \in Request, CommitOidc(r)
       PROVE  EvictInv'
  <2>1. /\ request' = [request EXCEPT ![r] = None]
        /\ \/ UNCHANGED <<password, session>>
           \/ /\ SignIn(request[r].target, 0, FALSE)
              /\ UNCHANGED password \/ password' = [password EXCEPT ![request[r].target] = 0]
    BY <1>12 DEF CommitOidc, Finish, MakeAccount
  <2>2. PICK u \in User : u = request[r].target
    BY <1>12 DEF CommitOidc, Open, AccountsInv, RequestTypes, Shape
  <2>3. \A w \in User : password'[w] \in {password[w], 0, 1}
    BY <2>1, <2>2 DEF AccountsInv, UserTypes
  <2>4. Opens
    <3>1. CASE SignIn(u, 0, FALSE)
      <4>1. 0 \notin 1..(password'[u] - 1)
        BY <2>3 DEF AccountsInv, UserTypes
      <4> QED
        BY <2>3, <3>1, <4>1, SignInOpens
    <3>2. CASE UNCHANGED session
      BY <2>3, <3>2 DEF Opens
    <3> QED
      BY <2>1, <2>2, <3>1, <3>2
  <2> QED
    BY <2>1, <2>4, RequestEvicts
<1>13. ASSUME NEW r \in Request, CommitDelete(r)
       PROVE  EvictInv'
  <2> DEFINE u == request[r].target
  <2>1. /\ password' = [password EXCEPT ![u] = 0]
        /\ session' = [i \in Session |->
             IF session[i] # None /\ session[i].user = u
               THEN [session[i] EXCEPT !.state = "deleted"] ELSE session[i]]
        /\ \A p \in Request : request'[p] \in {None, request[p]}
    BY <1>13 DEF CommitDelete
  <2>2. \A w \in User : password'[w] \in {password[w], 0, 1}
    BY <2>1 DEF AccountsInv, UserTypes
  <2>3. Opens
    BY <2>1, <2>2 DEF Opens, AccountsInv, UserTypes, SessionRow
  <2>4. \A p \in Request : request'[p] = request[p] \/ OwnPassword(request[p])'
    BY <2>1 DEF OwnPassword
  <2> QED
    BY <2>3, <2>4, OpensKeeps
<1> QED
  BY <1>1, <1>2, <1>3, <1>4, <1>5, <1>6, <1>7, <1>8, <1>9, <1>10, <1>11, <1>12, <1>13, CommitPasswordEvicts
     DEF AccountsNext

-----------------------------------------------------------------------------
(* First logins of one subject at once find one account: none is refused   *)
(* by what another has written (_lock_user_creation before the second look *)
(* in auth/oidc.py).                                                       *)
THEOREM LoginsAgree == AccountsSpec => []FirstLoginsAgree
<1>1. AccountsInv /\ [AccountsNext]_accountVars => AccountsInv'
  BY AccountsStep
<1>2. AccountsInv /\ SubjectsInv /\ [AccountsNext]_accountVars => SubjectsInv'
  BY SubjectsStep
<1>3. AccountsInit => SubjectsInv
  BY DEF AccountsInit, SubjectsInv, SubjectKnown
<1>4. SubjectsInv => FirstLoginsAgree
  BY DEF SubjectsInv, FirstLoginsAgree
<1> QED
  BY AccountsInitHolds, <1>1, <1>2, <1>3, <1>4, PTL DEF AccountsSpec

(* A session opened with an older password is gone, unless it is the one   *)
(* that changed it or its login was in progress meanwhile                  *)
(* (revoke_other_sessions in change_password).                             *)
THEOREM OldSessionsEvicted == AccountsSpec => []PasswordChangeEvicts
<1>1. AccountsInv /\ [AccountsNext]_accountVars => AccountsInv'
  BY AccountsStep
<1>2. AccountsInv /\ EvictInv /\ [AccountsNext]_accountVars => EvictInv'
  BY EvictStep
<1>3. AccountsInit => EvictInv
  <2> SUFFICES ASSUME AccountsInit PROVE EvictInv
    OBVIOUS
  <2>1. \A r \in Request : request[r] = None
    BY DEF AccountsInit
  <2>2. ASSUME Fresh PROVE \A i \in Session : session[i] = None
    BY <2>2 DEF Fresh
  <2>3. ASSUME Installed PROVE password = [u \in User |-> 1] /\ \A i \in Session : session[i] # None => session[i].user \in User
    BY <2>3 DEF Installed, SignedIn
  <2>4. \A i \in Session : Evicted(session[i])
    BY <2>2, <2>3 DEF AccountsInit, Evicted, Old
  <2> QED
    BY <2>1, <2>4 DEF EvictInv, OwnPassword
<1>4. EvictInv => PasswordChangeEvicts
  BY DEF EvictInv, Evicted, Old, PasswordChangeEvicts
<1> QED
  BY AccountsInitHolds, <1>1, <1>2, <1>3, <1>4, PTL DEF AccountsSpec
=============================================================================
