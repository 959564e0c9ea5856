---------------------------- MODULE EventStream ----------------------------
(***************************************************************************)
(* Vehicle access grants and the browser's event stream over the accounts  *)
(* (backend/app/access, api/events.py).  One vehicle; a stream per session *)
(* polls a snapshot every second and sends it when it differs from the     *)
(* last frame.  The reads of one snapshot are one step.                    *)
(***************************************************************************)
EXTENDS Accounts

CONSTANTS
  Watching,    \* bound: the sessions that open a stream
  Replacement  \* bound: the grants an administrator may send

ASSUME WatchingAssumption == Watching \subseteq Session /\ Replacement \subseteq Grants

VARIABLES
  stream,   \* "closed", "unsent" or the level in the last frame sent
  snapshot  \* "idle", "invalid" or the level just loaded

streamVars == <<stream, snapshot>>
vars == <<accountVars, streamVars>>

(* access_level and visible_vehicle_ids.                                   *)
Visible(u) == IF admin[u] THEN "operate" ELSE grant[u]

(* replace_vehicle_grants: the DELETE sees the rows of this moment.        *)
BeginGrants(r, i, wanted) ==
  /\ AdminSession(i)
  /\ \A u \in User : wanted[u] # "none" => Exists(u)
  /\ Start(r, [op |-> "grants", target |-> None, session |-> None, wanted |-> wanted,
               seen |-> {u \in User : grant[u] # "none"}])
  /\ UNCHANGED <<scope, userVars, session, lock, historyVars, streamVars>>

(* Rows inserted since the DELETE began stay; one of a user it grants anew *)
(* violates the primary key and the whole replacement is rolled back.      *)
CommitGrants(r) ==
  /\ Open(r, "grants")
  /\ LET q == request[r]
         later == {u \in User : grant[u] # "none" /\ u \notin q.seen}
         valid == \A u \in User : q.wanted[u] # "none" => u \notin later /\ Exists(u)
     IN IF valid
          THEN /\ grant' = [u \in User |-> IF u \in later THEN grant[u] ELSE q.wanted[u]]
               /\ request' = [p \in Request |->
                    IF p = r THEN None
                    ELSE IF Open(p, "grants") THEN [request[p] EXCEPT !.seen = {}]
                    ELSE request[p]]
          ELSE Finish(r) /\ UNCHANGED grant
  /\ UNCHANGED <<scope, begun, account, admin, password, linked, template, session, lock,
                 historyVars, streamVars>>

SetDefault(i, level) ==
  /\ "create" \in scope /\ AdminSession(i) /\ template' = level
  /\ UNCHANGED <<scope, begun, account, admin, password, linked, grant, session, lock, request,
                 historyVars, streamVars>>

OpenStream(i) ==
  /\ "stream" \in scope /\ i \in Watching /\ stream[i] = "closed" /\ Usable(i)
  /\ stream' = [stream EXCEPT ![i] = "unsent"]
  /\ UNCHANGED <<accountVars, snapshot>>

(* Mutant: a suspended account is not noticed.                             *)
Loaded_suspended(i) ==
  IF session[i].state = "live" THEN Visible(session[i].user) ELSE "invalid"

(* load_vehicle_snapshot                                                   *)
Loaded(i) == IF Usable(i) THEN Visible(session[i].user) ELSE "invalid"

Poll(i) ==
  /\ stream[i] # "closed" /\ snapshot[i] = "idle"
  /\ snapshot' = [snapshot EXCEPT ![i] = Loaded(i)]
  /\ UNCHANGED <<accountVars, stream>>

(* The next frame, or the end after session.expired.                       *)
Sent(previous, loaded) == IF loaded = "invalid" THEN "closed" ELSE loaded

Deliver(i) ==
  /\ snapshot[i] # "idle"
  /\ stream' = [stream EXCEPT ![i] = Sent(@, snapshot[i])]
  /\ snapshot' = [snapshot EXCEPT ![i] = "idle"]
  /\ UNCHANGED accountVars

(* The browser leaves, or a snapshot raises.                               *)
EndStream(i) ==
  /\ stream[i] # "closed"
  /\ stream' = [stream EXCEPT ![i] = "closed"]
  /\ snapshot' = [snapshot EXCEPT ![i] = "idle"]
  /\ UNCHANGED accountVars

StreamInit ==
  /\ AccountsInit
  /\ stream = [i \in Session |-> "closed"] /\ snapshot = [i \in Session |-> "idle"]

StreamNext ==
  \/ AccountsNext /\ UNCHANGED streamVars
  \/ \E r \in Request :
       \/ \E i \in Session, wanted \in Replacement : BeginGrants(r, i, wanted)
       \/ CommitGrants(r)
  \/ \E i \in Session :
       \/ \E level \in Level : SetDefault(i, level)
       \/ OpenStream(i) \/ Poll(i) \/ Deliver(i) \/ EndStream(i)

(* The server polls an open stream for as long as it runs.                 *)
StreamFairness == \A i \in Session : WF_vars(Poll(i)) /\ WF_vars(Deliver(i))

StreamSpec == StreamInit /\ [][StreamNext]_vars /\ StreamFairness

(* Whatever is changed between a poll and its frame, an open stream always *)
(* comes to show exactly what its session may see, and one whose session   *)
(* was revoked, has expired or was suspended comes to an end.              *)
StreamSettles ==
  \A i \in Session :
    []<>(stream[i] = "closed" \/ (Usable(i) /\ stream[i] = Visible(session[i].user)))
=============================================================================
