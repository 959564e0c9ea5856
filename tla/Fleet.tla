------------------------------- MODULE Fleet -------------------------------
(***************************************************************************)
(* Enrollment and configuration of the agents of one machine: tokens,      *)
(* agent rows, one CAN profile that administrators edit, assign and delete *)
(* (backend/app/agents, vehicle_profiles), and the machine that enrolls    *)
(* and pulls its configuration (agent/vehicle_agent/config.py, cli.py;     *)
(* agent/internal/store/config.go does the same).  A request reads when it *)
(* begins and writes when it commits; a reply may be lost.                 *)
(***************************************************************************)
EXTENDS Integers, FiniteSets

CONSTANTS
  Agent,    \* agent rows; a row deleted is not used again
  Token,    \* enrollment tokens
  Call,     \* requests open at once
  MaxEdit,  \* bound: operations of administrators ever begun
  MaxLoss,  \* bound: replies lost and enrollments cut short
  Null      \* no row, token, request, reply, credential or file

ASSUME FleetNoneAssumption == Null \notin Agent \cup Token \cup Call
ASSUME FleetBoundAssumption == MaxEdit \in Nat /\ MaxLoss \in Nat

VARIABLES
  row,         \* Agent: Null or the row
  token,       \* Token: Null or the row
  made,        \* Token: the agents it has enrolled
  revision,    \* of the profile's definition, -1 once it is deleted
  call,        \* what an open request has read
  reply,       \* what the server has answered the machine
  credential,  \* the machine's credentials.json
  file,        \* the machine's config.json, with the agent it was meant for
  edits, losses,
  overlapped   \* agents whose version was written over one not read, or that
               \* were assigned the profile while it was being edited

serverVars == <<row, token, made, revision>>
machineVars == <<reply, credential, file>>
fleetVars == <<serverVars, machineVars, call, edits, losses, overlapped>>

Usages == {"profile", "standard"}  \* vehicle_profile: the profile's id, or NULL
TokenRow == [usage : Usages, state : {"open", "used", "expired"}]

ASSUME NullAssumption == Null \notin TokenRow

(* agent_config of what was read of a row; the definition is looked up     *)
(* when the answer is built (can_profile_definition).                      *)
Definition(usage) == IF usage = "profile" THEN revision ELSE 0
Configuration(a, read) ==
  [agent |-> a, version |-> read.version, setting |-> read.setting,
   usage |-> read.usage, revision |-> Definition(read.usage)]
Content(c) == <<c.setting, c.usage, c.revision>>
(* A reference to a profile that is gone.  No agent accepts it when it     *)
(* syncs, nor does the Go agent when it enrolls; the Python agent's        *)
(* enrollment, which does not look, is not followed.                       *)
Dangling(c) == c.usage = "profile" /\ c.revision = -1

Doing(c, op) == call[c] # Null /\ call[c].op = op
(* Which free slot is taken makes no difference.                           *)
Free(f, x) == f[x] = Null /\ x = CHOOSE y \in DOMAIN f : f[y] = Null
Begin(c, q) == Free(call, c) /\ call' = [call EXCEPT ![c] = q]
End(c) == call' = [call EXCEPT ![c] = Null]
Edit == edits < MaxEdit /\ edits' = edits + 1
Lose == losses < MaxLoss /\ losses' = losses + 1

(* _bump_assigned_agents has written these rows and not committed.         *)
Held(a) == \E c \in Call : Doing(c, "profile") /\ a \in call[c].rows

(* The row is given the profile while a change of it is not committed: the *)
(* UPDATE has passed it by.                                                *)
Joins(a, usage) == usage = "profile" /\ \E c \in Call : Doing(c, "profile") /\ a \notin call[c].rows

-----------------------------------------------------------------------------
(* Administrators.                                                         *)

(* create_enrollment: can_profile_definition must know the profile.        *)
Available(usage) == usage = "profile" => revision # -1
NewToken(usage) == [usage |-> usage, state |-> "open"]

CreateToken(t, usage) ==
  /\ Edit
  /\ Free(token, t) /\ Available(usage)
  /\ token' = [token EXCEPT ![t] = NewToken(usage)]
  /\ UNCHANGED <<row, made, revision, machineVars, call, losses, overlapped>>

ExpireToken(t) ==
  /\ Edit
  /\ token[t] # Null /\ token[t].state = "open"
  /\ token' = [token EXCEPT ![t].state = "expired"]
  /\ UNCHANGED <<row, made, revision, machineVars, call, losses, overlapped>>

(* edit_agent: a rename changes neither the settings nor the version.      *)
BeginEdit(c, a, usage, setting) ==
  /\ row[a] # Null /\ Available(usage)
  /\ Begin(c, [op |-> "edit", agent |-> a, read |-> row[a], usage |-> usage, setting |-> setting])
  /\ Edit
  /\ UNCHANGED <<serverVars, machineVars, losses, overlapped>>

(* Mutant: only a change of cadence counts.                                *)
Differs_cadence(q) == q.setting # q.read.setting
Differs(q) == <<q.usage, q.setting>> # <<q.read.usage, q.read.setting>>

(* update_agent writes the columns that differ from what it read, and the  *)
(* version it read plus one.                                               *)
CommitEdit(c) ==
  /\ Doing(c, "edit")
  /\ LET q == call[c]
         a == q.agent
         now == row[a]
         next == [now EXCEPT
           !.usage = IF q.usage # q.read.usage THEN q.usage ELSE @,
           !.setting = IF q.setting # q.read.setting THEN q.setting ELSE @,
           !.version = IF Differs(q) THEN q.read.version + 1 ELSE @]
         blind == Differs(q) /\ now.version # q.read.version
     IN IF now = Null THEN UNCHANGED <<row, overlapped>>
        ELSE /\ ~Held(a)
             /\ row' = [row EXCEPT ![a] = next]
             /\ overlapped' = IF blind \/ Joins(a, q.usage) THEN overlapped \cup {a} ELSE overlapped
  /\ End(c)
  /\ UNCHANGED <<token, made, revision, machineVars, edits, losses>>

(* update_profile and delete_profile: the UPDATE of the assigned agents    *)
(* takes place before the commit and keeps their rows locked.              *)
Assigned == {a \in Agent : row[a] # Null /\ row[a].usage = "profile"}
(* Mutant: the agents are not told.                                        *)
Bumped_not(read) == read
Bumped(read) == [read EXCEPT !.version = @ + 1]

BeginProfile(c, next) ==
  /\ revision # -1 /\ \A d \in Call : ~Doing(d, "profile")
  /\ Begin(c, [op |-> "profile", rows |-> Assigned, next |-> next])
  /\ Edit
  /\ UNCHANGED <<serverVars, machineVars, losses, overlapped>>

CommitProfile(c) ==
  /\ Doing(c, "profile")
  /\ LET q == call[c] IN
     /\ revision' = q.next
     /\ row' = [a \in Agent |->
          IF a \notin q.rows THEN row[a]
          ELSE IF q.next = -1 THEN [Bumped(row[a]) EXCEPT !.usage = "standard"]
          ELSE Bumped(row[a])]
  /\ End(c)
  /\ UNCHANGED <<token, made, machineVars, edits, losses, overlapped>>

(* revoke_agent and retire_agent: the credential is refused from now on.   *)
RevokeAgent(a) ==
  /\ Edit
  /\ row[a] # Null /\ ~Held(a) /\ row' = [row EXCEPT ![a].revoked = TRUE]
  /\ UNCHANGED <<token, made, revision, machineVars, call, losses, overlapped>>

(* rotate_agent: the machine keeps the credential it had.                  *)
RotateAgent(a) ==
  /\ Edit
  /\ row[a] # Null /\ ~row[a].revoked /\ ~Held(a) /\ row[a].key < 2
  /\ row' = [row EXCEPT ![a].key = @ + 1]
  /\ UNCHANGED <<token, made, revision, machineVars, call, losses, overlapped>>

(* purge_agent: the row goes, and with it every credential.                *)
PurgeAgent(a) ==
  /\ Edit
  /\ row[a] # Null /\ ~Held(a) /\ row' = [row EXCEPT ![a] = Null]
  /\ UNCHANGED <<token, made, revision, machineVars, call, losses, overlapped>>

-----------------------------------------------------------------------------
(* Enrollment.                                                             *)

NewRow(usage) ==
  [version |-> 1, setting |-> 0, usage |-> usage, revoked |-> FALSE, key |-> 1]

(* Mutant: the token is read without FOR UPDATE.                           *)
BeginEnroll_unlocked(c, t) ==
  /\ token[t] # Null /\ token[t].state = "open"
  /\ Begin(c, [op |-> "enroll", token |-> t])
  /\ UNCHANGED <<serverVars, machineVars, edits, losses, overlapped>>
(* enroll: the token's row is locked until the commit.                     *)
BeginEnroll(c, t) ==
  /\ token[t] # Null /\ token[t].state = "open"
  /\ \A d \in Call : Doing(d, "enroll") => call[d].token # t
  /\ Begin(c, [op |-> "enroll", token |-> t])
  /\ UNCHANGED <<serverVars, machineVars, edits, losses, overlapped>>

(* The machine handles one answer at a time; any answer may be lost.       *)
Answer(stage, configuration) ==
  \/ reply = Null /\ reply' = [stage |-> stage, configuration |-> configuration] /\ UNCHANGED losses
  \/ Lose /\ UNCHANGED reply

(* The row is given an id of its own.                                      *)
Unused == Agent \ UNION {made[t] : t \in Token}

CommitEnroll(c, a) ==
  /\ Doing(c, "enroll")
  /\ Unused # {} /\ a = CHOOSE b \in Unused : TRUE
  /\ LET t == call[c].token
         new == NewRow(token[t].usage)
     IN /\ token' = [token EXCEPT ![t].state = "used"]
        /\ made' = [made EXCEPT ![t] = @ \cup {a}]
        /\ row' = [row EXCEPT ![a] = new]
        /\ overlapped' = IF Joins(a, new.usage) THEN overlapped \cup {a} ELSE overlapped
        /\ Answer("enrolled", Configuration(a, new))
  /\ End(c)
  /\ UNCHANGED <<revision, credential, file, edits>>

(* store_credentials, then the configuration (command_enroll).             *)
StoreCredentials ==
  /\ reply # Null /\ reply.stage = "enrolled"
  /\ credential' = [agent |-> reply.configuration.agent, key |-> 1]
  /\ reply' = [reply EXCEPT !.stage = "stored"]
  /\ UNCHANGED <<serverVars, file, call, edits, losses, overlapped>>

CutShort ==
  /\ reply # Null /\ reply.stage \in {"enrolled", "stored"} /\ reply' = Null /\ Lose
  /\ UNCHANGED <<serverVars, credential, file, call, edits, overlapped>>

(* install_if_newer: a lower version is refused, an equal one keeps the    *)
(* file, and the replacement is atomic.                                    *)
Newer(c) == IF ~Dangling(c) /\ (file = Null \/ c.version > file.version) THEN c ELSE file

Install ==
  /\ reply # Null /\ reply.stage \in {"stored", "fetched"}
  /\ file' = Newer(reply.configuration) /\ reply' = Null
  /\ UNCHANGED <<serverVars, credential, call, edits, losses, overlapped>>

-----------------------------------------------------------------------------
(* Configuration sync.                                                     *)

(* current_agent                                                           *)
Accepted ==
  /\ credential # Null /\ row[credential.agent] # Null
  /\ ~row[credential.agent].revoked /\ row[credential.agent].key = credential.key

(* An agent without a configuration does not start.                        *)
BeginFetch(c) ==
  /\ Accepted /\ file # Null /\ reply = Null /\ \A d \in Call : ~Doing(d, "fetch")
  /\ Begin(c, [op |-> "fetch", agent |-> credential.agent, read |-> row[credential.agent]])
  /\ UNCHANGED <<serverVars, machineVars, edits, losses, overlapped>>

(* Mutant: only the version is read again after the commit.                *)
Served_refreshed(a, read) == [Configuration(a, read) EXCEPT !.version = row[a].version]
(* The row as read first, with the definition as it is now.                *)
Served(a, read) == Configuration(a, read)

(* get_config: last_config_sync_at waits for a lock on the row.            *)
ServeFetch(c) ==
  /\ Doing(c, "fetch")
  /\ LET a == call[c].agent IN
     IF row[a] = Null THEN UNCHANGED <<reply, losses>>
     ELSE ~Held(a) /\ Answer("fetched", Served(a, call[c].read))
  /\ End(c)
  /\ UNCHANGED <<serverVars, credential, file, edits, overlapped>>

-----------------------------------------------------------------------------
FleetInit ==
  /\ row = [a \in Agent |-> Null] /\ token = [t \in Token |-> Null]
  /\ made = [t \in Token |-> {}] /\ revision = 0
  /\ call = [c \in Call |-> Null]
  /\ reply = Null /\ credential = Null /\ file = Null
  /\ edits = 0 /\ losses = 0 /\ overlapped = {}

FleetNext ==
  \/ \E t \in Token : ExpireToken(t) \/ \E usage \in Usages : CreateToken(t, usage)
  \/ \E a \in Agent : RevokeAgent(a) \/ RotateAgent(a) \/ PurgeAgent(a)
  \/ \E c \in Call :
       \/ \E a \in Agent, usage \in Usages, setting \in 0..1 : BeginEdit(c, a, usage, setting)
       \/ \E next \in {revision + 1, -1} : BeginProfile(c, next)
       \/ \E t \in Token : BeginEnroll(c, t)
       \/ \E a \in Agent : CommitEnroll(c, a)
       \/ CommitEdit(c) \/ CommitProfile(c) \/ BeginFetch(c) \/ ServeFetch(c)
  \/ StoreCredentials \/ CutShort \/ Install

(* Requests end, and the agent's loop keeps asking and installing.         *)
FleetFairness ==
  /\ \A c \in Call :
       WF_fleetVars(CommitEdit(c) \/ CommitProfile(c) \/ ServeFetch(c)
                      \/ \E a \in Agent : CommitEnroll(c, a))
  /\ WF_fleetVars(\E c \in Call : BeginFetch(c))
  /\ WF_fleetVars(StoreCredentials \/ Install)

FleetSpec == FleetInit /\ [][FleetNext]_fleetVars /\ FleetFairness

(* However often an enrollment is posted, its token makes one agent.       *)
TokenEnrollsOnce == \A t \in Token : Cardinality(made[t]) <= 1

Current(a) == Configuration(a, row[a])

(* An agent that holds the version the server has holds its content, since *)
(* it will not replace it: an answer built across a change of the profile  *)
(* carries the older version.  Edits that overlapped are excepted.         *)
ConfigurationAgrees ==
  file # Null =>
    (row[file.agent] # Null /\ file.agent \notin overlapped /\ file.version = row[file.agent].version
       => Content(file) = Content(Current(file.agent)))

(* An accepted agent comes to hold what the server has for it, unless its  *)
(* edits overlapped, its profile is gone, or its file was left by another  *)
(* enrollment with a version as high.                                      *)
ConfigurationReachesAgent ==
  []<>( \/ ~Accepted \/ file = Null
        \/ file.agent # credential.agent
        \/ credential.agent \in overlapped
        \/ Dangling(Current(credential.agent))
        \/ Content(file) = Content(Current(credential.agent)))
=============================================================================
