----------------------------- MODULE FleetProofs -----------------------------
(***************************************************************************)
(* Enrollment tokens are single-use, and an agent that holds the server's  *)
(* version holds its content, for any number of agents, tokens and         *)
(* requests at once, and however often administrators edit.                *)
(*                                                                         *)
(* What an agent does with a configuration once it has it follows at the   *)
(* end: its connection to the vehicle is never given away under another    *)
(* configuration than the one in use, nor after it was closed.             *)
(***************************************************************************)
EXTENDS Fleet, VehicleSource, FiniteSetTheorems, TLAPS

(* What the lock on a token's row gives: of one token one enrollment is    *)
(* open, and a token that has enrolled an agent is used and has none open. *)
Enrolling(c, t) == Doing(c, "enroll") /\ call[c].token = t

CallInv ==
  /\ call = [c \in Call |-> call[c]]
  /\ \A c \in Call : Doing(c, "enroll") => call[c].token \in Token
  /\ \A c, d \in Call, t \in Token : Enrolling(c, t) /\ Enrolling(d, t) => c = d

TokenInv ==
  /\ token \in [Token -> TokenRow \union {Null}]
  /\ made \in [Token -> SUBSET Agent]
  /\ \A t \in Token : made[t] # {} =>
       /\ token[t] # Null /\ token[t].state = "used"
       /\ \E a \in Agent : made[t] = {a}
  /\ \A c \in Call, t \in Token : Enrolling(c, t) => token[t] # Null /\ made[t] = {}

EnrollInv == CallInv /\ TokenInv

LEMMA EnrollInit == FleetInit => EnrollInv
  BY DEF FleetInit, EnrollInv, CallInv, TokenInv, Enrolling, Doing

(* A request of another kind begins, or any request ends.                  *)
LEMMA CallsOther ==
  ASSUME EnrollInv, UNCHANGED <<token, made>>, NEW c \in Call, NEW q, q # Null => q.op # "enroll",
         call' = [call EXCEPT ![c] = q]
  PROVE  EnrollInv'
<1>1. \A d \in Call, t \in Token : Enrolling(d, t)' => Enrolling(d, t)
  BY DEF Enrolling, Doing, EnrollInv, CallInv
<1>2. \A d \in Call : Doing(d, "enroll")' => Doing(d, "enroll") /\ call'[d] = call[d]
  BY DEF Doing, EnrollInv, CallInv
<1>3. CallInv'
  BY <1>1, <1>2 DEF EnrollInv, CallInv
<1>4. TokenInv'
  BY <1>1 DEF EnrollInv, TokenInv
<1> QED
  BY <1>3, <1>4 DEF EnrollInv

(* Requests stay as they are, and so do tokens.                            *)
LEMMA CallsSame ==
  ASSUME EnrollInv, UNCHANGED <<token, made, call>>
  PROVE  EnrollInv'
  BY DEF EnrollInv, CallInv, TokenInv, Enrolling, Doing

LEMMA CreateKeeps ==
  ASSUME EnrollInv, NEW t \in Token, NEW usage \in Usages, CreateToken(t, usage)
  PROVE  EnrollInv'
<1>1. /\ token[t] = Null /\ UNCHANGED <<call, made>>
      /\ token' = [token EXCEPT ![t] = [usage |-> usage, state |-> "open"]]
  BY DEF CreateToken, Free, NewToken
<1>2. CallInv'
  BY <1>1 DEF EnrollInv, CallInv, Enrolling, Doing
<1>3. made[t] = {} /\ \A c \in Call : ~Enrolling(c, t)
  BY <1>1 DEF EnrollInv, TokenInv
<1>4. token' \in [Token -> TokenRow \union {Null}]
  BY <1>1 DEF EnrollInv, TokenInv, TokenRow
<1>5. TokenInv'
  BY <1>1, <1>3, <1>4 DEF EnrollInv, TokenInv, Enrolling, Doing
<1> QED
  BY <1>2, <1>5 DEF EnrollInv

LEMMA ExpireKeeps ==
  ASSUME EnrollInv, NEW t \in Token, ExpireToken(t)
  PROVE  EnrollInv'
<1>1. /\ token[t] # Null /\ token[t].state = "open" /\ UNCHANGED <<call, made>>
      /\ token' = [token EXCEPT ![t].state = "expired"]
  BY DEF ExpireToken
<1>2. CallInv'
  BY <1>1 DEF EnrollInv, CallInv, Enrolling, Doing
<1>3. made[t] = {}
  BY <1>1 DEF EnrollInv, TokenInv
<1>4. token' \in [Token -> TokenRow \union {Null}] /\ token'[t] # Null
  BY <1>1, NullAssumption DEF EnrollInv, TokenInv, TokenRow
<1>5. TokenInv'
  BY <1>1, <1>3, <1>4 DEF EnrollInv, TokenInv, Enrolling, Doing
<1> QED
  BY <1>2, <1>5 DEF EnrollInv

LEMMA BeginEnrollKeeps ==
  ASSUME EnrollInv, NEW c \in Call, NEW t \in Token, BeginEnroll(c, t)
  PROVE  EnrollInv'
<1>1. /\ token[t] # Null /\ token[t].state = "open" /\ UNCHANGED <<token, made>>
      /\ call[c] = Null
      /\ \A d \in Call : ~Enrolling(d, t)
      /\ call' = [call EXCEPT ![c] = [op |-> "enroll", token |-> t]]
  BY DEF BeginEnroll, Begin, Free, Enrolling, serverVars
<1>2. made[t] = {}
  BY <1>1 DEF EnrollInv, TokenInv
<1>3. \A d \in Call, u \in Token : Enrolling(d, u)' => Enrolling(d, u) \/ (d = c /\ u = t)
  BY <1>1 DEF Enrolling, Doing, EnrollInv, CallInv
<1>4. CallInv'
  BY <1>1, <1>3 DEF EnrollInv, CallInv, Doing
<1>5. TokenInv'
  BY <1>1, <1>2, <1>3 DEF EnrollInv, TokenInv
<1> QED
  BY <1>4, <1>5 DEF EnrollInv

LEMMA CommitEnrollKeeps ==
  ASSUME EnrollInv, NEW c \in Call, NEW a \in Agent, CommitEnroll(c, a)
  PROVE  EnrollInv'
<1> DEFINE t == call[c].token
<1>1. /\ Doing(c, "enroll")
      /\ token' = [token EXCEPT ![t].state = "used"]
      /\ made' = [made EXCEPT ![t] = @ \cup {a}]
      /\ call' = [call EXCEPT ![c] = Null]
  BY DEF CommitEnroll, End
<1>2. t \in Token /\ Enrolling(c, t)
  BY <1>1 DEF EnrollInv, CallInv, Enrolling
<1>3. token[t] # Null /\ made[t] = {}
  BY <1>2 DEF EnrollInv, TokenInv
<1>4. \A d \in Call, u \in Token : Enrolling(d, u)' => Enrolling(d, u) /\ d # c
  BY <1>1 DEF Enrolling, Doing, EnrollInv, CallInv
<1>5. \A d \in Call, u \in Token : Enrolling(d, u)' => Enrolling(d, u) /\ u # t
  BY <1>2, <1>4 DEF EnrollInv, CallInv
<1>6. CallInv'
  BY <1>1, <1>4 DEF EnrollInv, CallInv, Doing
<1>7. /\ token' \in [Token -> TokenRow \union {Null}] /\ token'[t] # Null /\ token'[t].state = "used"
      /\ made' \in [Token -> SUBSET Agent] /\ made'[t] = {a}
  BY <1>1, <1>2, <1>3, NullAssumption DEF EnrollInv, TokenInv, TokenRow
<1>8. TokenInv'
  BY <1>1, <1>2, <1>5, <1>7, <1>3 DEF EnrollInv, TokenInv
<1> QED
  BY <1>6, <1>8 DEF EnrollInv

LEMMA EnrollStep ==
  ASSUME EnrollInv, [FleetNext]_fleetVars
  PROVE  EnrollInv'
<1>1. CASE UNCHANGED fleetVars
  BY <1>1, CallsSame DEF fleetVars, serverVars
<1>2. CASE \E t \in Token : ExpireToken(t) \/ \E usage \in Usages : CreateToken(t, usage)
  BY <1>2, CreateKeeps, ExpireKeeps
<1>3. CASE \/ \E a \in Agent : RevokeAgent(a) \/ RotateAgent(a) \/ PurgeAgent(a)
           \/ StoreCredentials \/ CutShort \/ Install
  BY <1>3, CallsSame DEF RevokeAgent, RotateAgent, PurgeAgent, StoreCredentials, CutShort, Install,
                         serverVars
<1>4. ASSUME NEW c \in Call, \/ \E a \in Agent, usage \in Usages, setting \in 0..1 : BeginEdit(c, a, usage, setting)
                             \/ \E next \in {revision + 1, -1} : BeginProfile(c, next)
                             \/ BeginFetch(c)
      PROVE  EnrollInv'
  <2>1. PICK q : q.op # "enroll" /\ call' = [call EXCEPT ![c] = q]
    BY <1>4 DEF BeginEdit, BeginProfile, BeginFetch, Begin
  <2> QED
    BY <1>4, <2>1, CallsOther DEF BeginEdit, BeginProfile, BeginFetch, serverVars
<1>5. ASSUME NEW c \in Call, CommitEdit(c) \/ CommitProfile(c) \/ ServeFetch(c)
      PROVE  EnrollInv'
  <2>1. call' = [call EXCEPT ![c] = Null] /\ UNCHANGED <<token, made>>
    BY <1>5 DEF CommitEdit, CommitProfile, ServeFetch, End, serverVars
  <2> QED
    BY <2>1, CallsOther
<1>6. ASSUME NEW c \in Call, \/ \E t \in Token : BeginEnroll(c, t)
                             \/ \E a \in Agent : CommitEnroll(c, a)
      PROVE  EnrollInv'
  BY <1>6, BeginEnrollKeeps, CommitEnrollKeeps
<1> QED
  BY <1>1, <1>2, <1>3, <1>4, <1>5, <1>6 DEF FleetNext

(* However often an enrollment is posted at once, its token makes one      *)
(* agent (enroll holds the token's row from its look to its commit).       *)
THEOREM EnrolledOnce == FleetSpec => []TokenEnrollsOnce
<1>1. EnrollInv /\ [FleetNext]_fleetVars => EnrollInv'
  BY EnrollStep
<1>2. ASSUME EnrollInv PROVE TokenEnrollsOnce
  <2>1. ASSUME NEW t \in Token PROVE Cardinality(made[t]) <= 1
    <3>1. CASE made[t] = {}
      BY <3>1, FS_EmptySet
    <3>2. CASE made[t] # {}
      <4>1. PICK a \in Agent : made[t] = {a}
        BY <1>2, <3>2 DEF EnrollInv, TokenInv
      <4>2. Cardinality({a}) = 1
        BY FS_Singleton
      <4> QED
        BY <4>1, <4>2
    <3> QED
      BY <3>1, <3>2
  <2> QED
    BY <2>1 DEF TokenEnrollsOnce
<1> QED
  BY EnrollInit, <1>1, <1>2, PTL DEF FleetSpec

-----------------------------------------------------------------------------
(* Configurations.  What is read of a row, by a request or for an answer,  *)
(* is what the row holds as long as its version is, and a version only     *)
(* grows.  Agents whose edits overlapped are excepted.                     *)
Made == UNION {made[t] : t \in Token}
FleetRow == [version : Nat, setting : 0..1, usage : Usages, revoked : BOOLEAN, key : Nat]
Steady(a) == row[a] # Null /\ a \notin overlapped

Follows(a, read) ==
  /\ a \in Agent /\ a \in Made /\ read \in FleetRow
  /\ Steady(a) =>
       /\ read.version <= row[a].version
       /\ read.version = row[a].version => read.setting = row[a].setting /\ read.usage = row[a].usage

HoldsUp(c) ==
  /\ c.agent \in Agent /\ c.agent \in Made /\ c.version \in Nat
  /\ Steady(c.agent) =>
       /\ c.version <= row[c.agent].version
       /\ c.version = row[c.agent].version =>
            /\ c.setting = row[c.agent].setting /\ c.usage = row[c.agent].usage
            /\ c.revision = Definition(row[c.agent].usage)

(* A change of the profile that is under way holds the rows it has told;   *)
(* the ones it has not told overlap it.                                    *)
Tells(q) ==
  /\ q.rows \subseteq Agent
  /\ \A a \in q.rows : row[a] # Null /\ row[a].usage = "profile"
  /\ \A a \in Agent : Steady(a) /\ row[a].usage = "profile" => a \in q.rows

CallOK(q) ==
  /\ q.op = "edit" => q.agent \in Agent /\ q.read \in FleetRow /\ q.usage \in Usages /\ q.setting \in 0..1
  /\ q.op = "fetch" => Follows(q.agent, q.read)
  /\ q.op = "profile" => Tells(q)

RowInv ==
  /\ row \in [Agent -> FleetRow \union {Null}]
  /\ \A a \in Agent : row[a] # Null => a \in Made

OpenInv ==
  /\ \A c \in Call : call[c] # Null => CallOK(call[c])
  /\ \A c, d \in Call : Doing(c, "profile") /\ Doing(d, "profile") => c = d

FileInv ==
  /\ credential # Null => credential.agent \in Agent /\ credential.agent \in Made
  /\ file # Null => HoldsUp(file)

ReplyInv ==
  reply # Null => /\ reply = [stage |-> reply.stage, configuration |-> reply.configuration]
                  /\ HoldsUp(reply.configuration)

FleetInv == EnrollInv /\ RowInv /\ OpenInv /\ FileInv /\ ReplyInv

LEMMA FleetInvInit == FleetInit => FleetInv
<1> SUFFICES ASSUME FleetInit PROVE FleetInv
  OBVIOUS
<1>1. EnrollInv
  BY EnrollInit
<1>2. RowInv
  BY DEF FleetInit, RowInv
<1>3. OpenInv
  BY DEF FleetInit, OpenInv, Doing
<1>4. FileInv /\ ReplyInv
  BY DEF FleetInit, FileInv, ReplyInv
<1> QED
  BY <1>1, <1>2, <1>3, <1>4 DEF FleetInv

(* What no step may do: give a row other content under the version it had. *)
RowsGoOn ==
  /\ Made \subseteq Made' /\ overlapped \subseteq overlapped'
  /\ \A a \in Made : row'[a] # Null /\ a \notin overlapped' =>
       /\ row[a] # Null
       /\ \/ row'[a].version > row[a].version
          \/ /\ row'[a].version = row[a].version
             /\ row'[a].setting = row[a].setting /\ row'[a].usage = row[a].usage
             /\ row'[a].usage = "profile" => revision' = revision

(* The rows a change of the profile has told stay, and no other joins it   *)
(* without overlapping it.                                                 *)
ProfilesHold ==
  \A d \in Call : Doing(d, "profile") /\ Doing(d, "profile")' =>
    /\ \A a \in call[d].rows : row'[a] = row[a]
    /\ \A a \in Agent : Steady(a)' /\ row'[a].usage = "profile" => a \in call[d].rows

LEMMA HoldsUpOn ==
  ASSUME RowInv, RowInv', RowsGoOn, NEW c, HoldsUp(c)
  PROVE  HoldsUp(c)'
<1>1. c.agent \in Agent /\ c.agent \in Made' /\ c.version \in Nat
  BY DEF HoldsUp, RowsGoOn
<1>2. ASSUME Steady(c.agent)'
      PROVE  /\ c.version <= row'[c.agent].version
             /\ c.version = row'[c.agent].version =>
                  /\ c.setting = row'[c.agent].setting /\ c.usage = row'[c.agent].usage
                  /\ c.revision = Definition(row[c.agent].usage)'
  <2> DEFINE old == row[c.agent]
             new == row'[c.agent]
  <2>1. /\ Steady(c.agent)
        /\ \/ new.version > old.version
           \/ /\ new.version = old.version /\ new.setting = old.setting /\ new.usage = old.usage
              /\ new.usage = "profile" => revision' = revision
    BY <1>2 DEF HoldsUp, RowsGoOn, Steady
  <2>2. old.version \in Nat /\ new.version \in Nat
    BY <1>1, <1>2, <2>1 DEF RowInv, FleetRow, Steady
  <2>3. /\ c.version <= old.version
        /\ c.version = old.version => c.setting = old.setting /\ c.usage = old.usage /\ c.revision = Definition(old.usage)
    BY <2>1 DEF HoldsUp
  <2>4. CASE new.version > old.version
    BY <1>1, <2>2, <2>3, <2>4
  <2>5. CASE /\ new.version = old.version /\ new.setting = old.setting /\ new.usage = old.usage
             /\ new.usage = "profile" => revision' = revision
    <3>1. Definition(old.usage)' = Definition(old.usage)
      BY <2>5 DEF Definition
    <3> QED
      BY <2>3, <2>5, <3>1 DEF Definition
  <2> QED
    BY <2>1, <2>4, <2>5
<1> QED
  BY <1>1, <1>2 DEF HoldsUp

LEMMA FollowsOn ==
  ASSUME RowInv, RowInv', RowsGoOn, NEW a, NEW read, Follows(a, read)
  PROVE  Follows(a, read)'
<1>1. a \in Agent /\ a \in Made' /\ read \in FleetRow /\ read.version \in Nat
  BY DEF Follows, RowsGoOn, FleetRow
<1>2. ASSUME Steady(a)'
      PROVE  /\ read.version <= row'[a].version
             /\ read.version = row'[a].version => read.setting = row'[a].setting /\ read.usage = row'[a].usage
  <2>1. /\ Steady(a)
        /\ \/ row'[a].version > row[a].version
           \/ /\ row'[a].version = row[a].version
              /\ row'[a].setting = row[a].setting /\ row'[a].usage = row[a].usage
    BY <1>2 DEF Follows, RowsGoOn, Steady
  <2>2. row[a].version \in Nat /\ row'[a].version \in Nat
    BY <1>1, <1>2, <2>1 DEF RowInv, FleetRow, Steady
  <2>3. /\ read.version <= row[a].version
        /\ read.version = row[a].version => read.setting = row[a].setting /\ read.usage = row[a].usage
    BY <2>1 DEF Follows
  <2> QED
    BY <1>1, <2>1, <2>2, <2>3
<1> QED
  BY <1>1, <1>2 DEF Follows

(* A step that writes rows leaves alone the requests that do not end.      *)
LEMMA RowStep ==
  ASSUME FleetInv, RowInv', RowsGoOn, ProfilesHold,
         \A d \in Call : call'[d] = Null \/ call'[d] = call[d],
         UNCHANGED <<credential, file>>
  PROVE  OpenInv' /\ FileInv' /\ (reply' = reply => ReplyInv')
<1>1. ASSUME NEW d \in Call, call'[d] # Null
      PROVE  CallOK(call[d])'
  <2>1. PICK q : q = call[d]
    OBVIOUS
  <2>2. call'[d] = q /\ CallOK(q)
    BY <1>1, <2>1 DEF FleetInv, OpenInv
  <2>3. q.op = "fetch" => Follows(q.agent, q.read)'
    BY <2>2, FollowsOn DEF FleetInv, CallOK
  <2>4. ASSUME q.op = "profile" PROVE Tells(q)'
    <3>1. /\ \A a \in q.rows : row'[a] = row[a]
          /\ \A a \in Agent : Steady(a)' /\ row'[a].usage = "profile" => a \in q.rows
      BY <1>1, <2>1, <2>2, <2>4 DEF ProfilesHold, Doing
    <3> QED
      BY <2>2, <2>4, <3>1 DEF CallOK, Tells
  <2>5. CallOK(q)'
    BY <2>2, <2>3, <2>4 DEF CallOK
  <2> QED
    BY <2>2, <2>5
<1>2. OpenInv'
  BY <1>1 DEF OpenInv, FleetInv, Doing
<1>3. file' # Null => HoldsUp(file)'
  <2>1. PICK f : f = file
    OBVIOUS
  <2>2. file # Null => HoldsUp(f)'
    BY <2>1, HoldsUpOn DEF FleetInv, FileInv
  <2> QED
    BY <2>1, <2>2
<1>4. FileInv'
  BY <1>3 DEF FileInv, FleetInv, RowsGoOn
<1>5. ASSUME reply' = reply PROVE ReplyInv'
  <2>1. PICK r : r = reply
    OBVIOUS
  <2>2. reply # Null => HoldsUp(r.configuration)'
    BY <2>1, HoldsUpOn DEF FleetInv, ReplyInv
  <2> QED
    BY <1>5, <2>1, <2>2 DEF ReplyInv, FleetInv
<1> QED
  BY <1>2, <1>4, <1>5

-----------------------------------------------------------------------------
(* The operations that write rows.                                         *)

LEMMA MadeSame ==
  ASSUME UNCHANGED made
  PROVE  Made' = Made
  BY DEF Made

LEMMA CommitEditWrites ==
  ASSUME FleetInv, NEW c \in Call, CommitEdit(c)
  PROVE  RowInv' /\ RowsGoOn /\ ProfilesHold
<1> DEFINE q == call[c]
           a == q.agent
           now == row[a]
<1>1. /\ Doing(c, "edit") /\ UNCHANGED <<token, made, revision>>
      /\ call' = [call EXCEPT ![c] = Null]
  BY DEF CommitEdit, End
<1>2. a \in Agent /\ q.read \in FleetRow /\ q.usage \in Usages /\ q.setting \in 0..1
  BY <1>1 DEF FleetInv, OpenInv, CallOK, Doing
<1>3. \A d \in Call : call'[d] = call[d] \/ call'[d] = Null
  BY <1>1 DEF FleetInv, EnrollInv, CallInv
<1>4. Made' = Made
  BY <1>1, MadeSame
<1>5. CASE now = Null
  <2>1. UNCHANGED <<row, overlapped>>
    BY <1>5 DEF CommitEdit
  <2>2. RowInv'
    BY <2>1, <1>4 DEF FleetInv, RowInv
  <2>3. RowsGoOn
    BY <2>1, <1>1, <1>4 DEF RowsGoOn
  <2>4. ProfilesHold
    BY <2>1, <1>3 DEF ProfilesHold, FleetInv, OpenInv, CallOK, Tells, Doing, Steady
  <2> QED
    BY <2>2, <2>3, <2>4
<1>6. CASE now # Null
  <2> DEFINE next == [now EXCEPT
               !.usage = IF q.usage # q.read.usage THEN q.usage ELSE @,
               !.setting = IF q.setting # q.read.setting THEN q.setting ELSE @,
               !.version = IF Differs(q) THEN q.read.version + 1 ELSE @]
             blind == Differs(q) /\ now.version # q.read.version
  <2>1. /\ ~Held(a) /\ row' = [row EXCEPT ![a] = next]
        /\ overlapped' = IF blind \/ Joins(a, q.usage) THEN overlapped \cup {a} ELSE overlapped
    BY <1>6 DEF CommitEdit
  <2>2. now \in FleetRow /\ a \in Made
    BY <1>2, <1>6 DEF FleetInv, RowInv
  <2>3. q.read.version \in Nat /\ now.version \in Nat /\ q.read.version + 1 \in Nat
    BY <1>2, <2>2 DEF FleetRow
  <2>4. /\ next.usage = IF q.usage # q.read.usage THEN q.usage ELSE now.usage
        /\ next.setting = IF q.setting # q.read.setting THEN q.setting ELSE now.setting
        /\ next.version = IF Differs(q) THEN q.read.version + 1 ELSE now.version
        /\ next \in FleetRow
    BY <1>2, <2>2, <2>3 DEF FleetRow
  <2> HIDE DEF next
  <2>5. row'[a] = next /\ \A b \in Agent \ {a} : row'[b] = row[b]
    BY <1>2, <2>1 DEF FleetInv, RowInv
  <2>6. RowInv'
    BY <1>4, <2>1, <2>2, <2>4 DEF FleetInv, RowInv
  <2>7. ASSUME a \notin overlapped'
        PROVE  \/ next.version > now.version
               \/ next.version = now.version /\ next.setting = now.setting /\ next.usage = now.usage
    <3>1. ~blind
      BY <2>1, <2>7
    <3>2. CASE Differs(q)
      BY <2>3, <2>4, <3>1, <3>2
    <3>3. CASE ~Differs(q)
      BY <2>4, <3>3 DEF Differs
    <3> QED
      BY <3>2, <3>3
  <2>8. Made \subseteq Agent
    BY DEF Made, FleetInv, EnrollInv, TokenInv
  <2>9. RowsGoOn
    <3>1. overlapped \subseteq overlapped'
      BY <2>1
    <3>2. ASSUME NEW b \in Made, row'[b] # Null, b \notin overlapped'
          PROVE  /\ row[b] # Null
                 /\ \/ row'[b].version > row[b].version
                    \/ /\ row'[b].version = row[b].version
                       /\ row'[b].setting = row[b].setting /\ row'[b].usage = row[b].usage
                       /\ row'[b].usage = "profile" => revision' = revision
      BY <1>1, <1>6, <2>5, <2>7, <2>8, <3>2
    <3> QED
      BY <1>4, <3>1, <3>2 DEF RowsGoOn
  <2>10. ASSUME NEW d \in Call, Doing(d, "profile"), call'[d] = call[d]
         PROVE  /\ \A b \in call[d].rows : row'[b] = row[b]
                /\ \A b \in Agent : Steady(b)' /\ row'[b].usage = "profile" => b \in call[d].rows
    <3>1. Tells(call[d])
      BY <2>10 DEF FleetInv, OpenInv, CallOK, Doing
    <3>2. a \notin call[d].rows
      BY <2>1, <2>10 DEF Held
    <3>3. \A b \in Agent \ {a} : Steady(b)' => Steady(b)
      BY <2>1, <2>5 DEF Steady
    <3>4. ASSUME a \notin overlapped', next.usage = "profile" PROVE FALSE
      <4>1. ~Joins(a, q.usage) /\ Steady(a)
        BY <1>6, <2>1, <3>4 DEF Steady
      <4>2. q.usage # "profile"
        BY <2>10, <3>2, <4>1 DEF Joins
      <4>3. now.usage = "profile"
        BY <2>4, <3>4, <4>2
      <4> QED
        BY <1>2, <3>1, <3>2, <4>1, <4>3 DEF Tells
    <3> QED
      BY <2>5, <3>1, <3>2, <3>3, <3>4 DEF Tells, Steady
  <2>11. ProfilesHold
    BY <1>3, <2>10 DEF ProfilesHold, Doing
  <2> QED
    BY <2>6, <2>9, <2>11
<1> QED
  BY <1>5, <1>6

LEMMA CommitProfileWrites ==
  ASSUME FleetInv, NEW c \in Call, CommitProfile(c)
  PROVE  RowInv' /\ RowsGoOn /\ ProfilesHold
<1> DEFINE q == call[c]
<1>1. /\ Doing(c, "profile") /\ UNCHANGED <<token, made, overlapped>>
      /\ call' = [call EXCEPT ![c] = Null]
      /\ row' = [a \in Agent |->
           IF a \notin q.rows THEN row[a]
           ELSE IF q.next = -1 THEN [Bumped(row[a]) EXCEPT !.usage = "standard"]
           ELSE Bumped(row[a])]
  BY DEF CommitProfile, End
<1>2. Tells(q)
  BY <1>1 DEF FleetInv, OpenInv, CallOK, Doing
<1>3. Made' = Made /\ Made \subseteq Agent
  BY <1>1, MadeSame DEF Made, FleetInv, EnrollInv, TokenInv
<1>4. ASSUME NEW a \in q.rows
      PROVE  /\ a \in Agent /\ row[a] # Null /\ row[a].version \in Nat
             /\ row'[a] \in FleetRow /\ row'[a].version = row[a].version + 1
  <2>1. a \in Agent /\ row[a] # Null
    BY <1>2 DEF Tells
  <2>2. row[a] \in FleetRow /\ row[a].version \in Nat
    BY <2>1 DEF FleetInv, RowInv, FleetRow
  <2>3. /\ Bumped(row[a]) \in FleetRow /\ Bumped(row[a]).version = row[a].version + 1
        /\ [Bumped(row[a]) EXCEPT !.usage = "standard"] \in FleetRow
        /\ [Bumped(row[a]) EXCEPT !.usage = "standard"].version = row[a].version + 1
    <3>1. PICK read : read = row[a]
      OBVIOUS
    <3>2. read \in FleetRow /\ read.version + 1 \in Nat /\ "standard" \in Usages
      BY <2>2, <3>1 DEF Usages
    <3>3. /\ [read EXCEPT !.version = @ + 1] \in FleetRow
          /\ [read EXCEPT !.version = @ + 1].version = read.version + 1
      BY <3>2 DEF FleetRow
    <3>4. \A b \in FleetRow : /\ [b EXCEPT !.usage = "standard"] \in FleetRow
                            /\ [b EXCEPT !.usage = "standard"].version = b.version
      BY <3>2 DEF FleetRow
    <3> QED
      BY <3>1, <3>3, <3>4 DEF Bumped
  <2>4. row'[a] = Bumped(row[a]) \/ row'[a] = [Bumped(row[a]) EXCEPT !.usage = "standard"]
    BY <1>1, <2>1
  <2> QED
    BY <2>1, <2>2, <2>3, <2>4
<1>5. \A a \in Agent \ q.rows : row'[a] = row[a]
  BY <1>1
<1>6. RowInv'
  <2>1. row' \in [Agent -> FleetRow \union {Null}]
    <3>1. \A a \in Agent : row'[a] \in FleetRow \union {Null}
      BY <1>4, <1>5 DEF FleetInv, RowInv
    <3>2. row' = [a \in Agent |-> row'[a]]
      BY <1>1
    <3> QED
      BY <3>1, <3>2
  <2> QED
    BY <1>3, <1>4, <1>5, <2>1 DEF FleetInv, RowInv
<1>7. ASSUME NEW a \in Made, row'[a] # Null, a \notin overlapped'
      PROVE  /\ row[a] # Null
             /\ \/ row'[a].version > row[a].version
                \/ /\ row'[a].version = row[a].version
                   /\ row'[a].setting = row[a].setting /\ row'[a].usage = row[a].usage
                   /\ row'[a].usage = "profile" => revision' = revision
  <2>1. CASE a \in q.rows
    BY <1>4, <2>1
  <2>2. CASE a \notin q.rows
    <3>1. row'[a] = row[a] /\ Steady(a) /\ a \in Agent
      BY <1>1, <1>3, <1>5, <1>7, <2>2 DEF Steady
    <3>2. row[a].usage # "profile"
      BY <1>2, <2>2, <3>1 DEF Tells
    <3> QED
      BY <1>7, <3>1, <3>2
  <2> QED
    BY <2>1, <2>2
<1>8. RowsGoOn
  BY <1>1, <1>3, <1>7 DEF RowsGoOn
<1>9. ProfilesHold
  BY <1>1 DEF ProfilesHold, FleetInv, EnrollInv, CallInv, OpenInv, Doing
<1> QED
  BY <1>6, <1>8, <1>9

(* A row that is not held is revoked, given another key, or deleted: what  *)
(* an agent is served does not depend on it.                               *)
LEMMA RowWrites ==
  ASSUME FleetInv, NEW a \in Agent, RevokeAgent(a) \/ RotateAgent(a) \/ PurgeAgent(a)
  PROVE  RowInv' /\ RowsGoOn /\ ProfilesHold
<1>1. /\ row[a] # Null /\ ~Held(a) /\ UNCHANGED <<made, revision, call, overlapped>>
  BY DEF RevokeAgent, RotateAgent, PurgeAgent
<1>2. row[a] \in FleetRow /\ row[a].key + 1 \in Nat /\ row[a].version \in Nat
  BY <1>1 DEF FleetInv, RowInv, FleetRow
<1>3. Made' = Made /\ Made \subseteq Agent
  BY <1>1, MadeSame DEF Made, FleetInv, EnrollInv, TokenInv
<1>4. PICK new : /\ row' = [row EXCEPT ![a] = new]
                 /\ new = Null \/ /\ new \in FleetRow /\ new.version = row[a].version
                                  /\ new.setting = row[a].setting /\ new.usage = row[a].usage
  <2>1. CASE RevokeAgent(a)
    <3> DEFINE new == [row[a] EXCEPT !.revoked = TRUE]
    <3>1. row' = [row EXCEPT ![a] = new]
      BY <2>1 DEF RevokeAgent
    <3>2. /\ new \in FleetRow /\ new.version = row[a].version
          /\ new.setting = row[a].setting /\ new.usage = row[a].usage
      BY <1>2 DEF FleetRow
    <3> QED
      BY <3>1, <3>2
  <2>2. CASE RotateAgent(a)
    <3> DEFINE new == [row[a] EXCEPT !.key = @ + 1]
    <3>1. row' = [row EXCEPT ![a] = new]
      BY <2>2 DEF RotateAgent
    <3>2. /\ new \in FleetRow /\ new.version = row[a].version
          /\ new.setting = row[a].setting /\ new.usage = row[a].usage
      BY <1>2 DEF FleetRow
    <3> QED
      BY <3>1, <3>2
  <2>3. CASE PurgeAgent(a)
    BY <2>3 DEF PurgeAgent
  <2> QED
    BY <2>1, <2>2, <2>3
<1>5. row'[a] = new /\ \A b \in Agent \ {a} : row'[b] = row[b]
  BY <1>4 DEF FleetInv, RowInv
<1>6. RowInv'
  BY <1>1, <1>3, <1>4, <1>5 DEF FleetInv, RowInv
<1>7. RowsGoOn
  BY <1>1, <1>2, <1>3, <1>4, <1>5 DEF RowsGoOn
<1>8. ASSUME NEW d \in Call, Doing(d, "profile")
      PROVE  /\ \A b \in call[d].rows : row'[b] = row[b]
             /\ \A b \in Agent : Steady(b)' /\ row'[b].usage = "profile" => b \in call[d].rows
  <2>1. Tells(call[d])
    BY <1>8 DEF FleetInv, OpenInv, CallOK, Doing
  <2>2. a \notin call[d].rows
    BY <1>1, <1>8 DEF Held
  <2>3. \A b \in Agent : Steady(b)' => Steady(b) /\ row'[b].usage = row[b].usage
    BY <1>1, <1>4, <1>5 DEF Steady
  <2> QED
    BY <1>5, <2>1, <2>2, <2>3 DEF Tells
<1>9. ProfilesHold
  BY <1>8 DEF ProfilesHold
<1> QED
  BY <1>6, <1>7, <1>9

(* The row of an enrollment is new: no request has read it, and no         *)
(* configuration names it.                                                 *)
LEMMA CommitEnrollWrites ==
  ASSUME FleetInv, NEW c \in Call, NEW a \in Agent, CommitEnroll(c, a)
  PROVE  RowInv' /\ RowsGoOn /\ ProfilesHold /\ (reply' # reply => ReplyInv')
<1> DEFINE t == call[c].token
<1>0. PICK new : new = NewRow(token[t].usage)
  OBVIOUS
<1>1. /\ Doing(c, "enroll") /\ call' = [call EXCEPT ![c] = Null]
      /\ Unused # {} /\ a = CHOOSE b \in Unused : TRUE
      /\ made' = [made EXCEPT ![t] = @ \cup {a}]
      /\ row' = [row EXCEPT ![a] = new]
      /\ overlapped' = IF Joins(a, new.usage) THEN overlapped \cup {a} ELSE overlapped
      /\ Answer("enrolled", Configuration(a, new))
      /\ revision' = revision
  BY <1>0 DEF CommitEnroll, End
<1>2. a \notin Made
  BY <1>1 DEF Unused, Made
<1>3. t \in Token /\ token[t] \in TokenRow
  BY <1>1 DEF FleetInv, EnrollInv, CallInv, TokenInv, Enrolling
<1>4. new \in FleetRow /\ new.version = 1
  BY <1>0, <1>3 DEF NewRow, FleetRow, TokenRow
<1>5. Made' = Made \cup {a} /\ Made \subseteq Agent
  BY <1>1, <1>3 DEF Made, FleetInv, EnrollInv, TokenInv
<1>6. row'[a] = new /\ \A b \in Agent \ {a} : row'[b] = row[b]
  BY <1>1 DEF FleetInv, RowInv
<1>7. RowInv'
  BY <1>1, <1>4, <1>5, <1>6 DEF FleetInv, RowInv
<1>8. RowsGoOn
  BY <1>1, <1>2, <1>5, <1>6 DEF RowsGoOn
<1>9. ASSUME NEW d \in Call, Doing(d, "profile")
      PROVE  /\ \A b \in call[d].rows : row'[b] = row[b]
             /\ \A b \in Agent : Steady(b)' /\ row'[b].usage = "profile" => b \in call[d].rows
  <2>1. Tells(call[d])
    BY <1>9 DEF FleetInv, OpenInv, CallOK, Doing
  <2>2. a \notin call[d].rows
    BY <1>2, <2>1 DEF Tells, FleetInv, RowInv
  <2>3. new.usage = "profile" => a \in overlapped'
    <3>1. new.usage = "profile" => Joins(a, new.usage)
      BY <1>9, <2>2 DEF Joins
    <3> QED
      BY <1>1, <3>1
  <2>4. \A b \in Agent \ {a} : Steady(b)' => Steady(b)
    BY <1>1, <1>6 DEF Steady
  <2> QED
    BY <1>6, <2>1, <2>2, <2>3, <2>4 DEF Tells, Steady
<1>10. ProfilesHold
  BY <1>9 DEF ProfilesHold
<1>11. ASSUME reply' # reply PROVE ReplyInv'
  <2>1. reply' = [stage |-> "enrolled", configuration |-> Configuration(a, new)]
    BY <1>1, <1>11 DEF Answer
  <2>2. PICK w : w = Configuration(a, new)
    OBVIOUS
  <2>3. /\ w.agent = a /\ w.version = 1 /\ w.setting = new.setting /\ w.usage = new.usage
        /\ w.revision = Definition(new.usage)
    BY <1>4, <2>2 DEF Configuration
  <2>4. HoldsUp(w)'
    BY <1>1, <1>4, <1>5, <1>6, <2>3 DEF HoldsUp, Definition
  <2> QED
    BY <2>1, <2>2, <2>4 DEF ReplyInv
<1> QED
  BY <1>7, <1>8, <1>10, <1>11

-----------------------------------------------------------------------------
(* The operations that write no row.                                       *)

(* A request begins.                                                       *)
LEMMA BeginStep ==
  ASSUME FleetInv, EnrollInv', NEW c \in Call, NEW q, CallOK(q), call[c] = Null,
         call' = [call EXCEPT ![c] = q],
         q.op = "profile" => \A d \in Call : ~Doing(d, "profile"),
         UNCHANGED <<serverVars, machineVars, overlapped>>
  PROVE  FleetInv'
<1>1. Made' = Made
  BY MadeSame DEF serverVars
<1>2. RowInv'
  BY <1>1 DEF FleetInv, RowInv, serverVars
<1>3. /\ \A a : Steady(a)' = Steady(a)
      /\ \A u : Definition(u)' = Definition(u)
  BY DEF Steady, Definition, serverVars
<1>4. FileInv' /\ ReplyInv'
  BY <1>1, <1>3 DEF FleetInv, FileInv, ReplyInv, HoldsUp, serverVars, machineVars
<1>5. \A p : CallOK(p) => CallOK(p)'
  BY <1>1, <1>3 DEF CallOK, Follows, Tells, serverVars
<1>6. call'[c] = q /\ \A d \in Call \ {c} : call'[d] = call[d]
  BY DEF FleetInv, EnrollInv, CallInv
<1>7. OpenInv'
  <2>1. ASSUME NEW d \in Call, call'[d] # Null PROVE CallOK(call[d])'
    <3>1. CASE d = c
      BY <1>5, <1>6, <3>1
    <3>2. CASE d # c
      <4>1. PICK p : p = call[d]
        OBVIOUS
      <4>2. call'[d] = p /\ CallOK(p)
        BY <1>6, <2>1, <3>2, <4>1 DEF FleetInv, OpenInv
      <4> QED
        BY <1>5, <4>2
    <3> QED
      BY <3>1, <3>2
  <2>2. \A d, e \in Call : Doing(d, "profile")' /\ Doing(e, "profile")' => d = e
    BY <1>6 DEF FleetInv, OpenInv, Doing
  <2> QED
    BY <2>1, <2>2 DEF OpenInv
<1> QED
  BY <1>2, <1>4, <1>7 DEF FleetInv

LEMMA BeginKeeps ==
  ASSUME FleetInv, EnrollInv', NEW c \in Call,
         \/ \E a \in Agent, usage \in Usages, setting \in 0..1 : BeginEdit(c, a, usage, setting)
         \/ \E next \in {revision + 1, -1} : BeginProfile(c, next)
         \/ \E t \in Token : BeginEnroll(c, t)
         \/ BeginFetch(c)
  PROVE  FleetInv'
<1>1. ASSUME NEW a \in Agent, NEW usage \in Usages, NEW setting \in 0..1, BeginEdit(c, a, usage, setting)
      PROVE  FleetInv'
  <2>1. PICK q : q = [op |-> "edit", agent |-> a, read |-> row[a], usage |-> usage, setting |-> setting]
    OBVIOUS
  <2>2. /\ row[a] # Null /\ call[c] = Null /\ call' = [call EXCEPT ![c] = q]
        /\ UNCHANGED <<serverVars, machineVars, overlapped>>
    BY <1>1, <2>1 DEF BeginEdit, Begin, Free
  <2>3. row[a] \in FleetRow
    BY <2>2 DEF FleetInv, RowInv
  <2>4. CallOK(q) /\ q.op # "profile"
    BY <2>1, <2>3 DEF CallOK
  <2> QED
    BY <2>2, <2>4, BeginStep
<1>2. ASSUME NEW next, BeginProfile(c, next)
      PROVE  FleetInv'
  <2>1. PICK q : q = [op |-> "profile", rows |-> Assigned, next |-> next]
    OBVIOUS
  <2>2. /\ call[c] = Null /\ call' = [call EXCEPT ![c] = q]
        /\ \A d \in Call : ~Doing(d, "profile")
        /\ UNCHANGED <<serverVars, machineVars, overlapped>>
    BY <1>2, <2>1 DEF BeginProfile, Begin, Free
  <2>3. CallOK(q)
    BY <2>1 DEF CallOK, Tells, Assigned, Steady
  <2> QED
    BY <2>2, <2>3, BeginStep
<1>3. ASSUME NEW t \in Token, BeginEnroll(c, t)
      PROVE  FleetInv'
  <2>1. PICK q : q = [op |-> "enroll", token |-> t]
    OBVIOUS
  <2>2. /\ call[c] = Null /\ call' = [call EXCEPT ![c] = q]
        /\ UNCHANGED <<serverVars, machineVars, overlapped>>
    BY <1>3, <2>1 DEF BeginEnroll, Begin, Free
  <2>3. CallOK(q) /\ q.op # "profile"
    BY <2>1 DEF CallOK
  <2> QED
    BY <2>2, <2>3, BeginStep
<1>4. ASSUME BeginFetch(c)
      PROVE  FleetInv'
  <2>1. PICK a : a = credential.agent
    OBVIOUS
  <2>2. PICK q : q = [op |-> "fetch", agent |-> a, read |-> row[a]]
    OBVIOUS
  <2>3. /\ Accepted /\ call[c] = Null /\ call' = [call EXCEPT ![c] = q]
        /\ UNCHANGED <<serverVars, machineVars, overlapped>>
    BY <1>4, <2>1, <2>2 DEF BeginFetch, Begin, Free
  <2>4. a \in Agent /\ a \in Made /\ row[a] \in FleetRow
    BY <2>1, <2>3 DEF Accepted, FleetInv, FileInv, RowInv
  <2>5. row[a].version \in Nat
    BY <2>4 DEF FleetRow
  <2>6. CallOK(q) /\ q.op # "profile"
    BY <2>2, <2>4, <2>5 DEF CallOK, Follows
  <2> QED
    BY <2>3, <2>6, BeginStep
<1> QED
  BY <1>1, <1>2, <1>3, <1>4

(* Neither rows nor what requests have read change.                        *)
LEMMA QuietStep ==
  ASSUME FleetInv, UNCHANGED <<serverVars, overlapped>>,
         \A d \in Call : call'[d] = Null \/ call'[d] = call[d]
  PROVE  RowInv' /\ RowsGoOn /\ ProfilesHold
<1>1. Made' = Made /\ Made \subseteq Agent
  BY MadeSame DEF serverVars, Made, FleetInv, EnrollInv, TokenInv
<1>2. RowInv'
  BY <1>1 DEF FleetInv, RowInv, serverVars
<1>3. RowsGoOn
  BY <1>1 DEF RowsGoOn, serverVars
<1>4. ProfilesHold
  BY DEF ProfilesHold, FleetInv, OpenInv, CallOK, Tells, Doing, Steady, serverVars
<1> QED
  BY <1>2, <1>3, <1>4

(* The answer to an agent that asks: the row it was read from, or an older *)
(* version of it, with the definition of the profile as it is now.         *)
LEMMA ServeFetchKeeps ==
  ASSUME FleetInv, EnrollInv', NEW c \in Call, ServeFetch(c)
  PROVE  FleetInv'
<1>1. /\ Doing(c, "fetch") /\ call' = [call EXCEPT ![c] = Null]
      /\ UNCHANGED <<serverVars, credential, file, overlapped>>
  BY DEF ServeFetch, End
<1>2. \A d \in Call : call'[d] = Null \/ call'[d] = call[d]
  BY <1>1 DEF FleetInv, EnrollInv, CallInv
<1>3. RowInv' /\ RowsGoOn /\ ProfilesHold
  BY <1>1, <1>2, QuietStep
<1>4. OpenInv' /\ FileInv' /\ (reply' = reply => ReplyInv')
  BY <1>1, <1>2, <1>3, RowStep
<1>5. ASSUME reply' # reply PROVE ReplyInv'
  <2>1. PICK a, read : a = call[c].agent /\ read = call[c].read
    OBVIOUS
  <2>2. Follows(a, read) /\ read.version \in Nat
    BY <1>1, <2>1 DEF FleetInv, OpenInv, CallOK, Doing, Follows, FleetRow
  <2>3. PICK w : w = Configuration(a, read)
    OBVIOUS
  <2>4. reply' = [stage |-> "fetched", configuration |-> w]
    BY <1>5, <2>1, <2>3 DEF ServeFetch, Served, Answer
  <2>5. /\ w.agent = a /\ w.version = read.version /\ w.setting = read.setting /\ w.usage = read.usage
        /\ w.revision = Definition(read.usage)
    BY <2>3 DEF Configuration
  <2>6. HoldsUp(w)
    BY <2>2, <2>5 DEF HoldsUp, Follows
  <2>7. HoldsUp(w)'
    BY <1>3, <2>6, HoldsUpOn DEF FleetInv
  <2> QED
    BY <2>4, <2>7 DEF ReplyInv
<1> QED
  BY <1>3, <1>4, <1>5 DEF FleetInv

(* The machine stores an answer as it came, or keeps the file it has.      *)
LEMMA MachineKeeps ==
  ASSUME FleetInv, EnrollInv', StoreCredentials \/ CutShort \/ Install
  PROVE  FleetInv'
<1>1. UNCHANGED <<serverVars, call, overlapped>>
  BY DEF StoreCredentials, CutShort, Install
<1>2. RowInv' /\ OpenInv' /\ Made' = Made
  BY <1>1, MadeSame DEF FleetInv, RowInv, OpenInv, CallOK, Follows, Tells, Steady, Doing, serverVars
<1>3. \A w : HoldsUp(w) => HoldsUp(w)'
  BY <1>1, <1>2 DEF HoldsUp, Steady, Definition, serverVars
<1>4. CASE StoreCredentials
  <2>1. PICK w : w = reply.configuration
    OBVIOUS
  <2>2. /\ reply # Null /\ credential' = [agent |-> w.agent, key |-> 1] /\ file' = file
        /\ reply' = [reply EXCEPT !.stage = "stored"]
    BY <1>4, <2>1 DEF StoreCredentials
  <2>3. HoldsUp(w) /\ reply' = [stage |-> "stored", configuration |-> w]
    BY <2>1, <2>2 DEF FleetInv, ReplyInv
  <2>4. ReplyInv'
    BY <1>3, <2>3 DEF ReplyInv
  <2>5. credential'.agent = w.agent /\ w.agent \in Agent /\ w.agent \in Made
    BY <2>2, <2>3 DEF HoldsUp
  <2>6. FileInv'
    <3>1. PICK f : f = file
      OBVIOUS
    <3> QED
      BY <1>2, <1>3, <2>2, <2>5, <3>1 DEF FileInv, FleetInv
  <2> QED
    BY <1>2, <2>4, <2>6 DEF FleetInv
<1>5. CASE CutShort \/ Install
  <2>1. PICK f, w : f = file /\ w = reply.configuration
    OBVIOUS
  <2>2. reply' = Null /\ credential' = credential
    BY <1>5 DEF CutShort, Install
  <2>3. file' = f \/ (file' = w /\ reply # Null)
    BY <1>5, <2>1 DEF CutShort, Install, Newer
  <2>4. ReplyInv'
    BY <2>2 DEF ReplyInv
  <2>5. FileInv'
    BY <1>2, <1>3, <2>1, <2>2, <2>3 DEF FileInv, ReplyInv, FleetInv
  <2> QED
    BY <1>2, <2>4, <2>5 DEF FleetInv
<1> QED
  BY <1>4, <1>5

LEMMA FleetStep ==
  ASSUME FleetInv, [FleetNext]_fleetVars
  PROVE  FleetInv'
<1>1. EnrollInv'
  BY EnrollStep DEF FleetInv
<1>2. ASSUME RowInv', RowsGoOn, ProfilesHold, reply' # reply => ReplyInv',
             \A d \in Call : call'[d] = Null \/ call'[d] = call[d],
             UNCHANGED <<credential, file>>
      PROVE  FleetInv'
  BY <1>1, <1>2, RowStep DEF FleetInv
<1>3. CASE \/ UNCHANGED fleetVars
           \/ \E t \in Token : ExpireToken(t) \/ \E usage \in Usages : CreateToken(t, usage)
  <2>1. UNCHANGED <<row, made, revision, machineVars, call, overlapped>>
    BY <1>3 DEF fleetVars, serverVars, ExpireToken, CreateToken
  <2>2. Made' = Made /\ Made \subseteq Agent
    BY <2>1, MadeSame DEF Made, FleetInv, EnrollInv, TokenInv
  <2>3. RowInv'
    BY <2>1, <2>2 DEF FleetInv, RowInv
  <2>4. RowsGoOn
    BY <2>1, <2>2 DEF RowsGoOn
  <2>5. ProfilesHold
    BY <2>1 DEF ProfilesHold, FleetInv, OpenInv, CallOK, Tells, Doing, Steady
  <2> QED
    BY <1>2, <2>1, <2>3, <2>4, <2>5 DEF machineVars
<1>4. ASSUME NEW a \in Agent, RevokeAgent(a) \/ RotateAgent(a) \/ PurgeAgent(a)
      PROVE  FleetInv'
  <2>1. UNCHANGED <<machineVars, call>>
    BY <1>4 DEF RevokeAgent, RotateAgent, PurgeAgent
  <2> QED
    BY <1>2, <1>4, <2>1, RowWrites DEF machineVars
<1>5. ASSUME NEW c \in Call, CommitEdit(c) \/ CommitProfile(c) PROVE FleetInv'
  <2>1. UNCHANGED machineVars /\ call' = [call EXCEPT ![c] = Null]
    BY <1>5 DEF CommitEdit, CommitProfile, End
  <2>2. \A d \in Call : call'[d] = Null \/ call'[d] = call[d]
    BY <2>1 DEF FleetInv, EnrollInv, CallInv
  <2> QED
    BY <1>2, <1>5, <2>1, <2>2, CommitEditWrites, CommitProfileWrites DEF machineVars
<1>6. ASSUME NEW c \in Call, NEW a \in Agent, CommitEnroll(c, a) PROVE FleetInv'
  <2>1. UNCHANGED <<credential, file>> /\ call' = [call EXCEPT ![c] = Null]
    BY <1>6 DEF CommitEnroll, End
  <2>2. \A d \in Call : call'[d] = Null \/ call'[d] = call[d]
    BY <2>1 DEF FleetInv, EnrollInv, CallInv
  <2> QED
    BY <1>2, <1>6, <2>1, <2>2, CommitEnrollWrites
<1> QED
  BY <1>1, <1>3, <1>4, <1>5, <1>6, BeginKeeps, ServeFetchKeeps, MachineKeeps DEF FleetNext

(* An agent that holds the version the server has holds its content:       *)
(* agent_config and can_profile_definition build an answer from two reads, *)
(* and a change of the profile between them is told by a higher version.   *)
THEOREM ConfigurationsAgree == FleetSpec => []ConfigurationAgrees
<1>1. FleetInv /\ [FleetNext]_fleetVars => FleetInv'
  BY FleetStep
<1>2. ASSUME FleetInv PROVE ConfigurationAgrees
  <2>1. SUFFICES ASSUME file # Null, row[file.agent] # Null, file.agent \notin overlapped,
                        file.version = row[file.agent].version
                 PROVE  Content(file) = Content(Current(file.agent))
    BY DEF ConfigurationAgrees
  <2>2. /\ file.setting = row[file.agent].setting /\ file.usage = row[file.agent].usage
        /\ file.revision = Definition(row[file.agent].usage)
    BY <1>2, <2>1 DEF FleetInv, FileInv, HoldsUp, Steady
  <2> QED
    BY <2>2 DEF Content, Current, Configuration
<1> QED
  BY FleetInvInit, <1>1, <1>2, PTL DEF FleetSpec

-----------------------------------------------------------------------------
(* The vehicle connection of the agent.  A provider is published by the    *)
(* lifecycle goroutine alone, and one older than the configuration in use  *)
(* comes of a Reset that met its acquisition.                              *)
SourceTypes ==
  /\ configured \in Nat \ {0} /\ current \in 0..configured /\ pending \in 0..configured
  /\ service \in {"running", "changed", "closing", "joining", "closed"}
  /\ lifecycle \in {"none", "top", "watching", "waiting", "attempt", "acquiring", "starting",
                    "wedged", "returning", "ended"}
  /\ overtaken \in BOOLEAN
PublishedInv ==
  /\ current # 0 => lifecycle \in {"top", "watching", "returning", "ended"}
  /\ pending # 0 => lifecycle \in {"starting", "wedged"}
  /\ lifecycle = "starting" => pending # 0
  /\ service # "changed" /\ ~overtaken => current \in {0, configured} /\ pending \in {0, configured}
ReleasedInv ==
  /\ service = "joining" => lifecycle # "none" /\ ~acquiring
  /\ service = "closed" => current = 0
  /\ lifecycle = "ended" => closed
SourceInv == SourceTypes /\ PublishedInv /\ ReleasedInv

(* What ResetApplies rests on: from the return of a Reset on, whatever the *)
(* retries and failures in between, the vehicle is not read through a      *)
(* provider of an older configuration, unless that Reset overtook its      *)
(* acquisition (Reset, attemptAcquire).                                    *)
UsesConfiguration == service # "changed" /\ ~overtaken => current \in {0, configured}

(* Half of ShutdownReleases: nothing is published once Close has returned, *)
(* although an acquisition it did not wait for may still come back         *)
(* (Close, attemptAcquire).                                                *)
ReleasedForGood == [][service = "closed" => service' = "closed" /\ current = 0 /\ current' = 0]_vehicleSourceVars

(* Both goroutines keep it so.                                             *)
LEMMA SourceInit == VehicleSourceInit => SourceInv
<1> SUFFICES ASSUME VehicleSourceInit
             PROVE  SourceInv
  OBVIOUS
<1>1. overtaken \in BOOLEAN
  BY DEF VehicleSourceInit
<1>2. /\ configured = 1 /\ service = "running" /\ lifecycle = "none" /\ current = 0 /\ pending = 0
  BY DEF VehicleSourceInit
<1> QED
  BY <1>1, <1>2 DEF SourceInv, SourceTypes, PublishedInv, ReleasedInv, closed, acquiring

LEMMA ServiceKeeps ==
  ASSUME SourceInv, Start_provider \/ Reconfigure \/ Reset \/ ReadObservations \/ Close \/ FinishClose
  PROVE  SourceInv'
<1>1. CASE Start_provider
  BY <1>1 DEF SourceInv, SourceTypes, PublishedInv, ReleasedInv, Start_provider, started, closed, acquiring, providerVars
<1>2. CASE Reconfigure
  BY <1>2 DEF SourceInv, SourceTypes, PublishedInv, ReleasedInv, Reconfigure, closed, acquiring, providerVars
<1>3. CASE Reset
  <2>1. /\ service = "changed" /\ service' = "running" /\ current' = 0
        /\ UNCHANGED <<configured, lifecycle, pending>>
    BY <1>3 DEF Reset, closeCurrentLocked
  <2>2. overtaken' \in BOOLEAN
    BY <1>3 DEF Reset
  <2>3. overtaken' \/ ~(lifecycle \in {"starting", "wedged"} /\ pending < configured)
    BY <1>3 DEF Reset
  <2>4. pending' # 0 /\ ~overtaken' => pending' = configured'
    BY <2>1, <2>3 DEF SourceInv, SourceTypes, PublishedInv
  <2> QED
    BY <2>1, <2>2, <2>4 DEF SourceInv, SourceTypes, PublishedInv, ReleasedInv, closed, acquiring
<1>4. CASE ReadObservations
  BY <1>4 DEF SourceInv, SourceTypes, PublishedInv, ReleasedInv, ReadObservations, failLocked, closeCurrentLocked,
     closed, acquiring
<1>5. CASE Close
  BY <1>5 DEF SourceInv, SourceTypes, PublishedInv, ReleasedInv, Close, started, closed, acquiring
<1>6. CASE FinishClose
  BY <1>6 DEF SourceInv, SourceTypes, PublishedInv, ReleasedInv, FinishClose, closeCurrentLocked, closed, acquiring
<1> QED
  BY <1>1, <1>2, <1>3, <1>4, <1>5, <1>6

LEMMA LifecycleKeeps ==
  ASSUME SourceInv, retryLoop \/ Fail \/ Wedge \/ Break
  PROVE  SourceInv'
<1> USE DEF SourceInv, SourceTypes, PublishedInv, ReleasedInv, closed, acquiring, Goes
<1>1. CASE Look
  BY <1>1 DEF Look, providerVars
<1>2. ASSUME NEW from \in {"watching", "waiting"}, Interrupted(from)
      PROVE  SourceInv'
  BY <1>2 DEF Interrupted
<1>3. CASE Watch
  BY <1>3 DEF Watch, failLocked, closeCurrentLocked
<1>4. CASE BackOff
  BY <1>4 DEF BackOff, providerVars
<1>5. CASE Attempt
  BY <1>5 DEF Attempt, providerVars
<1>6. CASE Build
  <2>1. overtaken' \in BOOLEAN
    BY <1>6 DEF Build
  <2>2. /\ lifecycle = "acquiring" /\ lifecycle' = "starting" /\ pending' = configured
        /\ UNCHANGED <<configured, service, current>>
    BY <1>6 DEF Build
  <2> QED
    BY <2>1, <2>2
<1>7. CASE Publish
  BY <1>7 DEF Publish
<1>8. CASE Return
  BY <1>8 DEF Return, providerVars
<1>9. CASE Fail
  BY <1>9 DEF Fail
<1>10. CASE Wedge
  BY <1>10 DEF Wedge, providerVars
<1>11. CASE Break
  BY <1>11 DEF Break
<1> QED
  BY <1>1, <1>2, <1>3, <1>4, <1>5, <1>6, <1>7, <1>8, <1>9, <1>10, <1>11 DEF retryLoop

LEMMA SourceStep == SourceInv /\ [VehicleSourceNext]_vehicleSourceVars => SourceInv'
<1>1. SourceInv /\ UNCHANGED vehicleSourceVars => SourceInv'
  BY DEF SourceInv, SourceTypes, PublishedInv, ReleasedInv, vehicleSourceVars, providerVars, closed, acquiring
<1> QED
  BY <1>1, ServiceKeeps, LifecycleKeeps DEF VehicleSourceNext

LEMMA SourceHolds == VehicleSourceSpec => []SourceInv
  BY SourceInit, SourceStep, PTL DEF VehicleSourceSpec

(* Between a Reset and the next configuration the vehicle is read with the *)
(* configuration in use, whichever goroutine comes first, for any number   *)
(* of configurations and failures.                                         *)
THEOREM ConfigurationInUse == VehicleSourceSpec => []UsesConfiguration
<1>1. SourceInv => UsesConfiguration
  BY DEF SourceInv, PublishedInv, UsesConfiguration
<1> QED
  BY <1>1, SourceHolds, PTL

(* Once Close has returned no provider is in use or comes into use.        *)
THEOREM ReleasedOnce == VehicleSourceSpec => ReleasedForGood
<1>1. SourceInv /\ [VehicleSourceNext]_vehicleSourceVars
        => [service = "closed" => service' = "closed" /\ current = 0 /\ current' = 0]_vehicleSourceVars
  <2> SUFFICES ASSUME SourceInv, [VehicleSourceNext]_vehicleSourceVars, service = "closed"
               PROVE  (service' = "closed" /\ current = 0 /\ current' = 0) \/ UNCHANGED vehicleSourceVars
    OBVIOUS
  <2>1. current = 0 /\ SourceInv'
    BY SourceStep DEF SourceInv, ReleasedInv
  <2>2. CASE VehicleSourceNext
    <3>1. service' = "closed"
      BY <2>2 DEF VehicleSourceNext, Start_provider, Reconfigure, Reset, ReadObservations, Close, FinishClose,
         retryLoop, Look, Interrupted, Watch, BackOff, Attempt, Build, Publish, Return, Fail, Wedge, Break
    <3> QED
      BY <2>1, <3>1 DEF SourceInv, ReleasedInv
  <2> QED
    BY <2>1, <2>2
<1> QED
  BY <1>1, SourceHolds, PTL DEF VehicleSourceSpec, ReleasedForGood
==============================================================================
