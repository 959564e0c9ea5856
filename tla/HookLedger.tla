----------------------------- MODULE HookLedger -----------------------------
(***************************************************************************)
(* What the hook runtime promises its users, with no workers, locks or     *)
(* leases in sight: every execution is open until it gets one result, the  *)
(* result never changes, and the durable state of a hook is exactly the    *)
(* accumulated effect of its successful executions (docs/developers/       *)
(* architecture.md, "Trusted hook runtime"; docs/user-guide/hooks.md,      *)
(* "Execution, secrets and dependencies").                                 *)
(***************************************************************************)
CONSTANTS Hook,       \* hooks that administrators write
          Execution,  \* identities of the hook executions
          None        \* the hook of an execution that does not exist yet

VARIABLES result,     \* Execution -> "absent", "open", a result, or "gone"
          owner,      \* Execution -> the hook it belongs to, or None
          effect      \* Hook -> the executions its durable state accounts for

vars == <<result, owner, effect>>

Init ==
  /\ result = [e \in Execution |-> "absent"]
  /\ owner  = [e \in Execution |-> None]
  /\ effect = [h \in Hook |-> {}]

(* A trigger or an administrator opens one or several executions at once.  *)
Open(S) ==
  /\ S # {}
  /\ \A e \in S : result[e] = "absent"
  /\ result' = [e \in Execution |-> IF e \in S THEN "open" ELSE result[e]]
  /\ \E f \in [S -> Hook] :
       owner' = [e \in Execution |-> IF e \in S THEN f[e] ELSE owner[e]]
  /\ UNCHANGED effect

(* A success and its effect on the hook's state are one step.              *)
Succeed(e) ==
  /\ result[e] = "open"
  /\ result' = [result EXCEPT ![e] = "success"]
  /\ effect' = [effect EXCEPT ![owner[e]] = @ \union {e}]
  /\ UNCHANGED owner

TimeOut(e) ==
  /\ result[e] = "open"
  /\ result' = [result EXCEPT ![e] = "timeout"]
  /\ UNCHANGED <<owner, effect>>

(* Failures, several at once when the leases of crashed workers expire.    *)
Fail(S) ==
  /\ S # {}
  /\ \A e \in S : result[e] = "open"
  /\ result' = [e \in Execution |-> IF e \in S THEN "failed" ELSE result[e]]
  /\ UNCHANGED <<owner, effect>>

(* Deleting a hook deletes its executions and its state.                   *)
Erase(h) ==
  /\ result' = [e \in Execution |-> IF owner[e] = h THEN "gone" ELSE result[e]]
  /\ effect' = [effect EXCEPT ![h] = {}]
  /\ UNCHANGED owner

(* Deleting the telemetry that triggered executions deletes them; what     *)
(* their successes did to the state stays.                                 *)
Purge(S) ==
  /\ S # {}
  /\ \A e \in S : result[e] # "absent"
  /\ result' = [e \in Execution |-> IF e \in S THEN "gone" ELSE result[e]]
  /\ UNCHANGED <<owner, effect>>

Next ==
  \/ \E S \in SUBSET Execution : Open(S) \/ Fail(S) \/ Purge(S)
  \/ \E e \in Execution : Succeed(e) \/ TimeOut(e)
  \/ \E h \in Hook : Erase(h)

Spec == Init /\ [][Next]_vars
=============================================================================
