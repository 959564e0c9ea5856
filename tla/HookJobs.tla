------------------------------ MODULE HookJobs ------------------------------
(***************************************************************************)
(* The durable hook queue and the workers that drain it:                   *)
(* backend/app/jobs/services.py, backend/app/worker.py and the queueing    *)
(* half of backend/app/hooks and backend/app/telemetry/services.py.        *)
(*                                                                         *)
(* A job and the hook execution it names are created together and stay     *)
(* one to one, so both are indexed by one execution number; numbers grow   *)
(* in creation order, which is the order jobs are claimed in.  Every       *)
(* action is one committed transaction, or a step of a worker between two  *)
(* of its commits.  A worker process may die between any two steps.        *)
(***************************************************************************)
EXTENDS Integers

CONSTANTS
  Worker,         \* worker processes (CARHIBOU_WORKER_ID)
  Hook,           \* hooks an administrator has written
  None,           \* no worker, no hook
  MaxExecution,   \* bound: executions ever created
  MaxCrash,       \* bound: worker processes that die
  HookTimeout,    \* Hook.timeout_seconds, in clock ticks
  Lease,          \* LEASE_SECONDS, in clock ticks
  Prompt          \* TRUE: database steps take no time, only waiting and hooks do

ASSUME NoneAssumption == None \notin Worker \union Hook
ASSUME BoundAssumption == /\ MaxExecution \in Nat
                          /\ MaxCrash \in Nat
ASSUME LeaseAssumption == /\ HookTimeout \in Nat
                          /\ Lease \in Nat
                          /\ HookTimeout < Lease
ASSUME PromptAssumption == Prompt \in BOOLEAN

Execution == 1..MaxExecution
NoExecution == 0

Final == {"success", "failed", "timeout"}
JobStatus == {"absent", "pending", "running", "completed", "failed"}
ExecutionStatus == {"absent", "pending", "running", "gone"} \union Final
Outcome == {"success", "secret", "failed", "timeout", "error"}
FirstSuccess == "first"   \* a success that found no HookState row to update

(***************************************************************************)
(* Where a worker is in process_one and execute_hook_job.                  *)
(*   idle      between two calls of process_one                            *)
(*   claimed   the claim is committed, the execution row not yet read      *)
(*   waiting   holds the execution row FOR UPDATE, wants the hook's lock   *)
(*   locked    holds the hook's advisory lock, inputs not yet read         *)
(*   running   "running" is committed, the child process runs              *)
(*   unlocked  result written to the session, lock released, no commit yet *)
(*   raised    an exception left execute_hook_job; rolled back             *)
(*   down      the process died                                            *)
(***************************************************************************)
Holding == {"claimed", "waiting", "locked", "running", "unlocked", "raised"}
Locking == {"locked", "running"}
RowLocking == {"waiting", "locked"}

VARIABLES
  hook,       \* hook rows: "enabled", "disabled" or "deleted"
  enqueued,   \* executions created so far
  hookOf,     \* HookExecution.hook_id
  job,        \* Job.status, "absent" before it is created
  exec,       \* HookExecution.status, "absent" before, "gone" once deleted
  age,        \* ticks since Job.locked_at of a running job
  hookState,  \* HookState.value: the executions whose effect it contains
  hookLock,   \* the worker that holds the hook's advisory lock
  pc,         \* control point of each worker
  cur,        \* the execution each worker holds
  snap,       \* state.value as read by build_runtime_input
  outcome,    \* what run_hook_process returned or raised
  ran,        \* ticks the worker's child has been running
  started,    \* history: child processes started for an execution
  crashes     \* worker processes that have died

dbVars == <<hook, enqueued, hookOf, job, exec, age, hookState>>
workerVars == <<hookLock, pc, cur, snap, outcome, ran>>
vars == <<hook, enqueued, hookOf, job, exec, age, hookState,
          hookLock, pc, cur, snap, outcome, ran, started, crashes>>

TypeOK ==
  /\ hook \in [Hook -> {"enabled", "disabled", "deleted"}]
  /\ enqueued \in 0..MaxExecution
  /\ hookOf \in [Execution -> Hook \union {None}]
  /\ job \in [Execution -> JobStatus]
  /\ exec \in [Execution -> ExecutionStatus]
  /\ age \in [Execution -> 0..(Lease + 1)]
  /\ hookState \in [Hook -> SUBSET Execution]
  /\ hookLock \in [Hook -> Worker \union {None}]
  /\ pc \in [Worker -> Holding \union {"idle", "down"}]
  /\ cur \in [Worker -> Execution \union {NoExecution}]
  /\ snap \in [Worker -> SUBSET Execution]
  /\ outcome \in [Worker -> Outcome \union {FirstSuccess}]
  /\ ran \in [Worker -> 0..HookTimeout]
  /\ started \in [Execution -> Nat]
  /\ crashes \in 0..MaxCrash

Init ==
  /\ hook \in [Hook -> {"enabled", "disabled"}]
  /\ enqueued = 0
  /\ hookOf = [e \in Execution |-> None]
  /\ job = [e \in Execution |-> "absent"]
  /\ exec = [e \in Execution |-> "absent"]
  /\ age = [e \in Execution |-> 0]
  /\ hookState = [h \in Hook |-> {}]
  /\ hookLock = [h \in Hook |-> None]
  /\ pc = [w \in Worker |-> "idle"]
  /\ cur = [w \in Worker |-> NoExecution]
  /\ snap = [w \in Worker |-> {}]
  /\ outcome = [w \in Worker |-> "error"]
  /\ ran = [w \in Worker |-> 0]
  /\ started = [e \in Execution |-> 0]
  /\ crashes = 0

-----------------------------------------------------------------------------
(* Queueing: the execution and its job are one transaction.                *)

(* f maps the next execution numbers to the hooks they run.                *)
Enqueue(last, f) ==
  LET new == (enqueued + 1)..last
  IN  /\ enqueued' = last
      /\ hookOf' = [e \in Execution |-> IF e \in new THEN f[e] ELSE hookOf[e]]
      /\ job' = [e \in Execution |-> IF e \in new THEN "pending" ELSE job[e]]
      /\ exec' = [e \in Execution |-> IF e \in new THEN "pending" ELSE exec[e]]
      /\ UNCHANGED <<hook, age, hookState, workerVars, started, crashes>>

(* _enqueue_hooks: a batch makes one trigger per ten samples, a trigger one *)
(* execution for each of the n enabled hooks the vehicle matches, always   *)
(* in the same order of hooks.                                             *)
IngestBatch ==
  \E last \in (enqueued + 1)..MaxExecution :
    \E f \in [(enqueued + 1)..last -> {h \in Hook : hook[h] = "enabled"}] :
      /\ \E n \in 1..(last - enqueued) :
           /\ (last - enqueued) % n = 0
           /\ \A d, e \in (enqueued + 1)..last : f[d] = f[e] <=> (d - e) % n = 0
      /\ Enqueue(last, f)

(* POST /hooks/{id}/test runs a hook by hand, enabled or not.              *)
TestHook(h) ==
  /\ hook[h] # "deleted"
  /\ enqueued < MaxExecution
  /\ Enqueue(enqueued + 1, [e \in {enqueued + 1} |-> h])

(* POST /hooks/executions/{id}/retry queues a new execution.               *)
RetryExecution(e) ==
  /\ exec[e] \in {"failed", "timeout"}
  /\ enqueued < MaxExecution
  /\ Enqueue(enqueued + 1, [d \in {enqueued + 1} |-> hookOf[e]])

(* PUT /hooks/{id}; what matters to the queue is the enabled flag.         *)
EditHook(h) ==
  /\ hook[h] # "deleted"
  /\ hook' = [hook EXCEPT ![h] = IF @ = "enabled" THEN "disabled" ELSE "enabled"]
  /\ UNCHANGED <<enqueued, hookOf, job, exec, age, hookState,
                 workerVars, started, crashes>>

(* DELETE /hooks/{id} cascades to executions and state, never to jobs; it  *)
(* waits for the execution rows that workers hold FOR UPDATE.              *)
RemoveHook(h) ==
  /\ hook[h] # "deleted"
  /\ \A w \in Worker : pc[w] \in RowLocking => hookOf[cur[w]] # h
  /\ hook' = [hook EXCEPT ![h] = "deleted"]
  /\ exec' = [e \in Execution |-> IF hookOf[e] = h THEN "gone" ELSE exec[e]]
  /\ hookState' = [hookState EXCEPT ![h] = {}]
  /\ UNCHANGED <<enqueued, hookOf, job, age, workerVars, started, crashes>>

(* Deleting telemetry, a source or a vehicle cascades through the triggers *)
(* to executions, and leaves the hooks, their state and the jobs.          *)
PurgeTelemetry(S) ==
  /\ S # {}
  /\ \A e \in S : exec[e] \notin {"absent", "gone"}
  /\ \A w \in Worker : pc[w] \in RowLocking => cur[w] \notin S
  /\ exec' = [e \in Execution |-> IF e \in S THEN "gone" ELSE exec[e]]
  /\ UNCHANGED <<hook, enqueued, hookOf, job, age, hookState,
                 workerVars, started, crashes>>

-----------------------------------------------------------------------------
(* Claiming: recover_expired_leases and the claim are one transaction.     *)

(* Plausible bugs, for the mutation runs only: expiry that looks for        *)
(* executions already running; expired jobs queued again; every open       *)
(* execution of an expired job failed.                                     *)
LeaseExpired_onlyStarted(e) == job[e] = "running" /\ exec[e] = "running" /\ age[e] > Lease

LeaseExpired(e) == job[e] = "running" /\ age[e] > Lease

RecoveredJob_requeued ==
  [e \in Execution |-> IF LeaseExpired(e) THEN "pending" ELSE job[e]]

RecoveredJob ==
  [e \in Execution |-> IF LeaseExpired(e) THEN "failed" ELSE job[e]]

RecoveredExec_anyOpen ==
  [e \in Execution |-> IF LeaseExpired(e) /\ exec[e] \in {"pending", "running"}
                       THEN "failed" ELSE exec[e]]

(* Only an execution already marked running is failed with its job.        *)
RecoveredExec ==
  [e \in Execution |-> IF LeaseExpired(e) /\ exec[e] = "running"
                       THEN "failed" ELSE exec[e]]

RecoveredAge == [e \in Execution |-> IF LeaseExpired(e) THEN 0 ELSE age[e]]

Claimable(e) == job[e] = "pending" /\ \A d \in Execution : job[d] = "pending" => e <= d

ClaimJob(w) ==
  /\ pc[w] = "idle"
  /\ exec' = RecoveredExec
  /\ age' = RecoveredAge
  /\ \E e \in Execution :
       /\ Claimable(e)
       /\ job' = [RecoveredJob EXCEPT ![e] = "running"]
       /\ cur' = [cur EXCEPT ![w] = e]
  /\ pc' = [pc EXCEPT ![w] = "claimed"]
  /\ UNCHANGED <<hook, enqueued, hookOf, hookState,
                 hookLock, snap, outcome, ran, started, crashes>>

(* With nothing to claim the worker still recovers expired leases.         *)
PollJobs(w) ==
  /\ pc[w] = "idle"
  /\ \A e \in Execution : job[e] # "pending"
  /\ exec' = RecoveredExec
  /\ age' = RecoveredAge
  /\ job' = RecoveredJob
  /\ UNCHANGED <<hook, enqueued, hookOf, hookState,
                 workerVars, started, crashes>>

-----------------------------------------------------------------------------
(* Executing a claimed job.                                                *)

(* The session and locals of process_one are gone.                         *)
Forget(w) ==
  /\ cur' = [cur EXCEPT ![w] = NoExecution]
  /\ snap' = [snap EXCEPT ![w] = {}]
  /\ outcome' = [outcome EXCEPT ![w] = "error"]
  /\ ran' = [ran EXCEPT ![w] = 0]

(* SELECT ... FOR UPDATE on the execution: gone, already done, or ours.    *)
LockExecution(w) ==
  LET e == cur[w]
      open == exec[e] \in {"pending", "running"}
      next == IF exec[e] = "gone" THEN "raised" ELSE IF open THEN "waiting" ELSE "idle"
  IN  /\ pc[w] = "claimed"
      /\ pc' = [pc EXCEPT ![w] = next]
      /\ job' = [job EXCEPT ![e] = IF next = "idle" THEN "completed" ELSE @]
      /\ cur' = [cur EXCEPT ![w] = IF next = "idle" THEN NoExecution ELSE @]
      /\ UNCHANGED <<hook, enqueued, hookOf, exec, age, hookState,
                     hookLock, snap, outcome, ran, started, crashes>>

(* pg_advisory_lock on a connection of its own.                            *)
AcquireHookLock(w) ==
  /\ pc[w] = "waiting"
  /\ hookLock[hookOf[cur[w]]] = None
  /\ hookLock' = [hookLock EXCEPT ![hookOf[cur[w]]] = w]
  /\ pc' = [pc EXCEPT ![w] = "locked"]
  /\ UNCHANGED <<dbVars, cur, snap, outcome, ran, started, crashes>>

(* Mutation only: a transaction-scoped advisory lock ends with the commit. *)
StartHook_xactLock(w) ==
  /\ pc[w] = "locked"
  /\ exec' = [exec EXCEPT ![cur[w]] = "running"]
  /\ snap' = [snap EXCEPT ![w] = hookState[hookOf[cur[w]]]]
  /\ started' = [started EXCEPT ![cur[w]] = @ + 1]
  /\ pc' = [pc EXCEPT ![w] = "running"]
  /\ hookLock' = [hookLock EXCEPT ![hookOf[cur[w]]] = None]
  /\ UNCHANGED <<hook, enqueued, hookOf, job, age, hookState,
                 cur, outcome, ran, crashes>>

(* build_runtime_input reads the hook's state; "running" is committed,     *)
(* which releases the execution row, and the child starts.                 *)
StartHook(w) ==
  /\ pc[w] = "locked"
  /\ exec' = [exec EXCEPT ![cur[w]] = "running"]
  /\ snap' = [snap EXCEPT ![w] = hookState[hookOf[cur[w]]]]
  /\ started' = [started EXCEPT ![cur[w]] = @ + 1]
  /\ pc' = [pc EXCEPT ![w] = "running"]
  /\ UNCHANGED <<hook, enqueued, hookOf, job, age, hookState,
                 hookLock, cur, outcome, ran, crashes>>

ReleaseHookLock(w) == hookLock' = [hookLock EXCEPT ![hookOf[cur[w]]] = None]

(* build_runtime_input raises: a secret does not decrypt, a read fails.    *)
StartFails(w) ==
  /\ pc[w] = "locked"
  /\ ReleaseHookLock(w)
  /\ pc' = [pc EXCEPT ![w] = "raised"]
  /\ UNCHANGED <<dbVars, cur, snap, outcome, ran, started, crashes>>

(* The child ends, or is killed at its timeout; the result is assigned to  *)
(* the session and leaving the with block releases the lock, all before    *)
(* process_one commits.  A success looks up the state row here: finding    *)
(* none it will insert one.  "error" is an exception in run_hook_process   *)
(* or in the assignments.                                                  *)
FinishHook(w, o) ==
  LET inserts == o = "success" /\ hookState[hookOf[cur[w]]] = {}
  IN
  /\ pc[w] = "running"
  /\ o = "timeout" => ran[w] = HookTimeout
  /\ ReleaseHookLock(w)
  /\ ran' = [ran EXCEPT ![w] = 0]
  /\ outcome' = [outcome EXCEPT ![w] = IF inserts THEN FirstSuccess ELSE o]
  /\ pc' = [pc EXCEPT ![w] = IF o = "error" THEN "raised" ELSE "unlocked"]
  /\ UNCHANGED <<dbVars, cur, snap, started, crashes>>

(* A state that contains a secret fails the execution and is not stored.   *)
StatusOf(o) == CASE o = "secret"     -> "failed"
                 [] o = FirstSuccess -> "success"
                 [] OTHER            -> o

(* HookState is written on success only, from the state the run read.      *)
(* Mutations: written whatever the outcome; read state ignored.            *)
NextState_anyOutcome(w) == snap[w] \union {cur[w]}
NextState_dropped(w) ==
  IF StatusOf(outcome[w]) = "success" THEN {cur[w]} ELSE hookState[hookOf[cur[w]]]
NextState(w) ==
  IF StatusOf(outcome[w]) = "success"
  THEN snap[w] \union {cur[w]}
  ELSE hookState[hookOf[cur[w]]]

(* The flush fails when the execution row has been deleted, or when        *)
(* another run has inserted the state row this one wants to insert.        *)
CommitConflict(w) ==
  \/ exec[cur[w]] = "gone"
  \/ outcome[w] = FirstSuccess /\ hookState[hookOf[cur[w]]] # {}

(* The commit of process_one.  The result does not look at what the rows   *)
(* hold by now: the session kept its own copies.                           *)
CommitResult(w) ==
  LET e == cur[w]
  IN  /\ pc[w] = "unlocked"
      /\ ~CommitConflict(w)
      /\ exec' = [exec EXCEPT ![e] = StatusOf(outcome[w])]
      /\ job' = [job EXCEPT ![e] = "completed"]
      /\ age' = [age EXCEPT ![e] = 0]
      /\ hookState' = [hookState EXCEPT ![hookOf[e]] = NextState(w)]
      /\ pc' = [pc EXCEPT ![w] = "idle"]
      /\ Forget(w)
      /\ UNCHANGED <<hook, enqueued, hookOf, hookLock, started, crashes>>

(* The flush raises inside the try block of process_one.                   *)
CommitFails(w) ==
  /\ pc[w] = "unlocked"
  /\ CommitConflict(w)
  /\ pc' = [pc EXCEPT ![w] = "raised"]
  /\ UNCHANGED <<dbVars, hookLock, cur, snap, outcome, ran, started, crashes>>

(* The except branch of process_one, after its rollback.                   *)
FailJob(w) ==
  LET e == cur[w]
  IN  /\ pc[w] = "raised"
      /\ job' = [job EXCEPT ![e] = "failed"]
      /\ exec' = [exec EXCEPT ![e] = IF @ \in {"pending", "running"} THEN "failed" ELSE @]
      /\ pc' = [pc EXCEPT ![w] = "idle"]
      /\ age' = [age EXCEPT ![e] = 0]
      /\ Forget(w)
      /\ UNCHANGED <<hook, enqueued, hookOf, hookState, hookLock, started, crashes>>

-----------------------------------------------------------------------------
(* Processes and time.                                                     *)

(* PostgreSQL rolls back and releases the locks of a closed connection.    *)
Crash(w) ==
  /\ pc[w] \in Holding
  /\ crashes < MaxCrash
  /\ crashes' = crashes + 1
  /\ pc' = [pc EXCEPT ![w] = "down"]
  /\ Forget(w)
  /\ hookLock' = [h \in Hook |-> IF hookLock[h] = w THEN None ELSE hookLock[h]]
  /\ UNCHANGED <<dbVars, started>>

Restart(w) ==
  /\ pc[w] = "down"
  /\ pc' = [pc EXCEPT ![w] = "idle"]
  /\ UNCHANGED <<dbVars, hookLock, cur, snap, outcome, ran, started, crashes>>

(* What a worker may be doing while time passes when Prompt.               *)
TakesTime(w) ==
  \/ pc[w] \in {"idle", "running", "down"}
  \/ pc[w] = "waiting" /\ hookLock[hookOf[cur[w]]] # None

(* communicate(timeout=...) ends a child that has run HookTimeout ticks.   *)
Tick ==
  /\ \A w \in Worker : pc[w] = "running" => ran[w] < HookTimeout
  /\ Prompt => \A w \in Worker : TakesTime(w)
  /\ age' = [e \in Execution |-> IF job[e] = "running" /\ age[e] <= Lease
                                 THEN age[e] + 1 ELSE age[e]]
  /\ ran' = [w \in Worker |-> IF pc[w] = "running" THEN ran[w] + 1 ELSE ran[w]]
  /\ UNCHANGED <<hook, enqueued, hookOf, job, exec, hookState,
                 hookLock, pc, cur, snap, outcome, started, crashes>>

-----------------------------------------------------------------------------
Work(w) ==
  \/ ClaimJob(w)
  \/ PollJobs(w)
  \/ LockExecution(w)
  \/ AcquireHookLock(w)
  \/ StartHook(w)
  \/ StartFails(w)
  \/ \E o \in Outcome : FinishHook(w, o)
  \/ CommitResult(w)
  \/ CommitFails(w)
  \/ FailJob(w)

Administer ==
  \/ IngestBatch
  \/ \E h \in Hook : TestHook(h) \/ EditHook(h) \/ RemoveHook(h)
  \/ \E e \in Execution : RetryExecution(e)
  \/ \E S \in SUBSET Execution : PurgeTelemetry(S)

Next ==
  \/ Administer
  \/ \E w \in Worker : Work(w) \/ Crash(w) \/ Restart(w)
  \/ Tick

Spec == Init /\ [][Next]_vars

(* A live worker keeps looping, a dead one is restarted by the container   *)
(* runtime, and the clock advances.                                        *)
Fairness ==
  /\ \A w \in Worker : WF_vars(Work(w)) /\ WF_vars(Restart(w))
  /\ WF_vars(Tick)

FairSpec == Spec /\ Fairness

-----------------------------------------------------------------------------
(* Properties.                                                             *)

(* Runs of one hook are serialized: its advisory lock outlives the commits *)
(* between claim and result, so two children of one hook never overlap     *)
(* (worker.py hook_state_lock; architecture.md "executions for one hook    *)
(* are serialized").                                                       *)
HookRunsSerialized ==
  \A v, w \in Worker :
    /\ v # w
    /\ pc[v] = "running"
    /\ pc[w] = "running"
    => hookOf[cur[v]] # hookOf[cur[w]]

(* An execution's source runs at most once, whatever crashes, expires or   *)
(* is recovered: arbitrary side effects are never retried automatically.   *)
NoAutomaticRetry == \A e \in Execution : started[e] <= 1

(* Durable state only ever contains effects of runs reported successful    *)
(* (an execution may be deleted later, its effect stays); a failed, timed  *)
(* out, crashed or secret-leaking run leaves none.                         *)
StateOnlyFromSuccess ==
  \A h \in Hook : \A e \in hookState[h] :
    hookOf[e] = h /\ exec[e] \in {"success", "gone"}

(* A result stays a result: no recovery, late worker or retry reopens an   *)
(* execution that already failed, timed out or succeeded.                  *)
Resolved(e) == exec[e] \in Final
ResultKept(e) == Resolved(e) => exec'[e] \in Final \union {"gone"}
ResolvedStaysResolved == [][\A e \in Execution : ResultKept(e)]_vars

(* Every queued job is finished or failed, across crashes and restarts.    *)
EveryJobResolved ==
  \A e \in Execution : job[e] = "pending" ~> job[e] \in {"completed", "failed"}

(* With one worker the queue implements the ledger: one result each, and   *)
(* state that accounts for exactly the successful executions.              *)
LedgerResult ==
  [e \in Execution |-> IF exec[e] \in {"pending", "running"} THEN "open" ELSE exec[e]]
Ledger == INSTANCE HookLedger WITH
            result <- LedgerResult, owner <- hookOf, effect <- hookState
ImplementsLedger == Ledger!Spec

(* Read-modify-write of ctx.state is deterministic (docs/user-guide/       *)
(* hooks.md, worker.py hook_state_lock): a success is never lost from the  *)
(* state of a hook by another run that read the state before it.           *)
NoLostUpdate ==
  \A e \in Execution : exec[e] = "success" => e \in hookState[hookOf[e]]

(* A crash is recovered visibly (architecture.md "Failures, timeouts and   *)
(* recovered crashes are visible"): once a job has failed and no worker    *)
(* holds it, its execution shows a result an administrator can retry.      *)
RecoveredCrashIsVisible ==
  \A e \in Execution :
    job[e] = "failed" /\ (\A w \in Worker : cur[w] # e)
      => exec[e] \notin {"pending", "running"}

(* The lease never mistakes a healthy worker for a crashed one             *)
(* (jobs/services.py, comment on LEASE_SECONDS).                           *)
HealthyJobKeepsLease ==
  \A w \in Worker : pc[w] = "running" => job[cur[w]] = "running"

-----------------------------------------------------------------------------
(* The inductive invariant behind the safety theorems (HookJobsProofs).    *)

(* Rows exist exactly up to the counter, and a job that was never claimed  *)
(* belongs to an execution that never started.                             *)
RowsCreatedInOrder ==
  \A e \in Execution :
    /\ job[e] = "absent" <=> e > enqueued
    /\ exec[e] = "absent" <=> e > enqueued
    /\ e > enqueued => hookOf[e] = None
    /\ e <= enqueued => hookOf[e] \in Hook
    /\ job[e] \in {"absent", "pending"} =>
         started[e] = 0 /\ exec[e] \in {"absent", "pending", "gone"}
    /\ started[e] <= 1

(* A worker holds a claimed job, and no two workers hold the same one.     *)
JobsHeldOnce ==
  \A w \in Worker :
    /\ pc[w] \notin Holding => cur[w] = NoExecution
    /\ pc[w] \in Holding =>
         /\ cur[w] \in Execution
         /\ job[cur[w]] \notin {"absent", "pending"}
    /\ \A v \in Worker :
         v # w /\ pc[v] \in Holding /\ pc[w] \in Holding => cur[v] # cur[w]

(* How far an execution is, told from the worker that holds it.            *)
StageMatchesRow ==
  \A w \in Worker :
    /\ pc[w] \in {"claimed", "waiting", "locked"} =>
         started[cur[w]] = 0 /\ exec[cur[w]] \in {"pending", "gone"}
    /\ pc[w] \in RowLocking => exec[cur[w]] = "pending"
    /\ pc[w] \in {"running", "unlocked"} =>
         exec[cur[w]] \in {"running", "failed", "gone"}
    /\ pc[w] = "unlocked" => outcome[w] # "error"

LocksHeld ==
  \A w \in Worker : pc[w] \in Locking => hookLock[hookOf[cur[w]]] = w

(* What a run read is still nothing but successes of its own hook, unless  *)
(* the hook and with it the run's execution were deleted.                  *)
SnapshotFromSuccess ==
  \A w \in Worker :
    pc[w] \in {"running", "unlocked"} /\ exec[cur[w]] # "gone" =>
      \A e \in snap[w] :
        hookOf[e] = hookOf[cur[w]] /\ exec[e] \in {"success", "gone"}

Inv ==
  /\ TypeOK
  /\ RowsCreatedInOrder
  /\ JobsHeldOnce
  /\ StageMatchesRow
  /\ LocksHeld
  /\ StateOnlyFromSuccess
  /\ SnapshotFromSuccess
=============================================================================
