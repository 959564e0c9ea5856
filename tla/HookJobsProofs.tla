--------------------------- MODULE HookJobsProofs ---------------------------
(***************************************************************************)
(* Safety of the hook queue for any number of workers, hooks, executions   *)
(* and crashes, and for any hook timeout and lease.                        *)
(*                                                                         *)
(* Inv of HookJobs is inductive: one lemma per action, one step per        *)
(* conjunct of Inv, then InvInit, InvStep and the theorems at the end.     *)
(* With one worker, SoloInv is inductive too, and the queue implements the *)
(* ledger of HookLedger: the last part.                                    *)
(***************************************************************************)
EXTENDS HookJobs, TLAPS

USE NoneAssumption, BoundAssumption, LeaseAssumption
USE DEF Execution, NoExecution, Final, Outcome, Holding, Locking, RowLocking,
        JobStatus, ExecutionStatus, FirstSuccess

(* What a worker holds is an execution that exists and has a hook.         *)
LEMMA HeldExecution ==
  ASSUME Inv, NEW w \in Worker, pc[w] \in Holding
  PROVE  cur[w] \in Execution /\ cur[w] <= enqueued /\ hookOf[cur[w]] \in Hook
<1>1. cur[w] \in Execution /\ job[cur[w]] \notin {"absent", "pending"}
  BY DEF Inv, JobsHeldOnce
<1>2. enqueued \in Nat
  BY DEF Inv, TypeOK
<1>3. QED
  BY <1>1, <1>2 DEF Inv, RowsCreatedInOrder

-----------------------------------------------------------------------------
(* Each action keeps the invariant.                                        *)

(* Queueing creates fresh rows only: nothing a worker holds changes.       *)
LEMMA EnqueueKeeps ==
  ASSUME Inv, NEW last \in (enqueued + 1)..MaxExecution,
         NEW f \in [(enqueued + 1)..last -> Hook],
         Enqueue(last, f)
  PROVE  Inv'
<1>1. TypeOK'
  <2>1. TypeOK
    BY DEF Inv
  <2>2. enqueued' \in 0..MaxExecution
    BY <2>1, SMTT(30) DEF TypeOK, Enqueue
  <2>3. hookOf' \in [Execution -> Hook \union {None}]
    BY <2>1, SMTT(30) DEF TypeOK, Enqueue
  <2>4. job' \in [Execution -> JobStatus] /\ exec' \in [Execution -> ExecutionStatus]
    <3>1. "pending" \in JobStatus /\ "pending" \in ExecutionStatus
      BY DEF JobStatus, ExecutionStatus
    <3>2. job \in [Execution -> JobStatus] /\ exec \in [Execution -> ExecutionStatus]
      BY <2>1 DEF TypeOK
    <3>3. /\ job' = [e \in Execution |-> IF e \in (enqueued + 1)..last THEN "pending" ELSE job[e]]
          /\ exec' = [e \in Execution |-> IF e \in (enqueued + 1)..last THEN "pending" ELSE exec[e]]
      BY DEF Enqueue
    <3>4. job' \in [Execution -> JobStatus]
      BY <3>1, <3>2, <3>3
    <3>5. exec' \in [Execution -> ExecutionStatus]
      BY <3>1, <3>2, <3>3
    <3> QED
      BY <3>4, <3>5
  <2>5. QED
    BY <2>1, <2>2, <2>3, <2>4 DEF TypeOK, Enqueue, workerVars
<1>2. RowsCreatedInOrder'
  BY DEF Inv, RowsCreatedInOrder, TypeOK, Enqueue, workerVars
<1>3. JobsHeldOnce'
  BY DEF Inv, JobsHeldOnce, TypeOK, RowsCreatedInOrder, Enqueue, workerVars
<1>4. StageMatchesRow'
  BY DEF Inv, StageMatchesRow, TypeOK, RowsCreatedInOrder, JobsHeldOnce,
       Enqueue, workerVars
<1>5. LocksHeld'
  BY SMTT(30) DEF Inv, LocksHeld, TypeOK, RowsCreatedInOrder, JobsHeldOnce,
       Enqueue, workerVars
<1>6. StateOnlyFromSuccess'
  BY DEF Inv, StateOnlyFromSuccess, TypeOK, RowsCreatedInOrder, Enqueue,
       workerVars
<1>7. SnapshotFromSuccess'
  BY SMTT(30) DEF Inv, SnapshotFromSuccess, TypeOK, RowsCreatedInOrder,
       JobsHeldOnce, Enqueue, workerVars
<1>8. QED
  BY <1>1, <1>2, <1>3, <1>4, <1>5, <1>6, <1>7 DEF Inv

(* The enabled flag is read by IngestBatch alone.                          *)
LEMMA EditHookKeeps ==
  ASSUME Inv, NEW h \in Hook, EditHook(h)
  PROVE  Inv'
<1>1. TypeOK'
  <2>1. TypeOK
    BY DEF Inv
  <2>2. QED
    BY <2>1 DEF TypeOK, EditHook, workerVars
<1>2. RowsCreatedInOrder'
  BY DEF Inv, RowsCreatedInOrder, EditHook, workerVars
<1>3. JobsHeldOnce'
  BY DEF Inv, JobsHeldOnce, EditHook, workerVars
<1>4. StageMatchesRow'
  BY DEF Inv, StageMatchesRow, EditHook, workerVars
<1>5. LocksHeld'
  BY DEF Inv, LocksHeld, EditHook, workerVars
<1>6. StateOnlyFromSuccess'
  BY DEF Inv, StateOnlyFromSuccess, EditHook, workerVars
<1>7. SnapshotFromSuccess'
  BY DEF Inv, SnapshotFromSuccess, EditHook, workerVars
<1>8. QED
  BY <1>1, <1>2, <1>3, <1>4, <1>5, <1>6, <1>7 DEF Inv

(* A deletion waits for locked rows and erases executions with state.      *)
LEMMA RemoveHookKeeps ==
  ASSUME Inv, NEW h \in Hook, RemoveHook(h)
  PROVE  Inv'
<1>1. TypeOK'
  <2>1. TypeOK
    BY DEF Inv
  <2>2. QED
    BY <2>1 DEF TypeOK, RemoveHook, workerVars
<1>2. RowsCreatedInOrder'
  BY DEF Inv, RowsCreatedInOrder, RemoveHook, workerVars
<1>3. JobsHeldOnce'
  BY DEF Inv, JobsHeldOnce, RemoveHook, workerVars
<1>4. StageMatchesRow'
  BY DEF Inv, StageMatchesRow, JobsHeldOnce, RemoveHook, workerVars
<1>5. LocksHeld'
  BY DEF Inv, LocksHeld, RemoveHook, workerVars
<1>6. StateOnlyFromSuccess'
  BY DEF Inv, StateOnlyFromSuccess, TypeOK, RemoveHook, workerVars
<1>7. SnapshotFromSuccess'
  BY DEF Inv, SnapshotFromSuccess, TypeOK, JobsHeldOnce, RemoveHook,
       workerVars
<1>8. QED
  BY <1>1, <1>2, <1>3, <1>4, <1>5, <1>6, <1>7 DEF Inv

(* A deletion waits for locked rows and erases executions alone.           *)
LEMMA PurgeTelemetryKeeps ==
  ASSUME Inv, NEW S \in SUBSET Execution, PurgeTelemetry(S)
  PROVE  Inv'
<1>1. TypeOK'
  <2>1. TypeOK
    BY DEF Inv
  <2>2. QED
    BY <2>1 DEF TypeOK, PurgeTelemetry, workerVars
<1>2. RowsCreatedInOrder'
  BY DEF Inv, RowsCreatedInOrder, PurgeTelemetry, workerVars
<1>3. JobsHeldOnce'
  BY DEF Inv, JobsHeldOnce, PurgeTelemetry, workerVars
<1>4. StageMatchesRow'
  BY DEF Inv, StageMatchesRow, JobsHeldOnce, PurgeTelemetry, workerVars
<1>5. LocksHeld'
  BY DEF Inv, LocksHeld, PurgeTelemetry, workerVars
<1>6. StateOnlyFromSuccess'
  BY DEF Inv, StateOnlyFromSuccess, TypeOK, PurgeTelemetry, workerVars
<1>7. SnapshotFromSuccess'
  BY DEF Inv, SnapshotFromSuccess, TypeOK, JobsHeldOnce, PurgeTelemetry,
       workerVars
<1>8. QED
  BY <1>1, <1>2, <1>3, <1>4, <1>5, <1>6, <1>7 DEF Inv

(* A claim takes a pending job, so one that no other worker holds.         *)
LEMMA ClaimJobKeeps ==
  ASSUME Inv, NEW w \in Worker, ClaimJob(w)
  PROVE  Inv'
<1>1. TypeOK'
  <2>1. TypeOK
    BY DEF Inv
  <2>2. PICK e \in Execution : /\ job' = [RecoveredJob EXCEPT ![e] = "running"]
                              /\ cur' = [cur EXCEPT ![w] = e]
    BY DEF ClaimJob
  <2>3. exec' \in [Execution -> ExecutionStatus]
    BY <2>1 DEF TypeOK, ClaimJob, RecoveredExec, ExecutionStatus
  <2>4. age' \in [Execution -> 0..(Lease + 1)]
    BY <2>1, BoundAssumption DEF TypeOK, ClaimJob, RecoveredAge
  <2>5. job' \in [Execution -> JobStatus]
    <3>1. RecoveredJob \in [Execution -> JobStatus]
      BY <2>1 DEF TypeOK, RecoveredJob, JobStatus
    <3> QED
      BY <2>2, <3>1 DEF JobStatus
  <2>6. cur' \in [Worker -> Execution \union {NoExecution}]
    BY <2>1, <2>2 DEF TypeOK
  <2>7. pc' \in [Worker -> Holding \union {"idle", "down"}]
    BY <2>1 DEF TypeOK, ClaimJob, Holding
  <2> QED
    BY <2>1, <2>3, <2>4, <2>5, <2>6, <2>7 DEF TypeOK, ClaimJob
<1>9. PICK e \in Execution : /\ job[e] = "pending" /\ job' = [RecoveredJob EXCEPT ![e] = "running"]
                            /\ cur' = [cur EXCEPT ![w] = e]
  BY DEF ClaimJob, Claimable
<1>10. \A d \in Execution :
         /\ job'[d] = IF d = e THEN "running" ELSE IF LeaseExpired(d) THEN "failed" ELSE job[d]
         /\ exec'[d] = IF LeaseExpired(d) /\ exec[d] = "running" THEN "failed" ELSE exec[d]
  BY <1>9 DEF ClaimJob, RecoveredJob, RecoveredExec
<1>11. /\ pc[w] = "idle" /\ pc'[w] = "claimed" /\ cur'[w] = e
       /\ \A v \in Worker \ {w} : pc'[v] = pc[v] /\ cur'[v] = cur[v]
  BY <1>9 DEF ClaimJob, Inv, TypeOK
<1>2. RowsCreatedInOrder'
  <2>1. RowsCreatedInOrder /\ UNCHANGED <<enqueued, hookOf, started>>
    BY DEF ClaimJob, Inv
  <2> QED
    BY <1>9, <1>10, <2>1 DEF RowsCreatedInOrder, LeaseExpired
<1>12. \A v \in Worker \ {w} : pc[v] \in Holding => cur[v] \in Execution /\ cur[v] # e
  BY <1>9 DEF Inv, JobsHeldOnce
<1>3. JobsHeldOnce'
  <2>1. \A v \in Worker \ {w} :
          /\ pc'[v] \notin Holding => cur'[v] = NoExecution
          /\ pc'[v] \in Holding => cur'[v] \in Execution /\ job'[cur'[v]] \notin {"absent", "pending"}
    BY <1>10, <1>11, <1>12 DEF Inv, JobsHeldOnce
  <2>2. cur'[w] \in Execution /\ job'[cur'[w]] \notin {"absent", "pending"} /\ pc'[w] \in Holding
    BY <1>9, <1>10, <1>11 DEF Holding
  <2>3. \A u, v \in Worker : u # v /\ pc'[u] \in Holding /\ pc'[v] \in Holding => cur'[u] # cur'[v]
    BY <1>11, <1>12 DEF Inv, JobsHeldOnce
  <2> QED
    BY <2>1, <2>2, <2>3 DEF JobsHeldOnce
<1>4. StageMatchesRow'
  <2>1. started' = started /\ outcome' = outcome
    BY DEF ClaimJob
  <2>2. started[e] = 0 /\ exec[e] \in {"pending", "gone"}
    BY <1>9 DEF Inv, RowsCreatedInOrder, TypeOK, Execution
  <2>3. exec'[e] \in {"pending", "gone"}
    BY <1>10, <2>2
  <2>4. ASSUME NEW v \in Worker, pc'[v] \in Holding
        PROVE  /\ pc'[v] \in {"claimed", "waiting", "locked"} =>
                    started'[cur'[v]] = 0 /\ exec'[cur'[v]] \in {"pending", "gone"}
               /\ pc'[v] \in RowLocking => exec'[cur'[v]] = "pending"
               /\ pc'[v] \in {"running", "unlocked"} => exec'[cur'[v]] \in {"running", "failed", "gone"}
               /\ pc'[v] = "unlocked" => outcome'[v] # "error"
    <3>1. CASE v = w
      BY <1>11, <2>1, <2>2, <2>3, <3>1 DEF RowLocking
    <3>2. CASE v # w
      <4>1. pc'[v] = pc[v] /\ cur'[v] = cur[v] /\ cur[v] \in Execution
        BY <1>11, <1>12, <2>4, <3>2
      <4>2. exec'[cur[v]] = exec[cur[v]] \/ (exec[cur[v]] = "running" /\ exec'[cur[v]] = "failed")
        BY <1>10, <4>1
      <4> QED
        BY <2>1, <4>1, <4>2 DEF Inv, StageMatchesRow
    <3> QED
      BY <3>1, <3>2
  <2> QED
    BY <2>4 DEF StageMatchesRow, Holding, RowLocking
<1>5. LocksHeld'
  BY DEF Inv, LocksHeld, ClaimJob, Claimable, RecoveredExec, RecoveredJob,
       RecoveredAge, LeaseExpired
<1>6. StateOnlyFromSuccess'
  BY DEF Inv, StateOnlyFromSuccess, TypeOK, ClaimJob, Claimable,
       RecoveredExec, RecoveredJob, RecoveredAge, LeaseExpired
<1>7. SnapshotFromSuccess'
  <2> SUFFICES ASSUME NEW v \in Worker, pc'[v] \in {"running", "unlocked"},
                      exec'[cur'[v]] # "gone", NEW s \in snap'[v]
               PROVE  hookOf[s] = hookOf[cur'[v]] /\ exec'[s] \in {"success", "gone"}
    BY DEF SnapshotFromSuccess, ClaimJob
  <2>1. v # w /\ pc[v] = pc'[v] /\ cur'[v] = cur[v] /\ snap' = snap
    BY DEF Inv, TypeOK, ClaimJob
  <2>2. cur[v] \in Execution /\ s \in Execution
    BY <2>1, HeldExecution DEF Inv, TypeOK
  <2>3. \A d \in Execution :
          /\ exec[d] = "gone" => exec'[d] = "gone"
          /\ exec[d] = "success" => exec'[d] = "success"
    BY DEF ClaimJob, RecoveredExec
  <2>4. exec[cur[v]] # "gone"
    BY <2>1, <2>2, <2>3
  <2>5. hookOf[s] = hookOf[cur[v]] /\ exec[s] \in {"success", "gone"}
    BY <2>1, <2>4 DEF Inv, SnapshotFromSuccess
  <2>6. QED
    BY <2>1, <2>2, <2>3, <2>5
<1>8. QED
  BY <1>1, <1>2, <1>3, <1>4, <1>5, <1>6, <1>7 DEF Inv

(* Recovery fails running executions, never one waiting for its lock.      *)
LEMMA PollJobsKeeps ==
  ASSUME Inv, NEW w \in Worker, PollJobs(w)
  PROVE  Inv'
<1>1. TypeOK'
  <2>1. TypeOK
    BY DEF Inv
  <2>2. job' \in [Execution -> JobStatus]
    BY <2>1 DEF TypeOK, PollJobs, RecoveredExec, RecoveredJob, RecoveredAge,
         LeaseExpired
  <2>3. exec' \in [Execution -> ExecutionStatus]
    BY <2>1 DEF TypeOK, PollJobs, RecoveredExec, RecoveredJob, RecoveredAge,
         LeaseExpired
  <2>4. age' \in [Execution -> 0..(Lease + 1)]
    BY <2>1 DEF TypeOK, PollJobs, RecoveredExec, RecoveredJob, RecoveredAge,
         LeaseExpired
  <2>5. QED
    BY <2>1, <2>2, <2>3, <2>4 DEF TypeOK, PollJobs, workerVars
<1>2. RowsCreatedInOrder'
  BY DEF Inv, RowsCreatedInOrder, PollJobs, RecoveredExec, RecoveredJob,
       RecoveredAge, LeaseExpired, workerVars
<1>3. JobsHeldOnce'
  BY DEF Inv, JobsHeldOnce, PollJobs, RecoveredExec, RecoveredJob,
       RecoveredAge, LeaseExpired, workerVars
<1>4. StageMatchesRow'
  BY DEF Inv, StageMatchesRow, JobsHeldOnce, PollJobs, RecoveredExec,
       RecoveredJob, RecoveredAge, LeaseExpired, workerVars
<1>5. LocksHeld'
  BY DEF Inv, LocksHeld, PollJobs, RecoveredExec, RecoveredJob, RecoveredAge,
       LeaseExpired, workerVars
<1>6. StateOnlyFromSuccess'
  BY DEF Inv, StateOnlyFromSuccess, TypeOK, PollJobs, RecoveredExec,
       RecoveredJob, RecoveredAge, LeaseExpired, workerVars
<1>7. SnapshotFromSuccess'
  BY DEF Inv, SnapshotFromSuccess, TypeOK, JobsHeldOnce, PollJobs,
       RecoveredExec, RecoveredJob, RecoveredAge, LeaseExpired, workerVars
<1>8. QED
  BY <1>1, <1>2, <1>3, <1>4, <1>5, <1>6, <1>7 DEF Inv

(* An execution just claimed never started: it is pending or deleted.      *)
LEMMA LockExecutionKeeps ==
  ASSUME Inv, NEW w \in Worker, LockExecution(w)
  PROVE  Inv'
<1>1. TypeOK'
  <2>1. TypeOK /\ cur[w] \in Execution /\ hookOf[cur[w]] \in Hook
    BY HeldExecution DEF Inv, LockExecution
  <2>2. QED
    BY <2>1 DEF TypeOK, LockExecution
<1>2. RowsCreatedInOrder'
  BY DEF Inv, RowsCreatedInOrder, JobsHeldOnce, LockExecution
<1>3. JobsHeldOnce'
  BY DEF Inv, JobsHeldOnce, TypeOK, LockExecution
<1>4. StageMatchesRow'
  BY DEF Inv, StageMatchesRow, LockExecution
<1>5. LocksHeld'
  BY DEF Inv, LocksHeld, LockExecution
<1>6. StateOnlyFromSuccess'
  BY DEF Inv, StateOnlyFromSuccess, LockExecution
<1>7. SnapshotFromSuccess'
  BY DEF Inv, SnapshotFromSuccess, LockExecution
<1>8. QED
  BY <1>1, <1>2, <1>3, <1>4, <1>5, <1>6, <1>7 DEF Inv

(* The lock is free, so nobody else relies on it.                          *)
LEMMA AcquireHookLockKeeps ==
  ASSUME Inv, NEW w \in Worker, AcquireHookLock(w)
  PROVE  Inv'
<1>1. TypeOK'
  <2>1. TypeOK /\ cur[w] \in Execution /\ hookOf[cur[w]] \in Hook
    BY HeldExecution DEF Inv, AcquireHookLock
  <2>2. QED
    BY <2>1 DEF TypeOK, AcquireHookLock, dbVars
<1>2. RowsCreatedInOrder'
  BY DEF Inv, RowsCreatedInOrder, AcquireHookLock, dbVars
<1>3. JobsHeldOnce'
  BY DEF Inv, JobsHeldOnce, AcquireHookLock, dbVars
<1>4. StageMatchesRow'
  BY DEF Inv, StageMatchesRow, AcquireHookLock, dbVars
<1>5. LocksHeld'
  BY DEF Inv, LocksHeld, TypeOK, RowsCreatedInOrder, JobsHeldOnce,
       AcquireHookLock, dbVars
<1>6. StateOnlyFromSuccess'
  BY DEF Inv, StateOnlyFromSuccess, AcquireHookLock, dbVars
<1>7. SnapshotFromSuccess'
  BY DEF Inv, SnapshotFromSuccess, AcquireHookLock, dbVars
<1>8. QED
  BY <1>1, <1>2, <1>3, <1>4, <1>5, <1>6, <1>7 DEF Inv

(* The only step that starts a child; this execution has had none.         *)
LEMMA StartHookKeeps ==
  ASSUME Inv, NEW w \in Worker, StartHook(w)
  PROVE  Inv'
<1>1. TypeOK'
  <2>1. TypeOK /\ cur[w] \in Execution /\ hookOf[cur[w]] \in Hook
    BY HeldExecution DEF Inv, StartHook
  <2>2. exec' \in [Execution -> ExecutionStatus]
    BY <2>1, SMTT(30) DEF TypeOK, StartHook
  <2>3. snap' \in [Worker -> SUBSET Execution] /\ started' \in [Execution -> Nat]
    BY <2>1, SMTT(30) DEF TypeOK, StartHook
  <2>4. pc' \in [Worker -> Holding \union {"idle", "down"}]
    BY <2>1, SMTT(30) DEF TypeOK, StartHook
  <2>5. QED
    BY <2>1, <2>2, <2>3, <2>4 DEF TypeOK, StartHook
<1>2. RowsCreatedInOrder'
  BY DEF Inv, RowsCreatedInOrder, JobsHeldOnce, StageMatchesRow, StartHook
<1>3. JobsHeldOnce'
  BY DEF Inv, JobsHeldOnce, StartHook
<1>4. StageMatchesRow'
  BY DEF Inv, StageMatchesRow, TypeOK, JobsHeldOnce, StartHook
<1>5. LocksHeld'
  BY DEF Inv, LocksHeld, StartHook
<1>6. StateOnlyFromSuccess'
  BY DEF Inv, StateOnlyFromSuccess, StageMatchesRow, StartHook
<1>7. SnapshotFromSuccess'
  BY SMTT(30) DEF Inv, SnapshotFromSuccess, TypeOK, RowsCreatedInOrder,
       JobsHeldOnce, StageMatchesRow, StateOnlyFromSuccess, StartHook
<1>8. QED
  BY <1>1, <1>2, <1>3, <1>4, <1>5, <1>6, <1>7 DEF Inv

(* The lock released is the worker's own.                                  *)
LEMMA StartFailsKeeps ==
  ASSUME Inv, NEW w \in Worker, StartFails(w)
  PROVE  Inv'
<1>1. TypeOK'
  <2>1. TypeOK /\ cur[w] \in Execution /\ hookOf[cur[w]] \in Hook
    BY HeldExecution DEF Inv, StartFails
  <2>2. QED
    BY <2>1 DEF TypeOK, StartFails, ReleaseHookLock, dbVars
<1>2. RowsCreatedInOrder'
  BY DEF Inv, RowsCreatedInOrder, StartFails, ReleaseHookLock, dbVars
<1>3. JobsHeldOnce'
  BY DEF Inv, JobsHeldOnce, StartFails, ReleaseHookLock, dbVars
<1>4. StageMatchesRow'
  BY DEF Inv, StageMatchesRow, StartFails, ReleaseHookLock, dbVars
<1>5. LocksHeld'
  BY DEF Inv, LocksHeld, TypeOK, StartFails, ReleaseHookLock, dbVars
<1>6. StateOnlyFromSuccess'
  BY DEF Inv, StateOnlyFromSuccess, StartFails, ReleaseHookLock, dbVars
<1>7. SnapshotFromSuccess'
  BY DEF Inv, SnapshotFromSuccess, StartFails, ReleaseHookLock, dbVars
<1>8. QED
  BY <1>1, <1>2, <1>3, <1>4, <1>5, <1>6, <1>7 DEF Inv

(* The lock released is the worker's own.                                  *)
LEMMA FinishHookKeeps ==
  ASSUME Inv, NEW w \in Worker, NEW o \in Outcome, FinishHook(w, o)
  PROVE  Inv'
<1>1. TypeOK'
  <2>1. TypeOK /\ cur[w] \in Execution /\ hookOf[cur[w]] \in Hook
    BY HeldExecution DEF Inv, FinishHook
  <2>2. hookLock' \in [Hook -> Worker \union {None}]
    BY <2>1 DEF TypeOK, FinishHook, ReleaseHookLock
  <2>3. ran' \in [Worker -> 0..HookTimeout] /\ outcome' \in [Worker -> Outcome \union {FirstSuccess}]
    BY <2>1 DEF TypeOK, FinishHook, ReleaseHookLock
  <2>4. pc' \in [Worker -> Holding \union {"idle", "down"}]
    BY <2>1 DEF TypeOK, FinishHook, ReleaseHookLock
  <2>5. QED
    BY <2>1, <2>2, <2>3, <2>4 DEF TypeOK, FinishHook, dbVars
<1>2. RowsCreatedInOrder'
  BY DEF Inv, RowsCreatedInOrder, FinishHook, ReleaseHookLock, dbVars
<1>3. JobsHeldOnce'
  BY DEF Inv, JobsHeldOnce, FinishHook, ReleaseHookLock, dbVars
<1>4. StageMatchesRow'
  BY DEF Inv, StageMatchesRow, TypeOK, FinishHook, ReleaseHookLock, dbVars
<1>5. LocksHeld'
  BY DEF Inv, LocksHeld, TypeOK, FinishHook, ReleaseHookLock, dbVars
<1>6. StateOnlyFromSuccess'
  BY DEF Inv, StateOnlyFromSuccess, FinishHook, ReleaseHookLock, dbVars
<1>7. SnapshotFromSuccess'
  BY DEF Inv, SnapshotFromSuccess, FinishHook, ReleaseHookLock, dbVars
<1>8. QED
  BY <1>1, <1>2, <1>3, <1>4, <1>5, <1>6, <1>7 DEF Inv

(* The effect stored is the run's own, on top of the state it read.        *)
LEMMA CommitResultKeeps ==
  ASSUME Inv, NEW w \in Worker, CommitResult(w)
  PROVE  Inv'
<1> DEFINE e == cur[w]
           g == hookOf[e]
<1>a. /\ e \in Execution /\ g \in Hook /\ e <= enqueued
      /\ exec[e] \in {"running", "failed"}
      /\ job[e] \notin {"absent", "pending"}
      /\ \A s \in snap[w] : hookOf[s] = g /\ exec[s] \in {"success", "gone"}
  BY HeldExecution DEF Inv, JobsHeldOnce, StageMatchesRow, SnapshotFromSuccess,
                     CommitResult, CommitConflict
<1>b. /\ exec' = [exec EXCEPT ![e] = StatusOf(outcome[w])]
      /\ job' = [job EXCEPT ![e] = "completed"]
      /\ hookState' = [hookState EXCEPT ![g] = NextState(w)]
      /\ UNCHANGED <<enqueued, hookOf, hookLock, started>>
  BY DEF CommitResult
<1>c. StatusOf(outcome[w]) \in Final
  BY DEF Inv, TypeOK, StageMatchesRow, CommitResult, StatusOf
<1>1. TypeOK'
  <2>1. TypeOK /\ cur[w] \in Execution /\ hookOf[cur[w]] \in Hook
    BY HeldExecution DEF Inv, CommitResult
  <2>2. exec' \in [Execution -> ExecutionStatus]
    BY <2>1, <1>c DEF TypeOK, CommitResult
  <2>3. hookState' \in [Hook -> SUBSET Execution]
    BY <2>1 DEF TypeOK, CommitResult, NextState, Forget
  <2>4. job' \in [Execution -> JobStatus] /\ age' \in [Execution -> 0..(Lease + 1)]
    BY <2>1 DEF TypeOK, CommitResult, NextState, Forget
  <2>5. /\ pc' \in [Worker -> Holding \union {"idle", "down"}]
        /\ cur' \in [Worker -> Execution \union {NoExecution}]
        /\ snap' \in [Worker -> SUBSET Execution]
        /\ outcome' \in [Worker -> Outcome \union {FirstSuccess}]
        /\ ran' \in [Worker -> 0..HookTimeout]
    BY <2>1 DEF TypeOK, CommitResult, NextState, Forget
  <2>6. QED
    BY <2>1, <2>2, <2>3, <2>4, <2>5 DEF TypeOK, CommitResult
<1>2. RowsCreatedInOrder'
  <2> SUFFICES ASSUME NEW d \in Execution
               PROVE  /\ job'[d] = "absent" <=> d > enqueued
                      /\ exec'[d] = "absent" <=> d > enqueued
                      /\ job'[d] \in {"absent", "pending"} =>
                          started[d] = 0 /\ exec'[d] \in {"absent", "pending", "gone"}
    BY <1>b DEF Inv, RowsCreatedInOrder
  <2>1. CASE d = e
    BY <1>a, <1>b, <1>c, <2>1 DEF Inv, TypeOK
  <2>2. CASE d # e
    BY <1>a, <1>b, <2>2 DEF Inv, TypeOK, RowsCreatedInOrder
  <2>3. QED
    BY <2>1, <2>2
<1>3. JobsHeldOnce'
  BY DEF Inv, JobsHeldOnce, TypeOK, CommitResult, Forget
<1>4. StageMatchesRow'
  BY SMTT(30) DEF Inv, StageMatchesRow, TypeOK, JobsHeldOnce, CommitResult,
       Forget
<1>5. LocksHeld'
  BY DEF Inv, LocksHeld, CommitResult, Forget
<1>6. StateOnlyFromSuccess'
  <2> SUFFICES ASSUME NEW h \in Hook, NEW s \in hookState'[h]
               PROVE  hookOf[s] = h /\ exec'[s] \in {"success", "gone"}
    BY <1>b DEF StateOnlyFromSuccess
  <2>1. s \in hookState[h] => s # e /\ hookOf[s] = h /\ exec'[s] \in {"success", "gone"}
    BY <1>a, <1>b DEF Inv, TypeOK, StateOnlyFromSuccess
  <2>2. CASE h = g /\ StatusOf(outcome[w]) = "success"
    <3>1. s \in snap[w] \union {e}
      BY <1>a, <1>b, <2>2 DEF Inv, TypeOK, NextState
    <3>2. QED
      BY <1>a, <1>b, <2>2, <3>1 DEF Inv, TypeOK
  <2>3. CASE h # g \/ StatusOf(outcome[w]) # "success"
    BY <1>a, <1>b, <2>1, <2>3 DEF Inv, TypeOK, NextState
  <2>4. QED
    BY <2>2, <2>3
<1>7. SnapshotFromSuccess'
  <2> SUFFICES ASSUME NEW v \in Worker, pc'[v] \in {"running", "unlocked"},
                      exec'[cur'[v]] # "gone", NEW s \in snap'[v]
               PROVE  hookOf[s] = hookOf[cur'[v]] /\ exec'[s] \in {"success", "gone"}
    BY <1>b DEF SnapshotFromSuccess
  <2>1. v # w /\ pc[v] \in {"running", "unlocked"} /\ cur'[v] = cur[v] /\ snap'[v] = snap[v]
    BY DEF Inv, TypeOK, CommitResult, Forget
  <2>2. cur[v] # e /\ cur[v] \in Execution
    BY <2>1 DEF Inv, JobsHeldOnce, CommitResult
  <2>3. exec[cur[v]] # "gone"
    BY <1>b, <2>1, <2>2 DEF Inv, TypeOK
  <2>4. hookOf[s] = hookOf[cur[v]] /\ exec[s] \in {"success", "gone"} /\ s \in Execution
    BY <2>1, <2>3 DEF Inv, TypeOK, SnapshotFromSuccess
  <2>5. QED
    BY <1>a, <1>b, <2>1, <2>4 DEF Inv, TypeOK
<1>8. QED
  BY <1>1, <1>2, <1>3, <1>4, <1>5, <1>6, <1>7 DEF Inv

(* Nothing is written.                                                     *)
LEMMA CommitFailsKeeps ==
  ASSUME Inv, NEW w \in Worker, CommitFails(w)
  PROVE  Inv'
<1>1. TypeOK'
  <2>1. TypeOK /\ cur[w] \in Execution /\ hookOf[cur[w]] \in Hook
    BY HeldExecution DEF Inv, CommitFails
  <2>2. QED
    BY <2>1 DEF TypeOK, CommitFails, dbVars
<1>2. RowsCreatedInOrder'
  BY DEF Inv, RowsCreatedInOrder, CommitFails, dbVars
<1>3. JobsHeldOnce'
  BY DEF Inv, JobsHeldOnce, CommitFails, dbVars
<1>4. StageMatchesRow'
  BY DEF Inv, StageMatchesRow, CommitFails, dbVars
<1>5. LocksHeld'
  BY DEF Inv, LocksHeld, CommitFails, dbVars
<1>6. StateOnlyFromSuccess'
  BY DEF Inv, StateOnlyFromSuccess, CommitFails, dbVars
<1>7. SnapshotFromSuccess'
  BY DEF Inv, SnapshotFromSuccess, CommitFails, dbVars
<1>8. QED
  BY <1>1, <1>2, <1>3, <1>4, <1>5, <1>6, <1>7 DEF Inv

(* An execution that has failed owns no effect.                            *)
LEMMA FailJobKeeps ==
  ASSUME Inv, NEW w \in Worker, FailJob(w)
  PROVE  Inv'
<1>1. TypeOK'
  <2> DEFINE e == cur[w]
             x == IF exec[e] \in {"pending", "running"} THEN "failed" ELSE exec[e]
  <2>1. TypeOK /\ e \in Execution
    BY HeldExecution DEF Inv, FailJob
  <2>2. x \in ExecutionStatus
    BY <2>1 DEF TypeOK
  <2>3. exec' = [exec EXCEPT ![e] = x]
    BY DEF FailJob
  <2>4. exec' \in [Execution -> ExecutionStatus]
    BY <2>1, <2>2, <2>3 DEF TypeOK
  <2> HIDE DEF x
  <2>5. job' \in [Execution -> JobStatus] /\ age' \in [Execution -> 0..(Lease + 1)]
    BY <2>1 DEF TypeOK, FailJob
  <2>6. /\ pc' \in [Worker -> Holding \union {"idle", "down"}]
        /\ cur' \in [Worker -> Execution \union {NoExecution}]
        /\ snap' \in [Worker -> SUBSET Execution]
        /\ outcome' \in [Worker -> Outcome \union {FirstSuccess}]
        /\ ran' \in [Worker -> 0..HookTimeout]
    BY <2>1 DEF TypeOK, FailJob, Forget
  <2>7. QED
    BY <2>1, <2>4, <2>5, <2>6 DEF TypeOK, FailJob
<1>2. RowsCreatedInOrder'
  BY DEF Inv, RowsCreatedInOrder, JobsHeldOnce, FailJob, Forget
<1>3. JobsHeldOnce'
  BY DEF Inv, JobsHeldOnce, TypeOK, FailJob, Forget
<1>4. StageMatchesRow'
  BY DEF Inv, StageMatchesRow, JobsHeldOnce, FailJob, Forget
<1>5. LocksHeld'
  BY DEF Inv, LocksHeld, FailJob, Forget
<1>6. StateOnlyFromSuccess'
  BY DEF Inv, StateOnlyFromSuccess, FailJob, Forget
<1>7. SnapshotFromSuccess'
  BY DEF Inv, SnapshotFromSuccess, FailJob, Forget
<1>8. QED
  BY <1>1, <1>2, <1>3, <1>4, <1>5, <1>6, <1>7 DEF Inv

(* The locks of a dead connection go with it.                              *)
LEMMA CrashKeeps ==
  ASSUME Inv, NEW w \in Worker, Crash(w)
  PROVE  Inv'
<1>1. TypeOK'
  <2>1. TypeOK /\ cur[w] \in Execution /\ hookOf[cur[w]] \in Hook
    BY HeldExecution DEF Inv, Crash
  <2>2. hookLock' \in [Hook -> Worker \union {None}]
    BY <2>1 DEF TypeOK, Crash, Forget
  <2>3. /\ pc' \in [Worker -> Holding \union {"idle", "down"}]
        /\ cur' \in [Worker -> Execution \union {NoExecution}]
        /\ snap' \in [Worker -> SUBSET Execution]
        /\ outcome' \in [Worker -> Outcome \union {FirstSuccess}]
        /\ ran' \in [Worker -> 0..HookTimeout]
    BY <2>1 DEF TypeOK, Crash, Forget
  <2>4. crashes' \in 0..MaxCrash
    BY <2>1 DEF TypeOK, Crash, Forget
  <2>5. QED
    BY <2>1, <2>2, <2>3, <2>4 DEF TypeOK, Crash, dbVars
<1>2. RowsCreatedInOrder'
  BY DEF Inv, RowsCreatedInOrder, Crash, Forget, dbVars
<1>3. JobsHeldOnce'
  BY DEF Inv, JobsHeldOnce, TypeOK, Crash, Forget, dbVars
<1>4. StageMatchesRow'
  BY DEF Inv, StageMatchesRow, TypeOK, Crash, Forget, dbVars
<1>5. LocksHeld'
  BY DEF Inv, LocksHeld, TypeOK, RowsCreatedInOrder, JobsHeldOnce, Crash,
       Forget, dbVars
<1>6. StateOnlyFromSuccess'
  BY DEF Inv, StateOnlyFromSuccess, Crash, Forget, dbVars
<1>7. SnapshotFromSuccess'
  BY DEF Inv, SnapshotFromSuccess, TypeOK, Crash, Forget, dbVars
<1>8. QED
  BY <1>1, <1>2, <1>3, <1>4, <1>5, <1>6, <1>7 DEF Inv

(* A new process holds nothing.                                            *)
LEMMA RestartKeeps ==
  ASSUME Inv, NEW w \in Worker, Restart(w)
  PROVE  Inv'
<1>1. TypeOK'
  <2>1. TypeOK
    BY DEF Inv
  <2>2. QED
    BY <2>1 DEF TypeOK, Restart, dbVars
<1>2. RowsCreatedInOrder'
  BY DEF Inv, RowsCreatedInOrder, Restart, dbVars
<1>3. JobsHeldOnce'
  BY DEF Inv, JobsHeldOnce, Restart, dbVars
<1>4. StageMatchesRow'
  BY DEF Inv, StageMatchesRow, Restart, dbVars
<1>5. LocksHeld'
  BY DEF Inv, LocksHeld, Restart, dbVars
<1>6. StateOnlyFromSuccess'
  BY DEF Inv, StateOnlyFromSuccess, Restart, dbVars
<1>7. SnapshotFromSuccess'
  BY DEF Inv, SnapshotFromSuccess, Restart, dbVars
<1>8. QED
  BY <1>1, <1>2, <1>3, <1>4, <1>5, <1>6, <1>7 DEF Inv

(* Time only ages leases and children.                                     *)
LEMMA TickKeeps ==
  ASSUME Inv, Tick
  PROVE  Inv'
<1>1. TypeOK'
  <2>1. TypeOK
    BY DEF Inv
  <2>2. age' \in [Execution -> 0..(Lease + 1)]
    BY <2>1 DEF TypeOK, Tick
  <2>3. ran' \in [Worker -> 0..HookTimeout]
    BY <2>1 DEF TypeOK, Tick
  <2>4. QED
    BY <2>1, <2>2, <2>3 DEF TypeOK, Tick
<1>2. RowsCreatedInOrder'
  BY DEF Inv, RowsCreatedInOrder, Tick
<1>3. JobsHeldOnce'
  BY DEF Inv, JobsHeldOnce, Tick
<1>4. StageMatchesRow'
  BY DEF Inv, StageMatchesRow, Tick
<1>5. LocksHeld'
  BY DEF Inv, LocksHeld, Tick
<1>6. StateOnlyFromSuccess'
  BY DEF Inv, StateOnlyFromSuccess, Tick
<1>7. SnapshotFromSuccess'
  BY DEF Inv, SnapshotFromSuccess, Tick
<1>8. QED
  BY <1>1, <1>2, <1>3, <1>4, <1>5, <1>6, <1>7 DEF Inv

(* All three ways to queue are an Enqueue of existing hooks.               *)
LEMMA QueueingKeeps ==
  ASSUME Inv,
         \/ IngestBatch
         \/ \E h \in Hook : TestHook(h)
         \/ \E e \in Execution : RetryExecution(e)
  PROVE  Inv'
<1> DEFINE next == enqueued + 1
<1>1. enqueued \in Nat /\ enqueued <= MaxExecution
  BY DEF Inv, TypeOK
<1>2. CASE IngestBatch
  <2>1. PICK last \in next..MaxExecution :
          \E f \in [next..last -> {h \in Hook : hook[h] = "enabled"}] : Enqueue(last, f)
    BY <1>2 DEF IngestBatch
  <2>2. PICK f \in [next..last -> {h \in Hook : hook[h] = "enabled"}] : Enqueue(last, f)
    BY <2>1
  <2>3. f \in [next..last -> Hook]
    BY <2>2
  <2>4. QED
    BY <2>2, <2>3, EnqueueKeeps
<1>3. ASSUME NEW g \in Hook, next <= MaxExecution,
             Enqueue(next, [d \in {next} |-> g])
      PROVE  Inv'
  <2>1. next \in next..MaxExecution /\ next..next = {next}
    BY <1>1, <1>3
  <2>2. [d \in {next} |-> g] \in [next..next -> Hook]
    BY <2>1
  <2>3. QED
    BY <1>3, <2>1, <2>2, EnqueueKeeps
<1>4. CASE \E h \in Hook : TestHook(h)
  <2>1. PICK h \in Hook : TestHook(h)
    BY <1>4
  <2>2. next <= MaxExecution /\ Enqueue(next, [d \in {next} |-> h])
    BY <1>1, <2>1 DEF TestHook
  <2>3. QED
    BY <1>3, <2>2
<1>5. CASE \E e \in Execution : RetryExecution(e)
  <2>1. PICK e \in Execution : RetryExecution(e)
    BY <1>5
  <2>2. hookOf[e] \in Hook
    BY <1>1, <2>1 DEF Inv, RowsCreatedInOrder, RetryExecution
  <2>3. next <= MaxExecution
    BY <1>1, <2>1 DEF RetryExecution
  <2>4. QED
    BY <1>3, <2>1, <2>2, <2>3 DEF RetryExecution
<1>6. QED
  BY <1>2, <1>4, <1>5

-----------------------------------------------------------------------------
(* The invariant holds in every reachable state.                           *)

LEMMA InvInit == Init => Inv
<1> SUFFICES ASSUME Init PROVE Inv
  OBVIOUS
<1>1. TypeOK
  BY DEF Init, TypeOK
<1>2. RowsCreatedInOrder
  BY DEF Init, RowsCreatedInOrder
<1>3. JobsHeldOnce /\ StageMatchesRow /\ LocksHeld
  BY DEF Init, JobsHeldOnce, StageMatchesRow, LocksHeld
<1>4. StateOnlyFromSuccess /\ SnapshotFromSuccess
  BY DEF Init, StateOnlyFromSuccess, SnapshotFromSuccess
<1>5. QED
  BY <1>1, <1>2, <1>3, <1>4 DEF Inv

LEMMA WorkKeeps ==
  ASSUME Inv, NEW w \in Worker, Work(w)
  PROVE  Inv'
<1>1. CASE ClaimJob(w)
  BY <1>1, ClaimJobKeeps
<1>2. CASE PollJobs(w)
  BY <1>2, PollJobsKeeps
<1>3. CASE LockExecution(w)
  BY <1>3, LockExecutionKeeps
<1>4. CASE AcquireHookLock(w)
  BY <1>4, AcquireHookLockKeeps
<1>5. CASE StartHook(w)
  BY <1>5, StartHookKeeps
<1>6. CASE StartFails(w)
  BY <1>6, StartFailsKeeps
<1>7. CASE \E o \in Outcome : FinishHook(w, o)
  BY <1>7, FinishHookKeeps
<1>8. CASE CommitResult(w)
  BY <1>8, CommitResultKeeps
<1>9. CASE CommitFails(w)
  BY <1>9, CommitFailsKeeps
<1>10. CASE FailJob(w)
  BY <1>10, FailJobKeeps
<1>11. QED
  BY <1>1, <1>2, <1>3, <1>4, <1>5, <1>6, <1>7, <1>8, <1>9, <1>10 DEF Work

LEMMA StutterKeeps == Inv /\ UNCHANGED vars => Inv'
<1> SUFFICES ASSUME Inv, UNCHANGED vars PROVE Inv'
  OBVIOUS
<1>1. TypeOK' /\ RowsCreatedInOrder'
  BY DEF Inv, TypeOK, RowsCreatedInOrder, vars
<1>2. JobsHeldOnce' /\ StageMatchesRow' /\ LocksHeld'
  BY DEF Inv, JobsHeldOnce, StageMatchesRow, LocksHeld, vars
<1>3. StateOnlyFromSuccess' /\ SnapshotFromSuccess'
  BY DEF Inv, StateOnlyFromSuccess, SnapshotFromSuccess, vars
<1>4. QED
  BY <1>1, <1>2, <1>3 DEF Inv

LEMMA InvStep == Inv /\ [Next]_vars => Inv'
<1> SUFFICES ASSUME Inv, [Next]_vars PROVE Inv'
  OBVIOUS
<1>1. CASE Administer
  BY <1>1, QueueingKeeps, EditHookKeeps, RemoveHookKeeps, PurgeTelemetryKeeps
     DEF Administer
<1>2. CASE \E w \in Worker : Work(w) \/ Crash(w) \/ Restart(w)
  BY <1>2, WorkKeeps, CrashKeeps, RestartKeeps
<1>3. CASE Tick
  BY <1>3, TickKeeps
<1>4. CASE UNCHANGED vars
  BY <1>4, StutterKeeps
<1>5. QED
  BY <1>1, <1>2, <1>3, <1>4 DEF Next

(* The inductive invariant holds of every reachable state.                 *)
THEOREM InvHolds == Spec => []Inv
<1>1. QED
  BY InvInit, InvStep, PTL DEF Spec

(* Every variable keeps its type: no execution number, worker or status    *)
(* outside its range, and no child outlives its timeout.                   *)
THEOREM TypeCorrect == Spec => []TypeOK
<1>1. Inv => TypeOK
  BY DEF Inv
<1>2. QED
  BY <1>1, InvHolds, PTL

(* Two children of one hook never overlap, because each holds the hook's   *)
(* advisory lock from before its start until after its end.                *)
THEOREM RunsSerialized == Spec => []HookRunsSerialized
<1>1. Inv => HookRunsSerialized
  <2> SUFFICES ASSUME Inv,
                      NEW v \in Worker, NEW w \in Worker, v # w,
                      pc[v] = "running", pc[w] = "running"
               PROVE  hookOf[cur[v]] # hookOf[cur[w]]
    BY DEF HookRunsSerialized
  <2>1. hookLock[hookOf[cur[v]]] = v /\ hookLock[hookOf[cur[w]]] = w
    BY DEF Inv, LocksHeld
  <2>2. QED
    BY <2>1
<1>2. QED
  BY <1>1, InvHolds, PTL

(* No execution is ever started twice, whatever crashes or expires.        *)
THEOREM NeverRetried == Spec => []NoAutomaticRetry
<1>1. Inv => NoAutomaticRetry
  BY DEF Inv, RowsCreatedInOrder, NoAutomaticRetry
<1>2. QED
  BY <1>1, InvHolds, PTL

(* The durable state of a hook holds effects of its own successes only.    *)
THEOREM StateFromSuccess == Spec => []StateOnlyFromSuccess
<1>1. Inv => StateOnlyFromSuccess
  BY DEF Inv
<1>2. QED
  BY <1>1, InvHolds, PTL

-----------------------------------------------------------------------------
(* A result, once given, is kept.                                          *)

LEMMA WorkKeepsResults ==
  ASSUME Inv, NEW w \in Worker, Work(w), NEW e \in Execution
  PROVE  ResultKept(e)
<1> USE DEF ResultKept, Resolved
<1>1. CASE ClaimJob(w) \/ PollJobs(w)
  BY <1>1 DEF ClaimJob, PollJobs, RecoveredExec
<1>2. CASE StartHook(w)
  <2>1. cur[w] \in Execution /\ exec[cur[w]] = "pending"
    BY <1>2, HeldExecution DEF Inv, StageMatchesRow, StartHook
  <2>2. QED
    BY <1>2, <2>1 DEF Inv, TypeOK, StartHook
<1>3. CASE CommitResult(w)
  <2>1. cur[w] \in Execution /\ StatusOf(outcome[w]) \in Final
    BY <1>3, HeldExecution DEF Inv, TypeOK, StageMatchesRow, CommitResult, StatusOf
  <2>2. QED
    BY <1>3, <2>1 DEF Inv, TypeOK, CommitResult
<1>4. CASE FailJob(w)
  BY <1>4 DEF Inv, TypeOK, FailJob
<1>5. CASE LockExecution(w) \/ AcquireHookLock(w)
  BY <1>5 DEF LockExecution, AcquireHookLock, dbVars
<1>6. CASE StartFails(w) \/ (\E o \in Outcome : FinishHook(w, o)) \/ CommitFails(w)
  BY <1>6 DEF StartFails, FinishHook, CommitFails, dbVars
<1>7. QED
  BY <1>1, <1>2, <1>3, <1>4, <1>5, <1>6 DEF Work

LEMMA EnqueueKeepsResults ==
  ASSUME Inv, NEW last, NEW f, Enqueue(last, f), NEW e \in Execution
  PROVE  ResultKept(e)
  BY DEF Inv, TypeOK, RowsCreatedInOrder, Enqueue, ResultKept, Resolved

LEMMA AdministerKeepsResults ==
  ASSUME Inv, Administer, NEW e \in Execution
  PROVE  ResultKept(e)
<1>1. CASE IngestBatch
  BY <1>1, EnqueueKeepsResults DEF IngestBatch
<1>2. CASE \E h \in Hook : TestHook(h)
  BY <1>2, EnqueueKeepsResults DEF TestHook
<1>3. CASE \E h \in Hook : EditHook(h) \/ RemoveHook(h)
  BY <1>3 DEF EditHook, RemoveHook, ResultKept, Resolved
<1>4. CASE \E d \in Execution : RetryExecution(d)
  BY <1>4, EnqueueKeepsResults DEF RetryExecution
<1>5. CASE \E S \in SUBSET Execution : PurgeTelemetry(S)
  BY <1>5 DEF PurgeTelemetry, ResultKept, Resolved
<1>6. QED
  BY <1>1, <1>2, <1>3, <1>4, <1>5 DEF Administer

(* No step reopens a finished execution: neither lease recovery, nor the   *)
(* late commit of a worker whose job was already failed, nor a retry.      *)
THEOREM ResultIsFinal == Spec => ResolvedStaysResolved
<1>1. ASSUME Inv, [Next]_vars
      PROVE  [\A e \in Execution : ResultKept(e)]_vars
  <2> SUFFICES ASSUME Next, NEW e \in Execution PROVE ResultKept(e)
    BY <1>1
  <2>1. CASE Administer
    BY <1>1, <2>1, AdministerKeepsResults
  <2>2. CASE \E w \in Worker : Work(w)
    BY <1>1, <2>2, WorkKeepsResults
  <2>3. CASE (\E w \in Worker : Crash(w) \/ Restart(w)) \/ Tick
    BY <2>3 DEF Crash, Restart, Tick, dbVars, ResultKept, Resolved
  <2>4. QED
    BY <2>1, <2>2, <2>3 DEF Next
<1>2. QED
  BY <1>1, InvHolds, PTL DEF Spec, ResolvedStaysResolved

-----------------------------------------------------------------------------
(* One worker implements the ledger.  While its child runs nobody else     *)
(* writes the hook's state, or fails the execution by expiring its lease.  *)
SoloInv ==
  \A w \in Worker :
    pc[w] \in {"running", "unlocked"} =>
      /\ exec[cur[w]] \in {"running", "gone"}
      /\ exec[cur[w]] = "running" => snap[w] = hookState[hookOf[cur[w]]]

(* Nothing is written that the ledger shows, or that the worker relies on. *)
LEMMA SoloQuiet ==
  ASSUME SoloInv, UNCHANGED <<exec, hookOf, hookState>>,
         \A v \in Worker : pc'[v] \in {"running", "unlocked"} =>
           pc[v] \in {"running", "unlocked"} /\ cur'[v] = cur[v] /\ snap'[v] = snap[v]
  PROVE  SoloInv'
  BY DEF SoloInv

LEMMA SoloWork ==
  ASSUME Inv, SoloInv, NEW w, Worker = {w}, Work(w)
  PROVE  SoloInv'
<1>0. w \in Worker /\ \A v \in Worker : v = w
  OBVIOUS
<1>1. CASE ClaimJob(w) \/ PollJobs(w) \/ LockExecution(w) \/ AcquireHookLock(w)
           \/ StartFails(w) \/ CommitResult(w) \/ CommitFails(w) \/ FailJob(w)
  <2>1. pc'[w] \notin {"running", "unlocked"}
    BY <1>0, <1>1 DEF Inv, TypeOK, ClaimJob, PollJobs, LockExecution, AcquireHookLock,
         StartFails, CommitResult, CommitFails, FailJob, workerVars
  <2> QED
    BY <1>0, <2>1 DEF SoloInv
<1>2. CASE StartHook(w)
  <2>1. cur[w] \in Execution /\ cur' = cur /\ hookOf' = hookOf /\ hookState' = hookState
    BY <1>0, <1>2, HeldExecution DEF StartHook
  <2>2. exec'[cur[w]] = "running" /\ snap'[w] = hookState[hookOf[cur[w]]]
    BY <1>0, <1>2, <2>1 DEF StartHook, Inv, TypeOK
  <2> QED
    BY <1>0, <2>1, <2>2 DEF SoloInv
<1>3. ASSUME NEW o \in Outcome, FinishHook(w, o) PROVE SoloInv'
  <2>1. UNCHANGED <<exec, hookOf, hookState, cur, snap>> /\ pc[w] = "running"
    BY <1>3 DEF FinishHook, dbVars
  <2> QED
    BY <1>0, <2>1, SoloQuiet
<1> QED
  BY <1>1, <1>2, <1>3 DEF Work

LEMMA SoloEnqueue ==
  ASSUME Inv, SoloInv, NEW last, NEW f, Enqueue(last, f)
  PROVE  SoloInv'
<1>1. ASSUME NEW w \in Worker, pc[w] \in {"running", "unlocked"}
      PROVE  exec'[cur[w]] = exec[cur[w]] /\ hookOf'[cur[w]] = hookOf[cur[w]]
  <2>1. cur[w] \in Execution /\ cur[w] <= enqueued
    BY <1>1, HeldExecution
  <2>2. enqueued \in Nat
    BY DEF Inv, TypeOK
  <2> QED
    BY <2>1, <2>2 DEF Enqueue
<1>2. UNCHANGED <<pc, cur, snap, hookState>>
  BY DEF Enqueue, workerVars
<1> QED
  BY <1>1, <1>2 DEF SoloInv

LEMMA SoloAdminister ==
  ASSUME Inv, SoloInv, Administer
  PROVE  SoloInv'
<1>1. CASE IngestBatch \/ (\E h \in Hook : TestHook(h)) \/ \E e \in Execution : RetryExecution(e)
  BY <1>1, SoloEnqueue DEF IngestBatch, TestHook, RetryExecution
<1>2. CASE \E h \in Hook : EditHook(h)
  BY <1>2, SoloQuiet DEF EditHook, workerVars
<1>3. ASSUME NEW h \in Hook, RemoveHook(h) PROVE SoloInv'
  <2>1. ASSUME NEW w \in Worker, pc[w] \in {"running", "unlocked"}
        PROVE  /\ exec'[cur[w]] \in {"running", "gone"}
               /\ exec'[cur[w]] = "running" => snap[w] = hookState'[hookOf[cur[w]]]
    <3>1. cur[w] \in Execution /\ hookOf[cur[w]] \in Hook
      BY <2>1, HeldExecution
    <3>2. CASE hookOf[cur[w]] = h
      BY <1>3, <3>1, <3>2 DEF RemoveHook
    <3>3. CASE hookOf[cur[w]] # h
      BY <1>3, <2>1, <3>1, <3>3 DEF RemoveHook, SoloInv, Inv, TypeOK
    <3> QED
      BY <3>2, <3>3
  <2> QED
    BY <1>3, <2>1 DEF SoloInv, RemoveHook, workerVars
<1>4. ASSUME NEW S \in SUBSET Execution, PurgeTelemetry(S) PROVE SoloInv'
  <2>1. ASSUME NEW w \in Worker, pc[w] \in {"running", "unlocked"}
        PROVE  exec'[cur[w]] = exec[cur[w]] \/ exec'[cur[w]] = "gone"
    BY <1>4, <2>1, HeldExecution DEF PurgeTelemetry
  <2> QED
    BY <1>4, <2>1 DEF SoloInv, PurgeTelemetry, workerVars
<1> QED
  BY <1>1, <1>2, <1>3, <1>4 DEF Administer

LEMMA SoloStep ==
  ASSUME Inv, SoloInv, NEW w, Worker = {w}, [Next]_vars
  PROVE  SoloInv'
<1>0. w \in Worker /\ \A v \in Worker : v = w
  OBVIOUS
<1>1. CASE Crash(w) \/ Restart(w)
  <2>1. pc'[w] \notin {"running", "unlocked"}
    BY <1>0, <1>1 DEF Inv, TypeOK, Crash, Restart
  <2> QED
    BY <1>0, <2>1 DEF SoloInv
<1>2. CASE Tick \/ UNCHANGED vars
  BY <1>2, SoloQuiet DEF Tick, vars
<1> QED
  BY <1>0, <1>1, <1>2, SoloWork, SoloAdminister DEF Next

(* The steps of the queue, as the ledger sees them.                        *)

LEMMA LedgerSame ==
  ASSUME UNCHANGED <<exec, hookOf, hookState>>
  PROVE  UNCHANGED Ledger!vars
  BY DEF LedgerResult, Ledger!vars

LEMMA LedgerEnqueue ==
  ASSUME Inv, NEW last \in (enqueued + 1)..MaxExecution,
         NEW f \in [(enqueued + 1)..last -> Hook], Enqueue(last, f)
  PROVE  Ledger!Next
<1> DEFINE new == (enqueued + 1)..last
<1>0. enqueued \in Nat /\ last \in Int
  BY DEF Inv, TypeOK
<1>1. enqueued \in Nat /\ new # {} /\ new \in SUBSET Execution
  <2>1. last \in new
    BY <1>0
  <2>2. new \in SUBSET Execution
    BY <1>0
  <2> QED
    BY <1>0, <2>1, <2>2
<1>2. \A e \in new : exec[e] = "absent" /\ LedgerResult[e] = "absent"
  BY <1>1 DEF Inv, RowsCreatedInOrder, LedgerResult
<1>3. LedgerResult' = [e \in Execution |-> IF e \in new THEN "open" ELSE LedgerResult[e]]
  BY DEF LedgerResult, Enqueue
<1>4. /\ hookOf' = [e \in Execution |-> IF e \in new THEN f[e] ELSE hookOf[e]]
      /\ UNCHANGED hookState
  BY DEF Enqueue
<1>5. f \in [new -> Hook]
  OBVIOUS
<1> HIDE DEF new
<1>6. Ledger!Open(new)
  BY <1>1, <1>2, <1>3, <1>4, <1>5 DEF Ledger!Open
<1> QED
  BY <1>1, <1>6 DEF Ledger!Next

LEMMA LedgerAdminister ==
  ASSUME Inv, Administer
  PROVE  Ledger!Next \/ UNCHANGED Ledger!vars
<1> DEFINE next == enqueued + 1
<1>1. enqueued \in Nat /\ enqueued <= MaxExecution
  BY DEF Inv, TypeOK
<1>2. ASSUME NEW g \in Hook, next <= MaxExecution, Enqueue(next, [d \in {next} |-> g])
      PROVE  Ledger!Next
  <2>1. next \in next..MaxExecution /\ next..next = {next}
    BY <1>1, <1>2
  <2>2. [d \in {next} |-> g] \in [next..next -> Hook]
    BY <2>1
  <2> QED
    BY <1>2, <2>1, <2>2, LedgerEnqueue
<1>3. CASE IngestBatch
  <2>1. PICK last \in next..MaxExecution :
          \E f \in [next..last -> {h \in Hook : hook[h] = "enabled"}] : Enqueue(last, f)
    BY <1>3 DEF IngestBatch
  <2>2. PICK f \in [next..last -> {h \in Hook : hook[h] = "enabled"}] : Enqueue(last, f)
    BY <2>1
  <2>3. f \in [next..last -> Hook]
    BY <2>2
  <2> QED
    BY <2>2, <2>3, LedgerEnqueue
<1>4. ASSUME NEW h \in Hook, TestHook(h) PROVE Ledger!Next
  <2>1. next <= MaxExecution /\ Enqueue(next, [d \in {next} |-> h])
    BY <1>1, <1>4 DEF TestHook
  <2> QED
    BY <1>2, <2>1
<1>5. ASSUME NEW e \in Execution, RetryExecution(e) PROVE Ledger!Next
  <2>1. hookOf[e] \in Hook
    BY <1>1, <1>5 DEF Inv, RowsCreatedInOrder, RetryExecution
  <2>2. next <= MaxExecution /\ Enqueue(next, [d \in {next} |-> hookOf[e]])
    BY <1>1, <1>5 DEF RetryExecution
  <2> QED
    BY <1>2, <2>1, <2>2
<1>6. ASSUME NEW h \in Hook, EditHook(h) PROVE UNCHANGED Ledger!vars
  BY <1>6, LedgerSame DEF EditHook
<1>7. ASSUME NEW h \in Hook, RemoveHook(h) PROVE Ledger!Next
  <2>1. LedgerResult' = [e \in Execution |-> IF hookOf[e] = h THEN "gone" ELSE LedgerResult[e]]
    BY <1>7 DEF RemoveHook, LedgerResult
  <2>2. Ledger!Erase(h)
    BY <1>7, <2>1 DEF RemoveHook, Ledger!Erase
  <2> QED
    BY <2>2 DEF Ledger!Next
<1>8. ASSUME NEW S \in SUBSET Execution, PurgeTelemetry(S) PROVE Ledger!Next
  <2>1. LedgerResult' = [e \in Execution |-> IF e \in S THEN "gone" ELSE LedgerResult[e]]
    BY <1>8 DEF PurgeTelemetry, LedgerResult
  <2>2. \A e \in S : LedgerResult[e] # "absent"
    BY <1>8 DEF PurgeTelemetry, LedgerResult
  <2>3. Ledger!Purge(S)
    BY <1>8, <2>1, <2>2 DEF PurgeTelemetry, Ledger!Purge
  <2> QED
    BY <2>3 DEF Ledger!Next
<1> QED
  BY <1>3, <1>4, <1>5, <1>6, <1>7, <1>8 DEF Administer

(* Recovery fails all expired executions in one step.                      *)
LEMMA LedgerRecover ==
  ASSUME Inv, exec' = RecoveredExec, UNCHANGED <<hookOf, hookState>>
  PROVE  Ledger!Next \/ UNCHANGED Ledger!vars
<1> DEFINE S == {e \in Execution : LeaseExpired(e) /\ exec[e] = "running"}
<1>1. LedgerResult' = [e \in Execution |-> IF e \in S THEN "failed" ELSE LedgerResult[e]]
  BY DEF LedgerResult, RecoveredExec
<1>2. \A e \in S : LedgerResult[e] = "open"
  BY DEF LedgerResult
<1>3. CASE S = {}
  BY <1>1, <1>3 DEF LedgerResult, Ledger!vars
<1>4. CASE S # {}
  <2>1. S \in SUBSET Execution
    OBVIOUS
  <2> HIDE DEF S
  <2>2. Ledger!Fail(S)
    BY <1>1, <1>2, <1>4 DEF Ledger!Fail
  <2> QED
    BY <2>1, <2>2 DEF Ledger!Next
<1> QED
  BY <1>3, <1>4

(* A success adds itself to what the state holds, since what the run read  *)
(* is what the state still holds.                                          *)
LEMMA LedgerCommit ==
  ASSUME Inv, SoloInv, NEW w \in Worker, CommitResult(w)
  PROVE  Ledger!Next
<1> DEFINE e == cur[w]
           g == hookOf[e]
<1>1. /\ e \in Execution /\ g \in Hook
      /\ exec[e] = "running" /\ snap[w] = hookState[g]
  BY HeldExecution DEF CommitResult, CommitConflict, SoloInv
<1>2. PICK status \in Final : status = StatusOf(outcome[w])
  BY DEF Inv, TypeOK, StageMatchesRow, CommitResult, StatusOf
<1>3. /\ exec' = [exec EXCEPT ![e] = status]
      /\ hookState' = [hookState EXCEPT ![g] = NextState(w)]
      /\ hookOf' = hookOf
  BY <1>2 DEF CommitResult
<1>4. LedgerResult[e] = "open" /\ LedgerResult' = [LedgerResult EXCEPT ![e] = status]
  BY <1>1, <1>3 DEF LedgerResult, Inv, TypeOK
<1>5. CASE status = "success"
  <2>1. hookState' = [hookState EXCEPT ![g] = hookState[g] \union {e}]
    BY <1>1, <1>2, <1>3, <1>5 DEF NextState
  <2>2. Ledger!Succeed(e)
    BY <1>1, <1>3, <1>4, <1>5, <2>1 DEF Ledger!Succeed
  <2> QED
    BY <1>1, <2>2 DEF Ledger!Next
<1>6. CASE status # "success"
  <2>1. hookState' = hookState
    <3>1. NextState(w) = hookState[g]
      BY <1>2, <1>6 DEF NextState
    <3> QED
      BY <1>1, <1>3, <3>1 DEF Inv, TypeOK
  <2>2. CASE status = "timeout"
    <3>1. Ledger!TimeOut(e)
      BY <1>3, <1>4, <2>1, <2>2 DEF Ledger!TimeOut
    <3> QED
      BY <1>1, <3>1 DEF Ledger!Next
  <2>3. CASE status = "failed"
    <3>1. LedgerResult' = [d \in Execution |-> IF d \in {e} THEN "failed" ELSE LedgerResult[d]]
      BY <1>4, <2>3 DEF LedgerResult
    <3>2. Ledger!Fail({e})
      BY <1>3, <1>4, <2>1, <3>1 DEF Ledger!Fail
    <3>3. {e} \in SUBSET Execution
      BY <1>1
    <3> QED
      BY <3>2, <3>3 DEF Ledger!Next
  <2> QED
    BY <1>6, <2>2, <2>3
<1> QED
  BY <1>5, <1>6

LEMMA LedgerFailJob ==
  ASSUME Inv, NEW w \in Worker, FailJob(w)
  PROVE  Ledger!Next \/ UNCHANGED Ledger!vars
<1> DEFINE e == cur[w]
<1>1. e \in Execution /\ UNCHANGED <<hookOf, hookState>>
  BY HeldExecution DEF FailJob
<1>2. CASE exec[e] \in {"pending", "running"}
  <2>1. exec' = [exec EXCEPT ![e] = "failed"]
    BY <1>2 DEF FailJob
  <2>2. /\ LedgerResult[e] = "open"
        /\ LedgerResult' = [d \in Execution |-> IF d \in {e} THEN "failed" ELSE LedgerResult[d]]
    BY <1>1, <1>2, <2>1 DEF LedgerResult, Inv, TypeOK
  <2>3. Ledger!Fail({e})
    BY <1>1, <2>2 DEF Ledger!Fail
  <2>4. {e} \in SUBSET Execution
    BY <1>1
  <2> QED
    BY <2>3, <2>4 DEF Ledger!Next
<1>3. CASE exec[e] \notin {"pending", "running"}
  <2>1. exec' = exec
    BY <1>1, <1>3 DEF FailJob, Inv, TypeOK
  <2> QED
    BY <1>1, <2>1, LedgerSame
<1> QED
  BY <1>2, <1>3

(* "running" is committed before the child starts: still open.             *)
LEMMA LedgerStart ==
  ASSUME Inv, NEW w \in Worker, StartHook(w)
  PROVE  UNCHANGED Ledger!vars
<1>1. cur[w] \in Execution /\ exec[cur[w]] = "pending"
  BY HeldExecution DEF StartHook, Inv, StageMatchesRow
<1>2. LedgerResult' = LedgerResult
  BY <1>1 DEF StartHook, LedgerResult, Inv, TypeOK
<1> QED
  BY <1>2 DEF StartHook, Ledger!vars

LEMMA LedgerStep ==
  ASSUME Inv, SoloInv, [Next]_vars
  PROVE  [Ledger!Next]_Ledger!vars
<1>1. ASSUME NEW w \in Worker, ClaimJob(w) \/ PollJobs(w)
      PROVE  Ledger!Next \/ UNCHANGED Ledger!vars
  BY <1>1, LedgerRecover DEF ClaimJob, PollJobs
<1>2. ASSUME NEW w \in Worker,
             \/ LockExecution(w) \/ AcquireHookLock(w) \/ StartFails(w) \/ CommitFails(w)
             \/ Crash(w) \/ Restart(w) \/ \E o \in Outcome : FinishHook(w, o)
      PROVE  UNCHANGED Ledger!vars
  <2>1. UNCHANGED <<exec, hookOf, hookState>>
    BY <1>2 DEF LockExecution, AcquireHookLock, StartFails, CommitFails, Crash, Restart, FinishHook, dbVars
  <2> QED
    BY <2>1, LedgerSame
<1>3. CASE Tick \/ UNCHANGED vars
  BY <1>3, LedgerSame DEF Tick, vars
<1>4. ASSUME NEW w \in Worker, Work(w)
      PROVE  Ledger!Next \/ UNCHANGED Ledger!vars
  BY <1>1, <1>2, <1>4, LedgerStart, LedgerCommit, LedgerFailJob DEF Work
<1> QED
  BY <1>2, <1>3, <1>4, LedgerAdminister DEF Next

LEMMA LedgerInit == Init => Ledger!Init
  BY DEF Init, Ledger!Init, LedgerResult

(* One worker implements the ledger: every execution has one result, and   *)
(* the state of a hook is exactly its successes.  The deployment           *)
(* (docker-compose.yml) runs one; two lose updates (hook_lost_update).     *)
THEOREM OneWorkerImplementsLedger ==
  ASSUME NEW w, Worker = {w}
  PROVE  Spec => ImplementsLedger
<1>1. Init => SoloInv
  BY DEF Init, SoloInv
<1>2. Inv /\ SoloInv /\ [Next]_vars => SoloInv'
  BY SoloStep
<1>3. Inv /\ SoloInv /\ [Next]_vars => [Ledger!Next]_Ledger!vars
  BY LedgerStep
<1> QED
  BY LedgerInit, InvHolds, <1>1, <1>2, <1>3, PTL DEF Spec, ImplementsLedger, Ledger!Spec
=============================================================================
