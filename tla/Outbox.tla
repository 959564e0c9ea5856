------------------------------- MODULE Outbox -------------------------------
(***************************************************************************)
(* The Go agent's telemetry outbox: the SQLite queue of                    *)
(* agent/internal/store/queue.go and the single goroutine that fills and   *)
(* drains it (agent/internal/runtime/runtime.go Collect and Upload,        *)
(* agent/cmd/carhibou-agent/main.go commandRun).  The queue survives a     *)
(* crash; the sequence counter and the boot id do not.                     *)
(***************************************************************************)
EXTENDS Samples, FiniteSets

CONSTANTS
  MaxBatch,     \* client.MaxTelemetryBatchSize
  MaxSequence,  \* bound: sequence numbers used
  ReadFails     \* TRUE: reading the last sequence at a start may fail

ASSUME OutboxAssumption ==
  /\ MaxBatch \in Nat \ {0}
  /\ MaxSequence \in Nat
  /\ ReadFails \in BOOLEAN

(* down: not running; idle: between two rounds of the loop of commandRun;  *)
(* draining: in Upload, about to read Pending; waiting: in Client.Upload.  *)
AgentStep == {"down", "idle", "draining", "waiting"}

VARIABLES
  outbox,     \* rows of the samples table
  sequence,   \* Agent.Sequence
  boot,       \* Agent.BootID: how often the process has started
  step        \* where the agent's goroutine is

outboxVars == <<outbox, sequence, boot, step, sequenceOf>>

OutboxTypeOK ==
  /\ outbox \in [Agent -> SUBSET Sample]
  /\ sequence \in [Agent -> 0..MaxSequence]
  /\ boot \in [Agent -> Boot \union {0}]
  /\ step \in [Agent -> AgentStep]

OutboxInit ==
  /\ outbox = [a \in Agent |-> {}]
  /\ sequence = [a \in Agent |-> 0]
  /\ boot = [a \in Agent |-> 0]
  /\ step = [a \in Agent |-> "down"]

-----------------------------------------------------------------------------
Collected == {s \in Sample : sequenceOf[s] > 0}

(* The sample the agent takes next: its own ones come in number order.     *)
IsNext(a, s) ==
  /\ agentOf[s] = a
  /\ s \notin Collected
  /\ \A t \in Sample : agentOf[t] = a /\ t < s => t \in Collected

(* Collect: the counter moves, then the sample is inserted.                *)
Collect(a) ==
  /\ step[a] = "idle"
  /\ sequence[a] < MaxSequence
  /\ sequence' = [sequence EXCEPT ![a] = @ + 1]
  /\ \E s \in Sample :
       /\ IsNext(a, s)
       /\ sequenceOf' = [sequenceOf EXCEPT ![s] = sequence[a] + 1]
       /\ outbox' = [outbox EXCEPT ![a] = @ \union {s}]
  /\ UNCHANGED <<boot, step, payload>>

(* The insert fails (disk full, locked): commandRun logs and goes on.      *)
CollectFails(a) ==
  /\ step[a] = "idle"
  /\ sequence[a] < MaxSequence
  /\ sequence' = [sequence EXCEPT ![a] = @ + 1]
  /\ UNCHANGED <<outbox, boot, step, payload, sequenceOf>>

(* The upload deadline has passed: Agent.Upload is called.                 *)
StartUpload(a) ==
  /\ step[a] = "idle"
  /\ step' = [step EXCEPT ![a] = "draining"]
  /\ UNCHANGED <<outbox, sequence, boot, payload, sequenceOf>>

(* ORDER BY sequence, queued_at.                                           *)
Before(s, t) == sequenceOf[s] < sequenceOf[t] \/ (sequenceOf[s] = sequenceOf[t] /\ s < t)

(* Mutation only: the queue cut to a batch from its newest end.            *)
Pending_newestFirst(a) ==
  {s \in outbox[a] : Cardinality({t \in outbox[a] : Before(s, t)}) < MaxBatch}

(* The first MaxBatch rows.                                                *)
Pending(a) ==
  {s \in outbox[a] : Cardinality({t \in outbox[a] : Before(t, s)}) < MaxBatch}

NothingPending(a) ==
  /\ step[a] = "draining"
  /\ outbox[a] = {}
  /\ step' = [step EXCEPT ![a] = "idle"]
  /\ UNCHANGED <<outbox, sequence, boot, payload, sequenceOf>>

(* Mutation only: an acknowledged batch empties the queue.                 *)
Acknowledge_wholeQueue(a, sent, acknowledged, full) ==
  /\ outbox' = [outbox EXCEPT ![a] = {}]
  /\ step' = [step EXCEPT ![a] = "idle"]
  /\ UNCHANGED <<sequence, boot, payload, sequenceOf>>

(* Client.Upload returned acknowledged ids: delete them, and go on while   *)
(* batches are full and completely acknowledged.                           *)
Acknowledge(a, sent, acknowledged, full) ==
  /\ outbox' = [outbox EXCEPT ![a] = @ \ acknowledged]
  /\ step' = [step EXCEPT ![a] =
                IF full /\ sent \subseteq acknowledged THEN "draining" ELSE "idle"]
  /\ UNCHANGED <<sequence, boot, payload, sequenceOf>>

(* Client.Upload returned an error: everything stays queued.               *)
UploadFails(a) ==
  /\ step' = [step EXCEPT ![a] = "idle"]
  /\ UNCHANGED <<outbox, sequence, boot, payload, sequenceOf>>

(* The process dies: power, a crash, or runLoopWatchdog.                   *)
Die(a) ==
  /\ step[a] # "down"
  /\ boot[a] < MaxBoot
  /\ step' = [step EXCEPT ![a] = "down"]
  /\ UNCHANGED <<outbox, sequence, boot, payload, sequenceOf>>

(* Mutation only: the counter starts over whatever is still queued.        *)
LastSequence_zero(a) == 0

(* Queue.LastSequence: the largest sequence still queued, or zero.         *)
LastSequence(a) ==
  IF outbox[a] = {} THEN 0
  ELSE CHOOSE n \in {sequenceOf[s] : s \in outbox[a]} :
         \A s \in outbox[a] : sequenceOf[s] <= n

(* commandRun starts: a new boot id, the counter from the queue - or from  *)
(* zero when that read fails, for its error is dropped.                    *)
Start(a) ==
  /\ step[a] = "down"
  /\ boot[a] < MaxBoot
  /\ boot' = [boot EXCEPT ![a] = @ + 1]
  /\ \/ sequence' = [sequence EXCEPT ![a] = LastSequence(a)]
     \/ ReadFails /\ sequence' = [sequence EXCEPT ![a] = 0]
  /\ step' = [step EXCEPT ![a] = "idle"]
  /\ UNCHANGED <<outbox, payload, sequenceOf>>

-----------------------------------------------------------------------------
(* The upload order, ORDER BY sequence, is the order samples were taken    *)
(* in: restarts and acknowledgements never make queued numbers collide or  *)
(* run backwards.                                                          *)
QueuedInOrder ==
  \A a \in Agent : \A s, t \in outbox[a] : s < t => sequenceOf[s] < sequenceOf[t]
=============================================================================
