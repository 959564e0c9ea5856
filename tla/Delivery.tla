------------------------------ MODULE Delivery ------------------------------
(***************************************************************************)
(* Telemetry from the agents' outboxes to the server's history: Outbox and *)
(* Ingest joined by HTTP requests (agent/internal/client/client.go Upload, *)
(* backend/app/telemetry/routes.py telemetry_batch).  A request or its     *)
(* response may be lost, and an agent that gives up on a request - its     *)
(* 30 seconds are over, or its process died - leaves the server working on *)
(* it, so a late request races the retry that carries the same samples.    *)
(***************************************************************************)
EXTENDS Outbox, Ingest

CONSTANTS
  Request,   \* requests that can be under way at once
  None       \* no request

ASSUME RequestAssumption == None \notin Request

VARIABLES
  stage,     \* where each request is
  sender,    \* the agent that sent it
  sent,      \* the samples in its body
  sentBoot,  \* the boot_id in its body
  reply,     \* accepted and duplicates of its response
  awaited    \* the request each agent waits for

(* free; sent: on the wire; admitted: current_agent and the first check of *)
(* ingest_batch passed; answered, refused: response on the wire; lost.     *)
Stage == {"free", "sent", "admitted", "answered", "refused", "lost"}

requestVars == <<stage, sender, sent, sentBoot, reply>>
vars == <<payload, outboxVars, ingestVars, requestVars, awaited>>

TypeOK ==
  /\ SamplesTypeOK /\ OutboxTypeOK /\ IngestTypeOK
  /\ stage \in [Request -> Stage]
  /\ sender \in [Request -> Agent \union {None}]
  /\ sent \in [Request -> SUBSET Sample]
  /\ sentBoot \in [Request -> Boot \union {0}]
  /\ reply \in [Request -> SUBSET Sample]
  /\ awaited \in [Agent -> Request \union {None}]

Init ==
  /\ SamplesInit /\ OutboxInit /\ IngestInit
  /\ stage = [r \in Request |-> "free"]
  /\ sender = [r \in Request |-> None]
  /\ sent = [r \in Request |-> {}]
  /\ sentBoot = [r \in Request |-> 0]
  /\ reply = [r \in Request |-> {}]
  /\ awaited = [a \in Agent |-> None]

-----------------------------------------------------------------------------
(* A request nobody waits for is over once nothing more can come of it.    *)
Clear(r) ==
  /\ stage' = [stage EXCEPT ![r] = "free"]
  /\ sender' = [sender EXCEPT ![r] = None]
  /\ sent' = [sent EXCEPT ![r] = {}]
  /\ sentBoot' = [sentBoot EXCEPT ![r] = 0]
  /\ reply' = [reply EXCEPT ![r] = {}]

Awaited(r) == sender[r] # None /\ awaited[sender[r]] = r

(* Upload reads the oldest batch and posts it.                             *)
Send(a) ==
  /\ step[a] = "draining"
  /\ Pending(a) # {}
  /\ \E r \in Request :
       /\ stage[r] = "free"
       /\ stage' = [stage EXCEPT ![r] = "sent"]
       /\ sender' = [sender EXCEPT ![r] = a]
       /\ sent' = [sent EXCEPT ![r] = Pending(a)]
       /\ sentBoot' = [sentBoot EXCEPT ![r] = boot[a]]
       /\ awaited' = [awaited EXCEPT ![a] = r]
  /\ step' = [step EXCEPT ![a] = "waiting"]
  /\ UNCHANGED <<payload, outbox, sequence, boot, sequenceOf, ingestVars, reply>>

(* current_agent: the credential of a retired source is refused.  The row  *)
(* read here is the one ingest_batch looks at, before it locks the vehicle.*)
Admit(r) ==
  /\ stage[r] = "sent"
  /\ stage' = [stage EXCEPT ![r] =
                 IF sender[r] \in retired THEN "refused" ELSE "admitted"]
  /\ UNCHANGED <<payload, outboxVars, ingestVars, sender, sent, sentBoot, reply, awaited>>

(* Mutation only: duplicates are left out of the response.                 *)
Reply_acceptedOnly(r) == sent[r] \ Known(sentBoot[r], sent[r])

(* accepted and duplicates: every sample of the batch is acknowledged.     *)
Reply(r) == sent[r]

(* The vehicle lock is granted; the batch is stored and committed.         *)
Commit(r) ==
  /\ stage[r] = "admitted"
  /\ ingest_batch(sender[r], sentBoot[r], sent[r])
  /\ stage' = [stage EXCEPT ![r] = "answered"]
  /\ reply' = [reply EXCEPT ![r] = Reply(r)]
  /\ UNCHANGED <<outbox, sequence, boot, step, sender, sent, sentBoot, awaited>>

(* The request never arrives, the transaction is rolled back (a database   *)
(* error, a server restart), or the response never arrives.                *)
Lose(r) ==
  /\ stage[r] \in {"sent", "admitted", "answered", "refused"}
  /\ stage' = [stage EXCEPT ![r] = "lost"]
  /\ UNCHANGED <<payload, outboxVars, ingestVars, sender, sent, sentBoot, reply, awaited>>

(* The agent reads the response before its timeout.                        *)
Receive(a) ==
  /\ step[a] = "waiting"
  /\ LET r == awaited[a]
     IN  /\ stage[r] \in {"answered", "refused"}
         /\ IF stage[r] = "answered"
            THEN Acknowledge(a, sent[r], reply[r], Cardinality(sent[r]) = MaxBatch)
            ELSE UploadFails(a)
         /\ Clear(r)
  /\ awaited' = [awaited EXCEPT ![a] = None]
  /\ UNCHANGED ingestVars

(* 30 seconds, or a connection error: the server may still be at it.  The  *)
(* same for an answer whose rows cannot be deleted from the outbox.        *)
GiveUp(a) ==
  /\ step[a] = "waiting"
  /\ UploadFails(a)
  /\ awaited' = [awaited EXCEPT ![a] = None]
  /\ UNCHANGED <<ingestVars, requestVars>>

(* Nobody reads what comes back of an abandoned request.                   *)
Discard(r) ==
  /\ stage[r] \in {"answered", "refused", "lost"}
  /\ ~Awaited(r)
  /\ Clear(r)
  /\ UNCHANGED <<payload, outboxVars, ingestVars, awaited>>

Crash(a) ==
  /\ Die(a)
  /\ awaited' = [awaited EXCEPT ![a] = None]
  /\ UNCHANGED <<ingestVars, requestVars>>

(* commandRun between two requests.                                        *)
Loop(a) ==
  /\ Start(a) \/ StartUpload(a) \/ NothingPending(a)
  /\ UNCHANGED <<ingestVars, requestVars, awaited>>

Sampling(a) ==
  /\ Collect(a) \/ CollectFails(a)
  /\ UNCHANGED <<ingestVars, requestVars, awaited>>

Retire(a) ==
  /\ retire_agent(a)
  /\ UNCHANGED <<outbox, sequence, boot, step, requestVars, awaited>>

Next ==
  \/ \E a \in Agent :
       \/ Loop(a) \/ Sampling(a) \/ Send(a) \/ Receive(a) \/ GiveUp(a)
       \/ Crash(a) \/ Retire(a)
  \/ \E r \in Request : Admit(r) \/ Commit(r) \/ Lose(r) \/ Discard(r)

Spec == Init /\ [][Next]_vars

(* The agent's loop and the server's handlers run; systemd restarts the    *)
(* agent.  The network is no worse than fair: of requests sent again and   *)
(* again some arrive, are committed and are answered while the agent still *)
(* waits, though any one of them may be lost or late.                      *)
InTime(r, A) == Awaited(r) /\ A

Fairness ==
  /\ \A a \in Agent :
       WF_vars(Loop(a)) /\ WF_vars(Send(a)) /\ WF_vars(GiveUp(a)) /\ SF_vars(Receive(a))
  /\ \A r \in Request :
       /\ WF_vars(Admit(r)) /\ WF_vars(Commit(r)) /\ WF_vars(Discard(r))
       /\ SF_vars(InTime(r, Admit(r))) /\ SF_vars(InTime(r, Commit(r)))

FairSpec == Spec /\ Fairness

-----------------------------------------------------------------------------
(* A sample once queued is on the agent's disk until the server has it: no *)
(* crash, timeout, lost response or late request loses telemetry.          *)
NothingLost ==
  \A s \in Collected : s \in stored \/ s \in outbox[agentOf[s]]

(* (boot_id, sequence) names one sample of a source, and within a boot the *)
(* sequence orders history as the agent took it, although the boot id is   *)
(* that of the upload and the counter starts over ("boot-local sequence",  *)
(* architecture.md).                                                       *)
BootSequenceOrders ==
  \A s, t \in stored :
    s < t /\ agentOf[s] = agentOf[t] /\ bootOf[s] = bootOf[t]
      => sequenceOf[s] < sequenceOf[t]

(* A source's history has no holes at its old end: however batches are     *)
(* cut, lost, retried or late, no sample is stored before an older queued  *)
(* one (ORDER BY sequence in queue.go).                                    *)
OldestFirst ==
  \A t \in stored : \A s \in Collected :
    s < t /\ agentOf[s] = agentOf[t] => s \in stored

(* Every queued sample is acknowledged in the end, and so in history by    *)
(* NothingLost, unless its agent is retired.                               *)
OutboxDrains ==
  \A s \in Sample :
    (\E a \in Agent : s \in outbox[a]) ~>
      (agentOf[s] \in retired \/ \A a \in Agent : s \notin outbox[a])

(* A retired source adds nothing (RetiredSourceError in                    *)
(* telemetry/services.py).                                                 *)
RetiredAddsNothing == [][\A s \in stored' \ stored : agentOf[s] \notin retired]_vars

(* What the pipeline promises, without agents' disks or requests.          *)
Log == INSTANCE TelemetryLog WITH
         taken    <- Collected,
         recorded <- stored,
         effects  <- triggers
ImplementsLog == Log!Spec
=============================================================================
