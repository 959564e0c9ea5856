--------------------------- MODULE DeliveryProofs ---------------------------
(***************************************************************************)
(* From the agents' queues to history, for any number of agents, samples,  *)
(* requests, restarts and batch sizes, whatever is lost, late or repeated. *)
(***************************************************************************)
EXTENDS Delivery, IngestProofs, FiniteSetTheorems

(* In flight: the server may still store what the request carries.         *)
InFlight(r) == stage[r] \in {"sent", "admitted"}

(* What a request carries was taken by its sender, and an answer vouches   *)
(* for what is stored.                                                     *)
RequestsCarry ==
  \A r \in Request :
    /\ InFlight(r) =>
         /\ sender[r] \in Agent /\ sentBoot[r] \in Boot /\ sent[r] # {}
         /\ \A s \in sent[r] : s \in Collected /\ agentOf[s] = sender[r]
    /\ stage[r] = "answered" => sent[r] \subseteq stored /\ reply[r] = sent[r]

(* A queue holds samples its agent has taken, and so does history.         *)
TakenBefore ==
  /\ \A a \in Agent : \A s \in outbox[a] : s \in Collected /\ agentOf[s] = a
  /\ stored \subseteq Collected
  /\ \A s \in Sample : sequenceOf[s] <= MaxSequence

(* A running agent has a boot id, and one that waits waits for a request.  *)
AgentsRun ==
  \A a \in Agent :
    /\ step[a] # "down" => boot[a] \in Boot
    /\ step[a] = "waiting" => awaited[a] \in Request

SafeInv == TypeOK /\ RequestsCarry /\ TakenBefore /\ AgentsRun /\ NothingLost /\ TriggeredOnce

-----------------------------------------------------------------------------
(* Stored under boot b of agent a, or about to be.                         *)
Under(a, b) ==
  {s \in Collected :
     /\ agentOf[s] = a
     /\ \/ s \in stored /\ bootOf[s] = b
        \/ \E r \in Request : InFlight(r) /\ sentBoot[r] = b /\ s \in sent[r]}

Ordered(S) == \A s, t \in S : s < t => sequenceOf[s] < sequenceOf[t]

(* Samples are taken in the order of their numbers.                        *)
TakenInOrder ==
  \A s, t \in Sample : s < t /\ agentOf[s] = agentOf[t] /\ t \in Collected => s \in Collected

(* A boot id never returns.                                                *)
BootsPass ==
  /\ \A s \in stored : bootOf[s] \in Boot /\ bootOf[s] <= boot[agentOf[s]]
  /\ \A r \in Request : InFlight(r) => sentBoot[r] <= boot[sender[r]]

(* What an agent still has queued and what it has sent since it started    *)
(* are in one order, and its counter is past them all.                     *)
Current(a) == outbox[a] \union Under(a, boot[a])
QueuesOrdered == \A a \in Agent : Ordered(Current(a))
CounterAhead == \A a \in Agent : step[a] # "down" => \A s \in Current(a) : sequenceOf[s] <= sequence[a]
BootsOrdered == \A a \in Agent, b \in Boot : Ordered(Under(a, b))

(* With a batch goes everything older, unless it is stored already.        *)
OldestSent ==
  \A r \in Request : InFlight(r) =>
    \A t \in sent[r], s \in Collected : s < t /\ agentOf[s] = sender[r] => s \in stored \union sent[r]

OrderInv ==
  /\ SafeInv /\ TakenInOrder /\ BootsPass /\ QueuesOrdered /\ CounterAhead /\ BootsOrdered
  /\ OldestFirst /\ OldestSent

-----------------------------------------------------------------------------
LEMMA SafeInitHolds == Init => SafeInv
<1> SUFFICES ASSUME Init PROVE SafeInv
  OBVIOUS
<1>1. Collected = {}
  BY DEF Init, SamplesInit, Collected
<1>2. SamplesTypeOK /\ OutboxTypeOK /\ IngestTypeOK
  BY OutboxAssumption DEF Init, SamplesInit, OutboxInit, IngestInit, SamplesTypeOK, OutboxTypeOK, IngestTypeOK, AgentStep
<1>3. TypeOK
  BY <1>2 DEF Init, TypeOK, Stage
<1>4. RequestsCarry /\ AgentsRun
  BY DEF Init, OutboxInit, RequestsCarry, AgentsRun, InFlight
<1>5. TakenBefore /\ NothingLost /\ TriggeredOnce
  BY <1>1, OutboxAssumption DEF Init, OutboxInit, SamplesInit, IngestInit, TakenBefore, NothingLost, TriggeredOnce
<1> QED
  BY <1>3, <1>4, <1>5 DEF SafeInv

(* The agent goes on, and nothing else changes.                            *)
LEMMA AgentKeeps ==
  ASSUME SafeInv, UNCHANGED <<payload, outbox, sequenceOf, ingestVars, requestVars>>,
         sequence' \in [Agent -> 0..MaxSequence], boot' \in [Agent -> Boot \union {0}],
         step' \in [Agent -> AgentStep], awaited' \in [Agent -> Request \union {None}], AgentsRun'
  PROVE  SafeInv'
<1>1. Collected' = Collected
  BY DEF Collected
<1>2. TypeOK'
  BY DEF SafeInv, TypeOK, SamplesTypeOK, OutboxTypeOK, IngestTypeOK, payload, ingestVars, requestVars
<1>3. RequestsCarry'
  BY <1>1 DEF SafeInv, RequestsCarry, InFlight, payload, ingestVars, requestVars
<1>4. TakenBefore' /\ NothingLost' /\ TriggeredOnce'
  BY <1>1 DEF SafeInv, TakenBefore, NothingLost, TriggeredOnce, payload, ingestVars
<1> QED
  BY <1>2, <1>3, <1>4 DEF SafeInv

(* So does a request: it carries what it carried, or nothing.              *)
LEMMA RequestKeeps ==
  ASSUME SafeInv, NEW r \in Request, UNCHANGED <<payload, outboxVars, ingestVars, awaited>>,
         \/ /\ UNCHANGED <<sender, sent, sentBoot, reply>>
            /\ \E p \in Stage : stage' = [stage EXCEPT ![r] = p] /\ (p = "admitted" => stage[r] = "sent")
                                /\ p \notin {"sent", "answered"}
         \/ Clear(r)
  PROVE  SafeInv'
<1>1. Collected' = Collected
  BY DEF Collected, outboxVars
<1>2. TypeOK'
  <2>1. /\ stage' \in [Request -> Stage] /\ sender' \in [Request -> Agent \union {None}]
        /\ sent' \in [Request -> SUBSET Sample] /\ sentBoot' \in [Request -> Boot \union {0}]
        /\ reply' \in [Request -> SUBSET Sample]
    BY DEF SafeInv, TypeOK, Clear, Stage
  <2> QED
    BY <2>1 DEF SafeInv, TypeOK, SamplesTypeOK, OutboxTypeOK, IngestTypeOK, payload, outboxVars, ingestVars
<1>3. RequestsCarry'
  BY <1>1 DEF SafeInv, RequestsCarry, InFlight, payload, ingestVars, Clear, TypeOK
<1>4. TakenBefore' /\ AgentsRun' /\ NothingLost' /\ TriggeredOnce'
  BY <1>1 DEF SafeInv, TakenBefore, AgentsRun, NothingLost, TriggeredOnce, payload, outboxVars, ingestVars
<1> QED
  BY <1>2, <1>3, <1>4 DEF SafeInv

(* LastSequence is the largest number queued.                              *)
LEMMA LastSequenceIs ==
  ASSUME SafeInv, NEW a \in Agent
  PROVE  /\ LastSequence(a) \in 0..MaxSequence
         /\ \A s \in outbox[a] : sequenceOf[s] <= LastSequence(a)
<1> DEFINE N == {sequenceOf[s] : s \in outbox[a]}
<1>1. \A s \in outbox[a] : sequenceOf[s] \in Nat /\ sequenceOf[s] <= MaxSequence
  BY DEF SafeInv, TypeOK, SamplesTypeOK, OutboxTypeOK, TakenBefore
<1>2. CASE outbox[a] = {}
  BY <1>2, OutboxAssumption DEF LastSequence
<1>3. CASE outbox[a] # {}
  <2>1. N \in SUBSET Nat /\ N # {} /\ \A n \in N : n <= MaxSequence
    BY <1>1, <1>3
  <2> HIDE DEF N
  <2>2. \E m \in N : \A n \in N : n <= m
    BY <2>1, GreatestExists, OutboxAssumption
  <2> USE DEF N
  <2>3. \E m \in N : \A s \in outbox[a] : sequenceOf[s] <= m
    BY <2>2
  <2>4. LastSequence(a) = CHOOSE m \in N : \A s \in outbox[a] : sequenceOf[s] <= m
    BY <1>3 DEF LastSequence
  <2>5. LastSequence(a) \in N /\ \A s \in outbox[a] : sequenceOf[s] <= LastSequence(a)
    BY <2>3, <2>4
  <2> QED
    BY <1>1, <2>5, OutboxAssumption
<1> QED
  BY <1>2, <1>3

LEMMA LoopKeeps ==
  ASSUME SafeInv, NEW a \in Agent, Loop(a)
  PROVE  SafeInv'
<1>1. UNCHANGED <<payload, outbox, sequenceOf, ingestVars, requestVars, awaited>>
  BY DEF Loop, Start, StartUpload, NothingPending
<1>2. step' \in [Agent -> AgentStep] /\ awaited' \in [Agent -> Request \union {None}]
  BY <1>1 DEF SafeInv, TypeOK, OutboxTypeOK, AgentStep, Loop, Start, StartUpload, NothingPending
<1>3. sequence' \in [Agent -> 0..MaxSequence]
  <2>1. LastSequence(a) \in 0..MaxSequence
    BY LastSequenceIs
  <2>2. \E n \in 0..MaxSequence : sequence' = [sequence EXCEPT ![a] = n] \/ UNCHANGED sequence
    BY <2>1, OutboxAssumption DEF Loop, Start, StartUpload, NothingPending
  <2> QED
    BY <2>2 DEF SafeInv, TypeOK, OutboxTypeOK
<1>4. boot' \in [Agent -> Boot \union {0}] /\ (boot[a] \in Boot => boot'[a] \in Boot)
      /\ (step[a] = "down" => boot'[a] \in Boot)
  BY SampleAssumption DEF SafeInv, TypeOK, OutboxTypeOK, Boot, Loop, Start, StartUpload, NothingPending
<1>5. AgentsRun'
  <2>1. \A c \in Agent \ {a} : step'[c] = step[c] /\ boot'[c] = boot[c]
    BY DEF SafeInv, TypeOK, OutboxTypeOK, Loop, Start, StartUpload, NothingPending
  <2>2. step'[a] # "waiting" /\ (step[a] # "down" => boot[a] \in Boot)
    BY DEF SafeInv, TypeOK, OutboxTypeOK, AgentsRun, Loop, Start, StartUpload, NothingPending
  <2> QED
    BY <1>1, <1>4, <2>1, <2>2 DEF SafeInv, AgentsRun
<1> QED
  BY <1>1, <1>2, <1>3, <1>4, <1>5, AgentKeeps

LEMMA CollectKeeps ==
  ASSUME SafeInv, NEW a \in Agent, Collect(a), UNCHANGED <<ingestVars, requestVars, awaited>>
  PROVE  SafeInv'
<1>1. PICK s \in Sample :
        /\ IsNext(a, s)
        /\ sequenceOf' = [sequenceOf EXCEPT ![s] = sequence[a] + 1]
        /\ outbox' = [outbox EXCEPT ![a] = @ \union {s}]
  BY DEF Collect
<1>2. /\ sequence[a] < MaxSequence /\ sequence' = [sequence EXCEPT ![a] = @ + 1]
      /\ UNCHANGED <<boot, step, payload>>
  BY DEF Collect
<1>3. sequence[a] \in Nat /\ agentOf[s] = a /\ s \notin Collected
  BY <1>1 DEF SafeInv, TypeOK, OutboxTypeOK, IsNext
<1>4. Collected' = Collected \union {s}
  BY <1>1, <1>3 DEF SafeInv, TypeOK, SamplesTypeOK, Collected
<1>5. TypeOK'
  <2>1. SamplesTypeOK' /\ OutboxTypeOK'
    BY <1>1, <1>2, <1>3, OutboxAssumption DEF SafeInv, TypeOK, SamplesTypeOK, OutboxTypeOK, payload
  <2> QED
    BY <2>1 DEF SafeInv, TypeOK, IngestTypeOK, ingestVars, requestVars
<1>6. RequestsCarry' /\ AgentsRun'
  BY <1>2, <1>4 DEF SafeInv, RequestsCarry, AgentsRun, InFlight, payload, ingestVars, requestVars
<1>7. \A c \in Agent : outbox'[c] = IF c = a THEN outbox[a] \union {s} ELSE outbox[c]
  BY <1>1 DEF SafeInv, TypeOK, OutboxTypeOK
<1>8. \A t \in Sample : sequenceOf'[t] <= MaxSequence
  BY <1>1, <1>2, <1>3, OutboxAssumption DEF SafeInv, TypeOK, SamplesTypeOK, TakenBefore
<1>9. TakenBefore' /\ NothingLost' /\ TriggeredOnce'
  <2>1. TakenBefore'
    BY <1>2, <1>3, <1>4, <1>7, <1>8 DEF SafeInv, TakenBefore, payload, ingestVars
  <2>2. NothingLost'
    BY <1>2, <1>3, <1>4, <1>7 DEF SafeInv, NothingLost, payload, ingestVars, TypeOK, SamplesTypeOK, Collected
  <2> QED
    BY <2>1, <2>2 DEF SafeInv, TriggeredOnce, ingestVars
<1> QED
  BY <1>5, <1>6, <1>9 DEF SafeInv

LEMMA IdleKeeps ==
  ASSUME SafeInv, NEW a \in Agent,
         (CollectFails(a) /\ UNCHANGED <<ingestVars, requestVars, awaited>>) \/ GiveUp(a) \/ Crash(a)
  PROVE  SafeInv'
<1>1. UNCHANGED <<payload, outbox, sequenceOf, ingestVars, requestVars, boot>>
  BY DEF CollectFails, GiveUp, UploadFails, Crash, Die
<1>2. /\ step' \in [Agent -> AgentStep] /\ awaited' \in [Agent -> Request \union {None}]
      /\ sequence' \in [Agent -> 0..MaxSequence]
  BY OutboxAssumption DEF SafeInv, TypeOK, OutboxTypeOK, AgentStep, CollectFails, GiveUp, UploadFails, Crash, Die
<1>3. AgentsRun'
  BY <1>1 DEF SafeInv, TypeOK, OutboxTypeOK, AgentsRun, CollectFails, GiveUp, UploadFails, Crash, Die
<1>4. boot' \in [Agent -> Boot \union {0}]
  BY <1>1 DEF SafeInv, TypeOK, OutboxTypeOK
<1> QED
  BY <1>1, <1>2, <1>3, <1>4, AgentKeeps

LEMMA SendKeeps ==
  ASSUME SafeInv, NEW a \in Agent, Send(a)
  PROVE  SafeInv'
<1>1. PICK r \in Request :
       /\ stage[r] = "free"
       /\ stage' = [stage EXCEPT ![r] = "sent"]
       /\ sender' = [sender EXCEPT ![r] = a]
       /\ sent' = [sent EXCEPT ![r] = Pending(a)]
       /\ sentBoot' = [sentBoot EXCEPT ![r] = boot[a]]
       /\ awaited' = [awaited EXCEPT ![a] = r]
  BY DEF Send
<1>2. /\ step[a] = "draining" /\ Pending(a) # {} /\ step' = [step EXCEPT ![a] = "waiting"]
      /\ UNCHANGED <<payload, outbox, sequence, boot, sequenceOf, ingestVars, reply>>
  BY DEF Send
<1>3. Collected' = Collected
  BY <1>2 DEF Collected
<1>4. Pending(a) \subseteq outbox[a] /\ boot[a] \in Boot
  BY <1>2 DEF Pending, SafeInv, AgentsRun
<1>5. TypeOK'
  <2>1. /\ stage' \in [Request -> Stage] /\ sender' \in [Request -> Agent \union {None}]
        /\ sent' \in [Request -> SUBSET Sample] /\ sentBoot' \in [Request -> Boot \union {0}]
        /\ awaited' \in [Agent -> Request \union {None}] /\ step' \in [Agent -> AgentStep]
    BY <1>1, <1>2, <1>4 DEF SafeInv, TypeOK, OutboxTypeOK, Stage, AgentStep
  <2> QED
    BY <1>2, <2>1 DEF SafeInv, TypeOK, SamplesTypeOK, OutboxTypeOK, IngestTypeOK, payload, ingestVars
<1>6. RequestsCarry'
  <2>1. \A q \in Request \ {r} : /\ stage'[q] = stage[q] /\ sender'[q] = sender[q] /\ sent'[q] = sent[q]
                                 /\ sentBoot'[q] = sentBoot[q] /\ reply'[q] = reply[q]
    BY <1>1, <1>2 DEF SafeInv, TypeOK
  <2>2. stage'[r] = "sent" /\ sender'[r] = a /\ sent'[r] = Pending(a) /\ sentBoot'[r] = boot[a]
    BY <1>1 DEF SafeInv, TypeOK
  <2>3. \A s \in Pending(a) : s \in Collected /\ agentOf[s] = a
    BY <1>4 DEF SafeInv, TakenBefore
  <2> QED
    BY <1>2, <1>3, <1>4, <2>1, <2>2, <2>3 DEF SafeInv, RequestsCarry, InFlight, payload, ingestVars
<1>7. AgentsRun'
  BY <1>1, <1>2 DEF SafeInv, TypeOK, OutboxTypeOK, AgentsRun
<1>8. TakenBefore' /\ NothingLost' /\ TriggeredOnce'
  BY <1>2, <1>3 DEF SafeInv, TakenBefore, NothingLost, TriggeredOnce, payload, ingestVars
<1> QED
  BY <1>5, <1>6, <1>7, <1>8 DEF SafeInv

LEMMA CommitKeeps ==
  ASSUME SafeInv, NEW r \in Request, Commit(r)
  PROVE  SafeInv' /\ \A s \in stored : HistoryKept(s)
<1>1. /\ stage[r] = "admitted" /\ ingest_batch(sender[r], sentBoot[r], sent[r])
      /\ stage' = [stage EXCEPT ![r] = "answered"]
      /\ reply' = [reply EXCEPT ![r] = sent[r]]
      /\ UNCHANGED <<outbox, sequence, boot, step, sender, sent, sentBoot, awaited>>
  BY DEF Commit, Reply
<1>2. /\ sender[r] \in Agent /\ sentBoot[r] \in Boot /\ sent[r] \in SUBSET Sample
      /\ \A s \in sent[r] : s \in Collected
  BY <1>1 DEF SafeInv, RequestsCarry, InFlight, TypeOK
<1>3. UNCHANGED <<payload, sequenceOf>> /\ stored' = stored \union sent[r]
  BY <1>1 DEF ingest_batch, Known
<1>4. Collected' = Collected
  BY <1>3 DEF Collected
<1>5. OnceInv
  BY DEF SafeInv, OnceInv, TypeOK, IngestTypeOK
<1>6. OnceInv' /\ \A s \in stored : HistoryKept(s)
  BY <1>1, <1>2, <1>5, BatchOnce
<1>7. SamplesTypeOK' /\ IngestTypeOK'
  BY <1>1, <1>2, BatchTypes DEF SafeInv, TypeOK
<1>8. TypeOK'
  BY <1>1, <1>3, <1>7 DEF SafeInv, TypeOK, OutboxTypeOK, Stage
<1>9. RequestsCarry'
  BY <1>1, <1>2, <1>3, <1>4 DEF SafeInv, RequestsCarry, InFlight, TypeOK, payload
<1>10. TakenBefore' /\ AgentsRun' /\ NothingLost'
  BY <1>1, <1>2, <1>3, <1>4 DEF SafeInv, TakenBefore, AgentsRun, NothingLost, payload
<1> QED
  BY <1>6, <1>8, <1>9, <1>10 DEF SafeInv, OnceInv

LEMMA ReceiveKeeps ==
  ASSUME SafeInv, NEW a \in Agent, Receive(a)
  PROVE  SafeInv'
<1> DEFINE r == awaited[a]
<1>1. /\ step[a] = "waiting" /\ stage[r] \in {"answered", "refused"} /\ Clear(r)
      /\ awaited' = [awaited EXCEPT ![a] = None]
      /\ UNCHANGED <<ingestVars, sequence, boot, payload, sequenceOf>>
  BY DEF Receive, Acknowledge, UploadFails
<1>2. r \in Request
  BY <1>1 DEF SafeInv, AgentsRun
<1>3. /\ \E p \in AgentStep \ {"waiting", "down"} : step' = [step EXCEPT ![a] = p]
      /\ \E S \in SUBSET stored : outbox' = [outbox EXCEPT ![a] = @ \ S]
  <2>1. CASE stage[r] = "answered"
    <3>1. Acknowledge(a, sent[r], reply[r], Cardinality(sent[r]) = MaxBatch)
      BY <2>1 DEF Receive
    <3>2. reply[r] \in SUBSET stored
      BY <1>2, <2>1 DEF SafeInv, RequestsCarry
    <3>3. \E p \in AgentStep \ {"waiting", "down"} : step' = [step EXCEPT ![a] = p]
      BY <3>1 DEF Acknowledge, AgentStep
    <3>4. outbox' = [outbox EXCEPT ![a] = @ \ reply[r]]
      BY <3>1 DEF Acknowledge
    <3> QED
      BY <3>2, <3>3, <3>4
  <2>2. CASE stage[r] # "answered"
    <3>1. UploadFails(a)
      BY <2>2 DEF Receive
    <3>2. outbox' = [outbox EXCEPT ![a] = @ \ {}]
      BY <3>1 DEF UploadFails, SafeInv, TypeOK, OutboxTypeOK
    <3>3. step' = [step EXCEPT ![a] = "idle"]
      BY <3>1 DEF UploadFails
    <3> QED
      BY <3>2, <3>3 DEF AgentStep
  <2> QED
    BY <2>1, <2>2
<1>4. Collected' = Collected
  BY <1>1 DEF Collected
<1>5. \A c \in Agent : outbox'[c] \subseteq outbox[c] /\ outbox[c] \subseteq outbox'[c] \union stored
  BY <1>3 DEF SafeInv, TypeOK, OutboxTypeOK
<1>6. TypeOK'
  <2>1. /\ stage' \in [Request -> Stage] /\ sender' \in [Request -> Agent \union {None}]
        /\ sent' \in [Request -> SUBSET Sample] /\ sentBoot' \in [Request -> Boot \union {0}]
        /\ reply' \in [Request -> SUBSET Sample] /\ awaited' \in [Agent -> Request \union {None}]
    BY <1>1 DEF SafeInv, TypeOK, Clear, Stage
  <2>2. step' \in [Agent -> AgentStep] /\ outbox' \in [Agent -> SUBSET Sample]
    BY <1>3 DEF SafeInv, TypeOK, OutboxTypeOK
  <2> QED
    BY <1>1, <2>1, <2>2 DEF SafeInv, TypeOK, SamplesTypeOK, OutboxTypeOK, IngestTypeOK, payload, ingestVars
<1>7. RequestsCarry'
  BY <1>1, <1>4 DEF SafeInv, RequestsCarry, InFlight, payload, ingestVars, Clear, TypeOK
<1>8. AgentsRun'
  BY <1>1, <1>3 DEF SafeInv, TypeOK, OutboxTypeOK, AgentsRun
<1>9. TakenBefore' /\ NothingLost' /\ TriggeredOnce'
  <2>1. \A s \in Collected : agentOf[s] \in Agent
    BY DEF SafeInv, TypeOK, SamplesTypeOK, Collected
  <2> QED
    BY <1>1, <1>4, <1>5, <2>1 DEF SafeInv, TakenBefore, NothingLost, TriggeredOnce, payload, ingestVars
<1> QED
  BY <1>6, <1>7, <1>8, <1>9 DEF SafeInv

LEMMA RetireKeeps ==
  ASSUME SafeInv, NEW a \in Agent, Retire(a)
  PROVE  SafeInv'
<1>1. /\ UNCHANGED <<payload, sequenceOf, history, live, outbox, sequence, boot, step, requestVars, awaited>>
      /\ retired' = retired \union {a}
  BY DEF Retire, retire_agent
<1>2. Collected' = Collected
  BY <1>1 DEF Collected
<1>3. TypeOK'
  BY <1>1 DEF SafeInv, TypeOK, SamplesTypeOK, OutboxTypeOK, IngestTypeOK, payload, history, live, requestVars
<1>4. RequestsCarry' /\ AgentsRun'
  BY <1>1, <1>2 DEF SafeInv, RequestsCarry, AgentsRun, InFlight, payload, history, requestVars
<1>5. TakenBefore' /\ NothingLost' /\ TriggeredOnce'
  BY <1>1, <1>2 DEF SafeInv, TakenBefore, NothingLost, TriggeredOnce, payload, history
<1> QED
  BY <1>3, <1>4, <1>5 DEF SafeInv

LEMMA OnTheWayKeeps ==
  ASSUME SafeInv, NEW r \in Request, Admit(r) \/ Lose(r) \/ Discard(r)
  PROVE  SafeInv'
<1>1. CASE Admit(r)
  BY <1>1, RequestKeeps DEF Admit, Stage
<1>2. CASE Lose(r)
  BY <1>2, RequestKeeps DEF Lose, Stage
<1>3. CASE Discard(r)
  BY <1>3, RequestKeeps DEF Discard
<1> QED
  BY <1>1, <1>2, <1>3

LEMMA SafeStep ==
  ASSUME SafeInv, [Next]_vars
  PROVE  SafeInv'
<1>1. CASE UNCHANGED vars
  <2>1. UNCHANGED <<payload, outbox, sequenceOf, ingestVars, requestVars, sequence, boot, step, awaited>>
    BY <1>1 DEF vars, outboxVars
  <2>2. /\ sequence' \in [Agent -> 0..MaxSequence] /\ boot' \in [Agent -> Boot \union {0}]
        /\ step' \in [Agent -> AgentStep] /\ awaited' \in [Agent -> Request \union {None}] /\ AgentsRun'
    BY <2>1 DEF SafeInv, TypeOK, OutboxTypeOK, AgentsRun
  <2> QED
    BY <2>1, <2>2, AgentKeeps
<1>2. ASSUME NEW a \in Agent, Sampling(a)
      PROVE  SafeInv'
  BY <1>2, CollectKeeps, IdleKeeps DEF Sampling
<1>3. ASSUME NEW a \in Agent, Loop(a) \/ Send(a) \/ Receive(a) \/ GiveUp(a) \/ Crash(a) \/ Retire(a)
      PROVE  SafeInv'
  BY <1>3, LoopKeeps, SendKeeps, ReceiveKeeps, IdleKeeps, RetireKeeps
<1>4. ASSUME NEW r \in Request, Admit(r) \/ Commit(r) \/ Lose(r) \/ Discard(r)
      PROVE  SafeInv'
  BY <1>4, OnTheWayKeeps, CommitKeeps
<1> QED
  BY <1>1, <1>2, <1>3, <1>4 DEF Next


-----------------------------------------------------------------------------
LEMMA SafeAlways == Spec => []SafeInv
  BY SafeInitHolds, SafeStep, PTL DEF Spec

(* Every variable of the joined system keeps its type.                     *)
THEOREM TypeCorrect == Spec => []TypeOK
<1>1. SafeInv => TypeOK
  BY DEF SafeInv
<1> QED
  BY <1>1, SafeAlways, PTL

(* A sample once queued is on its agent's disk until the server has it,    *)
(* whatever crashes, is lost, is late or is retried (queue.go, client.go   *)
(* Upload, ingest_batch).                                                  *)
THEOREM NothingIsLost == Spec => []NothingLost
<1>1. SafeInv => NothingLost
  BY DEF SafeInv
<1> QED
  BY <1>1, SafeAlways, PTL

(* A committed batch is never removed or rewritten, whatever is resent     *)
(* after a restart, late or twice.                                         *)
THEOREM DeliveredStays == Spec => RetriesChangeNothing
<1>1. ASSUME SafeInv, [Next]_vars
      PROVE  [\A s \in stored : HistoryKept(s)]_ingestVars
  <2>1. ASSUME NEW a \in Agent, Loop(a) \/ Sampling(a) \/ Send(a) \/ Receive(a) \/ GiveUp(a) \/ Crash(a)
        PROVE  UNCHANGED ingestVars
    BY <2>1 DEF Loop, Sampling, Send, Receive, GiveUp, Crash
  <2>2. ASSUME NEW a \in Agent, Retire(a)
        PROVE  \A s \in stored : HistoryKept(s)
    BY <2>2 DEF Retire, retire_agent, history, HistoryKept
  <2>3. ASSUME NEW r \in Request, Admit(r) \/ Lose(r) \/ Discard(r)
        PROVE  UNCHANGED ingestVars
    BY <2>3 DEF Admit, Lose, Discard
  <2>4. ASSUME NEW r \in Request, Commit(r)
        PROVE  \A s \in stored : HistoryKept(s)
    BY <1>1, <2>4, CommitKeeps
  <2>5. CASE UNCHANGED vars
    BY <2>5 DEF vars, ingestVars
  <2> QED
    BY <1>1, <2>1, <2>2, <2>3, <2>4, <2>5 DEF Next
<1> QED
  BY <1>1, SafeAlways, PTL DEF Spec, RetriesChangeNothing

-----------------------------------------------------------------------------
(* The implementation of TelemetryLog, step by step.                       *)
LEMMA LogInit == Init => Log!Init
  BY DEF Init, SamplesInit, IngestInit, Collected, Log!Init

LEMMA LogStep ==
  ASSUME SafeInv, [Next]_vars
  PROVE  [Log!Next]_(Log!vars)
<1>1. ASSUME UNCHANGED <<sequenceOf, stored, triggers>>
      PROVE  UNCHANGED Log!vars
  BY <1>1 DEF Log!vars, Collected
<1>2. CASE UNCHANGED vars
  BY <1>1, <1>2 DEF vars, outboxVars, ingestVars
<1>3. ASSUME NEW a \in Agent, Collect(a), UNCHANGED ingestVars
      PROVE  \E s \in Sample : Log!Take(s)
  <2>1. PICK s \in Sample : IsNext(a, s) /\ sequenceOf' = [sequenceOf EXCEPT ![s] = sequence[a] + 1]
    BY <1>3 DEF Collect
  <2>2. sequence[a] \in Nat /\ s \notin Collected
    BY <2>1 DEF SafeInv, TypeOK, OutboxTypeOK, IsNext
  <2>3. Collected' = Collected \union {s}
    BY <2>1, <2>2 DEF SafeInv, TypeOK, SamplesTypeOK, Collected
  <2> QED
    BY <1>3, <2>2, <2>3 DEF Log!Take, ingestVars
<1>4. ASSUME NEW a \in Agent,
             \/ Loop(a) \/ (CollectFails(a) /\ UNCHANGED ingestVars) \/ Send(a)
             \/ Receive(a) \/ GiveUp(a) \/ Crash(a) \/ Retire(a)
      PROVE  UNCHANGED <<sequenceOf, stored, triggers>>
  BY <1>4 DEF Loop, Start, StartUpload, NothingPending, CollectFails, Send, Receive, Acknowledge, UploadFails,
              GiveUp, Crash, Die, Retire, retire_agent, ingestVars, history
<1>5. ASSUME NEW r \in Request, Admit(r) \/ Lose(r) \/ Discard(r)
      PROVE  UNCHANGED <<sequenceOf, stored, triggers>>
  BY <1>5 DEF Admit, Lose, Discard, outboxVars, ingestVars
<1>6. ASSUME NEW r \in Request, Commit(r)
      PROVE  [Log!Next]_(Log!vars)
  <2> DEFINE new == sent[r] \ stored
  <2>1. sent[r] \in SUBSET Sample /\ sent[r] \subseteq Collected
    BY <1>6 DEF Commit, SafeInv, TypeOK, RequestsCarry, InFlight
  <2>2. /\ stored' = stored \union new
        /\ triggers' = [s \in Sample |-> IF s \in new THEN triggers[s] + 1 ELSE triggers[s]]
        /\ UNCHANGED sequenceOf
    BY <1>6 DEF Commit, ingest_batch, Known
  <2>3. Collected' = Collected
    BY <2>2 DEF Collected
  <2>4. triggers' = [s \in Sample |-> IF s \in new THEN 1 ELSE triggers[s]]
    BY <2>2 DEF SafeInv, TriggeredOnce
  <2>5. CASE new = {}
    <3>1. stored' = stored /\ triggers' = triggers
      BY <2>2, <2>5 DEF SafeInv, TypeOK, IngestTypeOK
    <3> QED
      BY <1>1, <2>2, <3>1
  <2>6. CASE new # {}
    <3>1. Log!Record(new)
      BY <2>1, <2>2, <2>3, <2>4, <2>6 DEF Log!Record
    <3> QED
      BY <2>1, <3>1 DEF Log!Next
  <2> QED
    BY <2>5, <2>6
<1>7. ASSUME NEW a \in Agent, Loop(a) \/ Sampling(a) \/ Send(a) \/ Receive(a) \/ GiveUp(a) \/ Crash(a) \/ Retire(a)
      PROVE  [Log!Next]_(Log!vars)
  <2>1. CASE Sampling(a) /\ Collect(a)
    BY <1>3, <2>1 DEF Sampling, Log!Next
  <2>2. CASE ~(Sampling(a) /\ Collect(a))
    <3>1. \/ Loop(a) \/ (CollectFails(a) /\ UNCHANGED ingestVars) \/ Send(a)
          \/ Receive(a) \/ GiveUp(a) \/ Crash(a) \/ Retire(a)
      BY <1>7, <2>2 DEF Sampling
    <3>2. UNCHANGED <<sequenceOf, stored, triggers>>
      BY <1>4, <3>1
    <3> QED
      BY <1>1, <3>2
  <2> QED
    BY <2>1, <2>2
<1>8. ASSUME NEW r \in Request, Admit(r) \/ Commit(r) \/ Lose(r) \/ Discard(r)
      PROVE  [Log!Next]_(Log!vars)
  BY <1>1, <1>5, <1>6, <1>8
<1> QED
  BY <1>1, <1>2, <1>7, <1>8 DEF Next

(* Agents with their disks, requests that are lost, late or repeated and   *)
(* the server's transaction together do what TelemetryLog promises.        *)
THEOREM DeliveryImplementsLog == Spec => ImplementsLog
  BY LogInit, LogStep, SafeAlways, PTL DEF Spec, ImplementsLog, Log!Spec

-----------------------------------------------------------------------------
LEMMA LiveKeeps ==
  ASSUME SafeInv, CandidateIsNewest, CurrentStateIsNewest, [Next]_vars
  PROVE  CandidateIsNewest' /\ CurrentStateIsNewest'
<1>1. ASSUME UNCHANGED <<payload, stored, live>>
      PROVE  CandidateIsNewest' /\ CurrentStateIsNewest'
  BY <1>1 DEF CandidateIsNewest, CurrentStateIsNewest, payload, live
<1>2. CASE UNCHANGED vars
  BY <1>1, <1>2 DEF vars, ingestVars, live
<1>3. ASSUME NEW a \in Agent,
             \/ Loop(a) \/ Sampling(a) \/ Send(a) \/ Receive(a) \/ GiveUp(a) \/ Crash(a) \/ Retire(a)
      PROVE  UNCHANGED <<payload, stored, live>>
  BY <1>3 DEF Loop, Start, StartUpload, NothingPending, Sampling, Collect, CollectFails, Send, Receive, Acknowledge,
              UploadFails, GiveUp, Crash, Die, Retire, retire_agent, ingestVars, history, live
<1>4. ASSUME NEW r \in Request, Admit(r) \/ Lose(r) \/ Discard(r)
      PROVE  UNCHANGED <<payload, stored, live>>
  BY <1>4 DEF Admit, Lose, Discard, ingestVars, live
<1>5. ASSUME NEW r \in Request, Commit(r)
      PROVE  CandidateIsNewest' /\ CurrentStateIsNewest'
  <2>1. PICK a \in Agent, b \in Boot : sender[r] = a /\ sentBoot[r] = b
    BY <1>5 DEF Commit, SafeInv, RequestsCarry, InFlight
  <2>2. PICK B \in SUBSET {s \in Sample : agentOf[s] = a} : sent[r] = B
    BY <1>5, <2>1 DEF Commit, SafeInv, TypeOK, RequestsCarry, InFlight
  <2>3. ingest_batch(a, b, B)
    BY <1>5, <2>1, <2>2 DEF Commit
  <2>4. SamplesTypeOK /\ IngestTypeOK /\ B # {} /\ B \in SUBSET Sample
    BY <1>5, <2>2 DEF Commit, SafeInv, TypeOK, RequestsCarry, InFlight
  <2>5. CandidateIsNewest'
    BY <2>3, <2>4, BatchCandidates
  <2>6. CurrentStateIsNewest'
    BY <2>3, <2>4, BatchState
  <2> QED
    BY <2>5, <2>6
<1> QED
  BY <1>1, <1>2, <1>3, <1>4, <1>5 DEF Next

(* The live readings and the current state are the newest of what history  *)
(* holds although requests of one vehicle's agents race, and a batch an    *)
(* agent gave up on is stored after its retry (_apply_metric_candidate,    *)
(* _update_current_state).                                                 *)
THEOREM LiveIsNewest == Spec => [](CandidateIsNewest /\ CurrentStateIsNewest)
<1>1. Init => CandidateIsNewest /\ CurrentStateIsNewest
  BY DEF Init, IngestInit, CandidateIsNewest, CurrentStateIsNewest
<1> QED
  BY <1>1, LiveKeeps, SafeAlways, PTL DEF Spec

-----------------------------------------------------------------------------
(* The order of samples, for agents whose last sequence number can be read *)
(* when they start.                                                        *)
LEMMA OrderInit == Init => OrderInv
<1> SUFFICES ASSUME Init PROVE OrderInv
  OBVIOUS
<1>1. SafeInv /\ Collected = {} /\ stored = {} /\ \A r \in Request : ~InFlight(r)
  BY SafeInitHolds DEF Init, SamplesInit, IngestInit, Collected, InFlight
<1>2. \A a \in Agent, b \in Boot \union {0} : Under(a, b) = {}
  BY <1>1 DEF Under
<1>3. \A a \in Agent : Current(a) = {}
  BY <1>1, <1>2 DEF Current, Init, OutboxInit, Under
<1> QED
  BY <1>1, <1>2, <1>3 DEF OrderInv, TakenInOrder, BootsPass, QueuesOrdered, CounterAhead, BootsOrdered,
                          OldestFirst, OldestSent, Ordered

LEMMA BeforeTransitive ==
  ASSUME SamplesTypeOK, NEW s \in Sample, NEW t \in Sample, NEW u \in Sample, Before(s, t), Before(t, u)
  PROVE  Before(s, u)
<1>1. sequenceOf[s] \in Nat /\ sequenceOf[t] \in Nat /\ sequenceOf[u] \in Nat /\ s \in Int /\ t \in Int /\ u \in Int
  BY SampleAssumption DEF SamplesTypeOK, Sample
<1> QED
  BY <1>1 DEF Before

(* A batch holds everything queued before anything it holds.               *)
LEMMA PendingIsOldest ==
  ASSUME SafeInv, NEW a \in Agent, NEW t \in Pending(a), NEW s \in outbox[a], Before(s, t)
  PROVE  s \in Pending(a)
<1> DEFINE Older(u) == {v \in outbox[a] : Before(v, u)}
<1>1. outbox[a] \subseteq Sample /\ t \in outbox[a] /\ SamplesTypeOK
  BY DEF SafeInv, TypeOK, OutboxTypeOK, Pending
<1>2. Older(s) \subseteq Older(t)
  BY <1>1, BeforeTransitive
<1>3. IsFiniteSet(Sample)
  BY FS_Interval, SampleAssumption DEF Sample
<1>4. IsFiniteSet(Older(t))
  BY <1>1, <1>3, FS_Subset
<1>5. /\ Cardinality(Older(s)) <= Cardinality(Older(t))
      /\ Cardinality(Older(s)) \in Nat /\ Cardinality(Older(t)) \in Nat
  BY <1>2, <1>4, FS_Subset, FS_CardinalityType
<1>6. Cardinality(Older(t)) < MaxBatch
  BY DEF Pending
<1> QED
  BY <1>5, <1>6, OutboxAssumption DEF Pending

LEMMA OrderFrame ==
  ASSUME OrderInv, SafeInv', UNCHANGED <<agentOf, sequenceOf, boot, stored, bootOf>>,
         \A c \in Agent : outbox'[c] \subseteq outbox[c],
         \A c \in Agent : step'[c] # "down" => step[c] # "down" /\ sequence[c] <= sequence'[c],
         \A r \in Request : InFlight(r)' => InFlight(r) /\ sender'[r] = sender[r] /\ sent'[r] = sent[r]
                                              /\ sentBoot'[r] = sentBoot[r]
  PROVE  OrderInv'
<1>1. Collected' = Collected
  BY DEF Collected
<1>2. \A c \in Agent, b \in Boot : Under(c, b)' \subseteq Under(c, b)
  BY <1>1 DEF Under
<1>3. \A c \in Agent : Current(c)' \subseteq Current(c)
  BY <1>1 DEF Current, Under
<1>4. \A c \in Agent : sequence[c] \in Nat /\ sequence'[c] \in Nat
  BY DEF OrderInv, SafeInv, TypeOK, OutboxTypeOK
<1>5. \A c \in Agent : Current(c) \subseteq Sample
  BY DEF OrderInv, SafeInv, TypeOK, OutboxTypeOK, Current, Under, Collected
<1>6. \A s \in Sample : sequenceOf[s] \in Nat
  BY DEF OrderInv, SafeInv, TypeOK, SamplesTypeOK
<1>7. TakenInOrder' /\ OldestFirst'
  BY <1>1 DEF OrderInv, TakenInOrder, OldestFirst
<1>8. BootsPass' /\ OldestSent'
  BY <1>1 DEF OrderInv, BootsPass, OldestSent
<1>9. QueuesOrdered'
  BY <1>3 DEF OrderInv, QueuesOrdered, Ordered
<1>10. CounterAhead'
  BY <1>3, <1>4, <1>5, <1>6 DEF OrderInv, CounterAhead
<1>11. BootsOrdered'
  BY <1>2 DEF OrderInv, BootsOrdered, Ordered
<1> QED
  BY <1>7, <1>8, <1>9, <1>10, <1>11 DEF OrderInv

LEMMA QuietOrder ==
  ASSUME OrderInv, SafeInv', NEW a \in Agent,
         \/ StartUpload(a) /\ UNCHANGED <<ingestVars, requestVars>>
         \/ NothingPending(a) /\ UNCHANGED <<ingestVars, requestVars>>
         \/ CollectFails(a) /\ UNCHANGED <<ingestVars, requestVars>>
         \/ GiveUp(a) \/ Crash(a) \/ Receive(a) \/ Retire(a)
  PROVE  OrderInv'
<1>1. UNCHANGED <<agentOf, sequenceOf, boot, stored, bootOf>>
  BY DEF StartUpload, NothingPending, CollectFails, GiveUp, Crash, Die, Receive, Acknowledge, UploadFails, Retire,
         retire_agent, ingestVars, payload, history
<1>2. \A c \in Agent : outbox'[c] \subseteq outbox[c]
  BY DEF StartUpload, NothingPending, CollectFails, GiveUp, Crash, Die, Receive, Acknowledge, UploadFails, Retire,
         OrderInv, SafeInv, TypeOK, OutboxTypeOK
<1>3. \A c \in Agent : sequence[c] <= sequence'[c]
  BY DEF StartUpload, NothingPending, CollectFails, GiveUp, Crash, Die, Receive, Acknowledge, UploadFails, Retire,
         OrderInv, SafeInv, TypeOK, OutboxTypeOK
<1>4. \A c \in Agent : step'[c] # "down" => step[c] # "down"
  BY DEF StartUpload, NothingPending, CollectFails, GiveUp, Crash, Die, Receive, Acknowledge, UploadFails, Retire,
         OrderInv, SafeInv, TypeOK, OutboxTypeOK
<1>5. UNCHANGED requestVars \/ Clear(awaited[a])
  BY DEF GiveUp, Crash, Receive, Retire
<1>6. \A r \in Request : InFlight(r)' => InFlight(r) /\ sender'[r] = sender[r] /\ sent'[r] = sent[r]
                                         /\ sentBoot'[r] = sentBoot[r]
  BY <1>5 DEF Clear, requestVars, InFlight, OrderInv, SafeInv, TypeOK
<1> QED
  BY <1>1, <1>2, <1>3, <1>4, <1>6, OrderFrame

LEMMA OnTheWayOrder ==
  ASSUME OrderInv, SafeInv', NEW q \in Request, Admit(q) \/ Lose(q) \/ Discard(q)
  PROVE  OrderInv'
<1>1. UNCHANGED <<agentOf, sequenceOf, boot, stored, bootOf, outbox, step, sequence>>
  BY DEF Admit, Lose, Discard, payload, outboxVars, ingestVars
<1>2. \A c \in Agent : sequence[c] \in Nat
  BY DEF OrderInv, SafeInv, TypeOK, OutboxTypeOK
<1>3. \A r \in Request : InFlight(r)' => InFlight(r) /\ sender'[r] = sender[r] /\ sent'[r] = sent[r]
                                         /\ sentBoot'[r] = sentBoot[r]
  BY DEF Admit, Lose, Discard, Clear, InFlight, OrderInv, SafeInv, TypeOK
<1> QED
  BY <1>1, <1>2, <1>3, OrderFrame

LEMMA CommitOrder ==
  ASSUME OrderInv, SafeInv', NEW q \in Request, Commit(q)
  PROVE  OrderInv'
<1>1. /\ InFlight(q) /\ stage' = [stage EXCEPT ![q] = "answered"]
      /\ stored' = stored \union sent[q]
      /\ bootOf' = [s \in Sample |-> IF s \in sent[q] \ stored THEN sentBoot[q] ELSE bootOf[s]]
      /\ UNCHANGED <<agentOf, sequenceOf, outbox, sequence, boot, step, sender, sent, sentBoot>>
  BY DEF Commit, ingest_batch, Known, InFlight, payload
<1>2. sent[q] \subseteq Collected /\ stored \subseteq Collected /\ \A s \in sent[q] : agentOf[s] = sender[q]
  BY <1>1 DEF OrderInv, SafeInv, RequestsCarry, TakenBefore
<1>3. Collected' = Collected /\ Collected \subseteq Sample
  BY <1>1 DEF Collected
<1>4. \A r \in Request : InFlight(r)' => InFlight(r)
  BY <1>1 DEF InFlight, OrderInv, SafeInv, TypeOK
<1>5. \A c \in Agent, b \in Boot : Under(c, b)' \subseteq Under(c, b)
  BY <1>1, <1>2, <1>3, <1>4 DEF Under
<1>6. \A c \in Agent : Current(c)' \subseteq Current(c)
  BY <1>1, <1>2, <1>3, <1>4 DEF Current, Under
<1>7. TakenInOrder'
  BY <1>1, <1>3 DEF OrderInv, TakenInOrder
<1>8. BootsPass'
  <2>1. \A s \in sent[q] : sentBoot[q] \in Boot /\ sentBoot[q] <= boot[agentOf[s]]
    BY <1>1, <1>2 DEF OrderInv, SafeInv, RequestsCarry, BootsPass
  <2>2. \A s \in stored' : bootOf'[s] \in Boot /\ bootOf'[s] <= boot[agentOf[s]]
    BY <1>1, <1>2, <1>3, <2>1 DEF OrderInv, BootsPass
  <2> QED
    BY <1>1, <1>4, <2>2 DEF OrderInv, BootsPass
<1>9. OldestFirst'
  <2>1. \A t \in sent[q], s \in Collected : s < t /\ agentOf[s] = agentOf[t] => s \in stored'
    BY <1>1, <1>2 DEF OrderInv, OldestSent
  <2> QED
    BY <1>1, <1>3, <2>1 DEF OrderInv, OldestFirst
<1>10. OldestSent'
  BY <1>1, <1>3, <1>4 DEF OrderInv, OldestSent
<1>11. QueuesOrdered' /\ CounterAhead' /\ BootsOrdered'
  BY <1>1, <1>5, <1>6 DEF OrderInv, QueuesOrdered, CounterAhead, BootsOrdered, Ordered
<1> QED
  BY <1>7, <1>8, <1>9, <1>10, <1>11 DEF OrderInv

LEMMA SendOrder ==
  ASSUME OrderInv, SafeInv', NEW a \in Agent, Send(a)
  PROVE  OrderInv'
<1>1. PICK q \in Request :
       /\ stage[q] = "free" /\ stage' = [stage EXCEPT ![q] = "sent"]
       /\ sender' = [sender EXCEPT ![q] = a]
       /\ sent' = [sent EXCEPT ![q] = Pending(a)]
       /\ sentBoot' = [sentBoot EXCEPT ![q] = boot[a]]
  BY DEF Send
<1>2. /\ step' = [step EXCEPT ![a] = "waiting"] /\ step[a] = "draining"
      /\ UNCHANGED <<agentOf, sequenceOf, outbox, sequence, boot, stored, bootOf>>
  BY DEF Send, payload, ingestVars
<1>3. Collected' = Collected /\ Collected \subseteq Sample
  BY <1>2 DEF Collected
<1>4. \A r \in Request \ {q} : InFlight(r)' => InFlight(r) /\ sender'[r] = sender[r] /\ sent'[r] = sent[r]
                                               /\ sentBoot'[r] = sentBoot[r]
  BY <1>1 DEF InFlight, OrderInv, SafeInv, TypeOK
<1>5. sender'[q] = a /\ sent'[q] = Pending(a) /\ sentBoot'[q] = boot[a] /\ boot[a] \in Boot
  BY <1>1, <1>2 DEF OrderInv, SafeInv, TypeOK, AgentsRun
<1>6. Pending(a) \subseteq outbox[a]
  BY DEF Pending
<1>7. \A s \in outbox[a] : s \in Collected /\ agentOf[s] = a
  BY DEF OrderInv, SafeInv, TakenBefore
<1>8. \A c \in Agent, b \in Boot : Under(c, b)' \subseteq Under(c, b) \union (IF c = a /\ b = boot[a] THEN outbox[a] ELSE {})
  BY <1>2, <1>3, <1>4, <1>5, <1>6, <1>7 DEF Under
<1>9. \A c \in Agent : Current(c)' \subseteq Current(c)
  BY <1>2, <1>3, <1>4, <1>5, <1>6, <1>7 DEF Current, Under
<1>10. TakenInOrder' /\ OldestFirst'
  BY <1>2, <1>3 DEF OrderInv, TakenInOrder, OldestFirst
<1>11. BootsPass'
  <2>1. boot[a] \in Int /\ boot[a] <= boot[a]
    BY <1>5, SampleAssumption DEF Boot
  <2> QED
    BY <1>2, <1>4, <1>5, <2>1 DEF OrderInv, BootsPass
<1>12. QueuesOrdered'
  BY <1>2, <1>9 DEF OrderInv, QueuesOrdered, Ordered
<1>13. CounterAhead'
  BY <1>2, <1>9 DEF OrderInv, CounterAhead, SafeInv, TypeOK, OutboxTypeOK
<1>14. BootsOrdered'
  <2>1. \A c \in Agent, b \in Boot : Under(c, b)' \subseteq Under(c, b) \/ Under(c, b)' \subseteq Current(c)
    BY <1>8 DEF Current
  <2> QED
    BY <1>2, <2>1 DEF OrderInv, QueuesOrdered, BootsOrdered, Ordered
<1>15. OldestSent'
  <2>1. ASSUME NEW t \in Pending(a), NEW s \in Collected, s < t, agentOf[s] = a
        PROVE  s \in stored \union Pending(a)
    <3>1. CASE s \in outbox[a]
      <4>1. s \in Current(a) /\ t \in Current(a)
        BY <1>6, <3>1 DEF Current
      <4>2. Before(s, t)
        BY <2>1, <4>1 DEF OrderInv, QueuesOrdered, Ordered, Before
      <4> QED
        BY <3>1, <4>2, PendingIsOldest DEF OrderInv
    <3>2. CASE s \notin outbox[a]
      BY <2>1, <3>2 DEF OrderInv, SafeInv, NothingLost
    <3> QED
      BY <3>1, <3>2
  <2>2. ASSUME NEW r \in Request \ {q}, InFlight(r)'
        PROVE  \A t \in sent'[r], s \in Collected' : s < t /\ agentOf'[s] = sender'[r] => s \in stored' \union sent'[r]
    BY <1>2, <1>3, <1>4, <2>2 DEF OrderInv, OldestSent
  <2>3. \A t \in sent'[q], s \in Collected' : s < t /\ agentOf'[s] = sender'[q] => s \in stored' \union sent'[q]
    BY <1>2, <1>3, <1>5, <2>1
  <2> QED
    BY <2>2, <2>3 DEF OldestSent
<1> QED
  BY <1>10, <1>11, <1>12, <1>13, <1>14, <1>15 DEF OrderInv

LEMMA CollectOrder ==
  ASSUME OrderInv, SafeInv', NEW a \in Agent, Collect(a), UNCHANGED <<ingestVars, requestVars>>
  PROVE  OrderInv'
<1>1. PICK u \in Sample :
        /\ IsNext(a, u)
        /\ sequenceOf' = [sequenceOf EXCEPT ![u] = sequence[a] + 1]
        /\ outbox' = [outbox EXCEPT ![a] = @ \union {u}]
  BY DEF Collect
<1>2. /\ sequence' = [sequence EXCEPT ![a] = @ + 1] /\ step[a] = "idle"
      /\ UNCHANGED <<agentOf, boot, step, stored, bootOf, stage, sender, sent, sentBoot>>
  BY DEF Collect, payload, ingestVars, requestVars
<1>3. sequence[a] \in Nat /\ agentOf[u] = a /\ u \notin Collected
  BY <1>1 DEF OrderInv, SafeInv, TypeOK, OutboxTypeOK, IsNext
<1>4. Collected' = Collected \union {u} /\ Collected \subseteq Sample
  BY <1>1, <1>3 DEF OrderInv, SafeInv, TypeOK, SamplesTypeOK, Collected
<1>5. stored \subseteq Collected /\ \A r \in Request : InFlight(r) => sent[r] \subseteq Collected
  BY DEF OrderInv, SafeInv, TakenBefore, RequestsCarry
<1>6. \A c \in Agent, b \in Boot : Under(c, b)' = Under(c, b)
  BY <1>2, <1>3, <1>4, <1>5 DEF Under, InFlight
<1>7. \A c \in Agent : Current(c)' = Current(c) \union (IF c = a THEN {u} ELSE {})
  BY <1>1, <1>2, <1>3, <1>4, <1>5 DEF Current, Under, InFlight, OrderInv, SafeInv, TypeOK, OutboxTypeOK
<1>8. \A c \in Agent : \A t \in Current(c) : t \in Collected /\ agentOf[t] = c
  BY DEF OrderInv, SafeInv, TakenBefore, Current, Under
<1>9. \A t \in Collected : sequenceOf'[t] = sequenceOf[t] /\ sequenceOf[t] \in Nat
  BY <1>1, <1>3, <1>4 DEF OrderInv, SafeInv, TypeOK, SamplesTypeOK
<1>10. \A t \in Current(a) : sequenceOf[t] <= sequence[a]
  BY <1>2 DEF OrderInv, CounterAhead
<1>11. \A t \in Collected : agentOf[t] = a => ~(u < t)
  BY <1>3, <1>4 DEF OrderInv, TakenInOrder
<1>12. sequenceOf'[u] = sequence[a] + 1 /\ sequence'[a] = sequence[a] + 1
  BY <1>1, <1>2 DEF OrderInv, SafeInv, TypeOK, SamplesTypeOK, OutboxTypeOK
<1>13. u \in Int /\ \A t \in Sample : t \in Int
  BY SampleAssumption DEF Sample
<1>14. TakenInOrder'
  <2>1. \A s \in Sample : s < u /\ agentOf[s] = agentOf[u] => s \in Collected
    BY <1>1, <1>3 DEF IsNext
  <2> QED
    BY <1>2, <1>4, <2>1 DEF OrderInv, TakenInOrder
<1>15. BootsPass'
  BY <1>2 DEF OrderInv, BootsPass, InFlight
<1>16. QueuesOrdered'
  <2>1. ASSUME NEW c \in Agent, NEW s \in Current(c)', NEW t \in Current(c)', s < t
        PROVE  sequenceOf'[s] < sequenceOf'[t]
    <3>1. CASE s \in Current(c) /\ t \in Current(c)
      BY <1>8, <1>9, <2>1, <3>1 DEF OrderInv, QueuesOrdered, Ordered
    <3>2. CASE c = a /\ s \in Current(a) /\ t = u
      BY <1>3, <1>8, <1>9, <1>10, <1>12, <3>2
    <3>3. CASE c = a /\ s = u /\ t \in Current(a)
      BY <1>8, <1>11, <2>1, <3>3
    <3>4. CASE s = u /\ t = u
      BY <1>13, <2>1, <3>4
    <3> QED
      BY <1>7, <3>1, <3>2, <3>3, <3>4
  <2> QED
    BY <2>1 DEF QueuesOrdered, Ordered
<1>17. CounterAhead'
  <2>1. ASSUME NEW c \in Agent, step'[c] # "down", NEW s \in Current(c)'
        PROVE  sequenceOf'[s] <= sequence'[c]
    <3>1. CASE c # a
      <4>1. sequence'[c] = sequence[c] /\ s \in Current(c)
        BY <1>2, <1>7, <3>1 DEF OrderInv, SafeInv, TypeOK, OutboxTypeOK
      <4> QED
        BY <1>2, <1>8, <1>9, <2>1, <4>1 DEF OrderInv, CounterAhead
    <3>2. CASE c = a /\ s = u
      BY <1>3, <1>12, <3>2
    <3>3. CASE c = a /\ s \in Current(a)
      BY <1>3, <1>8, <1>9, <1>10, <1>12, <3>3
    <3> QED
      BY <1>7, <3>1, <3>2, <3>3
  <2> QED
    BY <2>1 DEF CounterAhead
<1>18. BootsOrdered'
  <2>1. \A c \in Agent, b \in Boot : Under(c, b) \subseteq Collected
    BY DEF Under
  <2> QED
    BY <1>6, <1>9, <2>1 DEF OrderInv, BootsOrdered, Ordered
<1>19. OldestFirst'
  <2>1. \A t \in stored : u < t => agentOf[u] # agentOf[t]
    BY <1>3, <1>5, <1>11
  <2> QED
    BY <1>2, <1>4, <2>1 DEF OrderInv, OldestFirst
<1>20. OldestSent'
  <2>1. \A r \in Request : InFlight(r) => \A t \in sent[r] : u < t => agentOf[u] # sender[r]
    BY <1>3, <1>5, <1>11 DEF OrderInv, SafeInv, RequestsCarry
  <2> QED
    BY <1>2, <1>4, <2>1 DEF OrderInv, OldestSent, InFlight
<1> QED
  BY <1>14, <1>15, <1>16, <1>17, <1>18, <1>19, <1>20 DEF OrderInv

LEMMA StartOrder ==
  ASSUME OrderInv, SafeInv', ReadFails = FALSE, NEW a \in Agent, Start(a),
         UNCHANGED <<ingestVars, requestVars>>
  PROVE  OrderInv'
<1>1. /\ boot' = [boot EXCEPT ![a] = @ + 1] /\ sequence' = [sequence EXCEPT ![a] = LastSequence(a)]
      /\ step' = [step EXCEPT ![a] = "idle"]
      /\ UNCHANGED <<agentOf, outbox, sequenceOf, stored, bootOf, stage, sender, sent, sentBoot>>
  BY DEF Start, payload, ingestVars, requestVars
<1>2. Collected' = Collected /\ Collected \subseteq Sample
  BY <1>1 DEF Collected
<1>3. \A r \in Request : InFlight(r)' <=> InFlight(r)
  BY <1>1 DEF InFlight
<1>4. \A c \in Agent, b \in Boot : Under(c, b)' = Under(c, b)
  BY <1>1, <1>2, <1>3 DEF Under
<1>5. /\ boot[a] \in Nat /\ boot'[a] = boot[a] + 1
      /\ \A c \in Agent \ {a} : boot'[c] = boot[c] /\ sequence'[c] = sequence[c] /\ step'[c] = step[c]
      /\ sequence'[a] = LastSequence(a)
  BY <1>1, SampleAssumption DEF OrderInv, SafeInv, TypeOK, OutboxTypeOK, Boot
<1>6. Current(a)' = outbox[a]
  <2>1. ASSUME NEW s \in Collected, agentOf[s] = a, s \in stored
        PROVE  bootOf[s] # boot[a] + 1
    BY <1>5, <2>1, SampleAssumption DEF OrderInv, BootsPass, Boot
  <2>2. ASSUME NEW s \in Collected, agentOf[s] = a, NEW r \in Request, InFlight(r), s \in sent[r]
        PROVE  sentBoot[r] # boot[a] + 1
    <3>1. sender[r] = a /\ sentBoot[r] \in Boot
      BY <2>2 DEF OrderInv, SafeInv, RequestsCarry
    <3> QED
      BY <1>5, <2>2, <3>1, SampleAssumption DEF OrderInv, BootsPass, Boot
  <2> QED
    BY <1>1, <1>2, <1>3, <1>5, <2>1, <2>2 DEF Current, Under
<1>7. \A c \in Agent \ {a} : Current(c)' = Current(c)
  BY <1>1, <1>2, <1>3, <1>5 DEF Current, Under
<1>8. outbox[a] \subseteq Current(a)
  BY DEF Current
<1>9. TakenInOrder' /\ OldestFirst' /\ OldestSent'
  BY <1>1, <1>2, <1>3 DEF OrderInv, TakenInOrder, OldestFirst, OldestSent
<1>10. BootsPass'
  <2>1. \A c \in Agent : boot[c] \in Int /\ boot'[c] \in Int /\ boot[c] <= boot'[c]
    BY <1>5, SampleAssumption DEF OrderInv, SafeInv, TypeOK, OutboxTypeOK, Boot
  <2>2. \A s \in stored : agentOf[s] \in Agent /\ bootOf[s] \in Int
    BY SampleAssumption DEF OrderInv, SafeInv, TypeOK, SamplesTypeOK, IngestTypeOK, Boot
  <2>3. \A r \in Request : InFlight(r) => sender[r] \in Agent /\ sentBoot[r] \in Int
    BY SampleAssumption DEF OrderInv, SafeInv, RequestsCarry, Boot
  <2> QED
    BY <1>1, <1>3, <2>1, <2>2, <2>3 DEF OrderInv, BootsPass
<1>11. QueuesOrdered'
  BY <1>1, <1>6, <1>7, <1>8 DEF OrderInv, QueuesOrdered, Ordered
<1>12. CounterAhead'
  <2>1. \A s \in outbox[a] : sequenceOf[s] <= LastSequence(a)
    BY LastSequenceIs DEF OrderInv
  <2> QED
    BY <1>1, <1>5, <1>6, <1>7, <2>1 DEF OrderInv, CounterAhead
<1>13. BootsOrdered'
  BY <1>1, <1>4 DEF OrderInv, BootsOrdered, Ordered
<1> QED
  BY <1>9, <1>10, <1>11, <1>12, <1>13 DEF OrderInv

LEMMA OrderStep ==
  ASSUME OrderInv, ReadFails = FALSE, [Next]_vars
  PROVE  OrderInv'
<1>1. SafeInv'
  BY SafeStep DEF OrderInv
<1>2. CASE UNCHANGED vars
  <2>1. UNCHANGED <<agentOf, sequenceOf, boot, stored, bootOf, outbox, step, sequence, stage, sender, sent, sentBoot>>
    BY <1>2 DEF vars, payload, outboxVars, ingestVars, requestVars
  <2>2. \A c \in Agent : sequence[c] \in Nat
    BY DEF OrderInv, SafeInv, TypeOK, OutboxTypeOK
  <2>3. \A r \in Request : InFlight(r)' => InFlight(r)
    BY <2>1 DEF InFlight
  <2> QED
    BY <1>1, <2>1, <2>2, <2>3, OrderFrame
<1>3. ASSUME NEW a \in Agent, Loop(a)
      PROVE  OrderInv'
  BY <1>1, <1>3, StartOrder, QuietOrder DEF Loop
<1>4. ASSUME NEW a \in Agent, Sampling(a)
      PROVE  OrderInv'
  BY <1>1, <1>4, CollectOrder, QuietOrder DEF Sampling
<1>5. ASSUME NEW a \in Agent, Send(a) \/ Receive(a) \/ GiveUp(a) \/ Crash(a) \/ Retire(a)
      PROVE  OrderInv'
  BY <1>1, <1>5, SendOrder, QuietOrder
<1>6. ASSUME NEW r \in Request, Admit(r) \/ Commit(r) \/ Lose(r) \/ Discard(r)
      PROVE  OrderInv'
  BY <1>1, <1>6, CommitOrder, OnTheWayOrder
<1> QED
  BY <1>2, <1>3, <1>4, <1>5, <1>6 DEF Next

LEMMA OrderAlways ==
  ASSUME ReadFails = FALSE
  PROVE  Spec => []OrderInv
<1>1. OrderInv /\ [Next]_vars => OrderInv'
  BY OrderStep
<1> QED
  BY <1>1, OrderInit, PTL DEF Spec

(* The upload order, ORDER BY sequence in queue.go, is the order samples   *)
(* were taken in, over restarts, acknowledgements and failed inserts, as   *)
(* long as a start can read the last number.                               *)
THEOREM QueuesKeepOrder ==
  ASSUME ReadFails = FALSE
  PROVE  Spec => []QueuedInOrder
<1>1. OrderInv => QueuedInOrder
  BY DEF OrderInv, QueuesOrdered, QueuedInOrder, Ordered, Current
<1> QED
  BY <1>1, OrderAlways, PTL

(* Within a boot id the sequence orders history as the agent took it,      *)
(* although the boot id is that of the upload ("boot-local sequence",      *)
(* architecture.md).                                                       *)
THEOREM SequencesOrderBoots ==
  ASSUME ReadFails = FALSE
  PROVE  Spec => []BootSequenceOrders
<1>1. ASSUME OrderInv, NEW s \in stored, NEW t \in stored, s < t, agentOf[s] = agentOf[t], bootOf[s] = bootOf[t]
      PROVE  sequenceOf[s] < sequenceOf[t]
  <2>1. PICK a \in Agent, b \in Boot : a = agentOf[s] /\ b = bootOf[s]
    BY <1>1 DEF OrderInv, SafeInv, TypeOK, SamplesTypeOK, IngestTypeOK, BootsPass
  <2>2. s \in Under(a, b) /\ t \in Under(a, b)
    BY <1>1, <2>1 DEF Under, OrderInv, SafeInv, TakenBefore
  <2> QED
    BY <1>1, <2>1, <2>2 DEF OrderInv, BootsOrdered, Ordered
<1>2. OrderInv => BootSequenceOrders
  BY <1>1 DEF BootSequenceOrders
<1> QED
  BY <1>2, OrderAlways, PTL

(* A source's history has no holes at its old end, however batches are     *)
(* cut, lost, retried or late (ORDER BY sequence in queue.go).             *)
THEOREM OldestComeFirst ==
  ASSUME ReadFails = FALSE
  PROVE  Spec => []OldestFirst
<1>1. OrderInv => OldestFirst
  BY DEF OrderInv
<1> QED
  BY <1>1, OrderAlways, PTL
=============================================================================
