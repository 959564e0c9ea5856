------------------------------- MODULE Ingest -------------------------------
(***************************************************************************)
(* ingest_batch, the one transaction through which samples reach history,  *)
(* candidates, current state and hook triggers                             *)
(* (backend/app/telemetry/services.py).  Concurrent batches of a vehicle   *)
(* take its row lock before they read anything they depend on, except the  *)
(* source's own row: the transaction after that lock is one step here, and *)
(* the check of the source is a step of its own in Delivery.               *)
(***************************************************************************)
EXTENDS Samples

VARIABLES
  stored,     \* Telemetry rows
  bootOf,     \* Telemetry.boot_id
  triggers,   \* hook triggers that name the sample
  candAt,     \* MetricCandidate.observed_at of each source
  candOf,     \* MetricCandidate.telemetry_id
  stateAt,    \* VehicleState.updated_at
  stateOf,    \* VehicleState.telemetry_id
  retired     \* sources with retired_at set

history == <<stored, bootOf, triggers>>
live == <<candAt, candOf, stateAt, stateOf>>
ingestVars == <<stored, bootOf, triggers, candAt, candOf, stateAt, stateOf, retired>>

IngestTypeOK ==
  /\ stored \in SUBSET Sample
  /\ bootOf \in [Sample -> Boot \union {0}]
  /\ triggers \in [Sample -> Nat]
  /\ candAt \in [Agent -> Time \union {Never}]
  /\ candOf \in [Agent -> Sample \union {0}]
  /\ stateAt \in Time \union {Never}
  /\ stateOf \in Sample \union {0}
  /\ retired \in SUBSET Agent

IngestInit ==
  /\ stored = {}
  /\ bootOf = [s \in Sample |-> 0]
  /\ triggers = [s \in Sample |-> 0]
  /\ candAt = [a \in Agent |-> Never]
  /\ candOf = [a \in Agent |-> 0]
  /\ stateAt = Never
  /\ stateOf = 0
  /\ retired = {}

-----------------------------------------------------------------------------
(* Mutation only: duplicates told by boot and sequence instead of the id.  *)
Known_byBootSequence(b, B) ==
  {s \in B : \E t \in stored : bootOf[t] = b /\ sequenceOf[t] = sequenceOf[s]}

(* existing_ids, read under the vehicle lock.                              *)
Known(b, B) == B \intersect stored

(* Mutation only: the last observation of a batch always wins.             *)
Candidate_lastWins(a, new) ==
  LET seen == {s \in new : observedAt[s] # Never}
  IN  IF seen = {} THEN candOf[a]
      ELSE CHOOSE s \in seen : \A t \in seen : t <= s

(* _apply_metric_candidate over the batch in its order: only a strictly    *)
(* newer observation replaces the candidate, so of equals the first stays. *)
Candidate(a, new) ==
  LET newer == {s \in new : observedAt[s] > candAt[a]}
  IN  IF newer = {} THEN candOf[a]
      ELSE CHOOSE s \in newer : \A t \in newer :
             \/ observedAt[t] < observedAt[s]
             \/ observedAt[t] = observedAt[s] /\ s <= t

(* The key stored samples are sorted by: recorded_at, then sequence.       *)
Newest(S) == CHOOSE s \in S : \A t \in S :
  \/ recordedAt[t] < recordedAt[s]
  \/ recordedAt[t] = recordedAt[s] /\ t <= s

(* Mutation only: current state follows arrival instead of record time.    *)
CurrentState_byArrival(new) == IF new = {} THEN stateOf ELSE Newest(new)

(* _update_current_state: updated_at never goes back, and the sample shown *)
(* is the one that carries it.                                             *)
CurrentState(new) ==
  IF new # {} /\ recordedAt[Newest(new)] >= stateAt THEN Newest(new) ELSE stateOf

ingest_batch(a, b, B) ==
  LET new   == B \ Known(b, B)
      cand  == Candidate(a, new)
      state == CurrentState(new)
  IN  /\ stored' = stored \union new
      /\ bootOf' = [s \in Sample |-> IF s \in new THEN b ELSE bootOf[s]]
      /\ triggers' = [s \in Sample |-> IF s \in new THEN triggers[s] + 1 ELSE triggers[s]]
      /\ candOf' = [candOf EXCEPT ![a] = cand]
      /\ candAt' = [candAt EXCEPT ![a] = IF cand = candOf[a] THEN @ ELSE observedAt[cand]]
      /\ stateOf' = state
      /\ stateAt' = IF state = stateOf THEN stateAt ELSE recordedAt[state]
      /\ UNCHANGED <<payload, sequenceOf, retired>>

(* retire_agent: permanent, and what the source reported stays.            *)
retire_agent(a) ==
  /\ a \notin retired
  /\ retired' = retired \union {a}
  /\ UNCHANGED <<payload, sequenceOf, history, live>>

ServerInit == SamplesInit /\ IngestInit

(* On its own the server is handed any batch of one source's samples, in   *)
(* any order and any number of times.                                      *)
IngestNext ==
  \E a \in Agent :
    \/ /\ a \notin retired
       /\ \E b \in Boot, B \in SUBSET {s \in Sample : agentOf[s] = a} :
            B # {} /\ ingest_batch(a, b, B)
    \/ retire_agent(a)

IngestSpec == ServerInit /\ [][IngestNext]_<<ingestVars, payload, sequenceOf>>

-----------------------------------------------------------------------------
(* The live reading of a source is its newest observation, in whatever     *)
(* order and however often batches arrive ("advances newer per-source      *)
(* candidates", architecture.md).                                          *)
CandidateIsNewest ==
  \A a \in Agent :
    LET seen == {s \in stored : agentOf[s] = a /\ observedAt[s] # Never}
    IN  IF seen = {} THEN candAt[a] = Never /\ candOf[a] = 0
        ELSE /\ candOf[a] \in seen
             /\ candAt[a] = observedAt[candOf[a]]
             /\ \A s \in seen : observedAt[s] <= candAt[a]

(* The vehicle's current state names the newest sample in its history,     *)
(* whichever of its sources reported it and whenever it arrived.           *)
CurrentStateIsNewest ==
  IF stored = {} THEN stateAt = Never /\ stateOf = 0
  ELSE /\ stateOf \in stored
       /\ stateAt = recordedAt[stateOf]
       /\ \A s \in stored : recordedAt[s] <= stateAt

(* A sample in history queued hooks exactly once, when it was stored.      *)
TriggeredOnce == \A s \in Sample : triggers[s] = (IF s \in stored THEN 1 ELSE 0)

(* A delivered sample is never removed or rewritten by a later batch: even *)
(* resent after a restart it keeps the boot it first arrived under.        *)
HistoryKept(s) == s \in stored' /\ bootOf'[s] = bootOf[s] /\ triggers'[s] = triggers[s]
RetriesChangeNothing == [][\A s \in stored : HistoryKept(s)]_ingestVars
=============================================================================
