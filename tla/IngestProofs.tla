---------------------------- MODULE IngestProofs ----------------------------
(***************************************************************************)
(* Exactly-once storage, candidates and current state for any number of    *)
(* sources, samples, times and boots: what the run shows on three samples. *)
(* Then the vehicle under a reset: what it shows is supported by its       *)
(* history, whatever batches and resets do to each other.                  *)
(***************************************************************************)
EXTENDS Ingest, VehicleReset, WellFoundedInduction, TLAPS

-----------------------------------------------------------------------------
(* Sets of numbers have ends: what the choices of Ingest and Outbox among  *)
(* samples and sequences rest on.                                          *)
LEMMA LeastExists ==
  ASSUME NEW T \in SUBSET Nat, T # {}
  PROVE  \E m \in T : \A n \in T : m <= n
<1>1. PICK m \in T : \A n \in T : ~(<<n, m>> \in OpToRel(<, Nat))
  BY NatLessThanWellFounded, WFMin
<1>2. \A n \in T : ~(n < m)
  BY <1>1 DEF OpToRel
<1> QED
  BY <1>2

LEMMA GreatestExists ==
  ASSUME NEW T \in SUBSET Nat, T # {}, NEW bound \in Nat, \A n \in T : n <= bound
  PROVE  \E m \in T : \A n \in T : n <= m
<1> DEFINE D == {bound - n : n \in T}
<1>1. D \in SUBSET Nat
  OBVIOUS
<1>2. D # {}
  OBVIOUS
<1>3. PICK d \in D : \A n \in D : d <= n
  BY <1>1, <1>2, LeastExists
<1>4. PICK m \in T : d = bound - m
  BY <1>3
<1>5. \A n \in T : bound - m <= bound - n
  BY <1>3, <1>4
<1> QED
  BY <1>5

(* Of any samples one has the newest value of f, and of those with it one  *)
(* comes first and one last.                                               *)
LEMMA NewestExists ==
  ASSUME NEW S \in SUBSET Sample, S # {}, NEW f \in [Sample -> Time \union {Never}]
  PROVE  /\ \E s \in S : \A t \in S : f[t] < f[s] \/ (f[t] = f[s] /\ s <= t)
         /\ \E s \in S : \A t \in S : f[t] < f[s] \/ (f[t] = f[s] /\ t <= s)
<1> DEFINE T == {f[s] : s \in S}
<1>1. T \in SUBSET Nat /\ \A n \in T : n <= MaxTime
  BY SampleAssumption DEF Sample, Time, Never
<1>2. T # {}
  OBVIOUS
<1>3. PICK m \in T : \A n \in T : n <= m
  BY <1>1, <1>2, GreatestExists, SampleAssumption
<1> DEFINE F == {s \in S : f[s] = m}
<1>4. F \in SUBSET Nat /\ F # {} /\ \A s \in F : s <= MaxSample
  BY <1>3, SampleAssumption DEF Sample
<1>5. \A t \in S : f[t] \in Nat /\ m \in Nat /\ f[t] <= m
  BY <1>1, <1>3
<1>6. PICK s \in F : \A t \in F : s <= t
  BY <1>4, LeastExists
<1>7. PICK s2 \in F : \A t \in F : t <= s2
  BY <1>4, GreatestExists, SampleAssumption
<1>8. \A t \in S : f[t] < f[s] \/ (f[t] = f[s] /\ s <= t)
  BY <1>5, <1>6
<1>9. \A t \in S : f[t] < f[s2] \/ (f[t] = f[s2] /\ t <= s2)
  BY <1>5, <1>7
<1> QED
  BY <1>8, <1>9

-----------------------------------------------------------------------------

(* The rows exist for samples only, and each was triggered when stored.    *)
OnceInv ==
  /\ stored \in SUBSET Sample
  /\ triggers \in [Sample -> Nat]
  /\ TriggeredOnce

LEMMA OnceInit == ServerInit => OnceInv
  BY DEF ServerInit, SamplesInit, IngestInit, OnceInv, TriggeredOnce

(* A batch, of whatever samples, triggers the ones it adds and no other.   *)
LEMMA BatchOnce ==
  ASSUME NEW a \in Agent, NEW b \in Boot, NEW B \in SUBSET Sample,
         OnceInv, ingest_batch(a, b, B)
  PROVE  OnceInv' /\ \A s \in stored : HistoryKept(s)
<1> DEFINE new == B \ Known(b, B)
<1>1. new = B \ stored
  BY DEF Known
<1>2. /\ stored' = stored \union new
      /\ bootOf' = [s \in Sample |-> IF s \in new THEN b ELSE bootOf[s]]
      /\ triggers' = [s \in Sample |-> IF s \in new THEN triggers[s] + 1 ELSE triggers[s]]
  BY DEF ingest_batch
<1>3. \A s \in stored : HistoryKept(s)
  BY <1>1, <1>2 DEF HistoryKept, OnceInv
<1>4. stored' \in SUBSET Sample /\ triggers' \in [Sample -> Nat]
  BY <1>1, <1>2 DEF OnceInv
<1>5. TriggeredOnce'
  BY <1>1, <1>2 DEF OnceInv, TriggeredOnce
<1> QED
  BY <1>3, <1>4, <1>5 DEF OnceInv

LEMMA StepOnce ==
  ASSUME OnceInv, [IngestNext]_<<ingestVars, payload, sequenceOf>>
  PROVE  OnceInv' /\ ((\A s \in stored : HistoryKept(s)) \/ UNCHANGED ingestVars)
<1>1. CASE UNCHANGED <<ingestVars, payload, sequenceOf>>
  BY <1>1 DEF OnceInv, TriggeredOnce, ingestVars
<1>2. ASSUME NEW a \in Agent, NEW b \in Boot,
             NEW B \in SUBSET {s \in Sample : agentOf[s] = a}, ingest_batch(a, b, B)
      PROVE  OnceInv' /\ \A s \in stored : HistoryKept(s)
  BY <1>2, BatchOnce
<1>3. ASSUME NEW a \in Agent, retire_agent(a)
      PROVE  OnceInv' /\ \A s \in stored : HistoryKept(s)
  BY <1>3 DEF retire_agent, history, OnceInv, TriggeredOnce, HistoryKept
<1> QED
  BY <1>1, <1>2, <1>3 DEF IngestNext

(* However often and in whatever batches a sample is delivered, hooks are  *)
(* triggered for it once, when it is stored (_enqueue_hooks is given the   *)
(* stored samples only).                                                   *)
THEOREM TriggersOnce == IngestSpec => []TriggeredOnce
<1>1. OnceInv /\ [IngestNext]_<<ingestVars, payload, sequenceOf>> => OnceInv'
  BY StepOnce
<1>2. OnceInv => TriggeredOnce
  BY DEF OnceInv
<1> QED
  BY OnceInit, <1>1, <1>2, PTL DEF IngestSpec

(* A retry, under the same boot id or another, leaves the rows of stored   *)
(* samples and their triggers alone.                                       *)
THEOREM RetriesHarmless == IngestSpec => RetriesChangeNothing
<1>1. OnceInv /\ [IngestNext]_<<ingestVars, payload, sequenceOf>> => OnceInv'
  BY StepOnce
<1>2. OnceInv /\ [IngestNext]_<<ingestVars, payload, sequenceOf>>
        => [\A s \in stored : HistoryKept(s)]_ingestVars
  BY StepOnce
<1> QED
  BY OnceInit, <1>1, <1>2, PTL DEF IngestSpec, RetriesChangeNothing

-----------------------------------------------------------------------------
(* What a batch makes of the candidate: it stays unless something newer    *)
(* came, and then it is the newest that came.                              *)
LEMMA CandidateChosen ==
  ASSUME SamplesTypeOK, NEW a \in Agent, candAt[a] \in Nat, NEW new \in SUBSET Sample
  PROVE  LET newer == {s \in new : observedAt[s] > candAt[a]}
         IN  /\ newer = {} => Candidate(a, new) = candOf[a]
             /\ newer # {} => /\ Candidate(a, new) \in newer
                             /\ \A t \in newer : observedAt[t] <= observedAt[Candidate(a, new)]
<1> DEFINE newer == {s \in new : observedAt[s] > candAt[a]}
           First(s) == \A t \in newer :
             \/ observedAt[t] < observedAt[s]
             \/ observedAt[t] = observedAt[s] /\ s <= t
<1>1. CASE newer = {}
  BY <1>1 DEF Candidate
<1>2. CASE newer # {}
  <2>1. observedAt \in [Sample -> Time \union {Never}]
    BY ReadingAssumption DEF SamplesTypeOK
  <2>2. \E s \in newer : First(s)
    <3>1. newer \in SUBSET Sample
      OBVIOUS
    <3> HIDE DEF newer
    <3> QED
      BY <1>2, <2>1, <3>1, NewestExists
  <2>3. Candidate(a, new) = CHOOSE s \in newer : First(s)
    BY <1>2 DEF Candidate
  <2>4. Candidate(a, new) \in newer /\ First(Candidate(a, new))
    BY <2>2, <2>3
  <2>5. \A t \in newer : observedAt[t] \in Nat
    BY <2>1, SampleAssumption DEF Time, Never
  <2> QED
    BY <1>2, <2>4, <2>5
<1> QED
  BY <1>1, <1>2

LEMMA NewestChosen ==
  ASSUME SamplesTypeOK, NEW S \in SUBSET Sample, S # {}
  PROVE  Newest(S) \in S /\ \A t \in S : recordedAt[t] <= recordedAt[Newest(S)]
<1> DEFINE Last(s) == \A t \in S :
             \/ recordedAt[t] < recordedAt[s]
             \/ recordedAt[t] = recordedAt[s] /\ t <= s
<1>1. recordedAt \in [Sample -> Time \union {Never}]
  BY DEF SamplesTypeOK
<1>2. \E s \in S : Last(s)
  BY <1>1, NewestExists
<1>3. Newest(S) = CHOOSE s \in S : Last(s)
  BY DEF Newest
<1>4. Newest(S) \in S /\ Last(Newest(S))
  BY <1>2, <1>3
<1>5. \A t \in S : recordedAt[t] \in Nat
  BY <1>1, SampleAssumption DEF Time, Never
<1> QED
  BY <1>4, <1>5

LEMMA StateChosen ==
  ASSUME SamplesTypeOK, IngestTypeOK, NEW new \in SUBSET Sample
  PROVE  \/ CurrentState(new) = stateOf /\ \A s \in new : recordedAt[s] < stateAt
         \/ /\ CurrentState(new) \in new
            /\ \A s \in new : recordedAt[s] <= recordedAt[CurrentState(new)]
            /\ stateAt <= recordedAt[CurrentState(new)]
<1>1. stateAt \in Nat /\ \A t \in new : recordedAt[t] \in Nat
  BY SampleAssumption DEF SamplesTypeOK, IngestTypeOK, Time, Never
<1>2. CASE new = {}
  BY <1>2 DEF CurrentState
<1>3. CASE new # {}
  BY <1>1, <1>3, NewestChosen DEF CurrentState
<1> QED
  BY <1>2, <1>3

-----------------------------------------------------------------------------
(* The live rows after a batch, of one source or (for types) of any.       *)
LEMMA BatchTypes ==
  ASSUME SamplesTypeOK, IngestTypeOK, NEW a \in Agent, NEW b \in Boot,
         NEW B \in SUBSET Sample, ingest_batch(a, b, B)
  PROVE  SamplesTypeOK' /\ IngestTypeOK'
<1> DEFINE new == B \ Known(b, B)
           cand == Candidate(a, new)
           state == CurrentState(new)
<1>1. new \in SUBSET Sample
  OBVIOUS
<1>2. candAt[a] \in Nat
  BY SampleAssumption DEF IngestTypeOK, Time, Never
<1>3. cand = candOf[a] \/ cand \in Sample
  BY <1>1, <1>2, CandidateChosen
<1>4. state = stateOf \/ state \in Sample
  BY <1>1, StateChosen
<1>5. /\ stored' = stored \union new
      /\ bootOf' = [s \in Sample |-> IF s \in new THEN b ELSE bootOf[s]]
      /\ triggers' = [s \in Sample |-> IF s \in new THEN triggers[s] + 1 ELSE triggers[s]]
      /\ candOf' = [candOf EXCEPT ![a] = cand]
      /\ candAt' = [candAt EXCEPT ![a] = IF cand = candOf[a] THEN @ ELSE observedAt[cand]]
      /\ stateOf' = state
      /\ stateAt' = IF state = stateOf THEN stateAt ELSE recordedAt[state]
      /\ UNCHANGED <<payload, sequenceOf, retired>>
  BY DEF ingest_batch
<1> HIDE DEF new, cand, state
<1>6. stored' \in SUBSET Sample /\ bootOf' \in [Sample -> Boot \union {0}] /\ triggers' \in [Sample -> Nat]
  BY <1>1, <1>5 DEF IngestTypeOK
<1>7. candOf' \in [Agent -> Sample \union {0}] /\ candAt' \in [Agent -> Time \union {Never}]
  BY <1>3, <1>5, ReadingAssumption DEF IngestTypeOK, SamplesTypeOK
<1>8. stateOf' \in Sample \union {0} /\ stateAt' \in Time \union {Never}
  BY <1>4, <1>5 DEF IngestTypeOK, SamplesTypeOK
<1>9. SamplesTypeOK' /\ retired' \in SUBSET Agent
  BY <1>5 DEF SamplesTypeOK, IngestTypeOK, payload
<1> QED
  BY <1>6, <1>7, <1>8, <1>9 DEF IngestTypeOK

(* The samples of a source that carry an observation.                      *)
Seen(a) == {s \in stored : agentOf[s] = a /\ observedAt[s] # Never}

LEMMA BatchCandidates ==
  ASSUME SamplesTypeOK, IngestTypeOK, CandidateIsNewest, NEW a \in Agent, NEW b \in Boot,
         NEW B \in SUBSET {s \in Sample : agentOf[s] = a}, ingest_batch(a, b, B)
  PROVE  CandidateIsNewest'
<1> DEFINE new == B \ Known(b, B)
           cand == Candidate(a, new)
           newer == {s \in new : observedAt[s] > candAt[a]}
<1>1. new \in SUBSET Sample /\ new \intersect stored = {} /\ \A s \in new : agentOf[s] = a
  BY DEF Known
<1>2. /\ candAt[a] \in Nat
      /\ \A s \in Sample : observedAt[s] \in Nat
  <2>1. Reading \subseteq Nat
    BY SampleAssumption, ReadingAssumption DEF Time, Never
  <2>2. candAt[a] \in Nat
    BY SampleAssumption DEF IngestTypeOK, Time, Never
  <2>3. \A s \in Sample : observedAt[s] \in Nat
    BY <2>1 DEF SamplesTypeOK
  <2> QED
    BY <2>2, <2>3
<1>3. /\ newer = {} => cand = candOf[a]
      /\ newer # {} => cand \in newer /\ \A t \in newer : observedAt[t] <= observedAt[cand]
  BY <1>1, <1>2, CandidateChosen
<1>4. /\ stored' = stored \union new
      /\ candOf' = [candOf EXCEPT ![a] = cand]
      /\ candAt' = [candAt EXCEPT ![a] = IF cand = candOf[a] THEN @ ELSE observedAt[cand]]
      /\ UNCHANGED <<agentOf, observedAt>>
  BY DEF ingest_batch, payload
<1> HIDE DEF new, cand
<1>5. ASSUME NEW c \in Agent, c # a
      PROVE  Seen(c)' = Seen(c) /\ candOf'[c] = candOf[c] /\ candAt'[c] = candAt[c]
  BY <1>1, <1>4, <1>5 DEF Seen, IngestTypeOK
<1>6. Seen(a)' = Seen(a) \union {s \in new : observedAt[s] # Never}
  BY <1>1, <1>4 DEF Seen
<1>7. candOf'[a] = cand /\ candAt'[a] = IF cand = candOf[a] THEN candAt[a] ELSE observedAt[cand]
  BY <1>4 DEF IngestTypeOK
<1>8. /\ Seen(a) = {} => candAt[a] = Never /\ candOf[a] = 0
      /\ Seen(a) # {} => /\ candOf[a] \in Seen(a) /\ candAt[a] = observedAt[candOf[a]]
                        /\ \A s \in Seen(a) : observedAt[s] <= candAt[a]
  BY DEF CandidateIsNewest, Seen
<1>9. /\ Seen(a)' = {} => candAt'[a] = Never /\ candOf'[a] = 0
      /\ Seen(a)' # {} => /\ candOf'[a] \in Seen(a)' /\ candAt'[a] = observedAt[candOf'[a]]
                         /\ \A s \in Seen(a)' : observedAt[s] <= candAt'[a]
  <2>1. CASE newer = {}
    <3>1. candOf'[a] = candOf[a] /\ candAt'[a] = candAt[a]
      BY <1>3, <1>7, <2>1
    <3>2. \A s \in new : observedAt[s] <= candAt[a]
      BY <1>1, <1>2, <2>1
    <3>3. CASE Seen(a) = {}
      <4>1. Seen(a)' = {}
        BY <1>1, <1>2, <1>6, <1>8, <3>2, <3>3 DEF Never
      <4> QED
        BY <1>8, <3>1, <3>3, <4>1
    <3>4. CASE Seen(a) # {}
      BY <1>6, <1>8, <3>1, <3>2, <3>4
    <3> QED
      BY <3>3, <3>4
  <2>2. CASE newer # {}
    <3>1. cand \in new /\ observedAt[cand] > candAt[a] /\ \A t \in newer : observedAt[t] <= observedAt[cand]
      BY <1>3, <2>2
    <3>2. cand # candOf[a]
      BY <1>1, <1>8, <3>1, SampleAssumption DEF Seen, Sample
    <3>3. cand \in Seen(a)' /\ candAt'[a] = observedAt[cand]
      BY <1>1, <1>2, <1>6, <1>7, <3>1, <3>2 DEF Never
    <3>4. \A s \in new : observedAt[s] <= observedAt[cand]
      BY <1>1, <1>2, <3>1
    <3>5. \A s \in Seen(a) : s \in Sample /\ observedAt[s] <= candAt[a]
      BY <1>8 DEF Seen, IngestTypeOK
    <3>6. \A s \in Seen(a)' : observedAt[s] <= observedAt[cand]
      BY <1>1, <1>2, <1>6, <3>1, <3>4, <3>5
    <3> QED
      BY <1>7, <3>3, <3>6
  <2> QED
    BY <2>1, <2>2
<1>10. ASSUME NEW c \in Agent
       PROVE  IF Seen(c)' = {} THEN candAt'[c] = Never /\ candOf'[c] = 0
              ELSE /\ candOf'[c] \in Seen(c)'
                   /\ candAt'[c] = observedAt'[candOf'[c]]
                   /\ \A s \in Seen(c)' : observedAt'[s] <= candAt'[c]
  <2>1. CASE c = a
    BY <1>4, <1>9, <2>1
  <2>2. CASE c # a
    BY <1>4, <1>5, <2>2 DEF CandidateIsNewest, Seen
  <2> QED
    BY <2>1, <2>2
<1> QED
  BY <1>10 DEF CandidateIsNewest, Seen

LEMMA BatchState ==
  ASSUME SamplesTypeOK, IngestTypeOK, CurrentStateIsNewest, NEW a \in Agent, NEW b \in Boot,
         NEW B \in SUBSET Sample, B # {}, ingest_batch(a, b, B)
  PROVE  CurrentStateIsNewest'
<1> DEFINE new == B \ Known(b, B)
           state == CurrentState(new)
<1>1. new \in SUBSET Sample /\ new \intersect stored = {} /\ stored \union new # {}
  BY DEF Known
<1>2. stateAt \in Nat /\ \A s \in Sample : recordedAt[s] \in Nat
  BY SampleAssumption DEF IngestTypeOK, SamplesTypeOK, Time, Never
<1>3. \/ state = stateOf /\ \A s \in new : recordedAt[s] < stateAt
      \/ /\ state \in new
         /\ \A s \in new : recordedAt[s] <= recordedAt[state]
         /\ stateAt <= recordedAt[state]
  BY <1>1, StateChosen
<1>4. /\ stored' = stored \union new /\ stateOf' = state
      /\ stateAt' = IF state = stateOf THEN stateAt ELSE recordedAt[state]
      /\ UNCHANGED recordedAt
  BY DEF ingest_batch, payload
<1>5. stateOf \notin new /\ stored \subseteq Sample
  BY <1>1, SampleAssumption DEF CurrentStateIsNewest, Sample, IngestTypeOK
<1> HIDE DEF new, state
<1>6. CASE state = stateOf /\ \A s \in new : recordedAt[s] < stateAt
  <2>1. new # {} => stored # {}
    BY <1>1, <1>2, <1>6 DEF CurrentStateIsNewest, Never
  <2> QED
    BY <1>1, <1>2, <1>4, <1>6, <2>1 DEF CurrentStateIsNewest
<1>7. CASE /\ state \in new /\ stateAt <= recordedAt[state]
           /\ \A s \in new : recordedAt[s] <= recordedAt[state]
  <2>1. \A s \in stored : recordedAt[s] <= stateAt
    BY DEF CurrentStateIsNewest
  <2>2. stateAt' = recordedAt[state]
    BY <1>4, <1>5, <1>7
  <2>3. \A s \in stored' : recordedAt[s] <= stateAt'
    BY <1>1, <1>2, <1>4, <1>5, <1>7, <2>1, <2>2
  <2> QED
    BY <1>4, <1>7, <2>2, <2>3 DEF CurrentStateIsNewest
<1> QED
  BY <1>3, <1>6, <1>7

(* The types are needed for what may be compared; nothing else is, for the *)
(* two invariants are inductive: what a batch replaces was the newest of   *)
(* the rows that were there.                                               *)
LiveInv == SamplesTypeOK /\ IngestTypeOK /\ CandidateIsNewest /\ CurrentStateIsNewest

LEMMA LiveInit == ServerInit => LiveInv
  BY SampleAssumption DEF ServerInit, SamplesInit, IngestInit, LiveInv, SamplesTypeOK, IngestTypeOK, CandidateIsNewest,
         CurrentStateIsNewest

LEMMA LiveStep ==
  ASSUME LiveInv, [IngestNext]_<<ingestVars, payload, sequenceOf>>
  PROVE  LiveInv'
<1>1. CASE UNCHANGED <<ingestVars, payload, sequenceOf>>
  BY <1>1 DEF LiveInv, SamplesTypeOK, IngestTypeOK, CandidateIsNewest, CurrentStateIsNewest, ingestVars, payload
<1>2. ASSUME NEW a \in Agent, NEW b \in Boot, NEW B \in SUBSET {s \in Sample : agentOf[s] = a},
             B # {}, ingest_batch(a, b, B)
      PROVE  LiveInv'
  <2>1. B \in SUBSET Sample
    OBVIOUS
  <2> QED
    BY <1>2, <2>1, BatchTypes, BatchCandidates, BatchState DEF LiveInv
<1>3. ASSUME NEW a \in Agent, retire_agent(a)
      PROVE  LiveInv'
  BY <1>3 DEF retire_agent, history, live, payload, LiveInv, SamplesTypeOK, IngestTypeOK, CandidateIsNewest,
              CurrentStateIsNewest
<1> QED
  BY <1>1, <1>2, <1>3 DEF IngestNext

(* In whatever order and however often batches arrive, the candidate of a  *)
(* source is its newest observation (_apply_metric_candidate).             *)
THEOREM CandidatesNewest == IngestSpec => []CandidateIsNewest
<1>1. LiveInv /\ [IngestNext]_<<ingestVars, payload, sequenceOf>> => LiveInv'
  BY LiveStep
<1>2. LiveInv => CandidateIsNewest
  BY DEF LiveInv
<1> QED
  BY LiveInit, <1>1, <1>2, PTL DEF IngestSpec

(* Current state names the newest sample in the vehicle's history          *)
(* (_update_current_state).                                                *)
THEOREM StateNewest == IngestSpec => []CurrentStateIsNewest
<1>1. LiveInv /\ [IngestNext]_<<ingestVars, payload, sequenceOf>> => LiveInv'
  BY LiveStep
<1>2. LiveInv => CurrentStateIsNewest
  BY DEF LiveInv
<1> QED
  BY LiveInit, <1>1, <1>2, PTL DEF IngestSpec

-----------------------------------------------------------------------------
Number == 1..LastSample

ResetTypes ==
  /\ kept \in SUBSET Number /\ metricOf \in kept \union {0} /\ shownOf \in kept \union {0}
  /\ batch \in [phase : {"none", "read", "metric", "state", "shown"}, sample : Number \union {0},
                metric : Number \union {0}, shown : Number \union {0}, beside : BOOLEAN]
  /\ reset \in [phase : {"none", "cascade", "deleted"}, doomed : SUBSET kept,
                metric : BOOLEAN, shown : BOOLEAN]

(* What is committed is shown, at every moment.                            *)
NewestShown ==
  /\ \A s \in kept : s <= metricOf \/ s \in late
  /\ \A s \in kept : s <= shownOf \/ s \in passed

(* A batch knows the rows it has read unless a reset has taken them since, *)
(* and the rows it has written are out of a reset's reach.                 *)
BatchKnows ==
  batch.phase # "none" =>
    /\ batch.sample \in Number /\ batch.sample \notin kept /\ batch.metric # batch.sample
    /\ metricOf \in {batch.metric, 0}
    /\ metricOf # batch.metric \/ reset.phase # "none" => batch.beside
    /\ batch.phase \in {"state", "shown"} => shownOf \in {batch.shown, 0}
    /\ MetricWritten => ~reset.metric
    /\ ShownWritten => shownOf = batch.shown /\ ~reset.shown

(* A reset removes the rows that name what it deletes and no others, and   *)
(* what is committed beside it is accounted for.                           *)
ResetKnows ==
  /\ reset.metric => metricOf \in reset.doomed
  /\ reset.shown => shownOf # 0
  /\ reset.phase = "none" => reset = NoReset
  /\ reset.phase = "deleted" =>
       /\ metricOf \in reset.doomed => reset.metric
       /\ shownOf \in reset.doomed => reset.shown
  /\ reset.phase # "none" =>
       /\ kept \ reset.doomed \subseteq passed
       /\ metricOf \in reset.doomed => kept \ reset.doomed \subseteq late

ResetInv == ResetTypes /\ NewestShown /\ BatchKnows /\ ResetKnows

LEMMA ResetInitHolds == ResetInit => ResetInv
  BY DEF ResetInit, ResetInv, ResetTypes, NewestShown, BatchKnows, ResetKnows, NoBatch, NoReset

-----------------------------------------------------------------------------
LEMMA BeginBatchKeeps ==
  ASSUME ResetInv, NEW s \in Number, Begin_batch(s)
  PROVE  ResetInv'
<1>1. /\ s \notin kept
      /\ batch' = [phase |-> "read", sample |-> s, metric |-> metricOf, shown |-> 0,
                   beside |-> reset.phase # "none"]
      /\ UNCHANGED <<kept, metricOf, shownOf, reset, passed, late>>
  BY DEF Begin_batch, NoBatch
<1>2. ResetTypes'
  BY <1>1 DEF ResetInv, ResetTypes, Number
<1>3. NewestShown' /\ ResetKnows'
  BY <1>1 DEF ResetInv, NewestShown, ResetKnows, NoReset
<1>4. metricOf # s
  BY <1>1, LastSampleAssumption DEF ResetInv, ResetTypes, Number
<1>5. BatchKnows'
  BY <1>1, <1>4 DEF BatchKnows, MetricWritten, ShownWritten
<1> QED
  BY <1>2, <1>3, <1>5 DEF ResetInv

LEMMA FailKeeps ==
  ASSUME ResetInv, Fail_batch
  PROVE  ResetInv'
  BY DEF Fail_batch, ResetInv, ResetTypes, NewestShown, BatchKnows, ResetKnows, NoBatch

(* The statements of a batch before its commit.                            *)
LEMMA StatementKeeps ==
  ASSUME ResetInv, Flush_metric \/ Read_state \/ Flush_state
  PROVE  ResetInv'
<1> USE LastSampleAssumption DEF ResetInv, ResetTypes, NewestShown, BatchKnows, ResetKnows,
        MetricWritten, ShownWritten, Number
<1>1. CASE Flush_metric
  BY <1>1, FailKeeps DEF Flush_metric
<1>2. CASE Read_state
  BY <1>2 DEF Read_state
<1>3. CASE Flush_state
  BY <1>3, FailKeeps DEF Flush_state
<1> QED
  BY <1>1, <1>2, <1>3

LEMMA CommitBatchKeeps ==
  ASSUME ResetInv, Commit_batch
  PROVE  ResetInv'
<1> USE LastSampleAssumption DEF Number
<1> DEFINE s == batch.sample
           replaces == batch.metric = 0 \/ batch.metric < s
<1>1. /\ batch.phase = "shown" /\ s \in Number /\ s \notin kept /\ batch.metric # s
      /\ kept' = kept \union {s} /\ batch' = NoBatch /\ reset' = reset
      /\ passed' = IF reset.phase = "none" THEN passed ELSE passed \union {s}
  BY DEF Commit_batch, ResetInv, BatchKnows
<1>2. batch.shown # 0 => shownOf = batch.shown /\ ~reset.shown
  BY <1>1 DEF ShownWritten, ResetInv, BatchKnows
<1>3. /\ shownOf' = Latest(s, batch.shown) /\ shownOf \in {batch.shown, 0}
  BY <1>1, <1>2 DEF Commit_batch, ResetInv, BatchKnows
<1>4. shownOf' \in {s, shownOf} /\ shownOf' >= s /\ shownOf' >= shownOf /\ ~reset.shown
  BY <1>1, <1>2, <1>3 DEF Latest, ResetInv, ResetTypes, ResetKnows
<1>5. replaces => metricOf' = s /\ metricOf < s /\ ~reset.metric
  BY <1>1 DEF Commit_batch, MetricWritten, ResetInv, BatchKnows, ResetTypes, ResetKnows
<1>6. ~replaces => metricOf' = metricOf /\ (s <= metricOf \/ s \in late') /\ (reset.phase # "none" => s \in late')
  BY <1>1 DEF Commit_batch, ResetInv, BatchKnows, ResetTypes
<1>7. late \subseteq late' /\ passed \subseteq passed' /\ (reset.phase # "none" => s \in passed')
  BY <1>1 DEF Commit_batch
<1>8. ResetTypes'
  BY <1>1, <1>4, <1>5, <1>6 DEF ResetInv, ResetTypes, NoBatch
<1>9. NewestShown'
  BY <1>1, <1>4, <1>5, <1>6, <1>7 DEF ResetInv, ResetTypes, NewestShown
<1>10. BatchKnows'
  BY <1>1 DEF BatchKnows, NoBatch
<1>11. ResetKnows'
  BY <1>1, <1>4, <1>5, <1>6, <1>7 DEF ResetInv, ResetTypes, ResetKnows
<1> QED
  BY <1>8, <1>9, <1>10, <1>11 DEF ResetInv

-----------------------------------------------------------------------------
LEMMA DeleteKeeps ==
  ASSUME ResetInv, Delete_telemetry \/ Delete_state
  PROVE  ResetInv'
<1> USE LastSampleAssumption DEF ResetInv, ResetTypes, NewestShown, BatchKnows, ResetKnows,
        MetricWritten, ShownWritten, Number, NoReset
<1>1. CASE Delete_telemetry
  BY <1>1 DEF Delete_telemetry
<1>2. CASE Delete_state
  BY <1>2 DEF Delete_state
<1> QED
  BY <1>1, <1>2

LEMMA CascadeKeeps ==
  ASSUME ResetInv, Cascade_metric \/ Cascade_state
  PROVE  ResetInv'
<1>1. /\ UNCHANGED <<kept, metricOf, shownOf, batch, passed, late>> /\ reset.phase = "cascade"
      /\ \/ /\ metricOf \in reset.doomed /\ ~MetricWritten
            /\ reset' = [reset EXCEPT !.metric = TRUE]
         \/ /\ shownOf \in reset.doomed /\ ~ShownWritten
            /\ reset' = [reset EXCEPT !.shown = TRUE]
  BY DEF Cascade_metric, Cascade_state
<1>2. ResetTypes' /\ NewestShown'
  BY <1>1 DEF ResetInv, ResetTypes, NewestShown
<1>3. BatchKnows'
  BY <1>1 DEF ResetInv, ResetTypes, BatchKnows, MetricWritten, ShownWritten
<1>4. shownOf \in reset.doomed => shownOf # 0
  BY LastSampleAssumption DEF ResetInv, ResetTypes, Number
<1>5. ResetKnows'
  BY <1>1, <1>4 DEF ResetInv, ResetTypes, ResetKnows
<1> QED
  BY <1>2, <1>3, <1>5 DEF ResetInv

LEMMA CommitResetKeeps ==
  ASSUME ResetInv, Commit_reset
  PROVE  ResetInv'
<1> USE LastSampleAssumption DEF Number
<1>1. /\ reset.phase = "deleted" /\ kept' = kept \ reset.doomed /\ reset' = NoReset /\ batch' = batch
      /\ metricOf' = IF reset.metric THEN 0 ELSE metricOf
      /\ shownOf' = IF reset.shown THEN 0 ELSE shownOf
      /\ passed' = passed \ reset.doomed /\ late' = late \ reset.doomed
  BY DEF Commit_reset
<1>2. ResetTypes'
  BY <1>1 DEF ResetInv, ResetTypes, ResetKnows, NoReset
<1>3. NewestShown'
  BY <1>1 DEF ResetInv, ResetTypes, ResetKnows, NewestShown
<1>4. BatchKnows'
  BY <1>1 DEF ResetInv, ResetTypes, ResetKnows, BatchKnows, MetricWritten, ShownWritten, NoReset
<1>5. ResetKnows'
  BY <1>1 DEF ResetKnows, NoReset
<1> QED
  BY <1>2, <1>3, <1>4, <1>5 DEF ResetInv

LEMMA DeadlockKeeps ==
  ASSUME ResetInv, Resolve_deadlock
  PROVE  ResetInv'
<1>1. CASE Fail_batch
  BY <1>1, FailKeeps
<1>2. CASE reset' = NoReset /\ UNCHANGED <<kept, metricOf, shownOf, batch, passed, late>>
  BY <1>2 DEF ResetInv, ResetTypes, NewestShown, BatchKnows, ResetKnows, MetricWritten, ShownWritten, NoReset
<1> QED
  BY <1>1, <1>2 DEF Resolve_deadlock

LEMMA ResetStep ==
  ASSUME ResetInv, [ResetNext]_resetVars
  PROVE  ResetInv'
<1>1. CASE UNCHANGED resetVars
  BY <1>1 DEF resetVars, ResetInv, ResetTypes, NewestShown, BatchKnows, ResetKnows, MetricWritten, ShownWritten
<1>2. CASE ResetNext
  BY <1>2, BeginBatchKeeps, StatementKeeps, CommitBatchKeeps, DeleteKeeps, CascadeKeeps,
     CommitResetKeeps, DeadlockKeeps DEF ResetNext, Number
<1> QED
  BY <1>1, <1>2

(* Between transactions the candidate and the state of a vehicle name a    *)
(* stored sample, and the newest one but for the two races that            *)
(* ShownIsSupported excepts (reset_vehicle_telemetry and ingest_batch).    *)
THEOREM SupportedAfterReset == ResetSpec => []ShownIsSupported
<1>1. ResetInv /\ [ResetNext]_resetVars => ResetInv'
  BY ResetStep
<1>2. ResetInv => ShownIsSupported
  BY DEF ResetInv, ResetTypes, NewestShown, ShownIsSupported
<1> QED
  BY ResetInitHolds, <1>1, <1>2, PTL DEF ResetSpec
=============================================================================
