------------------------------ MODULE Samples ------------------------------
(***************************************************************************)
(* The telemetry samples that agents of one vehicle ever take, as the      *)
(* agent (agent/internal/model/model.go NewSample) and the server          *)
(* (backend/app/telemetry/schemas.py TelemetrySample) see them.  A sample  *)
(* number stands for its UUID; the numbers of one agent's samples follow   *)
(* the order it takes them in.  Clocks step, so times do not.              *)
(***************************************************************************)
EXTENDS Integers

CONSTANTS
  Agent,      \* sources that report on the vehicle
  MaxSample,  \* bound: samples ever taken
  MaxTime,    \* bound: times are 1..MaxTime
  Reading,    \* the observation times a sample may carry, Never for none
  MaxBoot     \* bound: starts of one agent, each with a boot id of its own

ASSUME SampleAssumption == MaxSample \in Nat /\ MaxTime \in Nat /\ MaxBoot \in Nat

Sample == 1..MaxSample
Time == 1..MaxTime
Boot == 1..MaxBoot
Never == 0    \* no observation, no time

ASSUME ReadingAssumption == Reading \subseteq Time \union {Never}

VARIABLES
  agentOf,     \* the agent that takes the sample
  recordedAt,  \* sample.recorded_at
  observedAt,  \* observed_at of the reading it carries, or Never
  sequenceOf   \* sample.sequence, boot-local

payload == <<agentOf, recordedAt, observedAt>>

SamplesTypeOK ==
  /\ agentOf \in [Sample -> Agent]
  /\ recordedAt \in [Sample -> Time]
  /\ observedAt \in [Sample -> Reading]
  /\ sequenceOf \in [Sample -> Nat]

SamplesInit ==
  /\ agentOf \in [Sample -> Agent]
  /\ recordedAt \in [Sample -> Time]
  /\ observedAt \in [Sample -> Reading]
  /\ sequenceOf = [s \in Sample |-> 0]
=============================================================================
