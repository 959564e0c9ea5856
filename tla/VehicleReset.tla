---------------------------- MODULE VehicleReset ----------------------------
(***************************************************************************)
(* reset_vehicle_telemetry (backend/app/agents/services.py) beside the     *)
(* batches of the vehicle it empties.  A batch holds the vehicle's row     *)
(* lock; a reset takes none, so its two DELETE statements and their        *)
(* cascades run between the statements of a batch.  Each statement sees    *)
(* what is committed when it starts, and waits for a row another           *)
(* transaction has written (PostgreSQL's READ COMMITTED).  One source      *)
(* reports one metric; a sample's number is its time.                      *)
(***************************************************************************)
EXTENDS Integers

CONSTANT LastSample   \* bound: samples are 1..LastSample

ASSUME LastSampleAssumption == LastSample \in Nat

VARIABLES
  kept,     \* Telemetry rows
  metricOf, \* MetricCandidate.telemetry_id, 0 for no row
  shownOf,  \* VehicleState.telemetry_id, 0 for no row
  batch,    \* the ingest_batch that holds the vehicle lock
  reset,    \* the reset in progress
  passed,   \* history: samples committed while a reset ran
  late      \* history: samples that left a newer candidate in place beside a reset

resetVars == <<kept, metricOf, shownOf, batch, reset, passed, late>>

NoBatch == [phase |-> "none", sample |-> 0, metric |-> 0, shown |-> 0, beside |-> FALSE]
NoReset == [phase |-> "none", doomed |-> {}, metric |-> FALSE, shown |-> FALSE]

ResetInit ==
  /\ kept = {} /\ metricOf = 0 /\ shownOf = 0
  /\ batch = NoBatch /\ reset = NoReset
  /\ passed = {} /\ late = {}

-----------------------------------------------------------------------------
(* The rows a transaction has written and not committed: the other one     *)
(* waits for them.  A row a batch inserts is not there for the reset.      *)
MetricWritten == batch.phase \in {"metric", "state", "shown"} /\ batch.metric # 0 /\ batch.metric < batch.sample
ShownWritten == batch.phase = "shown" /\ batch.shown # 0

(* ingest_batch under the lock: the sample is known, or the candidate it   *)
(* may replace is read.                                                    *)
Begin_batch(s) ==
  /\ batch.phase = "none"
  /\ s \notin kept
  /\ batch' = [NoBatch EXCEPT !.phase = "read", !.sample = s, !.metric = metricOf,
                              !.beside = reset.phase # "none"]
  /\ UNCHANGED <<kept, metricOf, shownOf, reset, passed, late>>

(* An UPDATE that finds its row gone fails the batch (StaleDataError), and *)
(* the source sends it again.                                              *)
Fail_batch == batch' = NoBatch /\ UNCHANGED <<kept, metricOf, shownOf, reset, passed, late>>

(* The flush: the sample is inserted, its candidate inserted or, if older, *)
(* updated.                                                                *)
Flush_metric ==
  /\ batch.phase = "read"
  /\ LET updates == batch.metric # 0 /\ batch.metric < batch.sample
     IN  /\ updates => ~reset.metric
         /\ IF updates /\ metricOf = 0 THEN Fail_batch
            ELSE /\ batch' = [batch EXCEPT !.phase = "metric"]
                 /\ UNCHANGED <<kept, metricOf, shownOf, reset, passed, late>>

(* _update_current_state reads the row it then updates or inserts.         *)
Read_state ==
  /\ batch.phase = "metric"
  /\ batch' = [batch EXCEPT !.phase = "state", !.shown = shownOf]
  /\ UNCHANGED <<kept, metricOf, shownOf, reset, passed, late>>

(* Mutation only: an update of no row goes unnoticed.                      *)
Flush_state_blind ==
  /\ batch.phase = "state"
  /\ batch.shown # 0 => ~reset.shown
  /\ batch' = [batch EXCEPT !.phase = "shown"]
  /\ UNCHANGED <<kept, metricOf, shownOf, reset, passed, late>>

Flush_state ==
  /\ batch.phase = "state"
  /\ batch.shown # 0 => ~reset.shown
  /\ IF batch.shown # 0 /\ shownOf = 0 THEN Fail_batch
     ELSE /\ batch' = [batch EXCEPT !.phase = "shown"]
          /\ UNCHANGED <<kept, metricOf, shownOf, reset, passed, late>>

(* The later of the sample and what the row named when it was read.        *)
Latest(s, t) == IF s >= t THEN s ELSE t

Commit_batch ==
  /\ batch.phase = "shown"
  /\ kept' = kept \union {batch.sample}
  /\ metricOf' = IF batch.metric = 0 \/ batch.metric < batch.sample THEN batch.sample ELSE metricOf
  /\ shownOf' = IF batch.shown # 0 /\ shownOf = 0 THEN 0 ELSE Latest(batch.sample, batch.shown)
  /\ passed' = IF reset.phase = "none" THEN passed ELSE passed \union {batch.sample}
  /\ late' = IF batch.beside /\ batch.metric > batch.sample THEN late \union {batch.sample} ELSE late
  /\ batch' = NoBatch
  /\ UNCHANGED reset

-----------------------------------------------------------------------------
(* DELETE FROM telemetry: the rows committed by now.                       *)
Delete_telemetry ==
  /\ reset.phase = "none"
  /\ kept # {}
  /\ reset' = [NoReset EXCEPT !.phase = "cascade", !.doomed = kept]
  /\ batch' = [batch EXCEPT !.beside = batch.phase # "none"]
  /\ UNCHANGED <<kept, metricOf, shownOf, passed, late>>

(* ON DELETE CASCADE from telemetry, in either order: a row that names a   *)
(* deleted sample goes, once no batch is about to make it name another.    *)
Cascade_metric ==
  /\ reset.phase = "cascade"
  /\ metricOf \in reset.doomed /\ ~reset.metric /\ ~MetricWritten
  /\ reset' = [reset EXCEPT !.metric = TRUE]
  /\ UNCHANGED <<kept, metricOf, shownOf, batch, passed, late>>
Cascade_state ==
  /\ reset.phase = "cascade"
  /\ shownOf \in reset.doomed /\ ~reset.shown /\ ~ShownWritten
  /\ reset' = [reset EXCEPT !.shown = TRUE]
  /\ UNCHANGED <<kept, metricOf, shownOf, batch, passed, late>>

(* DELETE FROM vehicle_state, which names the vehicle and so takes the row *)
(* of a batch that committed meanwhile as well.                            *)
Delete_state ==
  /\ reset.phase = "cascade"
  /\ metricOf \in reset.doomed => reset.metric
  /\ shownOf \in reset.doomed => reset.shown
  /\ shownOf # 0 /\ ~reset.shown => ~ShownWritten
  /\ reset' = [reset EXCEPT !.phase = "deleted", !.shown = shownOf # 0]
  /\ UNCHANGED <<kept, metricOf, shownOf, batch, passed, late>>

Commit_reset ==
  /\ reset.phase = "deleted"
  /\ kept' = kept \ reset.doomed
  /\ metricOf' = IF reset.metric THEN 0 ELSE metricOf
  /\ shownOf' = IF reset.shown THEN 0 ELSE shownOf
  /\ passed' = passed \ reset.doomed /\ late' = late \ reset.doomed
  /\ reset' = NoReset
  /\ UNCHANGED batch

(* Each waits for a row of the other: PostgreSQL fails one of them.        *)
Deadlocked ==
  /\ reset.phase = "cascade" /\ reset.shown /\ batch.phase = "state" /\ batch.shown # 0
  /\ MetricWritten /\ metricOf \in reset.doomed /\ ~reset.metric
Resolve_deadlock ==
  /\ Deadlocked
  /\ \/ Fail_batch
     \/ reset' = NoReset /\ UNCHANGED <<kept, metricOf, shownOf, batch, passed, late>>

ResetNext ==
  \/ \E s \in 1..LastSample : Begin_batch(s)
  \/ Flush_metric \/ Read_state \/ Flush_state \/ Commit_batch
  \/ Delete_telemetry \/ Cascade_metric \/ Cascade_state \/ Delete_state \/ Commit_reset
  \/ Resolve_deadlock

ResetSpec == ResetInit /\ [][ResetNext]_resetVars

-----------------------------------------------------------------------------
(* Between transactions the vehicle shows what its history supports and    *)
(* nothing else ("or the vehicle would keep showing a reading nothing now  *)
(* supports", agents/services.py:221): its candidate and its state name a  *)
(* stored sample, and the newest one.  Two races lose what should be       *)
(* shown, never the reverse: the state of a sample that was committed      *)
(* while a reset ran, and the candidate a late sample left in place.       *)
ShownIsSupported ==
  batch.phase = "none" /\ reset.phase = "none" =>
    /\ {metricOf, shownOf} \subseteq kept \union {0}
    /\ \A s \in kept : s <= metricOf \/ s \in late
    /\ \A s \in kept : s <= shownOf \/ s \in passed
=============================================================================
