--------------------------- MODULE Reconstruction ---------------------------
(***************************************************************************)
(* One vehicle's observations, the candidates kept live beside them        *)
(* (backend/app/telemetry/services.py) and what history rebuilds from the  *)
(* rows alone (backend/app/history/reconstruction.py).  A report is one    *)
(* stored sample: agentData stands for what it says of the agent, which    *)
(* only its being counted depends on.  Contacts of a source come one at a  *)
(* time here.                                                              *)
(***************************************************************************)
EXTENDS Readings, SequencesExt

CONSTANTS
  Linked,        \* connectors, the sources with a status to write
  Offer,         \* the samples a source may send, without their times
  MaxReport,     \* bound: samples stored
  MaxClock,      \* bound: times are 1..MaxClock
  LivenessFloor, \* the 15 seconds a batch vouches for at least
  Step           \* table resolutions asked for

(* What TelemetrySample lets through (telemetry/schemas.py): a sample says *)
(* one thing at most of each key and channel and has one position at most. *)
(* The key of a position, which the code keeps in tables of its own, is no *)
(* metric's.                                                               *)
Unique(offer) ==
  /\ \A o, p \in offer.observations : o.key = p.key /\ o.channel = p.channel => o = p
  /\ \A o \in offer.observations : o.key # "position"
  /\ \A v, w \in offer.position : v = w
ASSUME ReportAssumption ==
  /\ MaxClock \in Nat \ {0} /\ LivenessFloor \in Nat /\ Step \subseteq Nat \ {0}
  /\ \A offer \in Offer : Unique(offer) /\ offer.interval \in Nat

VARIABLES
  clock,      \* utcnow()
  reports,    \* Telemetry rows with their observations, in the order stored
  metricCand, \* MetricCandidate rows
  fixCand,    \* PositionCandidate rows
  periods,    \* SourceContactPeriod rows, in the order inserted
  table       \* the table last returned, or <<>>

reconstructionVars == <<clock, reports, metricCand, fixCand, periods, table>>

NoTable == [start |-> 0, end |-> 0, step |-> 1, rows |-> <<>>]

ReconstructionInit ==
  /\ clock = 1
  /\ reports = <<>>
  /\ metricCand = {}
  /\ fixCand = {}
  /\ periods = <<>>
  /\ table = NoTable

-----------------------------------------------------------------------------
(* latest_contact_period: by started_at, then by row, of those that had    *)
(* started by then; the index of it, or 0.                                 *)
LatestPeriod(source, by) ==
  LET mine == {i \in DOMAIN periods : periods[i].source = source /\ periods[i].started <= by}
  IN  IF mine = {} THEN 0
      ELSE CHOOSE i \in mine : \A j \in mine :
             \/ periods[j].started < periods[i].started
             \/ periods[j].started = periods[i].started /\ j <= i

(* touch_source_contact: a contact within the window of the last one       *)
(* extends its period, a later one opens the next.                         *)
touch_source_contact(source, at, window) ==
  LET latest == LatestPeriod(source, MaxClock)
  IN  periods' =
        IF latest # 0 /\ periods[latest].last > at THEN periods
        ELSE IF latest = 0 \/ at > periods[latest].last + periods[latest].window
        THEN Append(periods, [source |-> source, started |-> at, last |-> at, window |-> window])
        ELSE [periods EXCEPT ![latest].last = at, ![latest].window = window]

(* A candidate with its source's contact as it stood at a moment.          *)
InContact(c, by) ==
  LET latest == LatestPeriod(c.source, by)
  IN  [c EXCEPT !.contact = IF latest = 0 THEN NoContact ELSE Min({periods[latest].last, by}),
                !.window = IF latest = 0 THEN 0 ELSE periods[latest].window]

-----------------------------------------------------------------------------
(* What one stored sample says of one key: an observation of it, or the    *)
(* speed of its position.                                                  *)
Observed(r, o) ==
  [key |-> o.key, value |-> o.value, at |-> r.observed, source |-> r.source, channel |-> o.channel,
   method |-> "direct", interval |-> r.interval, event |-> r.event, contact |-> NoContact, window |-> 0]
Fix(r, speed) == Observed(r, [key |-> "position", value |-> speed, channel |-> "gnss"])
FixSpeed(r, speed) == Observed(r, [key |-> "vehicle.speed", value |-> speed, channel |-> "gnss"])

SameCandidate(c, d) == c.source = d.source /\ c.channel = d.channel /\ c.key = d.key

(* Mutation only: the last observation to arrive is the candidate.         *)
Advance_byArrival(cands, new) == {d \in cands : ~\E c \in new : SameCandidate(c, d)} \union new

(* _apply_metric_candidate and the first half of _apply_position_candidate *)
(* for what one sample says, which is never twice of one candidate: only a *)
(* later observation replaces the one kept.                                *)
Advance(cands, new) ==
  {d \in cands : ~\E c \in new : SameCandidate(c, d) /\ c.at > d.at}
    \union {c \in new : ~\E d \in cands : SameCandidate(c, d) /\ d.at >= c.at}

(* _accepted_observations and _telemetry_model: the row of a sample, less  *)
(* the observations the registry refuses.                                  *)
Telemetry(offer, recorded, observed) ==
  [source |-> offer.source, observations |-> {o \in offer.observations : Valid(o.key, o.value)},
   position |-> offer.position, interval |-> offer.interval, event |-> offer.event,
   recorded |-> recorded, observed |-> observed]

(* ingest_batch of one sample, as far as observations, candidates and      *)
(* contacts go; the speed of the position is applied after the rest.       *)
Ingest_sample(offer, recorded, observed) ==
  LET r        == Telemetry(offer, recorded, observed)
      measured == Advance(metricCand, {Observed(r, o) : o \in r.observations})
  IN  /\ Len(reports) < MaxReport
      /\ reports' = Append(reports, r)
      /\ metricCand' = Advance(measured, {FixSpeed(r, v) : v \in r.position})
      /\ fixCand' = Advance(fixCand, {Fix(r, v) : v \in r.position})
      /\ touch_source_contact(r.source, clock, Max({r.interval, LivenessFloor}))
      /\ UNCHANGED <<clock, table>>

(* A connector's status write, which only says that it is in contact.      *)
Status_contact(source) ==
  /\ touch_source_contact(source, clock, LivenessFloor)
  /\ UNCHANGED <<clock, reports, metricCand, fixCand, table>>

(* reset_vehicle_telemetry with no batch beside it: the rows cascade.      *)
Clear_telemetry ==
  /\ reports' = <<>> /\ metricCand' = {} /\ fixCand' = {}
  /\ UNCHANGED <<clock, periods, table>>

(* load_candidates and resolve_vehicle.                                    *)
LiveMetrics == {InContact(c, MaxClock) : c \in metricCand}
LiveReadings == resolve_readings(LiveMetrics, clock)

-----------------------------------------------------------------------------
Stored == DOMAIN reports
MetricRows == UNION {{[row |-> i, cand |-> Observed(reports[i], o)] : o \in reports[i].observations} : i \in Stored}
FixRows == UNION {{[row |-> i, cand |-> Fix(reports[i], v)] : v \in reports[i].position} : i \in Stored}

(* _latest_metric_rows and _latest_position_rows: of each source, channel  *)
(* and key the observation with the latest time by then, then the highest  *)
(* row.                                                                    *)
LatestRows(rows, by) ==
  LET known == {x \in rows : x.cand.at <= by}
      Later(x, y) == \/ x.cand.at > y.cand.at
                     \/ x.cand.at = y.cand.at /\ x.row > y.row
  IN  {x.cand : x \in {y \in known : ~\E z \in known : SameCandidate(y.cand, z.cand) /\ Later(z, y)}}

(* candidate_state_at: no speed comes from a position here.                *)
candidate_state_at(at) ==
  [metrics |-> {InContact(c, at) : c \in LatestRows(MetricRows, at)},
   fixes   |-> {InContact(c, at) : c \in LatestRows(FixRows, at)}]

resolved_state(state, at) == resolve_readings(state.metrics, at) \union resolve_position(state.fixes, at)

(* _events, their contacts as of the end of the range.  A position is an   *)
(* event of its own speed too, and replays after an observation of the     *)
(* same moment (kind).                                                     *)
Events(start, end) ==
  LET within(x) == x.cand.at > start /\ x.cand.at <= end
      event(x, c, kind) == [row |-> x.row, kind |-> kind, cand |-> InContact(c, end)]
  IN  {event(x, x.cand, 0) : x \in {y \in MetricRows : within(y)}}
      \union {event(x, x.cand, 1) : x \in {y \in FixRows : within(y)}}
      \union {event(x, [x.cand EXCEPT !.key = "vehicle.speed"], 1) : x \in {y \in FixRows : within(y)}}

(* The order events are replayed in, and what they leave behind of each    *)
(* candidate up to a moment.                                               *)
Newer(x, y) == \/ x.cand.at > y.cand.at
               \/ x.cand.at = y.cand.at /\ x.kind > y.kind
               \/ x.cand.at = y.cand.at /\ x.kind = y.kind /\ x.row > y.row
LastSaid(events, by) ==
  LET known == {x \in events : x.cand.at <= by}
  IN  {x.cand : x \in {y \in known : ~\E z \in known : SameCandidate(y.cand, z.cand) /\ Newer(z, y)}}

(* The candidates once every event up to a moment has been replayed.       *)
Replayed(base, events, by) ==
  LET last    == LastSaid(events, by)
      kept(S) == {c \in S : ~\E d \in last : SameCandidate(c, d)}
  IN  [metrics |-> kept(base.metrics) \union {c \in last : c.key # "position"},
       fixes   |-> kept(base.fixes) \union {c \in last : c.key = "position"}]

(* Mutation only: every key is given the longer freshness.                 *)
Expiry_slow(c) == c.at + Max({Slow, Multiplier * c.interval})

(* _expiry: the last moment at which the candidate is fresh.               *)
Expiry(c) ==
  IF Vouched(c) THEN c.contact + Max({Freshness(c.key), c.window})
  ELSE c.at + Max({Freshness(c.key), Multiplier * c.interval})

BucketCount(start, end, step) == Max({1, (end - start + step - 1) \div step})
BucketEnd(start, end, step, index) == Min({end, start + step * (index + 1)})
ReportsBy(start, by) == Cardinality({i \in Stored : reports[i].recorded > start /\ reports[i].recorded <= by})

(* The buckets table_rows resolves the state for: the first and the last,  *)
(* and those an observation, an expiry or a report falls into.             *)
Happened(start, end) ==
  LET events == Events(start, end)
  IN  {x.cand.at : x \in events}
      \union {t \in {Expiry(x.cand) : x \in events} : start < t /\ t < end}
      \union {reports[i].recorded : i \in {j \in Stored : reports[j].recorded > start
                                                        /\ reports[j].recorded <= end}}
Relevant(start, end, step) ==
  LET last == BucketCount(start, end, step) - 1
  IN  {0, last} \union {Min({last, Max({0, (t - start) \div step})}) : t \in Happened(start, end)}

(* What the replay from the start of a range shows at a moment of it.      *)
ShownBy(start, end, by) == resolved_state(Replayed(candidate_state_at(start), Events(start, end), by), by)

(* A row on top of those before it: neighbours that show the same merge.   *)
Collapse(out, row) ==
  IF out # <<>> /\ Last(out).shown = row.shown
  THEN [out EXCEPT ![Len(out)] = [from |-> Last(out).from, to |-> row.to,
                                  told |-> Last(out).told + row.told, shown |-> row.shown]]
  ELSE Append(out, row)

(* One bucket of table_rows: a relevant one has a row, with the reports    *)
(* since the last one resolved, and any other goes to the row before it.   *)
GatherBucket(acc, index, relevant, start, end, step) ==
  LET by   == BucketEnd(start, end, step, index)
      told == ReportsBy(start, by)
      row  == [from |-> index, to |-> index, told |-> told - acc.counted, shown |-> ShownBy(start, end, by)]
  IN  IF index \in relevant THEN [out |-> Collapse(acc.out, row), counted |-> told]
      ELSE [out |-> [acc.out EXCEPT ![Len(acc.out)].to = index], counted |-> acc.counted]

(* table_rows, the newest row first.                                       *)
table_rows(start, end, step) ==
  LET count    == BucketCount(start, end, step)
      relevant == Relevant(start, end, step)
      BucketScan[n \in 0..count] ==
        IF n = 0 THEN [out |-> <<>>, counted |-> 0]
        ELSE GatherBucket(BucketScan[n - 1], n - 1, relevant, start, end, step)
  IN  Reverse(BucketScan[count].out)

(* GET .../history/table.                                                  *)
history_table(start, end, step) ==
  /\ start < end
  /\ table' = [start |-> start, end |-> end, step |-> step, rows |-> table_rows(start, end, step)]
  /\ UNCHANGED <<clock, reports, metricCand, fixCand, periods>>

Tick == /\ clock < MaxClock
        /\ clock' = clock + 1
        /\ UNCHANGED <<reports, metricCand, fixCand, periods, table>>

Report == \E offer \in Offer, observed \in 1..clock :
            \E recorded \in {observed, clock} : Ingest_sample(offer, recorded, observed)

(* What is shown live, whatever is reported, contacted or cleared.         *)
LiveNext ==
  \/ Report
  \/ \E source \in Linked : Status_contact(source)
  \/ Clear_telemetry
  \/ Tick

(* What a table shows.  It is asked for when the clock has run out, of any *)
(* range before, and ends the behaviour: reading changes nothing.          *)
TableNext ==
  /\ table = NoTable
  /\ \/ Report
     \/ Tick
     \/ /\ clock = MaxClock
        /\ \E start, end \in 1..clock, step \in Step : history_table(start, end, step)

ReconstructionSpec == ReconstructionInit /\ [][LiveNext \/ TableNext]_reconstructionVars

(* The same behaviours up to their first table.                            *)
TableSpec == ReconstructionInit /\ [][table = NoTable /\ (LiveNext \/ TableNext)]_reconstructionVars

-----------------------------------------------------------------------------
(* What the vehicle shows of a safety-sensitive metric rests on evidence   *)
(* that has not expired, its derived readings included, and a charging     *)
(* power is only derived while the vehicle is shown to charge              *)
(* ("safety-sensitive values expire to unknown while persistent values     *)
(* remain visibly stale", architecture.md:137).                            *)
ExpiresToUnknown ==
  \A r \in LiveReadings :
    /\ r.fresh <=> \E c \in LiveMetrics : c.source = r.source /\ c.at = r.at /\ Fresh(c, clock)
                      /\ c.value # NoValue /\ c.key \in {r.key} \union (IF r.method = "derived" THEN {"battery.power", "charging.power"} ELSE {})
    /\ r.key \in SafetySensitive => r.fresh
    /\ r.key = "charging.power" /\ r.method = "derived"
         => \E a \in LiveReadings : a.key = "charging.active" /\ a.value = 1 /\ a.fresh

(* History, asked for now, knows what the live candidates know: of each    *)
(* source, channel and key the same observation, wherever its newest time  *)
(* was observed once.  The speed of a position is a live candidate that no *)
(* row holds, and candidate_state_at has not.                              *)
NewestOnce(c, rows) == \E x \in rows : {y \in rows : SameCandidate(y.cand, c) /\ y.cand.at = c.at} = {x}
SpeedOfFix(c) == c.key = "vehicle.speed" /\ c.channel = "gnss"
HistoryAgreesWithLive ==
  LET past == candidate_state_at(clock)
      Told(S, rows) == {c \in S : NewestOnce(c, rows) /\ ~SpeedOfFix(c)}
  IN  /\ Told(past.metrics, MetricRows) = Told(LiveMetrics, MetricRows)
      /\ Told(past.fixes, FixRows) = Told({InContact(c, MaxClock) : c \in fixCand}, FixRows)

(* Every bucket of a table is in exactly one of its rows, every report of  *)
(* its range is counted in exactly one row, and a row shows for each of    *)
(* its buckets what was known when the bucket ended ("reconstructs the     *)
(* complete known state at each requested bucket boundary",                *)
(* architecture.md:141), unless the bucket                                 *)
(*   - follows the expiry of a value from before the range, which starts   *)
(*     no row (table_rows looks for expiries among the events alone), or a *)
(*     position of that time, whose speed it does not know, or a speed by  *)
(*     gnss, as it does not know whether a position came after it,         *)
(*   - ends in a row of quiet buckets at the very moment of an event,      *)
(*   - has two values of one moment of which neither ranks first, or       *)
(*   - has values an event-driven source vouches for by a contact as of    *)
(*     another moment.                                                     *)
Truth(at) == Replayed([metrics |-> {}, fixes |-> {}], Events(0, at), at)
Tied(C) == \E c, d \in C : c # d /\ c.key = d.key /\ ChannelRank(c) = ChannelRank(d) /\ c.at = d.at
Disturbed(index) ==
  LET by == BucketEnd(table.start, table.end, table.step, index)
      before == {x.cand : x \in {y \in MetricRows \union FixRows : y.cand.at <= table.start}}
      next == table.start + 1
  IN  \/ \E c \in before : Fresh(c, next) /\ (~Fresh(c, by) \/ c.key = "position" \/ SpeedOfFix(c))
      \/ by < table.end /\ \E x \in MetricRows \union FixRows : x.cand.at = by
      \/ Tied(Truth(by).metrics) \/ Tied(Truth(by).fixes)
      \/ \E i \in Stored : reports[i].event
TableShowsState ==
  LET rows == table.rows
      Holding(index) == {n \in DOMAIN rows : rows[n].from <= index /\ index <= rows[n].to}
      End(index) == BucketEnd(table.start, table.end, table.step, index)
      Counted[n \in 0..Len(rows)] ==   \* in the oldest rows, which are the last
        IF n = 0 THEN 0 ELSE Counted[n - 1] + rows[Len(rows) + 1 - n].told
  IN  table # NoTable =>
        /\ \A index \in 0..(BucketCount(table.start, table.end, table.step) - 1) :
             \E n \in DOMAIN rows :
               /\ Holding(index) = {n}
               /\ Disturbed(index) \/ rows[n].shown = resolved_state(Truth(End(index)), End(index))
        /\ Counted[Len(rows)] = ReportsBy(table.start, table.end)
=============================================================================
