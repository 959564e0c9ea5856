------------------------------ MODULE Readings ------------------------------
(***************************************************************************)
(* The registry of metrics and the choice of what a vehicle shows          *)
(* (backend/app/telemetry/registry.py and resolution.py).  A candidate is  *)
(* the latest observation of one key by one channel of one source: its     *)
(* value (1 and 0 for a boolean), when it was observed (at), the cadence   *)
(* its sample declared (interval, 0 for none, or event) and the source's   *)
(* last contact and liveness window.                                       *)
(***************************************************************************)
EXTENDS Integers, FiniteSetsExt

CONSTANTS
  Fast,     \* FAST_FRESHNESS
  Slow,     \* SLOW_FRESHNESS
  Floor,    \* CHARGING_POWER_FLOOR_KW
  NoValue   \* null, the value of an explicit retraction

ASSUME FreshnessAssumption == Fast \in Nat /\ Slow \in Nat /\ Fast <= Slow /\ Floor \in Nat \ {0}

NoContact == 0       \* the source has no contact period
Multiplier == 3      \* FRESHNESS_INTERVAL_MULTIPLIER

-----------------------------------------------------------------------------
(* The rows of CANONICAL_METRICS by what the code asks of them.  A key a   *)
(* profile invents has no row: it is slow, retained and takes any value.   *)
RetainedFast == {"vehicle.door_open", "vehicle.lights", "vehicle.high_beam", "vehicle.handbrake"}
SafetySensitive == {
  "vehicle.speed", "vehicle.ready", "vehicle.in_use", "battery.current", "battery.pack_voltage",
  "battery.power", "charging.active", "charging.power", "charging.voltage", "charging.current",
  "engine.rpm", "engine.load", "engine.throttle", "engine.maf", "engine.intake_temperature",
  "engine.coolant_temperature"}

Freshness(key) ==
  IF key \in SafetySensitive \union RetainedFast \union {"position"} THEN Fast ELSE Slow
Retained(key) == key \notin SafetySensitive

(* MetricDefinition.validate, for the values the model reports: a speed, a *)
(* charging power or a state of charge is no less than 0, a state of       *)
(* charge no more than 100, a boolean is 0 or 1.                           *)
validate(key, value) ==
  \/ key = "charging.active" /\ value \in {0, 1}
  \/ key \in {"vehicle.speed", "charging.power"} /\ value >= 0
  \/ key = "battery.soc" /\ value \in 0..100
  \/ key = "battery.power"

(* normalize_value: a null always counts.                                  *)
Valid(key, value) == value = NoValue \/ validate(key, value)

(* observation_is_fresh: an event-driven source vouches for its last value *)
(* by staying in contact, any other observation by its age.                *)
Vouched(c) == c.event /\ c.contact # NoContact
Lasting(c) == Max({Freshness(c.key), IF Vouched(c) THEN c.window ELSE Multiplier * c.interval})
Since(c) == IF Vouched(c) THEN c.contact ELSE c.at
Fresh(c, now) == Since(c) >= now - Lasting(c)

-----------------------------------------------------------------------------
ChannelRank(c) ==
  CASE c.channel = "can" -> 5 [] c.channel = "obd" -> 4 [] c.channel = "gnss" -> 3
    [] c.channel = "mqtt" -> 2 [] OTHER -> 1

(* _priority: what was measured before what was derived, then the channel, *)
(* then the later observation.  Of equal candidates the code keeps the     *)
(* first row the database returned, here any one of them.                  *)
Outranks(c, d) ==
  LET direct(x) == IF x.method = "direct" THEN 1 ELSE 0
  IN  \/ direct(c) > direct(d)
      \/ direct(c) = direct(d) /\ ChannelRank(c) > ChannelRank(d)
      \/ direct(c) = direct(d) /\ ChannelRank(c) = ChannelRank(d) /\ c.at >= d.at
Best(C) == CHOOSE c \in C : \A d \in C : Outranks(c, d)

(* Mutation only: a stale value of any metric is shown until a new one.    *)
Chosen_anyStale(key, C, now) ==
  LET usable == {c \in C : c.key = key /\ c.value # NoValue}
      fresh  == {c \in usable : Fresh(c, now)}
  IN  IF fresh # {} THEN {Best(fresh)} ELSE IF usable # {} THEN {Best(usable)} ELSE {}

(* _choose, as a set with at most one candidate.                           *)
Chosen(key, C, now) ==
  LET usable == {c \in C : c.key = key /\ c.value # NoValue}
      fresh  == {c \in usable : Fresh(c, now)}
      road   == {c \in fresh : key = "vehicle.speed" /\ c.channel \in {"can", "obd"}}
  IN  IF fresh # {} THEN {Best(IF road # {} THEN road ELSE fresh)}
      ELSE IF usable # {} /\ Retained(key) THEN {Best(usable)}
      ELSE {}

Shown(c, fresh) ==
  [key |-> c.key, value |-> c.value, at |-> c.at, source |-> c.source,
   channel |-> c.channel, method |-> c.method, fresh |-> fresh]

(* A _derived candidate, always shown as fresh.                            *)
Derived(c, key, value) ==
  [key |-> key, value |-> value, at |-> c.at, source |-> c.source,
   channel |-> "derived", method |-> "derived", fresh |-> TRUE]

(* resolve_readings: at most one reading of each key.  Charging is what a  *)
(* source says of it, or else what the powers say; a charging power no     *)
(* source reports is the battery's while it charges.                       *)
resolve_readings(C, now) ==
  LET chosen(key) == Chosen(key, C, now)
      plain(S)    == {Shown(c, Fresh(c, now)) : c \in S}
      keys        == {c.key : c \in C} \ {"charging.active", "charging.power"}
      explicit    == {c \in chosen("charging.active") : Fresh(c, now)}
      power       == chosen("charging.power")
      battery     == chosen("battery.power")
      origin      == IF power # {} THEN power ELSE battery
      inferred    == IF \/ \E c \in power : c.value >= Floor
                        \/ \E c \in battery : c.value <= -Floor
                     THEN 1 ELSE 0
      active      == IF explicit # {} THEN plain(explicit)
                     ELSE {Derived(c, "charging.active", inferred) : c \in {o \in origin : Fresh(o, now)}}
      rate        == IF power # {} THEN plain(power)
                     ELSE {Derived(c, "charging.power", -c.value) :
                             c \in {b \in battery : b.value < 0 /\ \E a \in active : a.value = 1}}
  IN  plain(UNION {chosen(key) : key \in keys}) \union active \union rate

(* resolve_position: a fix is never taken apart, and the last one stays.   *)
resolve_position(P, now) ==
  LET fresh == {p \in P : Fresh(p, now)}
      from  == IF fresh # {} THEN fresh ELSE P
      best  == CHOOSE p \in from : \A q \in from :
                 \/ p.method = "direct" /\ q.method # "direct"
                 \/ (p.method = "direct") = (q.method = "direct") /\ p.at >= q.at
  IN  IF P = {} THEN {} ELSE {Shown(best, Fresh(best, now))}
=============================================================================
