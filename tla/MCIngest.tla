------------------------------ MODULE MCIngest ------------------------------
(***************************************************************************)
(* What happens to samples on the server, each part in behaviours of its   *)
(* own: batches that reach the history, candidates and the history rebuilt *)
(* from it, drives and charges read from its rows, and its reset.  The     *)
(* parts not in scope stay as they start.                                  *)
(***************************************************************************)
EXTENDS Ingest, Reconstruction, Segments, VehicleReset

CONSTANTS a1, a2, LiveClock

VARIABLE scope

TwoAgents == {a1, a2}
MCLinked == {a2}

Told(key, channel, value) == [key |-> key, channel |-> channel, value |-> value]
Offered(source, observations, position, interval, event) ==
  [source |-> source, observations |-> observations, position |-> position,
   interval |-> interval, event |-> event]
MCOffer == {
  Offered(a1, {Told("battery.power", "can", -2), Told("charging.active", "can", 1)}, {}, 1, FALSE),
  Offered(a1, {Told("battery.power", "can", NoValue), Told("charging.power", "can", -1)}, {}, 0, FALSE),
  Offered(a1, {Told("vehicle.speed", "can", 3)}, {}, 0, FALSE),
  Offered(a2, {Told("charging.power", "mqtt", 0), Told("battery.soc", "mqtt", 50)}, {}, 0, TRUE),
  Offered(a2, {}, {5}, 0, FALSE)}

Silent == [
  at |-> 0, active |-> Missing, power |-> Missing, inUse |-> Missing, agentInUse |-> Missing, ready |-> Missing,
  state |-> Missing, speed |-> Missing, place |-> Missing, odometer |-> Missing]
MCRowKind == {
  Silent,
  [Silent EXCEPT !.inUse = 1, !.speed = 5],
  [Silent EXCEPT !.inUse = 1, !.power = 2, !.speed = 3],
  [Silent EXCEPT !.agentInUse = 0, !.active = 1, !.ready = 1],
  [Silent EXCEPT !.agentInUse = 0, !.power = 0],
  [Silent EXCEPT !.speed = 5],
  [Silent EXCEPT !.active = 0, !.place = 1],
  [Silent EXCEPT !.active = 0, !.place = 2, !.ready = 1],
  [Silent EXCEPT !.state = 1, !.odometer = 7]}

ServerVars == <<ingestVars, payload, sequenceOf>>
TelemetryInit ==
  /\ scope \in {"batches", "live", "table", "segments", "reset"}
  /\ ServerInit /\ ReconstructionInit /\ SegmentsInit /\ ResetInit
  /\ scope # "batches" => payload = <<[s \in Sample |-> a1], [s \in Sample |-> 1], [s \in Sample |-> Never]>>

TelemetryNext ==
  /\ UNCHANGED scope
  /\ \/ scope = "batches" /\ IngestNext /\ UNCHANGED <<reconstructionVars, rows, resetVars>>
     \/ /\ scope = "live" /\ LiveNext /\ clock' <= LiveClock
        /\ UNCHANGED <<ServerVars, rows, resetVars>>
     \/ scope = "table" /\ TableNext /\ UNCHANGED <<ServerVars, rows, resetVars>>
     \/ scope = "segments" /\ SegmentsNext /\ UNCHANGED <<ServerVars, reconstructionVars, resetVars>>
     \/ scope = "reset" /\ ResetNext /\ UNCHANGED <<ServerVars, reconstructionVars, rows>>

TelemetryVars == <<ServerVars, reconstructionVars, rows, resetVars, scope>>
TelemetrySpec == TelemetryInit /\ [][TelemetryNext]_TelemetryVars
=============================================================================
