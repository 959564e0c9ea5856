---------------------------- MODULE TelemetryLog ----------------------------
(***************************************************************************)
(* What delivery promises, whatever agents, networks and servers do: a     *)
(* sample that was taken is recorded at most once, with its side effects,  *)
(* and stays recorded (docs/developers/architecture.md, "Telemetry         *)
(* transaction").                                                          *)
(***************************************************************************)
EXTENDS Naturals

CONSTANT Sample

VARIABLES taken,     \* samples taken so far
          recorded,  \* samples in history
          effects    \* Sample -> how often it triggered hooks

vars == <<taken, recorded, effects>>

Init == taken = {} /\ recorded = {} /\ effects = [s \in Sample |-> 0]

Take(s) ==
  /\ s \notin taken
  /\ taken' = taken \union {s}
  /\ UNCHANGED <<recorded, effects>>

(* A batch is recorded and takes effect in one step.                       *)
Record(S) ==
  /\ S # {}
  /\ S \subseteq taken \ recorded
  /\ recorded' = recorded \union S
  /\ effects' = [s \in Sample |-> IF s \in S THEN 1 ELSE effects[s]]
  /\ UNCHANGED taken

Next == (\E s \in Sample : Take(s)) \/ (\E S \in SUBSET Sample : Record(S))

Spec == Init /\ [][Next]_vars
=============================================================================
