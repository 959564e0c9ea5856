-------------------------- MODULE MCAdministration --------------------------
(***************************************************************************)
(* Accounts, sessions, grants and event streams; the fleet; and a machine's *)
(* vehicle connection.  Administrators act on the first two and, through   *)
(* the configuration, on the third, and the three have no state in common: *)
(* each is explored in behaviours of its own.                              *)
(***************************************************************************)
EXTENDS EventStream, Fleet, VehicleSource

CONSTANTS u1, u2

AdministrationInit == StreamInit /\ FleetInit /\ VehicleSourceInit
AdministrationNext ==
  \/ StreamNext /\ UNCHANGED <<fleetVars, vehicleSourceVars>>
  \/ "fleet" \in scope /\ FleetNext /\ UNCHANGED <<vars, vehicleSourceVars>>
  \/ "vehicle" \in scope /\ VehicleSourceNext /\ UNCHANGED <<vars, fleetVars>>
AdministrationSpec ==
  /\ AdministrationInit
  /\ [][AdministrationNext]_<<vars, fleetVars, vehicleSourceVars>>
  /\ StreamFairness /\ FleetFairness /\ VehicleSourceFairness

MCScope == {
  {"found", "oidc", "create"}, {"found", "create", "delete", "update"},
  {"update", "delete", "oidc"}, {"login", "password", "revoke", "logout"},
  {"grants", "stream"}, {"stream", "logout", "revoke"}, {"update", "stream"}, {"fleet"},
  {"vehicle"}}
MCReplacement == {
  [u \in User |-> IF u = u1 THEN "view" ELSE "none"],
  [u \in User |-> IF u = u2 THEN "operate" ELSE "none"]}
MCGoverning == {{"update"}}
=============================================================================
