---------------------------- MODULE VehicleSource ----------------------------
(***************************************************************************)
(* The vehicle connection of the Go agent, which its lifecycle goroutine   *)
(* acquires and watches while the goroutine of commandRun reads, resets    *)
(* and closes it (agent/internal/runtime/vehicle_source.go; the            *)
(* configuration and its order in agent/cmd/carhibou-agent/main.go).  A    *)
(* step is what happens under one hold of the mutex.  A provider is the    *)
(* version of the configuration it was built with, 0 for none.             *)
(***************************************************************************)
EXTENDS Integers

CONSTANTS
  MaxConfiguration,  \* bound: configurations ever installed
  MaxBreak           \* bound: acquisitions that fail or hang, providers that break

ASSUME VehicleSourceAssumption == MaxConfiguration \in Nat \ {0} /\ MaxBreak \in Nat

VARIABLES
  configured,  \* the configuration of commandRun
  service,     \* its goroutine; "changed" between a new configuration and Reset
  lifecycle,   \* where retryLoop and attemptAcquire are
  current,     \* the published provider
  pending,     \* the one under acquisition
  broken,      \* whether the status of current is not empty
  delayed,     \* retryDelay > 0
  wake,        \* whether the channel, of capacity one, holds a signal
  breaks,
  overtaken    \* whether a Reset met an acquisition with an older configuration

providerVars == <<current, pending, broken, delayed, wake>>
vehicleSourceVars == <<configured, service, lifecycle, providerVars, breaks, overtaken>>

VehicleSourceInit ==
  /\ configured = 1 /\ service = "running" /\ lifecycle = "none"
  /\ current = 0 /\ pending = 0 /\ broken = FALSE /\ delayed = FALSE /\ wake = FALSE
  /\ breaks = 0 /\ overtaken = FALSE

closed == service \in {"closing", "joining", "closed"}
started == lifecycle # "none"
acquiring == lifecycle \in {"acquiring", "starting", "wedged", "returning"}

Breaks == breaks < MaxBreak /\ breaks' = breaks + 1

closeCurrentLocked == current' = 0 /\ broken' = FALSE
failLocked == closeCurrentLocked /\ delayed' = TRUE

-----------------------------------------------------------------------------
(* The goroutine of commandRun.                                            *)

(* NewRetryingVehicleProvider has run; before its first Start there is no  *)
(* lifecycle goroutine.                                                    *)
Start_provider ==
  /\ ~started /\ ~closed /\ lifecycle' = "top"
  /\ UNCHANGED <<configured, service, providerVars, breaks, overtaken>>

(* A configuration that differs and validates replaces the one in use ...  *)
Reconfigure ==
  /\ service = "running" /\ configured < MaxConfiguration
  /\ configured' = configured + 1 /\ service' = "changed"
  /\ UNCHANGED <<lifecycle, providerVars, breaks, overtaken>>

(* Mutant: the provider in use is left to the retry loop.                  *)
Reset_signalOnly ==
  /\ service = "changed" /\ service' = "running"
  /\ delayed' = FALSE /\ wake' = TRUE
  /\ UNCHANGED <<configured, lifecycle, current, pending, broken, breaks, overtaken>>

(* ... and Reset drops what was built with that one.                       *)
Reset ==
  /\ service = "changed" /\ service' = "running"
  /\ closeCurrentLocked /\ delayed' = FALSE /\ wake' = (wake \/ started)
  /\ overtaken' = (overtaken \/ (lifecycle \in {"starting", "wedged"} /\ pending < configured))
  /\ UNCHANGED <<configured, lifecycle, pending, breaks>>

(* A read that fails, or a status after it.                                *)
ReadObservations ==
  /\ service = "running" /\ current # 0 /\ broken
  /\ failLocked /\ wake' = TRUE
  /\ UNCHANGED <<configured, service, lifecycle, pending, breaks, overtaken>>

(* Close does not wait for an acquisition that is under way.               *)
Close ==
  /\ service = "running"
  /\ service' = IF started /\ ~acquiring THEN "joining" ELSE "closing"
  /\ wake' = TRUE
  /\ UNCHANGED <<configured, lifecycle, current, pending, broken, delayed, breaks, overtaken>>

FinishClose ==
  /\ service = "closing" \/ (service = "joining" /\ lifecycle = "ended")
  /\ service' = "closed" /\ closeCurrentLocked
  /\ UNCHANGED <<configured, lifecycle, pending, delayed, wake, breaks, overtaken>>

-----------------------------------------------------------------------------
(* The lifecycle goroutine.                                                *)

Goes(from, to) == lifecycle = from /\ lifecycle' = to

(* retryLoop looks under the mutex; what it does next goes by what it saw. *)
Look ==
  /\ \/ closed /\ Goes("top", "ended")
     \/ ~closed /\ current # 0 /\ Goes("top", "watching")
     \/ ~closed /\ current = 0 /\ delayed /\ Goes("top", "waiting")
     \/ ~closed /\ current = 0 /\ ~delayed /\ Goes("top", "attempt")
  /\ UNCHANGED <<configured, service, providerVars, breaks, overtaken>>

(* The signal or the stop of both selects.                                 *)
Interrupted(from) ==
  /\ \/ wake /\ wake' = FALSE /\ Goes(from, "top")
     \/ closed /\ UNCHANGED wake /\ Goes(from, "ended")
  /\ UNCHANGED <<configured, service, current, pending, broken, delayed, breaks, overtaken>>

(* healthPoll: only this goroutine publishes a provider, so one that is    *)
(* there is the one it saw.                                                *)
Watch ==
  /\ Goes("watching", "top")
  /\ IF broken THEN failLocked ELSE UNCHANGED <<current, broken, delayed>>
  /\ UNCHANGED <<configured, service, pending, wake, breaks, overtaken>>

BackOff ==
  /\ Goes("waiting", "attempt")
  /\ UNCHANGED <<configured, service, providerVars, breaks, overtaken>>

Attempt ==
  /\ Goes("attempt", IF closed THEN "top" ELSE "acquiring")
  /\ UNCHANGED <<configured, service, providerVars, breaks, overtaken>>

(* serviceVehicleAcquirer reads the configuration once it has a device.    *)
Build ==
  /\ Goes("acquiring", "starting")
  /\ pending' = configured /\ overtaken' = FALSE
  /\ UNCHANGED <<configured, service, current, broken, delayed, wake, breaks>>

(* recordFailure: no device, no provider, or a status right after Start.   *)
Fail ==
  /\ Goes("acquiring", "returning") \/ Goes("starting", "returning")
  /\ pending' = 0 /\ delayed' = TRUE /\ Breaks
  /\ UNCHANGED <<configured, service, current, broken, wake, overtaken>>

(* A serial setup that never returns.                                      *)
Wedge ==
  /\ Goes("acquiring", "wedged") \/ Goes("starting", "wedged")
  /\ Breaks
  /\ UNCHANGED <<configured, service, providerVars, overtaken>>

(* Mutant: the result is published without another look at closed.         *)
Publish_unchecked ==
  /\ Goes("starting", "returning")
  /\ current' = pending /\ delayed' = FALSE
  /\ pending' = 0
  /\ UNCHANGED <<configured, service, broken, wake, breaks, overtaken>>

(* The result is published, or closed at once.                             *)
Publish ==
  /\ Goes("starting", "returning")
  /\ IF closed \/ current # 0 THEN UNCHANGED <<current, delayed>>
     ELSE current' = pending /\ delayed' = FALSE
  /\ pending' = 0
  /\ UNCHANGED <<configured, service, broken, wake, breaks, overtaken>>

Return ==
  /\ Goes("returning", "top")
  /\ UNCHANGED <<configured, service, providerVars, breaks, overtaken>>

retryLoop ==
  \/ Look \/ Interrupted("watching") \/ Interrupted("waiting") \/ Watch \/ BackOff
  \/ Attempt \/ Build \/ Publish \/ Return

(* The adapter is unplugged, or goes silent.                               *)
Break ==
  /\ current # 0 /\ ~broken /\ broken' = TRUE /\ Breaks
  /\ UNCHANGED <<configured, service, lifecycle, current, pending, delayed, wake, overtaken>>

-----------------------------------------------------------------------------
VehicleSourceNext ==
  \/ Start_provider \/ Reconfigure \/ Reset \/ ReadObservations \/ Close \/ FinishClose
  \/ retryLoop \/ Fail \/ Wedge \/ Break

(* Both goroutines are scheduled; nothing else need ever happen.           *)
VehicleSourceFairness ==
  /\ WF_vehicleSourceVars(Reset) /\ WF_vehicleSourceVars(FinishClose)
  /\ WF_vehicleSourceVars(retryLoop)

VehicleSourceSpec ==
  VehicleSourceInit /\ [][VehicleSourceNext]_vehicleSourceVars /\ VehicleSourceFairness

(* However a new configuration, a failing provider and the retries of the  *)
(* lifecycle goroutine interleave, the vehicle is read in the end with the *)
(* configuration in use, unless its setup hangs or the Reset came while a  *)
(* provider was being started with the older one: that provider is         *)
(* published and kept until it breaks.                                     *)
ResetApplies ==
  []<>(closed \/ lifecycle \in {"none", "wedged"} \/ overtaken \/ current = configured)

(* Close returns, even beside a setup that hangs, and nothing is published *)
(* after it: neither goroutine waits for the other for ever.               *)
ShutdownReleases ==
  closed ~> [](service = "closed" /\ current = 0 /\ lifecycle \in {"none", "ended", "wedged"})
=============================================================================
