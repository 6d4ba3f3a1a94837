---------------------------- MODULE SafetyChain ----------------------------
(***************************************************************************)
(* The last four links before the wheels, each with its own time-out: the  *)
(* sensor monitor, the safety controller, the command guard, and the       *)
(* topics between them, which may lose what they carry.  The monitor and   *)
(* the controller may stop at any moment, which is the same as taking no   *)
(* more steps; the guard ticks in time.                                    *)
(***************************************************************************)
EXTENDS SensorMonitor, SafetyController, CommandGuard

VARIABLES
    since,  \* history: the time since the controller would follow each source
    hold    \* history: how far the last emergency stop has been cleared

vars == <<monitorVars, controllerVars, guardVars, since, hold>>

(* The time a command may outlive the permission it was sent with.         *)
Latency == MaxDelay + GuardTimeout + GuardPeriod

SafetyAssumption == MaxAge > StaleAfter + Timeout["sensors"] + Latency
ASSUME SafetyAssumption

Holds == {"free", "stopped", "reset"}

TypeOK ==
    /\ MonitorTypeOK
    /\ ControllerTypeOK
    /\ GuardTypeOK(Commands)
    /\ since \in [Sources -> 0..Latency + 1]
    /\ hold \in Holds

Init ==
    /\ MonitorInit
    /\ ControllerInit
    /\ GuardInit
    /\ since = [s \in Sources |-> Latency + 1]
    /\ hold = "free"

-----------------------------------------------------------------------------
Permit(past) == since' = [s \in Sources |-> IF s = Target' THEN 0 ELSE past[s]]

ControllerStep == Permit(since) /\ UNCHANGED guardVars

(* Messages that are lost are steps not taken.                             *)
Sense ==
    /\ \E s \in Streams, rolledBack \in BOOLEAN : Observe(s, rolledBack)
    /\ UNCHANGED <<controllerVars, guardVars, since, hold>>

PublishDiagnostics ==
    /\ \E ready \in Summaries : SensorDiagnosticsCallback(ready)
    /\ ControllerStep
    /\ UNCHANGED <<monitorVars, hold>>

HearCommand ==
    /\ \E s \in Sources, finite \in BOOLEAN : CommandCallback(s, finite)
    /\ ControllerStep
    /\ UNCHANGED <<monitorVars, hold>>

HearLocalization ==
    /\ \E valid \in BOOLEAN : LocalizationCallback(valid)
    /\ ControllerStep
    /\ UNCHANGED <<monitorVars, hold>>

EmergencyStop ==
    /\ \E pressed \in BOOLEAN :
          /\ EstopCallback(pressed)
          /\ hold' = IF pressed THEN "stopped" ELSE hold
    /\ ControllerStep
    /\ UNCHANGED monitorVars

Reset ==
    /\ ResetEstop
    /\ hold' = IF hold = "stopped" /\ ResetSucceeds THEN "reset" ELSE hold
    /\ ControllerStep
    /\ UNCHANGED monitorVars

Enable ==
    /\ \E on \in BOOLEAN :
          /\ SetMotionEnabled(on)
          /\ hold' = IF hold = "reset" /\ on /\ EnableSucceeds(on) THEN "free" ELSE hold
    /\ ControllerStep
    /\ UNCHANGED monitorVars

(* The controller's timer.                                                 *)
Tick == Send(Target) /\ UNCHANGED <<monitorVars, controllerVars, since, hold>>

Guard ==
    /\ Lose \/ GuardCallback \/ GuardTick
    /\ UNCHANGED <<monitorVars, controllerVars, since, hold>>

Pass ==
    /\ MonitorAges
    /\ ControllerAges
    /\ GuardAges
    /\ UNCHANGED <<monotonic, physical, latched, enabled, hold>>
    /\ Permit([s \in Sources |-> Older(since[s], Latency + 1)])

Next ==
    \/ Sense \/ PublishDiagnostics \/ HearCommand \/ HearLocalization
    \/ EmergencyStop \/ Reset \/ Enable \/ Tick \/ Guard \/ Pass

Spec == Init /\ [][Next]_vars

-----------------------------------------------------------------------------
(* The wheels follow a source only if the controller would have followed   *)
(* it a moment ago: whatever withdrew the permission (a stop, a gate, a    *)
(* time-out), and whatever died or was lost since.                         *)
DriveWasPermitted == \A s \in Sources : drive = s => since[s] <= Latency

(* Navigation drives only on streams that were alive not long ago: the     *)
(* time-outs of monitor, controller and guard add up, and nothing on the   *)
(* way makes old evidence young again.                                     *)
NavigationSees ==
    drive = "navigation" =>
        \A s \in Streams : streamAge[s] <= StaleAfter + Timeout["sensors"] + Latency

(* After an emergency stop nothing is followed until the latch was reset   *)
(* and motion was enabled after that, in this order.                       *)
EmergencyHolds == hold # "free" => Target = "stop"
=============================================================================
