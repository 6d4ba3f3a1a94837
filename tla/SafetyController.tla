-------------------------- MODULE SafetyController --------------------------
(***************************************************************************)
(* The tracked safety controller: which command the robot may follow.      *)
(* Subscriptions, the timer and the services share one lock, so a callback *)
(* is one step whichever thread runs it.  Both gates are required, as in   *)
(* the robot's configuration.  A command is the source it came from;       *)
(* TrackMotion has its numbers.                                            *)
(***************************************************************************)
EXTENDS Naturals

CONSTANT Timeout    \* how long each input may be acted upon

Inputs  == {"manual", "navigation", "localization", "sensors"}
Sources == {"manual", "navigation"}
Commands == Sources \cup {"stop"}

ASSUME TimeoutAssumption == Timeout \in [Inputs -> Nat]

VARIABLES
    physical,   \* _physical_estop
    latched,    \* _estop_latched
    enabled,    \* _motion_enabled
    age         \* the time since each input's newest message; beyond its
                \* time-out if it was not finite, not valid or not ready

controllerVars == <<physical, latched, enabled, age>>

ControllerTypeOK ==
    /\ physical \in BOOLEAN
    /\ latched \in BOOLEAN
    /\ enabled \in BOOLEAN
    /\ age \in [Inputs -> Nat]
    /\ \A i \in Inputs : age[i] <= Timeout[i] + 1

Worthless(i) == Timeout[i] + 1

(* startup_motion_enabled is off.                                          *)
ControllerInit ==
    /\ physical = FALSE
    /\ latched = FALSE
    /\ enabled = FALSE
    /\ age = [i \in Inputs |-> Worthless(i)]

Hear(i, good) ==
    /\ age' = [age EXCEPT ![i] = IF good THEN 0 ELSE Worthless(i)]
    /\ UNCHANGED <<physical, latched, enabled>>

CommandCallback(source, finite) == Hear(source, finite)
LocalizationCallback(valid)     == Hear("localization", valid)
SensorDiagnosticsCallback(ready) == Hear("sensors", ready)

(* Variant: the stop leaves motion enabled, for the latch holds it anyway. *)
EstopCallbackLatchOnly(pressed) ==
    /\ physical' = pressed
    /\ latched' = (latched \/ pressed)
    /\ UNCHANGED <<enabled, age>>

EstopCallback(pressed) ==
    /\ physical' = pressed
    /\ latched' = (latched \/ pressed)
    /\ enabled' = (enabled /\ ~pressed)
    /\ UNCHANGED age

EnableSucceeds(on) == on => ~physical /\ ~latched

SetMotionEnabled(on) ==
    /\ enabled' = IF EnableSucceeds(on) THEN on ELSE enabled
    /\ UNCHANGED <<physical, latched, age>>

ResetSucceeds == ~physical

ResetEstop ==
    /\ latched' = (latched /\ ~ResetSucceeds)
    /\ UNCHANGED <<physical, enabled, age>>

Current(i) == age[i] <= Timeout[i]

Stopped == physical \/ latched \/ ~enabled

(* Variant: the sensors' gate is not required, as if the parameter were left *)
(* at its default.                                                         *)
TargetUngated ==
    IF Stopped THEN "stop"
    ELSE IF Current("manual") THEN "manual"
    ELSE IF Current("navigation") /\ Current("localization")
         THEN "navigation" ELSE "stop"

(* A fresh manual command wins and needs no gate; a navigation command     *)
(* needs both.                                                             *)
Target ==
    IF Stopped THEN "stop"
    ELSE IF Current("manual") THEN "manual"
    ELSE IF \A i \in Inputs \ {"manual"} : Current(i)
         THEN "navigation" ELSE "stop"

ControllerAges ==
    age' = [i \in Inputs |-> IF Current(i) THEN age[i] + 1 ELSE age[i]]
=============================================================================
