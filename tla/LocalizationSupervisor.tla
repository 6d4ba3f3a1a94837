----------------------- MODULE LocalizationSupervisor -----------------------
(***************************************************************************)
(* LocalizationSupervisor: the state the relocalization node believes it   *)
(* is in, as a value that each operation maps to its successor.  The node  *)
(* insists on one confirmation, so one accepted registration tracks; the   *)
(* count of successes is left out.                                         *)
(***************************************************************************)
EXTENDS Naturals

CONSTANTS
    FailuresToRecover,  \* failed validations that end DEGRADED
    FailuresToLost      \* failed validations that end RECOVERING

(* The node refuses to start otherwise.                                    *)
ASSUME SupervisorAssumption ==
    /\ FailuresToRecover \in Nat \ {0}
    /\ FailuresToLost \in Nat \ {0}
    /\ FailuresToRecover <= FailuresToLost

SupervisorStates == {"UNINITIALIZED", "SEARCHING", "VERIFYING", "TRACKING",
                     "DEGRADED", "RECOVERING", "LOST"}

(* consecutive_failures_, as far as it is compared with anything.          *)
Supervisor == [state : SupervisorStates, failures : 0..FailuresToLost]

Uninitialized == [state |-> "UNINITIALIZED", failures |-> 0]

BeginSearch == [state |-> "SEARCHING", failures |-> 0]

BeginVerification(s) ==
    IF s.state \in {"SEARCHING", "VERIFYING"}
    THEN [s EXCEPT !.state = "VERIFYING"]
    ELSE s

AcceptSearchResult(s) ==
    IF s.state \in {"SEARCHING", "VERIFYING", "DEGRADED", "RECOVERING"}
    THEN [state |-> "TRACKING", failures |-> 0]
    ELSE s

FailTo(s, state) ==
    [state |-> state,
     failures |-> IF s.failures < FailuresToLost THEN s.failures + 1 ELSE s.failures]

RejectSearchResult(s) == FailTo(s, "LOST")

TimeoutSearch(s) == FailTo(s, "LOST")

CancelSearch(s) == [s EXCEPT !.state = "RECOVERING"]

(* The states a failed validation leads through.                           *)
FailedValidation(s) ==
    FailTo(s,
        CASE s.state = "TRACKING" -> "DEGRADED"
          [] s.state = "DEGRADED" /\ s.failures + 1 >= FailuresToRecover -> "RECOVERING"
          [] s.state = "RECOVERING" /\ s.failures + 1 >= FailuresToLost -> "LOST"
          [] OTHER -> s.state)

TrackingValidation(s, accepted) ==
    IF accepted THEN AcceptSearchResult(s) ELSE FailedValidation(s)
=============================================================================
