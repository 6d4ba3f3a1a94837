-------------------------- MODULE MissionLifecycle --------------------------
(***************************************************************************)
(* What a mission promises the operator, seen from outside: the states of  *)
(* mission_fsm.py in their legal order, and whether a waypoint child goal  *)
(* is alive on the navigation side ("driving").  A mission is reported as  *)
(* waiting, paused, resuming or finished only while no child goal is       *)
(* alive, unless an exception took the run down ("fallen"): it is FAILED   *)
(* then, from whatever state it was in, and the child goal it may have     *)
(* left behind can only end.  MissionExecutor is shown to implement this   *)
(* module.                                                                 *)
(***************************************************************************)
EXTENDS Naturals

VARIABLES state, driving, fallen

lifecycleVars == <<state, driving, fallen>>

MissionStates ==
  {"IDLE", "VALIDATING", "RUNNING", "WAITING_DURATION", "WAITING_EVENT",
   "PAUSING", "PAUSED", "RESUMING", "CANCELING",
   "SUCCEEDED", "FAILED", "CANCELED"}

Terminal == {"SUCCEEDED", "FAILED", "CANCELED"}
Waiting  == {"WAITING_DURATION", "WAITING_EVENT"}

(* The only states in which the robot may be driven by a child goal.       *)
Moving == {"RUNNING", "PAUSING", "CANCELING"}

(* _TRANSITIONS: the states each state may be followed by.                 *)
Successors ==
  [s \in MissionStates |->
     CASE s = "IDLE"       -> {"VALIDATING"}
       [] s = "VALIDATING" -> {"RUNNING", "FAILED", "CANCELING"}
       [] s = "RUNNING"    -> Waiting \cup {"PAUSING", "CANCELING", "SUCCEEDED", "FAILED"}
       [] s \in Waiting    -> {"PAUSED", "CANCELING", "RUNNING", "FAILED"}
       [] s = "PAUSING"    -> {"PAUSED", "CANCELING", "FAILED"}
       [] s = "PAUSED"     -> {"RESUMING", "CANCELING"}
       [] s = "RESUMING"   -> {"RUNNING", "FAILED", "CANCELING"}
       [] s = "CANCELING"  -> {"CANCELED", "FAILED"}
       [] OTHER            -> {}]

Init == state = "IDLE" /\ driving = FALSE /\ fallen = FALSE

(* The mission moves to a legal state; it leaves the moving states only    *)
(* when the robot is not being driven.                                     *)
Advance ==
  /\ ~fallen /\ state' \in Successors[state]
  /\ state' \notin Moving => ~driving
  /\ UNCHANGED <<driving, fallen>>

(* A child goal is sent, or ends, while the state stays what it is.        *)
Drive ==
  /\ ~fallen /\ state \in Moving
  /\ driving' \in BOOLEAN
  /\ UNCHANGED <<state, fallen>>

(* An exception leaves execute; nobody cancels the child goal.             *)
Fall ==
  /\ ~fallen /\ fallen' = TRUE /\ state' = "FAILED"
  /\ UNCHANGED driving

(* The child goal left behind ends; no other is sent.                      *)
LeftBehindEnds ==
  /\ fallen /\ driving /\ driving' = FALSE
  /\ UNCHANGED <<state, fallen>>

Next == Advance \/ Drive \/ Fall \/ LeftBehindEnds

Spec == Init /\ [][Next]_lifecycleVars
=============================================================================
