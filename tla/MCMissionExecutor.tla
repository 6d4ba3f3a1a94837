-------------------------- MODULE MCMissionExecutor --------------------------
(* Small instances of MissionExecutor for TLC.                             *)
EXTENDS MissionExecutor

Open         == [map |-> TRUE, localization |-> TRUE, task |-> TRUE]
MCOpenOrLost == {Open, [Open EXCEPT !.localization = FALSE]}

MCRouteThenEvent == <<"WAYPOINT_TASK", "WAIT_EVENT">>
MCEveryStepType  == <<"WAIT_DURATION", "WAYPOINT_TASK", "WAIT_EVENT">>

MCOneHold  == [pause |-> 1, resume |-> 1, cancel |-> 1]
MCTwoHolds == [MCOneHold EXCEPT !.pause = 2]
=============================================================================
