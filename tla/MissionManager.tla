--------------------------- MODULE MissionManager ---------------------------
(***************************************************************************)
(* The mission manager node around the executor: which goals it accepts,   *)
(* which executor a cancel or pause request is routed to, what it persists *)
(* and publishes, and what a restart makes of it.  The callbacks run on    *)
(* four threads in a reentrant group, so every goal has its own place in   *)
(* _execute.  The executor itself is reduced to the states it checkpoints  *)
(* (RUNNING stands for every state between VALIDATING and the end;         *)
(* MissionExecutor has the rest).                                          *)
(***************************************************************************)
EXTENDS Naturals

CONSTANTS
  Goals,         \* ExecuteMission goals, each for a mission of its own
  NoGoal,
  MaxCrashes     \* bound on the crashes

ASSUME ManagerAssumption == NoGoal \notin Goals /\ MaxCrashes \in Nat

VARIABLES
  up,            \* the process runs
  phase,         \* [Goals -> place in _goal_callback and _execute]
  state,         \* [Goals -> status.state of the goal's executor]
  active, slot,  \* _active, and the goal whose executor is _executor
  canceling,     \* goals whose cancel was accepted
  flagged,       \* goals whose executor has its cancel flag set
  disk,          \* execution_state.json
  published,     \* the latched /agt/missions/status
  routed,        \* history: <<goal a request named, goal whose executor got it>>
  overlapped,    \* history: a goal was accepted before another one's end
  crashes        \* history

requestVars == <<canceling, flagged, routed>>
vars == <<up, phase, state, active, slot, requestVars, disk, published, overlapped, crashes>>

Running   == {"VALIDATING", "RUNNING"}
Ended     == {"SUCCEEDED", "FAILED", "CANCELED"}
Outside   == {"none", "refused", "done", "lost"}
InExecute == {"loading", "installed", "persist", "publish", "running", "ended", "raised", "leaving"}
Idle      == [goal |-> NoGoal, state |-> "IDLE"]
Status    == {Idle} \cup [goal : Goals, state : {"INTERRUPTED"} \cup Running \cup Ended]

TypeOK ==
  /\ up \in BOOLEAN /\ active \in BOOLEAN /\ slot \in Goals \cup {NoGoal}
  /\ phase \in [Goals -> Outside \cup {"accepted"} \cup InExecute]
  /\ state \in [Goals -> {"IDLE"} \cup Running \cup Ended]
  /\ canceling \subseteq Goals /\ flagged \subseteq Goals /\ routed \subseteq Goals \X Goals
  /\ disk \in Status /\ published \in Status /\ overlapped \in BOOLEAN /\ crashes \in 0..MaxCrashes

Init ==
  /\ up = TRUE /\ active = FALSE /\ slot = NoGoal
  /\ phase = [g \in Goals |-> "none"] /\ state = [g \in Goals |-> "IDLE"]
  /\ canceling = {} /\ flagged = {} /\ routed = {}
  /\ disk = Idle /\ published = Idle /\ overlapped = FALSE /\ crashes = 0

Move(g, from, to) == up /\ phase[g] = from /\ phase' = [phase EXCEPT ![g] = to]

-----------------------------------------------------------------------------
(* Callbacks                                                               *)

(* _goal_callback: refused while active, or when the path is not valid.    *)
GoalCallback(g) ==
  /\ \/ /\ ~active /\ Move(g, "none", "accepted")
        /\ overlapped' = (overlapped \/ \E h \in Goals \ {g} : phase[h] \notin Outside)
     \/ Move(g, "none", "refused") /\ UNCHANGED overlapped
  /\ UNCHANGED <<up, state, active, slot, requestVars, disk, published, crashes>>

(* _cancel_callback: whatever executor is installed gets the flag.  The    *)
(* action server offers it goals that are neither canceling nor over.      *)
CancelCallback(g) ==
  /\ up /\ phase[g] \in ({"accepted"} \cup InExecute) \ {"leaving"} /\ g \notin canceling
  /\ canceling' = canceling \cup {g}
  /\ IF slot = NoGoal
       THEN UNCHANGED <<flagged, routed>>
       ELSE flagged' = flagged \cup {slot} /\ routed' = routed \cup {<<g, slot>>}
  /\ UNCHANGED <<up, phase, state, active, slot, disk, published, overlapped, crashes>>

(* _set_run_state, up to the pause that the executor accepts: the mission  *)
(* named must be the one published last.                                   *)
PauseRequest(g) ==
  /\ up /\ slot # NoGoal /\ published.goal = g /\ state[slot] = "RUNNING"
  /\ routed' = routed \cup {<<g, slot>>}
  /\ UNCHANGED <<up, phase, state, active, slot, canceling, flagged, disk, published, overlapped, crashes>>

-----------------------------------------------------------------------------
(* _execute                                                                *)

Enter(g) ==
  /\ Move(g, "accepted", "loading")
  /\ active' = TRUE
  /\ UNCHANGED <<up, state, slot, requestVars, disk, published, overlapped, crashes>>

Load(g) ==
  /\ Move(g, "loading", "installed")
  /\ slot' = g
  /\ UNCHANGED <<up, state, active, requestVars, disk, published, overlapped, crashes>>

(* Variant: a refused mission leaves without the finally clause.           *)
RejectAndReturn(g) ==
  /\ Move(g, "loading", "done")
  /\ published' = [goal |-> g, state |-> "FAILED"]
  /\ UNCHANGED <<up, state, active, slot, requestVars, disk, overlapped, crashes>>

(* MissionError or TaskGroupError: FAILED is published, never persisted.   *)
Reject(g) ==
  /\ Move(g, "loading", "leaving")
  /\ published' = [goal |-> g, state |-> "FAILED"]
  /\ UNCHANGED <<up, state, active, slot, requestVars, disk, overlapped, crashes>>

(* MissionExecutor.execute clears its flags, then checkpoints.             *)
Start(g) ==
  /\ Move(g, "installed", "persist")
  /\ flagged' = flagged \ {g}
  /\ state' = [state EXCEPT ![g] = "VALIDATING"]
  /\ UNCHANGED <<up, active, slot, canceling, routed, disk, published, overlapped, crashes>>

(* The executor's next status; CANCELED takes a cancel flag.               *)
Advance(g) ==
  /\ Move(g, "running", "persist")
  /\ \E next \in {"RUNNING", "SUCCEEDED", "FAILED", "CANCELED"} :
       /\ next = "CANCELED" => g \in flagged
       /\ next \in {"SUCCEEDED", "CANCELED"} => state[g] = "RUNNING"
       /\ state' = [state EXCEPT ![g] = next]
  /\ UNCHANGED <<up, active, slot, requestVars, disk, published, overlapped, crashes>>

(* _checkpoint: the status is written before it is published.              *)
Persist(g) ==
  /\ Move(g, "persist", "publish")
  /\ disk' = [goal |-> g, state |-> state[g]]
  /\ UNCHANGED <<up, state, active, slot, requestVars, published, overlapped, crashes>>

(* Writing the status or the audit log raises.                             *)
Throw(g) ==
  /\ \E place \in {"persist", "running", "ended"} : Move(g, place, "raised")
  /\ UNCHANGED <<up, state, active, slot, requestVars, disk, published, overlapped, crashes>>

Publish(g) ==
  /\ Move(g, "publish", IF state[g] \in Ended THEN "ended" ELSE "running")
  /\ published' = [goal |-> g, state |-> state[g]]
  /\ UNCHANGED <<up, state, active, slot, requestVars, disk, overlapped, crashes>>

(* The goal is succeeded, canceled or aborted; canceled() raises for a     *)
(* goal nobody asked to cancel.                                            *)
Finish(g) ==
  /\ \/ state[g] = "CANCELED" /\ g \notin canceling /\ Move(g, "ended", "raised")
     \/ ~(state[g] = "CANCELED" /\ g \notin canceling) /\ Move(g, "ended", "leaving")
  /\ UNCHANGED <<up, state, active, slot, requestVars, disk, published, overlapped, crashes>>

(* except Exception: FAILED is published, never persisted.                 *)
Raised(g) ==
  /\ Move(g, "raised", "leaving")
  /\ published' = [goal |-> g, state |-> "FAILED"]
  /\ UNCHANGED <<up, state, active, slot, requestVars, disk, overlapped, crashes>>

(* Variant: the executor stays installed.                                  *)
LeaveInstalled(g) ==
  /\ Move(g, "leaving", "done")
  /\ active' = FALSE
  /\ UNCHANGED <<up, state, slot, requestVars, disk, published, overlapped, crashes>>

(* finally: slot and active are cleared, whoever set them.                 *)
Leave(g) ==
  /\ Move(g, "leaving", "done")
  /\ slot' = NoGoal /\ active' = FALSE
  /\ UNCHANGED <<up, state, requestVars, disk, published, overlapped, crashes>>

-----------------------------------------------------------------------------
(* Crash and restart                                                       *)

Crash ==
  /\ up /\ crashes < MaxCrashes
  /\ up' = FALSE /\ crashes' = crashes + 1
  /\ phase' = [g \in Goals |-> IF phase[g] \in Outside THEN phase[g] ELSE "lost"]
  /\ state' = [g \in Goals |-> "IDLE"]
  /\ active' = FALSE /\ slot' = NoGoal /\ canceling' = {} /\ flagged' = {}
  /\ UNCHANGED <<disk, published, routed, overlapped>>

(* Variant: a mission that was still validating is not recovered.          *)
RecoversRunningOnly(s) == s \in {"RUNNING", "INTERRUPTED"}

(* recover_interrupted: the states below SUCCEEDED, and INTERRUPTED.       *)
Recovers(s) == s \in Running \cup {"INTERRUPTED"}

(* _restore_interrupted_status and the first publication.                  *)
Restart ==
  /\ ~up /\ up' = TRUE
  /\ disk' = IF Recovers(disk.state) THEN [disk EXCEPT !.state = "INTERRUPTED"] ELSE disk
  /\ published' = IF Recovers(disk.state) THEN disk' ELSE Idle
  /\ UNCHANGED <<phase, state, active, slot, requestVars, overlapped, crashes>>

-----------------------------------------------------------------------------
Next ==
  \/ \E g \in Goals :
       \/ GoalCallback(g) \/ CancelCallback(g) \/ PauseRequest(g)
       \/ Enter(g) \/ Load(g) \/ Reject(g) \/ Start(g) \/ Advance(g)
       \/ Persist(g) \/ Throw(g) \/ Publish(g) \/ Finish(g) \/ Raised(g) \/ Leave(g)
  \/ Crash \/ Restart

Spec == Init /\ [][Next]_vars

-----------------------------------------------------------------------------
(* Unless a goal was accepted before another one's end, a cancel or pause   *)
(* request reaches the executor of the mission it names and no other.      *)
RequestsReachTheirMission == overlapped \/ \A r \in routed : r[1] = r[2]

(* When no goal is inside _execute, the node accepts goals again: every    *)
(* way out, the exceptions included, gives back the flag and the slot.     *)
IdleAcceptsGoals ==
  (\A g \in Goals : phase[g] \notin InExecute) => ~active /\ slot = NoGoal

(* Unless a goal was accepted before another one's end, a mission last     *)
(* seen running is reported INTERRUPTED by name after a restart, unless    *)
(* its terminal status reached the disk first; one seen SUCCEEDED or       *)
(* CANCELED is never reported INTERRUPTED.                                 *)
RestartKeepsFaith ==
  [][Restart /\ ~overlapped =>
       LET interrupted == [published EXCEPT !.state = "INTERRUPTED"] IN
       /\ published.state \in Running =>
            published' = interrupted \/ (disk.goal = published.goal /\ disk.state \in Ended)
       /\ published.state \in {"SUCCEEDED", "CANCELED"} => published' # interrupted]_vars
=============================================================================
