----------------------------- MODULE BtMission -----------------------------
(***************************************************************************)
(* The mission manager with either of its backends.  With the sequential   *)
(* one it is MissionManager.  With the behaviour tree: BehaviorTree-       *)
(* MissionExecutor.execute and the task of RosBehaviorTreeRunner.run in    *)
(* its event loop, the BtExecutorNode with the worker that ticks a tree,   *)
(* and the waypoint goal that the tree's RosActionBtNode sends.  The       *)
(* manager may die; the executor node, and the tree it ticks, go on.       *)
(*                                                                         *)
(* Around the tree's backend the manager is reduced to one mission at a    *)
(* time and its outcome: checkpoints and overlapping goals are the same    *)
(* code for both.  Readiness and relocalization are one stage of the tree. *)
(***************************************************************************)
EXTENDS MissionManager

VARIABLES
  backend,   \* execution_backend
  mission,   \* the mission in execute, or NoGoal
  asked,     \* its executor's _cancel is set
  outcome,   \* [Goals -> status.state, INTERRUPTED after a death]
  died,      \* history
  step,      \* place in execute
  task,      \* place in runner.run
  child,     \* runner._child: the mission whose goal it is, or NoGoal
  bt,        \* [Goals -> ExecuteBehaviorTree goal of the mission]
  ask,       \* the cancel request sent last: the goal it is for, and where it is
  node,      \* active_goal_ of the executor node, NoGoal unless active_
  flag,      \* cancel_requested_
  tree,      \* the worker's place in run
  way,       \* [Goals -> ExecuteWaypointTask goal of the mission's tree]
  answered,  \* waypoint goals whose response the tree's client has heard
  givenUp    \* canceled_through_run_id_: goals canceled before that

statusVars == <<mission, asked, outcome, died>>
runnerVars == <<step, task, child>>
nodeVars   == <<node, flag, tree>>
wayVars    == <<way, answered, givenUp>>
engineVars == <<bt, ask, nodeVars, wayVars>>
btVars     == <<vars, backend, statusVars, runnerVars, engineVars>>

BtOver  == {"refused", "succeeded", "canceled", "aborted"}
WayOver == {"reached", "missed"}

NoAsk == [goal |-> NoGoal, at |-> "none"]

BtInit ==
  /\ Init /\ backend \in {"sequential", "behavior_tree"}
  /\ mission = NoGoal /\ asked = FALSE /\ outcome = [g \in Goals |-> "IDLE"] /\ died = FALSE
  /\ step = "none" /\ task = "none" /\ child = NoGoal
  /\ bt = [g \in Goals |-> "none"] /\ ask = NoAsk
  /\ node = NoGoal /\ flag = FALSE /\ tree = "none"
  /\ way = [g \in Goals |-> "none"] /\ answered = {} /\ givenUp = {}

-----------------------------------------------------------------------------
(* BehaviorTreeMissionExecutor.execute                                     *)

StatusOnly == UNCHANGED <<runnerVars, engineVars>>

(* A new executor, its flag clear.                                         *)
Begin(g) ==
  /\ mission = NoGoal /\ outcome[g] = "IDLE"
  /\ mission' = g /\ asked' = FALSE /\ outcome' = [outcome EXCEPT ![g] = "VALIDATING"]
  /\ UNCHANGED died /\ StatusOnly

RequestCancel ==
  /\ mission # NoGoal /\ ~asked /\ asked' = TRUE
  /\ UNCHANGED <<mission, outcome, died>> /\ StatusOnly

(* execute returns, or raises and the manager reports FAILED; asyncio.run  *)
(* cancels the task if it is not done.                                     *)
End(result) ==
  /\ outcome' = [outcome EXCEPT ![mission] = result]
  /\ mission' = NoGoal /\ asked' = FALSE /\ step' = "none" /\ task' = "none"
  /\ UNCHANGED <<died, child>>

(* The mission's shape, the task's hash and its map are right, or not.     *)
Validate ==
  /\ mission # NoGoal /\ step = "none"
  /\ \/ /\ step' = "loop" /\ task' = "send"
        /\ outcome' = [outcome EXCEPT ![mission] = "RUNNING"]
        /\ UNCHANGED <<mission, asked, died, child>>
     \/ End("FAILED")
  /\ UNCHANGED engineVars

(* runner.cancel: without a child there is nobody to ask, which counts as  *)
(* confirmed.  An earlier request still on its way counts as lost.         *)
AskCancel ==
  /\ step = "loop" /\ asked /\ task \notin {"done", "raised"}
  /\ \/ child = NoGoal /\ step' = "waiting" /\ UNCHANGED ask
     \/ child # NoGoal /\ step' = "asking" /\ ask' = [goal |-> child, at |-> "sent"]
  /\ UNCHANGED <<statusVars, task, child, bt, nodeVars, wayVars>>

(* Confirmed, or not.  The child may have ended meanwhile.                 *)
HearCancel ==
  /\ step = "asking"
  /\ \/ ask.at = "taken" /\ step' = "waiting" /\ UNCHANGED <<statusVars, task, child>>
     \/ ask.at = "refused" /\ End("FAILED")
  /\ ask' = NoAsk
  /\ UNCHANGED <<bt, nodeVars, wayVars>>

(* No answer in time, which raises.                                        *)
HearNothing == step = "asking" /\ End("FAILED") /\ UNCHANGED engineVars

(* Variant: the child is awaited without a bound.                          *)
AwaitUnbounded ==
  /\ step = "waiting" /\ task \in {"done", "raised"} /\ step' = "loop"
  /\ UNCHANGED <<statusVars, task, child, engineVars>>

(* wait_for: the child ends, or the mission fails without it.              *)
AwaitChild ==
  /\ step = "waiting"
  /\ \/ task \in {"done", "raised"} /\ step' = "loop" /\ UNCHANGED <<statusVars, task, child>>
     \/ task \notin {"done", "raised"} /\ End("FAILED")
  /\ UNCHANGED engineVars

(* Variant: the result's code is not looked at.                            *)
JudgeUnread ==
  /\ step = "loop" /\ task = "done" /\ End(IF asked THEN "CANCELED" ELSE "SUCCEEDED")
  /\ UNCHANGED engineVars

Judge ==
  /\ step = "loop"
  /\ \/ task = "raised" /\ End("FAILED")
     \/ task = "done" /\ End(IF asked \/ bt[mission] = "canceled" THEN "CANCELED"
                            ELSE IF bt[mission] = "succeeded" THEN "SUCCEEDED" ELSE "FAILED")
  /\ UNCHANGED engineVars

-----------------------------------------------------------------------------
(* RosBehaviorTreeRunner.run, a task of the same event loop                *)

TaskOnly == UNCHANGED <<statusVars, step, ask, nodeVars, wayVars>>

(* The executor node is there, or not.                                     *)
TaskSends ==
  /\ task = "send"
  /\ \/ task' = "response" /\ bt' = [bt EXCEPT ![mission] = "sent"]
     \/ task' = "done" /\ UNCHANGED bt
  /\ TaskOnly /\ UNCHANGED child

TaskHearsResponse ==
  /\ task = "response" /\ bt[mission] # "sent"
  /\ \/ bt[mission] = "refused" /\ task' = "done" /\ UNCHANGED child
     \/ bt[mission] # "refused" /\ task' = "result" /\ child' = mission
  /\ TaskOnly /\ UNCHANGED bt

TaskHearsResult ==
  /\ task = "result" /\ bt[mission] \in BtOver /\ task' = "done" /\ child' = NoGoal
  /\ TaskOnly /\ UNCHANGED bt

(* _await gives up; the child stays where it is.                           *)
TimesOut(place) ==
  /\ task = place /\ task' = "raised"
  /\ TaskOnly /\ UNCHANGED <<child, bt>>

-----------------------------------------------------------------------------
(* BtExecutorNode: its callbacks run on one thread, the worker on another  *)

EngineOnly == UNCHANGED <<statusVars, runnerVars>>

(* onGoal, and for a goal that is accepted onAccepted.                     *)
OnGoal(g) ==
  /\ bt[g] = "sent"
  /\ IF node = NoGoal
       THEN /\ bt' = [bt EXCEPT ![g] = "executing"]
            /\ node' = g /\ flag' = FALSE /\ tree' = "ready"
       ELSE bt' = [bt EXCEPT ![g] = "refused"] /\ UNCHANGED nodeVars
  /\ EngineOnly /\ UNCHANGED <<ask, wayVars>>

(* onCancel, of a goal that can still be canceled ...                      *)
OnCancel ==
  /\ ask.at = "sent"
  /\ IF bt[ask.goal] = "executing"
       THEN ask' = [ask EXCEPT !.at = "marking"] /\ flag' = (flag \/ node = ask.goal)
       ELSE ask' = [ask EXCEPT !.at = "refused"] /\ UNCHANGED flag
  /\ EngineOnly /\ UNCHANGED <<bt, node, tree, wayVars>>

(* ... and then the action server marks it, if it is not over by now.      *)
MarkCanceling ==
  /\ ask.at = "marking"
  /\ IF bt[ask.goal] = "executing"
       THEN bt' = [bt EXCEPT ![ask.goal] = "canceling"] /\ ask' = [ask EXCEPT !.at = "taken"]
       ELSE ask' = [ask EXCEPT !.at = "refused"] /\ UNCHANGED bt
  /\ EngineOnly /\ UNCHANGED <<nodeVars, wayVars>>

Tick(from, to) == tree = from /\ tree' = to /\ EngineOnly /\ UNCHANGED <<ask, node, flag>>
Asked == node # NoGoal /\ (flag \/ bt[node] = "canceling")

(* cancelActive of the waypoint node: a goal that was accepted is asked to *)
(* stop, one not answered in time is given up.                             *)
CancelActive ==
  IF node \in answered
    THEN /\ way' = [way EXCEPT ![node] = IF @ = "driving" THEN "stopping" ELSE @]
         /\ UNCHANGED <<answered, givenUp>>
    ELSE givenUp' = givenUp \cup {node} /\ UNCHANGED <<way, answered>>

(* The stages before the waypoint task: passed, failed, or halted.         *)
TickReady ==
  /\ \/ ~Asked /\ Tick("ready", "drive") /\ way' = [way EXCEPT ![node] = "asked"]
     \/ ~Asked /\ Tick("ready", "failed") /\ UNCHANGED way
     \/ Asked /\ Tick("ready", "halted") /\ UNCHANGED way
  /\ UNCHANGED <<bt, answered, givenUp>>

(* onRunning: the result is in, or the time is up.                         *)
TickDrive ==
  /\ tree = "drive" /\ ~Asked
  /\ \/ /\ node \in answered /\ way[node] \in WayOver
        /\ Tick("drive", IF way[node] = "reached" THEN "succeeded" ELSE "failed")
        /\ UNCHANGED wayVars
     \/ Tick("drive", "failed") /\ CancelActive
  /\ UNCHANGED bt

(* Variant: the tree is left as it is.                                     *)
LeaveTree ==
  /\ Tick("drive", "halted") /\ Asked
  /\ UNCHANGED <<bt, wayVars>>

HaltTree ==
  /\ Tick("drive", "halted") /\ Asked /\ CancelActive
  /\ UNCHANGED bt

(* canceled() raises for a goal the server has not marked yet, which then  *)
(* is aborted.                                                             *)
EndGoal ==
  /\ \/ tree = "succeeded" /\ bt' = [bt EXCEPT ![node] = "succeeded"]
     \/ tree = "failed" /\ bt' = [bt EXCEPT ![node] = "aborted"]
     \/ tree = "halted" /\ bt' = [bt EXCEPT ![node] = IF @ = "canceling" THEN "canceled" ELSE "aborted"]
  /\ tree' = "leaving"
  /\ EngineOnly /\ UNCHANGED <<ask, node, flag, wayVars>>

(* active_ is cleared, and the tree destroyed with the clients of its nodes. *)
LeaveWorker ==
  /\ tree = "leaving" /\ tree' = "none" /\ node' = NoGoal /\ givenUp' = givenUp \ {node}
  /\ EngineOnly /\ UNCHANGED <<bt, ask, flag, way, answered>>

-----------------------------------------------------------------------------
(* The waypoint server, and what the tree's client hears of it             *)

WayOnly == EngineOnly /\ UNCHANGED <<bt, ask, nodeVars>>

WaypointStep(g) ==
  /\ \/ way[g] = "asked" /\ way' = [way EXCEPT ![g] = "missed"]
     \/ /\ way[g] = "asked" /\ \A h \in Goals : way[h] \notin {"driving", "stopping"}
        /\ way' = [way EXCEPT ![g] = "driving"]
     \/ /\ way[g] \in {"driving", "stopping"}
        /\ \E next \in WayOver : way' = [way EXCEPT ![g] = next]
  /\ WayOnly /\ UNCHANGED <<answered, givenUp>>

(* goal_response_callback: a goal that was given up is asked to stop.      *)
ResponseHeard(g) ==
  /\ node = g /\ g \notin answered /\ way[g] \notin {"none", "asked"}
  /\ answered' = answered \cup {g}
  /\ way' = IF g \in givenUp /\ way[g] = "driving" THEN [way EXCEPT ![g] = "stopping"] ELSE way
  /\ WayOnly /\ UNCHANGED givenUp

-----------------------------------------------------------------------------
(* The manager's node dies and is started again.  Bound: once.             *)
Die ==
  /\ ~died /\ died' = TRUE
  /\ outcome' = [g \in Goals |-> IF g = mission THEN "INTERRUPTED" ELSE outcome[g]]
  /\ mission' = NoGoal /\ asked' = FALSE /\ step' = "none" /\ task' = "none" /\ child' = NoGoal
  /\ UNCHANGED engineVars

(* The event loop of execute, but for the runner's wait for the result,    *)
(* which takes an hour to run out.                                         *)
Execute ==
  \/ Validate \/ AskCancel \/ HearCancel \/ HearNothing \/ AwaitChild \/ Judge
  \/ TaskSends \/ TaskHearsResponse \/ TaskHearsResult \/ TimesOut("response")

Engine ==
  \/ OnCancel \/ MarkCanceling
  \/ TickReady \/ TickDrive \/ HaltTree \/ EndGoal \/ LeaveWorker
  \/ \E g \in Goals : OnGoal(g) \/ WaypointStep(g) \/ ResponseHeard(g)

BtStep == (\E g \in Goals : Begin(g)) \/ RequestCancel \/ Execute \/ TimesOut("result") \/ Engine \/ Die

BtNext ==
  \/ backend = "sequential" /\ Next /\ UNCHANGED <<backend, statusVars, runnerVars, engineVars>>
  \/ backend = "behavior_tree" /\ BtStep /\ UNCHANGED <<vars, backend>>

(* The event loop goes on, and seconds pass in it; the executor node and   *)
(* the waypoint server need do nothing.                                    *)
BtSpec == BtInit /\ [][BtNext]_btVars /\ WF_btVars(Execute /\ UNCHANGED <<vars, backend>>)

-----------------------------------------------------------------------------
(* A mission ends SUCCEEDED only when its tree's waypoint task was reached, *)
(* and neither SUCCEEDED nor CANCELED while its tree is still on the way to *)
(* start or ticking: only a failed mission may leave one behind.           *)
EndsAsDriven ==
  \A g \in Goals :
    /\ outcome[g] = "SUCCEEDED" => way[g] = "reached"
    /\ outcome[g] \in {"SUCCEEDED", "CANCELED"} => bt[g] \notin {"sent", "executing", "canceling"}

(* A waypoint task the tree has heard to be accepted is never left driving: *)
(* success, failure, time-out and cancel all stop it before the tree ends, *)
(* and a response that comes while the tree is being left does so too.     *)
DrivenIsTicked ==
  \A g \in answered : way[g] = "driving" => node = g /\ tree = "drive"

(* A cancel ends the mission, whatever the executor node and the waypoint  *)
(* server do or fail to do, and long before the runner's own time-out.     *)
CancelEndsMission ==
  \A g \in Goals : mission = g /\ asked ~> mission # g
=============================================================================
