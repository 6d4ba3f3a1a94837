--------------------------- MODULE MissionExecutor ---------------------------
(***************************************************************************)
(* One mission run by MissionExecutor.execute: the executor coroutine, the *)
(* child coroutine RosWaypointRunner.run it starts on the same event loop, *)
(* the ExecuteWaypointTask action server on the other side of ROS, and the *)
(* ROS threads that call request_pause / request_resume / request_cancel,  *)
(* deliver feedback and events, and change the gates, at any moment.       *)
(*                                                                         *)
(* pc names the place of the executor coroutine between two reads of state *)
(* that another thread may write.  A threading.Event is a member of        *)
(* signals.  Time is counted in polls; a wall-clock stamp is the index of  *)
(* the step that was current when it was taken.                            *)
(***************************************************************************)
EXTENDS Naturals, Sequences, FiniteSets

CONSTANTS
  Mission,         \* sequence of step types, mission.steps
  Waypoints,       \* enabled points of a waypoint task
  Loops,           \* loop_count of a waypoint task
  Polls,           \* polls in duration_s / timeout_s
  GateSnapshots,   \* the gate snapshots the node may take
  MaxAsks,         \* bound: accepted requests of each kind
  MaxFeedback      \* bound: feedback messages in flight

StepTypes == {"WAYPOINT_TASK", "WAIT_DURATION", "WAIT_EVENT"}
Requests  == {"pause", "resume", "cancel"}
GateSnapshot == [map : BOOLEAN, localization : BOOLEAN, task : BOOLEAN]

ASSUME MissionAssumption == Mission \in Seq(StepTypes)
ASSUME TaskAssumption ==
  Waypoints \in Nat \ {0} /\ Loops \in Nat \ {0} /\ Polls \in Nat \ {0}
ASSUME GateAssumption == GateSnapshots \subseteq GateSnapshot
ASSUME BoundAssumption == MaxAsks \in [Requests -> Nat] /\ MaxFeedback \in Nat

VARIABLES
  \* executor coroutine
  pc, fsm, raised, error, step, remaining, notBefore, site, intent, confirmed,
  \* flags shared with the ROS threads, and the resume cursor
  signals, cursor,
  \* runner coroutine: its place, the goal it asked for, _child, what it returned
  child, request, handle, result,
  \* action server and transport
  goal, progress, cancelMsg, feedback,
  \* environment: gates, event inbox, request calls past their check
  gates, inbox, asking,
  \* history: waypoints reached, requests accepted, holds ended
  visited, asked, released

executorVars == <<pc, fsm, raised, error, step, remaining, notBefore, site, intent, confirmed>>
runnerVars   == <<child, request, handle, result>>
serverVars   == <<goal, progress, cancelMsg, feedback, visited>>
envVars      == <<gates, inbox, asking, asked>>
vars == <<executorVars, signals, cursor, runnerVars, serverVars, envVars, released>>

Lifecycle == INSTANCE MissionLifecycle WITH
               state <- fsm, driving <- goal \in {"pending", "executing", "canceling"},
               fallen <- error = "INTERNAL"

Cursor == [loop : 0..Loops, wp : 0..(Waypoints - 1)]
Lesser(a, b) == IF a < b THEN a ELSE b
Live     == {"pending", "executing", "canceling"}
Finished == {"rejected", "succeeded", "canceled", "aborted"}
CurrentStep == Mission[step]
WaitState == IF CurrentStep = "WAIT_EVENT" THEN "WAITING_EVENT" ELSE "WAITING_DURATION"

Init ==
  /\ pc = "start" /\ fsm = "IDLE" /\ raised = FALSE /\ error = "NONE"
  /\ step = 1 /\ remaining = 0 /\ notBefore = 0
  /\ site = "step" /\ intent = "cancel" /\ confirmed = FALSE
  /\ signals = {} /\ cursor = [loop |-> 0, wp |-> 0]
  /\ child = "none" /\ request = [loop |-> 0, wp |-> 0] /\ handle = FALSE /\ result = "none"
  /\ goal = "none" /\ progress = 0 /\ cancelMsg = "none" /\ feedback = {}
  /\ gates \in GateSnapshots /\ inbox = {} /\ asking = {}
  /\ visited = {} /\ asked = [r \in Requests |-> 0] /\ released = 0

-----------------------------------------------------------------------------
(* MissionFsm.transition: an illegal target raises MissionError.  The      *)
(* checkpoint and the audit entry that follow may fail too: WriteFails.    *)
Transition(target) ==
  IF target \in Lifecycle!Successors[fsm]
    THEN fsm' = target /\ UNCHANGED raised
    ELSE raised' = TRUE /\ UNCHANGED fsm

(* GateSnapshot.validate: the first gate that is closed names the error.   *)
Verdict(g) == CASE ~g.map          -> "MAP_MISMATCH"
                [] ~g.localization -> "LOCALIZATION_LOST"
                [] ~g.task         -> "READINESS_LOST"
                [] OTHER           -> "NONE"
GatesReady == Verdict(gates) = "NONE"

GoTo(place) == pc' = place

Fail(code) ==
  /\ IF fsm \in Lifecycle!Terminal THEN UNCHANGED <<fsm, raised>> ELSE Transition("FAILED")
  /\ error' = code
  /\ GoTo("end")

(* An exception leaves execute: asyncio.run drops the child coroutine,     *)
(* whose goal nobody cancels and whose _child stays, and the node publishes *)
(* FAILED with ERROR_INTERNAL.                                             *)
Collapse == fsm' = "FAILED" /\ error' = "INTERNAL" /\ GoTo("end") /\ child' = "none"

BeginCancel == Transition("CANCELING") /\ GoTo("cancelTerminal") /\ UNCHANGED error

StepDone == step' = step + 1 /\ GoTo("head")

(* What an executor step leaves alone when it touches only its own state.  *)
ElseUnchanged == UNCHANGED <<runnerVars, serverVars, envVars>>
LocalsUnchanged == UNCHANGED <<remaining, notBefore, site, intent, confirmed>>
QuietStep == ElseUnchanged /\ LocalsUnchanged /\ UNCHANGED <<cursor, released>>

-----------------------------------------------------------------------------
(* execute                                                                 *)

(* The three events are cleared and the machine leaves IDLE.               *)
Start ==
  /\ pc = "start"
  /\ signals' = {}
  /\ Transition("VALIDATING") /\ GoTo("gates")
  /\ QuietStep /\ UNCHANGED <<step, error>>

Validate ==
  /\ pc = "gates"
  /\ \/ GatesReady /\ Transition("RUNNING") /\ GoTo("head") /\ UNCHANGED error
     \/ ~GatesReady /\ Fail(Verdict(gates))
  /\ QuietStep /\ UNCHANGED <<step, signals>>

(* Top of the step loop, and the same check after the last step.           *)
StepHead ==
  /\ pc = "head"
  /\ \/ "cancel" \in signals /\ BeginCancel
     \/ "cancel" \notin signals /\ GoTo("between") /\ UNCHANGED <<fsm, raised, error>>
  /\ QuietStep /\ UNCHANGED <<step, signals>>

(* _pause_between_steps                                                    *)
BetweenSteps ==
  /\ pc = "between"
  /\ \/ "pause" \notin signals /\ GoTo("begin") /\ UNCHANGED <<fsm, raised>>
     \/ "pause" \in signals /\ Transition("PAUSING") /\ GoTo("pausing")
  /\ QuietStep /\ UNCHANGED <<step, error, signals>>

PausedBetweenSteps ==
  /\ pc = "pausing"
  /\ Transition("PAUSED") /\ GoTo("clearPause") /\ site' = "step"
  /\ ElseUnchanged
  /\ UNCHANGED <<step, error, signals, remaining, notBefore, intent, confirmed, cursor, released>>

Succeed ==
  /\ pc = "begin" /\ step > Len(Mission)
  /\ Transition("SUCCEEDED") /\ GoTo("end")
  /\ QuietStep /\ UNCHANGED <<step, error, signals>>

(* Gates are checked again before the waypoint task starts.                *)
BeginWaypoint ==
  /\ pc = "begin" /\ step <= Len(Mission) /\ CurrentStep = "WAYPOINT_TASK"
  /\ \/ /\ GatesReady /\ GoTo("spawn")
        /\ cursor' = [loop |-> 0, wp |-> 0]
        /\ UNCHANGED <<fsm, raised, error>>
     \/ ~GatesReady /\ Fail(Verdict(gates)) /\ UNCHANGED cursor
  /\ ElseUnchanged /\ LocalsUnchanged /\ UNCHANGED <<step, signals, released>>

(* Entry of _run_duration and _run_event.                                  *)
BeginWait ==
  /\ pc = "begin" /\ step <= Len(Mission) /\ CurrentStep # "WAYPOINT_TASK"
  /\ remaining' = Polls
  /\ notBefore' = IF CurrentStep = "WAIT_EVENT" THEN step ELSE notBefore
  /\ Transition(WaitState) /\ GoTo("wait")
  /\ ElseUnchanged
  /\ UNCHANGED <<step, error, signals, site, intent, confirmed, cursor, released>>

-----------------------------------------------------------------------------
(* _run_duration and _run_event: one turn of the polling loop.             *)

(* The loop condition fails: a duration is over, an event is late.         *)
WaitElapsed ==
  /\ pc = "wait" /\ remaining = 0
  /\ \/ CurrentStep = "WAIT_DURATION" /\ Transition("RUNNING") /\ StepDone /\ UNCHANGED error
     \/ CurrentStep = "WAIT_EVENT" /\ Fail("EVENT_TIMEOUT") /\ UNCHANGED step
  /\ QuietStep /\ UNCHANGED signals

WaitCanceled ==
  /\ pc = "wait" /\ remaining > 0 /\ "cancel" \in signals
  /\ BeginCancel
  /\ QuietStep /\ UNCHANGED <<step, signals>>

(* EventInbox.consume_matching over the stamps of the matching events.     *)
FreshEvents == IF CurrentStep = "WAIT_EVENT" THEN {e \in inbox : e >= notBefore} ELSE {}

EventReceived ==
  /\ pc = "wait" /\ remaining > 0 /\ "cancel" \notin signals
  /\ \E e \in FreshEvents : inbox' = inbox \ {e}
  /\ Transition("RUNNING") /\ StepDone
  /\ LocalsUnchanged
  /\ UNCHANGED <<error, signals, cursor, released, runnerVars, serverVars, gates, asking, asked>>

WaitPaused ==
  /\ pc = "wait" /\ remaining > 0 /\ "cancel" \notin signals /\ FreshEvents = {}
  /\ "pause" \in signals
  /\ Transition("PAUSED") /\ GoTo("clearPause") /\ site' = "wait"
  /\ ElseUnchanged
  /\ UNCHANGED <<step, error, signals, remaining, notBefore, intent, confirmed, cursor, released>>

WaitSleep ==
  /\ pc = "wait" /\ remaining > 0 /\ FreshEvents = {}
  /\ signals \cap {"cancel", "pause"} = {}
  /\ GoTo("sleep")
  /\ QuietStep /\ UNCHANGED <<fsm, raised, step, error, signals>>

(* The sleep ends and its time is taken off the remaining time.            *)
WaitWoken ==
  /\ pc = "sleep"
  /\ remaining' = remaining - 1 /\ GoTo("wait")
  /\ ElseUnchanged
  /\ UNCHANGED <<fsm, raised, step, error, signals, notBefore, site, intent, confirmed, cursor, released>>

(* After a resume the wait goes on with a sleep, the flags unread.         *)
WaitContinued ==
  /\ pc = "rewait"
  /\ Transition(WaitState) /\ GoTo("sleep")
  /\ QuietStep /\ UNCHANGED <<step, error, signals>>

-----------------------------------------------------------------------------
(* _pause_until_resumed: site says which of its three callers waits.       *)

(* Variants: the other flags are cleared as well.                          *)
ClearAllFlags ==
  /\ pc = "clearPause"
  /\ signals' = {} /\ GoTo("held")
  /\ QuietStep /\ UNCHANGED <<fsm, raised, step, error>>

ClearPauseAndResume ==
  /\ pc = "clearPause"
  /\ signals' = signals \ {"pause", "resume"} /\ GoTo("held")
  /\ QuietStep /\ UNCHANGED <<fsm, raised, step, error>>

ClearPause ==
  /\ pc = "clearPause"
  /\ signals' = signals \ {"pause"} /\ GoTo("held")
  /\ QuietStep /\ UNCHANGED <<fsm, raised, step, error>>

(* Variant: the resume flag stays set.                                     *)
HeldKeepingFlag ==
  /\ pc = "held"
  /\ \/ "resume" \in signals /\ GoTo("resume") /\ released' = released + 1
     \/ "resume" \notin signals /\ GoTo("heldCheck") /\ UNCHANGED released
  /\ ElseUnchanged /\ LocalsUnchanged /\ UNCHANGED <<fsm, raised, step, error, signals, cursor>>

(* The resume flag is read and, if set, cleared.                           *)
Held ==
  /\ pc = "held"
  /\ \/ /\ "resume" \in signals
        /\ signals' = signals \ {"resume"} /\ GoTo("resume")
        /\ released' = released + 1
     \/ "resume" \notin signals /\ GoTo("heldCheck") /\ UNCHANGED <<signals, released>>
  /\ ElseUnchanged /\ LocalsUnchanged /\ UNCHANGED <<fsm, raised, step, error, cursor>>

(* The cancel flag is read only while no resume was seen.                  *)
HeldCheck ==
  /\ pc = "heldCheck"
  /\ \/ "cancel" \in signals /\ BeginCancel
     \/ "cancel" \notin signals /\ GoTo("held") /\ UNCHANGED <<fsm, raised, error>>
  /\ QuietStep /\ UNCHANGED <<step, signals>>

Resume ==
  /\ pc = "resume"
  /\ Transition("RESUMING") /\ GoTo("resuming")
  /\ QuietStep /\ UNCHANGED <<step, error, signals>>

Continuation == [step |-> "begin", waypoint |-> "spawn", wait |-> "rewait"]

(* Variant: closed gates end the hold without failing the mission, and the *)
(* caller cancels it.                                                      *)
ResumingWithoutFail ==
  /\ pc = "resuming"
  /\ \/ GatesReady /\ Transition("RUNNING") /\ GoTo(Continuation[site]) /\ UNCHANGED error
     \/ ~GatesReady /\ BeginCancel
  /\ QuietStep /\ UNCHANGED <<step, signals>>

Resuming ==
  /\ pc = "resuming"
  /\ \/ GatesReady /\ Transition("RUNNING") /\ GoTo(Continuation[site]) /\ UNCHANGED error
     \/ ~GatesReady /\ Fail(Verdict(gates))
  /\ QuietStep /\ UNCHANGED <<step, signals>>

CancelTerminal ==
  /\ pc = "cancelTerminal"
  /\ Transition("CANCELED") /\ error' = "CANCELED" /\ GoTo("end")
  /\ QuietStep /\ UNCHANGED <<step, signals>>

-----------------------------------------------------------------------------
(* _run_waypoint                                                           *)

SpawnChild ==
  /\ pc = "spawn"
  /\ child' = "start" /\ GoTo("poll")
  /\ LocalsUnchanged
  /\ UNCHANGED <<fsm, raised, step, error, signals, cursor, request, handle, result,
                 serverVars, envVars, released>>

(* A flag is seen while the child runs; cancel wins over pause.            *)
InterruptChild ==
  /\ pc = "poll" /\ child # "done"
  /\ \/ "cancel" \in signals /\ intent' = "cancel" /\ Transition("CANCELING")
     \/ /\ "cancel" \notin signals /\ "pause" \in signals
        /\ intent' = "pause" /\ Transition("PAUSING")
  /\ GoTo("cancelChild")
  /\ ElseUnchanged
  /\ UNCHANGED <<step, error, signals, remaining, notBefore, site, confirmed, cursor, released>>

ChildCode == IF result = "rejected" THEN "CHILD_REJECTED" ELSE "CHILD_FAILED"

(* The child coroutine ended on its own.                                   *)
ChildDone ==
  /\ pc = "poll" /\ child = "done" /\ result # "raised"
  /\ child' = "none"
  /\ \/ "cancel" \in signals /\ BeginCancel /\ UNCHANGED step
     \/ "cancel" \notin signals /\ result = "ok" /\ StepDone /\ UNCHANGED <<fsm, raised, error>>
     \/ "cancel" \notin signals /\ result # "ok" /\ Fail(ChildCode) /\ UNCHANGED step
  /\ LocalsUnchanged
  /\ UNCHANGED <<signals, cursor, request, handle, result, serverVars, envVars, released>>

(* RosWaypointRunner.cancel: without a handle there is nothing to cancel.  *)
CancelChild ==
  /\ pc = "cancelChild"
  /\ \/ ~handle /\ confirmed' = TRUE /\ GoTo("join") /\ UNCHANGED cancelMsg
     \/ handle /\ cancelMsg' = "sent" /\ GoTo("cancelWait") /\ UNCHANGED confirmed
  /\ UNCHANGED <<fsm, raised, error, step, remaining, notBefore, site, intent, signals, cursor,
                 runnerVars, goal, progress, feedback, visited, envVars, released>>

CancelAnswered ==
  /\ pc = "cancelWait" /\ cancelMsg \in {"accepted", "refused"}
  /\ confirmed' = (cancelMsg = "accepted")
  /\ cancelMsg' = "none" /\ GoTo("join")
  /\ UNCHANGED <<fsm, raised, error, step, remaining, notBefore, site, intent, signals, cursor,
                 runnerVars, goal, progress, feedback, visited, envVars, released>>

(* Variants: the child is not awaited at all, or not when the server       *)
(* refused to cancel.                                                      *)
JoinedAs(outcome) ==
  /\ child' = "none"
  /\ \/ /\ outcome /\ intent = "pause"
        /\ Transition("PAUSED") /\ GoTo("clearPause") /\ site' = "waypoint" /\ UNCHANGED error
     \/ outcome /\ intent = "cancel" /\ GoTo("cancelTerminal") /\ UNCHANGED <<fsm, raised, error, site>>
     \/ ~outcome /\ Fail("CHILD_FAILED") /\ UNCHANGED site
  /\ UNCHANGED <<step, remaining, notBefore, intent, confirmed, signals, cursor, request,
                 handle, result, serverVars, envVars, released>>

JoinChildWithoutAwait == pc = "join" /\ JoinedAs(confirmed)

JoinChildRefusedEarly ==
  pc = "join" /\ (confirmed => child = "done") /\ JoinedAs(confirmed /\ result = "canceled")

(* The interrupted child is awaited, then held, canceled or failed.        *)
JoinChild ==
  /\ pc = "join" /\ child = "done" /\ result # "raised"
  /\ child' = "none"
  /\ \/ /\ confirmed /\ result = "canceled" /\ intent = "pause"
        /\ Transition("PAUSED") /\ GoTo("clearPause") /\ site' = "waypoint" /\ UNCHANGED error
     \/ /\ confirmed /\ result = "canceled" /\ intent = "cancel"
        /\ GoTo("cancelTerminal") /\ UNCHANGED <<fsm, raised, error, site>>
     \/ ~(confirmed /\ result = "canceled") /\ Fail("CHILD_FAILED") /\ UNCHANGED site
  /\ UNCHANGED <<step, remaining, notBefore, intent, confirmed, signals, cursor, request,
                 handle, result, serverVars, envVars, released>>

(* await child_task: what the child raised leaves execute.                 *)
ChildRaised ==
  /\ pc \in {"poll", "join"} /\ child = "done" /\ result = "raised"
  /\ Collapse
  /\ LocalsUnchanged
  /\ UNCHANGED <<raised, step, signals, cursor, request, handle, result, serverVars, envVars, released>>

(* The state document or the audit log cannot be written: everywhere but   *)
(* where the executor waits or polls.  After a terminal state was published *)
(* FAILED follows it.                                                      *)
WriteFails ==
  /\ ~raised /\ pc \notin {"held", "cancelWait"}
  /\ pc = "heldCheck" => "cancel" \in signals
  /\ pc = "poll" => child = "done" \/ signals \cap {"cancel", "pause"} # {}
  /\ pc = "join" => child = "done"
  /\ pc = "end" => error # "INTERNAL"
  /\ Collapse
  /\ LocalsUnchanged
  /\ UNCHANGED <<raised, step, signals, cursor, request, handle, result, serverVars, envVars, released>>

-----------------------------------------------------------------------------
(* RosWaypointRunner.run                                                   *)

RunnerOnly == UNCHANGED <<executorVars, signals, envVars, released>>

(* The child coroutine returns res to the executor.                        *)
Return(res) == result' = res /\ child' = "done"

(* send_goal_async for one loop, from waypoint wp on.                      *)
SendGoal(loop, wp) ==
  /\ request' = [loop |-> loop, wp |-> wp]
  /\ goal' = "pending" /\ child' = "sending"

(* The task file does not load, the server is not there, or the first goal *)
(* is sent from the cursor.                                                *)
RunStart ==
  /\ child = "start"
  /\ \/ \E res \in {"failed", "rejected"} : Return(res) /\ UNCHANGED <<request, goal>>
     \/ /\ SendGoal(Lesser(cursor.loop, Loops - 1), Lesser(cursor.wp, Waypoints - 1))
        /\ UNCHANGED result
  /\ RunnerOnly /\ UNCHANGED <<cursor, handle, progress, cancelMsg, feedback, visited>>

(* Variant: the acceptance flag of the response is not looked at.          *)
RunAnsweredUnread ==
  /\ child = "sending" /\ goal # "pending"
  /\ handle' = TRUE /\ child' = "awaiting" /\ cursor' = request
  /\ RunnerOnly /\ UNCHANGED <<result, request, serverVars>>

(* The goal response arrives: only now is there a handle to cancel.  The   *)
(* feedback call moves the cursor and checkpoints, which may raise here     *)
(* while the goal executes.                                                *)
RunAnswered ==
  /\ child = "sending" /\ goal # "pending"
  /\ \/ goal = "rejected" /\ Return("rejected") /\ UNCHANGED <<handle, cursor>>
     \/ /\ goal # "rejected" /\ handle' = TRUE /\ cursor' = request
        /\ \/ child' = "awaiting" /\ UNCHANGED result
           \/ Return("raised")
  /\ RunnerOnly /\ UNCHANGED <<request, serverVars>>

(* Variant: the offset of the resumed loop is applied to every loop.       *)
RunResultKeepingOffset ==
  /\ child = "awaiting" /\ goal \in Finished
  /\ handle' = FALSE
  /\ \/ goal = "canceled" /\ Return("canceled") /\ UNCHANGED <<cursor, request, goal>>
     \/ goal = "aborted" /\ Return("failed") /\ UNCHANGED <<cursor, request, goal>>
     \/ /\ goal = "succeeded"
        /\ cursor' = [loop |-> request.loop + 1, wp |-> 0]
        /\ \/ request.loop + 1 < Loops /\ SendGoal(request.loop + 1, request.wp) /\ UNCHANGED result
           \/ request.loop + 1 >= Loops /\ Return("ok") /\ UNCHANGED <<request, goal>>
  /\ RunnerOnly /\ UNCHANGED <<progress, cancelMsg, feedback, visited>>

(* The result of one loop: the next loop is sent, or the coroutine returns, *)
(* or the checkpoint of its feedback call raises.                          *)
RunResult ==
  /\ child = "awaiting" /\ goal \in Finished
  /\ handle' = FALSE
  /\ \/ goal = "canceled" /\ Return("canceled") /\ UNCHANGED <<cursor, request, goal>>
     \/ goal = "aborted" /\ Return("failed") /\ UNCHANGED <<cursor, request, goal>>
     \/ /\ goal = "succeeded"
        /\ cursor' = [loop |-> request.loop + 1, wp |-> 0]
        /\ \/ request.loop + 1 < Loops /\ SendGoal(request.loop + 1, 0) /\ UNCHANGED result
           \/ request.loop + 1 >= Loops /\ Return("ok") /\ UNCHANGED <<request, goal>>
           \/ Return("raised") /\ UNCHANGED <<request, goal>>
  /\ RunnerOnly /\ UNCHANGED <<progress, cancelMsg, feedback, visited>>

(* on_feedback, on a ROS thread, possibly long after it was published; the *)
(* closure of an earlier step writes a cursor nobody reads any more.  When *)
(* its checkpoint raises here the node goes down, which ends this module.  *)
FeedbackArrives ==
  \E m \in feedback :
    /\ feedback' = feedback \ {m}
    /\ cursor' = IF m.step = step THEN m.at ELSE cursor
    /\ UNCHANGED <<executorVars, signals, runnerVars, goal, progress, cancelMsg, visited,
                   envVars, released>>

-----------------------------------------------------------------------------
(* The ExecuteWaypointTask server, waypoint_task_server.py, reduced to the *)
(* life of a goal and the waypoints it reaches; WaypointServer has the     *)
(* rest.  A cancel is accepted at once, a goal may end all the same.       *)

ServerOnly == UNCHANGED <<executorVars, signals, cursor, runnerVars, envVars, released>>

ServerAnswer ==
  /\ goal = "pending"
  /\ goal' \in {"executing", "rejected"} /\ progress' = request.wp
  /\ ServerOnly /\ UNCHANGED <<cancelMsg, feedback, visited>>

ServerReach ==
  /\ goal \in {"executing", "canceling"} /\ progress < Waypoints
  /\ visited' = visited \cup {<<step, request.loop, progress>>}
  /\ progress' = progress + 1
  /\ ServerOnly /\ UNCHANGED <<goal, cancelMsg, feedback>>

(* The message carries the offset that on_feedback's closure adds.         *)
ServerFeedback ==
  /\ goal \in {"executing", "canceling"} /\ Cardinality(feedback) < MaxFeedback
  /\ feedback' = feedback \cup
       {[step |-> step, at |-> [loop |-> request.loop, wp |-> Lesser(progress, Waypoints - 1)]]}
  /\ ServerOnly /\ UNCHANGED <<goal, progress, cancelMsg, visited>>

ServerSucceed ==
  /\ goal \in {"executing", "canceling"} /\ progress = Waypoints
  /\ goal' = "succeeded"
  /\ ServerOnly /\ UNCHANGED <<progress, cancelMsg, feedback, visited>>

(* The goal fails, or ends with missed waypoints.                          *)
ServerAbort ==
  /\ goal \in {"executing", "canceling"}
  /\ goal' = "aborted"
  /\ ServerOnly /\ UNCHANGED <<progress, cancelMsg, feedback, visited>>

ServerTakeCancel ==
  /\ cancelMsg = "sent"
  /\ \/ goal \in {"executing", "canceling"} /\ goal' = "canceling" /\ cancelMsg' = "accepted"
     \/ goal \in Finished /\ cancelMsg' = "refused" /\ UNCHANGED goal
  /\ ServerOnly /\ UNCHANGED <<progress, feedback, visited>>

ServerCancel ==
  /\ goal = "canceling" /\ goal' = "canceled"
  /\ ServerOnly /\ UNCHANGED <<progress, cancelMsg, feedback, visited>>

-----------------------------------------------------------------------------
(* request_pause, request_resume, request_cancel on ROS threads, the gates *)
(* and the event inbox.                                                    *)

EnvOnly == UNCHANGED <<executorVars, cursor, runnerVars, serverVars, released>>

(* The states in which each request is accepted; status.state = fsm.       *)
Accepts(r) == CASE r = "pause"  -> fsm \in {"RUNNING"} \cup Lifecycle!Waiting
                [] r = "resume" -> fsm = "PAUSED"
                [] OTHER        -> TRUE

(* The check of a request, before its flag is set.                         *)
AskCheck(r) ==
  /\ pc # "end" /\ Accepts(r) /\ r \notin asking /\ asked[r] < MaxAsks[r]
  /\ asking' = asking \cup {r} /\ asked' = [asked EXCEPT ![r] = @ + 1]
  /\ EnvOnly /\ UNCHANGED <<signals, gates, inbox>>

(* The flag is set, whatever has become of the mission since the check.    *)
(* request_cancel sets the resume flag after the cancel flag.              *)
AskSet(r) ==
  /\ r \in asking
  /\ \/ r \in {"pause", "resume"} /\ signals' = signals \cup {r} /\ asking' = asking \ {r}
     \/ r = "cancel" /\ signals' = signals \cup {r} /\ asking' = (asking \ {r}) \cup {"release"}
     \/ r = "release" /\ signals' = signals \cup {"resume"} /\ asking' = asking \ {r}
  /\ EnvOnly /\ UNCHANGED <<gates, inbox, asked>>

GatesChange ==
  /\ gates' \in GateSnapshots
  /\ EnvOnly /\ UNCHANGED <<signals, inbox, asking, asked>>

(* EventInbox.push of a matching event, stamped now or earlier.            *)
EventArrives ==
  /\ \E stamp \in 1..step : inbox' = inbox \cup {stamp}
  /\ EnvOnly /\ UNCHANGED <<signals, gates, asking, asked>>

-----------------------------------------------------------------------------
Executor ==
  /\ ~raised
  /\ \/ Start \/ Validate \/ StepHead \/ BetweenSteps \/ PausedBetweenSteps
     \/ Succeed \/ BeginWaypoint \/ BeginWait
     \/ WaitElapsed \/ WaitCanceled \/ EventReceived \/ WaitPaused \/ WaitSleep
     \/ WaitWoken \/ WaitContinued
     \/ ClearPause \/ Held \/ HeldCheck \/ Resume \/ Resuming \/ CancelTerminal
     \/ SpawnChild \/ InterruptChild \/ ChildDone \/ CancelChild \/ CancelAnswered
     \/ JoinChild \/ ChildRaised

Runner == RunStart \/ RunAnswered \/ RunResult

Server == \/ ServerAnswer \/ ServerReach \/ ServerFeedback \/ ServerSucceed
          \/ ServerAbort \/ ServerTakeCancel \/ ServerCancel

Environment == \/ \E r \in Requests : AskCheck(r)
               \/ \E r \in Requests \cup {"release"} : AskSet(r)
               \/ FeedbackArrives \/ GatesChange \/ EventArrives

Next == Executor \/ WriteFails \/ Runner \/ Server \/ Environment

Spec == Init /\ [][Next]_vars

(* The event loop runs both coroutines, a request that passed its check    *)
(* sets its flag, and the server answers, makes way and stops when told to. *)
Fairness ==
  /\ WF_vars(Executor) /\ WF_vars(Runner)
  /\ WF_vars(\E r \in Requests \cup {"release"} : AskSet(r))
  /\ WF_vars(ServerAnswer) /\ WF_vars(ServerReach) /\ WF_vars(ServerSucceed)
  /\ WF_vars(ServerTakeCancel) /\ WF_vars(ServerCancel)

FairSpec == Spec /\ Fairness

-----------------------------------------------------------------------------
(* Properties                                                              *)

Places == {"start", "gates", "head", "between", "pausing", "begin", "wait", "sleep",
           "rewait", "clearPause", "held", "heldCheck", "resume", "resuming",
           "cancelTerminal", "spawn", "poll", "cancelChild", "cancelWait", "join", "end"}
ErrorCodes == {"NONE", "MAP_MISMATCH", "LOCALIZATION_LOST", "READINESS_LOST",
               "CHILD_REJECTED", "CHILD_FAILED", "EVENT_TIMEOUT", "CANCELED", "INTERNAL"}
Request == [loop : 0..(Loops - 1), wp : 0..(Waypoints - 1)]

ExecutorTypeOK ==
  /\ pc \in Places /\ fsm \in Lifecycle!MissionStates /\ raised \in BOOLEAN
  /\ error \in ErrorCodes /\ step \in 1..(Len(Mission) + 1)
  /\ remaining \in 0..Polls /\ notBefore \in 0..(Len(Mission) + 1)
  /\ site \in {"step", "waypoint", "wait"} /\ intent \in {"pause", "cancel"}
  /\ confirmed \in BOOLEAN

RunnerTypeOK ==
  /\ cursor \in Cursor /\ request \in Request /\ handle \in BOOLEAN
  /\ child \in {"none", "start", "sending", "awaiting", "done"}
  /\ result \in {"none", "ok", "canceled", "rejected", "failed", "raised"}

ServerTypeOK ==
  /\ goal \in {"none"} \cup Live \cup Finished /\ progress \in 0..Waypoints
  /\ cancelMsg \in {"none", "sent", "accepted", "refused"}
  /\ feedback \subseteq [step : 1..(Len(Mission) + 1), at : Request]
  /\ visited \subseteq (1..(Len(Mission) + 1)) \X (0..(Loops - 1)) \X (0..(Waypoints - 1))

EnvTypeOK ==
  /\ signals \subseteq Requests /\ asking \subseteq Requests \cup {"release"}
  /\ gates \in GateSnapshots /\ inbox \subseteq 1..(Len(Mission) + 1)
  /\ asked \in [Requests -> Nat] /\ released \in Nat

(* Every variable keeps its type.                                          *)
TypeOK == ExecutorTypeOK /\ RunnerTypeOK /\ ServerTypeOK /\ EnvTypeOK

(* No sequence of requests, child outcomes and gate changes makes the      *)
(* executor ask the machine for a transition that raises MissionError, so  *)
(* no run ends through the node's exception path for that reason.          *)
NeverRaises == ~raised

(* A mission that says it is waiting, paused, resuming or finished has no  *)
(* child goal alive on the server: PAUSED and CANCELED are entered only    *)
(* after the child's own result, and a run that fails for a gate, a child  *)
(* or an event leaves nothing moving.  The one exception is a run that an  *)
(* exception of a checkpoint or of the audit log took down: its child goal *)
(* goes on, and it is reported as FAILED, never as held or canceled.       *)
HeldMeansStopped ==
  goal \in Live => fsm \in Lifecycle!Moving \/ (fsm = "FAILED" /\ error = "INTERNAL")

(* The mission goes past a waypoint step only when every waypoint of every *)
(* loop was reached, whatever pauses interrupted it and however late the   *)
(* feedback that moved the resume cursor.                                  *)
EveryWaypointReached ==
  \A s \in 1..Len(Mission) :
    Mission[s] = "WAYPOINT_TASK" /\ s < step =>
      {s} \X (0..(Loops - 1)) \X (0..(Waypoints - 1)) \subseteq visited

(* Every hold that ended was ended by a resume or cancel request of its    *)
(* own: one accepted request never ends two holds.                         *)
ResumesAreBacked == released <= asked["resume"] + asked["cancel"]

(* The mission reports CANCELED only when somebody asked to cancel it; a   *)
(* pause that cannot be resumed ends as FAILED.                            *)
CanceledOnlyOnRequest == fsm \in {"CANCELING", "CANCELED"} => "cancel" \in signals

(* From outside, the run is a legal lifecycle, which an exception may cut  *)
(* short at any state (see MissionLifecycle).                              *)
LifecycleSpec == Lifecycle!Spec

(* Once the run has started, a cancel request ends it, also while it is    *)
(* held and also when the child must first run to its own end.             *)
CancelEnds == ("cancel" \in signals /\ pc # "start") ~> pc = "end"

(* A run that is not left paused comes to an end.                          *)
EndsOrHeld == [](pc = "start" => <>(pc = "end" \/ fsm = "PAUSED"))

(* A resume flag set during a hold gets the mission out of PAUSED.         *)
ResumeReleases == (fsm = "PAUSED" /\ "resume" \in signals) ~> fsm # "PAUSED"
=============================================================================
