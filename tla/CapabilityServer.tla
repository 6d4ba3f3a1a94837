-------------------------- MODULE CapabilityServer --------------------------
(***************************************************************************)
(* The navigation capability server around its ROUTE backend: _execute_route*)
(* of one ExecuteWaypointTask goal from the choice of the backend to the   *)
(* finally clause, the session it writes, and the cancel callback, the     *)
(* gate callbacks and the watchdog, which find the backend in              *)
(* _route_executor and call into it from other threads.  What the backend  *)
(* does is RouteBackend, step by step.                                     *)
(*                                                                         *)
(* The three gates and the correction generation are one.  A transition of *)
(* the session is one step here; that it is not is WaypointServer's.       *)
(***************************************************************************)
EXTENDS RouteBackend

ASSUME CapabilityAssumption == Callers = {"cancel", "fail"}

VARIABLES
  server,     \* place in _execute, _execute_route
  binding,    \* the route binding and the assets it names, as they are on disk
  session,    \* session.status.state
  told,       \* how the goal ended: goal_handle.succeed, abort or canceled
  remembered, \* what _recent_requests holds for the request
  installed,  \* _route_executor is not None; _active with it
  ready,      \* what the gates were last reported to be
  keeper      \* a gate callback or the watchdog: its place

capabilityVars == <<server, binding, session, told, remembered, installed, ready, keeper>>
serverVars == <<vars, capabilityVars>>

Bindings  == {"missing", "ready", "mismatched", "malformed"}
EndStates == {"REJECTED", "SUCCEEDED", "FAILED", "CANCELED"}
SessionStates == {"IDLE", "VALIDATING", "ACCEPTED", "RUNNING", "CANCELING"} \cup EndStates
Ends == {"map", "over"}

TypeCorrect ==
  /\ TypeOK
  /\ server \in Ends \cup {"select", "claim", "start", "load", "check", "resolve", "accept", "begin",
                           "install", "run", "judge", "confirm", "except", "settle"}
  /\ binding \in Bindings /\ session \in SessionStates
  /\ told \in {"none", "duplicate", "blocked"} \cup EndStates
  /\ remembered \in {"nothing"} \cup EndStates
  /\ installed \in BOOLEAN /\ ready \in BOOLEAN
  /\ keeper \in {"idle", "call"}

ServerInit ==
  /\ Init
  /\ server = "select" /\ binding \in Bindings /\ session = "IDLE" /\ told = "none"
  /\ remembered = "nothing" /\ installed = FALSE /\ ready \in BOOLEAN /\ keeper = "idle"

Aside == UNCHANGED <<binding, ready, keeper>>

-----------------------------------------------------------------------------
(* _execute_route                                                          *)

ServerStep(from, to) ==
  /\ server = from /\ server' = to
  /\ Aside /\ UNCHANGED vars

(* A formal task that is known and has a route binding goes to the ROUTE   *)
(* backend, any other to the waypoint server.                              *)
Select ==
  /\ \/ ServerStep("select", "map")
     \/ binding # "missing" /\ ServerStep("select", "claim")
  /\ UNCHANGED <<session, told, remembered, installed>>

(* The request was handled before, or another task is active.              *)
ClaimRefused ==
  /\ ServerStep("claim", "over")
  /\ told' \in {"duplicate", "blocked"}
  /\ UNCHANGED <<session, remembered, installed>>

ClaimRequest ==
  /\ ServerStep("claim", "start")
  /\ UNCHANGED <<session, told, remembered, installed>>

BeginSession ==
  /\ ServerStep("start", "load") /\ session' = "VALIDATING"
  /\ UNCHANGED <<told, remembered, installed>>

(* _reject_route_goal.                                                     *)
Reject(from) ==
  /\ ServerStep(from, "settle") /\ session' = "REJECTED" /\ told' = "REJECTED"
  /\ UNCHANGED <<remembered, installed>>

(* The task is not there, or not the one expected.                         *)
LoadRefused == Reject("load")

LoadTask ==
  /\ ServerStep("load", "check")
  /\ UNCHANGED <<session, told, remembered, installed>>

(* The map, the task's binding to it, the gates and the correction         *)
(* generation, the vehicle profile.                                        *)
CheckGoal ==
  \/ Reject("check")
  \/ ready /\ ServerStep("check", "resolve") /\ UNCHANGED <<session, told, remembered, installed>>

(* RouteTaskResolver.resolve, of the files as they are now: every mismatch *)
(* of task, map, vehicle or hash is a RouteRuntimeError, but a number that *)
(* is none is whatever int raises.                                         *)
Resolution == [b \in Bindings |-> CASE b = "ready"     -> "accept"
                                    [] b = "malformed" -> "except"
                                    [] OTHER           -> "settle"]

ResolveRoute ==
  \/ Resolution[binding] = "settle" /\ Reject("resolve")
  \/ /\ Resolution[binding] # "settle" /\ ServerStep("resolve", Resolution[binding])
     /\ UNCHANGED <<session, told, remembered, installed>>

(* The session goes to a state, or transition raises.                      *)
Proceed(from, to, state, legal) ==
  /\ \/ session \in legal /\ ServerStep(from, to) /\ session' = state
     \/ session \notin legal /\ ServerStep(from, "except") /\ UNCHANGED session
  /\ UNCHANGED <<told, remembered, installed>>

AcceptRoute == Proceed("accept", "begin", "ACCEPTED", {"VALIDATING"})

BeginRoute == Proceed("begin", "install", "RUNNING", {"ACCEPTED", "RUNNING"})

InstallExecutor ==
  /\ ServerStep("install", "run") /\ installed' = TRUE
  /\ UNCHANGED <<session, told, remembered>>

(* backend.run, awaited.                                                   *)
RunRoute ==
  /\ server = "run" /\ Run
  /\ UNCHANGED capabilityVars

(* Its result is in; if it raised, the slot is cleared at the end only.    *)
RouteReturns ==
  /\ pc = "done"
  /\ \/ verdict = "raised" /\ ServerStep("run", "except") /\ UNCHANGED installed
     \/ verdict # "raised" /\ ServerStep("run", "judge") /\ installed' = FALSE
  /\ UNCHANGED <<session, told, remembered>>

(* First whether it was canceled.                                          *)
JudgeCanceled ==
  /\ verdict = "canceled" \/ canceled
  /\ ServerStep("judge", "confirm")
  /\ session' = IF session = "FAILED" THEN session ELSE "CANCELED"
  /\ UNCHANGED <<told, remembered, installed>>

(* goal_handle.canceled raises unless the action server has marked it.     *)
ConfirmCanceled ==
  /\ \/ canceled /\ ServerStep("confirm", "settle") /\ told' = "CANCELED"
     \/ ~canceled /\ ServerStep("confirm", "except") /\ UNCHANGED told
  /\ UNCHANGED <<session, remembered, installed>>

JudgeFailed ==
  /\ verdict = "failed" /\ ~canceled
  /\ ServerStep("judge", "settle") /\ session' = "FAILED" /\ told' = "FAILED"
  /\ UNCHANGED <<remembered, installed>>

(* Variant: the session is not asked.                                      *)
JudgeSucceededUnasked ==
  /\ verdict = "success" /\ ~canceled
  /\ ServerStep("judge", "settle") /\ told' = "SUCCEEDED"
  /\ session' = IF session = "RUNNING" THEN "SUCCEEDED" ELSE session
  /\ UNCHANGED <<remembered, installed>>

(* A session that was failed or is canceling cannot succeed any more.      *)
JudgeSucceeded ==
  /\ verdict = "success" /\ ~canceled
  /\ \/ /\ session = "RUNNING" /\ ServerStep("judge", "settle")
        /\ session' = "SUCCEEDED" /\ told' = "SUCCEEDED"
     \/ session # "RUNNING" /\ ServerStep("judge", "except") /\ UNCHANGED <<session, told>>
  /\ UNCHANGED <<remembered, installed>>

ExceptRoute ==
  /\ ServerStep("except", "settle") /\ told' = "FAILED"
  /\ session' = CASE session = "VALIDATING" -> "REJECTED"
                  [] session \in {"FAILED", "CANCELED"} -> session
                  [] OTHER -> "FAILED"
  /\ UNCHANGED <<remembered, installed>>

(* _remember_request, and the finally clause.                              *)
LeaveRoute ==
  /\ ServerStep("settle", "over") /\ remembered' = session /\ installed' = FALSE
  /\ UNCHANGED <<session, told>>

ExecuteRoute ==
  \/ Select \/ ClaimRefused \/ ClaimRequest \/ BeginSession \/ LoadRefused \/ LoadTask
  \/ CheckGoal \/ ResolveRoute \/ AcceptRoute \/ BeginRoute \/ InstallExecutor \/ RunRoute \/ RouteReturns
  \/ JudgeCanceled \/ ConfirmCanceled \/ JudgeFailed \/ JudgeSucceeded
  \/ ExceptRoute \/ LeaveRoute

-----------------------------------------------------------------------------
(* The gate callbacks and the watchdog, one at a time                      *)

GateUnchanged == UNCHANGED <<vars, server, binding, told, remembered, installed>>

(* With the backend in its slot, _fail_for_runtime_loss.                   *)
FailForRuntimeLoss ==
  /\ keeper' = "call"
  /\ session' = IF session \in {"ACCEPTED", "RUNNING"} THEN "FAILED" ELSE session

KeeperIdle == keeper = "idle" /\ caller["fail"] = <<"ready", 0>>

(* A report that a gate is lost.                                           *)
GateLost ==
  /\ server \notin Ends /\ ready /\ ready' = FALSE
  /\ \/ installed /\ KeeperIdle /\ FailForRuntimeLoss
     \/ ~(installed /\ KeeperIdle) /\ UNCHANGED <<session, keeper>>
  /\ GateUnchanged

(* Bound: a gate that is lost while the backend runs stays lost.           *)
GateReady ==
  /\ server \in {"select", "claim", "start", "load", "check", "resolve", "accept", "begin",
                "install"}
  /\ ~ready /\ ready' = TRUE
  /\ GateUnchanged /\ UNCHANGED <<session, keeper>>

(* Variant: a session that is failed already is left alone.                *)
WatchdogOnce ==
  /\ ~ready /\ installed /\ KeeperIdle /\ session # "FAILED" /\ FailForRuntimeLoss
  /\ GateUnchanged /\ UNCHANGED ready

(* The watchdog's period, or the next report of the same.                  *)
Watchdog ==
  /\ ~ready /\ installed /\ KeeperIdle /\ FailForRuntimeLoss
  /\ GateUnchanged /\ UNCHANGED ready

(* _cancel_route_backend: the slot is read again.                          *)
FailBackend ==
  /\ keeper = "call" /\ keeper' = "idle"
  /\ \/ installed /\ Call("fail")
     \/ ~installed /\ UNCHANGED vars
  /\ UNCHANGED <<server, binding, session, told, remembered, installed, ready>>

Keep ==
  \/ FailBackend
  \/ (CallStops("fail") \/ CallEnds("fail")) /\ UNCHANGED capabilityVars

-----------------------------------------------------------------------------
(* _cancel_callback, at any time before the goal has ended                 *)

CancelUnchanged == UNCHANGED <<server, binding, told, remembered, installed, ready, keeper>>

(* The session first; the backend read from the slot is canceled then.     *)
CancelSession ==
  /\ caller["cancel"] = <<"ready", 0>>
  /\ server \notin {"map", "select"} /\ told = "none"
  /\ session' = IF session \in {"ACCEPTED", "RUNNING"} THEN "CANCELING" ELSE session
  /\ \/ installed /\ Call("cancel")
     \/ /\ ~installed /\ caller' = [caller EXCEPT !["cancel"] = <<"over", 0>>]
        /\ cause' = TRUE
        /\ OutsideOnly /\ UNCHANGED <<failure, woken, core, stop, goal, canceled>>
  /\ CancelUnchanged

CancelGoesOn ==
  /\ (CallStops("cancel") \/ CallEnds("cancel"))
  /\ UNCHANGED capabilityVars

MarkGoal == told = "none" /\ MarkCanceling /\ UNCHANGED capabilityVars

(* The files of the binding are replaced or removed by their owner.        *)
BindingChanges ==
  /\ server \in {"claim", "start", "load", "check", "resolve"} /\ binding' \in Bindings \ {binding}
  /\ UNCHANGED <<vars, server, session, told, remembered, installed, ready, keeper>>

-----------------------------------------------------------------------------
Backend ==
  /\ \/ \E l \in LoopIds : Dispatcher(l)
     \/ \E l \in LoopIds, s \in Segs :
          \/ Adapter(l, s) \/ FeedbackCallback(l, s)
          \/ Server(l, s) \/ TrackingFault(l, s) \/ FeedbackTaken(l, s)
  /\ UNCHANGED capabilityVars

ServerNext ==
  \/ ExecuteRoute \/ Backend
  \/ GateLost \/ GateReady \/ Watchdog \/ Keep
  \/ CancelSession \/ CancelGoesOn \/ MarkGoal \/ BindingChanges

(* The executor's threads run what is ready and the watchdog fires.  Nav2  *)
(* answers a goal, stops when told to, and arrives while the gates hold;   *)
(* once a gate is lost it may drive on for ever.                           *)
Work ==
  \/ ExecuteRoute
  \/ /\ \/ \E l \in LoopIds : Dispatcher(l)
        \/ \E l \in LoopIds, s \in Segs :
             Adapter(l, s) \/ Track(l, s) \/ (ready /\ Arrive(l, s)) \/ Stopped(l, s)
     /\ UNCHANGED capabilityVars

ServerSpec ==
  /\ ServerInit /\ [][ServerNext]_serverVars
  /\ WF_serverVars(Work) /\ WF_serverVars(Keep \/ Watchdog)

-----------------------------------------------------------------------------
(* Success is told exactly when the session succeeded, and then every      *)
(* segment of every loop was driven: neither a wake-up, nor a gate lost,   *)
(* nor a cancel on the way to the answer is taken for a completed route.   *)
SucceededAsDriven ==
  /\ told = "SUCCEEDED" => session = "SUCCEEDED" /\ \A p \in LoopIds \X Segs : goal[p] = "succeeded"
  /\ server = "over" => (told = "SUCCEEDED" <=> remembered = "SUCCEEDED")

(* Every route ends.  While the gates hold no interleaving of callbacks    *)
(* loses the wake-up of the coroutine; and a gate that is lost ends the    *)
(* route though FollowPath never does, also when it was lost before the    *)
(* backend was in its slot, or the backend was failed between two loops.   *)
RouteEnds == <>(server \in Ends)
=============================================================================
