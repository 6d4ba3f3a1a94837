--------------------------- MODULE WaypointServer ---------------------------
(***************************************************************************)
(* The waypoint task server: _execute of every ExecuteWaypointTask goal,   *)
(* its claim of the client_request_id, the one authoritative session of    *)
(* NavigationSessionManager, and the Nav2 FollowWaypoints child of each    *)
(* loop.  The cancel callback, the gate callbacks and the child's feedback *)
(* run on the other threads of the executor and write the same session.    *)
(*                                                                         *)
(* session.transition reads the session, copies it, and later replaces it: *)
(* the copy a thread has not written yet is its draft.  Goals are formal   *)
(* ones, each with a client_request_id; the three gates are one.           *)
(***************************************************************************)
EXTENDS Naturals

CONSTANTS
  Goals,        \* goals sent to the server
  Requests,     \* client_request_ids
  Asked,        \* [Goals -> Requests]s: which request each goal is for
  MaxCallbacks, \* bound: cancels, gate losses and feedback messages in all
  NoRequest,
  NoGoal,
  LoopCount     \* [Goals -> loop_count]

Callbacks == {"cancel", "gate", "feedback"}

ASSUME ServerAssumption ==
  /\ NoRequest \notin Requests /\ NoGoal \notin Goals
  /\ Asked \subseteq [Goals -> Requests] /\ LoopCount \in [Goals -> Nat \ {0}]
  /\ Goals \cap Callbacks = {} /\ MaxCallbacks \in Nat

VARIABLES
  phase,        \* [Goals -> place in _execute]
  request,      \* [Goals -> client_request_id of the goal]
  loop,         \* [Goals -> loop_index + 1]
  outcome,      \* [Goals -> what the client is told, once "done"]
  active,       \* _active_request_id, NoRequest unless _active
  handle,       \* _child_goal_handle
  session,      \* session.status
  draft,        \* [Threads -> copy of session.status to be written]
  recent,       \* [Requests -> state of _recent_requests, or "UNKNOWN"]
  child,        \* [Children -> the Nav2 goal of the loop]
  gate,         \* what the gates were last reported to be
  keeper,       \* the gate callback: its place, the child it read
  canceler,     \* the cancel callback: its place and goal
  canceled,     \* goals with is_cancel_requested
  happened,     \* how many callbacks there were
  clobbered     \* history: a session was overwritten by another's copy

goalVars == <<phase, request, loop, outcome>>
vars == <<goalVars, active, handle, session, draft, recent, child, gate, keeper, canceler,
          canceled, happened, clobbered>>

Children == UNION {{g} \X (1..LoopCount[g]) : g \in Goals}
NoChild  == <<NoGoal, 0>>
Threads  == Goals \cup Callbacks

Terminal == {"REJECTED", "SUCCEEDED", "FAILED", "CANCELED"}
SessionStates == {"IDLE", "VALIDATING", "ACCEPTED", "RUNNING", "CANCELING"} \cup Terminal
Session == [request : Requests \cup {NoRequest}, state : SessionStates]
IdleSession == [request |-> NoRequest, state |-> "IDLE"]
NoDraft == [request |-> NoRequest, from |-> "IDLE", to |-> "IDLE"]

(* _ALLOWED_TRANSITIONS                                                    *)
Successors ==
  [s \in SessionStates |->
     CASE s = "VALIDATING" -> {"REJECTED", "ACCEPTED", "FAILED"}
       [] s = "ACCEPTED"   -> {"RUNNING", "CANCELING", "FAILED", "CANCELED"}
       [] s = "RUNNING"    -> {"RUNNING", "CANCELING", "SUCCEEDED", "FAILED", "CANCELED"}
       [] s = "CANCELING"  -> {"FAILED", "CANCELED"}
       [] s = "IDLE"       -> {"VALIDATING", "REJECTED"}
       [] OTHER            -> {"VALIDATING"}]

(* Between the claim and the finally clause.                               *)
Owning == {"claimed", "validating", "blocked", "waiting", "head", "sending", "install", "check",
           "stopped", "refused", "result", "judge", "except", "settle", "leaving"}
Unstopped == {"sent", "driving"}
Live      == {"driving", "stopping"}
Over      == {"rejected", "succeeded", "failed"}

TypeOK ==
  /\ phase \in [Goals -> Owning \cup {"none", "accepted", "done"}]
  /\ request \in [Goals -> Requests]
  /\ loop \in [Goals -> Nat] /\ \A g \in Goals : loop[g] \in 1..(LoopCount[g] + 1)
  /\ outcome \in [Goals -> {"none", "blocked", "duplicate"} \cup Terminal]
  /\ active \in Requests \cup {NoRequest} /\ handle \in Children \cup {NoChild}
  /\ session \in Session
  /\ draft \in [Threads -> [request : Requests \cup {NoRequest},
                            from : SessionStates, to : SessionStates]]
  /\ recent \in [Requests -> {"UNKNOWN"} \cup SessionStates]
  /\ child \in [Children -> {"none", "sent"} \cup Live \cup Over] /\ gate \in BOOLEAN
  /\ keeper \in {<<"idle", NoChild>>} \cup ({"fail", "stop"} \X Children)
  /\ canceler \in {<<"idle", NoGoal>>} \cup ({"stop", "mark"} \X Goals)
  /\ canceled \subseteq Goals /\ happened \in Nat /\ clobbered \in BOOLEAN

Init ==
  /\ phase = [g \in Goals |-> "none"] /\ request \in Asked
  /\ loop = [g \in Goals |-> 1]
  /\ outcome = [g \in Goals |-> "none"]
  /\ active = NoRequest /\ handle = NoChild
  /\ session = IdleSession
  /\ draft = [t \in Threads |-> NoDraft] /\ recent = [r \in Requests |-> "UNKNOWN"]
  /\ child = [c \in Children |-> "none"] /\ gate = FALSE
  /\ keeper = <<"idle", NoChild>> /\ canceler = <<"idle", NoGoal>>
  /\ canceled = {} /\ happened = 0 /\ clobbered = FALSE

-----------------------------------------------------------------------------
(* NavigationSessionManager.transition                                     *)

Legal(state) == state \in Successors[session.state]

(* The check and the copy.                                                 *)
Copy(t, state) ==
  draft' = [draft EXCEPT ![t] = [request |-> session.request, from |-> session.state, to |-> state]]

CopyIfLegal(t, state) == IF Legal(state) THEN Copy(t, state) ELSE UNCHANGED draft

(* The copy replaces the session, whatever was written since.              *)
Write(t) ==
  /\ draft[t] # NoDraft
  /\ session' = [request |-> draft[t].request, state |-> draft[t].to]
  /\ draft' = [draft EXCEPT ![t] = NoDraft]
  /\ clobbered' = (clobbered \/ session # [request |-> draft[t].request, state |-> draft[t].from])
  /\ UNCHANGED <<goalVars, active, handle, recent, child, gate, keeper, canceler, canceled,
                 happened>>

Stop(c) == child' = IF c \in Children /\ child[c] = "driving"
                      THEN [child EXCEPT ![c] = "stopping"] ELSE child

-----------------------------------------------------------------------------
(* _execute                                                                *)

(* Goal g goes on from one place to another, its session written.          *)
Move(g, from, to) ==
  /\ phase[g] = from /\ draft[g] = NoDraft
  /\ phase' = [phase EXCEPT ![g] = to]

OutsideUnchanged == UNCHANGED <<request, gate, keeper, canceler, canceled, happened>>
ServerUnchanged  == UNCHANGED <<active, handle, recent>>
(* The child of the goal's loop.                                           *)
ChildOf(g) == <<g, loop[g]>>

Quiet == OutsideUnchanged /\ ServerUnchanged /\ UNCHANGED <<session, clobbered>>

(* The task is about to end in a session state: the transition, or the     *)
(* ValueError that the exception clause catches.                           *)
EndAs(g, from, state) ==
  \/ Legal(state) /\ Move(g, from, "settle") /\ Copy(g, state)
     /\ outcome' = [outcome EXCEPT ![g] = state]
  \/ ~Legal(state) /\ Move(g, from, "except") /\ UNCHANGED <<draft, outcome>>

(* _goal_callback accepts every goal of the right shape.                   *)
GoalCallback(g) ==
  /\ Move(g, "none", "accepted")
  /\ Quiet /\ UNCHANGED <<loop, outcome, draft, child>>

Known(r) == recent[r] # "UNKNOWN" \/ session.request = r \/ active = r

(* _claim_request finds a request it knows: the session published is the   *)
(* remembered one.                                                         *)
ClaimDuplicate(g) ==
  LET r == request[g] IN
  /\ Move(g, "accepted", "done") /\ Known(r)
  /\ outcome' = [outcome EXCEPT ![g] = "duplicate"]
  /\ session' = IF recent[r] # "UNKNOWN" THEN [request |-> r, state |-> recent[r]] ELSE session
  /\ clobbered' = (clobbered \/ (active # NoRequest /\ session' # session))
  /\ OutsideUnchanged /\ ServerUnchanged /\ UNCHANGED <<loop, draft, child>>

ClaimBlocked(g) ==
  /\ Move(g, "accepted", "done") /\ ~Known(request[g]) /\ active # NoRequest
  /\ outcome' = [outcome EXCEPT ![g] = "blocked"]
  /\ Quiet /\ UNCHANGED <<loop, draft, child>>

(* Variant: the active task is not looked at.                              *)
ClaimUnguarded(g) ==
  /\ Move(g, "accepted", "claimed") /\ ~Known(request[g])
  /\ active' = request[g]
  /\ OutsideUnchanged
  /\ UNCHANGED <<handle, recent, session, clobbered, loop, outcome, draft, child>>

Claim(g) ==
  /\ Move(g, "accepted", "claimed") /\ ~Known(request[g]) /\ active = NoRequest
  /\ active' = request[g]
  /\ OutsideUnchanged
  /\ UNCHANGED <<handle, recent, session, clobbered, loop, outcome, draft, child>>

(* _start_session: a new session object.                                   *)
StartSession(g) ==
  /\ Move(g, "claimed", "validating")
  /\ session' = [request |-> request[g], state |-> "VALIDATING"]
  /\ OutsideUnchanged /\ ServerUnchanged /\ UNCHANGED <<clobbered, loop, outcome, draft, child>>

(* The task does not load: a session that is no longer this goal's starts   *)
(* again, to be rejected.                                                  *)
LoadBlocked(g) ==
  /\ Move(g, "validating", "blocked")
  /\ session' = IF session.request = request[g] THEN session
                ELSE [request |-> request[g], state |-> "VALIDATING"]
  /\ OutsideUnchanged /\ ServerUnchanged /\ UNCHANGED <<clobbered, loop, outcome, draft, child>>

Blocked(g) ==
  /\ EndAs(g, "blocked", "REJECTED")
  /\ Quiet /\ UNCHANGED <<loop, child>>

(* The map, its binding and the gates are valid, or one of them not.       *)
Validate(g) ==
  /\ \/ gate /\ Move(g, "validating", "waiting") /\ UNCHANGED <<outcome, draft>>
     \/ EndAs(g, "validating", "REJECTED")
  /\ Quiet /\ UNCHANGED <<loop, child>>

(* wait_for_server; the Nav2 server may not be there.                      *)
Accept(g) ==
  /\ \/ Legal("ACCEPTED") /\ Move(g, "waiting", "head") /\ Copy(g, "ACCEPTED") /\ UNCHANGED outcome
     \/ ~Legal("ACCEPTED") /\ Move(g, "waiting", "except") /\ UNCHANGED <<outcome, draft>>
     \/ EndAs(g, "waiting", "FAILED")
  /\ Quiet /\ UNCHANGED <<loop, child>>

LoopCanceled(g) ==
  /\ loop[g] <= LoopCount[g] /\ g \in canceled /\ EndAs(g, "head", "CANCELED")
  /\ Quiet /\ UNCHANGED <<loop, child>>

SendChild(g) ==
  /\ loop[g] <= LoopCount[g] /\ g \notin canceled /\ Move(g, "head", "sending")
  /\ child' = [child EXCEPT ![ChildOf(g)] = "sent"]
  /\ Quiet /\ UNCHANGED <<loop, outcome, draft>>

Succeed(g) ==
  /\ loop[g] > LoopCount[g] /\ EndAs(g, "head", "SUCCEEDED")
  /\ Quiet /\ UNCHANGED <<loop, child>>

ChildRejected(g) ==
  /\ loop[g] <= LoopCount[g] /\ child[ChildOf(g)] = "rejected" /\ EndAs(g, "sending", "FAILED")
  /\ Quiet /\ UNCHANGED <<loop, child>>

ChildAccepted(g) ==
  /\ loop[g] <= LoopCount[g] /\ child[ChildOf(g)] \notin {"sent", "rejected"}
  /\ Move(g, "sending", "install") /\ CopyIfLegal(g, "RUNNING")
  /\ Quiet /\ UNCHANGED <<loop, outcome, child>>

Install(g) ==
  /\ Move(g, "install", "check") /\ handle' = ChildOf(g)
  /\ OutsideUnchanged
  /\ UNCHANGED <<active, recent, session, clobbered, loop, outcome, draft, child>>

(* Variant: the task ends as canceled, the child is not told.              *)
CheckCancelOnly(g) ==
  /\ loop[g] <= LoopCount[g]
  /\ Move(g, "check", IF g \in canceled THEN "stopped" ELSE "result")
  /\ Quiet /\ UNCHANGED <<loop, outcome, draft, child>>

(* A cancel that came while there was no child is made up for here; Nav2   *)
(* refuses it for a child that is over, and may for one that is stopping.  *)
CheckCancel(g) ==
  /\ loop[g] <= LoopCount[g]
  /\ \/ g \notin canceled /\ Move(g, "check", "result") /\ UNCHANGED child
     \/ /\ g \in canceled /\ child[ChildOf(g)] \in Live
        /\ Move(g, "check", "stopped") /\ Stop(ChildOf(g))
     \/ /\ g \in canceled /\ child[ChildOf(g)] # "driving"
        /\ Move(g, "check", "refused") /\ UNCHANGED child
  /\ Quiet /\ UNCHANGED <<loop, outcome, draft>>

(* The child's result is not awaited.                                      *)
EndCanceled(g) ==
  /\ EndAs(g, "stopped", "CANCELED") \/ EndAs(g, "refused", "FAILED")
  /\ Quiet /\ UNCHANGED <<loop, child>>

Result(g) ==
  /\ loop[g] <= LoopCount[g] /\ child[ChildOf(g)] \in Over
  /\ Move(g, "result", "judge") /\ handle' = NoChild
  /\ OutsideUnchanged
  /\ UNCHANGED <<active, recent, session, clobbered, loop, outcome, draft, child>>

(* After the result: cancel, gates, the child's result, in this order.     *)
JudgeCanceled(g) ==
  /\ g \in canceled /\ EndAs(g, "judge", "CANCELED")
  /\ Quiet /\ UNCHANGED <<loop, child>>

JudgeGate(g) ==
  /\ g \notin canceled /\ ~gate
  /\ \/ /\ session.state \in {"FAILED", "CANCELED"} /\ Move(g, "judge", "settle")
        /\ outcome' = [outcome EXCEPT ![g] = "FAILED"] /\ UNCHANGED draft
     \/ session.state \notin {"FAILED", "CANCELED"} /\ EndAs(g, "judge", "FAILED")
  /\ Quiet /\ UNCHANGED <<loop, child>>

(* Variant: missed waypoints and failures are not looked at.               *)
JudgeUnread(g) ==
  /\ g \notin canceled /\ gate /\ loop[g] <= LoopCount[g] /\ Move(g, "judge", "head")
  /\ loop' = [loop EXCEPT ![g] = @ + 1]
  /\ Quiet /\ UNCHANGED <<outcome, draft, child>>

JudgeResult(g) ==
  /\ g \notin canceled /\ gate /\ loop[g] <= LoopCount[g]
  /\ \/ child[ChildOf(g)] = "failed" /\ EndAs(g, "judge", "FAILED") /\ UNCHANGED loop
     \/ /\ child[ChildOf(g)] = "succeeded" /\ Move(g, "judge", "head")
        /\ loop' = [loop EXCEPT ![g] = @ + 1] /\ UNCHANGED <<outcome, draft>>
  /\ Quiet /\ UNCHANGED child

(* except Exception: the goal is aborted, the session ended if it can be.  *)
Except(g) ==
  /\ Move(g, "except", "settle") /\ outcome' = [outcome EXCEPT ![g] = "FAILED"]
  /\ IF session.state = "VALIDATING" THEN Copy(g, "REJECTED") ELSE CopyIfLegal(g, "FAILED")
  /\ Quiet /\ UNCHANGED <<loop, child>>

(* Variant: only a success is remembered.                                  *)
SettleSuccess(g) ==
  /\ Move(g, "settle", "leaving")
  /\ recent' = IF session.state # "SUCCEEDED" THEN recent
               ELSE [recent EXCEPT ![session.request] = session.state]
  /\ OutsideUnchanged
  /\ UNCHANGED <<active, handle, session, clobbered, loop, outcome, draft, child>>

(* The goal is ended, and the session remembered under the id it has now.  *)
Settle(g) ==
  /\ Move(g, "settle", "leaving")
  /\ recent' = IF session.request = NoRequest THEN recent
               ELSE [recent EXCEPT ![session.request] = session.state]
  /\ OutsideUnchanged
  /\ UNCHANGED <<active, handle, session, clobbered, loop, outcome, draft, child>>

(* finally, for a goal that claimed its request.                           *)
Leave(g) ==
  /\ Move(g, "leaving", "done") /\ handle' = NoChild /\ active' = NoRequest
  /\ OutsideUnchanged /\ UNCHANGED <<recent, session, clobbered, loop, outcome, draft, child>>

-----------------------------------------------------------------------------
(* Callbacks on other threads, one of each kind at a time                  *)

CallbackOnly == UNCHANGED <<goalVars, active, handle, session, recent, clobbered>>
CallbackHappens == happened < MaxCallbacks /\ happened' = happened + 1

(* A gate is reported not ready, or found stale by the watchdog: the child *)
(* of this moment is read under the lock.  A report that changes nothing   *)
(* is a stutter.                                                           *)
GateLost ==
  /\ gate' = FALSE /\ IF gate THEN CallbackHappens ELSE UNCHANGED happened
  /\ \/ keeper[1] = "idle" /\ active # NoRequest /\ handle # NoChild /\ keeper' = <<"fail", handle>>
     \/ gate /\ (active = NoRequest \/ handle = NoChild) /\ UNCHANGED keeper
  /\ CallbackOnly /\ UNCHANGED <<draft, child, canceler, canceled>>

GateReady ==
  /\ ~gate /\ gate' = TRUE
  /\ CallbackOnly /\ UNCHANGED <<draft, child, keeper, canceler, canceled, happened>>

(* Variant: a session that cannot be failed keeps its child.               *)
GateFailsOnly ==
  /\ keeper[1] = "fail"
  /\ \/ /\ session.state \in {"ACCEPTED", "RUNNING"} /\ Copy("gate", "FAILED")
        /\ keeper' = <<"stop", keeper[2]>>
     \/ /\ session.state \notin {"ACCEPTED", "RUNNING"} /\ UNCHANGED draft
        /\ keeper' = <<"idle", NoChild>>
  /\ CallbackOnly /\ UNCHANGED <<child, gate, canceler, canceled, happened>>

(* _fail_for_runtime_loss, for whatever session there is by now.           *)
GateFails ==
  /\ keeper[1] = "fail" /\ keeper' = <<"stop", keeper[2]>>
  /\ IF session.state \in {"ACCEPTED", "RUNNING"} THEN Copy("gate", "FAILED") ELSE UNCHANGED draft
  /\ CallbackOnly /\ UNCHANGED <<child, gate, canceler, canceled, happened>>

GateStops ==
  /\ keeper[1] = "stop" /\ draft["gate"] = NoDraft /\ keeper' = <<"idle", NoChild>>
  /\ Stop(keeper[2])
  /\ CallbackOnly /\ UNCHANGED <<draft, gate, canceler, canceled, happened>>

(* _cancel_callback: the session there is, whoever's goal is canceled.     *)
CancelCallback(g) ==
  /\ CallbackHappens
  /\ canceler[1] = "idle" /\ canceler' = <<"stop", g>>
  /\ phase[g] \in ({"accepted"} \cup Owning) \ {"leaving"} /\ g \notin canceled
  /\ CopyIfLegal("cancel", "CANCELING")
  /\ CallbackOnly /\ UNCHANGED <<child, gate, keeper, canceled>>

CancelStops ==
  /\ canceler[1] = "stop" /\ draft["cancel"] = NoDraft /\ canceler' = <<"mark", canceler[2]>>
  /\ Stop(handle)
  /\ CallbackOnly /\ UNCHANGED <<draft, gate, keeper, canceled, happened>>

(* The action server marks the goal after the callback, if it has not      *)
(* ended.                                                                  *)
CancelMarks ==
  /\ canceler[1] = "mark" /\ canceler' = <<"idle", NoGoal>>
  /\ canceled' = IF phase[canceler[2]] \in {"leaving", "done"} THEN canceled
                 ELSE canceled \cup {canceler[2]}
  /\ CallbackOnly /\ UNCHANGED <<draft, child, gate, keeper, happened>>

(* feedback_callback, of any child that was ever driven.                   *)
Feedback ==
  /\ CallbackHappens /\ draft["feedback"] = NoDraft
  /\ \E c \in Children : child[c] \in Live \cup {"succeeded", "failed"}
  /\ Legal("RUNNING") /\ Copy("feedback", "RUNNING")
  /\ CallbackOnly /\ UNCHANGED <<child, gate, keeper, canceler, canceled>>

-----------------------------------------------------------------------------
(* The Nav2 FollowWaypoints server, as this server uses it                 *)

Nav2Only == UNCHANGED <<goalVars, active, handle, session, draft, recent, gate, keeper, canceler,
                        canceled, happened, clobbered>>

Answer(c) ==
  /\ child[c] = "sent"
  /\ \E answer \in {"driving", "rejected"} : child' = [child EXCEPT ![c] = answer]
  /\ Nav2Only

(* The child ends by itself, with or without missed waypoints.             *)
Arrive(c) ==
  /\ child[c] \in Live
  /\ \E end \in {"succeeded", "failed"} : child' = [child EXCEPT ![c] = end]
  /\ Nav2Only

Stopped(c) ==
  /\ child[c] = "stopping" /\ child' = [child EXCEPT ![c] = "failed"]
  /\ Nav2Only

-----------------------------------------------------------------------------
(* A goal's thread goes on once its session is written.                    *)
Execute(g) ==
  /\ phase[g] \notin {"none", "done"} /\ draft[g] = NoDraft
  /\ \/ ClaimDuplicate(g) \/ ClaimBlocked(g) \/ Claim(g) \/ StartSession(g)
     \/ LoadBlocked(g) \/ Blocked(g) \/ Validate(g) \/ Accept(g) \/ LoopCanceled(g)
     \/ SendChild(g) \/ Succeed(g)
     \/ ChildRejected(g) \/ ChildAccepted(g) \/ Install(g) \/ CheckCancel(g) \/ EndCanceled(g)
     \/ Result(g) \/ JudgeCanceled(g) \/ JudgeGate(g) \/ JudgeResult(g)
     \/ Except(g) \/ Settle(g) \/ Leave(g)

Callback == GateFails \/ GateStops \/ CancelStops \/ CancelMarks

Next ==
  \/ \E g \in Goals : GoalCallback(g) \/ Execute(g) \/ CancelCallback(g)
  \/ \E t \in Threads : Write(t)
  \/ \E c \in Children : Answer(c) \/ Arrive(c) \/ Stopped(c)
  \/ GateLost \/ GateReady \/ Callback \/ Feedback

Spec == Init /\ [][Next]_vars

(* The goals' threads do what there is to do, and Nav2 answers and stops   *)
(* when told to; it need not ever arrive.  The callbacks go on, and the    *)
(* statuses of a lost gate keep coming or the watchdog fires.              *)
Work == \/ \E g \in Goals : Execute(g)
        \/ \E t \in Threads : Write(t)
        \/ \E c \in Children : Answer(c) \/ Stopped(c)

Fairness == WF_vars(Work) /\ WF_vars(Callback) /\ WF_vars(~gate /\ GateLost)

FairSpec == Spec /\ Fairness

-----------------------------------------------------------------------------
(* Of the children on the road at most one was not told to stop.  Another  *)
(* may still be slowing down beside it, but only one whose goal was        *)
(* canceled and has ended: EndCanceled does not await the child's result.  *)
OneTaskDrives ==
  \A c, d \in Children :
    c # d /\ child[c] \in Unstopped /\ child[d] \in Unstopped \cup Live =>
      child[d] = "stopping" /\ d[1] \in canceled /\ phase[d[1]] = "done"

(* A child nobody told to stop has its own goal waiting for it: no way out *)
(* of _execute leaves the robot driving.                                   *)
DrivenIsAwaited ==
  \A c \in Children : child[c] \in Unstopped =>
    phase[c[1]] \in {"sending", "install", "check", "result"} /\ loop[c[1]] = c[2]

(* A task is reported SUCCEEDED only when the child of every loop was,     *)
(* whatever other threads made of the session.                             *)
SuccessMeansEveryLoop ==
  \A g \in Goals : outcome[g] = "SUCCEEDED" => \A l \in 1..LoopCount[g] : child[<<g, l>>] = "succeeded"

(* Unless another's copy overwrote the session, a task that ended is       *)
(* remembered under its own id with the state its client was told, so      *)
(* that the request is not executed again.                                 *)
RememberedAsTold ==
  ~clobbered => \A g \in Goals :
    phase[g] = "done" /\ outcome[g] \in Terminal => recent[request[g]] = outcome[g]

(* A gate that stays lost ends every task, also when it was lost while no  *)
(* child was installed and whoever wrote the session meanwhile.            *)
GateLossEndsTasks ==
  <>[]~gate => <>[](\A g \in Goals : phase[g] \in {"none", "done"})

(* What the operator is told of a repeated request: no second task starts. *)
RequestRunsOnce ==
  \A g, h \in Goals : g # h /\ request[g] = request[h] =>
    ~(outcome[g] \in Terminal /\ phase[h] \in Owning)
=============================================================================
