---------------------------- MODULE RouteBackend ----------------------------
(***************************************************************************)
(* The ROUTE backend of the navigation server: RouteBackendExecutor.run,   *)
(* for each loop a RouteNavigationCore and a Nav2FollowPathTrackerAdapter, *)
(* and the FollowPath goals of the segments.  run, the FollowPath          *)
(* callbacks, and the cancel and gate callbacks of the server are tasks of *)
(* one multi-threaded executor; only self._lock and the emit queue order   *)
(* them.  The objects of a loop live on while callbacks still hold them,   *)
(* so all of them are kept, indexed by the loop.                           *)
(***************************************************************************)
EXTENDS Naturals, Sequences

CONSTANTS
  Segments,     \* segments of the route asset
  Loops,        \* loop_count
  Callers,      \* subset of {"cancel", "fail"}: who calls in from outside
  Faults,       \* subset of {"tracking", "snapshot"}: what may go wrong on the way
  Chatty        \* bound: FollowPath goals <<loop, segment>> that send a feedback message

ASSUME RouteAssumption ==
  /\ Segments \in Nat \ {0} /\ Loops \in Nat \ {0}
  /\ Chatty \subseteq (1..Loops) \X (1..Segments)
  /\ Callers \subseteq {"cancel", "fail"} /\ Faults \subseteq {"tracking", "snapshot"}

VARIABLES
  \* run: its place, loop and result; _core and _completion_future by loop
  pc, loop, verdict, current, future, woken, failure,
  \* RouteNavigationCore of each loop: state, _active_index + 1, the dispatcher
  core, index, sink,
  \* tracker of each loop: _segment_id, _goal_handle, _cancel_requested, _emit_queue
  segment, handle, stop, queue,
  \* FollowPath goals of each loop, what the adapter heard, feedback callbacks
  goal, heard, late, taken,
  \* outside callers: the core each of them read; is_cancel_requested
  caller, canceled,
  \* history: completions in order, whether anything went wrong
  completed, cause

runVars  == <<pc, loop, verdict, current, future, failure>>
coreVars == <<core, index, sink>>
trackerVars == <<segment, handle, stop>>
goalVars == <<goal, heard, late, taken>>
outsideVars == <<caller, canceled>>
vars == <<runVars, woken, coreVars, trackerVars, queue, goalVars, outsideVars, completed, cause>>

LoopIds == 1..Loops
Segs    == 1..Segments
Terminal == {"COMPLETED", "FAILED", "CANCELED"}
Driven   == {"sent", "tracking"}           \* a goal nobody asked to stop
Over     == {"rejected", "succeeded", "failed"}
GoalStates == {"none", "stopping"} \cup Driven \cup Over
Event == [status : {"RUNNING", "SUCCEEDED", "FAILED"}, segment : 0..Segments]

TypeOK ==
  /\ pc \in {"head", "install", "start", "startTracker", "await", "done"}
  /\ loop \in LoopIds /\ verdict \in {"none", "success", "canceled", "failed", "raised"}
  /\ current \in 0..Loops /\ future \in 0..Loops /\ woken \in BOOLEAN /\ failure \in BOOLEAN
  /\ core \in [LoopIds -> {"IDLE", "RUNNING"} \cup Terminal] /\ index \in [LoopIds -> 0..Segments]
  /\ sink \in [LoopIds -> {"free", "starting"}]
  /\ segment \in [LoopIds -> 0..Segments] /\ handle \in [LoopIds -> 0..Segments]
  /\ stop \in [LoopIds -> BOOLEAN]
  /\ queue \in [LoopIds -> Seq(Event)]
  /\ goal \in [LoopIds \X Segs -> GoalStates]
  /\ heard \in [LoopIds \X Segs -> {"nothing", "response", "cleared", "result"}]
  /\ late \subseteq LoopIds \X Segs /\ taken \subseteq Chatty
  /\ caller \in [Callers -> {"ready", "called", "stopped", "over"} \X (0..Loops)] /\ canceled \in BOOLEAN
  /\ completed \in Seq(LoopIds \X Segs) /\ cause \in BOOLEAN

(* A tracker adapter without a goal.                                       *)
TrackerInit ==
  /\ sink = [l \in LoopIds |-> "free"]
  /\ segment = [l \in LoopIds |-> 0] /\ handle = [l \in LoopIds |-> 0]
  /\ stop = [l \in LoopIds |-> FALSE] /\ queue = [l \in LoopIds |-> <<>>]

Init ==
  /\ TrackerInit
  /\ pc = "head" /\ loop = 1 /\ verdict = "none" /\ current = 0 /\ future = 0
  /\ woken = FALSE /\ failure = FALSE
  /\ core = [l \in LoopIds |-> "IDLE"] /\ index = [l \in LoopIds |-> 0]
  /\ goal = [p \in LoopIds \X Segs |-> "none"] /\ heard = [p \in LoopIds \X Segs |-> "nothing"]
  /\ late = {} /\ taken = {}
  /\ caller = [c \in Callers |-> <<"ready", 0>>] /\ canceled = FALSE
  /\ completed = <<>> /\ cause = FALSE

-----------------------------------------------------------------------------
(* _signal_completion: the future installed now, whoever signals.          *)
Signal == woken' = (woken \/ future # 0)

(* Nav2FollowPathTrackerAdapter.cancel; the request reaches the server.    *)
StopTracker(l) ==
  IF segment[l] = 0 THEN UNCHANGED <<stop, goal>>
  ELSE /\ stop' = [stop EXCEPT ![l] = TRUE]
       /\ goal' = IF handle[l] # 0 /\ goal[<<l, handle[l]>>] = "tracking"
                    THEN [goal EXCEPT ![<<l, handle[l]>>] = "stopping"] ELSE goal

(* RouteNavigationCore.fail.                                               *)
FailCore(l) ==
  IF core[l] \in Terminal THEN UNCHANGED <<core, stop, goal>>
  ELSE StopTracker(l) /\ core' = [core EXCEPT ![l] = "FAILED"]

(* Nav2FollowPathTrackerAdapter.start for segment s.                       *)
StartTracker(l, s) ==
  /\ segment' = [segment EXCEPT ![l] = s]
  /\ stop' = [stop EXCEPT ![l] = FALSE]
  /\ goal' = [goal EXCEPT ![<<l, s>>] = "sent"]

(* _emit: queued, and handed on by whoever dispatches: the empty check and *)
(* the release of the dispatcher are one, so which thread it is is no      *)
(* matter.                                                                 *)
Emit(l, status, s) ==
  queue' = [queue EXCEPT ![l] = Append(@, [status |-> status, segment |-> s])]

(* The snapshot provider has no map to odom transform, or no accepted      *)
(* correction generation, and raises.                                      *)
NoSnapshot == "snapshot" \in Faults

-----------------------------------------------------------------------------
(* run                                                                     *)

RunOnly == UNCHANGED <<queue, sink, handle, heard, late, taken, outsideVars, completed>>

Return(result) == pc' = "done" /\ verdict' = result

LoopHead ==
  /\ pc = "head"
  /\ \/ canceled /\ Return("canceled")
     \/ ~canceled /\ failure /\ Return("failed")
     \/ ~canceled /\ ~failure /\ pc' = "install" /\ UNCHANGED verdict
  /\ RunOnly
  /\ UNCHANGED <<loop, current, future, woken, failure, core, index, segment, stop, goal, cause>>

(* Variant: one future for all loops.                                      *)
InstallReused ==
  /\ pc = "install" /\ pc' = "start"
  /\ current' = loop /\ future' = loop
  /\ RunOnly
  /\ UNCHANGED <<loop, verdict, woken, failure, core, index, segment, stop, goal, cause>>

(* Core and future are installed before the tracker starts.                *)
Install ==
  /\ pc = "install" /\ pc' = "start"
  /\ current' = loop /\ future' = loop /\ woken' = FALSE
  /\ RunOnly
  /\ UNCHANGED <<loop, verdict, failure, core, index, segment, stop, goal, cause>>

(* core.start raises out of run when the core was ended before it began,   *)
(* and so does the snapshot it is called with when there is none.          *)
Start ==
  /\ pc = "start"
  /\ \/ /\ core[loop] = "IDLE"
        /\ core' = [core EXCEPT ![loop] = "RUNNING"] /\ index' = [index EXCEPT ![loop] = 1]
        /\ pc' = "startTracker" /\ UNCHANGED <<verdict, current, future>>
        /\ UNCHANGED cause
     \/ /\ core[loop] # "IDLE" \/ NoSnapshot
        /\ Return("raised") /\ current' = 0 /\ future' = 0 /\ UNCHANGED <<core, index>>
        /\ cause' = (cause \/ core[loop] = "IDLE")
  /\ RunOnly
  /\ UNCHANGED <<loop, woken, failure, segment, stop, goal>>

(* The rest of core.start, whatever has become of the core; it raises when *)
(* the FollowPath server is not there.                                     *)
StartFirst ==
  /\ pc = "startTracker"
  /\ \/ /\ StartTracker(loop, 1)
        /\ pc' = "await" /\ UNCHANGED <<verdict, current, future, cause>>
     \/ /\ "tracking" \in Faults /\ cause' = TRUE
        /\ Return("raised") /\ current' = 0 /\ future' = 0 /\ UNCHANGED <<segment, stop, goal>>
  /\ RunOnly
  /\ UNCHANGED <<loop, woken, failure, core, index>>

(* Variant: whoever woke the coroutine, the loop is taken for completed.   *)
WokenUnread ==
  /\ pc = "await" /\ woken
  /\ current' = 0 /\ future' = 0
  /\ \/ canceled /\ Return("canceled") /\ UNCHANGED loop
     \/ ~canceled /\ loop < Loops /\ loop' = loop + 1 /\ pc' = "head" /\ UNCHANGED verdict
     \/ ~canceled /\ loop = Loops /\ Return("success") /\ UNCHANGED loop
  /\ RunOnly
  /\ UNCHANGED <<woken, failure, core, index, segment, stop, goal, cause>>

(* The future resolved, whoever resolved it: what the core says counts.    *)
Woken ==
  /\ pc = "await" /\ woken
  /\ current' = 0 /\ future' = 0
  /\ LET ended == core[loop] IN
     \/ (canceled \/ ended = "CANCELED") /\ Return("canceled") /\ UNCHANGED loop
     \/ /\ ~canceled /\ ended \notin {"CANCELED", "COMPLETED"}
        /\ Return("failed") /\ UNCHANGED loop
     \/ /\ ~canceled /\ ended = "COMPLETED"
        /\ \/ loop < Loops /\ loop' = loop + 1 /\ pc' = "head" /\ UNCHANGED verdict
           \/ loop = Loops /\ Return("success") /\ UNCHANGED loop
  /\ RunOnly
  /\ UNCHANGED <<woken, failure, core, index, segment, stop, goal, cause>>

-----------------------------------------------------------------------------
(* The dispatcher of a tracker's events and the sink it calls              *)

SinkOnly == UNCHANGED <<runVars, handle, heard, late, taken, outsideVars>>

(* The next event is taken off the queue and handed to the sink.           *)
Take(l, status) ==
  /\ sink[l] = "free" /\ queue[l] # <<>>
  /\ status = Head(queue[l]).status
  /\ queue' = [queue EXCEPT ![l] = Tail(@)]

Expected(l) == core[l] = "RUNNING" /\ Head(queue[l]).segment = index[l]

(* The sink's exception clause.                                            *)
SinkRaises(l) == FailCore(l) /\ Signal /\ UNCHANGED <<index, segment, completed>>

(* Anything for a core that is not running, or for another segment.        *)
DispatchUnexpected(l) ==
  /\ \E status \in {"RUNNING", "SUCCEEDED", "FAILED"} : Take(l, status)
  /\ ~Expected(l) /\ SinkRaises(l)
  /\ SinkOnly /\ UNCHANGED <<sink, cause>>

DispatchRunning(l) ==
  /\ Take(l, "RUNNING") /\ Expected(l)
  /\ SinkOnly /\ UNCHANGED <<core, index, sink, trackerVars, goal, woken, completed, cause>>

DispatchFailed(l) ==
  /\ Take(l, "FAILED") /\ Expected(l)
  /\ core' = [core EXCEPT ![l] = "FAILED"] /\ Signal
  /\ SinkOnly /\ UNCHANGED <<index, sink, trackerVars, goal, completed, cause>>

(* The segment is done: the route is complete, or the next segment is to   *)
(* be projected with a snapshot taken now, which may not be available.     *)
DispatchSucceeded(l) ==
  /\ Take(l, "SUCCEEDED") /\ Expected(l)
  /\ \/ /\ index[l] = Segments
        /\ core' = [core EXCEPT ![l] = "COMPLETED"] /\ Signal
        /\ completed' = Append(completed, <<l, index[l]>>)
        /\ UNCHANGED <<index, sink, segment, stop, goal, cause>>
     \/ /\ index[l] < Segments
        /\ index' = [index EXCEPT ![l] = @ + 1] /\ sink' = [sink EXCEPT ![l] = "starting"]
        /\ UNCHANGED <<core, segment, stop, goal, woken, completed, cause>>
     \/ /\ index[l] < Segments /\ NoSnapshot
        /\ SinkRaises(l) /\ cause' = TRUE /\ UNCHANGED sink
  /\ SinkOnly

(* The rest of handle_tracker_feedback: the tracker is started, whatever   *)
(* has become of the core since its state was read.                        *)
StartNext(l) ==
  /\ sink[l] = "starting" /\ sink' = [sink EXCEPT ![l] = "free"]
  /\ \/ /\ StartTracker(l, index[l])
        /\ completed' = Append(completed, <<l, index[l] - 1>>)
        /\ IF core[l] \in Terminal THEN Signal ELSE UNCHANGED woken
        /\ UNCHANGED <<core, index, cause>>
     \/ /\ "tracking" \in Faults /\ cause' = TRUE
        /\ SinkRaises(l)
  /\ SinkOnly /\ UNCHANGED queue

-----------------------------------------------------------------------------
(* FollowPath callbacks of the adapter                                     *)

AdapterOnly == UNCHANGED <<runVars, woken, coreVars, outsideVars, completed, cause>>

ClearActive(l) ==
  /\ segment' = [segment EXCEPT ![l] = 0] /\ handle' = [handle EXCEPT ![l] = 0]
  /\ stop' = [stop EXCEPT ![l] = FALSE]

(* _goal_response_done: only now can the goal be canceled, and a cancel    *)
(* that came before is sent.                                               *)
GoalResponse(l, s) ==
  /\ heard[<<l, s>>] = "nothing" /\ goal[<<l, s>>] \notin {"none", "sent"}
  /\ \/ goal[<<l, s>>] = "rejected" /\ ClearActive(l) /\ heard' = [heard EXCEPT ![<<l, s>>] = "cleared"]
        /\ UNCHANGED goal
     \/ /\ goal[<<l, s>>] # "rejected"
        /\ handle' = [handle EXCEPT ![l] = s] /\ heard' = [heard EXCEPT ![<<l, s>>] = "response"]
        /\ goal' = IF stop[l] /\ goal[<<l, s>>] = "tracking"
                     THEN [goal EXCEPT ![<<l, s>>] = "stopping"] ELSE goal
        /\ UNCHANGED <<segment, stop>>
  /\ AdapterOnly /\ UNCHANGED <<queue, late, taken>>

(* _result_done: the tracker is cleared, then the event is emitted.        *)
ResultClears(l, s) ==
  /\ heard[<<l, s>>] = "response" /\ goal[<<l, s>>] \in Over
  /\ ClearActive(l) /\ heard' = [heard EXCEPT ![<<l, s>>] = "cleared"]
  /\ AdapterOnly /\ UNCHANGED <<queue, goal, late, taken>>

ResultEmits(l, s) ==
  /\ heard[<<l, s>>] = "cleared" /\ heard' = [heard EXCEPT ![<<l, s>>] = "result"]
  /\ Emit(l, IF goal[<<l, s>>] = "succeeded" THEN "SUCCEEDED" ELSE "FAILED", s)
  /\ AdapterOnly /\ UNCHANGED <<trackerVars, goal, late, taken>>

(* _feedback_callback of segment s, whenever its thread comes to it: the   *)
(* event carries the segment the tracker has by then.                      *)
FeedbackCallback(l, s) ==
  /\ <<l, s>> \in late /\ late' = late \ {<<l, s>>}
  /\ Emit(l, "RUNNING", segment[l])
  /\ cause' = (cause \/ segment[l] # s)
  /\ UNCHANGED <<runVars, woken, coreVars, outsideVars, completed, trackerVars, goal, heard, taken>>

-----------------------------------------------------------------------------
(* The FollowPath server, as the adapter uses it                           *)

ServerOnly == UNCHANGED <<runVars, woken, coreVars, trackerVars, queue, heard, outsideVars, completed>>

Track(l, s) ==
  /\ goal[<<l, s>>] = "sent" /\ goal' = [goal EXCEPT ![<<l, s>>] = "tracking"]
  /\ ServerOnly /\ UNCHANGED <<late, taken, cause>>

Arrive(l, s) ==
  /\ goal[<<l, s>>] \in {"tracking", "stopping"} /\ goal' = [goal EXCEPT ![<<l, s>>] = "succeeded"]
  /\ ServerOnly /\ UNCHANGED <<late, taken, cause>>

Stopped(l, s) ==
  /\ goal[<<l, s>>] = "stopping" /\ goal' = [goal EXCEPT ![<<l, s>>] = "failed"]
  /\ ServerOnly /\ UNCHANGED <<late, taken, cause>>

(* The goal is refused or aborted.                                         *)
TrackingFault(l, s) ==
  /\ "tracking" \in Faults /\ cause' = TRUE
  /\ \/ goal[<<l, s>>] = "sent" /\ goal' = [goal EXCEPT ![<<l, s>>] = "rejected"]
     \/ goal[<<l, s>>] \in {"tracking", "stopping"} /\ goal' = [goal EXCEPT ![<<l, s>>] = "failed"]
  /\ ServerOnly /\ UNCHANGED <<late, taken>>

(* A thread takes a feedback message off the wire.                         *)
FeedbackTaken(l, s) ==
  /\ goal[<<l, s>>] \in {"tracking", "stopping"} /\ <<l, s>> \in Chatty \ taken
  /\ late' = late \cup {<<l, s>>} /\ taken' = taken \cup {<<l, s>>}
  /\ ServerOnly /\ UNCHANGED <<goal, cause>>

-----------------------------------------------------------------------------
(* cancel and fail, called by the server's cancel and gate callbacks       *)

OutsideOnly == UNCHANGED <<pc, loop, verdict, current, future, index, sink, segment, handle, queue,
                           heard, late, taken, completed>>

(* The core is read under the lock; fail leaves its reason there.          *)
Call(c) ==
  /\ caller[c] = <<"ready", 0>> /\ caller' = [caller EXCEPT ![c] = <<"called", current>>]
  /\ failure' = (failure \/ c = "fail") /\ cause' = TRUE
  /\ OutsideOnly /\ UNCHANGED <<woken, core, stop, goal, canceled>>

(* A core that is not over has its tracker canceled.                       *)
CallStops(c) ==
  /\ \E k \in 0..Loops :
       /\ caller[c] = <<"called", k>>
       /\ IF k = 0 \/ core[k] \in Terminal
            THEN caller' = [caller EXCEPT ![c] = <<"stopped", 0>>] /\ UNCHANGED <<stop, goal>>
            ELSE caller' = [caller EXCEPT ![c] = <<"stopped", k>>] /\ StopTracker(k)
  /\ OutsideOnly /\ UNCHANGED <<failure, cause, canceled, woken, core>>

(* Its state is written, whatever it is by now, and the future installed   *)
(* now is resolved.  Gates may be lost again, a goal is canceled once.     *)
CallEnds(c) ==
  /\ \E k \in 0..Loops :
       /\ caller[c] = <<"stopped", k>>
       /\ core' = IF k = 0 THEN core
                  ELSE [core EXCEPT ![k] = IF c = "fail" THEN "FAILED" ELSE "CANCELED"]
  /\ Signal
  /\ caller' = [caller EXCEPT ![c] = <<IF c = "fail" THEN "ready" ELSE "over", 0>>]
  /\ OutsideOnly /\ UNCHANGED <<failure, cause, canceled, stop, goal>>

(* The action server marks the goal canceling after its cancel callback.   *)
MarkCanceling ==
  /\ "cancel" \in Callers /\ caller["cancel"] = <<"over", 0>> /\ ~canceled
  /\ canceled' = TRUE
  /\ OutsideOnly /\ UNCHANGED <<failure, woken, core, stop, goal, caller, cause>>

-----------------------------------------------------------------------------
Run == LoopHead \/ Install \/ Start \/ StartFirst \/ Woken

Dispatcher(l) ==
  \/ DispatchUnexpected(l) \/ DispatchRunning(l) \/ DispatchFailed(l) \/ DispatchSucceeded(l)
  \/ StartNext(l)

Adapter(l, s) == GoalResponse(l, s) \/ ResultClears(l, s) \/ ResultEmits(l, s)

Server(l, s) == Track(l, s) \/ Arrive(l, s) \/ Stopped(l, s)

Next ==
  \/ Run
  \/ \E l \in LoopIds : Dispatcher(l)
  \/ \E l \in LoopIds, s \in Segs :
       \/ Adapter(l, s) \/ FeedbackCallback(l, s)
       \/ Server(l, s) \/ TrackingFault(l, s) \/ FeedbackTaken(l, s)
  \/ \E c \in Callers : Call(c) \/ CallStops(c) \/ CallEnds(c)
  \/ MarkCanceling

Spec == Init /\ [][Next]_vars

-----------------------------------------------------------------------------
(* A goal is sent or tracked, and no cancel was sent or is pending.        *)
Unstopped(l, s) == goal[<<l, s>>] \in Driven /\ ~(segment[l] = s /\ stop[l])

(* Never two segments are driven at once: a segment is started only when   *)
(* the one before it was heard to end, also across loops and also when     *)
(* somebody woke run before its time.                                      *)
OneSegmentDriven ==
  \A p, q \in LoopIds \X Segs : Unstopped(p[1], p[2]) /\ Unstopped(q[1], q[2]) => p = q

(* The completion that follows one: the next segment, or the next loop's   *)
(* first.                                                                  *)
Successor(c) == IF c[2] < Segments THEN <<c[1], c[2] + 1>> ELSE <<c[1] + 1, 1>>

(* Segments are reported completed in the order of the route, loop after   *)
(* loop, none twice and none skipped, however the callbacks are scheduled. *)
CompletionsInOrder ==
  \A i \in 1..Len(completed) :
    completed[i] = IF i = 1 THEN <<1, 1>> ELSE Successor(completed[i - 1])

(* The segments take turns: one at a time, in the order of the route.      *)
SegmentsInTurn == OneSegmentDriven /\ CompletionsInOrder

(* run fails only when something failed, somebody called in, or a feedback *)
(* message was handled when its segment was no longer the tracker's: loops,*)
(* segments and threads among themselves never fail a route.               *)
FailsForAReason == verdict \in {"failed", "raised"} => cause

(* What the cancel test expects: the active child is asked to cancel.      *)
CancelStopsTracking ==
  canceled /\ pc = "done" => \A l \in LoopIds, s \in Segs : ~Unstopped(l, s)
=============================================================================
