---------------------- MODULE CapabilityServer_proofs ----------------------
(***************************************************************************)
(* The navigation capability server and its ROUTE backend for every number *)
(* of segments and loops, every set of faults and any feedback.  The       *)
(* argument is one about positions: the goals of a route are decided by    *)
(* the loop of run and the index of its core, and so are the reports of    *)
(* completed segments.  That nothing fails for no reason is a second       *)
(* invariant, of the executions in which nothing has gone wrong yet.       *)
(***************************************************************************)
EXTENDS CapabilityServer, SequenceTheorems, TLAPS

-----------------------------------------------------------------------------
(* Which goals there are: all of the loops before, and of this loop those  *)
(* up to the index; the ones before the index were heard to succeed.       *)
Reached(l, s) == goal[<<l, s>>] = "succeeded" /\ heard[<<l, s>>] = "result"

GoalInv == \A l \in LoopIds, s \in Segs :
  /\ l < loop \/ s < index[l] => Reached(l, s)
  /\ l > loop \/ s > index[l] => goal[<<l, s>>] = "none"
  /\ goal[<<l, s>>] = "none" => heard[<<l, s>>] = "nothing" /\ <<l, s>> \notin late
  /\ heard[<<l, s>>] \in {"cleared", "result"} => goal[<<l, s>>] \in Over

CoreInv == \A l \in LoopIds :
  /\ l < loop => core[l] \in Terminal
  /\ l > loop => core[l] = "IDLE"
  /\ core[l] = "IDLE" => index[l] = 0 /\ queue[l] = <<>>
  /\ core[l] = "RUNNING" => index[l] > 0
  /\ core[l] = "COMPLETED" => index[l] = Segments /\ Reached(l, Segments)
  /\ sink[l] = "starting" =>
       l = loop /\ index[l] > 1 /\ goal[<<l, index[l]>>] = "none" /\ core[l] \notin {"IDLE", "COMPLETED"}

(* The tracker has the segment at the index, until its result is heard.    *)
TrackerInv == \A l \in LoopIds :
  segment[l] # 0 =>
    /\ segment[l] = index[l]
    /\ goal[<<l, index[l]>>] # "none" /\ heard[<<l, index[l]>>] \in {"nothing", "response"}

(* A success in the queue is that of a segment that was heard to succeed.  *)
QueueInv == \A l \in LoopIds : \A i \in 1..Len(queue[l]) :
  queue[l][i].status = "SUCCEEDED" => queue[l][i].segment \in Segs /\ Reached(l, queue[l][i].segment)

RunInv ==
  /\ pc \in {"head", "install"} => core[loop] = "IDLE"
  /\ pc = "start" => core[loop] \in {"IDLE", "FAILED", "CANCELED"} /\ index[loop] = 0
  /\ pc = "startTracker" =>
       core[loop] # "IDLE" /\ index[loop] = 1 /\ goal[<<loop, 1>>] = "none" /\ sink[loop] = "free"
  /\ IF pc \in {"start", "startTracker", "await"} THEN current = loop /\ future = loop
     ELSE current = 0 /\ future = 0
  /\ \A c \in Callers :
       caller[c][2] <= loop /\ (pc \in {"head", "install"} => caller[c][2] < loop)
  /\ verdict # "none" => pc = "done"
  /\ verdict = "success" => loop = Loops /\ \A s \in Segs : Reached(loop, s)

(* The report that is due, while this loop can still report.               *)
Due == IF completed = <<>> THEN <<1, 1>> ELSE Successor(completed[Len(completed)])

ReportInv ==
  /\ CompletionsInOrder
  /\ core[loop] = "IDLE" => Due = <<loop, 1>>
  /\ sink[loop] = "starting" => Due = <<loop, index[loop] - 1>>
  /\ core[loop] = "RUNNING" /\ sink[loop] = "free" => Due = <<loop, index[loop]>>
  /\ core[loop] = "COMPLETED" => Due = <<loop + 1, 1>>

-----------------------------------------------------------------------------
(* As long as nothing has gone wrong                                       *)

(* What is in a queue is expected: feedback of the active segment, and at  *)
(* most one success behind it.                                             *)
QueueExpected(l) ==
  /\ \A i \in 1..Len(queue[l]) :
       /\ queue[l][i].segment = index[l] /\ queue[l][i].status \in {"RUNNING", "SUCCEEDED"}
       /\ queue[l][i].status = "SUCCEEDED" => i = Len(queue[l])
  /\ queue[l] # <<>> => core[l] = "RUNNING" /\ sink[l] = "free"

Clean ==
  /\ ~failure /\ ~canceled /\ verdict \in {"none", "success"}
  /\ \A c \in Callers : caller[c] = <<"ready", 0>>
  /\ \A l \in LoopIds : core[l] \notin {"FAILED", "CANCELED"} /\ ~stop[l] /\ QueueExpected(l)
  /\ \A p \in LoopIds \X Segs : goal[p] \in {"none", "sent", "tracking", "succeeded"}
  /\ pc \in {"start", "startTracker", "await"} /\ woken => core[loop] = "COMPLETED"

CauseInv == ~cause => Clean

-----------------------------------------------------------------------------
(* The server: what it told and remembers goes by the session and by what  *)
(* the backend returned.                                                   *)
ServerInv ==
  /\ server = "confirm" => session \in {"FAILED", "CANCELED"}
  /\ server = "settle" => session \in EndStates
  /\ told = "SUCCEEDED" => session = "SUCCEEDED" /\ verdict = "success"
  /\ session = "SUCCEEDED" => told = "SUCCEEDED" /\ server \in {"settle", "over"}
  /\ remembered # "nothing" => server = "over"
  /\ server = "over" => (remembered = "SUCCEEDED" <=> told = "SUCCEEDED")
  /\ told # "none" => server \in {"settle", "over"}

-----------------------------------------------------------------------------
(* What the server makes of the backend: its steps, and a cancel that does *)
(* not find the backend in its slot.                                       *)
CancelFindsNothing ==
  /\ caller["cancel"] = <<"ready", 0>>
  /\ caller' = [caller EXCEPT !["cancel"] = <<"over", 0>>] /\ cause' = TRUE
  /\ OutsideOnly /\ UNCHANGED <<failure, woken, core, stop, goal, canceled>>

RouteStep == Next \/ CancelFindsNothing

LEMMA ServerStepsRoute == [ServerNext]_serverVars => [RouteStep]_vars
<1> SUFFICES ASSUME [ServerNext]_serverVars PROVE [RouteStep]_vars
  OBVIOUS
<1>0. "cancel" \in Callers /\ "fail" \in Callers
  BY CapabilityAssumption
<1>1. ASSUME ExecuteRoute PROVE [RouteStep]_vars
  BY <1>1 DEF ExecuteRoute, Select, ClaimRefused, ClaimRequest, BeginSession, LoadRefused, LoadTask,
     CheckGoal, ResolveRoute, AcceptRoute, BeginRoute, InstallExecutor, RunRoute, RouteReturns,
     JudgeCanceled, ConfirmCanceled, JudgeFailed, JudgeSucceeded, ExceptRoute, LeaveRoute, ServerStep,
     Reject, Proceed, RouteStep, Next
<1>2. ASSUME Backend PROVE [RouteStep]_vars
  BY <1>2 DEF Backend, RouteStep, Next
<1>3. ASSUME GateLost \/ GateReady \/ Watchdog \/ BindingChanges PROVE [RouteStep]_vars
  BY <1>3 DEF GateLost, GateReady, Watchdog, BindingChanges, GateUnchanged
<1>4. ASSUME Keep \/ CancelGoesOn \/ MarkGoal PROVE [RouteStep]_vars
  BY <1>0, <1>4 DEF Keep, FailBackend, CancelGoesOn, MarkGoal, RouteStep, Next
<1>5. ASSUME CancelSession PROVE [RouteStep]_vars
  BY <1>0, <1>5 DEF CancelSession, RouteStep, Next, CancelFindsNothing
<1> QED BY <1>1, <1>2, <1>3, <1>4, <1>5 DEF ServerNext, serverVars

-----------------------------------------------------------------------------
(* Types of the backend                                                    *)

LEMMA Numbers ==
  /\ Segments \in Nat /\ Loops \in Nat /\ 0 \in 0..Loops /\ 0 \in 0..Segments
  /\ \A l \in LoopIds : l \in 0..Loops /\ l \in Nat /\ l # 0
  /\ \A s \in Segs : s \in 0..Segments /\ s \in Nat /\ s # 0
  /\ 1 \in Segs /\ 1 \in LoopIds /\ Segments \in Segs
  /\ "cancel" \in Callers /\ "fail" \in Callers
  BY RouteAssumption, CapabilityAssumption DEF LoopIds, Segs

LEMMA RouteTypeInit == Init => TypeOK
<1> SUFFICES ASSUME Init PROVE TypeOK
  OBVIOUS
<1>1. pc = "head" /\ loop \in LoopIds /\ verdict = "none" /\ current \in 0..Loops /\ future \in 0..Loops
      /\ woken \in BOOLEAN /\ failure \in BOOLEAN /\ canceled \in BOOLEAN /\ cause \in BOOLEAN
  BY Numbers DEF Init, TrackerInit
<1>2. /\ core \in [LoopIds -> {"IDLE", "RUNNING"} \cup Terminal] /\ index \in [LoopIds -> 0..Segments]
      /\ sink \in [LoopIds -> {"free", "starting"}]
      /\ segment \in [LoopIds -> 0..Segments] /\ handle \in [LoopIds -> 0..Segments]
      /\ stop \in [LoopIds -> BOOLEAN] /\ queue \in [LoopIds -> Seq(Event)]
  BY Numbers DEF Init, TrackerInit
<1>3. /\ goal \in [LoopIds \X Segs -> GoalStates]
      /\ heard \in [LoopIds \X Segs -> {"nothing", "response", "cleared", "result"}]
      /\ caller \in [Callers -> {"ready", "called", "stopped", "over"} \X (0..Loops)]
  BY Numbers DEF Init, TrackerInit, GoalStates
<1>4. late \subseteq LoopIds \X Segs /\ taken \subseteq Chatty /\ completed \in Seq(LoopIds \X Segs)
  BY DEF Init, TrackerInit
<1> QED BY <1>1, <1>2, <1>3, <1>4 DEF TypeOK

LEMMA StopTrackerType ==
  ASSUME TypeOK, NEW l \in LoopIds, StopTracker(l)
  PROVE  stop' \in [LoopIds -> BOOLEAN] /\ goal' \in [LoopIds \X Segs -> GoalStates]
  BY DEF TypeOK, StopTracker, GoalStates

LEMMA FailCoreType ==
  ASSUME TypeOK, NEW l \in LoopIds, FailCore(l)
  PROVE  /\ core' \in [LoopIds -> {"IDLE", "RUNNING"} \cup Terminal]
         /\ stop' \in [LoopIds -> BOOLEAN] /\ goal' \in [LoopIds \X Segs -> GoalStates]
  BY StopTrackerType DEF FailCore, TypeOK, Terminal

LEMMA StartTrackerType ==
  ASSUME TypeOK, NEW l \in LoopIds, NEW s \in Segs, StartTracker(l, s)
  PROVE  /\ segment' \in [LoopIds -> 0..Segments] /\ stop' \in [LoopIds -> BOOLEAN]
         /\ goal' \in [LoopIds \X Segs -> GoalStates]
  BY Numbers DEF StartTracker, TypeOK, GoalStates, Driven

LEMMA TakeType ==
  ASSUME TypeOK, NEW l \in LoopIds, NEW status, Take(l, status)
  PROVE  queue' \in [LoopIds -> Seq(Event)]
<1>1. queue[l] \in Seq(Event) /\ queue[l] # <<>>
  BY DEF TypeOK, Take
<1>2. Tail(queue[l]) \in Seq(Event)
  BY <1>1, HeadTailProperties
<1> QED BY <1>2 DEF TypeOK, Take

LEMMA EmitType ==
  ASSUME TypeOK, NEW l \in LoopIds, NEW status \in {"RUNNING", "SUCCEEDED", "FAILED"},
         NEW s \in 0..Segments, Emit(l, status, s)
  PROVE  queue' \in [LoopIds -> Seq(Event)]
<1>1. queue[l] \in Seq(Event) /\ [status |-> status, segment |-> s] \in Event
  BY DEF TypeOK, Event
<1>2. Append(queue[l], [status |-> status, segment |-> s]) \in Seq(Event)
  BY <1>1, AppendProperties
<1> QED BY <1>2 DEF TypeOK, Emit

LEMMA SignalType == TypeOK /\ Signal => woken' \in BOOLEAN
  BY DEF TypeOK, Signal

LEMMA ReportType ==
  ASSUME TypeOK, NEW l \in LoopIds, NEW s \in Segs
  PROVE  Append(completed, <<l, s>>) \in Seq(LoopIds \X Segs)
<1>1. completed \in Seq(LoopIds \X Segs) /\ <<l, s>> \in LoopIds \X Segs
  BY DEF TypeOK
<1> QED BY <1>1, AppendProperties

LEMMA RunType == TypeOK /\ Run => TypeOK'
<1> SUFFICES ASSUME TypeOK, Run PROVE TypeOK'
  OBVIOUS
<1> USE Numbers DEF RunOnly, outsideVars, Return
<1>1. CASE LoopHead \/ Install
  BY <1>1 DEF TypeOK, LoopHead, Install
<1>2. CASE Start
  <2>1. cause' \in BOOLEAN
    BY <1>2 DEF Start, TypeOK
  <2>2. /\ verdict' \in {"none", "success", "canceled", "failed", "raised"}
        /\ pc' \in {"head", "install", "start", "startTracker", "await", "done"}
        /\ current' \in 0..Loops /\ future' \in 0..Loops
    BY <1>2 DEF Start, TypeOK
  <2>3. core' \in [LoopIds -> {"IDLE", "RUNNING"} \cup Terminal] /\ index' \in [LoopIds -> 0..Segments]
    BY <1>2 DEF Start, TypeOK
  <2>4. UNCHANGED <<loop, woken, failure, trackerVars, goalVars, queue, sink, caller, canceled, completed>>
    BY <1>2 DEF Start, trackerVars, goalVars
  <2> QED BY <2>1, <2>2, <2>3, <2>4 DEF TypeOK, trackerVars, goalVars
<1>3. CASE StartFirst
  BY <1>3, StartTrackerType DEF TypeOK, StartFirst
<1>4. CASE Woken
  <2>1. loop' = loop \/ (loop < Loops /\ loop' = loop + 1)
    BY <1>4 DEF Woken
  <2>2. loop \in LoopIds
    BY DEF TypeOK
  <2>3. loop' \in LoopIds
    BY <2>1, <2>2 DEF LoopIds
  <2> QED BY <1>4, <2>3 DEF TypeOK, Woken
<1> QED BY <1>1, <1>2, <1>3, <1>4 DEF Run

LEMMA DispatcherType == ASSUME TypeOK, CoreInv, NEW l \in LoopIds, Dispatcher(l) PROVE TypeOK'
<1>frame. UNCHANGED <<runVars, handle, heard, late, taken, outsideVars>>
  BY DEF Dispatcher, DispatchUnexpected, DispatchRunning, DispatchFailed, DispatchSucceeded, StartNext,
         SinkOnly
<1> USE Numbers DEF runVars, outsideVars, trackerVars
<1>1. CASE DispatchUnexpected(l)
  <2>1. PICK status : Take(l, status)
    BY <1>1 DEF DispatchUnexpected
  <2>2. FailCore(l) /\ Signal /\ UNCHANGED <<index, segment, completed, sink, cause>>
    BY <1>1 DEF DispatchUnexpected, SinkRaises
  <2> QED BY <1>frame, <2>1, <2>2, FailCoreType, TakeType, SignalType DEF TypeOK
<1>2. CASE DispatchRunning(l)
  BY <1>frame, <1>2, TakeType DEF DispatchRunning, TypeOK
<1>3. CASE DispatchFailed(l)
  <2>1. core' \in [LoopIds -> {"IDLE", "RUNNING"} \cup Terminal]
    BY <1>3 DEF DispatchFailed, TypeOK, Terminal
  <2> QED BY <1>frame, <1>3, <2>1, TakeType, SignalType DEF DispatchFailed, TypeOK
<1>4. CASE DispatchSucceeded(l)
  <2>1. queue' \in [LoopIds -> Seq(Event)]
    BY <1>4, TakeType DEF DispatchSucceeded
  <2>2. CASE /\ index[l] = Segments
             /\ core' = [core EXCEPT ![l] = "COMPLETED"] /\ Signal
             /\ completed' = Append(completed, <<l, index[l]>>)
             /\ UNCHANGED <<index, sink, segment, stop, goal, cause>>
    <3>1. completed' \in Seq(LoopIds \X Segs)
      BY <2>2, ReportType
    <3>2. core' \in [LoopIds -> {"IDLE", "RUNNING"} \cup Terminal]
      BY <2>2 DEF TypeOK, Terminal
    <3> QED BY <1>frame, <2>1, <2>2, <3>1, <3>2, SignalType DEF TypeOK
  <2>3. CASE /\ index[l] < Segments
             /\ index' = [index EXCEPT ![l] = @ + 1] /\ sink' = [sink EXCEPT ![l] = "starting"]
             /\ UNCHANGED <<core, segment, stop, goal, woken, completed, cause>>
    <3>index. index[l] \in 0..Segments
      BY DEF TypeOK
    <3>1. index[l] + 1 \in 0..Segments
      BY <2>3, <3>index
    <3>2. index' \in [LoopIds -> 0..Segments]
      BY <2>3, <3>1 DEF TypeOK
    <3> QED BY <1>frame, <2>1, <2>3, <3>2 DEF TypeOK
  <2>4. CASE SinkRaises(l) /\ cause' = TRUE /\ UNCHANGED sink
    BY <1>frame, <2>1, <2>4, FailCoreType, SignalType DEF TypeOK, SinkRaises
  <2> QED BY <1>4, <2>2, <2>3, <2>4 DEF DispatchSucceeded
<1>5. CASE StartNext(l)
  <2>1. sink' \in [LoopIds -> {"free", "starting"}] /\ UNCHANGED queue
    BY <1>5 DEF StartNext, TypeOK
  <2>2. CASE SinkRaises(l) /\ cause' = TRUE
    BY <1>frame, <2>1, <2>2, FailCoreType, SignalType DEF TypeOK, SinkRaises
  <2>3. CASE /\ StartTracker(l, index[l])
             /\ completed' = Append(completed, <<l, index[l] - 1>>)
             /\ IF core[l] \in Terminal THEN Signal ELSE UNCHANGED woken
             /\ UNCHANGED <<core, index, cause>>
    <3>index. index[l] \in 0..Segments /\ index[l] > 1
      BY <1>5 DEF StartNext, CoreInv, TypeOK
    <3>1. index[l] \in Segs /\ index[l] - 1 \in Segs
      BY <3>index DEF Segs
    <3>2. completed' \in Seq(LoopIds \X Segs)
      BY <2>3, <3>1, ReportType
    <3> QED BY <1>frame, <2>1, <2>3, <3>1, <3>2, StartTrackerType, SignalType DEF TypeOK
  <2> QED BY <1>5, <2>2, <2>3 DEF StartNext
<1> QED BY <1>1, <1>2, <1>3, <1>4, <1>5 DEF Dispatcher

LEMMA AdapterType == ASSUME TypeOK, NEW l \in LoopIds, NEW s \in Segs, Adapter(l, s) PROVE TypeOK'
<1> USE Numbers DEF AdapterOnly, runVars, outsideVars, trackerVars, coreVars
<1>1. CASE GoalResponse(l, s)
  <2>1. goal' \in [LoopIds \X Segs -> GoalStates]
    BY <1>1 DEF GoalResponse, TypeOK, GoalStates
  <2>2. /\ segment' \in [LoopIds -> 0..Segments] /\ handle' \in [LoopIds -> 0..Segments]
        /\ stop' \in [LoopIds -> BOOLEAN]
        /\ heard' \in [LoopIds \X Segs -> {"nothing", "response", "cleared", "result"}]
    <3>1. /\ segment \in [LoopIds -> 0..Segments] /\ handle \in [LoopIds -> 0..Segments]
          /\ stop \in [LoopIds -> BOOLEAN]
          /\ heard \in [LoopIds \X Segs -> {"nothing", "response", "cleared", "result"}]
      BY DEF TypeOK
    <3>2. CASE ClearActive(l) /\ heard' = [heard EXCEPT ![<<l, s>>] = "cleared"]
      BY <3>1, <3>2 DEF ClearActive
    <3>3. CASE /\ handle' = [handle EXCEPT ![l] = s] /\ heard' = [heard EXCEPT ![<<l, s>>] = "response"]
               /\ UNCHANGED <<segment, stop>>
      BY <3>1, <3>3
    <3> QED BY <1>1, <3>2, <3>3 DEF GoalResponse
  <2>3. UNCHANGED <<runVars, woken, coreVars, outsideVars, completed, cause, queue, late, taken>>
    BY <1>1 DEF GoalResponse
  <2> QED BY <2>1, <2>2, <2>3 DEF TypeOK
<1>2. CASE ResultClears(l, s)
  BY <1>2 DEF ResultClears, ClearActive, TypeOK
<1>3. CASE ResultEmits(l, s)
  <2>1. queue' \in [LoopIds -> Seq(Event)]
    BY <1>3, EmitType DEF ResultEmits
  <2> QED BY <1>3, <2>1 DEF ResultEmits, TypeOK
<1> QED BY <1>1, <1>2, <1>3 DEF Adapter

LEMMA NavType ==
  ASSUME TypeOK, NEW l \in LoopIds, NEW s \in Segs,
         FeedbackCallback(l, s) \/ Server(l, s) \/ TrackingFault(l, s) \/ FeedbackTaken(l, s)
  PROVE  TypeOK'
<1> USE Numbers DEF ServerOnly, runVars, outsideVars, trackerVars, coreVars
<1>1. CASE FeedbackCallback(l, s)
  <2>1. queue' \in [LoopIds -> Seq(Event)]
    BY <1>1, EmitType DEF FeedbackCallback, TypeOK
  <2>2. cause' \in BOOLEAN
    BY <1>1 DEF FeedbackCallback, TypeOK
  <2> QED BY <1>1, <2>1, <2>2 DEF FeedbackCallback, TypeOK
<1>2. CASE Server(l, s) \/ TrackingFault(l, s)
  <2>1. PICK state \in GoalStates : goal' = [goal EXCEPT ![<<l, s>>] = state]
    BY <1>2 DEF Server, Track, Arrive, Stopped, TrackingFault, GoalStates, Driven, Over
  <2>2. goal' \in [LoopIds \X Segs -> GoalStates]
    BY <2>1 DEF TypeOK
  <2>3. /\ UNCHANGED <<runVars, woken, coreVars, trackerVars, queue, heard, outsideVars, completed>>
        /\ UNCHANGED <<late, taken>> /\ cause' \in {cause, TRUE}
    BY <1>2 DEF Server, Track, Arrive, Stopped, TrackingFault
  <2> QED BY <2>2, <2>3 DEF TypeOK
<1>3. CASE FeedbackTaken(l, s)
  <2>1. /\ UNCHANGED <<runVars, woken, coreVars, trackerVars, queue, heard, outsideVars, completed>>
        /\ UNCHANGED <<goal, cause>>
    BY <1>3 DEF FeedbackTaken
  <2>2. late' \subseteq LoopIds \X Segs /\ taken' \subseteq Chatty
    <3>1. late \subseteq LoopIds \X Segs /\ taken \subseteq Chatty /\ <<l, s>> \in LoopIds \X Segs
      BY DEF TypeOK
    <3> QED BY <1>3, <3>1 DEF FeedbackTaken
  <2> QED BY <2>1, <2>2 DEF TypeOK
<1> QED BY <1>1, <1>2, <1>3

LEMMA OutsideType ==
  ASSUME TypeOK,
         \/ \E c \in Callers : Call(c) \/ CallStops(c) \/ CallEnds(c)
         \/ MarkCanceling \/ CancelFindsNothing
  PROVE  TypeOK'
<1> USE Numbers DEF OutsideOnly
<1>1. ASSUME NEW c \in Callers, Call(c) PROVE TypeOK'
  <2>1. failure' \in BOOLEAN
    BY <1>1 DEF Call, TypeOK
  <2> QED BY <1>1, <2>1 DEF Call, TypeOK
<1>2. ASSUME NEW c \in Callers, CallStops(c) PROVE TypeOK'
  <2>1. stop' \in [LoopIds -> BOOLEAN] /\ goal' \in [LoopIds \X Segs -> GoalStates]
    <3>1. PICK k \in 0..Loops : IF k = 0 \/ core[k] \in Terminal THEN UNCHANGED <<stop, goal>>
                               ELSE StopTracker(k)
      BY <1>2 DEF CallStops
    <3>2. k # 0 => k \in LoopIds
      BY DEF LoopIds
    <3> QED BY <3>1, <3>2, StopTrackerType DEF TypeOK
  <2>2. caller' \in [Callers -> {"ready", "called", "stopped", "over"} \X (0..Loops)]
    <3>1. PICK k \in 0..Loops : \/ caller' = [caller EXCEPT ![c] = <<"stopped", 0>>]
                                \/ caller' = [caller EXCEPT ![c] = <<"stopped", k>>]
      BY <1>2 DEF CallStops
    <3>2. caller \in [Callers -> {"ready", "called", "stopped", "over"} \X (0..Loops)]
      BY DEF TypeOK
    <3> QED BY <3>1, <3>2
  <2>3. UNCHANGED <<runVars, woken, coreVars, queue, segment, handle, heard, late, taken, canceled,
                    completed, cause>>
    BY <1>2 DEF CallStops, runVars, coreVars
  <2> QED BY <2>1, <2>2, <2>3 DEF TypeOK, runVars, coreVars
<1>3. ASSUME NEW c \in Callers, CallEnds(c) PROVE TypeOK'
  <2>1. core' \in [LoopIds -> {"IDLE", "RUNNING"} \cup Terminal]
    BY <1>3 DEF CallEnds, TypeOK, Terminal
  <2>2. caller' \in [Callers -> {"ready", "called", "stopped", "over"} \X (0..Loops)]
    BY <1>3 DEF CallEnds, TypeOK
  <2> QED BY <1>3, <2>1, <2>2, SignalType DEF CallEnds, TypeOK
<1>4. CASE MarkCanceling
  BY <1>4 DEF MarkCanceling, TypeOK
<1>5. CASE CancelFindsNothing
  <2>1. caller' \in [Callers -> {"ready", "called", "stopped", "over"} \X (0..Loops)]
    BY <1>5 DEF CancelFindsNothing, TypeOK
  <2>2. UNCHANGED <<runVars, woken, coreVars, trackerVars, queue, goalVars, canceled, completed>> /\ cause'
    BY <1>5 DEF CancelFindsNothing, runVars, coreVars, trackerVars, goalVars
  <2> QED BY <2>1, <2>2 DEF TypeOK, runVars, coreVars, trackerVars, goalVars
<1> QED BY <1>1, <1>2, <1>3, <1>4, <1>5

LEMMA RouteTypeStep == TypeOK /\ CoreInv /\ [RouteStep]_vars => TypeOK'
<1> SUFFICES ASSUME TypeOK, CoreInv, [RouteStep]_vars PROVE TypeOK'
  OBVIOUS
<1>1. CASE UNCHANGED vars
  BY <1>1 DEF vars, TypeOK, runVars, coreVars, trackerVars, goalVars, outsideVars
<1>2. CASE RouteStep
  BY <1>2, RunType, DispatcherType, AdapterType, NavType, OutsideType DEF RouteStep, Next
<1> QED BY <1>1, <1>2

-----------------------------------------------------------------------------
(* Positions                                                               *)

(* The types the arguments about positions need.                           *)
Typed ==
  /\ loop \in LoopIds
  /\ core \in [LoopIds -> {"IDLE", "RUNNING"} \cup Terminal] /\ index \in [LoopIds -> 0..Segments]
  /\ sink \in [LoopIds -> {"free", "starting"}]
  /\ segment \in [LoopIds -> 0..Segments] /\ queue \in [LoopIds -> Seq(Event)]
  /\ goal \in [LoopIds \X Segs -> GoalStates]
  /\ heard \in [LoopIds \X Segs -> {"nothing", "response", "cleared", "result"}]
  /\ caller \in [Callers -> {"ready", "called", "stopped", "over"} \X (0..Loops)]

LEMMA IsTyped == TypeOK => Typed
  BY DEF TypeOK, Typed

Positions == GoalInv /\ CoreInv /\ TrackerInv /\ QueueInv /\ RunInv

LEMMA PositionsInit == Init => Positions
<1> SUFFICES ASSUME Init PROVE Positions
  OBVIOUS
<1> USE Numbers DEF Init, TrackerInit
<1>1. GoalInv
  BY DEF GoalInv, Reached, LoopIds
<1>2. CoreInv
  BY DEF CoreInv, LoopIds
<1>3. TrackerInv /\ QueueInv
  BY DEF TrackerInv, QueueInv
<1>4. RunInv
  BY DEF RunInv
<1> QED BY <1>1, <1>2, <1>3, <1>4 DEF Positions

(* What the server, a cancel or a failing core does to the goals.          *)
GoalsMove == \A l \in LoopIds, s \in Segs :
  \/ goal'[<<l, s>>] = goal[<<l, s>>]
  \/ goal[<<l, s>>] \in {"sent", "tracking", "stopping"} /\ goal'[<<l, s>>] # "none"

LEMMA StopTrackerMoves ==
  ASSUME Typed, NEW l \in LoopIds, StopTracker(l)
  PROVE  GoalsMove
  BY DEF Typed, StopTracker, GoalsMove

LEMMA GoalsMoved ==
  ASSUME Typed, Positions, GoalsMove, UNCHANGED <<loop, index, heard, segment>>,
         \A l \in LoopIds, s \in Segs : <<l, s>> \in late' => <<l, s>> \in late \/ goal'[<<l, s>>] # "none"
  PROVE  /\ GoalInv' /\ TrackerInv'
         /\ \A l \in LoopIds, s \in Segs : Reached(l, s) => Reached(l, s)'
<1> USE DEF Typed, Positions, GoalsMove, Reached
<1>1. GoalInv'
  <2> SUFFICES ASSUME NEW l \in LoopIds, NEW s \in Segs
               PROVE  /\ (l < loop \/ s < index[l] => Reached(l, s))'
                      /\ (l > loop \/ s > index[l] => goal[<<l, s>>] = "none")'
                      /\ (goal[<<l, s>>] = "none" => heard[<<l, s>>] = "nothing" /\ <<l, s>> \notin late)'
                      /\ (heard[<<l, s>>] \in {"cleared", "result"} => goal[<<l, s>>] \in Over)'
    BY DEF GoalInv
  <2>1. /\ l < loop \/ s < index[l] => Reached(l, s)
        /\ l > loop \/ s > index[l] => goal[<<l, s>>] = "none"
        /\ goal[<<l, s>>] = "none" => heard[<<l, s>>] = "nothing" /\ <<l, s>> \notin late
        /\ heard[<<l, s>>] \in {"cleared", "result"} => goal[<<l, s>>] \in Over
    BY DEF GoalInv
  <2> QED BY <2>1 DEF Over
<1>2. TrackerInv'
  BY Numbers DEF TrackerInv, Segs
<1> QED BY <1>1, <1>2

(* A step that leaves the loop, the indices and what was heard alone: it   *)
(* moves goals, ends cores that are not to come, and takes events.         *)
LEMMA Settled ==
  ASSUME Typed, Typed', Positions, GoalsMove, QueueInv',
         UNCHANGED <<pc, loop, verdict, current, future, index, segment, heard>>,
         \A l \in LoopIds : sink'[l] \in {sink[l], "free"},
         \A l \in LoopIds, s \in Segs : <<l, s>> \in late' => <<l, s>> \in late \/ goal'[<<l, s>>] # "none",
         \A l \in LoopIds :
           /\ core'[l] = "IDLE" => queue'[l] = <<>>
           /\ \/ core'[l] = core[l]
              \/ /\ core'[l] \in {"FAILED", "CANCELED"} /\ l <= loop
                 /\ l = loop => pc \notin {"head", "install"},
         \A c \in Callers : caller'[c][2] \in {0, current, caller[c][2]}
  PROVE  Positions'
<1>1. GoalInv' /\ TrackerInv' /\ \A l \in LoopIds, s \in Segs : Reached(l, s) => Reached(l, s)'
  BY GoalsMoved
<1>2. CoreInv'
  <2> SUFFICES ASSUME NEW l \in LoopIds
               PROVE  /\ l < loop => core'[l] \in Terminal
                      /\ l > loop => core'[l] = "IDLE"
                      /\ core'[l] = "IDLE" => index[l] = 0 /\ queue'[l] = <<>>
                      /\ core'[l] = "RUNNING" => index[l] > 0
                      /\ core'[l] = "COMPLETED" => index[l] = Segments /\ Reached(l, Segments)'
                      /\ sink'[l] = "starting" =>
                           /\ l = loop /\ index[l] > 1 /\ goal'[<<l, index[l]>>] = "none"
                           /\ core'[l] \notin {"IDLE", "COMPLETED"}
    BY DEF CoreInv
  <2>1. /\ l < loop => core[l] \in Terminal
        /\ l > loop => core[l] = "IDLE"
        /\ core[l] = "IDLE" => index[l] = 0
        /\ core[l] = "RUNNING" => index[l] > 0
        /\ core[l] = "COMPLETED" => index[l] = Segments /\ Reached(l, Segments)
        /\ sink[l] = "starting" =>
             /\ l = loop /\ index[l] > 1 /\ goal[<<l, index[l]>>] = "none"
             /\ core[l] \notin {"IDLE", "COMPLETED"}
    BY DEF Positions, CoreInv
  <2>2. sink[l] = "starting" => index[l] \in Segs
    BY <2>1 DEF Typed, Segs
  <2>3. sink[l] = "starting" => goal'[<<l, index[l]>>] = "none"
    BY <2>1, <2>2 DEF GoalsMove
  <2>4. loop \in Nat /\ l \in Nat
    BY Numbers DEF Typed
  <2> QED BY <1>1, <2>1, <2>3, <2>4, Numbers DEF Terminal
<1>3. RunInv'
  <2>1. RunInv
    BY DEF Positions
  <2>2. loop \in Nat /\ loop \in LoopIds /\ current \in {0, loop}
    BY <2>1, Numbers DEF Typed, RunInv
  <2>3. /\ pc \in {"head", "install"} => core'[loop] = "IDLE"
        /\ pc = "start" => core'[loop] \in {"IDLE", "FAILED", "CANCELED"} /\ index[loop] = 0
        /\ pc = "startTracker" =>
             /\ core'[loop] # "IDLE" /\ index[loop] = 1 /\ goal'[<<loop, 1>>] = "none"
             /\ sink'[loop] = "free"
    BY <2>1, <2>2, Numbers DEF RunInv, GoalsMove
  <2>4. \A c \in Callers :
          caller'[c][2] <= loop /\ (pc \in {"head", "install"} => caller'[c][2] < loop)
    BY <2>1, <2>2, Numbers DEF RunInv
  <2>5. verdict = "success" => loop = Loops /\ \A s \in Segs : Reached(loop, s)'
    BY <1>1, <2>1, <2>2 DEF RunInv
  <2> QED BY <2>1, <2>3, <2>4, <2>5 DEF RunInv
<1> QED BY <1>1, <1>2, <1>3 DEF Positions

LEMMA TakenQueue ==
  ASSUME Typed, QueueInv, NEW l \in LoopIds, NEW status, Take(l, status),
         \A k \in LoopIds, s \in Segs : Reached(k, s) => Reached(k, s)'
  PROVE  QueueInv'
<1>1. queue[l] \in Seq(Event) /\ queue[l] # <<>> /\ queue' = [queue EXCEPT ![l] = Tail(@)]
  BY DEF Take, Typed
<1>2. /\ Tail(queue[l]) \in Seq(Event) /\ Len(Tail(queue[l])) = Len(queue[l]) - 1
      /\ \A i \in 1..Len(Tail(queue[l])) : Tail(queue[l])[i] = queue[l][i + 1]
  BY <1>1, HeadTailProperties
<1> SUFFICES ASSUME NEW k \in LoopIds, NEW i \in 1..Len(queue'[k]), queue'[k][i].status = "SUCCEEDED"
             PROVE  (queue[k][i].segment \in Segs /\ Reached(k, queue[k][i].segment))'
  BY DEF QueueInv
<1>3. CASE k # l
  <2>1. queue'[k] = queue[k]
    BY <1>1, <1>3 DEF Typed
  <2> QED BY <2>1 DEF QueueInv
<1>4. CASE k = l
  <2>1. queue'[k] = Tail(queue[l])
    BY <1>1, <1>4 DEF Typed
  <2>2. i + 1 \in 1..Len(queue[l]) /\ queue'[k][i] = queue[l][i + 1]
    <3>1. Len(queue[l]) \in Nat /\ i \in 1..(Len(queue[l]) - 1)
      BY <1>1, <1>2, <2>1, LenProperties
    <3> QED BY <1>2, <2>1, <3>1
  <2> QED BY <1>4, <2>2 DEF QueueInv
<1> QED BY <1>3, <1>4

LEMMA EmittedQueue ==
  ASSUME Typed, QueueInv, NEW l \in LoopIds, NEW status \in {"RUNNING", "SUCCEEDED", "FAILED"},
         NEW s \in 0..Segments, Emit(l, status, s),
         \A k \in LoopIds, t \in Segs : Reached(k, t) => Reached(k, t)',
         status = "SUCCEEDED" => s \in Segs /\ Reached(l, s)'
  PROVE  QueueInv'
<1> DEFINE e == [status |-> status, segment |-> s]
<1>1. queue[l] \in Seq(Event) /\ queue' = [queue EXCEPT ![l] = Append(@, e)] /\ e \in Event
  BY DEF Emit, Typed, Event
<1>2. /\ Len(Append(queue[l], e)) = Len(queue[l]) + 1 /\ Len(queue[l]) \in Nat
      /\ \A i \in 1..Len(queue[l]) : Append(queue[l], e)[i] = queue[l][i]
      /\ Append(queue[l], e)[Len(queue[l]) + 1] = e
  BY <1>1, AppendProperties, LenProperties
<1> HIDE DEF e
<1> SUFFICES ASSUME NEW k \in LoopIds, NEW i \in 1..Len(queue'[k]), queue'[k][i].status = "SUCCEEDED"
             PROVE  (queue[k][i].segment \in Segs /\ Reached(k, queue[k][i].segment))'
  BY DEF QueueInv
<1>3. CASE k # l
  <2>1. queue'[k] = queue[k]
    BY <1>1, <1>3 DEF Typed
  <2> QED BY <2>1 DEF QueueInv
<1>4. CASE k = l
  <2>1. queue'[k] = Append(queue[l], e)
    BY <1>1, <1>4 DEF Typed
  <2>2. CASE i \in 1..Len(queue[l])
    BY <1>2, <1>4, <2>1, <2>2 DEF QueueInv
  <2>3. CASE i = Len(queue[l]) + 1
    BY <1>2, <1>4, <2>1, <2>3 DEF e
  <2> QED BY <1>2, <2>1, <2>2, <2>3
<1> QED BY <1>3, <1>4

(* The tracker is started at the index, for a segment that was not yet.    *)
LEMMA StartedGoal ==
  ASSUME Typed, Typed', Positions, NEW s \in Segs, s = index[loop], goal[<<loop, s>>] = "none",
         StartTracker(loop, s), core[loop] \notin {"IDLE", "COMPLETED"},
         UNCHANGED <<loop, index, heard, late, queue>>
  PROVE  /\ GoalInv' /\ TrackerInv' /\ QueueInv' /\ goal'[<<loop, s>>] = "sent"
         /\ \A l \in LoopIds, t \in Segs : goal'[<<l, t>>] = goal[<<l, t>>] \/ (l = loop /\ t = s)
         /\ \A l \in LoopIds, t \in Segs : Reached(l, t) => Reached(l, t)'
<1>a. loop \in LoopIds /\ loop \in Nat
  BY Numbers DEF Typed
<1>1. \A l \in LoopIds, t \in Segs : /\ l = loop /\ t = s => goal'[<<l, t>>] = "sent"
                                     /\ l # loop \/ t # s => goal'[<<l, t>>] = goal[<<l, t>>]
  BY <1>a DEF StartTracker, Typed
<1>2. \A l \in LoopIds, t \in Segs : Reached(l, t) => Reached(l, t)'
  BY <1>1 DEF Reached
<1>0. heard[<<loop, s>>] = "nothing" /\ <<loop, s>> \notin late
  BY <1>a DEF Positions, GoalInv
<1>3. GoalInv'
  <2> SUFFICES ASSUME NEW l \in LoopIds, NEW t \in Segs
               PROVE  /\ l < loop \/ t < index[l] => Reached(l, t)'
                      /\ l > loop \/ t > index[l] => goal'[<<l, t>>] = "none"
                      /\ goal'[<<l, t>>] = "none" => heard[<<l, t>>] = "nothing" /\ <<l, t>> \notin late
                      /\ heard[<<l, t>>] \in {"cleared", "result"} => goal'[<<l, t>>] \in Over
    BY DEF GoalInv
  <2>1. /\ l < loop \/ t < index[l] => Reached(l, t)
        /\ l > loop \/ t > index[l] => goal[<<l, t>>] = "none"
        /\ goal[<<l, t>>] = "none" => heard[<<l, t>>] = "nothing" /\ <<l, t>> \notin late
        /\ heard[<<l, t>>] \in {"cleared", "result"} => goal[<<l, t>>] \in Over
    BY DEF Positions, GoalInv
  <2>2. CASE l = loop /\ t = s
    <3>1. ~(l < loop) /\ ~(l > loop) /\ ~(t < index[l]) /\ ~(t > index[l])
      BY <1>a, <2>2, Numbers
    <3> QED BY <1>0, <1>1, <2>2, <3>1
  <2>3. CASE ~(l = loop /\ t = s)
    BY <1>1, <1>2, <2>1, <2>3
  <2> QED BY <2>2, <2>3
<1>4. TrackerInv'
  <2>1. \A l \in LoopIds : /\ l # loop => segment'[l] = segment[l]
                           /\ l = loop => segment'[l] = s
    BY <1>a DEF StartTracker, Typed
  <2> SUFFICES ASSUME NEW l \in LoopIds, segment'[l] # 0
               PROVE  /\ segment'[l] = index[l] /\ goal'[<<l, index[l]>>] # "none"
                      /\ heard[<<l, index[l]>>] \in {"nothing", "response"}
    BY DEF TrackerInv
  <2>2. CASE l = loop
    BY <1>0, <1>1, <1>a, <2>1, <2>2
  <2>3. CASE l # loop
    <3>1. /\ segment[l] = index[l] /\ segment[l] # 0 /\ goal[<<l, index[l]>>] # "none"
          /\ heard[<<l, index[l]>>] \in {"nothing", "response"}
      BY <2>1, <2>3 DEF Positions, TrackerInv
    <3>2. index[l] \in Segs
      <4>1. index[l] \in 0..Segments /\ index[l] # 0
        BY <3>1 DEF Typed
      <4>2. Segments \in Nat
        BY Numbers
      <4> QED BY <4>1, <4>2 DEF Segs
    <3> QED BY <1>1, <2>1, <2>3, <3>1, <3>2
  <2> QED BY <2>2, <2>3
<1>5. QueueInv'
  BY <1>2 DEF Positions, QueueInv
<1>6. goal'[<<loop, s>>] = "sent"
  BY <1>1, <1>a
<1>7. \A l \in LoopIds, t \in Segs : goal'[<<l, t>>] = goal[<<l, t>>] \/ (l = loop /\ t = s)
  BY <1>1
<1> QED BY <1>2, <1>3, <1>4, <1>5, <1>6, <1>7

LEMMA RunPositions == ASSUME Typed, Typed', Positions, Run PROVE Positions'
<1> USE Numbers DEF RunOnly, outsideVars, Return
<1>a. loop \in LoopIds /\ loop \in Nat
  BY DEF Typed
<1>1. CASE LoopHead \/ Install
  <2>1. UNCHANGED <<loop, core, index, sink, segment, queue, goal, heard, late, caller>>
    BY <1>1 DEF LoopHead, Install
  <2>2. GoalInv' /\ CoreInv' /\ TrackerInv' /\ QueueInv'
    BY <2>1 DEF Positions, GoalInv, CoreInv, TrackerInv, QueueInv, Reached
  <2>3. RunInv'
    BY <1>1, <1>a, <2>1 DEF LoopHead, Install, Positions, RunInv, CoreInv, Reached
  <2> QED BY <2>2, <2>3 DEF Positions
<1>2. CASE Start
  <2>1. UNCHANGED <<loop, sink, segment, queue, goal, heard, late, caller>>
    BY <1>2 DEF Start
  <2>2. CASE UNCHANGED <<core, index>>
    <3>1. GoalInv' /\ CoreInv' /\ TrackerInv' /\ QueueInv'
      BY <2>1, <2>2 DEF Positions, GoalInv, CoreInv, TrackerInv, QueueInv, Reached
    <3>2. RunInv'
      BY <1>2, <1>a, <2>1, <2>2 DEF Start, Positions, RunInv, Typed
    <3> QED BY <3>1, <3>2 DEF Positions
  <2>3. CASE /\ core[loop] = "IDLE" /\ pc' = "startTracker" /\ UNCHANGED <<verdict, current, future>>
             /\ core' = [core EXCEPT ![loop] = "RUNNING"] /\ index' = [index EXCEPT ![loop] = 1]
    <3>1. index[loop] = 0 /\ sink[loop] = "free"
      BY <2>3, <1>a DEF Positions, CoreInv, Typed
    <3>2. goal[<<loop, 1>>] = "none"
      BY <1>a, <3>1 DEF Positions, GoalInv
    <3>index. \A l \in LoopIds : /\ l # loop => index'[l] = index[l] /\ core'[l] = core[l]
                                 /\ l = loop => index'[l] = 1 /\ core'[l] = "RUNNING"
      BY <2>3, <1>a DEF Typed
    <3>3. GoalInv'
      <4> SUFFICES ASSUME NEW l \in LoopIds, NEW s \in Segs
                   PROVE  /\ l < loop \/ s < index'[l] => Reached(l, s)
                          /\ l > loop \/ s > index'[l] => goal[<<l, s>>] = "none"
        BY <2>1 DEF GoalInv, Positions, Reached
      <4>1. /\ l < loop \/ s < index[l] => Reached(l, s)
            /\ l > loop \/ s > index[l] => goal[<<l, s>>] = "none"
        BY DEF Positions, GoalInv
      <4>2. CASE l = loop
        <5>1. index'[l] = 1 /\ index[l] = 0
          BY <4>2, <3>index, <3>1
        <5>2. ~(l < loop) /\ ~(l > loop)
          BY <4>2, <1>a
        <5>3. s \in Nat /\ s # 0
          BY Numbers
        <5>4. ~(s < 1) /\ (s > 1 => s > 0)
          BY <5>3
        <5> QED BY <5>1, <5>2, <5>4, <4>1
      <4>3. CASE l # loop
        <5>1. index'[l] = index[l]
          BY <4>3, <3>index
        <5> QED BY <5>1, <4>1
      <4> QED BY <4>2, <4>3
    <3>4. CoreInv'
      <4> SUFFICES ASSUME NEW l \in LoopIds
                   PROVE  /\ l < loop => core'[l] \in Terminal
                          /\ l > loop => core'[l] = "IDLE"
                          /\ core'[l] = "IDLE" => index'[l] = 0 /\ queue[l] = <<>>
                          /\ core'[l] = "RUNNING" => index'[l] > 0
                          /\ core'[l] = "COMPLETED" => index'[l] = Segments /\ Reached(l, Segments)
                          /\ sink[l] = "starting" =>
                               /\ l = loop /\ index'[l] > 1 /\ goal[<<l, index'[l]>>] = "none"
                               /\ core'[l] \notin {"IDLE", "COMPLETED"}
        BY <2>1 DEF CoreInv, Reached
      <4>1. CASE l = loop
        BY <1>a, <3>index, <3>1, <4>1
      <4>2. CASE l # loop
        <5>1. core'[l] = core[l] /\ index'[l] = index[l]
          BY <4>2, <3>index
        <5> QED BY <5>1 DEF Positions, CoreInv
      <4> QED BY <4>1, <4>2
    <3>5. TrackerInv'
      <4>1. segment[loop] = 0
        BY <1>a, <3>1, <3>2 DEF Positions, TrackerInv
      <4> QED BY <2>1, <3>index, <4>1 DEF Positions, TrackerInv
    <3>6. QueueInv'
      BY <2>1 DEF Positions, QueueInv, Reached
    <3>7. RunInv'
      BY <1>2, <1>a, <2>1, <2>3, <3>1, <3>2 DEF Start, Positions, RunInv, Typed, Reached
    <3> QED BY <3>3, <3>4, <3>5, <3>6, <3>7 DEF Positions
  <2> QED BY <1>2, <2>2, <2>3 DEF Start
<1>3. CASE StartFirst
  <2>1. /\ core[loop] # "IDLE" /\ index[loop] = 1 /\ goal[<<loop, 1>>] = "none" /\ sink[loop] = "free"
        /\ current = loop /\ future = loop /\ verdict = "none"
        /\ UNCHANGED <<loop, core, index, sink, queue, heard, late, caller>>
    BY <1>3 DEF StartFirst, Positions, RunInv
  <2>2. CASE UNCHANGED <<segment, goal>>
    <3>1. GoalInv' /\ CoreInv' /\ TrackerInv' /\ QueueInv'
      BY <2>1, <2>2 DEF Positions, GoalInv, CoreInv, TrackerInv, QueueInv, Reached
    <3>2. RunInv'
      BY <1>3, <1>a, <2>1, <2>2 DEF StartFirst, Positions, RunInv
    <3> QED BY <3>1, <3>2 DEF Positions
  <2>3. CASE StartTracker(loop, 1) /\ pc' = "await" /\ UNCHANGED <<verdict, current, future>>
    <3>0. core[loop] # "COMPLETED"
      BY <1>a, <2>1 DEF Positions, CoreInv, Reached
    <3>1. /\ GoalInv' /\ TrackerInv' /\ QueueInv' /\ goal'[<<loop, 1>>] = "sent"
          /\ \A l \in LoopIds, t \in Segs : goal'[<<l, t>>] = goal[<<l, t>>] \/ (l = loop /\ t = 1)
          /\ \A l \in LoopIds, t \in Segs : Reached(l, t) => Reached(l, t)'
      BY <2>1, <2>3, <3>0, StartedGoal
    <3>2. CoreInv'
      BY <1>a, <2>1, <3>0, <3>1 DEF Positions, CoreInv, Typed
    <3>3. RunInv'
      BY <1>3, <1>a, <2>1, <2>3, <3>0 DEF StartFirst, Positions, RunInv
    <3> QED BY <3>1, <3>2, <3>3 DEF Positions
  <2> QED BY <1>3, <2>2, <2>3 DEF StartFirst
<1>4. CASE Woken
  <2>1. /\ UNCHANGED <<core, index, sink, segment, queue, goal, heard, late, caller>>
        /\ current' = 0 /\ future' = 0 /\ pc = "await"
    BY <1>4 DEF Woken
  <2>2. CASE core[loop] = "COMPLETED" /\ ~canceled
    <3>1. \A s \in Segs : Reached(loop, s)
      <4>1. index[loop] = Segments /\ Reached(loop, Segments)
        BY <2>2, <1>a DEF Positions, CoreInv
      <4>2. \A s \in Segs : s < Segments \/ s = Segments
        BY DEF Segs
      <4> QED BY <1>a, <4>1, <4>2 DEF Positions, GoalInv
    <3>2. CASE loop < Loops /\ loop' = loop + 1 /\ pc' = "head" /\ UNCHANGED verdict
      <4>1. loop + 1 \in LoopIds /\ \A l \in LoopIds : l < loop + 1 <=> l < loop \/ l = loop
        BY <1>a, <3>2 DEF LoopIds
      <4>2. GoalInv'
        <5> SUFFICES ASSUME NEW l \in LoopIds, NEW s \in Segs
                     PROVE  /\ l < loop + 1 \/ s < index[l] => Reached(l, s)
                            /\ l > loop + 1 \/ s > index[l] => goal[<<l, s>>] = "none"
          <6>1. \A l \in LoopIds, s \in Segs :
                  /\ goal[<<l, s>>] = "none" => heard[<<l, s>>] = "nothing" /\ <<l, s>> \notin late
                  /\ heard[<<l, s>>] \in {"cleared", "result"} => goal[<<l, s>>] \in Over
            BY DEF GoalInv, Positions
          <6> QED BY <2>1, <3>2, <6>1 DEF GoalInv, Reached
        <5>1. /\ l < loop \/ s < index[l] => Reached(l, s)
              /\ l > loop \/ s > index[l] => goal[<<l, s>>] = "none"
          BY DEF Positions, GoalInv
        <5>2. l > loop + 1 => l > loop
          BY <1>a
        <5> QED BY <3>1, <4>1, <5>1, <5>2
      <4>3. CoreInv'
        BY <1>a, <2>1, <2>2, <3>2, <4>1 DEF Positions, CoreInv, Reached, Terminal
      <4>4. TrackerInv' /\ QueueInv'
        BY <2>1 DEF Positions, TrackerInv, QueueInv, Reached
      <4>5. RunInv'
        <5>1. core[loop + 1] = "IDLE"
          BY <1>a, <4>1 DEF Positions, CoreInv
        <5>2. \A c \in Callers : caller[c][2] <= loop + 1 /\ caller[c][2] < loop + 1
          <6>1. \A c \in Callers : caller[c][2] <= loop /\ caller[c][2] \in 0..Loops
            BY DEF Positions, RunInv, Typed
          <6> QED BY <1>a, <6>1
        <5>3. verdict' = "none"
          BY <2>1, <3>2 DEF Positions, RunInv
        <5> QED BY <2>1, <3>2, <5>1, <5>2, <5>3 DEF RunInv
      <4> QED BY <4>2, <4>3, <4>4, <4>5 DEF Positions
    <3>3. CASE loop = Loops /\ pc' = "done" /\ verdict' = "success" /\ UNCHANGED loop
      <4>1. GoalInv' /\ CoreInv' /\ TrackerInv' /\ QueueInv'
        BY <2>1, <3>3 DEF Positions, GoalInv, CoreInv, TrackerInv, QueueInv, Reached, Terminal
      <4>2. RunInv'
        BY <1>a, <2>1, <3>1, <3>3 DEF Positions, RunInv, Reached
      <4> QED BY <4>1, <4>2 DEF Positions
    <3> QED BY <1>4, <2>2, <3>2, <3>3 DEF Woken
  <2>3. CASE core[loop] # "COMPLETED" \/ canceled
    <3>1. pc' = "done" /\ verdict' \in {"canceled", "failed"} /\ UNCHANGED loop
      BY <1>4, <2>3 DEF Woken
    <3>2. GoalInv' /\ CoreInv' /\ TrackerInv' /\ QueueInv'
      BY <2>1, <3>1 DEF Positions, GoalInv, CoreInv, TrackerInv, QueueInv, Reached
    <3>3. RunInv'
      BY <1>a, <2>1, <3>1 DEF Positions, RunInv
    <3> QED BY <3>2, <3>3 DEF Positions
  <2> QED BY <2>2, <2>3
<1> QED BY <1>1, <1>2, <1>3, <1>4 DEF Run

LEMMA StopMoves ==
  ASSUME Typed, NEW l \in LoopIds, FailCore(l)
  PROVE  /\ GoalsMove
         /\ \A k \in LoopIds : core'[k] = core[k] \/ (k = l /\ core'[k] = "FAILED")
<1>1. CASE UNCHANGED <<core, goal>>
  BY <1>1 DEF GoalsMove
<1>2. CASE StopTracker(l) /\ core' = [core EXCEPT ![l] = "FAILED"]
  BY <1>2, StopTrackerMoves DEF Typed
<1> QED BY <1>1, <1>2 DEF FailCore

LEMMA HasBegun ==
  ASSUME Typed, Positions, NEW l \in LoopIds, core[l] # "IDLE"
  PROVE  l <= loop /\ (l = loop => pc \notin {"head", "install"})
<1>1. loop \in LoopIds /\ loop \in Nat /\ l \in Nat
  BY Numbers DEF Typed
<1>2. ~(l > loop)
  BY <1>1 DEF Positions, CoreInv
<1>3. l = loop => pc \notin {"head", "install"}
  BY DEF Positions, RunInv
<1> QED BY <1>1, <1>2, <1>3

(* The success of the segment that is driven.                              *)
LEMMA SuccessHeard ==
  ASSUME Typed, Positions, NEW l \in LoopIds, Take(l, "SUCCEEDED"), Expected(l)
  PROVE  /\ l = loop /\ index[l] \in Segs /\ Reached(l, index[l]) /\ core[l] = "RUNNING"
         /\ pc \notin {"head", "install", "start", "startTracker"} /\ segment[l] = 0 /\ sink[l] = "free"
<1>1. /\ queue[l] \in Seq(Event) /\ queue[l] # <<>> /\ Head(queue[l]).status = "SUCCEEDED"
      /\ Head(queue[l]).segment = index[l] /\ core[l] = "RUNNING" /\ sink[l] = "free"
  BY DEF Take, Expected, Typed
<1>2. Head(queue[l]) = queue[l][1] /\ 1 \in 1..Len(queue[l])
  BY <1>1, LenProperties, EmptySeq
<1>3. index[l] \in Segs /\ Reached(l, index[l])
  BY <1>1, <1>2 DEF Positions, QueueInv
<1>4. l = loop
  <2>1. loop \in Nat /\ l \in Nat
    BY Numbers DEF Typed
  <2>2. ~(l < loop) /\ ~(l > loop)
    BY <1>1 DEF Positions, CoreInv, Terminal
  <2> QED BY <2>1, <2>2
<1>5. pc \notin {"head", "install", "start", "startTracker"}
  BY <1>1, <1>3, <1>4 DEF Positions, RunInv, Reached
<1>6. segment[l] = 0
  BY <1>3 DEF Positions, TrackerInv, Reached
<1> QED BY <1>1, <1>3, <1>4, <1>5, <1>6

LEMMA DispatcherPositions ==
  ASSUME Typed, Typed', Positions, NEW l \in LoopIds, Dispatcher(l)
  PROVE  Positions'
<1>frame. UNCHANGED <<pc, loop, verdict, current, future, heard, late, caller>>
  BY DEF Dispatcher, DispatchUnexpected, DispatchRunning, DispatchFailed, DispatchSucceeded, StartNext,
         SinkOnly, runVars, outsideVars
<1>a. loop \in LoopIds /\ loop \in Nat /\ l \in Nat
  BY Numbers DEF Typed
<1>callers. \A c \in Callers : caller'[c][2] \in {0, current, caller[c][2]}
  BY <1>frame
<1>late. \A k \in LoopIds, s \in Segs : <<k, s>> \in late' => <<k, s>> \in late
  BY <1>frame
<1>begun. core[l] # "IDLE"
  <2>1. CASE sink[l] = "starting"
    BY <2>1 DEF Positions, CoreInv
  <2>2. CASE queue[l] # <<>>
    BY <2>2 DEF Positions, CoreInv
  <2> QED BY <2>1, <2>2 DEF Dispatcher, DispatchUnexpected, DispatchRunning, DispatchFailed,
            DispatchSucceeded, StartNext, Take
<1>here. l <= loop /\ (l = loop => pc \notin {"head", "install"})
  BY <1>begun, HasBegun
<1>others. \A k \in LoopIds : k # l => queue'[k] = queue[k]
  BY DEF Dispatcher, DispatchUnexpected, DispatchRunning, DispatchFailed, DispatchSucceeded, StartNext,
         Take, Typed
<1>1. CASE DispatchUnexpected(l)
  <2>1. PICK status : Take(l, status)
    BY <1>1 DEF DispatchUnexpected
  <2>2. FailCore(l) /\ UNCHANGED <<index, segment, sink>>
    BY <1>1 DEF DispatchUnexpected, SinkRaises
  <2>3. GoalsMove /\ \A k \in LoopIds : core'[k] = core[k] \/ (k = l /\ core'[k] = "FAILED")
    BY <2>2, StopMoves
  <2>4. \A k \in LoopIds, s \in Segs : Reached(k, s) => Reached(k, s)'
    BY <1>frame, <1>late, <2>2, <2>3, GoalsMoved
  <2>5. QueueInv'
    BY <2>1, <2>4, TakenQueue DEF Positions
  <2>6. \A k \in LoopIds : core'[k] = "IDLE" => queue'[k] = <<>>
    BY <1>begun, <1>others, <2>3 DEF Positions, CoreInv
  <2> QED BY <1>frame, <1>late, <1>callers, <1>here, <2>2, <2>3, <2>5, <2>6, Settled
<1>2. CASE DispatchRunning(l) \/ DispatchFailed(l)
  <2>1. PICK status : Take(l, status)
    BY <1>2 DEF DispatchRunning, DispatchFailed
  <2>2. UNCHANGED <<index, segment, sink, goal>>
    BY <1>2 DEF DispatchRunning, DispatchFailed, trackerVars
  <2>3. GoalsMove /\ \A k \in LoopIds : core'[k] = core[k] \/ (k = l /\ core'[k] = "FAILED")
    BY <1>2, <2>2 DEF DispatchRunning, DispatchFailed, GoalsMove, Typed
  <2>5. QueueInv'
    BY <1>frame, <2>1, <2>2, TakenQueue DEF Positions, Reached
  <2>6. \A k \in LoopIds : core'[k] = "IDLE" => queue'[k] = <<>>
    BY <1>begun, <1>others, <2>3 DEF Positions, CoreInv
  <2> QED BY <1>frame, <1>late, <1>callers, <1>here, <2>2, <2>3, <2>5, <2>6, Settled
<1>3. CASE DispatchSucceeded(l)
  <2>1. Take(l, "SUCCEEDED") /\ Expected(l)
    BY <1>3 DEF DispatchSucceeded
  <2>2. /\ l = loop /\ index[l] \in Segs /\ Reached(l, index[l]) /\ core[l] = "RUNNING"
        /\ pc \notin {"head", "install", "start", "startTracker"} /\ segment[l] = 0 /\ sink[l] = "free"
    BY <2>1, SuccessHeard
  <2>3. CASE SinkRaises(l) /\ UNCHANGED sink
    <3>1. GoalsMove /\ \A k \in LoopIds : core'[k] = core[k] \/ (k = l /\ core'[k] = "FAILED")
      BY <2>3, StopMoves DEF SinkRaises
    <3>2. UNCHANGED <<index, segment, sink>>
      BY <2>3 DEF SinkRaises
    <3>3. \A k \in LoopIds, s \in Segs : Reached(k, s) => Reached(k, s)'
      BY <1>frame, <1>late, <3>1, <3>2, GoalsMoved
    <3>4. QueueInv'
      BY <2>1, <3>3, TakenQueue DEF Positions
    <3>5. \A k \in LoopIds : core'[k] = "IDLE" => queue'[k] = <<>>
      BY <1>begun, <1>others, <3>1 DEF Positions, CoreInv
    <3> QED BY <1>frame, <1>late, <1>callers, <1>here, <3>1, <3>2, <3>4, <3>5, Settled
  <2>4. CASE UNCHANGED goal
    <3>1. QueueInv'
      BY <1>frame, <2>1, <2>4, TakenQueue DEF Positions, Reached
    <3>2. CASE /\ index[l] = Segments /\ core' = [core EXCEPT ![l] = "COMPLETED"]
               /\ UNCHANGED <<index, sink, segment>>
      <4>1. GoalInv' /\ TrackerInv'
        BY <1>frame, <2>4, <3>2 DEF Positions, GoalInv, TrackerInv, Reached
      <4>2. CoreInv'
        <5>1. /\ core'[l] = "COMPLETED" /\ index'[l] = Segments /\ Reached(l, Segments)'
              /\ sink'[l] = "free" /\ ~(l < loop) /\ ~(l > loop)
          BY <1>frame, <1>a, <2>2, <2>4, <3>2 DEF Typed, Reached
        <5>2. \A k \in LoopIds : k # l => core'[k] = core[k] /\ queue'[k] = queue[k]
          BY <1>others, <3>2 DEF Typed
        <5> SUFFICES ASSUME NEW k \in LoopIds
                     PROVE  /\ k < loop => core'[k] \in Terminal
                            /\ k > loop => core'[k] = "IDLE"
                            /\ core'[k] = "IDLE" => index[k] = 0 /\ queue'[k] = <<>>
                            /\ core'[k] = "RUNNING" => index[k] > 0
                            /\ core'[k] = "COMPLETED" => index[k] = Segments /\ Reached(k, Segments)'
                            /\ sink[k] = "starting" =>
                                 /\ k = loop /\ index[k] > 1 /\ goal[<<k, index[k]>>] = "none"
                                 /\ core'[k] \notin {"IDLE", "COMPLETED"}
          BY <1>frame, <2>4, <3>2 DEF CoreInv
        <5>4. CASE k = l
          BY <2>2, <3>2, <5>1, <5>4
        <5>5. CASE k # l
          BY <1>frame, <2>4, <5>2, <5>5 DEF Positions, CoreInv, Reached
        <5> QED BY <5>4, <5>5
      <4>3. RunInv'
        BY <1>frame, <1>a, <2>2, <2>4, <3>2 DEF Positions, RunInv, Reached
      <4> QED BY <3>1, <4>1, <4>2, <4>3 DEF Positions
    <3>3. CASE /\ index[l] < Segments /\ index' = [index EXCEPT ![l] = @ + 1]
               /\ sink' = [sink EXCEPT ![l] = "starting"] /\ UNCHANGED <<core, segment>>
      <4>0. index[l] + 1 \in Segs /\ index[l] \in Nat /\ index[l] > 0
        BY <2>2, <3>3, Numbers DEF Segs
      <4>index. \A k \in LoopIds :
                  /\ k # l => index'[k] = index[k] /\ sink'[k] = sink[k]
                  /\ k = l => index'[k] = index[l] + 1 /\ sink'[k] = "starting"
        BY <3>3 DEF Typed
      <4>1. GoalInv'
        <5> SUFFICES ASSUME NEW k \in LoopIds, NEW s \in Segs
                     PROVE  /\ k < loop \/ s < index'[k] => Reached(k, s)
                            /\ k > loop \/ s > index'[k] => goal[<<k, s>>] = "none"
          BY <1>frame, <2>4 DEF GoalInv, Positions, Reached
        <5>1. /\ k < loop \/ s < index[k] => Reached(k, s)
              /\ k > loop \/ s > index[k] => goal[<<k, s>>] = "none"
          BY DEF Positions, GoalInv
        <5>2. CASE k = l
          <6>1. s < index[l] + 1 => s < index[l] \/ s = index[l]
            BY <4>0, Numbers
          <6>2. s > index[l] + 1 => s > index[l]
            BY <4>0, Numbers
          <6> QED BY <4>index, <5>1, <5>2, <6>1, <6>2, <2>2, <1>a
        <5>3. CASE k # l
          BY <4>index, <5>1, <5>3
        <5> QED BY <5>2, <5>3
      <4>2. CoreInv'
        <5>1. goal[<<l, index[l] + 1>>] = "none"
          BY <4>0 DEF Positions, GoalInv
        <5>2. core'[l] = "RUNNING" /\ \A k \in LoopIds : core'[k] = core[k]
          BY <2>2, <3>3
        <5> SUFFICES ASSUME NEW k \in LoopIds
                     PROVE  /\ k < loop => core[k] \in Terminal
                            /\ k > loop => core[k] = "IDLE"
                            /\ core[k] = "IDLE" => index'[k] = 0 /\ queue'[k] = <<>>
                            /\ core[k] = "RUNNING" => index'[k] > 0
                            /\ core[k] = "COMPLETED" => index'[k] = Segments /\ Reached(k, Segments)
                            /\ sink'[k] = "starting" =>
                                 /\ k = loop /\ index'[k] > 1 /\ goal[<<k, index'[k]>>] = "none"
                                 /\ core[k] \notin {"IDLE", "COMPLETED"}
          BY <1>frame, <2>4, <3>3 DEF CoreInv, Reached
        <5>3. CASE k = l
          BY <1>a, <2>2, <4>0, <4>index, <5>1, <5>3
        <5>4. CASE k # l
          <6>1. index'[k] = index[k] /\ sink'[k] = sink[k] /\ queue'[k] = queue[k]
            BY <1>others, <4>index, <5>4
          <6> QED BY <6>1 DEF Positions, CoreInv
        <5> QED BY <5>3, <5>4
      <4>3. TrackerInv'
        BY <1>frame, <2>2, <2>4, <3>3, <4>index DEF Positions, TrackerInv
      <4>4. RunInv'
        BY <1>frame, <1>a, <2>2, <2>4, <3>3 DEF Positions, RunInv, Reached
      <4> QED BY <3>1, <4>1, <4>2, <4>3, <4>4 DEF Positions
    <3> QED BY <1>3, <2>3, <2>4, <3>2, <3>3 DEF DispatchSucceeded
  <2> QED BY <1>3, <2>3, <2>4 DEF DispatchSucceeded
<1>4. CASE StartNext(l)
  <2>1. /\ sink[l] = "starting" /\ sink' = [sink EXCEPT ![l] = "free"] /\ UNCHANGED <<queue, index>>
    BY <1>4 DEF StartNext, SinkRaises
  <2>2. /\ l = loop /\ index[l] \in Segs /\ index[l] > 1 /\ goal[<<l, index[l]>>] = "none"
        /\ core[l] \notin {"IDLE", "COMPLETED"}
    BY <2>1 DEF Positions, CoreInv, Typed, Segs
  <2>sink. \A k \in LoopIds : /\ k # l => sink'[k] = sink[k]
                              /\ k = l => sink'[k] = "free"
    BY <2>1 DEF Typed
  <2>3. CASE StartTracker(l, index[l]) /\ UNCHANGED core
    <3>1. /\ GoalInv' /\ TrackerInv' /\ QueueInv' /\ goal'[<<loop, index[l]>>] = "sent"
          /\ \A k \in LoopIds, t \in Segs :
               goal'[<<k, t>>] = goal[<<k, t>>] \/ (k = loop /\ t = index[l])
          /\ \A k \in LoopIds, t \in Segs : Reached(k, t) => Reached(k, t)'
      BY <1>frame, <2>1, <2>2, <2>3, StartedGoal
    <3>2. CoreInv'
      <4> SUFFICES ASSUME NEW k \in LoopIds
                   PROVE  /\ k < loop => core[k] \in Terminal
                          /\ k > loop => core[k] = "IDLE"
                          /\ core[k] = "IDLE" => index[k] = 0 /\ queue[k] = <<>>
                          /\ core[k] = "RUNNING" => index[k] > 0
                          /\ core[k] = "COMPLETED" => index[k] = Segments /\ Reached(k, Segments)'
                          /\ sink'[k] # "starting"
        BY <1>frame, <2>1, <2>3 DEF CoreInv
      <4>1. sink[k] = "starting" => k = l
        BY <2>2 DEF Positions, CoreInv
      <4>2. sink'[k] # "starting"
        BY <4>1, <2>sink DEF Typed
      <4> QED BY <3>1, <4>2, Numbers DEF Positions, CoreInv
    <3>3. RunInv'
      BY <1>frame, <1>a, <2>1, <2>2, <2>3, <2>sink, <3>1 DEF Positions, RunInv
    <3> QED BY <3>1, <3>2, <3>3 DEF Positions
  <2>4. CASE SinkRaises(l)
    <3>1. GoalsMove /\ \A k \in LoopIds : core'[k] = core[k] \/ (k = l /\ core'[k] = "FAILED")
      BY <2>4, StopMoves DEF SinkRaises
    <3>2. UNCHANGED segment
      BY <2>4 DEF SinkRaises
    <3>3. QueueInv'
      <4>1. \A k \in LoopIds, s \in Segs : Reached(k, s) => Reached(k, s)'
        BY <1>frame, <1>late, <2>1, <3>1, <3>2, GoalsMoved
      <4> QED BY <2>1, <4>1 DEF Positions, QueueInv
    <3>4. \A k \in LoopIds : core'[k] = "IDLE" => queue'[k] = <<>>
      BY <1>begun, <2>1, <3>1 DEF Positions, CoreInv
    <3> QED BY <1>frame, <1>late, <1>callers, <1>here, <2>1, <2>sink, <3>1, <3>2, <3>3, <3>4, Settled
  <2> QED BY <1>4, <2>3, <2>4 DEF StartNext
<1> QED BY <1>1, <1>2, <1>3, <1>4 DEF Dispatcher

(* The adapter hears of a goal that was sent.                              *)
LEMMA HeardMore ==
  ASSUME Typed, Typed', Positions, GoalsMove, NEW l \in LoopIds, NEW s \in Segs,
         NEW h \in {"response", "cleared", "result"}, heard' = [heard EXCEPT ![<<l, s>>] = h],
         heard[<<l, s>>] # "result", goal[<<l, s>>] # "none",
         h \in {"cleared", "result"} => goal'[<<l, s>>] \in Over,
         segment'[l] # 0 =>
           segment'[l] = segment[l] /\ (s = index[l] => h = "response"),
         \A k \in LoopIds : k # l => segment'[k] = segment[k],
         UNCHANGED <<pc, loop, verdict, current, future, index, core, sink, late, caller>>
  PROVE  /\ GoalInv' /\ TrackerInv' /\ RunInv'
         /\ \A k \in LoopIds, t \in Segs : Reached(k, t) => Reached(k, t)'
         /\ QueueInv' /\ (\A k \in LoopIds : core[k] = "IDLE" => queue'[k] = <<>>) => Positions'
<1>1. \A k \in LoopIds, t \in Segs :
        /\ k = l /\ t = s => heard'[<<k, t>>] = h
        /\ ~(k = l /\ t = s) => heard'[<<k, t>>] = heard[<<k, t>>]
  BY DEF Typed
<1>2. \A k \in LoopIds, t \in Segs : Reached(k, t) => Reached(k, t)'
  BY <1>1 DEF Reached, GoalsMove
<1>3. GoalInv'
  <2> SUFFICES ASSUME NEW k \in LoopIds, NEW t \in Segs
               PROVE  /\ k < loop \/ t < index[k] => Reached(k, t)'
                      /\ k > loop \/ t > index[k] => goal'[<<k, t>>] = "none"
                      /\ goal'[<<k, t>>] = "none" => heard'[<<k, t>>] = "nothing" /\ <<k, t>> \notin late
                      /\ heard'[<<k, t>>] \in {"cleared", "result"} => goal'[<<k, t>>] \in Over
    BY DEF GoalInv
  <2>1. /\ k < loop \/ t < index[k] => Reached(k, t)
        /\ k > loop \/ t > index[k] => goal[<<k, t>>] = "none"
        /\ goal[<<k, t>>] = "none" => heard[<<k, t>>] = "nothing" /\ <<k, t>> \notin late
        /\ heard[<<k, t>>] \in {"cleared", "result"} => goal[<<k, t>>] \in Over
    BY DEF Positions, GoalInv
  <2>2. \/ goal'[<<k, t>>] = goal[<<k, t>>]
        \/ goal[<<k, t>>] \in {"sent", "tracking", "stopping"} /\ goal'[<<k, t>>] # "none"
    BY DEF GoalsMove
  <2>3. CASE k = l /\ t = s
    BY <1>1, <1>2, <2>1, <2>2, <2>3
  <2>4. CASE ~(k = l /\ t = s)
    BY <1>1, <1>2, <2>1, <2>2, <2>4 DEF Over
  <2> QED BY <2>3, <2>4
<1>4. TrackerInv'
  <2> SUFFICES ASSUME NEW k \in LoopIds, segment'[k] # 0
               PROVE  /\ segment'[k] = index[k] /\ goal'[<<k, index[k]>>] # "none"
                      /\ heard'[<<k, index[k]>>] \in {"nothing", "response"}
    BY DEF TrackerInv
  <2>1. segment'[k] = segment[k]
    OBVIOUS
  <2>2. /\ segment[k] = index[k] /\ goal[<<k, index[k]>>] # "none"
        /\ heard[<<k, index[k]>>] \in {"nothing", "response"}
    BY <2>1 DEF Positions, TrackerInv
  <2>3. index[k] \in Segs
    <3>1. index[k] \in 0..Segments /\ index[k] # 0
      BY <2>1, <2>2 DEF Typed
    <3> QED BY <3>1, Numbers DEF Segs
  <2>4. goal'[<<k, index[k]>>] # "none"
    BY <2>2, <2>3 DEF GoalsMove
  <2> QED BY <1>1, <2>1, <2>2, <2>3, <2>4
<1>5. RunInv'
  <2>1. loop \in LoopIds
    BY DEF Typed
  <2>2. pc = "startTracker" => goal'[<<loop, 1>>] = "none"
    BY <2>1, Numbers DEF Positions, RunInv, GoalsMove
  <2> QED BY <1>2, <2>1, <2>2 DEF Positions, RunInv
<1>6. ASSUME QueueInv', \A k \in LoopIds : core[k] = "IDLE" => queue'[k] = <<>> PROVE CoreInv'
  <2> SUFFICES ASSUME NEW k \in LoopIds
               PROVE  /\ core[k] = "COMPLETED" => index[k] = Segments /\ Reached(k, Segments)'
                      /\ sink[k] = "starting" => goal'[<<k, index[k]>>] = "none"
    BY <1>6 DEF Positions, CoreInv
  <2>1. core[k] = "COMPLETED" => index[k] = Segments /\ Reached(k, Segments)'
    BY <1>2, Numbers DEF Positions, CoreInv
  <2>2. sink[k] = "starting" => index[k] \in Segs /\ goal[<<k, index[k]>>] = "none"
    <3>1. index[k] \in 0..Segments
      BY DEF Typed
    <3> QED BY <3>1, Numbers DEF Positions, CoreInv, Segs
  <2> QED BY <2>1, <2>2 DEF GoalsMove
<1> QED BY <1>2, <1>3, <1>4, <1>5, <1>6 DEF Positions

LEMMA SentHasBegun ==
  ASSUME Typed, Positions, NEW l \in LoopIds, NEW s \in Segs, goal[<<l, s>>] # "none"
  PROVE  core[l] # "IDLE"
<1>1. ~(s > index[l]) /\ s \in Nat /\ s # 0
  BY Numbers DEF Positions, GoalInv
<1>2. index[l] # 0
  BY <1>1
<1> QED BY <1>2 DEF Positions, CoreInv

LEMMA AdapterPositions ==
  ASSUME Typed, Typed', Positions, NEW l \in LoopIds, NEW s \in Segs, Adapter(l, s)
  PROVE  Positions'
<1>frame. UNCHANGED <<pc, loop, verdict, current, future, index, core, sink, late, caller>>
  BY DEF Adapter, GoalResponse, ResultClears, ResultEmits, AdapterOnly, runVars, coreVars, outsideVars
<1>cleared. ClearActive(l) => segment'[l] = 0 /\ \A k \in LoopIds : k # l => segment'[k] = segment[k]
  BY DEF ClearActive, Typed
<1>1. CASE GoalResponse(l, s)
  <2>1. heard[<<l, s>>] = "nothing" /\ goal[<<l, s>>] # "none" /\ UNCHANGED queue
    BY <1>1 DEF GoalResponse
  <2>2. CASE goal[<<l, s>>] = "rejected" /\ ClearActive(l) /\ UNCHANGED goal
             /\ heard' = [heard EXCEPT ![<<l, s>>] = "cleared"]
    BY <1>frame, <1>cleared, <2>1, <2>2, HeardMore DEF GoalsMove, Over, Positions, QueueInv, CoreInv
  <2>3. CASE /\ heard' = [heard EXCEPT ![<<l, s>>] = "response"] /\ UNCHANGED segment
             /\ \/ UNCHANGED goal
                \/ goal[<<l, s>>] = "tracking" /\ goal' = [goal EXCEPT ![<<l, s>>] = "stopping"]
    <3>1. GoalsMove
      BY <2>3 DEF GoalsMove, Typed
    <3>2. \A k \in LoopIds, t \in Segs : Reached(k, t) => Reached(k, t)'
      BY <1>frame, <2>1, <2>3, <3>1, HeardMore
    <3>3. QueueInv' /\ \A k \in LoopIds : core[k] = "IDLE" => queue'[k] = <<>>
      BY <2>1, <3>2 DEF Positions, QueueInv, CoreInv
    <3> QED BY <1>frame, <2>1, <2>3, <3>1, <3>3, HeardMore
  <2> QED BY <1>1, <2>2, <2>3 DEF GoalResponse
<1>2. CASE ResultClears(l, s)
  <2>1. /\ heard[<<l, s>>] = "response" /\ goal[<<l, s>>] \in Over /\ ClearActive(l)
        /\ heard' = [heard EXCEPT ![<<l, s>>] = "cleared"] /\ UNCHANGED <<queue, goal>>
    BY <1>2 DEF ResultClears
  <2>2. GoalsMove /\ goal[<<l, s>>] # "none"
    BY <2>1 DEF GoalsMove, Over
  <2>3. \A k \in LoopIds, t \in Segs : Reached(k, t) => Reached(k, t)'
    BY <1>frame, <1>cleared, <2>1, <2>2, HeardMore
  <2>4. QueueInv' /\ \A k \in LoopIds : core[k] = "IDLE" => queue'[k] = <<>>
    BY <2>1, <2>3 DEF Positions, QueueInv, CoreInv
  <2> QED BY <1>frame, <1>cleared, <2>1, <2>2, <2>4, HeardMore
<1>3. CASE ResultEmits(l, s)
  <2> DEFINE status == IF goal[<<l, s>>] = "succeeded" THEN "SUCCEEDED" ELSE "FAILED"
  <2>1. /\ heard[<<l, s>>] = "cleared" /\ heard' = [heard EXCEPT ![<<l, s>>] = "result"]
        /\ Emit(l, status, s) /\ UNCHANGED <<segment, goal>>
    BY <1>3 DEF ResultEmits, trackerVars
  <2>2. goal[<<l, s>>] \in Over /\ goal[<<l, s>>] # "none" /\ GoalsMove
    BY <2>1 DEF Positions, GoalInv, GoalsMove, Over
  <2>3. segment[l] # 0 => s # index[l]
    BY <2>1 DEF Positions, TrackerInv
  <2>4. /\ \A k \in LoopIds, t \in Segs : Reached(k, t) => Reached(k, t)'
        /\ QueueInv' /\ (\A k \in LoopIds : core[k] = "IDLE" => queue'[k] = <<>>) => Positions'
    BY <1>frame, <2>1, <2>2, <2>3, HeardMore
  <2>5. status = "SUCCEEDED" => Reached(l, s)'
    BY <2>1 DEF Reached, Typed
  <2>6. QueueInv'
    BY <2>1, <2>4, <2>5, Numbers, EmittedQueue DEF Positions
  <2>7. \A k \in LoopIds : core[k] = "IDLE" => queue'[k] = <<>>
    <3>1. core[l] # "IDLE" /\ \A k \in LoopIds : k # l => queue'[k] = queue[k]
      BY <2>1, <2>2, SentHasBegun DEF Emit, Typed
    <3> QED BY <3>1 DEF Positions, CoreInv
  <2> QED BY <2>4, <2>6, <2>7
<1> QED BY <1>1, <1>2, <1>3 DEF Adapter

LEMMA NavPositions ==
  ASSUME Typed, Typed', Positions, NEW l \in LoopIds, NEW s \in Segs,
         FeedbackCallback(l, s) \/ Server(l, s) \/ TrackingFault(l, s) \/ FeedbackTaken(l, s)
  PROVE  Positions'
<1>frame. UNCHANGED <<pc, loop, verdict, current, future, index, segment, heard, core, sink, caller>>
  BY DEF FeedbackCallback, Server, Track, Arrive, Stopped, TrackingFault, FeedbackTaken, ServerOnly,
         runVars, coreVars, trackerVars, outsideVars
<1>1. GoalsMove
  <2>1. CASE UNCHANGED goal
    BY <2>1 DEF GoalsMove
  <2>2. ASSUME NEW v \in {"tracking", "succeeded", "failed", "rejected"},
               goal[<<l, s>>] \in {"sent", "tracking", "stopping"}, goal' = [goal EXCEPT ![<<l, s>>] = v]
        PROVE  GoalsMove
    <3>1. \A k \in LoopIds, t \in Segs :
            goal'[<<k, t>>] = IF <<k, t>> = <<l, s>> THEN v ELSE goal[<<k, t>>]
      BY <2>2 DEF Typed
    <3>2. v # "none"
      OBVIOUS
    <3> QED BY <2>2, <3>1, <3>2 DEF GoalsMove
  <2>3. CASE Track(l, s)
    BY <2>2, <2>3 DEF Track
  <2>4. CASE Arrive(l, s)
    BY <2>2, <2>4 DEF Arrive
  <2>5. CASE Stopped(l, s)
    BY <2>2, <2>5 DEF Stopped
  <2>6. CASE TrackingFault(l, s)
    BY <2>2, <2>6 DEF TrackingFault
  <2>7. CASE FeedbackCallback(l, s) \/ FeedbackTaken(l, s)
    BY <2>1, <2>7 DEF FeedbackCallback, FeedbackTaken
  <2> QED BY <2>3, <2>4, <2>5, <2>6, <2>7 DEF Server
<1>2. \A k \in LoopIds, t \in Segs : <<k, t>> \in late' => <<k, t>> \in late \/ goal'[<<k, t>>] # "none"
  BY DEF FeedbackCallback, Server, Track, Arrive, Stopped, TrackingFault, FeedbackTaken
<1>3. \A k \in LoopIds, t \in Segs : Reached(k, t) => Reached(k, t)'
  BY <1>frame, <1>1, <1>2, GoalsMoved
<1>4. QueueInv' /\ \A k \in LoopIds : core[k] = "IDLE" => queue'[k] = <<>>
  <2>1. CASE UNCHANGED queue
    BY <1>3, <2>1 DEF Positions, QueueInv, CoreInv
  <2>2. CASE FeedbackCallback(l, s)
    <3>1. Emit(l, "RUNNING", segment[l]) /\ segment[l] \in 0..Segments /\ goal[<<l, s>>] # "none"
      BY <2>2 DEF FeedbackCallback, Typed, Positions, GoalInv
    <3>2. QueueInv'
      BY <1>3, <3>1, EmittedQueue DEF Positions
    <3>3. core[l] # "IDLE"
      BY <3>1, SentHasBegun
    <3>4. \A k \in LoopIds : k # l => queue'[k] = queue[k]
      BY <3>1 DEF Emit, Typed
    <3>5. \A k \in LoopIds : core[k] = "IDLE" => queue'[k] = <<>>
      BY <3>3, <3>4 DEF Positions, CoreInv
    <3> QED BY <3>2, <3>5
  <2> QED BY <2>1, <2>2 DEF Server, Track, Arrive, Stopped, TrackingFault, FeedbackTaken, ServerOnly
<1> QED BY <1>frame, <1>1, <1>2, <1>4, Settled

LEMMA OutsidePositions ==
  ASSUME Typed, Typed', Positions,
         \/ \E c \in Callers : Call(c) \/ CallStops(c) \/ CallEnds(c)
         \/ MarkCanceling \/ CancelFindsNothing
  PROVE  Positions'
<1>frame. UNCHANGED <<pc, loop, verdict, current, future, index, segment, heard, sink, queue, late>>
  BY DEF Call, CallStops, CallEnds, MarkCanceling, CancelFindsNothing, OutsideOnly
<1>idle. \A k \in LoopIds : core[k] = "IDLE" => queue[k] = <<>>
  BY DEF Positions, CoreInv
<1>loops. loop \in Nat /\ \A k \in LoopIds : k \in Nat
  BY Numbers DEF Typed
<1>callers. \A c \in Callers : caller'[c][2] \in {0, current, caller[c][2]}
  <2>1. CASE UNCHANGED caller
    BY <2>1
  <2>2. ASSUME NEW c \in Callers, NEW state, NEW k \in {0, current, caller[c][2]},
               caller' = [caller EXCEPT ![c] = <<state, k>>]
        PROVE  \A d \in Callers : caller'[d][2] \in {0, current, caller[d][2]}
    <3> TAKE d \in Callers
    <3>1. CASE d = c
      BY <2>2, <3>1 DEF Typed
    <3>2. CASE d # c
      BY <2>2, <3>2 DEF Typed
    <3> QED BY <3>1, <3>2
  <2>3. ASSUME NEW c \in Callers, Call(c) PROVE \A d \in Callers : caller'[d][2] \in {0, current, caller[d][2]}
    BY <2>2, <2>3 DEF Call
  <2>4. ASSUME NEW c \in Callers, CallStops(c)
        PROVE  \A d \in Callers : caller'[d][2] \in {0, current, caller[d][2]}
    <3>1. PICK k \in 0..Loops : /\ caller[c] = <<"called", k>>
                                /\ \/ caller' = [caller EXCEPT ![c] = <<"stopped", 0>>]
                                   \/ caller' = [caller EXCEPT ![c] = <<"stopped", k>>]
      BY <2>4 DEF CallStops
    <3>2. caller[c][2] = k
      BY <3>1
    <3> QED BY <2>2, <3>1, <3>2
  <2>5. ASSUME NEW c \in Callers, CallEnds(c)
        PROVE  \A d \in Callers : caller'[d][2] \in {0, current, caller[d][2]}
    BY <2>2, <2>5 DEF CallEnds
  <2>6. CASE CancelFindsNothing
    BY <2>2, <2>6, Numbers DEF CancelFindsNothing
  <2> QED BY <2>1, <2>3, <2>4, <2>5, <2>6 DEF MarkCanceling
<1>1. CASE UNCHANGED core
  <2>1. GoalsMove
    <3>1. CASE UNCHANGED goal
      BY <3>1 DEF GoalsMove
    <3>2. ASSUME NEW c \in Callers, CallStops(c), ~UNCHANGED goal PROVE GoalsMove
      <4>1. PICK k \in 0..Loops : k # 0 /\ StopTracker(k)
        BY <3>2 DEF CallStops
      <4>2. k \in LoopIds
        BY <4>1, Numbers DEF LoopIds
      <4> QED BY <4>1, <4>2, StopTrackerMoves
    <3> QED BY <3>1, <3>2 DEF Call, CallEnds, MarkCanceling, CancelFindsNothing
  <2>2. QueueInv'
    BY <1>frame, <2>1, GoalsMoved DEF Positions, QueueInv
  <2> QED BY <1>1, <1>frame, <1>idle, <1>callers, <2>1, <2>2, Settled
<1>2. ASSUME NEW c \in Callers, CallEnds(c) PROVE Positions'
  <2>1. PICK k \in 0..Loops :
          /\ caller[c] = <<"stopped", k>>
          /\ core' = IF k = 0 THEN core
                     ELSE [core EXCEPT ![k] = IF c = "fail" THEN "FAILED" ELSE "CANCELED"]
    BY <1>2 DEF CallEnds
  <2>2. k <= loop /\ (pc \in {"head", "install"} => k < loop)
    BY <2>1 DEF Positions, RunInv
  <2>3. \A l \in LoopIds : \/ core'[l] = core[l]
                           \/ l = k /\ core'[l] \in {"FAILED", "CANCELED"}
    BY <2>1 DEF Typed
  <2>4. \A l \in LoopIds :
          /\ core'[l] = "IDLE" => queue'[l] = <<>>
          /\ \/ core'[l] = core[l]
             \/ /\ core'[l] \in {"FAILED", "CANCELED"} /\ l <= loop
                /\ l = loop => pc \notin {"head", "install"}
    BY <1>frame, <1>idle, <1>loops, <2>2, <2>3
  <2>5. GoalsMove /\ QueueInv'
    <3>1. UNCHANGED goal
      BY <1>2 DEF CallEnds
    <3> QED BY <1>frame, <3>1 DEF GoalsMove, Positions, QueueInv, Reached
  <2> QED BY <1>frame, <1>callers, <2>4, <2>5, Settled
<1> QED BY <1>1, <1>2 DEF Call, CallStops, MarkCanceling, CancelFindsNothing

LEMMA PositionsStep == TypeOK /\ Positions /\ [RouteStep]_vars => Positions'
<1> SUFFICES ASSUME TypeOK, Positions, [RouteStep]_vars PROVE Positions'
  OBVIOUS
<1>1. Typed /\ Typed'
  BY RouteTypeStep DEF Positions, TypeOK, Typed
<1>2. CASE UNCHANGED vars
  BY <1>2 DEF vars, runVars, coreVars, trackerVars, goalVars, outsideVars, Positions, GoalInv, CoreInv,
              TrackerInv, QueueInv, RunInv, Reached
<1>3. CASE RouteStep
  BY <1>1, <1>3, RunPositions, DispatcherPositions, AdapterPositions, NavPositions, OutsidePositions
     DEF RouteStep, Next
<1> QED BY <1>2, <1>3

-----------------------------------------------------------------------------
(* Reports of completed segments                                           *)

LEMMA ReportInit == Init => ReportInv
  BY Numbers DEF Init, TrackerInit, ReportInv, CompletionsInOrder, Due

LEMMA ReportAppended ==
  ASSUME completed \in Seq(LoopIds \X Segs), CompletionsInOrder, Due \in LoopIds \X Segs,
         completed' = Append(completed, Due)
  PROVE  CompletionsInOrder' /\ Due' = Successor(Due)
<1> DEFINE n == Len(completed)
<1>1. /\ n \in Nat /\ Len(completed') = n + 1 /\ completed' # <<>> /\ completed'[n + 1] = Due
      /\ \A i \in 1..n : completed'[i] = completed[i]
  BY AppendProperties, LenProperties
<1>2. n = 0 <=> completed = <<>>
  BY EmptySeq
<1>3. \A i \in 1..n : completed[i] = IF i = 1 THEN <<1, 1>> ELSE Successor(completed[i - 1])
  BY DEF CompletionsInOrder
<1>4. Due = IF n = 0 THEN <<1, 1>> ELSE Successor(completed[n])
  BY <1>2 DEF Due
<1> HIDE DEF n
<1>5. ASSUME NEW i \in 1..(n + 1)
      PROVE  completed'[i] = IF i = 1 THEN <<1, 1>> ELSE Successor(completed'[i - 1])
  <2>1. CASE i = n + 1
    <3>1. CASE n = 0
      BY <1>1, <1>4, <2>1, <3>1
    <3>2. CASE n # 0
      <4>1. n \in 1..n /\ i # 1 /\ i - 1 = n
        BY <1>1, <2>1, <3>2
      <4> QED BY <1>1, <1>4, <2>1, <3>2, <4>1
    <3> QED BY <3>1, <3>2
  <2>2. CASE i # n + 1
    <3>1. i \in 1..n /\ (i # 1 => i - 1 \in 1..n)
      BY <1>1, <2>2
    <3> QED BY <1>1, <1>3, <3>1
  <2> QED BY <2>1, <2>2
<1>6. CompletionsInOrder'
  BY <1>1, <1>5 DEF CompletionsInOrder
<1>7. Due' = Successor(Due)
  BY <1>1 DEF Due, Successor
<1> QED BY <1>6, <1>7

(* Nothing is reported and the loop stays where it is, or its core ends.   *)
LEMMA NothingReported ==
  ASSUME Typed, ReportInv, UNCHANGED <<loop, completed, index, sink>>,
         core'[loop] = core[loop] \/ core'[loop] \in {"FAILED", "CANCELED"}
  PROVE  ReportInv'
  BY DEF ReportInv, CompletionsInOrder, Due, Successor

LEMMA ReportStep ==
  ASSUME TypeOK, Positions, ReportInv, [RouteStep]_vars
  PROVE  ReportInv'
<1>a. Typed /\ loop \in LoopIds /\ loop \in Nat
  BY IsTyped, Numbers DEF Typed
<1>unreported. UNCHANGED completed => CompletionsInOrder' /\ Due' = Due
  BY DEF ReportInv, CompletionsInOrder, Due, Successor
<1>1. CASE LoopHead \/ Install \/ StartFirst
  BY <1>1, <1>a, NothingReported DEF LoopHead, Install, StartFirst, RunOnly
<1>2. CASE Start
  <2>1. UNCHANGED <<loop, completed, sink>>
    BY <1>2 DEF Start, RunOnly
  <2>2. CASE UNCHANGED <<core, index>>
    BY <1>a, <2>1, <2>2, NothingReported
  <2>3. CASE /\ core[loop] = "IDLE" /\ core' = [core EXCEPT ![loop] = "RUNNING"]
             /\ index' = [index EXCEPT ![loop] = 1]
    <3>1. core'[loop] = "RUNNING" /\ index'[loop] = 1 /\ sink[loop] # "starting"
      BY <1>a, <2>3 DEF Typed, Positions, CoreInv
    <3> QED BY <1>unreported, <2>1, <2>3, <3>1 DEF ReportInv
  <2> QED BY <1>2, <2>2, <2>3 DEF Start
<1>3. CASE Woken
  <2>1. UNCHANGED <<core, index, sink, completed>>
    BY <1>3 DEF Woken, RunOnly
  <2>2. CASE UNCHANGED loop
    BY <1>a, <2>1, <2>2, NothingReported
  <2>3. CASE core[loop] = "COMPLETED" /\ loop < Loops /\ loop' = loop + 1
    <3>1. loop + 1 \in LoopIds /\ loop + 1 > loop /\ loop + 1 # loop
      BY <1>a, <2>3, Numbers DEF LoopIds
    <3>2. core[loop + 1] = "IDLE" /\ sink[loop + 1] # "starting"
      BY <3>1 DEF Positions, CoreInv
    <3> QED BY <1>unreported, <2>1, <2>3, <3>2 DEF ReportInv
  <2> QED BY <1>3, <2>2, <2>3 DEF Woken
<1>4. ASSUME NEW l \in LoopIds, DispatchUnexpected(l) \/ DispatchRunning(l) \/ DispatchFailed(l)
      PROVE ReportInv'
  <2>1. UNCHANGED <<loop, completed, index, sink>>
    BY <1>4 DEF DispatchUnexpected, DispatchRunning, DispatchFailed, SinkRaises, SinkOnly, runVars
  <2>2. core'[loop] = core[loop] \/ core'[loop] = "FAILED"
    BY <1>4, <1>a, StopMoves DEF DispatchUnexpected, DispatchRunning, DispatchFailed, SinkRaises, Typed
  <2> QED BY <1>a, <2>1, <2>2, NothingReported
<1>5. ASSUME NEW l \in LoopIds, DispatchSucceeded(l) PROVE ReportInv'
  <2>1. /\ l = loop /\ index[l] \in Segs /\ core[l] = "RUNNING" /\ sink[l] = "free" /\ UNCHANGED loop
    BY <1>5, <1>a, SuccessHeard DEF DispatchSucceeded, SinkOnly, runVars
  <2>2. Due = <<loop, index[loop]>> /\ CompletionsInOrder
    BY <2>1 DEF ReportInv
  <2>3. CASE /\ index[l] = Segments /\ core' = [core EXCEPT ![l] = "COMPLETED"]
             /\ completed' = Append(completed, <<l, index[l]>>) /\ UNCHANGED <<index, sink>>
    <3>1. Due' = Successor(Due) /\ CompletionsInOrder'
      BY <1>a, <2>1, <2>2, <2>3, ReportAppended DEF TypeOK
    <3>2. Due' = <<loop + 1, 1>>
      BY <2>1, <2>2, <2>3, <3>1, Numbers DEF Successor
    <3>3. core'[loop] = "COMPLETED" /\ sink'[loop] = "free"
      BY <1>a, <2>1, <2>3 DEF Typed
    <3> QED BY <2>1, <3>1, <3>2, <3>3 DEF ReportInv
  <2>4. CASE /\ index' = [index EXCEPT ![l] = @ + 1] /\ sink' = [sink EXCEPT ![l] = "starting"]
             /\ UNCHANGED <<core, completed>>
    <3>1. index'[loop] - 1 = index[loop] /\ sink'[loop] = "starting"
      BY <1>a, <2>1, <2>4, Numbers DEF Typed
    <3> QED BY <1>unreported, <2>1, <2>2, <2>4, <3>1 DEF ReportInv
  <2>5. CASE SinkRaises(l) /\ UNCHANGED sink
    <3>1. core'[loop] = core[loop] \/ core'[loop] = "FAILED"
      BY <1>a, <2>5, StopMoves DEF SinkRaises
    <3> QED BY <1>a, <2>1, <2>5, <3>1, NothingReported DEF SinkRaises
  <2> QED BY <1>5, <2>3, <2>4, <2>5 DEF DispatchSucceeded
<1>6. ASSUME NEW l \in LoopIds, StartNext(l) PROVE ReportInv'
  <2>1. /\ l = loop /\ index[l] \in Segs /\ index[l] > 1 /\ core[l] \notin {"IDLE", "COMPLETED"}
        /\ sink[l] = "starting" /\ sink'[l] = "free" /\ UNCHANGED loop
    <3>1. index[l] \in 0..Segments /\ sink[l] = "starting" /\ sink'[l] = "free" /\ UNCHANGED loop
      BY <1>6, <1>a DEF StartNext, SinkOnly, runVars, Typed
    <3>2. l = loop /\ index[l] > 1 /\ core[l] \notin {"IDLE", "COMPLETED"}
      BY <1>a, <3>1 DEF Positions, CoreInv
    <3> QED BY <3>1, <3>2, Numbers DEF Segs
  <2>2. Due = <<loop, index[loop] - 1>> /\ CompletionsInOrder
    BY <2>1 DEF ReportInv
  <2>3. CASE completed' = Append(completed, <<l, index[l] - 1>>) /\ UNCHANGED <<core, index>>
    <3>1. index[l] \in Nat /\ index[l] <= Segments /\ index[l] - 1 \in Segs
      BY <2>1, Numbers DEF Segs
    <3>2. Due' = Successor(Due) /\ CompletionsInOrder'
      BY <1>a, <2>1, <2>2, <2>3, <3>1, ReportAppended DEF TypeOK
    <3>3. Due' = <<loop, index[loop]>>
      BY <2>1, <2>2, <3>1, <3>2, Numbers DEF Successor
    <3> QED BY <2>1, <2>3, <3>2, <3>3 DEF ReportInv
  <2>4. CASE SinkRaises(l)
    <3>1. core'[loop] \notin {"IDLE", "COMPLETED", "RUNNING"} /\ UNCHANGED completed
      BY <1>a, <2>1, <2>4 DEF SinkRaises, FailCore, Typed, Terminal
    <3> QED BY <1>unreported, <2>1, <3>1 DEF ReportInv
  <2> QED BY <1>6, <2>3, <2>4 DEF StartNext
<1>7. ASSUME NEW l \in LoopIds, NEW s \in Segs,
             Adapter(l, s) \/ FeedbackCallback(l, s) \/ Server(l, s) \/ TrackingFault(l, s)
             \/ FeedbackTaken(l, s)
      PROVE  ReportInv'
  <2>1. UNCHANGED <<loop, completed, index, sink, core>>
    BY <1>7 DEF Adapter, GoalResponse, ResultClears, ResultEmits, AdapterOnly, FeedbackCallback, Server,
                Track, Arrive, Stopped, TrackingFault, FeedbackTaken, ServerOnly, runVars, coreVars
  <2> QED BY <1>a, <2>1, NothingReported
<1>8. ASSUME \/ \E c \in Callers : Call(c) \/ CallStops(c) \/ CallEnds(c)
             \/ MarkCanceling \/ CancelFindsNothing
      PROVE  ReportInv'
  <2>1. UNCHANGED <<loop, completed, index, sink>>
    BY <1>8 DEF Call, CallStops, CallEnds, MarkCanceling, CancelFindsNothing, OutsideOnly
  <2>2. core'[loop] = core[loop] \/ core'[loop] \in {"FAILED", "CANCELED"}
    BY <1>8, <1>a DEF Call, CallStops, CallEnds, MarkCanceling, CancelFindsNothing, Typed
  <2> QED BY <1>a, <2>1, <2>2, NothingReported
<1>9. CASE UNCHANGED vars
  BY <1>9, <1>a, NothingReported DEF vars, runVars, coreVars
<1> QED BY <1>1, <1>2, <1>3, <1>4, <1>5, <1>6, <1>7, <1>8, <1>9 DEF RouteStep, Next, Run, Dispatcher

-----------------------------------------------------------------------------
(* Nothing fails for no reason                                             *)

LEMMA CleanInit == Init => CauseInv
  BY DEF Init, TrackerInit, CauseInv, Clean, QueueExpected

(* The segment that is driven and was not heard to end: the core waits for *)
(* it, and nothing in the queue says that it is over.                      *)
LEMMA ActiveUnheard ==
  ASSUME Typed, Positions, Clean, NEW l \in LoopIds, NEW s \in Segs,
         goal[<<l, s>>] # "none", heard[<<l, s>>] # "result"
  PROVE  /\ s = index[l] /\ core[l] = "RUNNING" /\ sink[l] = "free"
         /\ \A i \in 1..Len(queue[l]) : queue[l][i].status = "RUNNING"
<1>a. loop \in Nat /\ l \in Nat /\ index[l] \in Nat /\ s \in Nat
  BY Numbers DEF Typed
<1>1. l = loop /\ s = index[l]
  BY <1>a DEF Positions, GoalInv, Reached
<1>2. core[l] \notin {"IDLE", "COMPLETED"}
  BY <1>1, SentHasBegun DEF Positions, CoreInv, Reached
<1>3. core[l] = "RUNNING" /\ sink[l] = "free"
  BY <1>1, <1>2 DEF Typed, Clean, Terminal, Positions, CoreInv
<1>4. \A i \in 1..Len(queue[l]) : queue[l][i].status = "RUNNING"
  BY <1>1 DEF Clean, QueueExpected, Positions, QueueInv, Reached
<1> QED BY <1>1, <1>3, <1>4

LEMMA EmittedExpected ==
  ASSUME Typed, Positions, Clean, NEW l \in LoopIds, NEW s \in Segs,
         goal[<<l, s>>] # "none", heard[<<l, s>>] # "result",
         NEW status \in {"RUNNING", "SUCCEEDED"}, Emit(l, status, s), UNCHANGED <<core, index, sink>>
  PROVE  \A k \in LoopIds : QueueExpected(k)'
<1> DEFINE e == [status |-> status, segment |-> s]
<1>1. queue[l] \in Seq(Event) /\ queue' = [queue EXCEPT ![l] = Append(@, e)] /\ e \in Event
  BY Numbers DEF Emit, Typed, Event
<1>2. /\ Len(Append(queue[l], e)) = Len(queue[l]) + 1 /\ Len(queue[l]) \in Nat
      /\ \A i \in 1..Len(queue[l]) : Append(queue[l], e)[i] = queue[l][i]
      /\ Append(queue[l], e)[Len(queue[l]) + 1] = e
  BY <1>1, AppendProperties, LenProperties
<1>3. e.status = status /\ e.segment = s
  OBVIOUS
<1> HIDE DEF e
<1>4. /\ s = index[l] /\ core[l] = "RUNNING" /\ sink[l] = "free"
      /\ \A i \in 1..Len(queue[l]) : queue[l][i].status = "RUNNING" /\ queue[l][i].segment = index[l]
  BY ActiveUnheard DEF Clean, QueueExpected
<1>5. ASSUME NEW k \in LoopIds, k # l PROVE QueueExpected(k)'
  <2>1. queue'[k] = queue[k]
    BY <1>1, <1>5 DEF Typed
  <2> QED BY <2>1 DEF Clean, QueueExpected
<1>6. QueueExpected(l)'
  <2>1. queue'[l] = Append(queue[l], e)
    BY <1>1 DEF Typed
  <2>2. ASSUME NEW i \in 1..Len(queue'[l])
        PROVE  /\ queue'[l][i].segment = index[l] /\ queue'[l][i].status \in {"RUNNING", "SUCCEEDED"}
               /\ queue'[l][i].status = "SUCCEEDED" => i = Len(queue'[l])
    <3>1. CASE i \in 1..Len(queue[l])
      BY <1>2, <1>4, <2>1, <3>1
    <3>2. CASE i = Len(queue[l]) + 1
      BY <1>2, <1>3, <1>4, <2>1, <3>2
    <3> QED BY <1>2, <2>1, <3>1, <3>2
  <2> QED BY <1>4, <2>2 DEF QueueExpected
<1> QED BY <1>5, <1>6

(* What the dispatcher takes off is what the core waits for, and when it is*)
(* a success, nothing is behind it.                                        *)
LEMMA TakenExpected ==
  ASSUME Typed, Clean, NEW l \in LoopIds, NEW status, Take(l, status)
  PROVE  /\ Expected(l) /\ status \in {"RUNNING", "SUCCEEDED"}
         /\ status = "SUCCEEDED" => queue'[l] = <<>>
         /\ UNCHANGED <<core, index, sink>> => \A k \in LoopIds : QueueExpected(k)'
<1>1. /\ queue[l] \in Seq(Event) /\ queue[l] # <<>> /\ queue' = [queue EXCEPT ![l] = Tail(@)]
      /\ status = Head(queue[l]).status
  BY DEF Take, Typed
<1>2. /\ Tail(queue[l]) \in Seq(Event) /\ Len(Tail(queue[l])) = Len(queue[l]) - 1
      /\ \A i \in 1..Len(Tail(queue[l])) : Tail(queue[l])[i] = queue[l][i + 1]
      /\ Head(queue[l]) = queue[l][1] /\ Len(queue[l]) \in Nat /\ 1 \in 1..Len(queue[l])
  BY <1>1, HeadTailProperties, LenProperties, EmptySeq
<1>3. QueueExpected(l)
  BY DEF Clean
<1>4. Expected(l) /\ status \in {"RUNNING", "SUCCEEDED"}
  BY <1>1, <1>2, <1>3 DEF QueueExpected, Expected
<1>5. ASSUME status = "SUCCEEDED" PROVE queue'[l] = <<>>
  <2>1. Len(queue[l]) = 1
    BY <1>1, <1>2, <1>3, <1>5 DEF QueueExpected
  <2>2. Len(Tail(queue[l])) = 0
    BY <1>2, <2>1
  <2> QED BY <1>1, <1>2, <2>2, EmptySeq DEF Typed
<1>6. ASSUME UNCHANGED <<core, index, sink>>, NEW k \in LoopIds PROVE QueueExpected(k)'
  <2>1. CASE k # l
    <3>1. queue'[k] = queue[k]
      BY <1>1, <2>1 DEF Typed
    <3> QED BY <1>6, <3>1 DEF Clean, QueueExpected
  <2>2. CASE k = l
    <3>1. queue'[l] = Tail(queue[l])
      BY <1>1 DEF Typed
    <3>2. ASSUME NEW i \in 1..Len(queue'[l])
          PROVE  /\ queue'[l][i].segment = index[l] /\ queue'[l][i].status \in {"RUNNING", "SUCCEEDED"}
                 /\ queue'[l][i].status = "SUCCEEDED" => i = Len(queue'[l])
      <4>1. i + 1 \in 1..Len(queue[l]) /\ queue'[l][i] = queue[l][i + 1]
        BY <1>2, <3>1
      <4>2. i + 1 = Len(queue[l]) => i = Len(queue'[l])
        BY <1>2, <3>1
      <4> QED BY <1>3, <4>1, <4>2 DEF QueueExpected
    <3> QED BY <1>1, <1>3, <1>6, <2>2, <3>2 DEF QueueExpected
  <2> QED BY <2>1, <2>2
<1> QED BY <1>4, <1>5, <1>6

LEMMA CauseStep ==
  ASSUME TypeOK, TypeOK', Positions, CauseInv, [RouteStep]_vars
  PROVE  CauseInv'
<1>a. Typed /\ Typed' /\ loop \in LoopIds /\ loop \in Nat
  BY IsTyped, Numbers DEF TypeOK, Typed
<1> SUFFICES ASSUME ~cause' PROVE Clean'
  BY DEF CauseInv
<1>b. ~cause
  <2> SUFFICES ASSUME cause PROVE cause'
    OBVIOUS
  <2>1. CASE Run
    BY <2>1 DEF Run, LoopHead, Install, Start, StartFirst, Woken
  <2>2. ASSUME NEW l \in LoopIds, Dispatcher(l) PROVE cause'
    BY <2>2 DEF Dispatcher, DispatchUnexpected, DispatchRunning, DispatchFailed, DispatchSucceeded, StartNext
  <2>3. ASSUME NEW l \in LoopIds, NEW s \in Segs, Adapter(l, s) \/ FeedbackCallback(l, s) PROVE cause'
    BY <2>3 DEF Adapter, GoalResponse, ResultClears, ResultEmits, AdapterOnly, FeedbackCallback
  <2>4. ASSUME NEW l \in LoopIds, NEW s \in Segs, Server(l, s) \/ TrackingFault(l, s) \/ FeedbackTaken(l, s)
        PROVE  cause'
    BY <2>4 DEF Server, Track, Arrive, Stopped, TrackingFault, FeedbackTaken
  <2>5. ASSUME NEW c \in Callers, Call(c) \/ CallStops(c) \/ CallEnds(c) PROVE cause'
    BY <2>5 DEF Call, CallStops, CallEnds
  <2>6. CASE MarkCanceling \/ CancelFindsNothing \/ UNCHANGED vars
    BY <2>6 DEF MarkCanceling, CancelFindsNothing, vars
  <2> QED BY <2>1, <2>2, <2>3, <2>4, <2>5, <2>6 DEF RouteStep, Next
<1>clean. Clean
  BY <1>b DEF CauseInv
<1>1. CASE LoopHead \/ Install
  BY <1>1, <1>clean DEF LoopHead, Install, RunOnly, outsideVars, Return, Clean, QueueExpected
<1>2. CASE Start
  <2>1. core[loop] = "IDLE"
    BY <1>2, <1>a, <1>clean DEF Start, Positions, RunInv, Clean
  <2>2. /\ core' = [core EXCEPT ![loop] = "RUNNING"] /\ index' = [index EXCEPT ![loop] = 1]
        /\ pc' = "startTracker"
        /\ UNCHANGED <<verdict, loop, woken, failure, stop, goal, queue, sink, caller, canceled>>
    BY <1>2, <2>1 DEF Start, RunOnly, outsideVars
  <2>3. ~woken
    BY <1>2, <1>clean, <2>1 DEF Start, Clean
  <2>4. queue[loop] = <<>>
    BY <1>a, <2>1 DEF Positions, CoreInv
  <2>5. ASSUME NEW l \in LoopIds PROVE core'[l] \notin {"FAILED", "CANCELED"} /\ QueueExpected(l)'
    <3>1. CASE l = loop
      BY <1>a, <2>2, <2>4, <3>1 DEF Typed, QueueExpected
    <3>2. CASE l # loop
      BY <1>a, <1>clean, <2>2, <3>2 DEF Typed, Clean, QueueExpected
    <3> QED BY <3>1, <3>2
  <2> QED BY <1>clean, <2>2, <2>3, <2>5 DEF Clean
<1>3. CASE StartFirst
  <2>1. /\ StartTracker(loop, 1) /\ pc' = "await" /\ pc = "startTracker"
        /\ UNCHANGED <<verdict, loop, woken, failure, core, index, queue, sink, caller, canceled>>
    BY <1>3 DEF StartFirst, RunOnly, outsideVars
  <2>2. \A l \in LoopIds : ~stop'[l]
    BY <1>a, <1>clean, <2>1 DEF StartTracker, Clean, TypeOK
  <2>3. \A q \in LoopIds \X Segs : goal'[q] \in {"none", "sent", "tracking", "succeeded"}
    BY <1>a, <1>clean, <2>1 DEF StartTracker, Clean, Typed
  <2>4. \A l \in LoopIds : QueueExpected(l)'
    BY <1>clean, <2>1 DEF Clean, QueueExpected
  <2> QED BY <1>clean, <2>1, <2>2, <2>3, <2>4 DEF Clean
<1>4. CASE Woken
  <2>1. core[loop] = "COMPLETED" /\ ~canceled
    BY <1>4, <1>clean DEF Woken, Clean
  <2> QED BY <1>4, <1>clean, <2>1 DEF Woken, RunOnly, outsideVars, Return, Clean, QueueExpected
<1>5. ASSUME NEW l \in LoopIds, DispatchUnexpected(l) \/ DispatchFailed(l) PROVE FALSE
  BY <1>5, <1>a, <1>clean, TakenExpected DEF DispatchUnexpected, DispatchFailed
<1>6. ASSUME NEW l \in LoopIds, DispatchRunning(l) PROVE Clean'
  <2>1. \A k \in LoopIds : QueueExpected(k)'
    BY <1>6, <1>a, <1>clean, TakenExpected DEF DispatchRunning
  <2> QED BY <1>6, <1>clean, <2>1 DEF DispatchRunning, SinkOnly, runVars, outsideVars, trackerVars, Clean
<1>7. ASSUME NEW l \in LoopIds, DispatchSucceeded(l) PROVE Clean'
  <2>1. /\ l = loop /\ queue'[l] = <<>>
        /\ UNCHANGED <<failure, canceled, verdict, caller, pc, loop, stop, goal>>
    BY <1>7, <1>a, <1>clean, SuccessHeard, TakenExpected
       DEF DispatchSucceeded, SinkOnly, runVars, outsideVars
  <2>2. \A k \in LoopIds : k # l => /\ queue'[k] = queue[k] /\ core'[k] = core[k]
                                    /\ index'[k] = index[k] /\ sink'[k] = sink[k]
    BY <1>7, <1>a DEF DispatchSucceeded, Take, Typed
  <2>3. core'[l] \in {core[l], "COMPLETED"} /\ (core'[l] # "COMPLETED" => UNCHANGED <<core, woken>>)
    BY <1>7, <1>a DEF DispatchSucceeded, Typed
  <2>4. ASSUME NEW k \in LoopIds PROVE core'[k] \notin {"FAILED", "CANCELED"} /\ QueueExpected(k)'
    <3>1. CASE k = l
      <4>1. queue'[k] = <<>> /\ \A i \in 1..Len(queue'[k]) : FALSE
        BY <2>1, <3>1, EmptySeq
      <4> QED BY <1>clean, <2>3, <3>1, <4>1 DEF Clean, QueueExpected
    <3>2. CASE k # l
      BY <1>clean, <2>2, <3>2 DEF Clean, QueueExpected
    <3> QED BY <3>1, <3>2
  <2> QED BY <1>clean, <2>1, <2>3, <2>4 DEF Clean
<1>8. ASSUME NEW l \in LoopIds, StartNext(l) PROVE Clean'
  <2>1. /\ StartTracker(l, index[l]) /\ sink[l] = "starting" /\ sink' = [sink EXCEPT ![l] = "free"]
        /\ IF core[l] \in Terminal THEN Signal ELSE UNCHANGED woken
        /\ UNCHANGED <<failure, canceled, verdict, caller, pc, loop, core, index, queue>>
    BY <1>8 DEF StartNext, SinkOnly, runVars, outsideVars
  <2>2. core[l] \notin Terminal /\ queue[l] = <<>> /\ index[l] \in Segs
    <3>1. core[l] # "COMPLETED" /\ index[l] > 1
      BY <2>1 DEF Positions, CoreInv
    <3>2. index[l] \in 0..Segments
      BY <1>a DEF Typed
    <3> QED BY <1>clean, <2>1, <3>1, <3>2, Numbers DEF Clean, QueueExpected, Terminal, Segs
  <2>3. \A k \in LoopIds : ~stop'[k]
    BY <1>clean, <2>1 DEF StartTracker, Clean, TypeOK
  <2>4. \A q \in LoopIds \X Segs : goal'[q] \in {"none", "sent", "tracking", "succeeded"}
    BY <1>a, <1>clean, <2>1 DEF StartTracker, Clean, Typed
  <2>5. ASSUME NEW k \in LoopIds PROVE QueueExpected(k)'
    <3>1. sink'[k] \in {sink[k], "free"}
      BY <1>a, <2>1 DEF Typed
    <3> QED BY <1>clean, <2>1, <3>1 DEF Clean, QueueExpected
  <2> QED BY <1>clean, <2>1, <2>2, <2>3, <2>4, <2>5 DEF Clean
<1>9. ASSUME NEW l \in LoopIds, NEW s \in Segs, Adapter(l, s) PROVE Clean'
  <2>1. UNCHANGED <<failure, canceled, verdict, caller, pc, loop, woken, core, index, sink>>
    BY <1>9 DEF Adapter, GoalResponse, ResultClears, ResultEmits, AdapterOnly, runVars, outsideVars, coreVars
  <2>2. UNCHANGED goal /\ goal[<<l, s>>] \in {"none", "sent", "tracking", "succeeded"}
    BY <1>9, <1>clean DEF Adapter, GoalResponse, ResultClears, ResultEmits, Clean
  <2>3. \A k \in LoopIds : ~stop'[k]
    <3>1. ClearActive(l) \/ UNCHANGED stop
      BY <1>9 DEF Adapter, GoalResponse, ResultClears, ResultEmits, trackerVars
    <3>2. \A k \in LoopIds : stop'[k] \in {stop[k], FALSE}
      BY <3>1 DEF ClearActive, TypeOK
    <3> QED BY <1>clean, <3>2 DEF Clean
  <2>4. \A k \in LoopIds : QueueExpected(k)'
    <3>1. CASE UNCHANGED queue
      BY <1>clean, <2>1, <3>1 DEF Clean, QueueExpected
    <3>2. CASE ResultEmits(l, s)
      <4>1. goal[<<l, s>>] = "succeeded" /\ heard[<<l, s>>] = "cleared"
        BY <2>2, <3>2 DEF ResultEmits, Positions, GoalInv, Over
      <4>2. Emit(l, "SUCCEEDED", s)
        BY <3>2, <4>1 DEF ResultEmits
      <4> QED BY <1>a, <1>clean, <2>1, <4>1, <4>2, EmittedExpected
    <3> QED BY <1>9, <3>1, <3>2 DEF Adapter, GoalResponse, ResultClears
  <2> QED BY <1>clean, <2>1, <2>2, <2>3, <2>4 DEF Clean
<1>10. ASSUME NEW l \in LoopIds, NEW s \in Segs, FeedbackCallback(l, s) PROVE Clean'
  <2>1. /\ UNCHANGED <<failure, canceled, verdict, caller, pc, loop, woken, core, index, sink, stop, goal>>
        /\ segment[l] = s /\ Emit(l, "RUNNING", s)
    BY <1>10 DEF FeedbackCallback, runVars, outsideVars, coreVars, trackerVars
  <2>2. goal[<<l, s>>] # "none" /\ heard[<<l, s>>] # "result"
    BY <2>1, Numbers DEF Positions, TrackerInv
  <2>3. \A k \in LoopIds : QueueExpected(k)'
    BY <1>a, <1>clean, <2>1, <2>2, EmittedExpected
  <2> QED BY <1>clean, <2>1, <2>3 DEF Clean
<1>11. ASSUME NEW l \in LoopIds, NEW s \in Segs,
              Server(l, s) \/ TrackingFault(l, s) \/ FeedbackTaken(l, s)
       PROVE  Clean'
  <2>1. UNCHANGED <<failure, canceled, verdict, caller, pc, loop, woken, core, index, sink, stop, queue>>
    BY <1>11 DEF Server, Track, Arrive, Stopped, TrackingFault, FeedbackTaken, ServerOnly, runVars, coreVars,
                 trackerVars, outsideVars
  <2>2. \A q \in LoopIds \X Segs : goal'[q] \in {"none", "sent", "tracking", "succeeded"}
    BY <1>11, <1>a, <1>clean DEF Server, Track, Arrive, Stopped, TrackingFault, FeedbackTaken, Clean, Typed
  <2> QED BY <1>clean, <2>1, <2>2 DEF Clean, QueueExpected
<1>12. ASSUME NEW c \in Callers, Call(c) \/ CallStops(c) \/ CallEnds(c) PROVE FALSE
  BY <1>12, <1>clean DEF Call, CallStops, CallEnds, Clean
<1>13. ~MarkCanceling /\ ~CancelFindsNothing
  BY <1>clean, Numbers DEF MarkCanceling, CancelFindsNothing, Clean
<1>14. CASE UNCHANGED vars
  BY <1>14, <1>clean DEF vars, runVars, coreVars, trackerVars, goalVars, outsideVars, Clean, QueueExpected
<1> QED BY <1>1, <1>2, <1>3, <1>4, <1>5, <1>6, <1>7, <1>8, <1>9, <1>10, <1>11, <1>12, <1>13, <1>14
        DEF RouteStep, Next, Run, Dispatcher

-----------------------------------------------------------------------------
(* The server around the backend                                           *)

LEMMA ServerStart == ServerInit => TypeCorrect /\ ServerInv
  BY RouteTypeInit DEF ServerInit, Init, TrackerInit, TypeCorrect, ServerInv, SessionStates, Bindings, EndStates, Ends

(* Only run returns.                                                       *)
LEMMA BackendRuns == Backend => UNCHANGED <<verdict, capabilityVars>>
<1>1. ASSUME NEW l \in LoopIds, Dispatcher(l) PROVE UNCHANGED verdict
  BY <1>1 DEF Dispatcher, DispatchUnexpected, DispatchRunning, DispatchFailed, DispatchSucceeded, StartNext,
              SinkOnly, runVars
<1>2. ASSUME NEW l \in LoopIds, NEW s \in Segs,
             Adapter(l, s) \/ FeedbackCallback(l, s) \/ Server(l, s) \/ TrackingFault(l, s)
             \/ FeedbackTaken(l, s)
      PROVE  UNCHANGED verdict
  BY <1>2 DEF Adapter, GoalResponse, ResultClears, ResultEmits, AdapterOnly, FeedbackCallback, Server, Track,
              Arrive, Stopped, TrackingFault, FeedbackTaken, ServerOnly, runVars
<1> QED BY <1>1, <1>2 DEF Backend

LEMMA ServerTyped == TypeCorrect /\ ServerInv /\ TypeOK' /\ [ServerNext]_serverVars => TypeCorrect'
<1> SUFFICES ASSUME TypeCorrect, ServerInv, TypeOK', [ServerNext]_serverVars PROVE TypeCorrect'
  OBVIOUS
<1> USE DEF TypeCorrect, SessionStates, EndStates, Ends
<1>1. CASE ExecuteRoute
  <2>1. UNCHANGED <<binding, ready, keeper>>
    BY <1>1 DEF ExecuteRoute, Select, ClaimRefused, ClaimRequest, BeginSession, LoadRefused, LoadTask,
       CheckGoal, ResolveRoute, AcceptRoute, BeginRoute, InstallExecutor, RunRoute, RouteReturns,
       JudgeCanceled, ConfirmCanceled, JudgeFailed, JudgeSucceeded, ExceptRoute, LeaveRoute, ServerStep,
       Reject, Proceed, Aside, capabilityVars
  <2>2. CASE Select \/ ClaimRefused \/ ClaimRequest \/ BeginSession \/ LoadRefused \/ LoadTask \/ CheckGoal
    BY <2>1, <2>2 DEF Select, ClaimRefused, ClaimRequest, BeginSession, LoadRefused, LoadTask, CheckGoal,
                      ServerStep, Reject
  <2>3. CASE ResolveRoute
    BY <2>1, <2>3 DEF ResolveRoute, Resolution, Bindings, ServerStep, Reject
  <2>4. CASE AcceptRoute \/ BeginRoute
    BY <2>1, <2>4 DEF AcceptRoute, BeginRoute, Proceed, ServerStep
  <2>5. CASE InstallExecutor \/ RunRoute \/ RouteReturns \/ JudgeCanceled \/ ConfirmCanceled
    BY <2>1, <2>5 DEF InstallExecutor, RunRoute, RouteReturns, JudgeCanceled, ConfirmCanceled, ServerStep,
                      capabilityVars
  <2>6. CASE JudgeFailed \/ JudgeSucceeded \/ ExceptRoute
    BY <2>1, <2>6 DEF JudgeFailed, JudgeSucceeded, ExceptRoute, ServerStep
  <2>7. CASE LeaveRoute
    BY <2>1, <2>7 DEF LeaveRoute, ServerStep, ServerInv
  <2> QED BY <1>1, <2>2, <2>3, <2>4, <2>5, <2>6, <2>7 DEF ExecuteRoute
<1>2. CASE Backend
  BY <1>2 DEF Backend, capabilityVars
<1>3. CASE GateLost \/ GateReady \/ Watchdog \/ Keep
  BY <1>3 DEF GateLost, GateReady, Watchdog, Keep, FailBackend, GateUnchanged, FailForRuntimeLoss,
              capabilityVars
<1>4. CASE CancelSession \/ CancelGoesOn \/ MarkGoal \/ BindingChanges
  BY <1>4 DEF CancelSession, CancelUnchanged, CancelGoesOn, MarkGoal, BindingChanges, capabilityVars
<1>5. CASE UNCHANGED serverVars
  BY <1>5 DEF serverVars, capabilityVars
<1> QED BY <1>1, <1>2, <1>3, <1>4, <1>5 DEF ServerNext

LEMMA ServerStays == TypeCorrect /\ ServerInv /\ [ServerNext]_serverVars => ServerInv'
<1> SUFFICES ASSUME TypeCorrect, ServerInv, [ServerNext]_serverVars PROVE ServerInv'
  OBVIOUS
<1> USE DEF ServerInv, EndStates
<1>1. CASE ExecuteRoute
  <2>1. CASE RunRoute
    BY <2>1 DEF RunRoute, capabilityVars
  <2>2. ASSUME Select \/ ClaimRefused \/ ClaimRequest \/ BeginSession \/ LoadRefused \/ LoadTask \/ CheckGoal
        PROVE  ServerInv'
    BY <2>2 DEF Select, ClaimRefused, ClaimRequest, BeginSession, LoadRefused, LoadTask, CheckGoal,
                ServerStep, Reject, vars, runVars
  <2>3. CASE ResolveRoute
    <3>1. Resolution[binding] \in {"accept", "except", "settle"}
      BY DEF TypeCorrect, Resolution, Bindings
    <3> QED BY <2>3, <3>1 DEF ResolveRoute, ServerStep, Reject, vars, runVars
  <2>4. CASE AcceptRoute \/ BeginRoute
    BY <2>4 DEF AcceptRoute, BeginRoute, Proceed, ServerStep, vars, runVars
  <2>5. CASE InstallExecutor \/ RouteReturns \/ JudgeCanceled \/ ConfirmCanceled
    BY <2>5 DEF InstallExecutor, RouteReturns, JudgeCanceled, ConfirmCanceled, ServerStep, vars, runVars
  <2>6. CASE JudgeFailed \/ JudgeSucceeded \/ ExceptRoute
    BY <2>6 DEF JudgeFailed, JudgeSucceeded, ExceptRoute, ServerStep, vars, runVars, TypeCorrect
  <2>7. CASE LeaveRoute
    BY <2>7 DEF LeaveRoute, ServerStep, vars, runVars
  <2> QED BY <1>1, <2>1, <2>2, <2>3, <2>4, <2>5, <2>6, <2>7 DEF ExecuteRoute
<1>2. CASE Backend
  BY <1>2, BackendRuns DEF capabilityVars
<1>3. CASE GateLost \/ GateReady \/ Watchdog \/ BindingChanges
  BY <1>3 DEF GateLost, GateReady, Watchdog, GateUnchanged, FailForRuntimeLoss, BindingChanges, vars, runVars
<1>4. CASE Keep \/ CancelGoesOn \/ MarkGoal
  BY <1>4 DEF Keep, FailBackend, CancelGoesOn, MarkGoal, Call, CallStops, CallEnds, MarkCanceling, OutsideOnly,
              vars, runVars, capabilityVars
<1>5. CASE CancelSession
  BY <1>5 DEF CancelSession, CancelUnchanged, Call, OutsideOnly
<1>6. CASE UNCHANGED serverVars
  BY <1>6 DEF serverVars, capabilityVars, vars, runVars
<1> QED BY <1>1, <1>2, <1>3, <1>4, <1>5, <1>6 DEF ServerNext

-----------------------------------------------------------------------------
(* What the invariants say                                                 *)

Invariant == TypeCorrect /\ Positions /\ ReportInv /\ CauseInv /\ ServerInv

LEMMA InvariantInit == ServerInit => Invariant
  BY PositionsInit, ReportInit, CleanInit, ServerStart DEF ServerInit, Invariant

LEMMA InvariantStep == Invariant /\ [ServerNext]_serverVars => Invariant'
<1> SUFFICES ASSUME Invariant, [ServerNext]_serverVars PROVE Invariant'
  OBVIOUS
<1>1. [RouteStep]_vars /\ TypeOK /\ Positions /\ CoreInv
  BY ServerStepsRoute DEF Invariant, TypeCorrect, Positions
<1>2. TypeOK' /\ Positions'
  BY <1>1, RouteTypeStep, PositionsStep
<1>3. ReportInv' /\ CauseInv'
  BY <1>1, <1>2, ReportStep, CauseStep DEF Invariant
<1>4. TypeCorrect' /\ ServerInv'
  BY <1>2, ServerTyped, ServerStays DEF Invariant
<1> QED BY <1>2, <1>3, <1>4 DEF Invariant

(* A goal that is sent or tracked is the one at the index of the loop.     *)
LEMMA DrivenAtIndex == TypeOK /\ GoalInv => OneSegmentDriven
<1> SUFFICES ASSUME TypeOK, GoalInv,
                    NEW k \in LoopIds, NEW s \in Segs, NEW l \in LoopIds, NEW t \in Segs,
                    Unstopped(k, s), Unstopped(l, t)
             PROVE  k = l /\ s = t
  BY DEF OneSegmentDriven
<1>1. loop \in Nat /\ k \in Nat /\ l \in Nat /\ s \in Nat /\ t \in Nat /\ index[k] \in Nat
  BY Numbers, IsTyped DEF Typed
<1>2. k = loop /\ s = index[k] /\ l = loop /\ t = index[l]
  BY <1>1, IsTyped DEF Typed, GoalInv, Reached, Unstopped, Driven
<1> QED BY <1>2

LEMMA ReturnedFailed == CauseInv => FailsForAReason
  BY DEF CauseInv, Clean, FailsForAReason

LEMMA ToldAsDriven == Invariant => SucceededAsDriven
<1> SUFFICES ASSUME Invariant PROVE SucceededAsDriven
  OBVIOUS
<1>1. ASSUME told = "SUCCEEDED", NEW l \in LoopIds, NEW s \in Segs PROVE goal[<<l, s>>] = "succeeded"
  <2>1. loop = Loops /\ Reached(loop, s)
    BY <1>1 DEF Invariant, ServerInv, Positions, RunInv
  <2>2. l < loop \/ l = loop
    BY <2>1, Numbers DEF LoopIds
  <2> QED BY <2>1, <2>2 DEF Invariant, Positions, GoalInv, Reached
<1>2. told = "SUCCEEDED" => \A p \in LoopIds \X Segs : goal[p] = "succeeded"
  BY <1>1
<1> QED BY <1>2 DEF SucceededAsDriven, Invariant, ServerInv

-----------------------------------------------------------------------------
(* Theorems of the specification                                           *)

(* The invariant: types, the goals and reports of each position, and what   *)
(* the server makes of the outcome.                                        *)
THEOREM ServerInvariant == ServerSpec => []Invariant
  BY InvariantInit, InvariantStep, PTL DEF ServerSpec

(* Every variable of the server and its backend has its type: no index     *)
(* leaves the route, no event names a segment that is none.                *)
THEOREM ServerTypeCorrect == ServerSpec => []TypeCorrect
<1>1. Invariant => TypeCorrect
  BY DEF Invariant
<1> QED BY <1>1, ServerInvariant, PTL

(* However the callbacks, the cancel and the gates interleave with run, no *)
(* two FollowPath goals are driven at once that nobody asked to stop.      *)
THEOREM AlwaysOneSegmentDriven == ServerSpec => []OneSegmentDriven
<1>1. Invariant => OneSegmentDriven
  BY DrivenAtIndex DEF Invariant, TypeCorrect, Positions
<1> QED BY <1>1, ServerInvariant, PTL

(* The completed segments are reported in the order of the route.          *)
THEOREM AlwaysInOrder == ServerSpec => []CompletionsInOrder
<1>1. Invariant => CompletionsInOrder
  BY DEF Invariant, ReportInv
<1> QED BY <1>1, ServerInvariant, PTL

(* Both together, for every schedule of the callbacks.                     *)
THEOREM AlwaysInTurn == ServerSpec => []SegmentsInTurn
<1>1. OneSegmentDriven /\ CompletionsInOrder => SegmentsInTurn BY DEF SegmentsInTurn
<1> QED BY <1>1, AlwaysOneSegmentDriven, AlwaysInOrder, PTL

(* A route fails only when a fault, a caller from outside, or a feedback   *)
(* message that came too late is behind it.                                *)
THEOREM AlwaysForAReason == ServerSpec => []FailsForAReason
<1>1. Invariant => FailsForAReason
  BY ReturnedFailed DEF Invariant
<1> QED BY <1>1, ServerInvariant, PTL

(* Success is told only of a route of which every segment of every loop    *)
(* was driven, and is what the server remembers of the request.            *)
THEOREM AlwaysAsDriven == ServerSpec => []SucceededAsDriven
  BY ToldAsDriven, ServerInvariant, PTL
=============================================================================
