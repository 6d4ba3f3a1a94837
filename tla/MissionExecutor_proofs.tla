----------------------- MODULE MissionExecutor_proofs -----------------------
(* Proofs about MissionExecutor, for every mission, task and bound.        *)
EXTENDS MissionExecutor, TLAPS

(* The state of the machine at each place of the executor coroutine.       *)
PlaceFixesState ==
  /\ pc = "start"  => fsm = "IDLE"
  /\ pc = "gates"  => fsm = "VALIDATING"
  /\ pc \in {"head", "between", "begin", "spawn", "poll", "rewait"} => fsm = "RUNNING"
  /\ pc \in {"wait", "sleep"} => fsm \in {"WAITING_DURATION", "WAITING_EVENT"}
  /\ pc = "pausing" => fsm = "PAUSING"
  /\ pc \in {"clearPause", "held", "heldCheck", "resume"} => fsm = "PAUSED"
  /\ pc = "resuming" => fsm = "RESUMING"
  /\ pc = "cancelTerminal" => fsm = "CANCELING"
  /\ pc \in {"cancelChild", "cancelWait", "join"} =>
       fsm = IF intent = "pause" THEN "PAUSING" ELSE "CANCELING"
  /\ pc = "end" => fsm \in {"SUCCEEDED", "FAILED", "CANCELED"}

(* Inside a step the index names a step of the mission.                    *)
Holding == {"clearPause", "held", "heldCheck", "resume", "resuming"}
InsideStep ==
  /\ pc \in {"wait", "sleep", "rewait", "spawn", "poll", "cancelChild", "cancelWait", "join"} =>
       step <= Len(Mission)
  /\ pc \in Holding /\ site # "step" => step <= Len(Mission)
  /\ pc \in {"sleep", "rewait"} => remaining > 0
  /\ pc \in Holding /\ site = "wait" => remaining > 0

(* The child coroutine exists only between its creation and its join, and  *)
(* while the run goes on a goal is alive only while the coroutine waits    *)
(* for it or has just raised out of a checkpoint.                          *)
Raised == child = "done" /\ result = "raised"
ChildInItsLoop ==
  /\ child # "none" => pc \in {"poll", "cancelChild", "cancelWait", "join"}
  /\ goal \in Live => child \in {"sending", "awaiting"} \/ Raised \/ pc = "end"

(* A run that an exception took down is over and FAILED, and it is the     *)
(* only one that is over with a goal alive.                                *)
FallenIsOver ==
  /\ error = "INTERNAL" => pc = "end" /\ fsm = "FAILED"
  /\ pc = "end" /\ goal \in Live => error = "INTERNAL"

Core == TypeOK /\ NeverRaises /\ PlaceFixesState /\ InsideStep /\ ChildInItsLoop

IInv == Core /\ FallenIsOver

LEMMA SuccessorFacts ==
  /\ Lifecycle!Successors["IDLE"] = {"VALIDATING"}
  /\ Lifecycle!Successors["VALIDATING"] = {"RUNNING", "FAILED", "CANCELING"}
  /\ Lifecycle!Successors["RUNNING"] =
       {"WAITING_DURATION", "WAITING_EVENT", "PAUSING", "CANCELING", "SUCCEEDED", "FAILED"}
  /\ Lifecycle!Successors["WAITING_DURATION"] = {"PAUSED", "CANCELING", "RUNNING", "FAILED"}
  /\ Lifecycle!Successors["WAITING_EVENT"] = {"PAUSED", "CANCELING", "RUNNING", "FAILED"}
  /\ Lifecycle!Successors["PAUSING"] = {"PAUSED", "CANCELING", "FAILED"}
  /\ Lifecycle!Successors["PAUSED"] = {"RESUMING", "CANCELING"}
  /\ Lifecycle!Successors["RESUMING"] = {"RUNNING", "FAILED", "CANCELING"}
  /\ Lifecycle!Successors["CANCELING"] = {"CANCELED", "FAILED"}
  BY DEF Lifecycle!Successors, Lifecycle!MissionStates, Lifecycle!Waiting

LEMMA LengthIsNatural == Len(Mission) \in Nat
  BY MissionAssumption

LEMMA InitEstablishes == Init => IInv
<1> SUFFICES ASSUME Init PROVE IInv
  OBVIOUS
<1>1. TypeOK
  <2>1. pc \in Places /\ fsm \in Lifecycle!MissionStates /\ error \in ErrorCodes
    BY DEF Init, Places, Lifecycle!MissionStates, ErrorCodes
  <2>2. step \in 1..(Len(Mission) + 1) /\ remaining \in 0..Polls
        /\ notBefore \in 0..(Len(Mission) + 1) /\ progress \in 0..Waypoints
    BY LengthIsNatural, TaskAssumption DEF Init
  <2>3. cursor \in Cursor /\ request \in Request
    BY TaskAssumption DEF Init, Cursor, Request
  <2>4. asked \in [Requests -> Nat] /\ released \in Nat
    BY DEF Init
  <2> QED BY <2>1, <2>2, <2>3, <2>4
      DEF Init, TypeOK, ExecutorTypeOK, RunnerTypeOK, ServerTypeOK, EnvTypeOK
<1>2. NeverRaises /\ PlaceFixesState /\ InsideStep /\ ChildInItsLoop
  BY DEF Init, NeverRaises, PlaceFixesState, InsideStep, ChildInItsLoop, Holding, Live
<1>3. FallenIsOver
  BY DEF Init, FallenIsOver
<1> QED BY <1>1, <1>2, <1>3 DEF IInv, Core

(* No step of the executor but an exception sets ERROR_INTERNAL.           *)
LEMMA ErrorsHaveNames == Executor /\ ~ChildRaised /\ error # "INTERNAL" => error' # "INTERNAL"
<1> SUFFICES ASSUME Executor, ~ChildRaised, error # "INTERNAL" PROVE error' # "INTERNAL"
  OBVIOUS
<1> USE DEF Fail, BeginCancel, QuietStep
<1>1. CASE Start \/ Validate \/ StepHead \/ BetweenSteps \/ PausedBetweenSteps \/ Succeed
  BY <1>1 DEF Start, Validate, StepHead, BetweenSteps, PausedBetweenSteps, Succeed, Verdict
<1>2. CASE BeginWaypoint \/ BeginWait \/ WaitElapsed \/ WaitCanceled \/ EventReceived
  BY <1>2 DEF BeginWaypoint, BeginWait, WaitElapsed, WaitCanceled, EventReceived, Verdict
<1>3. CASE WaitPaused \/ WaitSleep \/ WaitWoken \/ WaitContinued \/ ClearPause
  BY <1>3 DEF WaitPaused, WaitSleep, WaitWoken, WaitContinued, ClearPause
<1>4. CASE Held \/ HeldCheck \/ Resume \/ Resuming \/ CancelTerminal
  BY <1>4 DEF Held, HeldCheck, Resume, Resuming, CancelTerminal, Verdict
<1>5. CASE SpawnChild \/ InterruptChild \/ ChildDone \/ CancelChild \/ CancelAnswered \/ JoinChild
  BY <1>5 DEF SpawnChild, InterruptChild, ChildDone, ChildCode, CancelChild, CancelAnswered, JoinChild
<1> QED BY <1>1, <1>2, <1>3, <1>4, <1>5 DEF Executor

LEMMA ExecutorIsAtWork == Executor => pc # "end" /\ goal' = goal
<1> SUFFICES ASSUME Executor PROVE pc # "end" /\ goal' = goal
  OBVIOUS
<1> USE DEF QuietStep, ElseUnchanged, serverVars
<1>1. CASE Start \/ Validate \/ StepHead \/ BetweenSteps \/ PausedBetweenSteps \/ Succeed
  BY <1>1 DEF Start, Validate, StepHead, BetweenSteps, PausedBetweenSteps, Succeed
<1>2. CASE BeginWaypoint \/ BeginWait \/ WaitElapsed \/ WaitCanceled \/ EventReceived
  BY <1>2 DEF BeginWaypoint, BeginWait, WaitElapsed, WaitCanceled, EventReceived
<1>3. CASE WaitPaused \/ WaitSleep \/ WaitWoken \/ WaitContinued \/ ClearPause
  BY <1>3 DEF WaitPaused, WaitSleep, WaitWoken, WaitContinued, ClearPause
<1>4. CASE Held \/ HeldCheck \/ Resume \/ Resuming \/ CancelTerminal
  BY <1>4 DEF Held, HeldCheck, Resume, Resuming, CancelTerminal
<1>5. CASE SpawnChild \/ InterruptChild \/ ChildDone \/ CancelChild \/ CancelAnswered \/ JoinChild
           \/ ChildRaised
  BY <1>5 DEF SpawnChild, InterruptChild, ChildDone, CancelChild, CancelAnswered, JoinChild, ChildRaised
<1> QED BY <1>1, <1>2, <1>3, <1>4, <1>5 DEF Executor

(* The executor ends on its own account only without a goal alive.         *)
LEMMA EndsWithoutGoal == Core /\ Executor /\ ~ChildRaised /\ pc' = "end" => goal \notin Live
<1> SUFFICES ASSUME Core, Executor, ~ChildRaised, pc' = "end" PROVE goal \notin Live
  OBVIOUS
<1> USE DEF GoTo, Core, ChildInItsLoop, Raised
<1>1. CASE Start \/ Validate \/ StepHead \/ BetweenSteps \/ PausedBetweenSteps \/ Succeed
  BY <1>1 DEF Start, Validate, StepHead, BetweenSteps, PausedBetweenSteps, Succeed
<1>2. CASE BeginWaypoint \/ BeginWait \/ WaitElapsed \/ WaitCanceled \/ EventReceived
  BY <1>2 DEF BeginWaypoint, BeginWait, WaitElapsed, WaitCanceled, EventReceived
<1>3. CASE WaitPaused \/ WaitSleep \/ WaitWoken \/ WaitContinued \/ ClearPause
  BY <1>3 DEF WaitPaused, WaitSleep, WaitWoken, WaitContinued, ClearPause
<1>4. CASE Held \/ HeldCheck \/ Resume \/ Resuming \/ CancelTerminal
  BY <1>4 DEF Held, HeldCheck, Resume, Resuming, CancelTerminal
<1>5. CASE SpawnChild \/ InterruptChild \/ ChildDone \/ CancelChild \/ CancelAnswered \/ JoinChild
  BY <1>5 DEF SpawnChild, InterruptChild, ChildDone, CancelChild, CancelAnswered, JoinChild
<1> QED BY <1>1, <1>2, <1>3, <1>4, <1>5 DEF Executor

LEMMA ExecutorFalls == IInv /\ Executor => FallenIsOver'
<1> SUFFICES ASSUME IInv, Executor PROVE FallenIsOver'
  OBVIOUS
<1>1. CASE ChildRaised
  BY <1>1 DEF ChildRaised, Collapse, GoTo, FallenIsOver
<1>2. CASE ~ChildRaised
  <2>1. error' # "INTERNAL"
    BY <1>2, ErrorsHaveNames, ExecutorIsAtWork DEF IInv, FallenIsOver
  <2>2. pc' = "end" => goal' \notin Live
    BY <1>2, EndsWithoutGoal, ExecutorIsAtWork DEF IInv
  <2> QED BY <2>1, <2>2 DEF FallenIsOver
<1> QED BY <1>1, <1>2

(* A run that is taken down keeps the invariant.                           *)
LEMMA CollapseKeeps ==
  ASSUME IInv, Collapse, LocalsUnchanged,
         UNCHANGED <<raised, step, signals, cursor, request, handle, result, serverVars, envVars, released>>
  PROVE  IInv'
<1> USE DEF IInv, Core, TypeOK, Collapse, GoTo
<1>1. NeverRaises' /\ PlaceFixesState' /\ InsideStep' /\ ChildInItsLoop' /\ FallenIsOver'
  BY DEF NeverRaises, PlaceFixesState, InsideStep, ChildInItsLoop, FallenIsOver, Holding
<1>2. ExecutorTypeOK'
  BY DEF LocalsUnchanged, ExecutorTypeOK, Places, ErrorCodes, Lifecycle!MissionStates
<1>3. RunnerTypeOK' /\ ServerTypeOK' /\ EnvTypeOK'
  BY DEF serverVars, envVars, RunnerTypeOK, ServerTypeOK, EnvTypeOK
<1> QED BY <1>1, <1>2, <1>3

(* Every step of the executor coroutine preserves the invariant.           *)
LEMMA ExecutorStep == IInv /\ Executor => IInv'
<1> SUFFICES ASSUME IInv, Executor PROVE Core'
  BY ExecutorFalls DEF IInv
<1> USE LengthIsNatural DEF IInv, Core, TypeOK, GoTo
<1>1. CASE Start
  <2>1. NeverRaises' /\ PlaceFixesState'
    BY <1>1, SuccessorFacts DEF Start, Transition, QuietStep, LocalsUnchanged, NeverRaises,
       PlaceFixesState, ExecutorTypeOK
  <2>2. ExecutorTypeOK'
    BY <1>1, SuccessorFacts DEF Start, Transition, QuietStep, LocalsUnchanged, ExecutorTypeOK,
       PlaceFixesState, InsideStep, Places, ErrorCodes, Lifecycle!MissionStates
  <2>3. InsideStep' /\ ChildInItsLoop'
    BY <1>1 DEF Start, QuietStep, ElseUnchanged, LocalsUnchanged, runnerVars, serverVars,
       ExecutorTypeOK, InsideStep, ChildInItsLoop, Raised, Holding
  <2>4. RunnerTypeOK' /\ ServerTypeOK' /\ EnvTypeOK'
    BY <1>1 DEF Start, QuietStep, ElseUnchanged, runnerVars, serverVars, envVars, RunnerTypeOK,
       ServerTypeOK, EnvTypeOK
  <2> QED BY <2>1, <2>2, <2>3, <2>4
<1>2. CASE Validate
  <2>1. NeverRaises' /\ PlaceFixesState'
    BY <1>2, SuccessorFacts DEF Validate, Fail, Transition, Lifecycle!Terminal, QuietStep,
       LocalsUnchanged, NeverRaises, PlaceFixesState, ExecutorTypeOK
  <2>2. ExecutorTypeOK'
    BY <1>2, SuccessorFacts DEF Validate, Fail, Transition, Lifecycle!Terminal, Verdict,
       GatesReady, QuietStep, LocalsUnchanged, ExecutorTypeOK, PlaceFixesState, InsideStep,
       Places, ErrorCodes, Lifecycle!MissionStates
  <2>3. InsideStep' /\ ChildInItsLoop'
    BY <1>2 DEF Validate, Fail, QuietStep, ElseUnchanged, LocalsUnchanged, runnerVars,
       serverVars, ExecutorTypeOK, InsideStep, ChildInItsLoop, Raised, Holding
  <2>4. RunnerTypeOK' /\ ServerTypeOK' /\ EnvTypeOK'
    BY <1>2 DEF Validate, QuietStep, ElseUnchanged, runnerVars, serverVars, envVars,
       RunnerTypeOK, ServerTypeOK, EnvTypeOK
  <2> QED BY <2>1, <2>2, <2>3, <2>4
<1>3. CASE StepHead
  <2>1. NeverRaises' /\ PlaceFixesState'
    BY <1>3, SuccessorFacts DEF StepHead, BeginCancel, Transition, QuietStep, LocalsUnchanged,
       NeverRaises, PlaceFixesState, ExecutorTypeOK
  <2>2. ExecutorTypeOK'
    BY <1>3, SuccessorFacts DEF StepHead, BeginCancel, Transition, QuietStep, LocalsUnchanged,
       ExecutorTypeOK, PlaceFixesState, InsideStep, Places, ErrorCodes, Lifecycle!MissionStates
  <2>3. InsideStep' /\ ChildInItsLoop'
    BY <1>3 DEF StepHead, BeginCancel, QuietStep, ElseUnchanged, LocalsUnchanged, runnerVars,
       serverVars, ExecutorTypeOK, InsideStep, ChildInItsLoop, Raised, Holding
  <2>4. RunnerTypeOK' /\ ServerTypeOK' /\ EnvTypeOK'
    BY <1>3 DEF StepHead, QuietStep, ElseUnchanged, runnerVars, serverVars, envVars,
       RunnerTypeOK, ServerTypeOK, EnvTypeOK
  <2> QED BY <2>1, <2>2, <2>3, <2>4
<1>4. CASE BetweenSteps
  <2>1. NeverRaises' /\ PlaceFixesState'
    BY <1>4, SuccessorFacts DEF BetweenSteps, Transition, QuietStep, LocalsUnchanged,
       NeverRaises, PlaceFixesState, ExecutorTypeOK
  <2>2. ExecutorTypeOK'
    BY <1>4, SuccessorFacts DEF BetweenSteps, Transition, QuietStep, LocalsUnchanged,
       ExecutorTypeOK, PlaceFixesState, InsideStep, Places, ErrorCodes, Lifecycle!MissionStates
  <2>3. InsideStep' /\ ChildInItsLoop'
    BY <1>4 DEF BetweenSteps, QuietStep, ElseUnchanged, LocalsUnchanged, runnerVars, serverVars,
       ExecutorTypeOK, InsideStep, ChildInItsLoop, Raised, Holding
  <2>4. RunnerTypeOK' /\ ServerTypeOK' /\ EnvTypeOK'
    BY <1>4 DEF BetweenSteps, QuietStep, ElseUnchanged, runnerVars, serverVars, envVars,
       RunnerTypeOK, ServerTypeOK, EnvTypeOK
  <2> QED BY <2>1, <2>2, <2>3, <2>4
<1>5. CASE PausedBetweenSteps
  <2>1. NeverRaises' /\ PlaceFixesState'
    BY <1>5, SuccessorFacts DEF PausedBetweenSteps, Transition, NeverRaises, PlaceFixesState,
       ExecutorTypeOK
  <2>2. ExecutorTypeOK'
    BY <1>5, SuccessorFacts DEF PausedBetweenSteps, Transition, ExecutorTypeOK, PlaceFixesState,
       InsideStep, Places, ErrorCodes, Lifecycle!MissionStates
  <2>3. InsideStep' /\ ChildInItsLoop'
    BY <1>5 DEF PausedBetweenSteps, ElseUnchanged, runnerVars, serverVars, ExecutorTypeOK,
       InsideStep, ChildInItsLoop, Raised, Holding
  <2>4. RunnerTypeOK' /\ ServerTypeOK' /\ EnvTypeOK'
    BY <1>5 DEF PausedBetweenSteps, ElseUnchanged, runnerVars, serverVars, envVars,
       RunnerTypeOK, ServerTypeOK, EnvTypeOK
  <2> QED BY <2>1, <2>2, <2>3, <2>4
<1>6. CASE Succeed
  <2>1. NeverRaises' /\ PlaceFixesState'
    BY <1>6, SuccessorFacts DEF Succeed, Transition, QuietStep, LocalsUnchanged, NeverRaises,
       PlaceFixesState, ExecutorTypeOK
  <2>2. ExecutorTypeOK'
    BY <1>6, SuccessorFacts DEF Succeed, Transition, QuietStep, LocalsUnchanged, ExecutorTypeOK,
       PlaceFixesState, InsideStep, Places, ErrorCodes, Lifecycle!MissionStates
  <2>3. InsideStep' /\ ChildInItsLoop'
    BY <1>6 DEF Succeed, QuietStep, ElseUnchanged, LocalsUnchanged, runnerVars, serverVars,
       ExecutorTypeOK, InsideStep, ChildInItsLoop, Raised, Holding
  <2>4. RunnerTypeOK' /\ ServerTypeOK' /\ EnvTypeOK'
    BY <1>6 DEF Succeed, QuietStep, ElseUnchanged, runnerVars, serverVars, envVars,
       RunnerTypeOK, ServerTypeOK, EnvTypeOK
  <2> QED BY <2>1, <2>2, <2>3, <2>4
<1>7. CASE BeginWaypoint
  <2>1. NeverRaises' /\ PlaceFixesState'
    BY <1>7, SuccessorFacts DEF BeginWaypoint, Fail, Transition, Lifecycle!Terminal,
       LocalsUnchanged, NeverRaises, PlaceFixesState, ExecutorTypeOK
  <2>2. ExecutorTypeOK'
    BY <1>7, SuccessorFacts DEF BeginWaypoint, Fail, Transition, Lifecycle!Terminal, Verdict,
       GatesReady, LocalsUnchanged, ExecutorTypeOK, PlaceFixesState, InsideStep, Places,
       ErrorCodes, Lifecycle!MissionStates
  <2>3. InsideStep' /\ ChildInItsLoop'
    BY <1>7 DEF BeginWaypoint, Fail, ElseUnchanged, LocalsUnchanged, runnerVars, serverVars,
       ExecutorTypeOK, InsideStep, ChildInItsLoop, Raised, Holding
  <2>4. RunnerTypeOK' /\ ServerTypeOK' /\ EnvTypeOK'
    BY <1>7, TaskAssumption DEF BeginWaypoint, ElseUnchanged, runnerVars, serverVars, envVars,
       Cursor, RunnerTypeOK, ServerTypeOK, EnvTypeOK
  <2> QED BY <2>1, <2>2, <2>3, <2>4
<1>8. CASE BeginWait
  <2>1. NeverRaises' /\ PlaceFixesState'
    BY <1>8, SuccessorFacts DEF BeginWait, WaitState, Transition, NeverRaises, PlaceFixesState,
       ExecutorTypeOK
  <2>2. ExecutorTypeOK'
    BY <1>8, SuccessorFacts, TaskAssumption DEF BeginWait, WaitState, Transition,
       ExecutorTypeOK, PlaceFixesState, InsideStep, Places, ErrorCodes, Lifecycle!MissionStates
  <2>3. InsideStep' /\ ChildInItsLoop'
    BY <1>8, TaskAssumption DEF BeginWait, ElseUnchanged, runnerVars, serverVars,
       ExecutorTypeOK, InsideStep, ChildInItsLoop, Raised, Holding
  <2>4. RunnerTypeOK' /\ ServerTypeOK' /\ EnvTypeOK'
    BY <1>8 DEF BeginWait, ElseUnchanged, runnerVars, serverVars, envVars, RunnerTypeOK,
       ServerTypeOK, EnvTypeOK
  <2> QED BY <2>1, <2>2, <2>3, <2>4
<1>9. CASE WaitElapsed
  <2>1. NeverRaises' /\ PlaceFixesState'
    BY <1>9, SuccessorFacts DEF WaitElapsed, Fail, StepDone, Transition, Lifecycle!Terminal,
       QuietStep, LocalsUnchanged, NeverRaises, PlaceFixesState, ExecutorTypeOK
  <2>2. ExecutorTypeOK'
    BY <1>9, SuccessorFacts DEF WaitElapsed, Fail, StepDone, Transition, Lifecycle!Terminal,
       QuietStep, LocalsUnchanged, ExecutorTypeOK, PlaceFixesState, InsideStep, Places,
       ErrorCodes, Lifecycle!MissionStates
  <2>3. InsideStep' /\ ChildInItsLoop'
    BY <1>9 DEF WaitElapsed, Fail, StepDone, QuietStep, ElseUnchanged, LocalsUnchanged,
       runnerVars, serverVars, ExecutorTypeOK, InsideStep, ChildInItsLoop, Raised, Holding
  <2>4. RunnerTypeOK' /\ ServerTypeOK' /\ EnvTypeOK'
    BY <1>9 DEF WaitElapsed, QuietStep, ElseUnchanged, runnerVars, serverVars, envVars,
       RunnerTypeOK, ServerTypeOK, EnvTypeOK
  <2> QED BY <2>1, <2>2, <2>3, <2>4
<1>10. CASE WaitCanceled
  <2>1. NeverRaises' /\ PlaceFixesState'
    BY <1>10, SuccessorFacts DEF WaitCanceled, BeginCancel, Transition, QuietStep,
       LocalsUnchanged, NeverRaises, PlaceFixesState, ExecutorTypeOK
  <2>2. ExecutorTypeOK'
    BY <1>10, SuccessorFacts DEF WaitCanceled, BeginCancel, Transition, QuietStep,
       LocalsUnchanged, ExecutorTypeOK, PlaceFixesState, InsideStep, Places, ErrorCodes,
       Lifecycle!MissionStates
  <2>3. InsideStep' /\ ChildInItsLoop'
    BY <1>10 DEF WaitCanceled, BeginCancel, QuietStep, ElseUnchanged, LocalsUnchanged,
       runnerVars, serverVars, ExecutorTypeOK, InsideStep, ChildInItsLoop, Raised, Holding
  <2>4. RunnerTypeOK' /\ ServerTypeOK' /\ EnvTypeOK'
    BY <1>10 DEF WaitCanceled, QuietStep, ElseUnchanged, runnerVars, serverVars, envVars,
       RunnerTypeOK, ServerTypeOK, EnvTypeOK
  <2> QED BY <2>1, <2>2, <2>3, <2>4
<1>11. CASE EventReceived
  <2>1. NeverRaises' /\ PlaceFixesState'
    BY <1>11, SuccessorFacts DEF EventReceived, StepDone, Transition, LocalsUnchanged,
       NeverRaises, PlaceFixesState, ExecutorTypeOK
  <2>2. ExecutorTypeOK'
    BY <1>11, SuccessorFacts DEF EventReceived, StepDone, Transition, LocalsUnchanged,
       ExecutorTypeOK, PlaceFixesState, InsideStep, Places, ErrorCodes, Lifecycle!MissionStates
  <2>3. InsideStep' /\ ChildInItsLoop'
    BY <1>11 DEF EventReceived, StepDone, LocalsUnchanged, runnerVars, serverVars,
       ExecutorTypeOK, InsideStep, ChildInItsLoop, Raised, Holding
  <2>4. RunnerTypeOK' /\ ServerTypeOK' /\ EnvTypeOK'
    BY <1>11 DEF EventReceived, runnerVars, serverVars, FreshEvents, RunnerTypeOK, ServerTypeOK,
       EnvTypeOK
  <2> QED BY <2>1, <2>2, <2>3, <2>4
<1>12. CASE WaitPaused
  <2>1. NeverRaises' /\ PlaceFixesState'
    BY <1>12, SuccessorFacts DEF WaitPaused, Transition, NeverRaises, PlaceFixesState,
       ExecutorTypeOK
  <2>2. ExecutorTypeOK'
    BY <1>12, SuccessorFacts DEF WaitPaused, Transition, ExecutorTypeOK, PlaceFixesState,
       InsideStep, Places, ErrorCodes, Lifecycle!MissionStates
  <2>3. InsideStep' /\ ChildInItsLoop'
    BY <1>12 DEF WaitPaused, ElseUnchanged, runnerVars, serverVars, ExecutorTypeOK, InsideStep,
       ChildInItsLoop, Raised, Holding
  <2>4. RunnerTypeOK' /\ ServerTypeOK' /\ EnvTypeOK'
    BY <1>12 DEF WaitPaused, ElseUnchanged, runnerVars, serverVars, envVars, FreshEvents,
       RunnerTypeOK, ServerTypeOK, EnvTypeOK
  <2> QED BY <2>1, <2>2, <2>3, <2>4
<1>13. CASE WaitSleep
  <2>1. NeverRaises' /\ PlaceFixesState'
    BY <1>13 DEF WaitSleep, QuietStep, LocalsUnchanged, NeverRaises, PlaceFixesState,
       ExecutorTypeOK
  <2>2. ExecutorTypeOK'
    BY <1>13 DEF WaitSleep, QuietStep, LocalsUnchanged, ExecutorTypeOK, PlaceFixesState,
       InsideStep, Places, ErrorCodes, Lifecycle!MissionStates
  <2>3. InsideStep' /\ ChildInItsLoop'
    BY <1>13 DEF WaitSleep, QuietStep, ElseUnchanged, LocalsUnchanged, runnerVars, serverVars,
       ExecutorTypeOK, InsideStep, ChildInItsLoop, Raised, Holding
  <2>4. RunnerTypeOK' /\ ServerTypeOK' /\ EnvTypeOK'
    BY <1>13 DEF WaitSleep, QuietStep, ElseUnchanged, runnerVars, serverVars, envVars,
       FreshEvents, RunnerTypeOK, ServerTypeOK, EnvTypeOK
  <2> QED BY <2>1, <2>2, <2>3, <2>4
<1>14. CASE WaitWoken
  <2>1. NeverRaises' /\ PlaceFixesState'
    BY <1>14 DEF WaitWoken, NeverRaises, PlaceFixesState, ExecutorTypeOK
  <2>2. ExecutorTypeOK'
    BY <1>14, TaskAssumption DEF WaitWoken, ExecutorTypeOK, PlaceFixesState, InsideStep, Places,
       ErrorCodes, Lifecycle!MissionStates
  <2>3. InsideStep' /\ ChildInItsLoop'
    BY <1>14 DEF WaitWoken, ElseUnchanged, runnerVars, serverVars, ExecutorTypeOK, InsideStep,
       ChildInItsLoop, Raised, Holding
  <2>4. RunnerTypeOK' /\ ServerTypeOK' /\ EnvTypeOK'
    BY <1>14 DEF WaitWoken, ElseUnchanged, runnerVars, serverVars, envVars, RunnerTypeOK,
       ServerTypeOK, EnvTypeOK
  <2> QED BY <2>1, <2>2, <2>3, <2>4
<1>15. CASE WaitContinued
  <2>1. NeverRaises' /\ PlaceFixesState'
    BY <1>15, SuccessorFacts DEF WaitContinued, WaitState, Transition, QuietStep,
       LocalsUnchanged, NeverRaises, PlaceFixesState, ExecutorTypeOK
  <2>2. ExecutorTypeOK'
    BY <1>15, SuccessorFacts DEF WaitContinued, WaitState, Transition, QuietStep,
       LocalsUnchanged, ExecutorTypeOK, PlaceFixesState, InsideStep, Places, ErrorCodes,
       Lifecycle!MissionStates
  <2>3. InsideStep' /\ ChildInItsLoop'
    BY <1>15 DEF WaitContinued, QuietStep, ElseUnchanged, LocalsUnchanged, runnerVars,
       serverVars, ExecutorTypeOK, InsideStep, ChildInItsLoop, Raised, Holding
  <2>4. RunnerTypeOK' /\ ServerTypeOK' /\ EnvTypeOK'
    BY <1>15 DEF WaitContinued, QuietStep, ElseUnchanged, runnerVars, serverVars, envVars,
       RunnerTypeOK, ServerTypeOK, EnvTypeOK
  <2> QED BY <2>1, <2>2, <2>3, <2>4
<1>16. CASE ClearPause
  <2>1. NeverRaises' /\ PlaceFixesState'
    BY <1>16 DEF ClearPause, QuietStep, LocalsUnchanged, NeverRaises, PlaceFixesState,
       ExecutorTypeOK
  <2>2. ExecutorTypeOK'
    BY <1>16 DEF ClearPause, QuietStep, LocalsUnchanged, ExecutorTypeOK, PlaceFixesState,
       InsideStep, Places, ErrorCodes, Lifecycle!MissionStates
  <2>3. InsideStep' /\ ChildInItsLoop'
    BY <1>16 DEF ClearPause, QuietStep, ElseUnchanged, LocalsUnchanged, runnerVars, serverVars,
       ExecutorTypeOK, InsideStep, ChildInItsLoop, Raised, Holding
  <2>4. RunnerTypeOK' /\ ServerTypeOK' /\ EnvTypeOK'
    BY <1>16 DEF ClearPause, QuietStep, ElseUnchanged, runnerVars, serverVars, envVars,
       RunnerTypeOK, ServerTypeOK, EnvTypeOK
  <2> QED BY <2>1, <2>2, <2>3, <2>4
<1>17. CASE Held
  <2>1. NeverRaises' /\ PlaceFixesState'
    BY <1>17 DEF Held, LocalsUnchanged, NeverRaises, PlaceFixesState, ExecutorTypeOK
  <2>2. ExecutorTypeOK'
    BY <1>17 DEF Held, LocalsUnchanged, ExecutorTypeOK, PlaceFixesState, InsideStep, Places,
       ErrorCodes, Lifecycle!MissionStates
  <2>3. InsideStep' /\ ChildInItsLoop'
    BY <1>17 DEF Held, ElseUnchanged, LocalsUnchanged, runnerVars, serverVars, ExecutorTypeOK,
       InsideStep, ChildInItsLoop, Raised, Holding
  <2>4. RunnerTypeOK' /\ ServerTypeOK' /\ EnvTypeOK'
    BY <1>17 DEF Held, ElseUnchanged, runnerVars, serverVars, envVars, RunnerTypeOK,
       ServerTypeOK, EnvTypeOK
  <2> QED BY <2>1, <2>2, <2>3, <2>4
<1>18. CASE HeldCheck
  <2>1. NeverRaises' /\ PlaceFixesState'
    BY <1>18, SuccessorFacts DEF HeldCheck, BeginCancel, Transition, QuietStep, LocalsUnchanged,
       NeverRaises, PlaceFixesState, ExecutorTypeOK
  <2>2. ExecutorTypeOK'
    BY <1>18, SuccessorFacts DEF HeldCheck, BeginCancel, Transition, QuietStep, LocalsUnchanged,
       ExecutorTypeOK, PlaceFixesState, InsideStep, Places, ErrorCodes, Lifecycle!MissionStates
  <2>3. InsideStep' /\ ChildInItsLoop'
    BY <1>18 DEF HeldCheck, BeginCancel, QuietStep, ElseUnchanged, LocalsUnchanged, runnerVars,
       serverVars, ExecutorTypeOK, InsideStep, ChildInItsLoop, Raised, Holding
  <2>4. RunnerTypeOK' /\ ServerTypeOK' /\ EnvTypeOK'
    BY <1>18 DEF HeldCheck, QuietStep, ElseUnchanged, runnerVars, serverVars, envVars,
       RunnerTypeOK, ServerTypeOK, EnvTypeOK
  <2> QED BY <2>1, <2>2, <2>3, <2>4
<1>19. CASE Resume
  <2>1. NeverRaises' /\ PlaceFixesState'
    BY <1>19, SuccessorFacts DEF Resume, Transition, QuietStep, LocalsUnchanged, NeverRaises,
       PlaceFixesState, ExecutorTypeOK
  <2>2. ExecutorTypeOK'
    BY <1>19, SuccessorFacts DEF Resume, Transition, QuietStep, LocalsUnchanged, ExecutorTypeOK,
       PlaceFixesState, InsideStep, Places, ErrorCodes, Lifecycle!MissionStates
  <2>3. InsideStep' /\ ChildInItsLoop'
    BY <1>19 DEF Resume, QuietStep, ElseUnchanged, LocalsUnchanged, runnerVars, serverVars,
       ExecutorTypeOK, InsideStep, ChildInItsLoop, Raised, Holding
  <2>4. RunnerTypeOK' /\ ServerTypeOK' /\ EnvTypeOK'
    BY <1>19 DEF Resume, QuietStep, ElseUnchanged, runnerVars, serverVars, envVars,
       RunnerTypeOK, ServerTypeOK, EnvTypeOK
  <2> QED BY <2>1, <2>2, <2>3, <2>4
<1>20. CASE Resuming
  <2>1. NeverRaises' /\ PlaceFixesState'
    BY <1>20, SuccessorFacts DEF Resuming, Fail, Continuation, Transition, Lifecycle!Terminal,
       QuietStep, LocalsUnchanged, NeverRaises, PlaceFixesState, ExecutorTypeOK
  <2>2. ExecutorTypeOK'
    BY <1>20, SuccessorFacts DEF Resuming, Fail, Continuation, Transition, Lifecycle!Terminal,
       Verdict, GatesReady, QuietStep, LocalsUnchanged, ExecutorTypeOK, PlaceFixesState,
       InsideStep, Places, ErrorCodes, Lifecycle!MissionStates
  <2>3. InsideStep' /\ ChildInItsLoop'
    BY <1>20 DEF Resuming, Fail, Continuation, QuietStep, ElseUnchanged, LocalsUnchanged,
       runnerVars, serverVars, ExecutorTypeOK, InsideStep, ChildInItsLoop, Raised, Holding
  <2>4. RunnerTypeOK' /\ ServerTypeOK' /\ EnvTypeOK'
    BY <1>20 DEF Resuming, QuietStep, ElseUnchanged, runnerVars, serverVars, envVars,
       RunnerTypeOK, ServerTypeOK, EnvTypeOK
  <2> QED BY <2>1, <2>2, <2>3, <2>4
<1>21. CASE CancelTerminal
  <2>1. NeverRaises' /\ PlaceFixesState'
    BY <1>21, SuccessorFacts DEF CancelTerminal, Transition, QuietStep, LocalsUnchanged,
       NeverRaises, PlaceFixesState, ExecutorTypeOK
  <2>2. ExecutorTypeOK'
    BY <1>21, SuccessorFacts DEF CancelTerminal, Transition, QuietStep, LocalsUnchanged,
       ExecutorTypeOK, PlaceFixesState, InsideStep, Places, ErrorCodes, Lifecycle!MissionStates
  <2>3. InsideStep' /\ ChildInItsLoop'
    BY <1>21 DEF CancelTerminal, QuietStep, ElseUnchanged, LocalsUnchanged, runnerVars,
       serverVars, ExecutorTypeOK, InsideStep, ChildInItsLoop, Raised, Holding
  <2>4. RunnerTypeOK' /\ ServerTypeOK' /\ EnvTypeOK'
    BY <1>21 DEF CancelTerminal, QuietStep, ElseUnchanged, runnerVars, serverVars, envVars,
       RunnerTypeOK, ServerTypeOK, EnvTypeOK
  <2> QED BY <2>1, <2>2, <2>3, <2>4
<1>22. CASE SpawnChild
  <2>1. NeverRaises' /\ PlaceFixesState'
    BY <1>22 DEF SpawnChild, LocalsUnchanged, NeverRaises, PlaceFixesState, ExecutorTypeOK
  <2>2. ExecutorTypeOK'
    BY <1>22 DEF SpawnChild, LocalsUnchanged, ExecutorTypeOK, PlaceFixesState, InsideStep,
       Places, ErrorCodes, Lifecycle!MissionStates
  <2>3. InsideStep' /\ ChildInItsLoop'
    BY <1>22 DEF SpawnChild, LocalsUnchanged, serverVars, ExecutorTypeOK, InsideStep,
       ChildInItsLoop, Raised, Holding
  <2>4. RunnerTypeOK' /\ ServerTypeOK' /\ EnvTypeOK'
    BY <1>22 DEF SpawnChild, serverVars, envVars, RunnerTypeOK, ServerTypeOK, EnvTypeOK
  <2> QED BY <2>1, <2>2, <2>3, <2>4
<1>23. CASE InterruptChild
  <2>1. NeverRaises' /\ PlaceFixesState'
    BY <1>23, SuccessorFacts DEF InterruptChild, Transition, NeverRaises, PlaceFixesState,
       ExecutorTypeOK
  <2>2. ExecutorTypeOK'
    BY <1>23, SuccessorFacts DEF InterruptChild, Transition, ExecutorTypeOK, PlaceFixesState,
       InsideStep, Places, ErrorCodes, Lifecycle!MissionStates
  <2>3. InsideStep' /\ ChildInItsLoop'
    BY <1>23 DEF InterruptChild, ElseUnchanged, runnerVars, serverVars, ExecutorTypeOK,
       InsideStep, ChildInItsLoop, Raised, Holding
  <2>4. RunnerTypeOK' /\ ServerTypeOK' /\ EnvTypeOK'
    BY <1>23 DEF InterruptChild, ElseUnchanged, runnerVars, serverVars, envVars, RunnerTypeOK,
       ServerTypeOK, EnvTypeOK
  <2> QED BY <2>1, <2>2, <2>3, <2>4
<1>24. CASE ChildDone
  <2>1. NeverRaises' /\ PlaceFixesState'
    BY <1>24, SuccessorFacts DEF ChildDone, BeginCancel, Fail, StepDone, Transition,
       Lifecycle!Terminal, LocalsUnchanged, NeverRaises, PlaceFixesState, ExecutorTypeOK
  <2>2. ExecutorTypeOK'
    BY <1>24, SuccessorFacts DEF ChildDone, BeginCancel, Fail, StepDone, Transition,
       Lifecycle!Terminal, ChildCode, LocalsUnchanged, ExecutorTypeOK, PlaceFixesState,
       InsideStep, Places, ErrorCodes, Lifecycle!MissionStates
  <2>3. InsideStep' /\ ChildInItsLoop'
    BY <1>24 DEF ChildDone, BeginCancel, Fail, StepDone, LocalsUnchanged, serverVars,
       ExecutorTypeOK, InsideStep, ChildInItsLoop, Raised, Holding
  <2>4. RunnerTypeOK' /\ ServerTypeOK' /\ EnvTypeOK'
    BY <1>24 DEF ChildDone, serverVars, envVars, RunnerTypeOK, ServerTypeOK, EnvTypeOK
  <2> QED BY <2>1, <2>2, <2>3, <2>4
<1>25. CASE CancelChild
  <2>1. NeverRaises' /\ PlaceFixesState'
    BY <1>25 DEF CancelChild, NeverRaises, PlaceFixesState, ExecutorTypeOK
  <2>2. ExecutorTypeOK'
    <3>1. pc' \in Places /\ confirmed' \in BOOLEAN
      BY <1>25 DEF CancelChild, ExecutorTypeOK, Places
    <3>2. UNCHANGED <<fsm, raised, error, step, remaining, notBefore, site, intent>>
      BY <1>25 DEF CancelChild
    <3> QED BY <3>1, <3>2 DEF ExecutorTypeOK
  <2>3. InsideStep' /\ ChildInItsLoop'
    BY <1>25 DEF CancelChild, runnerVars, ExecutorTypeOK, InsideStep, ChildInItsLoop, Raised, Holding
  <2>4. RunnerTypeOK' /\ ServerTypeOK' /\ EnvTypeOK'
    BY <1>25 DEF CancelChild, runnerVars, envVars, RunnerTypeOK, ServerTypeOK, EnvTypeOK
  <2> QED BY <2>1, <2>2, <2>3, <2>4
<1>26. CASE CancelAnswered
  <2>1. NeverRaises' /\ PlaceFixesState'
    BY <1>26 DEF CancelAnswered, NeverRaises, PlaceFixesState, ExecutorTypeOK
  <2>2. ExecutorTypeOK'
    BY <1>26 DEF CancelAnswered, ExecutorTypeOK, PlaceFixesState, InsideStep, Places,
       ErrorCodes, Lifecycle!MissionStates
  <2>3. InsideStep' /\ ChildInItsLoop'
    BY <1>26 DEF CancelAnswered, runnerVars, ExecutorTypeOK, InsideStep, ChildInItsLoop, Raised, Holding
  <2>4. RunnerTypeOK' /\ ServerTypeOK' /\ EnvTypeOK'
    BY <1>26 DEF CancelAnswered, runnerVars, envVars, RunnerTypeOK, ServerTypeOK, EnvTypeOK
  <2> QED BY <2>1, <2>2, <2>3, <2>4
<1>27. CASE JoinChild
  <2>1. NeverRaises' /\ PlaceFixesState'
    BY <1>27, SuccessorFacts DEF JoinChild, Fail, Transition, Lifecycle!Terminal, NeverRaises,
       PlaceFixesState, ExecutorTypeOK
  <2>2. ExecutorTypeOK'
    BY <1>27, SuccessorFacts DEF JoinChild, Fail, Transition, Lifecycle!Terminal,
       ExecutorTypeOK, PlaceFixesState, InsideStep, Places, ErrorCodes, Lifecycle!MissionStates
  <2>3. InsideStep' /\ ChildInItsLoop'
    BY <1>27 DEF JoinChild, Fail, serverVars, ExecutorTypeOK, InsideStep, ChildInItsLoop, Raised,
       Holding
  <2>4. RunnerTypeOK' /\ ServerTypeOK' /\ EnvTypeOK'
    BY <1>27 DEF JoinChild, serverVars, envVars, RunnerTypeOK, ServerTypeOK, EnvTypeOK
  <2> QED BY <2>1, <2>2, <2>3, <2>4
<1>28. CASE ChildRaised
  BY <1>28, CollapseKeeps DEF ChildRaised
<1> QED
  BY <1>1, <1>2, <1>3, <1>4, <1>5, <1>6, <1>7, <1>8, <1>9, <1>10, <1>11, <1>12, <1>13, <1>14,
     <1>15, <1>16, <1>17, <1>18, <1>19, <1>20, <1>21, <1>22, <1>23, <1>24, <1>25, <1>26, <1>27,
     <1>28 DEF Executor

LEMMA RequestIsCursor == Request \subseteq Cursor
  BY TaskAssumption DEF Request, Cursor

(* Every step of the runner coroutine preserves the invariant.             *)
LEMMA RunnerStep == IInv /\ Runner => IInv'
<1> SUFFICES ASSUME IInv, Runner PROVE IInv'
  OBVIOUS
<1> USE DEF IInv, Core, TypeOK
<1>1. UNCHANGED <<executorVars, signals, envVars, released>>
  BY DEF Runner, RunStart, RunAnswered, RunResult, RunnerOnly
<1>2. NeverRaises' /\ PlaceFixesState' /\ InsideStep' /\ ExecutorTypeOK' /\ EnvTypeOK'
  BY <1>1 DEF executorVars, envVars, NeverRaises, PlaceFixesState, InsideStep, Holding,
     ExecutorTypeOK, EnvTypeOK
<1>3. child # "none"
  BY DEF Runner, RunStart, RunAnswered, RunResult
<1>4. child' # "none" /\ (goal' \in Live => child' \in {"sending", "awaiting"} \/ Raised')
  <2>1. CASE RunStart
    BY <2>1 DEF RunStart, Return, SendGoal, ChildInItsLoop, Raised, Live
  <2>2. CASE RunAnswered
    BY <2>2 DEF RunAnswered, Return, Raised, serverVars, Live
  <2>3. CASE RunResult
    BY <2>3 DEF RunResult, Return, SendGoal, Raised, Live, Finished
  <2> QED BY <2>1, <2>2, <2>3 DEF Runner
<1>5. ChildInItsLoop' /\ FallenIsOver'
  BY <1>1, <1>3, <1>4 DEF ChildInItsLoop, FallenIsOver, executorVars
<1>6. RunnerTypeOK' /\ ServerTypeOK'
  <2>1. CASE RunStart
    BY <2>1, TaskAssumption
    DEF RunStart, Return, SendGoal, Lesser, RunnerTypeOK, ServerTypeOK, Cursor, Request, Live
  <2>2. CASE RunAnswered
    <3>1. RunnerTypeOK'
      BY <2>2, RequestIsCursor DEF RunAnswered, Return, RunnerTypeOK
    <3>2. ServerTypeOK'
      BY <2>2 DEF RunAnswered, serverVars, ServerTypeOK
    <3> QED BY <3>1, <3>2
  <2>3. CASE RunResult
    <3>1. request.loop \in 0..(Loops - 1)
      BY DEF RunnerTypeOK, Request
    <3>2. [loop |-> request.loop + 1, wp |-> 0] \in Cursor
      BY <3>1, TaskAssumption DEF Cursor
    <3>3. request.loop + 1 < Loops => [loop |-> request.loop + 1, wp |-> 0] \in Request
      BY <3>1, TaskAssumption DEF Request
    <3>4. RunnerTypeOK'
      BY <2>3, <3>2, <3>3 DEF RunResult, Return, SendGoal, RunnerTypeOK
    <3>5. ServerTypeOK'
      BY <2>3 DEF RunResult, Return, SendGoal, ServerTypeOK, Live
    <3> QED BY <3>4, <3>5
  <2> QED BY <2>1, <2>2, <2>3 DEF Runner
<1> QED BY <1>2, <1>5, <1>6

(* Every step of the action server preserves the invariant.                *)
LEMMA ServerStep == IInv /\ Server => IInv'
<1> SUFFICES ASSUME IInv, Server PROVE IInv'
  OBVIOUS
<1> USE DEF IInv, Core, TypeOK
<1>1. UNCHANGED <<executorVars, signals, cursor, runnerVars, envVars, released>>
  BY DEF Server, ServerAnswer, ServerReach, ServerFeedback, ServerSucceed, ServerAbort,
     ServerTakeCancel, ServerCancel, ServerOnly
<1>2. /\ NeverRaises' /\ PlaceFixesState' /\ InsideStep'
      /\ ExecutorTypeOK' /\ RunnerTypeOK' /\ EnvTypeOK'
  BY <1>1 DEF executorVars, runnerVars, envVars, NeverRaises, PlaceFixesState, InsideStep,
     Holding, ExecutorTypeOK, RunnerTypeOK, EnvTypeOK
<1>3. goal' \in Live => goal \in Live
  BY DEF Server, ServerAnswer, ServerReach, ServerFeedback, ServerSucceed, ServerAbort,
     ServerTakeCancel, ServerCancel, Live, Finished
<1>4. ChildInItsLoop' /\ FallenIsOver'
  BY <1>1, <1>3 DEF ChildInItsLoop, FallenIsOver, Raised, executorVars, runnerVars
<1>5. ServerTypeOK'
  <2>1. CASE ServerAnswer
    BY <2>1, TaskAssumption DEF ServerAnswer, ServerTypeOK, RunnerTypeOK, Request, Live, Finished
  <2>2. CASE ServerReach
    BY <2>2, TaskAssumption
    DEF ServerReach, ServerTypeOK, ExecutorTypeOK, RunnerTypeOK, Request
  <2>3. CASE ServerFeedback
    BY <2>3, TaskAssumption
    DEF ServerFeedback, Lesser, ServerTypeOK, ExecutorTypeOK, RunnerTypeOK, Request
  <2>4. CASE ServerSucceed
    BY <2>4 DEF ServerSucceed, ServerTypeOK, Finished
  <2>5. CASE ServerAbort
    BY <2>5 DEF ServerAbort, ServerTypeOK, Finished
  <2>6. CASE ServerTakeCancel
    BY <2>6 DEF ServerTakeCancel, ServerTypeOK, Live
  <2>7. CASE ServerCancel
    BY <2>7 DEF ServerCancel, ServerTypeOK, Finished
  <2> QED BY <2>1, <2>2, <2>3, <2>4, <2>5, <2>6, <2>7 DEF Server
<1> QED BY <1>2, <1>4, <1>5

(* Requests, feedback, gates and events preserve the invariant.            *)
LEMMA EnvironmentStep == IInv /\ Environment => IInv'
<1> SUFFICES ASSUME IInv, Environment PROVE IInv'
  OBVIOUS
<1> USE DEF IInv, Core, TypeOK
<1>1. UNCHANGED <<executorVars, runnerVars, goal, progress, cancelMsg, visited, released>>
  BY DEF Environment, AskCheck, AskSet, FeedbackArrives, GatesChange, EventArrives, EnvOnly,
     serverVars
<1>2. /\ NeverRaises' /\ PlaceFixesState' /\ InsideStep' /\ ExecutorTypeOK' /\ ChildInItsLoop'
      /\ FallenIsOver'
  BY <1>1 DEF executorVars, runnerVars, NeverRaises, PlaceFixesState, InsideStep, Holding,
     ExecutorTypeOK, ChildInItsLoop, FallenIsOver, Raised
<1>3. RunnerTypeOK' /\ ServerTypeOK' /\ EnvTypeOK'
  <2>1. ASSUME NEW r \in Requests, AskCheck(r) PROVE RunnerTypeOK' /\ ServerTypeOK' /\ EnvTypeOK'
    BY <2>1 DEF AskCheck, EnvOnly, runnerVars, serverVars, RunnerTypeOK, ServerTypeOK, EnvTypeOK
  <2>2. ASSUME NEW r \in Requests \cup {"release"}, AskSet(r)
        PROVE  RunnerTypeOK' /\ ServerTypeOK' /\ EnvTypeOK'
    BY <2>2 DEF AskSet, EnvOnly, runnerVars, serverVars, RunnerTypeOK, ServerTypeOK, EnvTypeOK,
       Requests
  <2>3. CASE FeedbackArrives
    <3>1. PICK m \in feedback :
            /\ feedback' = feedback \ {m}
            /\ cursor' = IF m.step = step THEN m.at ELSE cursor
      BY <2>3 DEF FeedbackArrives
    <3>2. m.at \in Request
      BY DEF ServerTypeOK
    <3>3. RunnerTypeOK'
      BY <2>3, <3>1, <3>2, RequestIsCursor DEF FeedbackArrives, runnerVars, RunnerTypeOK
    <3>4. ServerTypeOK' /\ EnvTypeOK'
      BY <2>3, <3>1 DEF FeedbackArrives, envVars, ServerTypeOK, EnvTypeOK
    <3> QED BY <3>3, <3>4
  <2>4. CASE GatesChange
    BY <2>4 DEF GatesChange, EnvOnly, runnerVars, serverVars, RunnerTypeOK, ServerTypeOK, EnvTypeOK
  <2>5. CASE EventArrives
    BY <2>5 DEF EventArrives, EnvOnly, runnerVars, serverVars, RunnerTypeOK, ServerTypeOK,
       EnvTypeOK, ExecutorTypeOK
  <2> QED BY <2>1, <2>2, <2>3, <2>4, <2>5 DEF Environment
<1> QED BY <1>2, <1>3

(* The inductive invariant holds in every reachable state.                 *)
THEOREM InductiveInvariant == Spec => []IInv
<1>1. Init => IInv
  BY InitEstablishes
<1>2. IInv /\ [Next]_vars => IInv'
  <2> SUFFICES ASSUME IInv, [Next]_vars PROVE IInv'
    OBVIOUS
  <2>1. CASE Next
    BY <2>1, ExecutorStep, CollapseKeeps, RunnerStep, ServerStep, EnvironmentStep DEF Next, WriteFails
  <2>2. CASE UNCHANGED vars
    BY <2>2 DEF vars, executorVars, runnerVars, serverVars, envVars, IInv, Core, TypeOK,
       ExecutorTypeOK, RunnerTypeOK, ServerTypeOK, EnvTypeOK, NeverRaises, PlaceFixesState,
       InsideStep, ChildInItsLoop, FallenIsOver, Raised, Holding
  <2> QED BY <2>1, <2>2
<1> QED BY <1>1, <1>2, PTL DEF Spec

(* Every variable keeps its type.                                          *)
THEOREM TypeCorrect == Spec => []TypeOK
  BY InductiveInvariant, PTL DEF IInv, Core

(* No run of the executor asks the machine for an illegal transition.      *)
THEOREM NoIllegalTransition == Spec => []NeverRaises
  BY InductiveInvariant, PTL DEF IInv, Core

LEMMA HeldMeansStoppedFollows == IInv => HeldMeansStopped
  BY DEF IInv, Core, HeldMeansStopped, ChildInItsLoop, FallenIsOver, Raised, PlaceFixesState,
     Lifecycle!Moving

(* A child goal is alive only in RUNNING, PAUSING and CANCELING, or after  *)
(* an exception that made the mission FAILED.                              *)
THEOREM StoppedWhenHeld == Spec => []HeldMeansStopped
  BY HeldMeansStoppedFollows, InductiveInvariant, PTL

(* An executor step that is no exception moves the machine legally.        *)
LEMMA ExecutorMovesLegally ==
  Executor /\ ~ChildRaised => fsm' = fsm \/ fsm' \in Lifecycle!Successors[fsm]
<1> SUFFICES ASSUME Executor, ~ChildRaised
             PROVE  fsm' = fsm \/ fsm' \in Lifecycle!Successors[fsm]
  OBVIOUS
<1> USE DEF Transition, Fail, BeginCancel, QuietStep
<1>1. CASE Start \/ Validate \/ StepHead \/ BetweenSteps \/ PausedBetweenSteps \/ Succeed
  BY <1>1 DEF Start, Validate, StepHead, BetweenSteps, PausedBetweenSteps, Succeed
<1>2. CASE BeginWaypoint \/ BeginWait \/ WaitElapsed \/ WaitCanceled \/ EventReceived
  BY <1>2 DEF BeginWaypoint, BeginWait, WaitElapsed, WaitCanceled, EventReceived
<1>3. CASE WaitPaused \/ WaitSleep \/ WaitWoken \/ WaitContinued \/ ClearPause
  BY <1>3 DEF WaitPaused, WaitSleep, WaitWoken, WaitContinued, ClearPause
<1>4. CASE Held \/ HeldCheck \/ Resume \/ Resuming \/ CancelTerminal
  BY <1>4 DEF Held, HeldCheck, Resume, Resuming, CancelTerminal
<1>5. CASE SpawnChild \/ InterruptChild \/ ChildDone \/ CancelChild \/ CancelAnswered \/ JoinChild
  BY <1>5 DEF SpawnChild, InterruptChild, ChildDone, CancelChild, CancelAnswered, JoinChild
<1> QED BY <1>1, <1>2, <1>3, <1>4, <1>5 DEF Executor

(* The run, seen as its state and whether a child goal is alive, is a      *)
(* lifecycle: the executor's steps are Advance, Fall or a stutter, the     *)
(* runner's and the server's are Drive, LeftBehindEnds or a stutter.       *)
THEOREM ImplementsLifecycle == Spec => LifecycleSpec
<1> DEFINE driving == goal \in Live
<1>1. Init => Lifecycle!Init
  BY DEF Init, Lifecycle!Init
<1>2. IInv /\ IInv' /\ [Next]_vars => [Lifecycle!Next]_Lifecycle!lifecycleVars
  <2> SUFFICES ASSUME IInv, IInv', [Next]_vars PROVE [Lifecycle!Next]_Lifecycle!lifecycleVars
    OBVIOUS
  <2>0. HeldMeansStopped /\ HeldMeansStopped'
    <3>1. HeldMeansStopped
      BY HeldMeansStoppedFollows
    <3>2. HeldMeansStopped'
      BY HeldMeansStoppedFollows, PTL
    <3> QED BY <3>1, <3>2
  <2> USE DEF Live, Lifecycle!Next, Lifecycle!lifecycleVars
  <2>f. error = "INTERNAL" => pc = "end"
    BY DEF IInv, FallenIsOver
  <2>1. CASE Executor /\ ~ChildRaised
    <3>1. error # "INTERNAL" /\ error' # "INTERNAL" /\ goal' = goal
      BY <2>1, <2>f, ErrorsHaveNames, ExecutorIsAtWork
    <3> QED
      BY <2>0, <2>1, <3>1, ExecutorMovesLegally DEF HeldMeansStopped, Lifecycle!Advance
  <2>2. CASE ChildRaised \/ WriteFails
    <3>1. error # "INTERNAL" /\ Collapse /\ goal' = goal
      BY <2>2, <2>f DEF ChildRaised, WriteFails, serverVars
    <3> QED BY <3>1 DEF Collapse, Lifecycle!Fall
  <2>3. CASE Runner \/ Server \/ Environment
    <3>1. fsm' = fsm /\ error' = error /\ pc' = pc
      BY <2>3 DEF Runner, RunStart, RunAnswered, RunResult, RunnerOnly, Server, ServerAnswer,
         ServerReach, ServerFeedback, ServerSucceed, ServerAbort, ServerTakeCancel, ServerCancel,
         ServerOnly, Environment, AskCheck, AskSet, FeedbackArrives, GatesChange, EventArrives,
         EnvOnly, executorVars
    <3>2. CASE error # "INTERNAL"
      BY <2>0, <3>1, <3>2 DEF HeldMeansStopped, Lifecycle!Drive
    <3>3. CASE error = "INTERNAL"
      <4>1. child = "none"
        BY <2>f, <3>3 DEF IInv, Core, ChildInItsLoop
      <4>2. driving' => driving
        BY <2>3, <4>1 DEF Runner, RunStart, RunAnswered, RunResult, Server, ServerAnswer,
           ServerReach, ServerFeedback, ServerSucceed, ServerAbort, ServerTakeCancel, ServerCancel,
           Environment, AskCheck, AskSet, FeedbackArrives, GatesChange, EventArrives, EnvOnly,
           Finished, serverVars
      <4> QED BY <3>1, <3>3, <4>2 DEF Lifecycle!LeftBehindEnds
    <3> QED BY <3>2, <3>3
  <2>4. CASE UNCHANGED vars
    BY <2>4 DEF vars, executorVars, serverVars
  <2> QED BY <2>1, <2>2, <2>3, <2>4 DEF Next
<1> QED BY <1>1, <1>2, InductiveInvariant, PTL DEF Spec, LifecycleSpec, Lifecycle!Spec

-----------------------------------------------------------------------------
(* A resume flag that is set, or a request on its way to set one, stands   *)
(* for an accepted request that has not ended a hold yet.                  *)
One(condition) == IF condition THEN 1 ELSE 0
TokensBacked ==
  released + One("resume" \in signals) + One("resume" \in asking)
    + One("cancel" \in asking) + One("release" \in asking) <= asked["resume"] + asked["cancel"]

LEMMA TokensStep == TypeOK /\ TokensBacked /\ [Next]_vars => TokensBacked'
<1> SUFFICES ASSUME TypeOK, TokensBacked, [Next]_vars PROVE TokensBacked'
  OBVIOUS
<1>0. /\ released \in Nat /\ asked \in [Requests -> Nat]
      /\ asked["resume"] \in Nat /\ asked["cancel"] \in Nat
  BY DEF TypeOK, EnvTypeOK, Requests
<1>1. CASE Start \/ ClearPause
  BY <1>0, <1>1 DEF Start, ClearPause, QuietStep, ElseUnchanged, envVars, TokensBacked, One
<1>2. CASE Held
  BY <1>0, <1>2 DEF Held, ElseUnchanged, envVars, TokensBacked, One
<1>3. CASE Executor /\ ~(Start \/ ClearPause \/ Held)
  <2>1. UNCHANGED <<signals, asking, asked, released>>
    BY <1>3 DEF Executor, Validate, StepHead, BetweenSteps, PausedBetweenSteps, Succeed,
       BeginWaypoint, BeginWait, WaitElapsed, WaitCanceled, EventReceived, WaitPaused, WaitSleep,
       WaitWoken, WaitContinued, HeldCheck, Resume, Resuming, CancelTerminal, SpawnChild,
       InterruptChild, ChildDone, CancelChild, CancelAnswered, JoinChild, ChildRaised, QuietStep,
       ElseUnchanged, envVars
  <2> QED BY <2>1 DEF TokensBacked
<1>4. CASE Runner \/ Server \/ FeedbackArrives \/ GatesChange \/ EventArrives
  <2>1. UNCHANGED <<signals, asking, asked, released>>
    BY <1>4 DEF Runner, RunStart, RunAnswered, RunResult, RunnerOnly, Server, ServerAnswer,
       ServerReach, ServerFeedback, ServerSucceed, ServerAbort, ServerTakeCancel, ServerCancel,
       ServerOnly, FeedbackArrives, GatesChange, EventArrives, EnvOnly, envVars
  <2> QED BY <2>1 DEF TokensBacked
<1>5. ASSUME NEW r \in Requests, AskCheck(r) PROVE TokensBacked'
  BY <1>0, <1>5 DEF AskCheck, EnvOnly, TokensBacked, One, Requests
<1>6. ASSUME NEW r \in Requests \cup {"release"}, AskSet(r) PROVE TokensBacked'
  BY <1>0, <1>6 DEF AskSet, EnvOnly, TokensBacked, One, Requests
<1>7. CASE UNCHANGED vars \/ WriteFails
  BY <1>7 DEF vars, envVars, WriteFails, TokensBacked
<1> QED BY <1>1, <1>2, <1>3, <1>4, <1>5, <1>6, <1>7 DEF Next, Environment

(* No accepted resume or cancel request ends two holds.                    *)
THEOREM HoldsEndOnRequest == Spec => []ResumesAreBacked
<1>1. Init => TokensBacked
  BY DEF Init, TokensBacked, One, Requests
<1>2. TypeOK /\ TokensBacked => ResumesAreBacked
  BY DEF TypeOK, EnvTypeOK, Requests, TokensBacked, One, ResumesAreBacked
<1> QED BY <1>1, <1>2, TokensStep, TypeCorrect, PTL DEF Spec

-----------------------------------------------------------------------------
(* CANCELED is entered only through CANCELING, and that only by a step that*)
(* has read the cancel flag, which nothing clears after the start.         *)
LEMMA CancelStep == IInv /\ CanceledOnlyOnRequest /\ [Next]_vars => CanceledOnlyOnRequest'
<1> SUFFICES ASSUME IInv, CanceledOnlyOnRequest, [Next]_vars PROVE CanceledOnlyOnRequest'
  OBVIOUS
<1> USE DEF CanceledOnlyOnRequest
<1>0. PlaceFixesState
  BY DEF IInv, Core
<1>1. CASE Start
  BY <1>0, <1>1 DEF Start, Transition, QuietStep, PlaceFixesState
<1>2. CASE Executor /\ ~Start
  <2>1. "cancel" \in signals => "cancel" \in signals'
    BY <1>2 DEF Executor, Validate, StepHead, BetweenSteps, PausedBetweenSteps, Succeed,
       BeginWaypoint, BeginWait, WaitElapsed, WaitCanceled, EventReceived, WaitPaused, WaitSleep,
       WaitWoken, WaitContinued, ClearPause, Held, HeldCheck, Resume, Resuming, CancelTerminal,
       SpawnChild, InterruptChild, ChildDone, CancelChild, CancelAnswered, JoinChild, ChildRaised,
       QuietStep, ElseUnchanged
  <2>2. fsm' \in {"CANCELING", "CANCELED"} => "cancel" \in signals
    <3> USE DEF Transition, Fail, BeginCancel, QuietStep
    <3>1. CASE Validate \/ StepHead \/ BetweenSteps \/ PausedBetweenSteps \/ Succeed \/ BeginWaypoint
      BY <3>1 DEF Validate, StepHead, BetweenSteps, PausedBetweenSteps, Succeed, BeginWaypoint
    <3>2. CASE BeginWait \/ WaitElapsed \/ WaitCanceled \/ EventReceived \/ WaitPaused \/ WaitSleep
      BY <3>2 DEF BeginWait, WaitState, WaitElapsed, WaitCanceled, EventReceived, WaitPaused, WaitSleep
    <3>3. CASE WaitWoken \/ WaitContinued \/ ClearPause \/ Held \/ HeldCheck \/ Resume \/ Resuming
      BY <3>3 DEF WaitWoken, WaitContinued, WaitState, ClearPause, Held, HeldCheck, Resume, Resuming
    <3>4. CASE CancelTerminal
      BY <1>0, <3>4 DEF CancelTerminal, PlaceFixesState
    <3>5. CASE SpawnChild \/ InterruptChild \/ ChildDone \/ CancelChild \/ CancelAnswered \/ JoinChild
      BY <3>5 DEF SpawnChild, InterruptChild, ChildDone, CancelChild, CancelAnswered, JoinChild
    <3>6. CASE ChildRaised
      BY <3>6 DEF ChildRaised, Collapse
    <3> QED BY <1>2, <3>1, <3>2, <3>3, <3>4, <3>5, <3>6 DEF Executor
  <2> QED BY <2>1, <2>2
<1>3. CASE Runner \/ Server
  BY <1>3 DEF Runner, RunStart, RunAnswered, RunResult, RunnerOnly, Server, ServerAnswer, ServerReach,
     ServerFeedback, ServerSucceed, ServerAbort, ServerTakeCancel, ServerCancel, ServerOnly, executorVars
<1>4. CASE Environment
  BY <1>4 DEF Environment, AskCheck, AskSet, FeedbackArrives, GatesChange, EventArrives, EnvOnly,
     executorVars
<1>5. CASE UNCHANGED vars
  BY <1>5 DEF vars, executorVars
<1>6. CASE WriteFails
  BY <1>6 DEF WriteFails, Collapse
<1> QED BY <1>1, <1>2, <1>3, <1>4, <1>5, <1>6 DEF Next

(* Nobody's mission is canceled unasked.                                   *)
THEOREM CanceledWhenAsked == Spec => []CanceledOnlyOnRequest
<1>1. Init => CanceledOnlyOnRequest
  BY DEF Init, CanceledOnlyOnRequest
<1> QED BY <1>1, CancelStep, InductiveInvariant, PTL DEF Spec

-----------------------------------------------------------------------------
(* Every waypoint of step s that comes before waypoint w of loop l was     *)
(* reached.                                                                *)
Covered(s, l, w) == \A k \in 0..(Loops - 1), v \in 0..(Waypoints - 1) :
  k < l \/ (k = l /\ v < w) => <<s, k, v>> \in visited

(* The cursor, the goal, its progress and every feedback message on its    *)
(* way stand at a place up to which everything was reached.                *)
InWaypointStep ==
  \/ pc \in {"spawn", "poll", "cancelChild", "cancelWait", "join"}
  \/ pc \in Holding /\ site = "waypoint"

InWait == pc \in {"wait", "sleep", "rewait"} \/ (pc \in Holding /\ site = "wait")

PlacesCovered ==
  /\ InWaypointStep => Covered(step, cursor.loop, cursor.wp)
  /\ \A m \in feedback : Covered(m.step, m.at.loop, m.at.wp)
  /\ child \in {"sending", "awaiting"} \/ goal \in Live =>
       /\ Covered(step, request.loop, request.wp)
       /\ goal \in {"executing", "canceling", "succeeded"} => Covered(step, request.loop, progress)
       /\ goal = "succeeded" => progress = Waypoints
  /\ child = "done" /\ result = "ok" => Covered(step, Loops, 0)

ReachedInv ==
  /\ EveryWaypointReached /\ PlacesCovered
  /\ InWait => CurrentStep # "WAYPOINT_TASK"

LEMMA CoveredEarlier ==
  ASSUME NEW s, NEW l \in Nat, NEW w \in Nat, NEW k \in Nat, NEW v \in Nat,
         k < l \/ (k = l /\ v <= w), Covered(s, l, w)
  PROVE  Covered(s, k, v)
  BY TaskAssumption DEF Covered

LEMMA CoveredLonger ==
  ASSUME visited \subseteq visited', NEW s, NEW l, NEW w, Covered(s, l, w)
  PROVE  Covered(s, l, w)'
  BY DEF Covered

LEMMA CoveredLoop ==
  ASSUME NEW s, NEW l \in Nat, Covered(s, l, Waypoints)
  PROVE  Covered(s, l + 1, 0)
  BY TaskAssumption DEF Covered

(* A step that moves nothing but the place of the executor.                *)
LEMMA PlacesKept ==
  ASSUME ReachedInv, UNCHANGED <<step, cursor, child, request, result, goal, progress, feedback, visited>>,
         InWaypointStep' => InWaypointStep, InWait' => InWait
  PROVE  ReachedInv'
<1>1. \A s, l, w : Covered(s, l, w) => Covered(s, l, w)'
  BY CoveredLonger
<1>2. EveryWaypointReached'
  BY DEF ReachedInv, EveryWaypointReached
<1>3. PlacesCovered'
  BY <1>1 DEF ReachedInv, PlacesCovered
<1>4. InWait' => CurrentStep' # "WAYPOINT_TASK"
  BY DEF ReachedInv, CurrentStep
<1> QED BY <1>2, <1>3, <1>4 DEF ReachedInv

(* A step that is over leaves nothing behind: if it was a waypoint task,   *)
(* all of it was reached.                                                  *)
LEMMA StepCovered ==
  ASSUME IInv, ReachedInv, step \in 1..Len(Mission),
         CurrentStep = "WAYPOINT_TASK" => Covered(step, Loops, 0),
         step' = step + 1, pc' = "head", child' = "none", goal' \notin Live, UNCHANGED <<feedback, visited>>
  PROVE  ReachedInv'
<1>1. EveryWaypointReached'
  <2> SUFFICES ASSUME NEW s \in 1..Len(Mission), Mission[s] = "WAYPOINT_TASK", s < step + 1,
                      NEW k \in 0..(Loops - 1), NEW v \in 0..(Waypoints - 1)
               PROVE  <<s, k, v>> \in visited
    BY DEF EveryWaypointReached
  <2>1. CASE s < step
    BY <2>1 DEF ReachedInv, EveryWaypointReached
  <2>2. CASE s = step
    <3>1. Covered(s, Loops, 0) /\ k < Loops
      BY <2>2, TaskAssumption DEF CurrentStep
    <3> QED BY <3>1 DEF Covered
  <2>3. s < step \/ s = step
    BY LengthIsNatural
  <2> QED BY <2>1, <2>2, <2>3
<1>2. PlacesCovered'
  <2>1. ~InWaypointStep' /\ \A s, l, w : Covered(s, l, w) => Covered(s, l, w)'
    BY CoveredLonger DEF InWaypointStep, Holding
  <2> QED BY <2>1 DEF ReachedInv, PlacesCovered
<1>3. ~InWait'
  BY DEF InWait, Holding
<1> QED BY <1>1, <1>2, <1>3 DEF ReachedInv

LEMMA CollapseReaches ==
  ASSUME ReachedInv, Collapse, UNCHANGED <<step, cursor, request, result, serverVars>>
  PROVE  ReachedInv'
<1> USE DEF Collapse, GoTo, serverVars
<1>1. EveryWaypointReached'
  BY DEF ReachedInv, EveryWaypointReached
<1>2. ~InWaypointStep' /\ ~InWait'
  BY DEF InWaypointStep, InWait, Holding
<1>3. \A s, l, w : Covered(s, l, w) => Covered(s, l, w)'
  BY CoveredLonger
<1>4. PlacesCovered'
  BY <1>2, <1>3 DEF ReachedInv, PlacesCovered
<1> QED BY <1>1, <1>2, <1>4 DEF ReachedInv

LEMMA ExecutorReaches == IInv /\ ReachedInv /\ Executor => ReachedInv'
<1> SUFFICES ASSUME IInv, ReachedInv, Executor PROVE ReachedInv'
  OBVIOUS
<1> USE DEF GoTo, Holding
<1>a. step \in 1..(Len(Mission) + 1) /\ Len(Mission) \in Nat /\ site \in {"step", "waypoint", "wait"}
  BY LengthIsNatural DEF IInv, Core, TypeOK, ExecutorTypeOK
<1>b. pc \in {"wait", "sleep", "poll"} => step \in 1..Len(Mission)
  BY <1>a DEF IInv, Core, InsideStep
<1>1. CASE Start \/ Validate \/ StepHead \/ BetweenSteps \/ PausedBetweenSteps \/ Succeed
  <2>1. UNCHANGED <<step, cursor, child, request, result, goal, progress, feedback, visited>>
    BY <1>1 DEF Start, Validate, StepHead, BetweenSteps, PausedBetweenSteps, Succeed, QuietStep, ElseUnchanged,
                runnerVars, serverVars
  <2>2. ~InWaypointStep' /\ ~InWait'
    BY <1>1 DEF Start, Validate, StepHead, BetweenSteps, PausedBetweenSteps, Succeed, Fail, BeginCancel,
                InWaypointStep, InWait
  <2> QED BY <2>1, <2>2, PlacesKept
<1>2. CASE BeginWaypoint
  <2>1. UNCHANGED <<step, child, request, result, goal, progress, feedback, visited, site>>
    BY <1>2 DEF BeginWaypoint, ElseUnchanged, LocalsUnchanged, runnerVars, serverVars
  <2>2. CASE cursor' = [loop |-> 0, wp |-> 0] /\ pc' = "spawn"
    <3>1. \A s, l, w : Covered(s, l, w) => Covered(s, l, w)'
      BY <2>1, CoveredLonger
    <3>2. Covered(step, 0, 0)'
      BY DEF Covered
    <3>3. PlacesCovered'
      BY <2>1, <2>2, <3>1, <3>2 DEF ReachedInv, PlacesCovered
    <3>4. EveryWaypointReached' /\ ~InWait'
      BY <2>1, <2>2 DEF ReachedInv, EveryWaypointReached, InWait
    <3> QED BY <3>3, <3>4 DEF ReachedInv
  <2>3. CASE Fail(Verdict(gates)) /\ UNCHANGED cursor
    <3>1. ~InWaypointStep' /\ ~InWait'
      BY <2>3 DEF Fail, InWaypointStep, InWait
    <3> QED BY <2>1, <2>3, <3>1, PlacesKept
  <2> QED BY <1>2, <2>2, <2>3 DEF BeginWaypoint
<1>3. CASE BeginWait
  <2>1. /\ UNCHANGED <<step, cursor, child, request, result, goal, progress, feedback, visited>>
        /\ CurrentStep # "WAYPOINT_TASK" /\ pc' = "wait"
    BY <1>3 DEF BeginWait, ElseUnchanged, runnerVars, serverVars
  <2>2. EveryWaypointReached' /\ ~InWaypointStep' /\ CurrentStep' # "WAYPOINT_TASK"
    BY <2>1 DEF ReachedInv, EveryWaypointReached, InWaypointStep, CurrentStep
  <2>3. \A s, l, w : Covered(s, l, w) => Covered(s, l, w)'
    BY <2>1, CoveredLonger
  <2> QED BY <2>1, <2>2, <2>3 DEF ReachedInv, PlacesCovered
<1>4. CASE WaitElapsed \/ EventReceived
  <2>1. UNCHANGED <<cursor, child, request, result, goal, progress, feedback, visited>> /\ pc = "wait"
    BY <1>4 DEF WaitElapsed, EventReceived, QuietStep, ElseUnchanged, LocalsUnchanged, runnerVars, serverVars
  <2>2. CASE StepDone
    <3>1. CurrentStep # "WAYPOINT_TASK" /\ child' = "none" /\ goal' \notin Live
      BY <2>1 DEF ReachedInv, InWait, IInv, Core, ChildInItsLoop, Raised
    <3> QED BY <1>b, <2>1, <2>2, <3>1, StepCovered DEF StepDone
  <2>3. CASE Fail("EVENT_TIMEOUT") /\ UNCHANGED step
    <3>1. ~InWaypointStep' /\ ~InWait'
      BY <2>3 DEF Fail, InWaypointStep, InWait
    <3> QED BY <2>1, <2>3, <3>1, PlacesKept
  <2> QED BY <1>4, <2>2, <2>3 DEF WaitElapsed, EventReceived
<1>5. CASE WaitCanceled \/ WaitPaused \/ WaitSleep \/ WaitWoken \/ WaitContinued
  <2>1. UNCHANGED <<step, cursor, child, request, result, goal, progress, feedback, visited>>
    BY <1>5 DEF WaitCanceled, WaitPaused, WaitSleep, WaitWoken, WaitContinued, QuietStep, ElseUnchanged,
                runnerVars, serverVars
  <2>2. ~InWaypointStep' /\ InWait
    BY <1>5 DEF WaitCanceled, WaitPaused, WaitSleep, WaitWoken, WaitContinued, BeginCancel,
                InWaypointStep, InWait
  <2> QED BY <2>1, <2>2, PlacesKept
<1>6. CASE ClearPause \/ Held \/ HeldCheck \/ Resume \/ Resuming \/ CancelTerminal
  <2>1. UNCHANGED <<step, cursor, child, request, result, goal, progress, feedback, visited, site>>
    BY <1>6 DEF ClearPause, Held, HeldCheck, Resume, Resuming, CancelTerminal, QuietStep, ElseUnchanged,
                LocalsUnchanged, runnerVars, serverVars
  <2>2. pc \in Holding \/ pc' = "end"
    BY <1>6 DEF ClearPause, Held, HeldCheck, Resume, Resuming, CancelTerminal
  <2>3. \/ pc' \in Holding \cup {"end", "cancelTerminal"}
        \/ pc' = Continuation[site]
    BY <1>6 DEF ClearPause, Held, HeldCheck, Resume, Resuming, CancelTerminal, BeginCancel, Fail
  <2>4. (InWaypointStep' => InWaypointStep) /\ (InWait' => InWait)
    BY <1>a, <2>1, <2>2, <2>3 DEF InWaypointStep, InWait, Continuation
  <2> QED BY <2>1, <2>4, PlacesKept
<1>7. CASE SpawnChild
  <2>1. /\ UNCHANGED <<step, cursor, request, result, goal, progress, feedback, visited>>
        /\ child' = "start" /\ pc = "spawn" /\ pc' = "poll"
    BY <1>7 DEF SpawnChild, serverVars
  <2>2. \A s, l, w : Covered(s, l, w) => Covered(s, l, w)'
    BY <2>1, CoveredLonger
  <2>3. PlacesCovered'
    BY <2>1, <2>2 DEF ReachedInv, PlacesCovered, InWaypointStep
  <2> QED BY <2>1, <2>3 DEF ReachedInv, EveryWaypointReached, InWait
<1>8. CASE ChildDone
  <2>1. /\ UNCHANGED <<cursor, request, result, goal, progress, feedback, visited>> /\ child = "done"
        /\ child' = "none" /\ pc = "poll"
    BY <1>8 DEF ChildDone, serverVars
  <2>2. CASE result = "ok" /\ StepDone
    <3>1. Covered(step, Loops, 0) /\ goal' \notin Live
      BY <2>1, <2>2 DEF ReachedInv, PlacesCovered, IInv, Core, ChildInItsLoop, Raised
    <3> QED BY <1>b, <2>1, <2>2, <3>1, StepCovered DEF StepDone
  <2>3. CASE UNCHANGED step /\ pc' \in {"cancelTerminal", "end"}
    <3>1. \A s, l, w : Covered(s, l, w) => Covered(s, l, w)'
      BY <2>1, CoveredLonger
    <3>2. PlacesCovered'
      BY <2>1, <2>3, <3>1 DEF ReachedInv, PlacesCovered, InWaypointStep
    <3> QED BY <2>1, <2>3, <3>2 DEF ReachedInv, EveryWaypointReached, InWait
  <2> QED BY <1>8, <2>2, <2>3 DEF ChildDone, BeginCancel, Fail
<1>9. CASE InterruptChild \/ CancelChild \/ CancelAnswered
  <2>1. UNCHANGED <<step, cursor, child, request, result, goal, progress, feedback, visited>>
    BY <1>9 DEF InterruptChild, CancelChild, CancelAnswered, ElseUnchanged, runnerVars, serverVars
  <2>2. InWaypointStep /\ ~InWait'
    BY <1>9 DEF InterruptChild, CancelChild, CancelAnswered, InWaypointStep, InWait
  <2> QED BY <2>1, <2>2, PlacesKept
<1>10. CASE JoinChild
  <2>1. /\ UNCHANGED <<step, cursor, request, result, goal, progress, feedback, visited>> /\ child' = "none"
        /\ pc = "join"
        /\ \/ pc' = "clearPause" /\ site' = "waypoint"
           \/ pc' \in {"cancelTerminal", "end"}
    BY <1>10 DEF JoinChild, Fail, serverVars
  <2>2. \A s, l, w : Covered(s, l, w) => Covered(s, l, w)'
    BY <2>1, CoveredLonger
  <2>3. PlacesCovered'
    BY <2>1, <2>2 DEF ReachedInv, PlacesCovered, InWaypointStep
  <2> QED BY <2>1, <2>3 DEF ReachedInv, EveryWaypointReached, InWait
<1>11. CASE ChildRaised
  BY <1>11, CollapseReaches DEF ChildRaised
<1> QED BY <1>1, <1>2, <1>3, <1>4, <1>5, <1>6, <1>7, <1>8, <1>9, <1>10, <1>11 DEF Executor

(* Steps of the others move what the executor knows about the child only.  *)
LEMMA OthersReach ==
  ASSUME IInv, ReachedInv, UNCHANGED <<pc, site, step>>, visited \subseteq visited', PlacesCovered'
  PROVE  ReachedInv'
<1>1. EveryWaypointReached'
  BY DEF ReachedInv, EveryWaypointReached
<1>2. InWait' => CurrentStep' # "WAYPOINT_TASK"
  BY DEF ReachedInv, InWait, CurrentStep
<1> QED BY <1>1, <1>2 DEF ReachedInv

LEMMA Numbers ==
  ASSUME IInv
  PROVE  /\ cursor.loop \in 0..Loops /\ cursor.wp \in 0..(Waypoints - 1)
         /\ request.loop \in 0..(Loops - 1) /\ request.wp \in 0..(Waypoints - 1)
         /\ progress \in 0..Waypoints /\ Waypoints \in Nat \ {0} /\ Loops \in Nat \ {0}
         /\ request = [loop |-> request.loop, wp |-> request.wp]
  BY TaskAssumption DEF IInv, Core, TypeOK, RunnerTypeOK, ServerTypeOK, Cursor, Request

LEMMA RunnerReaches == IInv /\ ReachedInv /\ Runner => ReachedInv'
<1> SUFFICES ASSUME IInv, ReachedInv, Runner PROVE ReachedInv'
  OBVIOUS
<1> USE Numbers
<1>a. UNCHANGED <<pc, site, step, visited, feedback>>
  BY DEF Runner, RunStart, RunAnswered, RunResult, RunnerOnly, executorVars, serverVars
<1>b. \A s, l, w : Covered(s, l, w) => Covered(s, l, w)'
  BY <1>a, CoveredLonger
<1>c. child # "none" => InWaypointStep
  BY DEF IInv, Core, ChildInItsLoop, InWaypointStep
<1>d. InWaypointStep' = InWaypointStep
  BY <1>a DEF InWaypointStep
<1> SUFFICES PlacesCovered'
  BY <1>a, OthersReach
<1>1. CASE RunStart
  <2>1. UNCHANGED cursor /\ child = "start"
    BY <1>1 DEF RunStart
  <2>2. CASE child' = "done" /\ result' # "ok" /\ UNCHANGED <<request, goal, progress>>
    BY <1>a, <1>b, <1>d, <2>1, <2>2 DEF ReachedInv, PlacesCovered
  <2>3. CASE SendGoal(Lesser(cursor.loop, Loops - 1), Lesser(cursor.wp, Waypoints - 1))
    <3>1. Covered(step, cursor.loop, cursor.wp)
      BY <1>c, <2>1 DEF ReachedInv, PlacesCovered
    <3>2. /\ request'.loop = Lesser(cursor.loop, Loops - 1) /\ request'.wp = cursor.wp
          /\ goal' = "pending" /\ child' = "sending"
      BY <2>3 DEF SendGoal, Lesser
    <3>3. Covered(step, request'.loop, request'.wp)
      <4>1. CASE cursor.loop <= Loops - 1
        BY <3>1, <3>2, <4>1 DEF Lesser
      <4>2. CASE cursor.loop = Loops
        <5>1. request'.loop = Loops - 1 /\ Loops - 1 < cursor.loop
          BY <3>2, <4>2 DEF Lesser
        <5> QED BY <3>1, <3>2, <5>1, CoveredEarlier
      <4> QED BY <4>1, <4>2
    <3> QED BY <1>a, <1>b, <1>d, <2>1, <3>2, <3>3 DEF ReachedInv, PlacesCovered
  <2> QED BY <1>1, <2>2, <2>3 DEF RunStart, Return
<1>2. CASE RunAnswered
  <2>1. UNCHANGED <<request, goal, progress>> /\ child = "sending"
    BY <1>2 DEF RunAnswered, serverVars
  <2>2. CASE child' = "done" /\ result' = "rejected" /\ UNCHANGED cursor
    BY <1>a, <1>b, <1>d, <2>1, <2>2 DEF ReachedInv, PlacesCovered
  <2>3. CASE child' = "awaiting" /\ cursor' = request
    BY <1>a, <1>b, <1>d, <2>1, <2>3 DEF ReachedInv, PlacesCovered
  <2>4. CASE child' = "done" /\ result' = "raised" /\ cursor' = request
    BY <1>a, <1>b, <1>d, <2>1, <2>4 DEF ReachedInv, PlacesCovered
  <2> QED BY <1>2, <2>2, <2>3, <2>4 DEF RunAnswered, Return
<1>3. CASE RunResult
  <2>1. UNCHANGED progress /\ child = "awaiting"
    BY <1>3 DEF RunResult
  <2>2. CASE child' = "done" /\ result' # "ok" /\ UNCHANGED <<cursor, request, goal>>
    BY <1>a, <1>b, <1>d, <2>1, <2>2 DEF ReachedInv, PlacesCovered
  <2>3. CASE /\ goal = "succeeded" /\ cursor' = [loop |-> request.loop + 1, wp |-> 0]
             /\ \/ request.loop + 1 < Loops /\ SendGoal(request.loop + 1, 0) /\ UNCHANGED result
                \/ request.loop + 1 >= Loops /\ Return("ok") /\ UNCHANGED <<request, goal>>
                \/ Return("raised") /\ UNCHANGED <<request, goal>>
    <3>1. Covered(step, request.loop, Waypoints)
      BY <2>1, <2>3 DEF ReachedInv, PlacesCovered
    <3>2. Covered(step, request.loop + 1, 0)
      BY <3>1, CoveredLoop
    <3>3. CASE SendGoal(request.loop + 1, 0)
      BY <1>a, <1>b, <1>d, <2>1, <2>3, <3>2, <3>3 DEF ReachedInv, PlacesCovered, SendGoal
    <3>4. CASE request.loop + 1 >= Loops /\ Return("ok")
      <4>1. request.loop + 1 = Loops
        BY <3>4
      <4> QED BY <1>a, <1>b, <1>d, <2>1, <2>3, <3>2, <3>4, <4>1 DEF ReachedInv, PlacesCovered, Return
    <3>5. CASE Return("raised") /\ UNCHANGED <<request, goal>>
      BY <1>a, <1>b, <1>d, <2>1, <2>3, <3>2, <3>5 DEF ReachedInv, PlacesCovered, Return
    <3> QED BY <2>3, <3>3, <3>4, <3>5
  <2> QED BY <1>3, <2>2, <2>3 DEF RunResult, Return
<1> QED BY <1>1, <1>2, <1>3 DEF Runner

LEMMA ServerReaches == IInv /\ ReachedInv /\ Server => ReachedInv'
<1> SUFFICES ASSUME IInv, ReachedInv, Server PROVE ReachedInv'
  OBVIOUS
<1> USE Numbers DEF Live
<1>a. UNCHANGED <<pc, site, step, cursor, child, request, result>> /\ visited \subseteq visited'
  BY DEF Server, ServerAnswer, ServerReach, ServerFeedback, ServerSucceed, ServerAbort, ServerTakeCancel,
         ServerCancel, ServerOnly, executorVars, runnerVars
<1>b. \A s, l, w : Covered(s, l, w) => Covered(s, l, w)'
  BY <1>a, CoveredLonger
<1>c. InWaypointStep' = InWaypointStep
  BY <1>a DEF InWaypointStep
<1> SUFFICES PlacesCovered'
  BY <1>a, OthersReach
<1>1. CASE ServerAnswer
  BY <1>1, <1>a, <1>b, <1>c DEF ServerAnswer, ReachedInv, PlacesCovered
<1>2. CASE ServerReach
  <2>1. /\ goal' = goal /\ UNCHANGED feedback /\ progress' = progress + 1
        /\ visited' = visited \cup {<<step, request.loop, progress>>}
        /\ goal \in {"executing", "canceling"}
    BY <1>2 DEF ServerReach
  <2>2. Covered(step, request.loop, progress)
    BY <2>1 DEF ReachedInv, PlacesCovered
  <2>3. Covered(step, request.loop, progress)'
    BY <1>a, <2>1, <2>2 DEF Covered
  <2> QED BY <1>a, <1>b, <1>c, <2>1, <2>3 DEF ReachedInv, PlacesCovered
<1>3. CASE ServerFeedback
  <2>1. /\ UNCHANGED <<goal, progress, visited>> /\ goal \in {"executing", "canceling"}
        /\ feedback' = feedback \cup
             {[step |-> step, at |-> [loop |-> request.loop, wp |-> Lesser(progress, Waypoints - 1)]]}
    BY <1>3 DEF ServerFeedback
  <2>2. Covered(step, request.loop, progress)
    BY <2>1 DEF ReachedInv, PlacesCovered
  <2>3. Lesser(progress, Waypoints - 1) \in Nat /\ Lesser(progress, Waypoints - 1) <= progress
    BY DEF Lesser
  <2>4. Covered(step, request.loop, Lesser(progress, Waypoints - 1))
    BY <2>2, <2>3, CoveredEarlier
  <2>5. \A m \in feedback' : Covered(m.step, m.at.loop, m.at.wp)'
    BY <1>b, <2>1, <2>4 DEF ReachedInv, PlacesCovered
  <2> QED BY <1>a, <1>b, <1>c, <2>1, <2>5 DEF ReachedInv, PlacesCovered
<1>4. CASE ServerSucceed
  BY <1>4, <1>a, <1>b, <1>c DEF ServerSucceed, ReachedInv, PlacesCovered
<1>5. CASE ServerAbort \/ ServerCancel
  BY <1>5, <1>a, <1>b, <1>c DEF ServerAbort, ServerCancel, ReachedInv, PlacesCovered
<1>6. CASE ServerTakeCancel
  BY <1>6, <1>a, <1>b, <1>c DEF ServerTakeCancel, Finished, ReachedInv, PlacesCovered
<1> QED BY <1>1, <1>2, <1>3, <1>4, <1>5, <1>6 DEF Server

LEMMA EnvironmentReaches == IInv /\ ReachedInv /\ Environment => ReachedInv'
<1> SUFFICES ASSUME IInv, ReachedInv, Environment PROVE ReachedInv'
  OBVIOUS
<1>a. UNCHANGED <<pc, site, step, child, request, result, goal, progress, visited>>
  BY DEF Environment, AskCheck, AskSet, FeedbackArrives, GatesChange, EventArrives, EnvOnly, executorVars,
         runnerVars, serverVars
<1>1. CASE FeedbackArrives
  <2>1. PICK m \in feedback : /\ feedback' = feedback \ {m}
                              /\ cursor' = IF m.step = step THEN m.at ELSE cursor
    BY <1>1 DEF FeedbackArrives
  <2>2. \A s, l, w : Covered(s, l, w) => Covered(s, l, w)'
    BY <1>a, CoveredLonger
  <2>3. InWaypointStep => Covered(step, cursor'.loop, cursor'.wp)
    BY <2>1 DEF ReachedInv, PlacesCovered
  <2>4. PlacesCovered'
    BY <1>a, <2>1, <2>2, <2>3 DEF ReachedInv, PlacesCovered, InWaypointStep
  <2> QED BY <1>a, <2>4, OthersReach
<1>2. CASE UNCHANGED <<cursor, feedback>>
  BY <1>a, <1>2, PlacesKept DEF InWaypointStep, InWait
<1> QED BY <1>1, <1>2 DEF Environment, AskCheck, AskSet, GatesChange, EventArrives, EnvOnly, serverVars

LEMMA ReachedStep == IInv /\ ReachedInv /\ [Next]_vars => ReachedInv'
<1>1. IInv /\ ReachedInv /\ UNCHANGED vars => ReachedInv'
  BY PlacesKept DEF vars, executorVars, runnerVars, serverVars, InWaypointStep, InWait
<1>2. IInv /\ ReachedInv /\ WriteFails => ReachedInv'
  BY CollapseReaches DEF WriteFails
<1> QED BY <1>1, <1>2, ExecutorReaches, RunnerReaches, ServerReaches, EnvironmentReaches DEF Next

(* A mission passes a waypoint step only when every waypoint of every loop *)
(* was reached, for every mission and whatever holds, late feedback and    *)
(* resumes from the cursor there were.                                     *)
THEOREM NothingSkipped == Spec => []EveryWaypointReached
<1>1. Init => ReachedInv
  BY LengthIsNatural, TaskAssumption
     DEF Init, ReachedInv, EveryWaypointReached, PlacesCovered, InWaypointStep, InWait, Holding, Live
<1>2. ReachedInv => EveryWaypointReached
  BY DEF ReachedInv
<1> QED BY <1>1, <1>2, ReachedStep, InductiveInvariant, PTL DEF Spec
=============================================================================
