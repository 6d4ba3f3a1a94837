--------------------------- MODULE Relocalization ---------------------------
(***************************************************************************)
(* The relocalization node.  One executor thread runs the callbacks and    *)
(* the timers; one worker thread at a time runs a search for an action     *)
(* goal, a search for a manual initial pose, or a validation of the pose   *)
(* being tracked.  execution_running_ admits one worker, and every run     *)
(* ends by releasing it.                                                   *)
(*                                                                         *)
(* To tell the supervisor and to publish its answer is one step: only the  *)
(* validation timer could look in between, and it finds the worker busy.   *)
(* What the map, the cloud, the transforms and the registration answer is  *)
(* chosen by the environment; what the node does with the answer is not.   *)
(***************************************************************************)
EXTENDS LocalizationTopics, LocalizationSupervisor

CONSTANT MaxCandidates  \* candidates a goal may bring to its search

ASSUME CandidatesAssumption == MaxCandidates \in Nat \ {0}

VARIABLES
    node,       \* the process: "starting" (undiscovered), "up" or "dead"
    sup,        \* supervisor_
    localized,  \* has_latest_tf_ and last_valid_candidate_, set together
    worker,     \* the run; its kind is "none" when execution_running_ is false
    goal,       \* the action goal the worker runs
    cancelRequested,    \* cancel_requested_, cleared when its run ends, not when
                        \* the next one starts
    executor    \* the executor thread: "free", or between two steps of a callback

relocVars == <<node, sup, localized, worker, goal, cancelRequested, executor>>

Kinds == {"none", "goal", "manual", "validation"}
PCs   == {"begin", "try", "register", "decide", "finish", "release"}
NoRun == [kind |-> "none", pc |-> "release", left |-> 0, good |-> 0]

RelocTypeOK ==
    /\ node \in {"starting", "up", "dead"}
    /\ sup \in Supervisor
    /\ localized \in BOOLEAN
    /\ worker \in [kind : Kinds, pc : PCs, left : 0..MaxCandidates, good : 0..MaxCandidates]
    /\ goal \in {"none", "executing", "canceling"}
    /\ cancelRequested \in BOOLEAN
    /\ executor \in {"free", "canceling", "validating"}

RelocInit ==
    /\ node = "starting"
    /\ sup = Uninitialized
    /\ localized = FALSE
    /\ worker = NoRun
    /\ goal = "none"
    /\ cancelRequested = FALSE
    /\ executor = "free"

(* The action clients find the server.                                     *)
Discovered ==
    /\ node = "starting"
    /\ node' = "up"
    /\ UNCHANGED <<sup, localized, worker, goal, cancelRequested, executor,
                   evidence, canonical, ask>>

-----------------------------------------------------------------------------
(* The executor thread.                                                    *)

ExecutorFree == node = "up" /\ executor = "free"
ExecutionRunning == worker.kind # "none"

StartWorker(kind) ==
    /\ worker' = [kind |-> kind, pc |-> "begin", left |-> 0, good |-> 0]
    /\ cancelRequested' = FALSE

StartGoal ==
    /\ StartWorker("goal")
    /\ goal' = "executing"

(* handleGoal and handleAccepted for the recovery trigger's request ...    *)
HandleRequest ==
    /\ ExecutorFree
    /\ ask = "sent"
    /\ IF ExecutionRunning
       THEN ask' = "refused" /\ UNCHANGED <<worker, cancelRequested, goal>>
       ELSE ask' = "running" /\ StartGoal
    /\ UNCHANGED <<node, sup, localized, executor, evidence, canonical>>

(* ... and for the operator's, which changes nothing when it is refused.   *)
HandleOperatorGoal ==
    /\ ExecutorFree
    /\ ~ExecutionRunning
    /\ StartGoal
    /\ UNCHANGED <<node, sup, localized, executor, evidence, canonical, ask>>

(* The flag is set before the action server moves the goal to CANCELING.   *)
(* Clients cancel their own goals only, and the trigger never cancels.     *)
HandleCancel ==
    /\ ExecutorFree
    /\ goal = "executing"
    /\ ask # "running"
    /\ cancelRequested' = TRUE
    /\ executor' = "canceling"
    /\ UNCHANGED <<node, sup, localized, worker, goal, evidence, canonical, ask>>

(* A goal that has ended in between is not moved any more.                 *)
CancelTransition ==
    /\ node = "up"
    /\ executor = "canceling"
    /\ executor' = "free"
    /\ goal' = IF goal = "executing" THEN "canceling" ELSE goal
    /\ UNCHANGED <<node, sup, localized, worker, cancelRequested,
                   evidence, canonical, ask>>

(* initialPoseCallback: an unusable pose is answered by an ERROR status    *)
(* whatever the worker is doing, a usable one starts a run if none runs.   *)
InitialPoseRefused ==
    /\ ExecutorFree
    /\ PublishEvidence(Unaccepted("ERROR"))
    /\ UNCHANGED <<relocVars, canonical, ask>>

InitialPoseAccepted ==
    /\ ExecutorFree
    /\ ~ExecutionRunning
    /\ StartWorker("manual")
    /\ UNCHANGED <<node, sup, localized, goal, executor, evidence, canonical, ask>>

(* maybeStartTrackingValidation looks at the supervisor first, and at the   *)
(* worker after it: a run may end in between.                              *)
MaybeStartTrackingValidation ==
    /\ ExecutorFree
    /\ sup.state \in {"TRACKING", "DEGRADED", "RECOVERING"}
    /\ executor' = "validating"
    /\ UNCHANGED <<node, sup, localized, worker, goal, cancelRequested,
                   evidence, canonical, ask>>

StartTrackingValidation ==
    /\ node = "up"
    /\ executor = "validating"
    /\ executor' = "free"
    /\ IF ExecutionRunning \/ ~localized
       THEN UNCHANGED <<worker, cancelRequested>>
       ELSE StartWorker("validation")
    /\ UNCHANGED <<node, sup, localized, goal, evidence, canonical, ask>>

-----------------------------------------------------------------------------
(* The worker thread.                                                      *)

At(pc) == node = "up" /\ ExecutionRunning /\ worker.pc = pc
Searching == worker.kind \in {"goal", "manual"}
Validating == worker.kind = "validation"

GoTo(pc) == worker' = [worker EXCEPT !.pc = pc]
EndRun   == worker' = IF worker.kind = "goal" THEN [NoRun EXCEPT !.kind = "goal", !.pc = "finish"]
                                              ELSE NoRun

WorkerOnly == UNCHANGED <<node, goal, cancelRequested, executor, canonical, ask>>

(* A validation tells the supervisor and publishes once, at its end.       *)
EndValidation(accepted) ==
    /\ sup' = TrackingValidation(sup, accepted)
    /\ PublishEvidence(IF accepted THEN Accepted(sup'.state) ELSE Unaccepted(sup'.state))
    /\ EndRun
    /\ UNCHANGED localized
    /\ WorkerOnly

(* No candidate, no map, no cloud, a stale cloud or no transform: a search *)
(* publishes what it met, and the supervisor is not told.                  *)
RefuseRun ==
    /\ At("begin")
    /\ \/ /\ Searching
          /\ \E s \in {"LOST", "ERROR"} : PublishEvidence(Unaccepted(s))
          /\ EndRun
          /\ UNCHANGED <<sup, localized>>
          /\ WorkerOnly
       \/ Validating /\ EndValidation(FALSE)

(* The cloud was validated before, or time moved backwards.                *)
SkipValidation ==
    /\ At("begin")
    /\ Validating
    /\ EndRun
    /\ UNCHANGED <<sup, localized, evidence>>
    /\ WorkerOnly

(* A manual pose is the only candidate; a goal brings those it asks for,   *)
(* without repetitions and up to a limit.                                  *)
CandidateCounts == IF worker.kind = "manual" THEN {1} ELSE 1..MaxCandidates

(* Variant: the search starts and nobody is told.                           *)
BeginRunUnannounced ==
    /\ At("begin")
    /\ Searching
    /\ sup' = BeginSearch
    /\ worker' = [worker EXCEPT !.pc = "try", !.left = 1]
    /\ UNCHANGED <<evidence, localized>>
    /\ WorkerOnly

BeginRun ==
    /\ At("begin")
    /\ \/ /\ Searching
          /\ sup' = BeginSearch
          /\ PublishEvidence(Unaccepted("SEARCHING"))
          /\ \E n \in CandidateCounts :
                worker' = [worker EXCEPT !.pc = "try", !.left = n]
       \/ /\ Validating
          /\ GoTo("register")
          /\ UNCHANGED <<sup, evidence>>
    /\ UNCHANGED localized
    /\ WorkerOnly

CancelSeen == cancelRequested \/ goal = "canceling"

StopSearch(s) ==
    /\ sup' = s
    /\ PublishEvidence(Unaccepted(s.state))
    /\ EndRun
    /\ UNCHANGED localized
    /\ WorkerOnly

(* The head of the loop over the candidates: a cancel, the time-out, or    *)
(* the next candidate.                                                     *)
NextCandidate ==
    /\ At("try")
    /\ IF CancelSeen
       THEN StopSearch(CancelSearch(sup))
       ELSE \/ StopSearch(TimeoutSearch(sup))
            \/ /\ sup' = BeginVerification(sup)
               /\ PublishEvidence(Unaccepted(sup'.state))
               /\ GoTo("register")
               /\ UNCHANGED localized
               /\ WorkerOnly

(* A candidate's verdict is published as VERIFYING or DEGRADED.            *)
RegisterCandidate ==
    /\ At("register")
    /\ Searching
    /\ \E ok \in BOOLEAN :
          /\ PublishEvidence(Unaccepted(IF ok THEN "VERIFYING" ELSE "DEGRADED"))
          /\ worker' = [worker EXCEPT !.pc = IF worker.left > 1 THEN "try" ELSE "decide",
                                      !.left = @ - 1,
                                      !.good = IF ok THEN @ + 1 ELSE @]
    /\ UNCHANGED <<sup, localized>>
    /\ WorkerOnly

RegisterValidation ==
    /\ At("register")
    /\ Validating
    /\ \E accepted \in BOOLEAN : EndValidation(accepted)

(* No good candidate, or two too alike to choose.                          *)
RejectSearch ==
    /\ At("decide")
    /\ worker.good # 1
    /\ StopSearch(RejectSearchResult(sup))

AcceptSearch ==
    /\ At("decide")
    /\ worker.good > 0
    /\ sup' = AcceptSearchResult(sup)
    /\ localized' = TRUE
    /\ PublishEvidence(Accepted(sup'.state))
    /\ EndRun
    /\ WorkerOnly

(* executeGoal reports the end.  To report a goal as canceled that the     *)
(* server has not moved to CANCELING yet is an illegal transition: it      *)
(* throws in the worker thread and takes the process down.                 *)
FinishGoal ==
    /\ At("finish")
    /\ IF cancelRequested /\ goal = "executing"
       THEN node' = "dead" /\ UNCHANGED <<worker, goal, cancelRequested, ask>>
       ELSE /\ goal' = "none"
            /\ ask' = IF ask = "running" THEN "done" ELSE ask
            /\ GoTo("release")
            /\ cancelRequested' = FALSE
            /\ UNCHANGED node
    /\ UNCHANGED <<sup, localized, executor, evidence, canonical>>

ReleaseExecution ==
    /\ At("release")
    /\ worker' = NoRun
    /\ UNCHANGED <<sup, localized, evidence>>
    /\ WorkerOnly

WorkerStep ==
    \/ RefuseRun \/ SkipValidation \/ BeginRun \/ NextCandidate
    \/ RegisterCandidate \/ RegisterValidation \/ RejectSearch \/ AcceptSearch
    \/ FinishGoal \/ ReleaseExecution

ExecutorStep ==
    \/ Discovered \/ HandleRequest \/ HandleOperatorGoal \/ HandleCancel \/ CancelTransition
    \/ InitialPoseRefused \/ InitialPoseAccepted
    \/ MaybeStartTrackingValidation \/ StartTrackingValidation

RelocNext == WorkerStep \/ ExecutorStep
=============================================================================
