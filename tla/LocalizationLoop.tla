-------------------------- MODULE LocalizationLoop --------------------------
(***************************************************************************)
(* The three localization nodes together: the relocalization node finds    *)
(* evidence, the correction manager judges it, the trigger asks for more.  *)
(***************************************************************************)
EXTENDS Relocalization, GlobalCorrection, RecoveryTrigger

topicVars == <<evidence, canonical, ask>>
vars == <<topicVars, relocVars, correctionVars, known>>

Init ==
    /\ TopicsInit
    /\ RelocInit
    /\ CorrectionInit
    /\ TriggerInit

Relocalize == RelocNext /\ UNCHANGED <<correctionVars, known>>
Correction == CorrectionNext /\ UNCHANGED <<relocVars, known>>
OnStatus   == StatusCallback(node = "up") /\ UNCHANGED <<relocVars, correctionVars>>
OnTimer    == RetryTimer(node = "up") /\ UNCHANGED <<relocVars, correctionVars>>
OnAnswer   == AnswerCallback /\ UNCHANGED <<relocVars, correctionVars>>

Next == Relocalize \/ Correction \/ OnStatus \/ OnTimer \/ OnAnswer

Spec == Init /\ [][Next]_vars

(* Every thread goes on: a run has finitely many candidates and every      *)
(* registration returns, callbacks and timers are served, the cool-down    *)
(* passes.  A request competes with the timers and the subscriptions for   *)
(* the node's one executor thread, which serves them in turn: hence strong *)
(* fairness.  Nobody has to send a goal, a pose or a cancel.               *)
Alone(step) == step /\ UNCHANGED <<correctionVars, known>>

Fairness ==
    /\ WF_vars(Alone(WorkerStep))
    /\ WF_vars(Alone(Discovered \/ CancelTransition \/ StartTrackingValidation))
    /\ SF_vars(Alone(HandleRequest))
    /\ WF_vars(Correction)
    /\ WF_vars(OnStatus)
    /\ WF_vars(OnTimer)
    /\ WF_vars(OnAnswer)

FairSpec == Spec /\ Fairness

-----------------------------------------------------------------------------
TypeOK == TopicsTypeOK /\ RelocTypeOK /\ CorrectionTypeOK /\ TriggerTypeOK

(* What the safety controller takes for a valid localization.              *)
Navigable(m) == m.state = "TRACKING" /\ m.accepted

(* The newest word on the way to the safety controller lets it drive only  *)
(* while the supervisor is tracking, whatever was dropped or is waiting.   *)
NavigableIsBacked ==
    LET newest == IF evidence = <<>> THEN canonical ELSE evidence[Len(evidence)]
    IN  Navigable(newest) => sup.state = "TRACKING"

(* The supervisor is never left searching when nobody searches: from there *)
(* no validation starts, and only a new search would lead out.             *)
NobodySearchesAlone ==
    sup.state \in {"SEARCHING", "VERIFYING"} =>
        /\ worker.kind \in {"goal", "manual"}
        /\ worker.pc \in {"try", "register", "decide"}

(* While the robot is told that it may navigate, map->odom moves by small  *)
(* corrections only: whoever wants a larger jump has to stop it first.     *)
NoJumpWhileNavigable ==
    [][Navigable(canonical) =>
           transform # NoTransform /\ Distance(transform', transform) <= TrackingLimit]_vars

(* The trigger's only request is not lost: unless the node dies, it is     *)
(* refused or comes to an end, and the trigger can ask again.              *)
AskEnds == ask # "none" ~> (ask = "none" \/ node = "dead")

(* A robot that is reported RECOVERING or LOST, and stays it, gets a       *)
(* request for a search, unless the node is dead.                          *)
LostIsAnswered ==
    canonical.state \in WantsSearch
        ~> (ask # "none" \/ canonical.state \notin WantsSearch \/ node = "dead")
=============================================================================
