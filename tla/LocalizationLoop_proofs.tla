----------------------- MODULE LocalizationLoop_proofs -----------------------
(***************************************************************************)
(* Proofs about LocalizationLoop: its safety properties for every length   *)
(* of the evidence topic, every number of candidates and failures, every   *)
(* set of poses and all limits.                                            *)
(***************************************************************************)
EXTENDS LocalizationLoop, SequenceTheorems, TLAPS

(* A run takes one candidate after the other, and counts the good ones.    *)
RunCounts ==
    /\ worker.left + worker.good <= MaxCandidates
    /\ worker.pc = "begin" => worker.left = 0 /\ worker.good = 0
    /\ worker.pc \in {"try", "register"} /\ worker.kind \in {"goal", "manual"} => worker.left > 0

RelocInv == RelocTypeOK /\ RunCounts /\ NobodySearchesAlone

(* Who is told that he may navigate is told so by an accepted correction.  *)
NavigableIsCorrected ==
    Navigable(canonical) => policy = "TRACKING" /\ transform # NoTransform

LoopInv == TypeOK /\ RelocInv /\ NavigableIsBacked /\ NavigableIsCorrected

(* What a step of the relocalization node does to the evidence topic: to   *)
(* change the supervisor is to publish, and TRACKING is published only of  *)
(* a supervisor that tracks.                                               *)
Publishes ==
    \/ UNCHANGED <<evidence, sup>>
    \/ \E m \in Status :
          PublishEvidence(m) /\ (Navigable(m) => sup'.state = "TRACKING")

-----------------------------------------------------------------------------
(* Every operation of the supervisor gives a supervisor; it searches only  *)
(* after beginSearch and beginVerification.                                *)
LEMMA SupervisorFacts ==
    ASSUME NEW s \in Supervisor
    PROVE  /\ BeginSearch \in Supervisor
           /\ BeginVerification(s) \in Supervisor
           /\ BeginVerification(s).state = "TRACKING" => s.state = "TRACKING"
           /\ RejectSearchResult(s) \in Supervisor /\ RejectSearchResult(s).state = "LOST"
           /\ TimeoutSearch(s) \in Supervisor /\ TimeoutSearch(s).state = "LOST"
           /\ CancelSearch(s) \in Supervisor /\ CancelSearch(s).state = "RECOVERING"
           /\ AcceptSearchResult(s) \in Supervisor
           /\ AcceptSearchResult(s).state \notin {"SEARCHING", "VERIFYING"}
<1>1. FailuresToLost \in Nat \ {0}
  BY SupervisorAssumption
<1>2. s.state \in SupervisorStates /\ s.failures \in 0..FailuresToLost
  BY DEF Supervisor
<1>3. \A t \in SupervisorStates : FailTo(s, t) \in Supervisor /\ FailTo(s, t).state = t
  BY <1>1, <1>2 DEF FailTo, Supervisor
<1>4. "LOST" \in SupervisorStates
  BY DEF SupervisorStates
<1>5. /\ RejectSearchResult(s) \in Supervisor /\ RejectSearchResult(s).state = "LOST"
      /\ TimeoutSearch(s) \in Supervisor /\ TimeoutSearch(s).state = "LOST"
  BY <1>3, <1>4 DEF RejectSearchResult, TimeoutSearch
<1>6. BeginSearch \in Supervisor
  BY <1>1 DEF BeginSearch, Supervisor, SupervisorStates
<1>7. BeginVerification(s) \in Supervisor /\ (BeginVerification(s).state = "TRACKING" => s.state = "TRACKING")
  BY <1>2 DEF BeginVerification, Supervisor, SupervisorStates
<1>8. CancelSearch(s) \in Supervisor /\ CancelSearch(s).state = "RECOVERING"
  BY <1>2 DEF CancelSearch, Supervisor, SupervisorStates
<1>9. AcceptSearchResult(s) \in Supervisor /\ AcceptSearchResult(s).state \notin {"SEARCHING", "VERIFYING"}
  BY <1>1, <1>2 DEF AcceptSearchResult, Supervisor, SupervisorStates
<1> QED
  BY <1>5, <1>6, <1>7, <1>8, <1>9

LEMMA ValidationFacts ==
    ASSUME NEW s \in Supervisor, s.state \notin {"SEARCHING", "VERIFYING"}, NEW accepted \in BOOLEAN
    PROVE  /\ TrackingValidation(s, accepted) \in Supervisor
           /\ TrackingValidation(s, accepted).state \notin {"SEARCHING", "VERIFYING"}
<1>1. FailuresToLost \in Nat \ {0}
  BY SupervisorAssumption
<1>2. s.state \in SupervisorStates /\ s.failures \in 0..FailuresToLost
  BY DEF Supervisor
<1>3. \A t \in SupervisorStates : FailTo(s, t) \in Supervisor /\ FailTo(s, t).state = t
  BY <1>1, <1>2 DEF FailTo, Supervisor
<1>4. FailedValidation(s) \in Supervisor /\ FailedValidation(s).state \notin {"SEARCHING", "VERIFYING"}
  <2> DEFINE next == CASE s.state = "TRACKING" -> "DEGRADED"
                       [] s.state = "DEGRADED" /\ s.failures + 1 >= FailuresToRecover -> "RECOVERING"
                       [] s.state = "RECOVERING" /\ s.failures + 1 >= FailuresToLost -> "LOST"
                       [] OTHER -> s.state
  <2>1. next \in SupervisorStates \ {"SEARCHING", "VERIFYING"}
    BY <1>2 DEF SupervisorStates
  <2>2. FailedValidation(s) = FailTo(s, next)
    BY DEF FailedValidation
  <2> HIDE DEF next
  <2>3. QED
    BY <1>3, <2>1, <2>2
<1> QED
  BY <1>4, SupervisorFacts DEF TrackingValidation

(* Every status that the node publishes is one, and only an accepted one   *)
(* of a supervisor that tracks lets anybody navigate.                      *)
LEMMA StatusFacts ==
    /\ \A s \in SupervisorStates \cup {"ERROR"} :
          Unaccepted(s) \in Status /\ ~Navigable(Unaccepted(s))
    /\ \A s \in SupervisorStates :
          Accepted(s) \in Status /\ (Navigable(Accepted(s)) => s = "TRACKING")
BY DEF Unaccepted, Accepted, Told, Status, Navigable, HealthStates, SupervisorStates

(* The newest sample of the topic is the one published last.               *)
LEMMA PublishFacts ==
    ASSUME evidence \in Seq(Status), NEW m \in Status, PublishEvidence(m)
    PROVE  evidence' \in Seq(Status) /\ evidence' # <<>> /\ evidence'[Len(evidence')] = m
<1>1. EvidenceDepth \in Nat \ {0}
  BY TopicsAssumption
<1>2. CASE Len(evidence) < EvidenceDepth
  BY <1>2 DEF PublishEvidence
<1>3. CASE ~(Len(evidence) < EvidenceDepth)
  <2>1. evidence # <<>>
    BY <1>1, <1>3
  <2>2. Tail(evidence) \in Seq(Status)
    BY <2>1
  <2>3. evidence' = Append(Tail(evidence), m)
    BY <1>3 DEF PublishEvidence
  <2>4. QED
    BY <2>2, <2>3
<1> QED
  BY <1>2, <1>3

-----------------------------------------------------------------------------
(* A run that ends leaves an idle worker, or a goal to report.             *)
LEMMA EndRunFacts ==
    ASSUME EndRun
    PROVE  /\ worker' \in [kind : Kinds, pc : PCs, left : 0..MaxCandidates, good : 0..MaxCandidates]
           /\ RunCounts'
           /\ worker'.pc \in {"release", "finish"}
<1>1. MaxCandidates \in Nat \ {0}
  BY CandidatesAssumption
<1>2. CASE worker.kind = "goal"
  <2>1. worker' = [kind |-> "goal", pc |-> "finish", left |-> 0, good |-> 0]
    BY <1>2 DEF EndRun, NoRun
  <2>2. QED
    BY <1>1, <2>1 DEF RunCounts, Kinds, PCs
<1>3. CASE worker.kind # "goal"
  <2>1. worker' = [kind |-> "none", pc |-> "release", left |-> 0, good |-> 0]
    BY <1>3 DEF EndRun, NoRun
  <2>2. QED
    BY <1>1, <2>1 DEF RunCounts, Kinds, PCs
<1> QED
  BY <1>2, <1>3

(* A run that starts finds a supervisor that is not searching.             *)
LEMMA StartFacts ==
    ASSUME RelocInv, ~ExecutionRunning, NEW kind \in Kinds, StartWorker(kind)
    PROVE  /\ worker' \in [kind : Kinds, pc : PCs, left : 0..MaxCandidates, good : 0..MaxCandidates]
           /\ cancelRequested' \in BOOLEAN
           /\ RunCounts'
           /\ sup.state \notin {"SEARCHING", "VERIFYING"}
<1>1. MaxCandidates \in Nat \ {0}
  BY CandidatesAssumption
<1>2. worker' = [kind |-> kind, pc |-> "begin", left |-> 0, good |-> 0] /\ cancelRequested' = FALSE
  BY DEF StartWorker
<1>3. worker.kind = "none"
  BY DEF ExecutionRunning
<1>4. worker' \in [kind : Kinds, pc : PCs, left : 0..MaxCandidates, good : 0..MaxCandidates]
  BY <1>1, <1>2 DEF PCs
<1>5. RunCounts'
  BY <1>1, <1>2 DEF RunCounts
<1>6. sup.state \notin {"SEARCHING", "VERIFYING"}
  BY <1>3 DEF RelocInv, NobodySearchesAlone
<1> QED
  BY <1>2, <1>4, <1>5, <1>6

(* The steps of the executor thread tell the supervisor nothing.           *)
LEMMA ExecutorStepKeeps ==
    ASSUME RelocInv, TopicsTypeOK, ExecutorStep
    PROVE  RelocInv' /\ Publishes /\ ask' \in Asks /\ UNCHANGED canonical
<1> USE DEF RelocInv
<1>types. /\ node \in {"starting", "up", "dead"} /\ sup \in Supervisor /\ localized \in BOOLEAN
          /\ worker \in [kind : Kinds, pc : PCs, left : 0..MaxCandidates, good : 0..MaxCandidates]
          /\ goal \in {"none", "executing", "canceling"} /\ cancelRequested \in BOOLEAN
          /\ executor \in {"free", "canceling", "validating"} /\ ask \in Asks
  BY DEF RelocTypeOK, TopicsTypeOK
<1>1. CASE Discovered
  BY <1>1, <1>types DEF Discovered, RelocTypeOK, RunCounts, NobodySearchesAlone, Publishes
<1>2. CASE HandleRequest
  <2>1. CASE ExecutionRunning
    BY <1>2, <2>1, <1>types DEF HandleRequest, RelocTypeOK, RunCounts, NobodySearchesAlone, Publishes, Asks
  <2>2. CASE ~ExecutionRunning
    <3>1. StartWorker("goal") /\ goal' = "executing" /\ ask' = "running"
          /\ UNCHANGED <<node, sup, localized, executor, evidence, canonical>>
      BY <1>2, <2>2 DEF HandleRequest, StartGoal
    <3>2. "goal" \in Kinds
      BY DEF Kinds
    <3>3. QED
      BY <2>2, <3>1, <3>2, <1>types, StartFacts DEF RelocTypeOK, NobodySearchesAlone, Publishes, Asks
  <2>3. QED
    BY <2>1, <2>2
<1>3. CASE HandleOperatorGoal
  <2>1. ~ExecutionRunning /\ StartWorker("goal") /\ goal' = "executing"
        /\ UNCHANGED <<node, sup, localized, executor, evidence, canonical, ask>>
    BY <1>3 DEF HandleOperatorGoal, StartGoal
  <2>2. "goal" \in Kinds
    BY DEF Kinds
  <2>3. QED
    BY <2>1, <2>2, <1>types, StartFacts DEF RelocTypeOK, NobodySearchesAlone, Publishes
<1>4. CASE HandleCancel \/ CancelTransition \/ MaybeStartTrackingValidation
  BY <1>4, <1>types DEF HandleCancel, CancelTransition, MaybeStartTrackingValidation, RelocTypeOK,
     RunCounts, NobodySearchesAlone, Publishes
<1>5. CASE InitialPoseRefused
  <2>1. PublishEvidence(Unaccepted("ERROR"))
        /\ UNCHANGED <<node, sup, localized, worker, goal, cancelRequested, executor, canonical, ask>>
    BY <1>5 DEF InitialPoseRefused, relocVars
  <2>2. Publishes
    BY <2>1, StatusFacts DEF Publishes
  <2>3. QED
    BY <2>1, <2>2, <1>types DEF RelocTypeOK, RunCounts, NobodySearchesAlone
<1>6. CASE InitialPoseAccepted
  <2>1. ~ExecutionRunning /\ StartWorker("manual")
        /\ UNCHANGED <<node, sup, localized, goal, executor, evidence, canonical, ask>>
    BY <1>6 DEF InitialPoseAccepted
  <2>2. "manual" \in Kinds
    BY DEF Kinds
  <2>3. QED
    BY <2>1, <2>2, <1>types, StartFacts DEF RelocTypeOK, NobodySearchesAlone, Publishes
<1>7. CASE StartTrackingValidation
  <2>1. executor' = "free" /\ UNCHANGED <<node, sup, localized, goal, evidence, canonical, ask>>
    BY <1>7 DEF StartTrackingValidation
  <2>2. CASE UNCHANGED <<worker, cancelRequested>>
    BY <2>1, <2>2, <1>types DEF RelocTypeOK, RunCounts, NobodySearchesAlone, Publishes
  <2>3. CASE ~ExecutionRunning /\ StartWorker("validation")
    <3>1. "validation" \in Kinds
      BY DEF Kinds
    <3>2. QED
      BY <2>1, <2>3, <3>1, <1>types, StartFacts DEF RelocTypeOK, NobodySearchesAlone, Publishes
  <2>4. QED
    BY <1>7, <2>2, <2>3 DEF StartTrackingValidation
<1> QED
  BY <1>1, <1>2, <1>3, <1>4, <1>5, <1>6, <1>7 DEF ExecutorStep

(* The steps of the worker thread: what is told to the supervisor is       *)
(* published at once, and every way out leaves it at rest.                 *)
LEMMA WorkerStepKeeps ==
    ASSUME RelocInv, TopicsTypeOK, WorkerStep
    PROVE  RelocInv' /\ Publishes /\ ask' \in Asks /\ UNCHANGED canonical
<1> USE DEF RelocInv
<1> DEFINE Runs == [kind : Kinds, pc : PCs, left : 0..MaxCandidates, good : 0..MaxCandidates]
           AtRest(s) == s.state \notin {"SEARCHING", "VERIFYING"}
<1>types. /\ node \in {"starting", "up", "dead"} /\ sup \in Supervisor /\ localized \in BOOLEAN
          /\ worker \in Runs
          /\ goal \in {"none", "executing", "canceling"} /\ cancelRequested \in BOOLEAN
          /\ executor \in {"free", "canceling", "validating"} /\ ask \in Asks
  BY DEF RelocTypeOK, TopicsTypeOK
<1>max. MaxCandidates \in Nat \ {0}
  BY CandidatesAssumption
<1>counts. worker.left \in 0..MaxCandidates /\ worker.good \in 0..MaxCandidates
  BY <1>types
<1>states. \A s \in Supervisor : s.state \in SupervisorStates
  BY DEF Supervisor
<1>rest. worker.pc \notin {"try", "register", "decide"} \/ worker.kind \notin {"goal", "manual"} => AtRest(sup)
  BY DEF NobodySearchesAlone

(* The ways to go on: by publishing s, at rest and at the end of the run,  *)
(* or by leaving the supervisor and the topic alone.                       *)
<1>end. ASSUME NEW s \in Supervisor, AtRest(s), sup' = s, localized' \in BOOLEAN, EndRun, WorkerOnly,
               \/ PublishEvidence(Unaccepted(s.state))
               \/ PublishEvidence(Accepted(s.state))
               \/ \E t \in {"LOST", "ERROR"} : PublishEvidence(Unaccepted(t))
               \/ s = sup /\ UNCHANGED evidence
        PROVE  RelocInv' /\ Publishes /\ ask' \in Asks /\ UNCHANGED canonical
  <2>1. worker' \in Runs /\ RunCounts'
    BY <1>end, EndRunFacts
  <2>2. UNCHANGED <<node, goal, cancelRequested, executor, canonical, ask>>
    BY <1>end DEF WorkerOnly
  <2>3. RelocTypeOK'
    BY <1>end, <2>1, <2>2, <1>types DEF RelocTypeOK
  <2>4. NobodySearchesAlone'
    BY <1>end DEF NobodySearchesAlone
  <2>5. Publishes
    <3>1. "LOST" \in SupervisorStates
      BY DEF SupervisorStates
    <3>2. QED
      BY <1>end, <1>states, <3>1, StatusFacts DEF Publishes
  <2>6. QED
    BY <2>1, <2>2, <2>3, <2>4, <2>5, <1>types
<1>quiet. ASSUME worker' \in Runs, RunCounts', WorkerOnly, UNCHANGED <<sup, localized>>,
                 \/ AtRest(sup)
                 \/ worker'.kind \in {"goal", "manual"} /\ worker'.pc \in {"try", "register", "decide"},
                 \/ UNCHANGED evidence
                 \/ \E t \in SupervisorStates : PublishEvidence(Unaccepted(t))
          PROVE  RelocInv' /\ Publishes /\ ask' \in Asks /\ UNCHANGED canonical
  <2>1. UNCHANGED <<node, goal, cancelRequested, executor, canonical, ask>>
    BY <1>quiet DEF WorkerOnly
  <2>2. RelocTypeOK' /\ NobodySearchesAlone'
    BY <1>quiet, <2>1, <1>types DEF RelocTypeOK, NobodySearchesAlone
  <2>3. Publishes
    BY <1>quiet, StatusFacts DEF Publishes
  <2>4. QED
    BY <1>quiet, <2>1, <2>2, <2>3, <1>types

<1>1. CASE RefuseRun
  <2>1. AtRest(sup)
    BY <1>1, <1>rest DEF RefuseRun, At
  <2>2. CASE Searching
    <3>1. /\ \E t \in {"LOST", "ERROR"} : PublishEvidence(Unaccepted(t))
          /\ EndRun /\ WorkerOnly /\ UNCHANGED <<sup, localized>>
      BY <1>1, <2>2 DEF RefuseRun, Searching, Validating
    <3>2. QED
      BY <2>1, <3>1, <1>types, <1>end
  <2>3. CASE Validating
    <3>1. EndValidation(FALSE)
      BY <1>1, <2>3 DEF RefuseRun, Searching, Validating
    <3>2. /\ sup' = TrackingValidation(sup, FALSE) /\ PublishEvidence(Unaccepted(sup'.state))
          /\ EndRun /\ WorkerOnly /\ UNCHANGED localized
      BY <3>1 DEF EndValidation
    <3>3. QED
      BY <2>1, <3>2, <1>types, <1>end, ValidationFacts
  <2>4. QED
    BY <1>1, <2>2, <2>3 DEF RefuseRun
<1>2. CASE SkipValidation
  <2>1. AtRest(sup)
    BY <1>2, <1>rest DEF SkipValidation, At
  <2>2. QED
    BY <1>2, <2>1, <1>types, <1>end DEF SkipValidation
<1>3. CASE BeginRun
  <2>1. /\ worker.pc = "begin" /\ worker.left = 0 /\ worker.good = 0
        /\ UNCHANGED localized /\ WorkerOnly
    BY <1>3 DEF BeginRun, At, RunCounts
  <2>2. CASE Searching
    <3>1. sup' = BeginSearch /\ PublishEvidence(Unaccepted("SEARCHING"))
      BY <1>3, <2>2 DEF BeginRun, Searching, Validating
    <3>2. PICK n \in CandidateCounts : worker' = [worker EXCEPT !.pc = "try", !.left = n]
      BY <1>3, <2>2 DEF BeginRun, Searching, Validating
    <3>3. n \in 1..MaxCandidates
      BY <1>max DEF CandidateCounts
    <3>4. /\ worker' \in Runs /\ worker'.pc = "try" /\ worker'.left = n /\ worker'.good = 0
          /\ worker'.kind = worker.kind
      <4>1. worker' = [kind |-> worker.kind, pc |-> "try", left |-> n, good |-> worker.good]
        BY <3>2, <1>types
      <4>2. n \in 0..MaxCandidates /\ 0 \in 0..MaxCandidates /\ worker.kind \in Kinds
        BY <3>3, <1>max, <1>types
      <4>3. QED
        BY <2>1, <4>1, <4>2 DEF PCs
    <3>5. RunCounts'
      BY <3>3, <3>4, <1>max DEF RunCounts
    <3>6. sup' \in Supervisor
      BY <3>1, <1>types, SupervisorFacts
    <3>7. NobodySearchesAlone'
      BY <2>2, <3>4 DEF NobodySearchesAlone, Searching
    <3>8. UNCHANGED <<node, goal, cancelRequested, executor, canonical, ask>>
      BY <2>1 DEF WorkerOnly
    <3>9. RelocTypeOK'
      BY <2>1, <3>4, <3>6, <3>8, <1>types DEF RelocTypeOK
    <3>10. Publishes
      BY <3>1, StatusFacts DEF Publishes, SupervisorStates
    <3>11. QED
      BY <3>5, <3>7, <3>8, <3>9, <3>10, <1>types
  <2>3. CASE Validating
    <3>1. GoTo("register") /\ UNCHANGED <<sup, evidence>>
      BY <1>3, <2>3 DEF BeginRun, Searching, Validating
    <3>2. /\ worker' \in Runs /\ worker'.pc = "register" /\ worker'.kind = "validation"
          /\ worker'.left = 0 /\ worker'.good = 0
      BY <2>1, <2>3, <3>1, <1>types DEF GoTo, PCs, Validating
    <3>3. RunCounts'
      BY <3>2, <1>max DEF RunCounts
    <3>4. QED
      BY <2>1, <3>1, <3>2, <3>3, <1>rest, <1>quiet
  <2>4. QED
    BY <1>3, <2>2, <2>3 DEF BeginRun
<1>4. CASE NextCandidate
  <2>1. worker.pc = "try"
    BY <1>4 DEF NextCandidate, At
  <2>2. CASE \E s \in {CancelSearch(sup), TimeoutSearch(sup)} : StopSearch(s)
    <3>1. PICK s \in {CancelSearch(sup), TimeoutSearch(sup)} : StopSearch(s)
      BY <2>2
    <3>2. s \in Supervisor /\ AtRest(s)
      BY <1>types, SupervisorFacts
    <3>3. QED
      BY <3>1, <3>2, <1>types, <1>end DEF StopSearch
  <2>3. CASE /\ sup' = BeginVerification(sup) /\ PublishEvidence(Unaccepted(sup'.state))
             /\ GoTo("register") /\ UNCHANGED localized /\ WorkerOnly
    <3>1. /\ worker' \in Runs /\ worker'.pc = "register" /\ worker'.kind = worker.kind
          /\ worker'.left = worker.left /\ worker'.good = worker.good
      BY <2>3, <1>types DEF GoTo, PCs
    <3>2. RunCounts'
      BY <2>1, <3>1 DEF RunCounts
    <3>3. sup' \in Supervisor
      BY <2>3, <1>types, SupervisorFacts
    <3>4. NobodySearchesAlone'
      BY <2>1, <2>3, <3>1 DEF NobodySearchesAlone, BeginVerification
    <3>5. UNCHANGED <<node, goal, cancelRequested, executor, canonical, ask>>
      BY <2>3 DEF WorkerOnly
    <3>6. RelocTypeOK'
      BY <2>3, <3>1, <3>3, <3>5, <1>types DEF RelocTypeOK
    <3>7. Publishes
      BY <2>3, <3>3, <1>states, StatusFacts DEF Publishes
    <3>8. QED
      BY <3>2, <3>4, <3>5, <3>6, <3>7, <1>types
  <2>4. QED
    BY <1>4, <2>2, <2>3 DEF NextCandidate
<1>5. CASE RegisterCandidate
  <2>1. /\ worker.pc = "register" /\ worker.kind \in {"goal", "manual"}
        /\ WorkerOnly /\ UNCHANGED <<sup, localized>>
    BY <1>5 DEF RegisterCandidate, At, Searching
  <2>2. PICK ok \in BOOLEAN :
           /\ PublishEvidence(Unaccepted(IF ok THEN "VERIFYING" ELSE "DEGRADED"))
           /\ worker' = [worker EXCEPT !.pc = IF worker.left > 1 THEN "try" ELSE "decide",
                                       !.left = @ - 1,
                                       !.good = IF ok THEN @ + 1 ELSE @]
    BY <1>5 DEF RegisterCandidate
  <2>3. worker.left > 0 /\ worker.left + worker.good <= MaxCandidates
    BY <2>1 DEF RunCounts
  <2>4. /\ worker' \in Runs
        /\ worker'.pc = IF worker.left > 1 THEN "try" ELSE "decide"
        /\ worker'.kind = worker.kind /\ worker'.left = worker.left - 1
        /\ worker'.good = IF ok THEN worker.good + 1 ELSE worker.good
    <3> DEFINE pc == IF worker.left > 1 THEN "try" ELSE "decide"
               good == IF ok THEN worker.good + 1 ELSE worker.good
    <3>1. worker' = [kind |-> worker.kind, pc |-> pc, left |-> worker.left - 1, good |-> good]
      BY <2>2, <1>types
    <3>2. /\ worker.kind \in Kinds /\ pc \in PCs
          /\ worker.left - 1 \in 0..MaxCandidates /\ good \in 0..MaxCandidates
      BY <2>3, <1>types, <1>counts, <1>max DEF PCs
    <3> HIDE DEF pc, good
    <3>3. worker' \in Runs
      BY <3>1, <3>2
    <3>4. QED
      BY <3>1, <3>3 DEF pc, good
  <2>5. RunCounts'
    BY <2>3, <2>4, <1>counts, <1>max DEF RunCounts
  <2>6. QED
    BY <2>1, <2>2, <2>4, <2>5, <1>quiet DEF SupervisorStates
<1>6. CASE RegisterValidation
  <2>1. AtRest(sup)
    BY <1>6, <1>rest DEF RegisterValidation, Validating
  <2>2. PICK accepted \in BOOLEAN : EndValidation(accepted)
    BY <1>6 DEF RegisterValidation
  <2>3. /\ sup' = TrackingValidation(sup, accepted)
        /\ PublishEvidence(Unaccepted(sup'.state)) \/ PublishEvidence(Accepted(sup'.state))
        /\ EndRun /\ WorkerOnly /\ UNCHANGED localized
    BY <2>2 DEF EndValidation
  <2>4. QED
    BY <2>1, <2>3, <1>types, <1>end, ValidationFacts
<1>7. CASE RejectSearch
  <2>1. RejectSearchResult(sup) \in Supervisor /\ AtRest(RejectSearchResult(sup))
    BY <1>types, SupervisorFacts
  <2>2. QED
    BY <1>7, <2>1, <1>types, <1>end DEF RejectSearch, StopSearch
<1>8. CASE AcceptSearch
  <2>1. AcceptSearchResult(sup) \in Supervisor /\ AtRest(AcceptSearchResult(sup))
    BY <1>types, SupervisorFacts
  <2>2. QED
    BY <1>8, <2>1, <1>end DEF AcceptSearch
<1>9. CASE FinishGoal
  <2>1. worker.pc = "finish" /\ UNCHANGED <<sup, localized, executor, evidence, canonical>>
    BY <1>9 DEF FinishGoal, At
  <2>2. AtRest(sup)
    BY <2>1, <1>rest
  <2>3. CASE node' = "dead" /\ UNCHANGED <<worker, goal, cancelRequested, ask>>
    BY <2>1, <2>3, <1>types DEF RelocTypeOK, RunCounts, NobodySearchesAlone, Publishes
  <2>4. CASE /\ goal' = "none" /\ ask' = IF ask = "running" THEN "done" ELSE ask
             /\ GoTo("release") /\ cancelRequested' = FALSE /\ UNCHANGED node
    <3>1. /\ worker' \in Runs /\ worker'.pc = "release"
          /\ worker'.left = worker.left /\ worker'.good = worker.good
      BY <2>4, <1>types DEF GoTo, PCs
    <3>2. RunCounts'
      BY <3>1 DEF RunCounts
    <3>3. RelocTypeOK' /\ ask' \in Asks
      BY <2>1, <2>4, <3>1, <1>types DEF RelocTypeOK, Asks
    <3>4. QED
      BY <2>1, <2>2, <3>2, <3>3 DEF NobodySearchesAlone, Publishes
  <2>5. QED
    BY <1>9, <2>3, <2>4 DEF FinishGoal
<1>10. CASE ReleaseExecution
  <2>1. AtRest(sup) /\ worker' = NoRun /\ UNCHANGED <<sup, localized, evidence>> /\ WorkerOnly
    BY <1>10, <1>rest DEF ReleaseExecution, At
  <2>2. worker' \in Runs /\ RunCounts'
    BY <2>1, <1>max DEF NoRun, Kinds, PCs, RunCounts
  <2>3. QED
    BY <2>1, <2>2, <1>quiet
<1> QED
  BY <1>1, <1>2, <1>3, <1>4, <1>5, <1>6, <1>7, <1>8, <1>9, <1>10 DEF WorkerStep

-----------------------------------------------------------------------------
(* The newest word on the way to the safety controller.                    *)
Newest == IF evidence = <<>> THEN canonical ELSE evidence[Len(evidence)]

(* The correction manager hands on the oldest sample: the newest stays, or *)
(* is the one that is now canonical, or is not accepted.                   *)
LEMMA CorrectionKeeps ==
    ASSUME TopicsTypeOK, CorrectionTypeOK, NavigableIsCorrected, CorrectionNext
    PROVE  /\ TopicsTypeOK' /\ CorrectionTypeOK' /\ NavigableIsCorrected'
           /\ Newest' = Newest \/ ~Navigable(Newest')
<1> DEFINE m == Head(evidence)
<1>1. /\ evidence \in Seq(Status) /\ evidence # <<>>
      /\ evidence' = Tail(evidence) /\ ask' = ask /\ ask \in Asks
  BY DEF CorrectionNext, TopicsTypeOK
<1>2. /\ m \in Status /\ m = evidence[1]
      /\ Tail(evidence) \in Seq(Status)
      /\ Len(Tail(evidence)) = Len(evidence) - 1
      /\ \A i \in 1..(Len(evidence) - 1) : Tail(evidence)[i] = evidence[i + 1]
  BY <1>1, HeadTailProperties
<1>3. Len(evidence) \in Nat /\ Len(evidence) > 0
  BY <1>1
<1>4. \/ Len(evidence) = 1 /\ evidence' = <<>> /\ Newest = m
      \/ evidence' # <<>> /\ Newest' = Newest
  <2>1. CASE Len(evidence) = 1
    BY <2>1, <1>1, <1>2 DEF Newest
  <2>2. CASE Len(evidence) > 1
    <3>1. Tail(evidence) # <<>>
      <4>1. Len(Tail(evidence)) # 0
        BY <2>2, <1>2, <1>3
      <4>2. QED
        BY <4>1, <1>2, EmptySeq
    <3>2. Tail(evidence)[Len(evidence) - 1] = evidence[Len(evidence)]
      BY <2>2, <1>2, <1>3
    <3>3. QED
      BY <3>1, <3>2, <1>1, <1>2 DEF Newest
  <2>3. \A n \in Nat : n > 0 => n = 1 \/ n > 1
    OBVIOUS
  <2>4. QED
    BY <1>3, <2>1, <2>2, <2>3
<1>5. /\ RejectionsToLost \in Nat \ {0}
      /\ \A s : CorrectionState(s) \in {"TRACKING", "RECOVERING", "LOST"}
      /\ CorrectionState("TRACKING") = "TRACKING"
      /\ \A p \in Poses : p # NoTransform
  BY CorrectionAssumption DEF CorrectionState, Poses, NoTransform
<1> HIDE DEF m
<1>6. CASE Forward(m)
  <2>1. /\ ~m.accepted /\ canonical' = m /\ transform' = transform
        /\ policy' \in {"TRACKING", "RECOVERING", "LOST"} /\ rejections' \in 0..RejectionsToLost
    BY <1>5, <1>6 DEF Forward, PublishCanonical, CorrectionTypeOK
  <2>2. QED
    BY <1>1, <1>2, <1>4, <2>1 DEF TopicsTypeOK, CorrectionTypeOK, NavigableIsCorrected, Newest, Navigable
<1>7. CASE Correct(m)
  <2>1. /\ canonical' = m /\ transform' \in Poses
        /\ policy' = CorrectionState(m.state) /\ rejections' = 0
    BY <1>7 DEF Correct, PublishCanonical
  <2>2. QED
    BY <1>1, <1>2, <1>4, <1>5, <2>1
    DEF TopicsTypeOK, CorrectionTypeOK, NavigableIsCorrected, Newest, Navigable
<1>8. CASE Reject(m)
  <2>1. /\ policy' \in {"RECOVERING", "LOST"} /\ rejections' \in 0..RejectionsToLost
        /\ canonical' = Unaccepted(policy') /\ transform' = transform
    BY <1>5, <1>8 DEF Reject, PublishCanonical, CorrectionTypeOK
  <2>2. canonical' \in Status /\ ~Navigable(canonical')
    BY <2>1, StatusFacts DEF SupervisorStates
  <2>3. QED
    BY <1>1, <1>2, <1>4, <2>1, <2>2 DEF TopicsTypeOK, CorrectionTypeOK, NavigableIsCorrected, Newest
<1> QED
  BY <1>6, <1>7, <1>8 DEF CorrectionNext, m

LEMMA LoopInit == Init => LoopInv
<1> SUFFICES ASSUME Init PROVE LoopInv
  OBVIOUS
<1>1. canonical \in Status /\ ~Navigable(canonical) /\ evidence = <<>>
  BY StatusFacts DEF Init, TopicsInit, SupervisorStates
<1>2. sup \in Supervisor /\ sup.state = "UNINITIALIZED"
  BY SupervisorAssumption DEF Init, RelocInit, Uninitialized, Supervisor, SupervisorStates
<1>3. worker \in [kind : Kinds, pc : PCs, left : 0..MaxCandidates, good : 0..MaxCandidates]
      /\ RunCounts
  BY CandidatesAssumption DEF Init, RelocInit, NoRun, RunCounts, Kinds, PCs
<1>4. CorrectionTypeOK
  BY CorrectionAssumption DEF Init, CorrectionInit, CorrectionTypeOK
<1>5. TopicsTypeOK
  BY <1>1 DEF Init, TopicsInit, TopicsTypeOK, Asks
<1>6. RelocTypeOK
  BY <1>2, <1>3 DEF Init, RelocInit, RelocTypeOK
<1>7. TriggerTypeOK
  BY DEF Init, TriggerInit, TriggerTypeOK
<1>8. NobodySearchesAlone
  BY <1>2 DEF NobodySearchesAlone
<1>9. NavigableIsBacked /\ NavigableIsCorrected
  BY <1>1 DEF NavigableIsBacked, NavigableIsCorrected
<1> QED
  BY <1>3, <1>4, <1>5, <1>6, <1>7, <1>8, <1>9 DEF LoopInv, TypeOK, RelocInv

LEMMA LoopStep == LoopInv /\ [Next]_vars => LoopInv'
<1> SUFFICES ASSUME LoopInv, [Next]_vars PROVE LoopInv'
  OBVIOUS
<1>types. /\ TopicsTypeOK /\ CorrectionTypeOK /\ TriggerTypeOK
          /\ RelocInv /\ NavigableIsBacked /\ NavigableIsCorrected
  BY DEF LoopInv, TypeOK
<1>1. CASE Relocalize
  <2>1. RelocNext /\ UNCHANGED <<transform, policy, rejections, known>>
    BY <1>1 DEF Relocalize, correctionVars
  <2>2. RelocInv' /\ Publishes /\ ask' \in Asks /\ UNCHANGED canonical
    BY <2>1, <1>types, ExecutorStepKeeps, WorkerStepKeeps DEF RelocNext
  <2>3. TopicsTypeOK' /\ NavigableIsBacked'
    <3>1. CASE UNCHANGED <<evidence, sup>>
      BY <2>2, <3>1, <1>types DEF TopicsTypeOK, NavigableIsBacked
    <3>2. CASE \E m \in Status : PublishEvidence(m) /\ (Navigable(m) => sup'.state = "TRACKING")
      <4>1. PICK m \in Status : PublishEvidence(m) /\ (Navigable(m) => sup'.state = "TRACKING")
        BY <3>2
      <4>2. evidence' \in Seq(Status) /\ evidence' # <<>> /\ evidence'[Len(evidence')] = m
        BY <4>1, <1>types, PublishFacts DEF TopicsTypeOK
      <4>3. QED
        BY <2>2, <4>1, <4>2, <1>types DEF TopicsTypeOK, NavigableIsBacked
    <3>3. QED
      BY <2>2, <3>1, <3>2 DEF Publishes
  <2>4. CorrectionTypeOK' /\ TriggerTypeOK' /\ NavigableIsCorrected'
    BY <2>1, <2>2, <1>types DEF CorrectionTypeOK, TriggerTypeOK, NavigableIsCorrected
  <2>5. QED
    BY <2>2, <2>3, <2>4 DEF LoopInv, TypeOK, RelocInv
<1>2. CASE Correction
  <2>1. CorrectionNext /\ UNCHANGED <<node, sup, localized, worker, goal, cancelRequested, executor, known>>
    BY <1>2 DEF Correction, relocVars
  <2>2. /\ TopicsTypeOK' /\ CorrectionTypeOK' /\ NavigableIsCorrected'
        /\ Newest' = Newest \/ ~Navigable(Newest')
    BY <2>1, <1>types, CorrectionKeeps
  <2>3. NavigableIsBacked'
    BY <2>1, <2>2, <1>types DEF NavigableIsBacked, Newest
  <2>4. RelocInv' /\ TriggerTypeOK'
    BY <2>1, <1>types DEF RelocInv, RelocTypeOK, RunCounts, NobodySearchesAlone, TriggerTypeOK
  <2>5. QED
    BY <2>2, <2>3, <2>4 DEF LoopInv, TypeOK, RelocInv
<1>3. CASE OnStatus \/ OnTimer \/ OnAnswer
  <2>1. UNCHANGED <<evidence, canonical, node, sup, localized, worker, goal, cancelRequested, executor,
                    transform, policy, rejections>>
    BY <1>3 DEF OnStatus, OnTimer, OnAnswer, StatusCallback, RetryTimer, AnswerCallback,
       relocVars, correctionVars
  <2>2. ask' \in Asks /\ TriggerTypeOK'
    BY <1>3, <1>types DEF OnStatus, OnTimer, OnAnswer, StatusCallback, RetryTimer, AnswerCallback,
       Trigger, Heard, TriggerTypeOK, TopicsTypeOK, Asks, WantsSearch
  <2>3. QED
    BY <2>1, <2>2, <1>types DEF LoopInv, TypeOK, TopicsTypeOK, CorrectionTypeOK, RelocInv, RelocTypeOK,
       RunCounts, NobodySearchesAlone, NavigableIsBacked, NavigableIsCorrected
<1>4. CASE UNCHANGED vars
  BY <1>4, <1>types DEF vars, topicVars, relocVars, correctionVars, LoopInv, TypeOK, TopicsTypeOK,
     CorrectionTypeOK, TriggerTypeOK, RelocInv, RelocTypeOK, RunCounts, NobodySearchesAlone,
     NavigableIsBacked, NavigableIsCorrected
<1> QED
  BY <1>1, <1>2, <1>3, <1>4 DEF Next

(* The invariant holds of every reachable state.                           *)
LEMMA LoopInvariant == Spec => []LoopInv
BY LoopInit, LoopStep, PTL DEF Spec

-----------------------------------------------------------------------------
(* Every variable of the three nodes and their topics keeps its type, for  *)
(* every length of the topic and every number of candidates.               *)
THEOREM LoopTypeCorrect == Spec => []TypeOK
<1>1. LoopInv => TypeOK
  BY DEF LoopInv
<1> QED
  BY <1>1, LoopInvariant, PTL

(* However runs, cancels and manual poses interleave, the newest word that *)
(* lets the safety controller drive is that of a supervisor that tracks.   *)
THEOREM NavigationIsBacked == Spec => []NavigableIsBacked
<1>1. LoopInv => NavigableIsBacked
  BY DEF LoopInv
<1> QED
  BY <1>1, LoopInvariant, PTL

(* Every way out of runCandidates leaves the supervisor at rest.           *)
THEOREM SearchesAreOwned == Spec => []NobodySearchesAlone
<1>1. LoopInv => NobodySearchesAlone
  BY DEF LoopInv, RelocInv
<1> QED
  BY <1>1, LoopInvariant, PTL

(* While the robot is told that it may navigate the correction manager     *)
(* moves map->odom by TrackingLimit at most.                               *)
THEOREM CorrectionsAreSmall == Spec => NoJumpWhileNavigable
<1>1. LoopInv /\ [Next]_vars =>
        [Navigable(canonical) =>
            transform # NoTransform /\ Distance(transform', transform) <= TrackingLimit]_vars
  <2> SUFFICES ASSUME LoopInv, Next, Navigable(canonical)
               PROVE  transform # NoTransform /\ Distance(transform', transform) <= TrackingLimit
    BY DEF vars
  <2>1. /\ policy = "TRACKING" /\ transform # NoTransform /\ transform \in Poses
        /\ TrackingLimit \in Nat /\ MaxPose \in Nat
    BY CorrectionAssumption DEF LoopInv, TypeOK, CorrectionTypeOK, NavigableIsCorrected
  <2>2. CASE transform' = transform
    BY <2>1, <2>2 DEF Distance, Poses
  <2>3. CASE \E m : Correct(m)
    <3>1. PICK p \in Poses : Correctable(p) /\ transform' = p
      BY <2>3 DEF Correct
    <3>2. Distance(p, transform) <= TrackingLimit
      BY <2>1, <3>1 DEF Correctable
    <3>3. QED
      BY <2>1, <3>1, <3>2
  <2>4. transform' = transform \/ \E m : Correct(m)
    BY DEF Next, Relocalize, Correction, OnStatus, OnTimer, OnAnswer, correctionVars, CorrectionNext,
       Forward, Reject
  <2>5. QED
    BY <2>2, <2>3, <2>4
<1> QED
  BY <1>1, LoopInvariant, PTL DEF Spec, NoJumpWhileNavigable
=============================================================================
