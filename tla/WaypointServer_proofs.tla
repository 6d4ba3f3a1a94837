------------------------ MODULE WaypointServer_proofs ------------------------
(***************************************************************************)
(* Proofs about WaypointServer, for every set of goals and requests, every *)
(* loop count and every number of callbacks: at most one child drives the  *)
(* robot, beside at most those of canceled tasks that are slowing down;    *)
(* its own task waits for it, and a task is successful only when the child *)
(* of each of its loops was.                                               *)
(***************************************************************************)
EXTENDS WaypointServer, TLAPS

(* The claim is exclusive: between it and the finally clause there is one  *)
(* goal, and the server knows that there is one.                           *)
OneOwner ==
  /\ \A g, h \in Goals : phase[g] \in Owning /\ phase[h] \in Owning => g = h
  /\ \A g \in Goals : phase[g] \in Owning => active # NoRequest

(* From the goal response to the judgement the child of this loop is known *)
(* to have been accepted, and after the result to be over.                 *)
ChildAnswered ==
  \A g \in Goals :
    /\ phase[g] \in {"sending", "install", "check", "stopped", "refused", "result", "judge"} =>
         loop[g] <= LoopCount[g]
    /\ phase[g] = "sending" => child[<<g, loop[g]>>] # "none"
    /\ phase[g] \in {"install", "check", "result"} => child[<<g, loop[g]>>] \notin {"none", "sent"}
    /\ phase[g] \in {"stopped", "refused", "judge"} => child[<<g, loop[g]>>] \notin Unstopped

(* The loops that were counted succeeded, and a success counted them all.  *)
LoopsDone ==
  \A g \in Goals :
    /\ \A l \in 1..LoopCount[g] : l < loop[g] => child[<<g, l>>] = "succeeded"
    /\ outcome[g] = "SUCCEEDED" => loop[g] > LoopCount[g]

(* A child that is slowing down is still awaited, or its goal was canceled *)
(* and is on its way out.                                                  *)
StoppingIsKnown ==
  \A c \in Children : child[c] = "stopping" =>
    \/ phase[c[1]] \in {"sending", "install", "check", "result"} /\ loop[c[1]] = c[2]
    \/ c[1] \in canceled
       /\ phase[c[1]] \in {"stopped", "refused", "except", "settle", "leaving", "done"}

IInv == TypeOK /\ OneOwner /\ ChildAnswered /\ DrivenIsAwaited /\ StoppingIsKnown /\ LoopsDone

-----------------------------------------------------------------------------
(* A child is a goal and one of its loops.                                 *)
LEMMA ChildFacts ==
  /\ \A g \in Goals : \A l \in 1..LoopCount[g] : <<g, l>> \in Children
  /\ \A c \in Children : c[1] \in Goals /\ c[2] \in 1..LoopCount[c[1]] /\ c = <<c[1], c[2]>>
  /\ \A g \in Goals : LoopCount[g] \in Nat \ {0}
BY ServerAssumption DEF Children


LEMMA InitEstablishes == Init => IInv
<1> SUFFICES ASSUME Init PROVE IInv
  OBVIOUS
<1>1. TypeOK
  <2>1. NoChild \in Children \cup {NoChild} /\ IdleSession \in Session
    BY DEF IdleSession, Session, SessionStates
  <2>2. NoDraft \in [request : Requests \cup {NoRequest}, from : SessionStates, to : SessionStates]
    BY DEF NoDraft, SessionStates
  <2>3. request \in [Goals -> Requests]
    BY ServerAssumption DEF Init
  <2>4. \A g \in Goals : loop[g] \in 1..(LoopCount[g] + 1)
    <3> TAKE g \in Goals
    <3>1. loop[g] = 1 /\ LoopCount[g] \in Nat \ {0}
      BY ChildFacts DEF Init
    <3>2. QED
      BY <3>1
  <2>5. QED
    BY <2>1, <2>2, <2>3, <2>4 DEF Init, TypeOK
<1>2. OneOwner
  BY DEF Init, OneOwner, Owning
<1>3. ChildAnswered
  BY DEF Init, ChildAnswered
<1>4. DrivenIsAwaited
  BY DEF Init, DrivenIsAwaited, Unstopped
<1>7. StoppingIsKnown
  BY DEF Init, StoppingIsKnown
<1>5. LoopsDone
  <2>1. \A g \in Goals : loop[g] = 1 /\ outcome[g] = "none"
    BY DEF Init
  <2>2. QED
    <3> SUFFICES ASSUME NEW g \in Goals
                 PROVE  (\A l \in 1..LoopCount[g] : ~(l < loop[g])) /\ outcome[g] # "SUCCEEDED"
      BY DEF LoopsDone
    <3>1. LoopCount[g] \in Nat
      BY ChildFacts
    <3>2. QED
      BY <2>1, <3>1
<1>6. QED
  BY <1>1, <1>2, <1>3, <1>4, <1>5, <1>7 DEF IInv

-----------------------------------------------------------------------------
(* The type invariant                                                      *)

Draft == [request : Requests \cup {NoRequest}, from : SessionStates, to : SessionStates]

(* A copy is a draft of the thread that made it.                           *)
LEMMA CopyTyped ==
  ASSUME TypeOK, NEW t \in Threads, NEW state \in SessionStates,
         Copy(t, state) \/ CopyIfLegal(t, state)
  PROVE  draft' \in [Threads -> Draft]
<1>1. [request |-> session.request, from |-> session.state, to |-> state] \in Draft
  BY DEF TypeOK, Session, Draft
<1>2. QED
  BY <1>1 DEF TypeOK, Copy, CopyIfLegal, Draft

(* A goal that moves stays in the places there are.                        *)
LEMMA MoveTyped ==
  ASSUME TypeOK, NEW g \in Goals, NEW from, NEW to \in Owning \cup {"none", "accepted", "done"},
         Move(g, from, to)
  PROVE  phase' \in [Goals -> Owning \cup {"none", "accepted", "done"}]
BY DEF TypeOK, Move

(* The same for a task that is about to end.                               *)
LEMMA EndTyped ==
  ASSUME TypeOK, NEW g \in Goals, NEW from, NEW state \in Terminal, EndAs(g, from, state)
  PROVE  /\ phase' \in [Goals -> Owning \cup {"none", "accepted", "done"}]
         /\ outcome' \in [Goals -> {"none", "blocked", "duplicate"} \cup Terminal]
         /\ draft' \in [Threads -> Draft]
<1>1. g \in Threads /\ state \in SessionStates
  BY DEF Threads, SessionStates
<1>2. CASE Legal(state) /\ Move(g, from, "settle") /\ Copy(g, state)
             /\ outcome' = [outcome EXCEPT ![g] = state]
  BY <1>1, <1>2, CopyTyped, MoveTyped DEF TypeOK, Owning
<1>3. CASE ~Legal(state) /\ Move(g, from, "except") /\ UNCHANGED <<draft, outcome>>
  BY <1>3, MoveTyped DEF TypeOK, Owning, Draft
<1>4. QED
  BY <1>2, <1>3 DEF EndAs

LEMMA TypeStep == TypeOK /\ ChildAnswered /\ [Next]_vars => TypeOK'
<1> SUFFICES ASSUME TypeOK, ChildAnswered, [Next]_vars PROVE TypeOK'
  OBVIOUS
<1> USE DEF Draft
<1>1. ASSUME NEW g \in Goals, GoalCallback(g) \/ Execute(g)
      PROVE  TypeOK'
  <2>1. g \in Threads /\ g \in Goals
    BY DEF Threads
  <2>2. CASE GoalCallback(g) \/ ClaimBlocked(g)
    BY <2>2, MoveTyped DEF GoalCallback, ClaimBlocked, Quiet, OutsideUnchanged,
       ServerUnchanged, TypeOK
  <2>11. CASE ClaimDuplicate(g)
    <3>1. session' \in Session
      BY <2>11 DEF ClaimDuplicate, TypeOK, Session
    <3>2. clobbered' \in BOOLEAN
      BY <2>11 DEF ClaimDuplicate, TypeOK
    <3>3. QED
      BY <2>11, <3>1, <3>2, MoveTyped DEF ClaimDuplicate, OutsideUnchanged, ServerUnchanged, TypeOK
  <2>3. CASE Claim(g) \/ StartSession(g) \/ LoadBlocked(g) \/ Leave(g)
    BY <2>3, MoveTyped DEF Claim, StartSession, LoadBlocked, Leave, OutsideUnchanged,
       ServerUnchanged, TypeOK, Session, SessionStates, Owning
  <2>4. CASE \/ Blocked(g) \/ LoopCanceled(g) \/ Succeed(g) \/ ChildRejected(g)
             \/ EndCanceled(g) \/ JudgeCanceled(g)
    BY <2>4, EndTyped DEF Blocked, LoopCanceled, Succeed, ChildRejected, EndCanceled,
       JudgeCanceled, Quiet, OutsideUnchanged, ServerUnchanged, TypeOK, Terminal
  <2>5. CASE Validate(g) \/ Accept(g) \/ JudgeGate(g)
    BY <2>1, <2>5, EndTyped, MoveTyped, CopyTyped DEF Validate, Accept, JudgeGate, Quiet,
       OutsideUnchanged, ServerUnchanged, TypeOK, Terminal, Owning, SessionStates
  <2>6. CASE JudgeResult(g)
    <3>1. CASE child[ChildOf(g)] = "failed" /\ EndAs(g, "judge", "FAILED") /\ UNCHANGED loop
      BY <2>6, <3>1, EndTyped DEF JudgeResult, Quiet, OutsideUnchanged, ServerUnchanged,
         TypeOK, Terminal
    <3>2. CASE Move(g, "judge", "head") /\ loop' = [loop EXCEPT ![g] = @ + 1]
                 /\ UNCHANGED <<outcome, draft>>
      <4>1. loop' \in [Goals -> Nat] /\ \A h \in Goals : loop'[h] \in 1..(LoopCount[h] + 1)
        BY <2>6, <3>2, ChildFacts DEF JudgeResult, TypeOK
      <4>2. QED
        BY <2>6, <3>2, <4>1, MoveTyped DEF JudgeResult, Quiet, OutsideUnchanged,
           ServerUnchanged, TypeOK, Owning
    <3>3. QED
      BY <2>6, <3>1, <3>2 DEF JudgeResult
  <2>7. CASE SendChild(g) \/ Result(g)
    BY <2>7, MoveTyped DEF SendChild, Result, Quiet, OutsideUnchanged, ServerUnchanged, TypeOK, Owning
  <2>12. CASE Install(g)
    <3>1. ChildOf(g) \in Children
      BY <2>12, ChildFacts DEF Install, Move, TypeOK, ChildOf, ChildAnswered
    <3>2. QED
      BY <2>12, <3>1, MoveTyped DEF Install, OutsideUnchanged, TypeOK, Owning
  <2>13. CASE Settle(g)
    <3>1. recent' \in [Requests -> {"UNKNOWN"} \cup SessionStates]
      BY <2>13 DEF Settle, TypeOK, Session
    <3>2. QED
      BY <2>13, <3>1, MoveTyped DEF Settle, OutsideUnchanged, TypeOK, Owning
  <2>8. CASE CheckCancel(g)
    BY <2>8, MoveTyped DEF CheckCancel, Stop, Quiet, OutsideUnchanged,
       ServerUnchanged, TypeOK, Owning, Live
  <2>9. CASE ChildAccepted(g) \/ Except(g)
    BY <2>1, <2>9, MoveTyped, CopyTyped DEF ChildAccepted, Except, Quiet, OutsideUnchanged,
       ServerUnchanged, TypeOK, Owning, SessionStates, Terminal
  <2>10. QED
    BY <1>1, <2>2, <2>3, <2>4, <2>5, <2>6, <2>7, <2>8, <2>9, <2>11, <2>12, <2>13 DEF Execute
<1>2. ASSUME NEW g \in Goals, CancelCallback(g) PROVE TypeOK'
  <2>1. draft' \in [Threads -> Draft]
    BY <1>2, CopyTyped DEF CancelCallback, Threads, Callbacks, SessionStates
  <2>2. canceler' \in {<<"idle", NoGoal>>} \cup ({"stop", "mark"} \X Goals)
    BY <1>2 DEF CancelCallback
  <2>3. QED
    BY <1>2, <2>1, <2>2 DEF CancelCallback, CallbackOnly, CallbackHappens, goalVars, TypeOK
<1>3. ASSUME NEW t \in Threads, Write(t) PROVE TypeOK'
  BY <1>3 DEF Write, goalVars, TypeOK, Session, NoDraft, SessionStates
<1>4. ASSUME NEW c \in Children, Answer(c) \/ Arrive(c) \/ Stopped(c) PROVE TypeOK'
  BY <1>4 DEF Answer, Arrive, Stopped, Nav2Only, goalVars, TypeOK, Live, Over
<1>5. CASE GateLost
  <2>1. happened' \in Nat
    BY <1>5 DEF GateLost, CallbackHappens, TypeOK
  <2>2. keeper' \in {<<"idle", NoChild>>} \cup ({"fail", "stop"} \X Children)
    BY <1>5 DEF GateLost, TypeOK
  <2>3. QED
    BY <1>5, <2>1, <2>2 DEF GateLost, CallbackOnly, goalVars, TypeOK
<1>11. CASE GateReady
  BY <1>11 DEF GateReady, CallbackOnly, goalVars, TypeOK
<1>6. CASE GateFails
  BY <1>6, CopyTyped DEF GateFails, CallbackOnly, goalVars, TypeOK, Threads, Callbacks,
     SessionStates, Terminal
<1>7. CASE GateStops \/ CancelStops \/ CancelMarks
  <2>1. child' \in [Children -> {"none", "sent"} \cup Live \cup Over]
    BY <1>7 DEF GateStops, CancelStops, CancelMarks, Stop, TypeOK, Live
  <2>2. keeper' \in {<<"idle", NoChild>>} \cup ({"fail", "stop"} \X Children)
    BY <1>7 DEF GateStops, CancelStops, CancelMarks, TypeOK
  <2>3. canceler[1] # "idle" => canceler[2] \in Goals
    BY DEF TypeOK
  <2>4. canceler' \in {<<"idle", NoGoal>>} \cup ({"stop", "mark"} \X Goals)
    BY <1>7, <2>3 DEF GateStops, CancelStops, CancelMarks, TypeOK
  <2>5. canceled' \subseteq Goals
    BY <1>7, <2>3 DEF GateStops, CancelStops, CancelMarks, TypeOK
  <2>6. QED
    BY <1>7, <2>1, <2>2, <2>4, <2>5
    DEF GateStops, CancelStops, CancelMarks, CallbackOnly, goalVars, TypeOK
<1>8. CASE Feedback
  <2>1. draft' \in [Threads -> Draft]
    BY <1>8, CopyTyped DEF Feedback, Threads, Callbacks, SessionStates
  <2>2. QED
    BY <1>8, <2>1 DEF Feedback, CallbackOnly, CallbackHappens, goalVars, TypeOK
<1>9. CASE UNCHANGED vars
  BY <1>9 DEF vars, goalVars, TypeOK
<1>10. QED
  BY <1>1, <1>2, <1>3, <1>4, <1>5, <1>6, <1>7, <1>8, <1>9, <1>11 DEF Next, Callback

-----------------------------------------------------------------------------
(* What the steps outside _execute leave alone, and what they may do to a  *)
(* child.                                                                  *)
Outside ==
  \/ \E g \in Goals : GoalCallback(g) \/ CancelCallback(g)
  \/ \E t \in Threads : Write(t)
  \/ \E c \in Children : Answer(c) \/ Arrive(c) \/ Stopped(c)
  \/ GateLost \/ GateReady \/ Callback \/ Feedback
  \/ UNCHANGED vars

(* A child that somebody else changes was sent or driven, and is not sent  *)
(* again; one that is over stays what it is.                               *)
LEMMA OutsideChild ==
  ASSUME TypeOK, Outside, NEW c \in Children
  PROVE  \/ child'[c] = child[c]
         \/ child[c] \in {"sent"} \cup Live /\ child'[c] \notin {"none", "sent"}
            /\ (child'[c] \in Unstopped => child[c] = "sent")
            /\ (child'[c] = "stopping" => child[c] = "driving")
<1>1. ASSUME NEW g \in Goals, GoalCallback(g) \/ CancelCallback(g) PROVE child' = child
  BY <1>1 DEF GoalCallback, Quiet, CancelCallback
<1>2. ASSUME NEW t \in Threads, Write(t) PROVE child' = child
  BY <1>2 DEF Write
<1>3. ASSUME NEW d, Stop(d)
      PROVE  child'[c] = child[c] \/ (child[c] = "driving" /\ child'[c] = "stopping")
  BY <1>3 DEF Stop, TypeOK
<1>4. CASE GateStops \/ CancelStops
  BY <1>3, <1>4 DEF GateStops, CancelStops, Live, Unstopped
<1>5. CASE GateLost \/ GateReady \/ GateFails \/ CancelMarks \/ Feedback \/ UNCHANGED vars
  BY <1>5 DEF GateLost, GateReady, GateFails, CancelMarks, Feedback, vars
<1>6. ASSUME NEW d \in Children, Answer(d) \/ Arrive(d) \/ Stopped(d)
      PROVE  \/ child'[c] = child[c]
             \/ child[c] \in {"sent"} \cup Live /\ child'[c] \notin {"none", "sent"}
                /\ (child'[c] \in Unstopped => child[c] = "sent")
                /\ child'[c] # "stopping"
  BY <1>6 DEF Answer, Arrive, Stopped, TypeOK, Live, Unstopped
<1>7. QED
  BY <1>1, <1>2, <1>4, <1>5, <1>6 DEF Outside, Callback

LEMMA OutsidePhase ==
  ASSUME TypeOK, Outside
  PROVE  /\ loop' = loop /\ outcome' = outcome /\ active' = active /\ canceled \subseteq canceled'
         /\ \/ phase' = phase
            \/ \E g \in Goals : phase[g] = "none" /\ phase' = [phase EXCEPT ![g] = "accepted"]
BY DEF Outside, GoalCallback, Move, Quiet, ServerUnchanged, OutsideUnchanged, CancelCallback, Write, Answer, Arrive,
   Stopped, Nav2Only, GateLost, GateReady, Callback, GateFails, GateStops, CancelStops, CancelMarks,
   Feedback, CallbackOnly, goalVars, vars

(* The invariant under every step that is not of _execute.                 *)
LEMMA OutsideStep == IInv /\ Outside =>
         OneOwner' /\ ChildAnswered' /\ DrivenIsAwaited' /\ StoppingIsKnown' /\ LoopsDone'
<1> SUFFICES ASSUME IInv, Outside
             PROVE  OneOwner' /\ ChildAnswered' /\ DrivenIsAwaited' /\ StoppingIsKnown' /\ LoopsDone'
  OBVIOUS
<1>1. TypeOK /\ OneOwner /\ ChildAnswered /\ DrivenIsAwaited /\ StoppingIsKnown /\ LoopsDone
  BY DEF IInv
<1>2. /\ loop' = loop /\ outcome' = outcome /\ active' = active /\ canceled \subseteq canceled'
      /\ \A g \in Goals : phase'[g] = phase[g] \/ (phase[g] = "none" /\ phase'[g] = "accepted")
  BY <1>1, OutsidePhase DEF TypeOK
<1>3. \A c \in Children :
        \/ child'[c] = child[c]
        \/ child[c] \in {"sent"} \cup Live /\ child'[c] \notin {"none", "sent"}
           /\ (child'[c] \in Unstopped => child[c] = "sent")
           /\ (child'[c] = "stopping" => child[c] = "driving")
  BY <1>1, OutsideChild
<1>4. OneOwner'
  BY <1>1, <1>2 DEF OneOwner, Owning
<1>5. ChildAnswered'
  <2> SUFFICES ASSUME NEW g \in Goals,
                      phase[g] \in {"sending", "install", "check", "stopped", "refused", "result", "judge"}
               PROVE  /\ loop[g] <= LoopCount[g]
                      /\ phase[g] = "sending" => child'[<<g, loop[g]>>] # "none"
                      /\ phase[g] \in {"install", "check", "result"} =>
                           child'[<<g, loop[g]>>] \notin {"none", "sent"}
                      /\ phase[g] \in {"stopped", "refused", "judge"} =>
                           child'[<<g, loop[g]>>] \notin Unstopped
    BY <1>2 DEF ChildAnswered
  <2>1. <<g, loop[g]>> \in Children
    BY <1>1, ChildFacts DEF ChildAnswered, TypeOK
  <2>2. QED
    BY <1>1, <1>3, <2>1 DEF ChildAnswered, Unstopped, Live
<1>6. DrivenIsAwaited'
  BY <1>1, <1>2, <1>3, ChildFacts DEF DrivenIsAwaited, Unstopped, Live
<1>7. LoopsDone'
  BY <1>1, <1>2, <1>3, ChildFacts DEF LoopsDone, Live
<1>9. StoppingIsKnown'
  <2> SUFFICES ASSUME NEW c \in Children, child'[c] = "stopping"
               PROVE  \/ /\ phase'[c[1]] \in {"sending", "install", "check", "result"}
                         /\ loop'[c[1]] = c[2]
                      \/ c[1] \in canceled' /\ phase'[c[1]] \in
                           {"stopped", "refused", "except", "settle", "leaving", "done"}
    BY DEF StoppingIsKnown
  <2>1. c[1] \in Goals
    BY ChildFacts
  <2>2. CASE child[c] = "stopping"
    BY <1>1, <1>2, <2>1, <2>2 DEF StoppingIsKnown
  <2>3. CASE child[c] = "driving"
    BY <1>1, <1>2, <2>1, <2>3 DEF DrivenIsAwaited, Unstopped
  <2>4. QED
    BY <1>3, <2>2, <2>3
<1>8. QED
  BY <1>4, <1>5, <1>6, <1>7, <1>9

-----------------------------------------------------------------------------
(* _execute                                                                *)

(* A goal that moves moves alone.                                          *)
LEMMA MoveFacts ==
  ASSUME TypeOK, NEW g \in Goals, NEW from, NEW to, Move(g, from, to)
  PROVE  phase[g] = from /\ phase'[g] = to /\ \A h \in Goals : h # g => phase'[h] = phase[h]
BY DEF TypeOK, Move

LEMMA EndFacts ==
  ASSUME TypeOK, NEW g \in Goals, NEW from, NEW state, EndAs(g, from, state)
  PROVE  /\ phase[g] = from /\ phase'[g] \in {"settle", "except"}
         /\ \A h \in Goals : h # g => phase'[h] = phase[h] /\ outcome'[h] = outcome[h]
         /\ outcome'[g] \in {outcome[g], state}
BY MoveFacts DEF EndAs, TypeOK

(* The steps that only go on: the goal moves from a place to another, the  *)
(* child and the loop stay, and no success is told.                        *)
Ends(g) ==
  \/ Blocked(g) \/ LoopCanceled(g) \/ ChildRejected(g) \/ EndCanceled(g) \/ JudgeCanceled(g)
  \/ JudgeGate(g)

LEMMA EndsFacts ==
  ASSUME TypeOK, NEW g \in Goals, Ends(g)
  PROVE  /\ child' = child /\ loop' = loop /\ active' = active
         /\ \A h \in Goals : h # g => phase'[h] = phase[h] /\ outcome'[h] = outcome[h]
         /\ outcome'[g] # "SUCCEEDED" \/ outcome'[g] = outcome[g]
         /\ phase'[g] \in {"settle", "except"}
         /\ phase[g] \in {"blocked", "head", "sending", "stopped", "refused", "judge"}
         /\ phase[g] = "sending" => child[<<g, loop[g]>>] = "rejected"
<1>1. CASE Blocked(g) \/ LoopCanceled(g) \/ EndCanceled(g) \/ JudgeCanceled(g)
  BY <1>1, EndFacts DEF Blocked, LoopCanceled, EndCanceled, JudgeCanceled, Quiet, ServerUnchanged
<1>2. CASE ChildRejected(g)
  BY <1>2, EndFacts DEF ChildRejected, Quiet, ServerUnchanged, ChildOf
<1>3. CASE JudgeGate(g)
  BY <1>3, EndFacts, MoveFacts DEF JudgeGate, Quiet, ServerUnchanged, TypeOK
<1>4. QED
  BY <1>1, <1>2, <1>3 DEF Ends

(* A goal's step touches no other goal's child, place or loop.             *)
LEMMA OthersUntouched ==
  ASSUME IInv, NEW g \in Goals, Execute(g), NEW h \in Goals, h # g
  PROVE  /\ phase'[h] = phase[h] /\ loop'[h] = loop[h] /\ outcome'[h] = outcome[h]
         /\ \A l \in 1..LoopCount[h] : child'[<<h, l>>] = child[<<h, l>>]
<1>1. TypeOK /\ ChildAnswered
  BY DEF IInv
<1>2. CASE Ends(g)
  BY <1>1, <1>2, EndsFacts
<1>3. CASE Succeed(g) \/ Validate(g) \/ Accept(g)
  BY <1>1, <1>3, EndFacts, MoveFacts DEF Succeed, Validate, Accept, Quiet
<1>4. CASE JudgeResult(g)
  <2>1. phase'[h] = phase[h] /\ outcome'[h] = outcome[h]
    BY <1>1, <1>4, EndFacts, MoveFacts DEF JudgeResult
  <2>2. loop'[h] = loop[h] /\ child' = child
    BY <1>1, <1>4 DEF JudgeResult, TypeOK
  <2>3. QED
    BY <2>1, <2>2
<1>5. CASE SendChild(g)
  BY <1>1, <1>5, MoveFacts, ChildFacts DEF SendChild, Quiet, TypeOK, ChildOf
<1>6. CASE CheckCancel(g)
  BY <1>1, <1>6, MoveFacts, ChildFacts DEF CheckCancel, Stop, Quiet, TypeOK, ChildOf
<1>7. CASE \/ ClaimDuplicate(g) \/ ClaimBlocked(g) \/ Claim(g) \/ StartSession(g) \/ LoadBlocked(g)
           \/ ChildAccepted(g) \/ Install(g) \/ Result(g) \/ Except(g) \/ Settle(g) \/ Leave(g)
  BY <1>1, <1>7, MoveFacts DEF ClaimDuplicate, ClaimBlocked, Claim, StartSession, LoadBlocked,
     ChildAccepted, Install, Result, Except, Settle, Leave, Quiet, TypeOK
<1>8. QED
  BY <1>2, <1>3, <1>4, <1>5, <1>6, <1>7 DEF Execute, Ends

(* Only a claim makes an owner, when there is none, and only an owner      *)
(* gives the server free.                                                  *)
LEMMA OwnerStep == ASSUME IInv, NEW g \in Goals, Execute(g) PROVE OneOwner'
<1>1. TypeOK /\ OneOwner
  BY DEF IInv
<1>2. \/ phase[g] \in Owning /\ active' = active
      \/ phase[g] \in Owning /\ phase'[g] \notin Owning
      \/ active = NoRequest /\ active' # NoRequest
      \/ phase'[g] \notin Owning /\ active' = active
  <2>1. CASE Ends(g)
    BY <1>1, <2>1, EndsFacts DEF Owning
  <2>2. CASE Succeed(g) \/ Validate(g) \/ Accept(g) \/ JudgeResult(g)
    BY <1>1, <2>2, EndFacts, MoveFacts DEF Succeed, Validate, Accept, JudgeResult, Quiet,
       ServerUnchanged, Owning
  <2>3. CASE Claim(g)
    BY <2>3, ServerAssumption DEF Claim, TypeOK, IInv
  <2>4. CASE \/ ClaimDuplicate(g) \/ ClaimBlocked(g) \/ StartSession(g) \/ LoadBlocked(g)
             \/ SendChild(g) \/ ChildAccepted(g) \/ Install(g) \/ CheckCancel(g) \/ Result(g)
             \/ Except(g) \/ Settle(g)
    BY <1>1, <2>4, MoveFacts DEF ClaimDuplicate, ClaimBlocked, StartSession, LoadBlocked, SendChild,
       ChildAccepted, Install, CheckCancel, Result, Except, Settle, Quiet, ServerUnchanged, Owning
  <2>5. CASE Leave(g)
    BY <1>1, <2>5, MoveFacts DEF Leave, Owning
  <2>6. QED
    BY <2>1, <2>2, <2>3, <2>4, <2>5 DEF Execute, Ends
<1>3. \A h \in Goals : h # g => phase'[h] = phase[h]
  BY OthersUntouched
<1>4. QED
  BY <1>1, <1>2, <1>3 DEF OneOwner

(* The goal's own child and loop.                                          *)
OwnFacts(g) ==
  /\ phase[g] \in {"sending", "install", "check", "stopped", "refused", "result", "judge"} =>
       loop[g] <= LoopCount[g]
  /\ phase[g] = "sending" => child[<<g, loop[g]>>] # "none"
  /\ phase[g] \in {"install", "check", "result"} => child[<<g, loop[g]>>] \notin {"none", "sent"}
  /\ phase[g] \in {"stopped", "refused", "judge"} => child[<<g, loop[g]>>] \notin Unstopped
  /\ \A l \in 1..LoopCount[g] : child[<<g, l>>] \in Unstopped =>
       phase[g] \in {"sending", "install", "check", "result"} /\ loop[g] = l
  /\ \A l \in 1..LoopCount[g] : child[<<g, l>>] = "stopping" =>
       \/ phase[g] \in {"sending", "install", "check", "result"} /\ loop[g] = l
       \/ g \in canceled
          /\ phase[g] \in {"stopped", "refused", "except", "settle", "leaving", "done"}
  /\ \A l \in 1..LoopCount[g] : l < loop[g] => child[<<g, l>>] = "succeeded"
  /\ outcome[g] = "SUCCEEDED" => loop[g] > LoopCount[g]

LEMMA ExecuteKeepsCanceled == ASSUME NEW g \in Goals, Execute(g) PROVE canceled' = canceled
BY DEF Execute, ClaimDuplicate, ClaimBlocked, Claim, StartSession, LoadBlocked, Blocked, Validate,
   Accept, LoopCanceled, SendChild, Succeed, ChildRejected, ChildAccepted, Install, CheckCancel,
   EndCanceled, Result, JudgeCanceled, JudgeGate, JudgeResult, Except, Settle, Leave, Quiet,
   OutsideUnchanged

LEMMA OwnStep == ASSUME IInv, NEW g \in Goals, Execute(g) PROVE OwnFacts(g)'
<1>1. TypeOK /\ OwnFacts(g) /\ canceled' = canceled
  BY ChildFacts, ExecuteKeepsCanceled DEF IInv, OwnFacts, ChildAnswered, DrivenIsAwaited, StoppingIsKnown, LoopsDone
<1>2. LoopCount[g] \in Nat /\ loop[g] \in Nat
  BY <1>1, ChildFacts DEF TypeOK
<1>3. CASE Ends(g)
  BY <1>1, <1>2, <1>3, EndsFacts DEF OwnFacts, Unstopped
<1>4. CASE Succeed(g)
  BY <1>1, <1>2, <1>4, EndFacts DEF Succeed, OwnFacts, Unstopped
<1>5. CASE Validate(g) \/ Accept(g)
  BY <1>1, <1>2, <1>5, EndFacts, MoveFacts DEF Validate, Accept, OwnFacts, Unstopped
<1>6. CASE JudgeResult(g)
  <2>1. CASE EndAs(g, "judge", "FAILED") /\ UNCHANGED loop
    BY <1>1, <1>2, <1>6, <2>1, EndFacts DEF JudgeResult, OwnFacts, Unstopped
  <2>2. CASE /\ child[ChildOf(g)] = "succeeded" /\ Move(g, "judge", "head")
             /\ loop' = [loop EXCEPT ![g] = @ + 1] /\ UNCHANGED <<outcome, draft>>
    <3>1. phase[g] = "judge" /\ phase'[g] = "head" /\ loop'[g] = loop[g] + 1
      BY <1>1, <2>2, MoveFacts DEF TypeOK
    <3>2. QED
      BY <1>1, <1>2, <1>6, <2>2, <3>1 DEF JudgeResult, OwnFacts, Unstopped, ChildOf
  <2>3. QED
    BY <1>6, <2>1, <2>2 DEF JudgeResult
<1>7. CASE SendChild(g)
  <2>1. /\ phase[g] = "head" /\ phase'[g] = "sending" /\ loop' = loop /\ outcome' = outcome
        /\ loop[g] \in 1..LoopCount[g]
        /\ \A l \in 1..LoopCount[g] : child'[<<g, l>>] = IF l = loop[g] THEN "sent" ELSE child[<<g, l>>]
    BY <1>1, <1>2, <1>7, MoveFacts, ChildFacts DEF SendChild, ChildOf, TypeOK
  <2>2. QED
    BY <1>1, <1>2, <2>1 DEF OwnFacts, Unstopped
<1>8. CASE CheckCancel(g)
  <2>1. loop[g] \in 1..LoopCount[g] /\ ChildOf(g) \in Children
    BY <1>1, <1>2, <1>8, ChildFacts DEF CheckCancel, TypeOK, ChildOf
  <2>2. /\ phase[g] = "check" /\ loop' = loop /\ outcome' = outcome
        /\ \A l \in 1..LoopCount[g] : l # loop[g] => child'[<<g, l>>] = child[<<g, l>>]
        /\ \/ phase'[g] = "result" /\ child' = child
           \/ /\ phase'[g] \in {"stopped", "refused"} /\ child'[<<g, loop[g]>>] \notin Unstopped
              /\ g \in canceled
    BY <1>1, <1>8, <2>1, MoveFacts, ChildFacts
    DEF CheckCancel, Stop, TypeOK, ChildOf, Unstopped, OwnFacts, Live, Over
  <2>3. child'[<<g, loop[g]>>] = child[<<g, loop[g]>>] \/ child[<<g, loop[g]>>] = "driving"
    BY <1>1, <1>8, <2>1 DEF CheckCancel, Stop, TypeOK, ChildOf
  <2>4. QED
    BY <1>1, <1>2, <2>1, <2>2, <2>3 DEF OwnFacts, Unstopped
<1>9. CASE ChildAccepted(g)
  BY <1>1, <1>2, <1>9, MoveFacts DEF ChildAccepted, OwnFacts, Unstopped, ChildOf, TypeOK, Live, Over
<1>10. CASE Install(g)
  BY <1>1, <1>2, <1>10, MoveFacts DEF Install, OwnFacts, Unstopped
<1>11. CASE Result(g)
  BY <1>1, <1>2, <1>11, MoveFacts DEF Result, OwnFacts, Unstopped, Over, ChildOf
<1>12. CASE \/ ClaimDuplicate(g) \/ ClaimBlocked(g) \/ Claim(g) \/ StartSession(g) \/ LoadBlocked(g)
            \/ Except(g) \/ Settle(g) \/ Leave(g)
  BY <1>1, <1>2, <1>12, MoveFacts DEF ClaimDuplicate, ClaimBlocked, Claim, StartSession,
     LoadBlocked, Except, Settle, Leave, OwnFacts, Unstopped, Quiet, TypeOK
<1>13. QED
  BY <1>3, <1>4, <1>5, <1>6, <1>7, <1>8, <1>9, <1>10, <1>11, <1>12 DEF Execute, Ends

(* What holds of every goal by itself holds of them all.                   *)
LEMMA ExecuteStep ==
  ASSUME IInv, NEW g \in Goals, Execute(g)
  PROVE  OneOwner' /\ ChildAnswered' /\ DrivenIsAwaited' /\ StoppingIsKnown' /\ LoopsDone'
<1>1. \A h \in Goals : OwnFacts(h)
  BY ChildFacts DEF IInv, OwnFacts, ChildAnswered, DrivenIsAwaited, StoppingIsKnown, LoopsDone
<1>2. \A h \in Goals : OwnFacts(h)'
  <2> TAKE h \in Goals
  <2>1. CASE h = g
    BY <2>1, OwnStep
  <2>2. CASE h # g
    <3>1. loop[h] \in Nat \ {0}
      BY ChildFacts DEF IInv, TypeOK
    <3>2. QED
      BY <1>1, <2>2, <3>1, OthersUntouched, ExecuteKeepsCanceled DEF OwnFacts
  <2>3. QED
    BY <2>1, <2>2
<1>3. ChildAnswered' /\ LoopsDone'
  BY <1>2 DEF OwnFacts, ChildAnswered, LoopsDone
<1>4. DrivenIsAwaited'
  BY <1>2, ChildFacts DEF OwnFacts, DrivenIsAwaited
<1>5. StoppingIsKnown'
  <2> SUFFICES ASSUME NEW c \in Children, child'[c] = "stopping"
               PROVE  \/ /\ phase'[c[1]] \in {"sending", "install", "check", "result"}
                         /\ loop'[c[1]] = c[2]
                      \/ c[1] \in canceled' /\ phase'[c[1]] \in
                           {"stopped", "refused", "except", "settle", "leaving", "done"}
    BY DEF StoppingIsKnown
  <2>1. c[1] \in Goals /\ c[2] \in 1..LoopCount[c[1]] /\ c = <<c[1], c[2]>>
    BY ChildFacts
  <2>2. OwnFacts(c[1])'
    BY <1>2, <2>1
  <2>3. child'[<<c[1], c[2]>>] = "stopping"
    BY <2>1
  <2>4. QED
    BY <2>1, <2>2, <2>3 DEF OwnFacts
<1>6. QED
  BY <1>3, <1>4, <1>5, OwnerStep

-----------------------------------------------------------------------------
(* IInv is inductive: it holds in every behaviour.                         *)
THEOREM InductiveInvariant == Spec => []IInv
<1>1. ASSUME IInv, [Next]_vars PROVE IInv'
  <2>1. TypeOK'
    BY <1>1, TypeStep DEF IInv
  <2>2. CASE \E g \in Goals : Execute(g)
    BY <1>1, <2>1, <2>2, ExecuteStep DEF IInv
  <2>3. CASE Outside
    BY <1>1, <2>1, <2>3, OutsideStep DEF IInv
  <2>4. QED
    BY <1>1, <2>2, <2>3 DEF Next, Outside
<1>2. QED
  BY <1>1, InitEstablishes, PTL DEF Spec

(* Every variable keeps its type.                                          *)
THEOREM ServerTypeCorrect == Spec => []TypeOK
<1>1. IInv => TypeOK
  BY DEF IInv
<1>2. QED
  BY <1>1, InductiveInvariant, PTL

(* No way out of _execute leaves a child driving the robot.                *)
THEOREM ChildrenAreAwaited == Spec => []DrivenIsAwaited
<1>1. IInv => DrivenIsAwaited
  BY DEF IInv
<1>2. QED
  BY <1>1, InductiveInvariant, PTL

(* At most one child was not told to stop: it is awaited by the one owner, *)
(* in the loop it is in.  One that slows down beside it is no owner's, so  *)
(* its goal was canceled and has ended.                                    *)
THEOREM OneTaskAtATime == Spec => []OneTaskDrives
<1>1. ASSUME IInv PROVE OneTaskDrives
  <2> SUFFICES ASSUME NEW c \in Children, NEW d \in Children, c # d,
                      child[c] \in Unstopped, child[d] \in Unstopped \cup Live
               PROVE  child[d] = "stopping" /\ d[1] \in canceled /\ phase[d[1]] = "done"
    BY DEF OneTaskDrives
  <2>1. c[1] \in Goals /\ d[1] \in Goals /\ c = <<c[1], c[2]>> /\ d = <<d[1], d[2]>>
    BY ChildFacts
  <2>2. /\ phase[c[1]] \in {"sending", "install", "check", "result"} /\ loop[c[1]] = c[2]
        /\ phase[c[1]] \in Owning
    BY <1>1 DEF IInv, DrivenIsAwaited, Owning
  <2>3. ~(phase[d[1]] \in Owning /\ loop[d[1]] = d[2])
    BY <1>1, <2>1, <2>2 DEF IInv, OneOwner
  <2>4. child[d] = "stopping"
    BY <1>1, <2>3 DEF IInv, DrivenIsAwaited, Owning, Unstopped, Live
  <2>5. /\ d[1] \in canceled
        /\ phase[d[1]] \in {"stopped", "refused", "except", "settle", "leaving", "done"}
    BY <1>1, <2>3, <2>4 DEF IInv, StoppingIsKnown, Owning
  <2>6. d[1] # c[1]
    BY <2>2, <2>5
  <2>7. phase[d[1]] \notin Owning
    BY <1>1, <2>1, <2>2, <2>6 DEF IInv, OneOwner
  <2>8. QED
    BY <2>4, <2>5, <2>7 DEF Owning
<1>2. QED
  BY <1>1, InductiveInvariant, PTL

(* A task reported as a success had the child of every loop succeed.       *)
THEOREM SuccessIsEarned == Spec => []SuccessMeansEveryLoop
<1>1. ASSUME IInv PROVE SuccessMeansEveryLoop
  <2> SUFFICES ASSUME NEW g \in Goals, outcome[g] = "SUCCEEDED", NEW l \in 1..LoopCount[g]
               PROVE  child[<<g, l>>] = "succeeded"
    BY DEF SuccessMeansEveryLoop
  <2>1. LoopCount[g] \in Nat /\ loop[g] \in Nat
    BY <1>1, ChildFacts DEF IInv, TypeOK
  <2>2. l < loop[g]
    BY <1>1, <2>1 DEF IInv, LoopsDone
  <2>3. QED
    BY <1>1, <2>2 DEF IInv, LoopsDone
<1>2. QED
  BY <1>1, InductiveInvariant, PTL

-----------------------------------------------------------------------------
(* What is remembered                                                      *)

(* The copies that may still be written: a goal's own, of its session, and *)
(* those of the callbacks, of a session that is accepted or running.       *)
DraftsKnown ==
  /\ \A g \in Goals : draft[g] # NoDraft =>
       /\ draft[g].request = request[g]
       /\ \/ phase[g] = "head" /\ draft[g].to = "ACCEPTED"
          \/ phase[g] = "install" /\ draft[g].to = "RUNNING"
          \/ phase[g] = "settle" /\ draft[g].to = outcome[g]
  /\ \A t \in Callbacks : draft[t] # NoDraft =>
       draft[t].from \in {"ACCEPTED", "RUNNING"} /\ draft[t].to \in {"RUNNING", "CANCELING", "FAILED"}

Working == {"head", "sending", "install", "check", "stopped", "refused", "result", "judge", "except"}

(* The session is that of the goal that has the claim.                     *)
SessionOwned == \A g \in Goals :
  /\ phase[g] \in Owning \ {"claimed"} => session.request = request[g]
  /\ phase[g] \in {"validating", "blocked", "waiting"} => session.state = "VALIDATING"
  /\ phase[g] \in Working /\ draft[g] = NoDraft =>
       session.state \in {"ACCEPTED", "RUNNING", "CANCELING", "FAILED"}
  /\ phase[g] = "settle" /\ draft[g] = NoDraft => session.state = outcome[g]

Remembered == \A g \in Goals :
  /\ phase[g] \in Owning \ {"leaving"} => recent[request[g]] = "UNKNOWN"
  /\ phase[g] \in {"settle", "leaving"} => outcome[g] \in Terminal
  /\ phase[g] = "leaving" \/ (phase[g] = "done" /\ outcome[g] \in Terminal) =>
       recent[request[g]] = outcome[g]

RememberInv == ~clobbered => DraftsKnown /\ SessionOwned /\ Remembered

(* Which transitions there are, of those the proof needs.                  *)
LEMMA LegalFacts ==
  ASSUME TypeOK
  PROVE  /\ session.state = "VALIDATING" => Legal("REJECTED") /\ Legal("ACCEPTED") /\ Legal("FAILED")
         /\ session.state \in {"ACCEPTED", "RUNNING", "CANCELING"} => Legal("FAILED")
         /\ Legal("RUNNING") \/ Legal("CANCELING") => session.state \in {"ACCEPTED", "RUNNING"}
<1>1. session.state \in SessionStates
  BY DEF TypeOK, Session
<1>2. QED
  BY <1>1 DEF Legal, Successors, SessionStates, Terminal

(* A copy is of the session, and nobody else's.                            *)
LEMMA CopyFacts ==
  ASSUME TypeOK, NEW t \in Threads, NEW state, state # "IDLE", Copy(t, state)
  PROVE  /\ draft'[t] # NoDraft
         /\ draft'[t].request = session.request /\ draft'[t].from = session.state
         /\ draft'[t].to = state
         /\ \A u \in Threads : u # t => draft'[u] = draft[u]
BY DEF TypeOK, Copy, NoDraft

(* A session that another's copy replaced stays on record.                 *)
LEMMA ClobberedStays == ASSUME TypeOK, [Next]_vars, ~clobbered' PROVE ~clobbered
<1>1. ASSUME NEW g \in Goals, GoalCallback(g) \/ Execute(g) \/ CancelCallback(g) PROVE ~clobbered
  BY <1>1 DEF GoalCallback, Execute, CancelCallback, CallbackOnly, ClaimDuplicate, ClaimBlocked, Claim,
     StartSession, LoadBlocked, Blocked, Validate, Accept, LoopCanceled, SendChild, Succeed,
     ChildRejected, ChildAccepted, Install, CheckCancel, EndCanceled, Result, JudgeCanceled,
     JudgeGate, JudgeResult, Except, Settle, Leave, Quiet
<1>2. ASSUME NEW t \in Threads, Write(t) PROVE ~clobbered
  BY <1>2 DEF Write
<1>3. ASSUME NEW c \in Children, Answer(c) \/ Arrive(c) \/ Stopped(c) PROVE ~clobbered
  BY <1>3 DEF Answer, Arrive, Stopped, Nav2Only
<1>4. CASE GateLost \/ GateReady \/ Callback \/ Feedback \/ UNCHANGED vars
  BY <1>4 DEF GateLost, GateReady, Callback, GateFails, GateStops, CancelStops, CancelMarks, Feedback,
     CallbackOnly, vars
<1>5. QED
  BY <1>1, <1>2, <1>3, <1>4 DEF Next

(* The hypotheses of a step that clobbers nothing.                         *)
Unclobbered == IInv /\ DraftsKnown /\ SessionOwned /\ Remembered

Remembering == DraftsKnown /\ SessionOwned /\ Remembered

(* The callbacks copy a session that is accepted or running, and change    *)
(* nothing else that matters here.                                         *)
LEMMA CallbacksRemember ==
  ASSUME Unclobbered,
         \/ \E g \in Goals : CancelCallback(g)
         \/ GateLost \/ GateReady \/ Callback \/ Feedback \/ UNCHANGED vars
         \/ \E c \in Children : Answer(c) \/ Arrive(c) \/ Stopped(c)
  PROVE  Remembering'
<1>1. TypeOK /\ DraftsKnown /\ SessionOwned /\ Remembered
  BY DEF Unclobbered, IInv
<1>2. /\ phase' = phase /\ request' = request /\ outcome' = outcome
      /\ session' = session /\ recent' = recent
  BY DEF CancelCallback, GateLost, GateReady, Callback, GateFails, GateStops, CancelStops, CancelMarks,
     Feedback, Answer, Arrive, Stopped, Nav2Only, CallbackOnly, goalVars, vars
<1>3. \/ draft' = draft
      \/ \E t \in Callbacks, state \in {"RUNNING", "CANCELING", "FAILED"} :
           session.state \in {"ACCEPTED", "RUNNING"} /\ Copy(t, state)
  BY <1>1, LegalFacts
  DEF CancelCallback, GateLost, GateReady, Callback, GateFails, GateStops, CancelStops, CancelMarks,
     Feedback, Answer, Arrive, Stopped, Nav2Only, CopyIfLegal, vars, Callbacks
<1>4. CASE draft' = draft
  BY <1>1, <1>2, <1>4 DEF Remembering, DraftsKnown, SessionOwned, Remembered
<1>5. ASSUME NEW t \in Callbacks, NEW state \in {"RUNNING", "CANCELING", "FAILED"},
             session.state \in {"ACCEPTED", "RUNNING"}, Copy(t, state)
      PROVE  Remembering'
  <2>1. t \in Threads /\ t \notin Goals /\ \A g \in Goals : g \in Threads /\ g # t
    BY ServerAssumption DEF Threads
  <2>2. /\ draft'[t].from = session.state /\ draft'[t].to = state
        /\ \A u \in Threads : u # t => draft'[u] = draft[u]
    BY <1>1, <1>5, <2>1, CopyFacts
  <2>3. DraftsKnown'
    BY <1>1, <1>2, <1>5, <2>1, <2>2 DEF DraftsKnown, Threads
  <2>4. QED
    BY <1>1, <1>2, <2>1, <2>2, <2>3 DEF Remembering, SessionOwned, Remembered
<1>6. QED
  BY <1>3, <1>4, <1>5

(* A copy that is written unless the session was changed since: the goal's *)
(* own transition, or a callback's of a session that was working.          *)
LEMMA WriteRemembers ==
  ASSUME Unclobbered, NEW t \in Threads, Write(t), ~clobbered'
  PROVE  Remembering'
<1>1. TypeOK /\ OneOwner /\ DraftsKnown /\ SessionOwned /\ Remembered
  BY DEF Unclobbered, IInv
<1>2. /\ phase' = phase /\ request' = request /\ outcome' = outcome /\ recent' = recent
      /\ session.request = draft[t].request /\ session.state = draft[t].from
      /\ session'.request = draft[t].request /\ session'.state = draft[t].to
      /\ draft[t] # NoDraft
      /\ draft'[t] = NoDraft /\ \A u \in Threads : u # t => draft'[u] = draft[u]
  <2>1. session = [request |-> draft[t].request, state |-> draft[t].from]
    BY <1>1 DEF Write, TypeOK
  <2>2. /\ session.request = draft[t].request /\ session.state = draft[t].from
        /\ session'.request = draft[t].request /\ session'.state = draft[t].to
    BY <2>1 DEF Write
  <2>3. draft'[t] = NoDraft /\ \A u \in Threads : u # t => draft'[u] = draft[u]
    BY <1>1 DEF Write, TypeOK
  <2>4. QED
    BY <2>2, <2>3 DEF Write, goalVars
<1>3. DraftsKnown'
  BY <1>1, <1>2 DEF DraftsKnown, Threads
<1>4. SessionOwned'
  <2>1. CASE t \in Callbacks
    <3>1. \A g \in Goals : g # t /\ draft'[g] = draft[g]
      BY <1>2, <2>1, ServerAssumption DEF Threads
    <3>2. session.state \in {"ACCEPTED", "RUNNING"} /\ session'.state \in {"RUNNING", "CANCELING", "FAILED"}
      BY <1>1, <1>2, <2>1 DEF DraftsKnown
    <3>3. session'.request = session.request
      BY <1>2
    <3>4. QED
      BY <1>1, <1>2, <3>1, <3>2, <3>3 DEF SessionOwned, Remembered, Terminal
  <2>2. CASE t \in Goals
    <3>1. /\ draft[t].request = request[t]
          /\ \/ phase[t] = "head" /\ draft[t].to = "ACCEPTED"
             \/ phase[t] = "install" /\ draft[t].to = "RUNNING"
             \/ phase[t] = "settle" /\ draft[t].to = outcome[t]
      BY <1>1, <1>2, <2>2 DEF DraftsKnown
    <3>2. \A g \in Goals : phase[g] \in Owning => g = t
      BY <1>1, <2>2, <3>1 DEF OneOwner, Owning
    <3>3. QED
      BY <1>2, <3>1, <3>2 DEF SessionOwned, Working, Owning
  <2>3. QED
    BY <2>1, <2>2 DEF Threads
<1>5. Remembered'
  BY <1>1, <1>2 DEF Remembered
<1>6. QED
  BY <1>3, <1>4, <1>5 DEF Remembering

-----------------------------------------------------------------------------
(* What the goal that moves has to show, by itself.                        *)
OwnRemembered(g) ==
  /\ draft[g] # NoDraft =>
       /\ draft[g].request = request[g]
       /\ \/ phase[g] = "head" /\ draft[g].to = "ACCEPTED"
          \/ phase[g] = "install" /\ draft[g].to = "RUNNING"
          \/ phase[g] = "settle" /\ draft[g].to = outcome[g]
  /\ phase[g] \in Owning \ {"claimed"} => session.request = request[g]
  /\ phase[g] \in {"validating", "blocked", "waiting"} => session.state = "VALIDATING"
  /\ phase[g] \in Working /\ draft[g] = NoDraft =>
       session.state \in {"ACCEPTED", "RUNNING", "CANCELING", "FAILED"}
  /\ phase[g] = "settle" /\ draft[g] = NoDraft => session.state = outcome[g]
  /\ phase[g] \in Owning \ {"leaving"} => recent[request[g]] = "UNKNOWN"
  /\ phase[g] \in {"settle", "leaving"} => outcome[g] \in Terminal
  /\ phase[g] = "leaving" \/ (phase[g] = "done" /\ outcome[g] \in Terminal) =>
       recent[request[g]] = outcome[g]

LEMMA OwnRemembers == ASSUME Remembering, NEW g \in Goals PROVE OwnRemembered(g)
BY DEF Remembering, DraftsKnown, SessionOwned, Remembered, OwnRemembered

(* A task that ends from a place where its session may end so.             *)
LEMMA EndRemembers ==
  ASSUME Unclobbered, NEW g \in Goals, NEW state \in Terminal, NEW from,
         EndAs(g, from, state), from \in Owning \ {"claimed", "settle", "leaving"},
         from \notin Working => Legal(state),
         session' = session, recent' = recent, request' = request
  PROVE  OwnRemembered(g)' /\ \A u \in Threads : u # g => draft'[u] = draft[u]
<1>1. TypeOK /\ OwnRemembered(g) /\ g \in Threads /\ state # "IDLE"
  BY OwnRemembers DEF Unclobbered, IInv, Remembering, Threads, Terminal
<1>2. CASE Legal(state) /\ Move(g, from, "settle") /\ Copy(g, state)
             /\ outcome' = [outcome EXCEPT ![g] = state]
  <2>1. phase[g] = from /\ phase'[g] = "settle" /\ outcome'[g] = state
    BY <1>1, <1>2, MoveFacts DEF TypeOK
  <2>2. /\ draft'[g] # NoDraft /\ draft'[g].request = session.request /\ draft'[g].to = state
        /\ \A u \in Threads : u # g => draft'[u] = draft[u]
    BY <1>1, <1>2, CopyFacts
  <2>3. QED
    BY <1>1, <2>1, <2>2 DEF OwnRemembered, Working, Owning
<1>3. CASE ~Legal(state) /\ Move(g, from, "except") /\ UNCHANGED <<draft, outcome>>
  <2>1. phase[g] = from /\ phase'[g] = "except" /\ from \in Working /\ draft[g] = NoDraft
    BY <1>1, <1>3, MoveFacts DEF Move
  <2>2. QED
    BY <1>1, <1>3, <2>1 DEF OwnRemembered, Working, Owning
<1>4. QED
  BY <1>2, <1>3 DEF EndAs

(* A task that ends, from wherever in _execute.                            *)
LEMMA EndsRemember ==
  ASSUME Unclobbered, NEW g \in Goals,
         Ends(g) \/ Succeed(g) \/ Validate(g) \/ Accept(g) \/ JudgeResult(g)
  PROVE  /\ OwnRemembered(g)'
         /\ \A u \in Threads : u # g => draft'[u] = draft[u]
         /\ session' = session /\ recent' = recent /\ request' = request
<1>1. TypeOK /\ OwnRemembered(g) /\ g \in Threads
  BY OwnRemembers DEF Unclobbered, IInv, Remembering, Threads
<1>2. session' = session /\ recent' = recent /\ request' = request
  BY DEF Ends, Blocked, LoopCanceled, ChildRejected, EndCanceled, JudgeCanceled, JudgeGate, Succeed,
     Validate, Accept, JudgeResult, Quiet, OutsideUnchanged, ServerUnchanged
<1>3. ASSUME NEW from \in {"head", "sending", "stopped", "refused", "judge"},
             NEW state \in {"SUCCEEDED", "FAILED", "CANCELED"}, EndAs(g, from, state)
      PROVE  OwnRemembered(g)' /\ \A u \in Threads : u # g => draft'[u] = draft[u]
  BY <1>2, <1>3, EndRemembers DEF Working, Owning, Terminal
<1>4. ASSUME NEW from \in {"validating", "blocked", "waiting"}, NEW state \in {"REJECTED", "FAILED"},
             EndAs(g, from, state)
      PROVE  OwnRemembered(g)' /\ \A u \in Threads : u # g => draft'[u] = draft[u]
  <2>1. phase[g] = from
    BY <1>1, <1>4, EndFacts
  <2>2. Legal(state)
    BY <1>1, <1>4, <2>1, LegalFacts DEF OwnRemembered
  <2>3. QED
    BY <1>2, <1>4, <2>2, EndRemembers DEF Owning, Terminal
<1>5. CASE LoopCanceled(g) \/ ChildRejected(g) \/ EndCanceled(g) \/ JudgeCanceled(g) \/ Succeed(g)
  BY <1>2, <1>3, <1>5 DEF LoopCanceled, ChildRejected, EndCanceled, JudgeCanceled, Succeed
<1>6. CASE Blocked(g)
  BY <1>2, <1>4, <1>6 DEF Blocked
<1>7. CASE Validate(g)
  <2>1. CASE gate /\ Move(g, "validating", "waiting") /\ UNCHANGED <<outcome, draft>>
    BY <1>1, <1>2, <2>1, MoveFacts DEF OwnRemembered, Working, Owning, Move
  <2>2. QED
    BY <1>2, <1>4, <1>7, <2>1 DEF Validate
<1>8. CASE Accept(g)
  <2>1. CASE Move(g, "waiting", "head") /\ Copy(g, "ACCEPTED") /\ UNCHANGED outcome
    <3>1. phase[g] = "waiting" /\ phase'[g] = "head"
      BY <1>1, <2>1, MoveFacts
    <3>2. /\ draft'[g] # NoDraft /\ draft'[g].request = session.request /\ draft'[g].to = "ACCEPTED"
          /\ \A u \in Threads : u # g => draft'[u] = draft[u]
      BY <1>1, <2>1, CopyFacts
    <3>3. QED
      BY <1>1, <1>2, <2>1, <3>1, <3>2 DEF OwnRemembered, Working, Owning
  <2>2. CASE ~Legal("ACCEPTED") /\ Move(g, "waiting", "except")
    BY <1>1, <2>2, MoveFacts, LegalFacts DEF OwnRemembered
  <2>3. QED
    BY <1>2, <1>4, <1>8, <2>1, <2>2 DEF Accept
<1>9. CASE JudgeGate(g)
  <2>1. CASE /\ session.state \in {"FAILED", "CANCELED"} /\ Move(g, "judge", "settle")
             /\ outcome' = [outcome EXCEPT ![g] = "FAILED"] /\ UNCHANGED draft
    <3>1. phase[g] = "judge" /\ phase'[g] = "settle" /\ outcome'[g] = "FAILED" /\ draft[g] = NoDraft
      BY <1>1, <2>1, MoveFacts DEF TypeOK, Move
    <3>2. QED
      BY <1>1, <1>2, <2>1, <3>1 DEF OwnRemembered, Working, Owning, Terminal
  <2>2. QED
    BY <1>2, <1>3, <1>9, <2>1 DEF JudgeGate
<1>10. CASE JudgeResult(g)
  <2>1. CASE Move(g, "judge", "head") /\ UNCHANGED <<outcome, draft>>
    BY <1>1, <1>2, <2>1, MoveFacts DEF OwnRemembered, Working, Owning, Move
  <2>2. QED
    BY <1>2, <1>3, <1>10, <2>1 DEF JudgeResult
<1>11. QED
  BY <1>5, <1>6, <1>7, <1>8, <1>9, <1>10 DEF Ends

(* The steps of _execute that only go on.                                  *)
LEMMA StepsRemember ==
  ASSUME Unclobbered, NEW g \in Goals,
         \/ ClaimBlocked(g) \/ Claim(g) \/ SendChild(g) \/ ChildAccepted(g) \/ Install(g)
         \/ CheckCancel(g) \/ Result(g) \/ Except(g) \/ Leave(g)
  PROVE  /\ OwnRemembered(g)'
         /\ \A u \in Threads : u # g => draft'[u] = draft[u]
         /\ session' = session /\ recent' = recent /\ request' = request
<1>1. TypeOK /\ OwnRemembered(g) /\ g \in Threads
  BY OwnRemembers DEF Unclobbered, IInv, Remembering, Threads
<1>2. session' = session /\ recent' = recent /\ request' = request
  BY DEF ClaimBlocked, Claim, SendChild, ChildAccepted, Install, CheckCancel, Result, Except, Leave,
     Quiet, OutsideUnchanged, ServerUnchanged
<1>3. CASE ClaimBlocked(g)
  BY <1>1, <1>2, <1>3, MoveFacts DEF ClaimBlocked, OwnRemembered, Working, Owning, Terminal, Move, TypeOK
<1>4. CASE Claim(g)
  BY <1>1, <1>2, <1>4, MoveFacts DEF Claim, Known, OwnRemembered, Working, Owning, Move
<1>5. CASE SendChild(g) \/ Install(g) \/ CheckCancel(g) \/ Result(g)
  <2>1. /\ phase[g] \in Working /\ phase'[g] \in Working /\ draft[g] = NoDraft
        /\ draft' = draft /\ outcome' = outcome
    BY <1>1, <1>5, MoveFacts DEF SendChild, Install, CheckCancel, Result, Working, Move
  <2>2. QED
    BY <1>1, <1>2, <2>1 DEF OwnRemembered, Working, Owning
<1>6. CASE ChildAccepted(g)
  <2>1. phase[g] = "sending" /\ phase'[g] = "install" /\ draft[g] = NoDraft /\ outcome' = outcome
    BY <1>1, <1>6, MoveFacts DEF ChildAccepted, Move
  <2>2. CASE Copy(g, "RUNNING")
    BY <1>1, <1>2, <2>1, <2>2, CopyFacts DEF OwnRemembered, Working, Owning
  <2>3. CASE draft' = draft
    BY <1>1, <1>2, <2>1, <2>3 DEF OwnRemembered, Working, Owning
  <2>4. QED
    BY <1>6, <2>2, <2>3 DEF ChildAccepted, CopyIfLegal
<1>7. CASE Except(g)
  <2>1. /\ phase[g] = "except" /\ phase'[g] = "settle" /\ draft[g] = NoDraft
        /\ outcome'[g] = "FAILED"
    BY <1>1, <1>7, MoveFacts DEF Except, Move, TypeOK
  <2>2. session.state \in {"ACCEPTED", "RUNNING", "CANCELING", "FAILED"}
    BY <1>1, <2>1 DEF OwnRemembered, Working
  <2>3. CASE Copy(g, "FAILED")
    BY <1>1, <1>2, <2>1, <2>3, CopyFacts DEF OwnRemembered, Working, Owning, Terminal
  <2>4. CASE draft' = draft /\ ~Legal("FAILED")
    BY <1>1, <1>2, <2>1, <2>2, <2>4, LegalFacts DEF OwnRemembered, Working, Owning, Terminal
  <2>5. QED
    BY <1>7, <2>2, <2>3, <2>4 DEF Except, CopyIfLegal
<1>8. CASE Leave(g)
  BY <1>1, <1>2, <1>8, MoveFacts DEF Leave, OwnRemembered, Working, Owning, Move
<1>9. QED
  BY <1>2, <1>3, <1>4, <1>5, <1>6, <1>7, <1>8

(* A step that leaves the session and what is remembered alone disturbs no *)
(* other goal.                                                             *)
LEMMA OthersRemember ==
  ASSUME Unclobbered, NEW g \in Goals, Execute(g), OwnRemembered(g)',
         \A u \in Threads : u # g => draft'[u] = draft[u],
         session' = session, recent' = recent, request' = request
  PROVE  Remembering'
<1>1. \A h \in Goals : OwnRemembered(h)'
  <2> TAKE h \in Goals
  <2>1. CASE h # g
    <3>1. phase'[h] = phase[h] /\ outcome'[h] = outcome[h] /\ draft'[h] = draft[h]
      BY <2>1, OthersUntouched DEF Unclobbered, Threads
    <3>2. QED
      BY <3>1, OwnRemembers DEF Unclobbered, Remembering, OwnRemembered
  <2>2. QED
    BY <2>1
<1>2. \A t \in Callbacks : draft'[t] = draft[t]
  BY ServerAssumption DEF Threads
<1>3. QED
  BY <1>1, <1>2 DEF Unclobbered, Remembering, DraftsKnown, SessionOwned, Remembered, OwnRemembered

(* A request that is known publishes what is remembered: with no task      *)
(* active nobody owns the session, with one the session is kept or         *)
(* overwritten on record.                                                  *)
LEMMA DuplicateRemembers ==
  ASSUME Unclobbered, NEW g \in Goals, ClaimDuplicate(g), ~clobbered'
  PROVE  Remembering'
<1>1. TypeOK /\ OneOwner /\ Remembering
  BY DEF Unclobbered, IInv, Remembering
<1>2. /\ phase[g] = "accepted" /\ phase'[g] = "done" /\ outcome'[g] = "duplicate"
      /\ \A h \in Goals : h # g => phase'[h] = phase[h] /\ outcome'[h] = outcome[h]
      /\ draft' = draft /\ request' = request /\ recent' = recent /\ draft[g] = NoDraft
  BY <1>1, MoveFacts DEF ClaimDuplicate, OutsideUnchanged, ServerUnchanged, TypeOK, Move
<1>3. session' = session \/ \A h \in Goals : phase[h] \notin Owning
  BY <1>1 DEF ClaimDuplicate, OneOwner
<1>4. DraftsKnown'
  BY <1>1, <1>2 DEF Remembering, DraftsKnown
<1>5. SessionOwned'
  BY <1>1, <1>2, <1>3 DEF Remembering, SessionOwned, Owning, Working
<1>6. Remembered'
  BY <1>1, <1>2 DEF Remembering, Remembered, Owning, Terminal
<1>7. QED
  BY <1>4, <1>5, <1>6 DEF Remembering

(* A new session is the owner's, and there is one owner.                   *)
LEMMA StartRemembers ==
  ASSUME Unclobbered, NEW g \in Goals, StartSession(g) \/ LoadBlocked(g)
  PROVE  Remembering'
<1>1. TypeOK /\ OneOwner /\ Remembering /\ OwnRemembered(g)
  BY OwnRemembers DEF Unclobbered, IInv, Remembering
<1>2. /\ phase[g] \in {"claimed", "validating"} /\ phase'[g] \in {"validating", "blocked"}
      /\ \A h \in Goals : h # g => phase'[h] = phase[h]
      /\ outcome' = outcome /\ draft' = draft /\ request' = request /\ recent' = recent
      /\ draft[g] = NoDraft
  BY <1>1, MoveFacts DEF StartSession, LoadBlocked, OutsideUnchanged, ServerUnchanged, Move
<1>3. session'.request = request[g] /\ session'.state = "VALIDATING"
  BY <1>1, MoveFacts DEF StartSession, LoadBlocked, OwnRemembered, Owning
<1>4. \A h \in Goals : h # g => phase[h] \notin Owning
  BY <1>1, <1>2 DEF OneOwner, Owning
<1>5. DraftsKnown'
  BY <1>1, <1>2 DEF Remembering, DraftsKnown
<1>6. SessionOwned'
  BY <1>1, <1>2, <1>3, <1>4 DEF Remembering, SessionOwned, Owning, Working
<1>7. Remembered'
  BY <1>1, <1>2 DEF Remembering, Remembered, Owning
<1>8. QED
  BY <1>5, <1>6, <1>7 DEF Remembering

(* The owner ends in the state it was told, under its own id, which nobody *)
(* had ended before.                                                       *)
LEMMA SettleRemembers ==
  ASSUME Unclobbered, NEW g \in Goals, Settle(g)
  PROVE  Remembering'
<1>1. TypeOK /\ OneOwner /\ Remembering /\ OwnRemembered(g)
  BY OwnRemembers DEF Unclobbered, IInv, Remembering
<1>2. /\ phase[g] = "settle" /\ phase'[g] = "leaving"
      /\ \A h \in Goals : h # g => phase'[h] = phase[h]
      /\ outcome' = outcome /\ draft' = draft /\ request' = request /\ session' = session
      /\ draft[g] = NoDraft
  BY <1>1, MoveFacts DEF Settle, OutsideUnchanged, Move
<1>3. session.request = request[g] /\ session.state = outcome[g] /\ recent[request[g]] = "UNKNOWN"
      /\ outcome[g] \in Terminal
  BY <1>1, <1>2 DEF OwnRemembered, Owning
<1>4. request[g] \in Requests /\ request[g] # NoRequest
  BY <1>1, ServerAssumption DEF TypeOK
<1>5. recent' = [recent EXCEPT ![request[g]] = outcome[g]]
  BY <1>3, <1>4 DEF Settle
<1>6. /\ recent'[request[g]] = outcome[g]
      /\ \A r \in Requests : r # request[g] => recent'[r] = recent[r]
  BY <1>1, <1>4, <1>5 DEF TypeOK
<1>7. \A h \in Goals : h # g => phase[h] \notin Owning
  BY <1>1, <1>2 DEF OneOwner, Owning
<1>8. \A h \in Goals : phase[h] = "done" /\ outcome[h] \in Terminal => request[h] # request[g]
  BY <1>1, <1>3 DEF Remembering, Remembered, Terminal
<1>9. DraftsKnown'
  BY <1>1, <1>2 DEF Remembering, DraftsKnown
<1>10. SessionOwned'
  BY <1>1, <1>2 DEF Remembering, SessionOwned, Owning, Working
<1>11. Remembered'
  <2> SUFFICES ASSUME NEW h \in Goals
               PROVE  /\ phase'[h] \in Owning \ {"leaving"} => recent'[request[h]] = "UNKNOWN"
                      /\ phase'[h] \in {"settle", "leaving"} => outcome[h] \in Terminal
                      /\ phase'[h] = "leaving" \/ (phase'[h] = "done" /\ outcome[h] \in Terminal) =>
                           recent'[request[h]] = outcome[h]
    BY <1>2 DEF Remembered
  <2>1. CASE h = g
    BY <1>2, <1>3, <1>6, <2>1
  <2>2. CASE h # g
    <3>1. phase'[h] = phase[h] /\ phase[h] \notin Owning /\ request[h] \in Requests
      BY <1>1, <1>2, <1>7, <2>2 DEF TypeOK
    <3>2. QED
      BY <1>1, <1>6, <1>8, <3>1 DEF Remembering, Remembered, Owning
  <2>3. QED
    BY <2>1, <2>2
<1>12. QED
  BY <1>9, <1>10, <1>11 DEF Remembering

LEMMA AcceptedRemembers ==
  ASSUME Unclobbered, NEW g \in Goals, GoalCallback(g)
  PROVE  Remembering'
<1>1. TypeOK /\ Remembering
  BY DEF Unclobbered, IInv, Remembering
<1>2. /\ phase[g] = "none" /\ phase'[g] = "accepted" /\ draft[g] = NoDraft
      /\ \A h \in Goals : h # g => phase'[h] = phase[h]
      /\ outcome' = outcome /\ draft' = draft /\ request' = request /\ session' = session
      /\ recent' = recent
  BY <1>1, MoveFacts DEF GoalCallback, Quiet, OutsideUnchanged, ServerUnchanged, Move
<1>3. QED
  BY <1>1, <1>2 DEF Remembering, DraftsKnown, SessionOwned, Remembered, Owning, Working

LEMMA RememberStep == IInv /\ RememberInv /\ [Next]_vars => RememberInv'
<1> SUFFICES ASSUME IInv, RememberInv, [Next]_vars, ~clobbered' PROVE Remembering'
  BY DEF RememberInv, Remembering
<1>1. Unclobbered
  BY ClobberedStays DEF IInv, RememberInv, Unclobbered
<1>2. ASSUME NEW g \in Goals, Execute(g) PROVE Remembering'
  <2>1. CASE Ends(g) \/ Succeed(g) \/ Validate(g) \/ Accept(g) \/ JudgeResult(g)
    BY <1>1, <1>2, <2>1, EndsRemember, OthersRemember
  <2>2. CASE \/ ClaimBlocked(g) \/ Claim(g) \/ SendChild(g) \/ ChildAccepted(g) \/ Install(g)
             \/ CheckCancel(g) \/ Result(g) \/ Except(g) \/ Leave(g)
    BY <1>1, <1>2, <2>2, StepsRemember, OthersRemember
  <2>3. CASE ClaimDuplicate(g)
    BY <1>1, <2>3, DuplicateRemembers
  <2>4. CASE StartSession(g) \/ LoadBlocked(g)
    BY <1>1, <2>4, StartRemembers
  <2>5. CASE Settle(g)
    BY <1>1, <2>5, SettleRemembers
  <2>6. QED
    BY <1>2, <2>1, <2>2, <2>3, <2>4, <2>5 DEF Execute, Ends
<1>3. ASSUME NEW t \in Threads, Write(t) PROVE Remembering'
  BY <1>1, <1>3, WriteRemembers
<1>4. ASSUME NEW g \in Goals, GoalCallback(g) PROVE Remembering'
  BY <1>1, <1>4, AcceptedRemembers
<1>5. CASE \/ \E g \in Goals : CancelCallback(g)
           \/ GateLost \/ GateReady \/ Callback \/ Feedback \/ UNCHANGED vars
           \/ \E c \in Children : Answer(c) \/ Arrive(c) \/ Stopped(c)
  BY <1>1, <1>5, CallbacksRemember
<1>6. QED
  BY <1>2, <1>3, <1>4, <1>5 DEF Next

(* A task that ended is remembered under its own id as its client was told *)
(* it ended, unless a copy of the session was written over a newer one.    *)
THEOREM RememberedInTruth == Spec => []RememberedAsTold
<1>1. Init => RememberInv
  <2> SUFFICES ASSUME Init PROVE Remembering
    BY DEF RememberInv, Remembering
  <2>1. \A g \in Goals : phase[g] = "none" /\ g \in Threads /\ draft[g] = NoDraft
    BY DEF Init, Threads
  <2>2. \A t \in Callbacks : draft[t] = NoDraft
    BY DEF Init, Threads
  <2>3. QED
    BY <2>1, <2>2 DEF Remembering, DraftsKnown, SessionOwned, Remembered, Owning, Working
<1>2. RememberInv => RememberedAsTold
  BY DEF RememberInv, Remembered, RememberedAsTold
<1>3. QED
  BY <1>1, <1>2, RememberStep, InductiveInvariant, PTL DEF Spec
=============================================================================
