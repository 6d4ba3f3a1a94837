----------------------- MODULE MissionManager_proofs -----------------------
(***************************************************************************)
(* The mission manager node for every set of goals and number of crashes,  *)
(* with either backend.                                                    *)
(*                                                                         *)
(* That the node accepts goals again needs nothing of its clients.  That   *)
(* requests reach their mission and that a restart keeps faith holds until *)
(* a goal is accepted before another one's end; until then at most one     *)
(* goal is on its way, and what is published and persisted follows its     *)
(* phase.  With the tree, a mission ends as its tree did and leaves no     *)
(* waypoint task driving, however late its child answers.                  *)
(***************************************************************************)
EXTENDS BtMission, TLAPS

(* What goals that do not overlap guarantee.                               *)
Alone == \A g, h \in Goals : phase[g] \notin Outside /\ phase[h] \notin Outside => g = h

SlotInside == slot # NoGoal => phase[slot] \in InExecute

(* The state of an executor that has not begun, and the mission published. *)
NotBegun == \A g \in Goals :
  phase[g] \in {"none", "refused", "accepted", "loading", "installed"} => state[g] = "IDLE"
Announced == \A g \in Goals :
  \/ phase[g] \in {"running", "ended"}
  \/ phase[g] \in InExecute /\ state[g] \notin {"IDLE", "VALIDATING"}
  => published.goal = g

(* What is about to be published is on disk.                               *)
OnDisk == \A g \in Goals : phase[g] = "publish" => disk = [goal |-> g, state |-> state[g]]

(* A status of a run is published in the phases that follow it.            *)
SeenRunning == published.state \in Running =>
  /\ up => phase[published.goal] \in {"persist", "publish", "running", "raised"}
  /\ disk.goal = published.goal /\ disk.state \in Running \cup Ended
SeenEnded == published.state \in {"SUCCEEDED", "CANCELED"} =>
  /\ phase[published.goal] \in {"ended", "raised", "leaving", "done", "lost"}
  /\ disk.goal = published.goal => disk.state \in Ended
Down == ~up => \A g \in Goals : phase[g] \in Outside

NoneMisrouted == \A r \in routed : r[1] = r[2]

SerialInv == /\ Alone /\ SlotInside /\ NotBegun /\ Announced /\ OnDisk /\ SeenRunning /\ SeenEnded /\ Down
             /\ NoneMisrouted

(* What types need: an executor that checkpoints has left IDLE.            *)
Begun == \A g \in Goals :
  phase[g] \in {"persist", "publish", "running", "ended"} => state[g] # "IDLE"

BaseInv == TypeOK /\ Begun

LEMMA BaseInit == Init => BaseInv
<1> SUFFICES ASSUME Init PROVE BaseInv
  OBVIOUS
<1>1. disk \in Status /\ published \in Status
  BY DEF Init, Status
<1>2. Begun /\ crashes \in 0..MaxCrashes
  BY ManagerAssumption DEF Init, Begun
<1>3. phase \in [Goals -> Outside] /\ state \in [Goals -> {"IDLE"}]
  BY DEF Init, Outside
<1> QED BY <1>1, <1>2, <1>3 DEF Init, BaseInv, TypeOK

LEMMA BaseStep == BaseInv /\ [Next]_vars => BaseInv'
<1> SUFFICES ASSUME BaseInv, [Next]_vars PROVE BaseInv'
  OBVIOUS
<1> USE ManagerAssumption DEF BaseInv, Begun, TypeOK, Outside, InExecute, Running, Ended, requestVars
<1>1. ASSUME NEW g \in Goals, GoalCallback(g) PROVE BaseInv'
  BY <1>1 DEF GoalCallback, Move
<1>2. ASSUME NEW g \in Goals, CancelCallback(g) PROVE BaseInv'
  BY <1>2 DEF CancelCallback
<1>3. ASSUME NEW g \in Goals, PauseRequest(g) PROVE BaseInv'
  BY <1>3 DEF PauseRequest
<1>4. ASSUME NEW g \in Goals, Enter(g) \/ Load(g) PROVE BaseInv'
  BY <1>4 DEF Enter, Load, Move
<1>5. ASSUME NEW g \in Goals, Start(g) \/ Advance(g) PROVE BaseInv'
  BY <1>5 DEF Start, Advance, Move
<1>6. ASSUME NEW g \in Goals, Reject(g) \/ Raised(g) PROVE BaseInv'
  BY <1>6 DEF Reject, Raised, Move, Status
<1>7. ASSUME NEW g \in Goals, Persist(g) PROVE BaseInv'
  <2>1. state[g] \in Running \cup Ended
    BY <1>7 DEF Persist, Move
  <2>2. disk' \in Status
    BY <1>7, <2>1 DEF Persist, Status
  <2> QED BY <1>7, <2>2 DEF Persist, Move
<1>8. ASSUME NEW g \in Goals, Publish(g) PROVE BaseInv'
  <2>1. state[g] \in Running \cup Ended
    BY <1>8 DEF Publish, Move
  <2>2. published' \in Status
    BY <1>8, <2>1 DEF Publish, Status
  <2> QED BY <1>8, <2>2 DEF Publish, Move
<1>9. ASSUME NEW g \in Goals, Throw(g) \/ Finish(g) \/ Leave(g) PROVE BaseInv'
  BY <1>9 DEF Throw, Finish, Leave, Move
<1>10. ASSUME Crash PROVE BaseInv'
  <2>1. crashes + 1 \in 0..MaxCrashes
    BY <1>10 DEF Crash
  <2> QED BY <1>10, <2>1 DEF Crash
<1>11. ASSUME Restart PROVE BaseInv'
  BY <1>11 DEF Restart, Recovers, Status, Idle
<1>12. ASSUME UNCHANGED vars PROVE BaseInv'
  BY <1>12 DEF vars
<1> QED
  BY <1>1, <1>2, <1>3, <1>4, <1>5, <1>6, <1>7, <1>8, <1>9, <1>10, <1>11, <1>12 DEF Next

(* Every variable keeps its type, whatever the clients do.                 *)
THEOREM ManagerTypeCorrect == Spec => []TypeOK
<1>1. BaseInv => TypeOK
  BY DEF BaseInv
<1> QED BY BaseInit, BaseStep, <1>1, PTL DEF Spec

LEMMA IdleStep == BaseInv /\ IdleAcceptsGoals /\ [Next]_vars => IdleAcceptsGoals'
<1> SUFFICES ASSUME BaseInv, IdleAcceptsGoals, [Next]_vars PROVE IdleAcceptsGoals'
  OBVIOUS
<1> USE DEF BaseInv, TypeOK, IdleAcceptsGoals, InExecute, Outside, requestVars
<1>1. ASSUME NEW g \in Goals, GoalCallback(g) PROVE IdleAcceptsGoals'
  BY <1>1 DEF GoalCallback, Move
<1>2. ASSUME NEW g \in Goals, CancelCallback(g) \/ PauseRequest(g) PROVE IdleAcceptsGoals'
  BY <1>2 DEF CancelCallback, PauseRequest
<1>3. ASSUME NEW g \in Goals, Enter(g) \/ Load(g) \/ Reject(g) \/ Start(g) \/ Advance(g)
      PROVE IdleAcceptsGoals'
  BY <1>3 DEF Enter, Load, Reject, Start, Advance, Move
<1>4. ASSUME NEW g \in Goals, Persist(g) \/ Throw(g) \/ Publish(g) \/ Finish(g) \/ Raised(g)
      PROVE IdleAcceptsGoals'
  BY <1>4 DEF Persist, Throw, Publish, Finish, Raised, Move
<1>5. ASSUME NEW g \in Goals, Leave(g) PROVE IdleAcceptsGoals'
  BY <1>5 DEF Leave
<1>6. ASSUME Crash \/ Restart \/ UNCHANGED vars PROVE IdleAcceptsGoals'
  BY <1>6 DEF Crash, Restart, vars
<1> QED BY <1>1, <1>2, <1>3, <1>4, <1>5, <1>6 DEF Next

(* Whatever the clients do and however a mission ends, the node is open    *)
(* for another goal once no goal is inside _execute.                       *)
THEOREM AcceptsGoalsAgain == Spec => []IdleAcceptsGoals
<1>1. Init => IdleAcceptsGoals
  BY DEF Init, IdleAcceptsGoals
<1> QED BY <1>1, BaseInit, BaseStep, IdleStep, PTL DEF Spec

-----------------------------------------------------------------------------
(* Goals that do not overlap                                               *)

LEMMA SerialInit == Init => SerialInv
  BY ManagerAssumption
     DEF Init, Idle, SerialInv, Alone, SlotInside, NotBegun, Announced, OnDisk, SeenRunning, SeenEnded,
         Down, NoneMisrouted, Outside, InExecute, Running

(* One case for each action that moves a goal; the other goals are outside. *)
LEMMA SerialStep ==
  ASSUME BaseInv, SerialInv, [Next]_vars, ~overlapped'
  PROVE  SerialInv'
<1> USE ManagerAssumption DEF BaseInv, TypeOK, Begun, Outside, InExecute, Running, Ended, requestVars,
      SerialInv, Alone, SlotInside, NotBegun, Announced, OnDisk, SeenRunning, SeenEnded,
      Down, NoneMisrouted
<1>published. published.state \in Running \cup Ended => published.goal \in Goals
  BY DEF Status, Idle
<1>1. ASSUME NEW g \in Goals, GoalCallback(g) PROVE SerialInv'
  <2>1. Alone' /\ SlotInside' /\ Down'
    BY <1>1, <1>published DEF GoalCallback, Move
  <2>2. NotBegun' /\ Announced' /\ OnDisk'
    BY <1>1, <1>published DEF GoalCallback, Move
  <2>3. SeenRunning'
    BY <1>1, <1>published DEF GoalCallback, Move
  <2>4. SeenEnded'
    BY <1>1, <1>published DEF GoalCallback, Move
  <2>5. NoneMisrouted'
    BY <1>1, <1>published DEF GoalCallback, Move
  <2> QED BY <2>1, <2>2, <2>3, <2>4, <2>5
<1>2. ASSUME NEW g \in Goals, CancelCallback(g) PROVE SerialInv'
  BY <1>2 DEF CancelCallback
<1>3. ASSUME NEW g \in Goals, PauseRequest(g) PROVE SerialInv'
  BY <1>3 DEF PauseRequest
<1>4. ASSUME NEW g \in Goals, Enter(g) PROVE SerialInv'
  BY <1>4 DEF Enter, Move
<1>5. ASSUME NEW g \in Goals, Load(g) PROVE SerialInv'
  BY <1>5 DEF Load, Move
<1>6. ASSUME NEW g \in Goals, Reject(g) PROVE SerialInv'
  BY <1>6 DEF Reject, Move
<1>7. ASSUME NEW g \in Goals, Start(g) PROVE SerialInv'
  BY <1>7 DEF Start, Move
<1>8. ASSUME NEW g \in Goals, Advance(g) PROVE SerialInv'
  <2>1. Alone' /\ SlotInside' /\ Down'
    BY <1>8, <1>published DEF Advance, Move
  <2>2. NotBegun' /\ Announced' /\ OnDisk'
    BY <1>8, <1>published DEF Advance, Move
  <2>3. SeenRunning'
    BY <1>8, <1>published DEF Advance, Move
  <2>4. SeenEnded'
    BY <1>8, <1>published DEF Advance, Move
  <2>5. NoneMisrouted'
    BY <1>8, <1>published DEF Advance, Move
  <2> QED BY <2>1, <2>2, <2>3, <2>4, <2>5
<1>9. ASSUME NEW g \in Goals, Persist(g) PROVE SerialInv'
  <2>1. Alone' /\ SlotInside' /\ Down'
    BY <1>9, <1>published DEF Persist, Move
  <2>2. NotBegun' /\ Announced' /\ OnDisk'
    BY <1>9, <1>published DEF Persist, Move
  <2>3. SeenRunning'
    BY <1>9, <1>published DEF Persist, Move
  <2>4. SeenEnded'
    BY <1>9, <1>published DEF Persist, Move
  <2>5. NoneMisrouted'
    BY <1>9, <1>published DEF Persist, Move
  <2> QED BY <2>1, <2>2, <2>3, <2>4, <2>5
<1>10. ASSUME NEW g \in Goals, Throw(g) PROVE SerialInv'
  BY <1>10 DEF Throw, Move
<1>11. ASSUME NEW g \in Goals, Publish(g) PROVE SerialInv'
  <2>1. Alone' /\ SlotInside' /\ Down'
    BY <1>11, <1>published DEF Publish, Move
  <2>2. NotBegun' /\ Announced' /\ OnDisk'
    BY <1>11, <1>published DEF Publish, Move
  <2>3. SeenRunning'
    BY <1>11, <1>published DEF Publish, Move
  <2>4. SeenEnded'
    BY <1>11, <1>published DEF Publish, Move
  <2>5. NoneMisrouted'
    BY <1>11, <1>published DEF Publish, Move
  <2> QED BY <2>1, <2>2, <2>3, <2>4, <2>5
<1>12. ASSUME NEW g \in Goals, Finish(g) PROVE SerialInv'
  <2>1. Alone' /\ SlotInside' /\ Down'
    BY <1>12, <1>published DEF Finish, Move
  <2>2. NotBegun' /\ Announced' /\ OnDisk'
    BY <1>12, <1>published DEF Finish, Move
  <2>3. SeenRunning'
    BY <1>12, <1>published DEF Finish, Move
  <2>4. SeenEnded'
    BY <1>12, <1>published DEF Finish, Move
  <2>5. NoneMisrouted'
    BY <1>12, <1>published DEF Finish, Move
  <2> QED BY <2>1, <2>2, <2>3, <2>4, <2>5
<1>13. ASSUME NEW g \in Goals, Raised(g) PROVE SerialInv'
  BY <1>13 DEF Raised, Move
<1>14. ASSUME NEW g \in Goals, Leave(g) PROVE SerialInv'
  BY <1>14 DEF Leave, Move
<1>15. ASSUME Crash PROVE SerialInv'
  <2>1. Alone' /\ SlotInside' /\ Down'
    BY <1>15, <1>published DEF Crash
  <2>2. NotBegun' /\ Announced' /\ OnDisk'
    BY <1>15, <1>published DEF Crash
  <2>3. SeenRunning'
    BY <1>15, <1>published DEF Crash
  <2>4. SeenEnded'
    BY <1>15, <1>published DEF Crash
  <2>5. NoneMisrouted'
    BY <1>15, <1>published DEF Crash
  <2> QED BY <2>1, <2>2, <2>3, <2>4, <2>5
<1>16. ASSUME Restart PROVE SerialInv'
  BY <1>16 DEF Restart, Recovers, Idle
<1>17. ASSUME UNCHANGED vars PROVE SerialInv'
  BY <1>17 DEF vars
<1> QED
  BY <1>1, <1>2, <1>3, <1>4, <1>5, <1>6, <1>7, <1>8, <1>9, <1>10, <1>11, <1>12, <1>13, <1>14,
     <1>15, <1>16, <1>17 DEF Next

LEMMA OverlapStays == ASSUME [Next]_vars PROVE overlapped => overlapped'
<1> USE DEF Move
<1>1. ASSUME NEW g \in Goals, GoalCallback(g) \/ CancelCallback(g) \/ PauseRequest(g) \/ Enter(g) \/ Load(g)
      PROVE  overlapped => overlapped'
  BY <1>1 DEF GoalCallback, CancelCallback, PauseRequest, Enter, Load
<1>2. ASSUME NEW g \in Goals, Reject(g) \/ Start(g) \/ Advance(g) \/ Persist(g) \/ Throw(g)
      PROVE  overlapped => overlapped'
  BY <1>2 DEF Reject, Start, Advance, Persist, Throw
<1>3. ASSUME NEW g \in Goals, Publish(g) \/ Finish(g) \/ Raised(g) \/ Leave(g)
      PROVE  overlapped => overlapped'
  BY <1>3 DEF Publish, Finish, Raised, Leave
<1>4. ASSUME Crash \/ Restart \/ UNCHANGED vars PROVE overlapped => overlapped'
  BY <1>4 DEF Crash, Restart, vars
<1> QED BY <1>1, <1>2, <1>3, <1>4 DEF Next

ManagerInv == BaseInv /\ (~overlapped => SerialInv)

LEMMA ManagerInvariant == Spec => []ManagerInv
<1>1. Init => ManagerInv
  BY BaseInit, SerialInit DEF ManagerInv
<1>2. ManagerInv /\ [Next]_vars => ManagerInv'
  BY BaseStep, SerialStep, OverlapStays DEF ManagerInv
<1> QED BY <1>1, <1>2, PTL DEF Spec

(* Unless a goal was accepted before another one's end, a cancel or pause  *)
(* request reaches the executor of the mission it names and no other.      *)
THEOREM RequestsReachTheirs == Spec => []RequestsReachTheirMission
<1>1. ManagerInv => RequestsReachTheirMission
  BY DEF ManagerInv, SerialInv, NoneMisrouted, RequestsReachTheirMission
<1> QED BY ManagerInvariant, <1>1, PTL

(* Unless a goal was accepted before another one's end, a restart reports  *)
(* the mission last seen running, and none that was seen to end.           *)
THEOREM RestartTruthful == Spec => RestartKeepsFaith
<1> DEFINE interrupted == [published EXCEPT !.state = "INTERRUPTED"]
           Faith == Restart /\ ~overlapped =>
              /\ published.state \in Running =>
                   published' = interrupted \/ (disk.goal = published.goal /\ disk.state \in Ended)
              /\ published.state \in {"SUCCEEDED", "CANCELED"} => published' # interrupted
<1>1. ManagerInv => [Faith]_vars
  <2> SUFFICES ASSUME ManagerInv, Restart, ~overlapped PROVE Faith
    OBVIOUS
  <2> USE DEF ManagerInv, BaseInv, TypeOK, SerialInv, SeenRunning, SeenEnded, Restart, Recovers, Running, Ended
  <2>1. ASSUME published.state \in Running
        PROVE  published' = interrupted \/ (disk.goal = published.goal /\ disk.state \in Ended)
    BY <2>1 DEF Status, Idle
  <2>2. ASSUME published.state \in {"SUCCEEDED", "CANCELED"} PROVE published' # interrupted
    BY <2>2, ManagerAssumption DEF Status, Idle
  <2> QED BY <2>1, <2>2
<1> QED BY ManagerInvariant, <1>1, PTL DEF RestartKeepsFaith

-----------------------------------------------------------------------------
(* Either backend                                                          *)

BtGoing == {"executing", "canceling"}
Unheard == {"none", "sent", "refused"}

BtTypeOK ==
  /\ backend \in {"sequential", "behavior_tree"}
  /\ mission \in Goals \cup {NoGoal} /\ asked \in BOOLEAN /\ died \in BOOLEAN
  /\ outcome \in [Goals -> {"IDLE", "VALIDATING", "RUNNING", "SUCCEEDED", "FAILED", "CANCELED",
                            "INTERRUPTED"}]
  /\ step \in {"none", "loop", "waiting", "asking"}
  /\ task \in {"none", "send", "response", "result", "done", "raised"}
  /\ child \in Goals \cup {NoGoal}
  /\ bt \in [Goals -> {"none", "sent"} \cup BtGoing \cup BtOver]
  /\ ask \in {NoAsk} \cup [goal : Goals, at : {"sent", "marking", "taken", "refused"}]
  /\ node \in Goals \cup {NoGoal} /\ flag \in BOOLEAN
  /\ tree \in {"none", "ready", "drive", "succeeded", "failed", "halted", "leaving"}
  /\ way \in [Goals -> {"none", "asked", "driving", "stopping"} \cup WayOver]
  /\ answered \subseteq Goals /\ givenUp \subseteq Goals

(* A mission in execute has begun and not ended, and sends its goal once.  *)
MissionPlaced ==
  /\ mission = NoGoal => step = "none"
  /\ step = "none" => task = "none"
  /\ mission # NoGoal => outcome[mission] \in {"VALIDATING", "RUNNING"}
  /\ \A g \in Goals : outcome[g] = "IDLE" => bt[g] = "none"

(* What the runner heard of its goal.                                      *)
RunnerHeard == mission # NoGoal =>
  /\ task \in {"none", "send"} => bt[mission] = "none"
  /\ task = "response" => bt[mission] # "none"
  /\ task = "result" => bt[mission] \notin Unheard
  /\ task = "done" => bt[mission] \in {"none"} \cup BtOver

(* The goal that the executor node executes is the one it has a tree for,  *)
(* until the worker has ended it.                                          *)
NodeTicks ==
  /\ node = NoGoal <=> tree = "none"
  /\ \A g \in Goals : bt[g] \in BtGoing <=> node = g /\ tree # "leaving"
  /\ tree = "leaving" => bt[node] \in BtOver \ {"refused"}

(* Cancels are asked of goals the node had accepted.                       *)
AskedAccepted ==
  /\ child # NoGoal => bt[child] \notin Unheard
  /\ ask # NoAsk => bt[ask.goal] \notin Unheard

(* The waypoint goal of a tree: sent once, and heard of after it was.      *)
WayFollows ==
  /\ \A g \in Goals : bt[g] \in Unheard => way[g] = "none"
  /\ tree = "ready" => way[node] = "none"
  /\ \A g \in answered : way[g] \notin {"none", "asked"}
  /\ tree = "succeeded" => way[node] = "reached"
  /\ \A g \in Goals : bt[g] = "succeeded" => way[g] = "reached"

(* A tree that is left has given up a waypoint goal not answered yet.      *)
GivenUpInTime ==
  tree \in {"failed", "halted", "leaving"} /\ node \notin answered /\ way[node] \in {"asked", "driving"}
    => node \in givenUp

(* A mission that ended well or was canceled has no goal at the node.      *)
EndedHeard ==
  \A g \in Goals :
    /\ outcome[g] = "SUCCEEDED" => bt[g] = "succeeded"
    /\ outcome[g] = "CANCELED" => bt[g] \in {"none"} \cup BtOver

BtInv == /\ BtTypeOK /\ MissionPlaced /\ RunnerHeard /\ NodeTicks /\ AskedAccepted /\ WayFollows
         /\ GivenUpInTime /\ EndedHeard /\ DrivenIsTicked

LEMMA BtInitHolds == BtInit => BtInv
BY ManagerAssumption
DEF BtInit, BtInv, BtTypeOK, MissionPlaced, RunnerHeard, NodeTicks, AskedAccepted, WayFollows,
    GivenUpInTime, EndedHeard, DrivenIsTicked, NoAsk, BtGoing, Unheard, BtOver

-----------------------------------------------------------------------------
(* The manager's part of a step: its mission, and the runner's goal        *)

ManagerPart == BtTypeOK /\ MissionPlaced /\ RunnerHeard /\ EndedHeard

(* What a step of the manager leaves to the node and the waypoint server.  *)
NodePart == NodeTicks /\ WayFollows /\ GivenUpInTime /\ DrivenIsTicked

LEMMA NodeUntouched ==
  ASSUME BtInv, nodeVars' = nodeVars, wayVars' = wayVars,
         \A g \in Goals : bt'[g] = bt[g] \/ (bt[g] \in Unheard /\ bt'[g] \in Unheard)
  PROVE  NodePart'
<1>1. tree = "leaving" => node \in Goals
  BY DEF BtInv, BtTypeOK, NodeTicks
<1>2. NodeTicks'
  BY <1>1 DEF BtInv, NodeTicks, BtGoing, Unheard, nodeVars, BtOver
<1>3. WayFollows' /\ GivenUpInTime' /\ DrivenIsTicked'
  BY DEF BtInv, WayFollows, GivenUpInTime, DrivenIsTicked, nodeVars, wayVars, Unheard
<1>4. QED
  BY <1>2, <1>3 DEF NodePart

(* A mission that ends was in execute, and its goal is what it says.       *)
LEMMA EndStep ==
  ASSUME BtInv, NEW result \in {"SUCCEEDED", "FAILED", "CANCELED"}, mission # NoGoal,
         End(result), bt' = bt, backend' = backend, nodeVars' = nodeVars, wayVars' = wayVars,
         ask' \in {ask, NoAsk},
         result = "SUCCEEDED" => bt[mission] = "succeeded",
         result = "CANCELED" => bt[mission] \in {"none"} \cup BtOver
  PROVE  BtInv'
<1>1. NodePart'
  BY NodeUntouched
<1>2. BtTypeOK'
  BY DEF End, BtInv, BtTypeOK, nodeVars, wayVars
<1>3. MissionPlaced' /\ RunnerHeard'
  BY DEF End, BtInv, BtTypeOK, MissionPlaced, RunnerHeard
<1>4. AskedAccepted' /\ EndedHeard'
  BY DEF End, BtInv, BtTypeOK, AskedAccepted, EndedHeard
<1>5. QED
  BY <1>1, <1>2, <1>3, <1>4 DEF BtInv, NodePart

LEMMA ExecuteStep ==
  ASSUME BtInv, backend' = backend,
         \/ \E g \in Goals : Begin(g)
         \/ RequestCancel \/ Die \/ Execute \/ TimesOut("result")
  PROVE  BtInv'
<1>1. BtTypeOK /\ MissionPlaced /\ RunnerHeard /\ AskedAccepted /\ EndedHeard
  BY DEF BtInv
<1>2. ASSUME NEW g \in Goals, Begin(g) PROVE BtInv'
  <2>1. NodePart'
    BY <1>2, NodeUntouched DEF Begin, StatusOnly, engineVars
  <2>2. BtTypeOK'
    <3>1. UNCHANGED <<step, task, child, bt, ask, node, flag, tree, way, answered, givenUp, died>>
      BY <1>2 DEF Begin, StatusOnly, runnerVars, engineVars, nodeVars, wayVars
    <3>2. mission' \in Goals /\ asked' = FALSE /\ outcome' = [outcome EXCEPT ![g] = "VALIDATING"]
      BY <1>2 DEF Begin
    <3>3. asked' \in BOOLEAN
      BY <3>2
    <3>4. outcome' \in [Goals -> {"IDLE", "VALIDATING", "RUNNING", "SUCCEEDED", "FAILED", "CANCELED",
                                  "INTERRUPTED"}]
      BY <1>1, <3>2 DEF BtTypeOK
    <3>5. mission' \in Goals
      BY <3>2
    <3>6. QED
      BY <1>1, <3>1, <3>3, <3>4, <3>5 DEF BtTypeOK
  <2>3. step = "none" /\ task = "none" /\ bt[g] = "none"
    BY <1>1, <1>2 DEF Begin, MissionPlaced
  <2>4. mission' = g /\ g # NoGoal /\ <<runnerVars, engineVars>>' = <<runnerVars, engineVars>>
    BY <1>2, ManagerAssumption DEF Begin, StatusOnly
  <2>5. MissionPlaced'
    BY <1>1, <1>2, <2>3, <2>4 DEF Begin, runnerVars, engineVars, BtTypeOK, MissionPlaced
  <2>6. RunnerHeard' /\ AskedAccepted'
    BY <1>1, <2>3, <2>4 DEF runnerVars, engineVars, RunnerHeard, AskedAccepted
  <2>7. EndedHeard'
    BY <1>1, <1>2, <2>4 DEF Begin, engineVars, BtTypeOK, EndedHeard
  <2>8. QED
    BY <2>1, <2>2, <2>5, <2>6, <2>7 DEF BtInv, NodePart
<1>3. CASE RequestCancel
  <2>1. NodePart'
    BY <1>3, NodeUntouched DEF RequestCancel, StatusOnly, engineVars
  <2>2. BtTypeOK' /\ MissionPlaced' /\ RunnerHeard' /\ AskedAccepted' /\ EndedHeard'
    BY <1>1, <1>3 DEF RequestCancel, StatusOnly, runnerVars, engineVars, nodeVars, wayVars, BtTypeOK,
       MissionPlaced, RunnerHeard, AskedAccepted, EndedHeard
  <2>3. QED
    BY <2>1, <2>2 DEF BtInv, NodePart
<1>4. CASE Die
  <2>1. NodePart'
    BY <1>4, NodeUntouched DEF Die, engineVars
  <2>2. BtTypeOK' /\ MissionPlaced' /\ RunnerHeard' /\ AskedAccepted' /\ EndedHeard'
    BY <1>1, <1>4 DEF Die, engineVars, nodeVars, wayVars, BtTypeOK,
       MissionPlaced, RunnerHeard, AskedAccepted, EndedHeard
  <2>3. QED
    BY <2>1, <2>2 DEF BtInv, NodePart
<1>5. CASE Validate
  <2>1. CASE mission # NoGoal /\ End("FAILED") /\ UNCHANGED engineVars
    BY <2>1, EndStep, Zenon DEF engineVars
  <2>2. CASE /\ mission # NoGoal /\ step = "none" /\ step' = "loop" /\ task' = "send"
             /\ outcome' = [outcome EXCEPT ![mission] = "RUNNING"]
             /\ UNCHANGED <<mission, asked, died, child>> /\ UNCHANGED engineVars
    <3>1. NodePart'
      BY <2>2, NodeUntouched DEF engineVars
    <3>2. BtTypeOK' /\ MissionPlaced' /\ RunnerHeard' /\ AskedAccepted' /\ EndedHeard'
      BY <1>1, <2>2 DEF engineVars, nodeVars, wayVars, BtTypeOK,
         MissionPlaced, RunnerHeard, AskedAccepted, EndedHeard
    <3>3. QED
      BY <3>1, <3>2 DEF BtInv, NodePart
  <2>3. QED
    BY <1>5, <2>1, <2>2 DEF Validate
<1>6. CASE AskCancel
  <2>1. NodePart'
    BY <1>6, NodeUntouched DEF AskCancel
  <2>2. BtTypeOK' /\ MissionPlaced' /\ RunnerHeard' /\ EndedHeard'
    BY <1>1, <1>6 DEF AskCancel, statusVars, nodeVars, wayVars, BtTypeOK, MissionPlaced,
       RunnerHeard, EndedHeard
  <2>3. AskedAccepted'
    BY <1>1, <1>6 DEF AskCancel, AskedAccepted
  <2>4. QED
    BY <2>1, <2>2, <2>3 DEF BtInv, NodePart
<1>7. CASE HearCancel
  <2>1. mission # NoGoal
    BY <1>1, <1>7 DEF HearCancel, MissionPlaced
  <2>2. CASE ask.at = "refused" /\ End("FAILED")
    BY <1>7, <2>1, <2>2, EndStep DEF HearCancel
  <2>3. CASE step' = "waiting" /\ UNCHANGED <<statusVars, task, child>>
    <3>1. NodePart'
      BY <1>7, NodeUntouched DEF HearCancel
    <3>2. BtTypeOK' /\ MissionPlaced' /\ RunnerHeard' /\ AskedAccepted' /\ EndedHeard'
      BY <1>1, <1>7, <2>1, <2>3 DEF HearCancel, statusVars, nodeVars, wayVars, BtTypeOK, MissionPlaced,
         RunnerHeard, EndedHeard, AskedAccepted
    <3>3. QED
      BY <3>1, <3>2 DEF BtInv, NodePart
  <2>4. QED
    BY <1>7, <2>2, <2>3 DEF HearCancel
<1>8. CASE HearNothing
  <2>1. mission # NoGoal
    BY <1>1, <1>8 DEF HearNothing, MissionPlaced
  <2>2. QED
    BY <1>8, <2>1, EndStep DEF HearNothing, engineVars
<1>9. CASE AwaitChild
  <2>1. mission # NoGoal
    BY <1>1, <1>9 DEF AwaitChild, MissionPlaced
  <2>2. CASE End("FAILED")
    BY <1>9, <2>1, <2>2, EndStep DEF AwaitChild, engineVars
  <2>3. CASE step' = "loop" /\ UNCHANGED <<statusVars, task, child>>
    <3>1. NodePart'
      BY <1>9, NodeUntouched DEF AwaitChild, engineVars
    <3>2. BtTypeOK' /\ MissionPlaced' /\ RunnerHeard' /\ AskedAccepted' /\ EndedHeard'
      BY <1>1, <1>9, <2>1, <2>3 DEF AwaitChild, statusVars, engineVars, nodeVars, wayVars, BtTypeOK,
         MissionPlaced, RunnerHeard, EndedHeard, AskedAccepted
    <3>3. QED
      BY <3>1, <3>2 DEF BtInv, NodePart
  <2>4. QED
    BY <1>9, <2>2, <2>3 DEF AwaitChild
<1>10. CASE Judge
  <2>1. mission # NoGoal
    BY <1>1, <1>10 DEF Judge, MissionPlaced
  <2>2. CASE task = "raised" /\ End("FAILED")
    BY <1>10, <2>1, <2>2, EndStep DEF Judge, engineVars
  <2>3. ASSUME task = "done", NEW result,
               result = IF asked \/ bt[mission] = "canceled" THEN "CANCELED"
                        ELSE IF bt[mission] = "succeeded" THEN "SUCCEEDED" ELSE "FAILED",
               End(result)
        PROVE  BtInv'
    <3>1. bt[mission] \in {"none"} \cup BtOver
      BY <1>1, <2>1, <2>3 DEF RunnerHeard
    <3>2. /\ result \in {"SUCCEEDED", "FAILED", "CANCELED"}
          /\ result = "SUCCEEDED" => bt[mission] = "succeeded"
          /\ result = "CANCELED" => bt[mission] \in {"none"} \cup BtOver
      BY <2>3, <3>1
    <3>3. QED
      BY <1>10, <2>1, <2>3, <3>2, EndStep DEF Judge, engineVars
  <2>4. QED
    BY <1>10, <2>2, <2>3 DEF Judge
<1>11. CASE TaskSends \/ TaskHearsResponse \/ TaskHearsResult \/ TimesOut("response") \/ TimesOut("result")
  <2>1. mission # NoGoal /\ mission \in Goals
    BY <1>1, <1>11 DEF TaskSends, TaskHearsResponse, TaskHearsResult, TimesOut, MissionPlaced, BtTypeOK
  <2>2. NodePart'
    <3>1. \A g \in Goals : bt'[g] = bt[g] \/ (bt[g] \in Unheard /\ bt'[g] \in Unheard)
      BY <1>1, <1>11, <2>1
      DEF TaskSends, TaskHearsResponse, TaskHearsResult, TimesOut, RunnerHeard, Unheard, BtTypeOK
    <3>2. QED
      BY <1>11, <3>1, NodeUntouched DEF TaskSends, TaskHearsResponse, TaskHearsResult, TimesOut, TaskOnly
  <2>3. BtTypeOK'
    BY <1>1, <1>11, <2>1
    DEF TaskSends, TaskHearsResponse, TaskHearsResult, TimesOut, TaskOnly, BtTypeOK, statusVars,
        nodeVars, wayVars
  <2>4. MissionPlaced' /\ RunnerHeard'
    BY <1>1, <1>11, <2>1
    DEF TaskSends, TaskHearsResponse, TaskHearsResult, TimesOut, TaskOnly, BtTypeOK, statusVars,
        MissionPlaced, RunnerHeard, Unheard, BtOver
  <2>5. AskedAccepted' /\ EndedHeard'
    BY <1>1, <1>11, <2>1
    DEF TaskSends, TaskHearsResponse, TaskHearsResult, TimesOut, TaskOnly, BtTypeOK, statusVars,
        MissionPlaced, RunnerHeard, AskedAccepted, EndedHeard, Unheard, NoAsk
  <2>6. QED
    BY <2>2, <2>3, <2>4, <2>5 DEF BtInv, NodePart
<1>12. QED
  BY <1>2, <1>3, <1>4, <1>5, <1>6, <1>7, <1>8, <1>9, <1>10, <1>11 DEF Execute

-----------------------------------------------------------------------------
(* The executor node's part of a step, and the waypoint server's           *)

(* What the manager relies on: a goal never goes back to what it was not   *)
(* yet, and one that is over stays as it ended.                            *)
LEMMA ManagerUntouched ==
  ASSUME BtInv, UNCHANGED <<statusVars, runnerVars>>, ask' = ask,
         \A g \in Goals : \/ bt'[g] = bt[g]
                          \/ bt[g] = "sent"
                          \/ bt[g] \in BtGoing /\ bt'[g] \in BtGoing \cup (BtOver \ {"refused"}),
         \A g \in Goals : bt'[g] = "none" <=> bt[g] = "none"
  PROVE  MissionPlaced' /\ RunnerHeard' /\ AskedAccepted' /\ EndedHeard'
<1>1. BtTypeOK /\ MissionPlaced /\ RunnerHeard /\ AskedAccepted /\ EndedHeard
  BY DEF BtInv
<1>2. MissionPlaced' /\ RunnerHeard'
  BY <1>1 DEF BtTypeOK, MissionPlaced, RunnerHeard, statusVars, runnerVars, BtGoing, BtOver, Unheard
<1>3. child \in Goals \cup {NoGoal} /\ (ask # NoAsk => ask.goal \in Goals)
  BY <1>1 DEF BtTypeOK
<1>4. AskedAccepted'
  BY <1>1, <1>3 DEF AskedAccepted, runnerVars, BtGoing, BtOver, Unheard
<1>5. EndedHeard'
  BY <1>1 DEF EndedHeard, statusVars, BtGoing, BtOver
<1>6. QED
  BY <1>2, <1>4, <1>5

LEMMA EngineStep == ASSUME BtInv, backend' = backend, Engine PROVE BtInv'
<1>1. /\ BtTypeOK /\ MissionPlaced /\ RunnerHeard /\ AskedAccepted /\ EndedHeard
      /\ NodeTicks /\ WayFollows /\ GivenUpInTime /\ DrivenIsTicked
  BY DEF BtInv
<1>2. ASSUME NEW g \in Goals, OnGoal(g) PROVE BtInv'
  <2>1. CASE node # NoGoal /\ bt' = [bt EXCEPT ![g] = "refused"] /\ UNCHANGED nodeVars
    <3>1. MissionPlaced' /\ RunnerHeard' /\ AskedAccepted' /\ EndedHeard'
      BY <1>1, <1>2, <2>1, ManagerUntouched DEF OnGoal, EngineOnly, BtTypeOK
    <3>2. NodePart'
      BY <1>1, <1>2, <2>1, NodeUntouched DEF OnGoal, BtTypeOK, Unheard
    <3>3. BtTypeOK'
      BY <1>1, <1>2, <2>1
      DEF OnGoal, EngineOnly, statusVars, runnerVars, nodeVars, wayVars, BtTypeOK, BtOver
    <3>4. QED
      BY <3>1, <3>2, <3>3 DEF BtInv, NodePart
  <2>2. CASE /\ node = NoGoal /\ bt' = [bt EXCEPT ![g] = "executing"]
             /\ node' = g /\ flag' = FALSE /\ tree' = "ready"
    <3>1. MissionPlaced' /\ RunnerHeard' /\ AskedAccepted' /\ EndedHeard'
      BY <1>1, <1>2, <2>2, ManagerUntouched DEF OnGoal, EngineOnly, BtTypeOK
    <3>2. BtTypeOK'
      <4>1. UNCHANGED <<mission, asked, outcome, died, step, task, child, ask, way, answered, givenUp>>
        BY <1>2 DEF OnGoal, EngineOnly, statusVars, runnerVars, wayVars
      <4>2. flag' \in BOOLEAN
        BY <2>2
      <4>3. bt' \in [Goals -> {"none", "sent"} \cup BtGoing \cup BtOver] /\ node' \in Goals /\ tree' = "ready"
        BY <1>1, <2>2 DEF BtTypeOK, BtGoing
      <4>4. QED
        BY <1>1, <4>1, <4>2, <4>3 DEF BtTypeOK
    <3>3. NodeTicks'
      BY <1>1, <1>2, <2>2, ManagerAssumption DEF BtTypeOK, NodeTicks, BtGoing
    <3>4. way[g] = "none" /\ UNCHANGED wayVars
      BY <1>1, <1>2 DEF OnGoal, WayFollows, Unheard
    <3>5. WayFollows' /\ GivenUpInTime'
      BY <1>1, <2>2, <3>4 DEF wayVars, BtTypeOK, WayFollows, GivenUpInTime, Unheard
    <3>6. DrivenIsTicked'
      BY <1>1, <2>2, <3>4, ManagerAssumption DEF wayVars, BtTypeOK, DrivenIsTicked
    <3>7. QED
      BY <3>1, <3>2, <3>3, <3>5, <3>6 DEF BtInv
  <2>3. QED
    BY <1>2, <2>1, <2>2 DEF OnGoal
<1>3. CASE OnCancel \/ MarkCanceling
  <2>1. ask # NoAsk /\ ask.goal \in Goals /\ bt[ask.goal] \notin Unheard
        /\ ask = [goal |-> ask.goal, at |-> ask.at]
    BY <1>1, <1>3 DEF OnCancel, MarkCanceling, BtTypeOK, NoAsk, AskedAccepted
  <2>2. \A g \in Goals : \/ bt'[g] = bt[g]
                         \/ bt[g] = "executing" /\ bt'[g] = "canceling"
    BY <1>1, <1>3, <2>1 DEF OnCancel, MarkCanceling, BtTypeOK
  <2>3. ask'.goal = ask.goal /\ ask'.at \in {"marking", "taken", "refused"} /\ ask' = [ask EXCEPT !.at = ask'.at]
    BY <1>3, <2>1 DEF OnCancel, MarkCanceling
  <2>4. BtTypeOK'
    <3>1. UNCHANGED <<mission, asked, outcome, died, step, task, child, node, tree, way, answered, givenUp>>
      BY <1>3 DEF OnCancel, MarkCanceling, EngineOnly, statusVars, runnerVars, nodeVars, wayVars
    <3>2. ask' \in [goal : Goals, at : {"sent", "marking", "taken", "refused"}]
      BY <2>1, <2>3
    <3>3. flag' \in BOOLEAN /\ bt' \in [Goals -> {"none", "sent"} \cup BtGoing \cup BtOver]
      BY <1>1, <1>3, <2>1 DEF OnCancel, MarkCanceling, nodeVars, BtTypeOK, BtGoing
    <3>4. QED
      BY <1>1, <3>1, <3>2, <3>3 DEF BtTypeOK
  <2>5. MissionPlaced' /\ RunnerHeard' /\ EndedHeard'
    BY <1>1, <1>3, <2>2 DEF OnCancel, MarkCanceling, EngineOnly, statusVars, runnerVars, BtTypeOK,
       MissionPlaced, RunnerHeard, EndedHeard, Unheard, BtOver
  <2>6. AskedAccepted'
    BY <1>1, <1>3, <2>1, <2>2, <2>3 DEF OnCancel, MarkCanceling, EngineOnly, runnerVars, BtTypeOK, AskedAccepted, Unheard
  <2>7. node' = node /\ tree' = tree /\ UNCHANGED wayVars
    BY <1>3 DEF OnCancel, MarkCanceling, nodeVars
  <2>8. NodeTicks'
    BY <1>1, <2>2, <2>7 DEF BtTypeOK, NodeTicks, BtGoing, BtOver
  <2>9. WayFollows' /\ GivenUpInTime' /\ DrivenIsTicked'
    BY <1>1, <2>2, <2>7 DEF wayVars, WayFollows, GivenUpInTime, DrivenIsTicked, Unheard
  <2>10. QED
    BY <2>4, <2>5, <2>6, <2>8, <2>9 DEF BtInv
<1>4. CASE TickReady \/ TickDrive \/ HaltTree
  <2>1. /\ node \in Goals /\ bt' = bt /\ node' = node /\ bt[node] \in BtGoing
        /\ \/ tree = "ready" /\ tree' \in {"drive", "failed", "halted"}
           \/ tree = "drive" /\ tree' \in {"succeeded", "failed", "halted"}
    BY <1>1, <1>4 DEF TickReady, TickDrive, HaltTree, Tick, BtTypeOK, NodeTicks
  <2>2. MissionPlaced' /\ RunnerHeard' /\ AskedAccepted' /\ EndedHeard'
    BY <1>1, <1>4, <2>1, ManagerUntouched DEF TickReady, TickDrive, HaltTree, Tick, EngineOnly
  <2>3. BtTypeOK'
    BY <1>1, <1>4, <2>1 DEF TickReady, TickDrive, HaltTree, Tick, EngineOnly, CancelActive, statusVars,
       runnerVars, wayVars, BtTypeOK
  <2>4. NodeTicks'
    BY <1>1, <2>1, ManagerAssumption DEF BtTypeOK, NodeTicks
  <2>5. CASE TickReady
    <3>1. way[node] = "none" /\ node \notin answered
      BY <1>1, <2>1, <2>5 DEF TickReady, Tick, WayFollows
    <3>2. WayFollows' /\ GivenUpInTime' /\ DrivenIsTicked'
      BY <1>1, <2>1, <2>5, <3>1 DEF TickReady, Tick, BtTypeOK, WayFollows, GivenUpInTime,
         DrivenIsTicked, Unheard, BtGoing
    <3>3. QED
      BY <2>2, <2>3, <2>4, <3>2 DEF BtInv
  <2>6. CASE /\ tree = "drive" /\ node \in answered /\ way[node] \in WayOver
             /\ tree' = IF way[node] = "reached" THEN "succeeded" ELSE "failed"
             /\ UNCHANGED wayVars
    <3>1. WayFollows' /\ GivenUpInTime' /\ DrivenIsTicked'
      BY <1>1, <2>1, <2>6 DEF BtTypeOK, WayFollows, GivenUpInTime, DrivenIsTicked, WayOver, wayVars
    <3>2. QED
      BY <2>2, <2>3, <2>4, <3>1 DEF BtInv
  <2>7. CASE tree = "drive" /\ tree' \in {"failed", "halted"} /\ CancelActive
    <3>1. WayFollows'
      BY <1>1, <2>1, <2>7 DEF CancelActive, BtTypeOK, WayFollows, Unheard, BtGoing
    <3>2. GivenUpInTime' /\ DrivenIsTicked'
      BY <1>1, <2>1, <2>7 DEF CancelActive, BtTypeOK, GivenUpInTime, DrivenIsTicked
    <3>3. QED
      BY <2>2, <2>3, <2>4, <3>1, <3>2 DEF BtInv
  <2>8. QED
    BY <1>4, <2>5, <2>6, <2>7 DEF TickDrive, HaltTree, Tick
<1>5. CASE EndGoal
  <2>1. node \in Goals /\ bt[node] \in BtGoing /\ tree \in {"succeeded", "failed", "halted"}
    BY <1>1, <1>5 DEF EndGoal, BtTypeOK, NodeTicks
  <2>2. /\ tree' = "leaving" /\ node' = node /\ UNCHANGED wayVars
        /\ bt'[node] \in BtOver \ {"refused"} /\ \A g \in Goals : g # node => bt'[g] = bt[g]
        /\ bt'[node] = "succeeded" => tree = "succeeded"
        /\ bt' \in [Goals -> {"none", "sent"} \cup BtGoing \cup BtOver]
    BY <1>1, <1>5, <2>1 DEF EndGoal, BtTypeOK, BtOver
  <2>3. MissionPlaced' /\ RunnerHeard' /\ AskedAccepted' /\ EndedHeard'
    <3>1. \A g \in Goals : bt'[g] = "none" <=> bt[g] = "none"
      BY <2>1, <2>2 DEF BtOver, BtGoing
    <3>2. \A g \in Goals : \/ bt'[g] = bt[g]
                           \/ bt[g] \in BtGoing /\ bt'[g] \in BtGoing \cup (BtOver \ {"refused"})
      BY <2>1, <2>2
    <3>3. QED
      BY <1>5, <3>1, <3>2, ManagerUntouched DEF EndGoal, EngineOnly
  <2>4. BtTypeOK'
    BY <1>1, <1>5, <2>2 DEF EndGoal, EngineOnly, statusVars, runnerVars, wayVars, BtTypeOK
  <2>5. NodeTicks'
    BY <1>1, <2>1, <2>2, ManagerAssumption DEF BtTypeOK, NodeTicks, BtGoing, BtOver
  <2>6. WayFollows'
    BY <1>1, <2>1, <2>2 DEF WayFollows, wayVars, BtGoing, BtOver, Unheard
  <2>7. GivenUpInTime' /\ DrivenIsTicked'
    BY <1>1, <2>1, <2>2 DEF GivenUpInTime, DrivenIsTicked, wayVars, WayFollows
  <2>8. QED
    BY <2>3, <2>4, <2>5, <2>6, <2>7 DEF BtInv
<1>6. CASE LeaveWorker
  <2>1. node \in Goals /\ bt' = bt /\ tree = "leaving"
    BY <1>1, <1>6 DEF LeaveWorker, BtTypeOK, NodeTicks
  <2>2. MissionPlaced' /\ RunnerHeard' /\ AskedAccepted' /\ EndedHeard'
    BY <1>6, <2>1, ManagerUntouched DEF LeaveWorker, EngineOnly
  <2>3. BtTypeOK'
    BY <1>1, <1>6 DEF LeaveWorker, EngineOnly, statusVars, runnerVars, BtTypeOK
  <2>4. NodeTicks'
    BY <1>1, <1>6, <2>1, ManagerAssumption DEF LeaveWorker, BtTypeOK, NodeTicks
  <2>5. WayFollows' /\ GivenUpInTime' /\ DrivenIsTicked'
    BY <1>1, <1>6, <2>1 DEF LeaveWorker, WayFollows, GivenUpInTime, DrivenIsTicked
  <2>6. QED
    BY <2>2, <2>3, <2>4, <2>5 DEF BtInv
<1>7. ASSUME NEW g \in Goals, WaypointStep(g) \/ ResponseHeard(g) PROVE BtInv'
  <2>1. UNCHANGED <<statusVars, runnerVars, bt, ask, nodeVars, backend, givenUp>>
    BY <1>7 DEF WaypointStep, ResponseHeard, WayOnly, EngineOnly
  <2>2. MissionPlaced' /\ RunnerHeard' /\ AskedAccepted' /\ EndedHeard'
    BY <2>1, ManagerUntouched
  <2>3. way[g] \in {"asked", "driving", "stopping"} \cup WayOver
    BY <1>1, <1>7 DEF WaypointStep, ResponseHeard, BtTypeOK
  <2>4. BtTypeOK'
    BY <1>1, <1>7, <2>1 DEF WaypointStep, ResponseHeard, statusVars, runnerVars, nodeVars, BtTypeOK, WayOver
  <2>5. NodeTicks'
    BY <1>1, <2>1 DEF NodeTicks, nodeVars
  <2>6. CASE WaypointStep(g)
    <3>1. /\ answered' = answered /\ way[g] \in {"asked", "driving", "stopping"}
          /\ way'[g] \in {"driving"} \cup WayOver /\ (way'[g] = "driving" => way[g] = "asked")
          /\ \A h \in Goals : h # g => way'[h] = way[h]
      BY <1>1, <2>6 DEF WaypointStep, BtTypeOK, WayOver
    <3>2. \A h \in Goals : way[h] \in {"none", "reached"} => way'[h] = way[h]
      BY <3>1
    <3>3. WayFollows'
      BY <1>1, <2>1, <2>3, <3>1, <3>2 DEF BtTypeOK, NodeTicks, WayFollows, WayOver, nodeVars
    <3>4. GivenUpInTime'
      BY <1>1, <2>1, <3>1 DEF BtTypeOK, NodeTicks, GivenUpInTime, WayOver, nodeVars
    <3>5. DrivenIsTicked'
      BY <1>1, <2>1, <3>1 DEF BtTypeOK, WayFollows, DrivenIsTicked, nodeVars
    <3>6. QED
      BY <2>2, <2>4, <2>5, <3>3, <3>4, <3>5 DEF BtInv
  <2>7. CASE ResponseHeard(g)
    <3>1. /\ node = g /\ g \notin answered /\ answered' = answered \cup {g}
          /\ \A h \in Goals : way'[h] = IF h = g /\ g \in givenUp /\ way[h] = "driving" THEN "stopping"
                                        ELSE way[h]
          /\ way[g] \notin {"none", "asked"}
      BY <1>1, <2>7 DEF ResponseHeard, BtTypeOK
    <3>2. WayFollows' /\ GivenUpInTime'
      BY <1>1, <2>1, <3>1 DEF BtTypeOK, WayFollows, GivenUpInTime, nodeVars
    <3>3. tree \in {"drive", "failed", "halted", "leaving"} \/ way[g] # "driving"
      BY <1>1, <3>1, ManagerAssumption DEF BtTypeOK, NodeTicks, WayFollows
    <3>4. DrivenIsTicked'
      BY <1>1, <2>1, <3>1, <3>3 DEF BtTypeOK, DrivenIsTicked, GivenUpInTime, nodeVars
    <3>5. QED
      BY <2>2, <2>4, <2>5, <3>2, <3>4 DEF BtInv
  <2>8. QED
    BY <1>7, <2>6, <2>7
<1>8. QED
  BY <1>2, <1>3, <1>4, <1>5, <1>6, <1>7 DEF Engine

LEMMA BtInvStep == BtInv /\ [BtNext]_btVars => BtInv'
<1> SUFFICES ASSUME BtInv, [BtNext]_btVars PROVE BtInv'
  OBVIOUS
<1>1. CASE UNCHANGED <<backend, statusVars, runnerVars, engineVars>>
  BY <1>1 DEF statusVars, runnerVars, engineVars, nodeVars, wayVars, BtInv, BtTypeOK, MissionPlaced,
     RunnerHeard, NodeTicks, AskedAccepted, WayFollows, GivenUpInTime, EndedHeard, DrivenIsTicked
<1>2. CASE UNCHANGED btVars
  BY <1>1, <1>2 DEF btVars
<1>3. CASE BtStep /\ UNCHANGED <<vars, backend>>
  BY <1>3, ExecuteStep, EngineStep DEF BtStep
<1>4. QED
  BY <1>1, <1>2, <1>3 DEF BtNext

(* The invariant of the behaviour tree's backend is inductive.             *)
THEOREM BtInductive == BtSpec => []BtInv
BY BtInitHolds, BtInvStep, PTL DEF BtSpec

(* A mission reported SUCCEEDED had its waypoint task reached, and neither *)
(* it nor one reported CANCELED leaves its tree behind.                    *)
THEOREM EndsInTruth == BtSpec => []EndsAsDriven
<1>1. BtInv => EndsAsDriven
  BY DEF BtInv, EndedHeard, WayFollows, EndsAsDriven, BtOver
<1>2. QED
  BY <1>1, BtInductive, PTL

(* No waypoint task that the tree has heard of drives without its tree.    *)
THEOREM NoneLeftDriving == BtSpec => []DrivenIsTicked
<1>1. BtInv => DrivenIsTicked
  BY DEF BtInv
<1>2. QED
  BY <1>1, BtInductive, PTL
=============================================================================
