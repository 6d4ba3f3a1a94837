\* Two goals of the same or of different requests, with cancels, feedback and lost gates at any time.
SPECIFICATION FairSpec
CONSTANTS
  Goals <- MCTwoGoals
  Requests = {"a", "b"}
  Asked <- MCRepeatOrNot
  MaxCallbacks = 2
  NoRequest = "none"
  NoGoal = "none"
  LoopCount <- MCTwoLoopsThenOne
INVARIANTS OneTaskDrives DrivenIsAwaited SuccessMeansEveryLoop RememberedAsTold
PROPERTIES GateLossEndsTasks
CHECK_DEADLOCK FALSE
