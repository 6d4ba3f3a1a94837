\* Clients repeat their requests, and nothing else happens.
SPECIFICATION Spec
CONSTANTS
  Goals <- MCFourGoals
  Requests = {"a", "b"}
  Asked <- MCBothTwice
  MaxCallbacks = 0
  NoRequest = "none"
  NoGoal = "none"
  LoopCount <- MCOneLoop
INVARIANTS RequestRunsOnce
CHECK_DEADLOCK FALSE
