\* Two candidates, three poses, a status topic that keeps one sample.
SPECIFICATION FairSpec
CONSTANTS
  MaxPose = 2
  EvidenceDepth = 1
  FailuresToRecover = 2
  FailuresToLost = 3
  MaxCandidates = 2
  TrackingLimit = 1
  RecoveringLimit = 2
  RejectionsToLost = 2
INVARIANTS NavigableIsBacked
PROPERTIES NoJumpWhileNavigable AskEnds LostIsAnswered
CHECK_DEADLOCK FALSE
