\* Liveness over every step type, with the event loop, the pending requests and the server fair.
SPECIFICATION FairSpec
CONSTANTS
  Mission <- MCEveryStepType
  Waypoints = 2
  Loops = 2
  Polls = 1
  GateSnapshots <- MCOpenOrLost
  MaxAsks <- MCOneHold
  MaxFeedback = 0
PROPERTIES CancelEnds EndsOrHeld ResumeReleases
