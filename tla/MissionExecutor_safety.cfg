\* A route of two loops of two points and a wait, held up to twice, with late feedback.
SPECIFICATION Spec
CONSTANTS
  Mission <- MCRouteThenEvent
  Waypoints = 2
  Loops = 2
  Polls = 2
  GateSnapshots <- MCOpenOrLost
  MaxAsks <- MCTwoHolds
  MaxFeedback = 1
INVARIANTS HeldMeansStopped EveryWaypointReached ResumesAreBacked CanceledOnlyOnRequest
 
