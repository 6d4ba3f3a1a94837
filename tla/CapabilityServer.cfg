\* Everything may happen: cancel, lost gates, faults and late feedback.
SPECIFICATION ServerSpec
CONSTANTS
  Segments = 2
  Loops = 2
  Callers <- MCCallers
  Faults <- MCFaults
  Chatty <- MCFirst
INVARIANTS SegmentsInTurn SucceededAsDriven FailsForAReason
PROPERTIES RouteEnds
CHECK_DEADLOCK FALSE
