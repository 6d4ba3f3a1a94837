\* Nothing fails; the client cancels.
SPECIFICATION Spec
CONSTANTS
  Segments = 2
  Loops = 2
  Callers <- MCCanceler
  Faults <- MCNone
  Chatty <- MCNone
INVARIANTS CancelStopsTracking
CHECK_DEADLOCK FALSE
