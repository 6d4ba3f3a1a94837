\* Every time-out is one unit; a command may be on its way for one more.
SPECIFICATION Spec
CONSTANTS
  Streams = {"lidar"}
  StaleAfter = 0
  MaxAge = 5
  Timeout <- TimeoutMC
  GuardTimeout = 1
  GuardPeriod = 1
  MaxDelay = 1
  LinearRise = 350
  LinearFall = 700
  TurnRise = 248
  TurnFall = 372
INVARIANTS DriveWasPermitted NavigationSees EmergencyHolds
