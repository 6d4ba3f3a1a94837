\* A waypoint child whose feedback is checkpointed by a ROS thread.
SPECIFICATION Spec
CONSTANTS
  Executor = executor
  Feedback = {callback}
  Inodes = {i1, i2, i3, i4}
  NoFile = noFile
  Last = 4
  MaxCrashes = 1
SYMMETRY InodesAlike
INVARIANTS ActiveIsInterrupted
CHECK_DEADLOCK FALSE
