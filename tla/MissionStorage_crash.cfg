\* The executor thread and a ROS thread write, and the process dies up to three times.
SPECIFICATION Spec
CONSTANTS
  Executor = executor
  Feedback = {callback}
  Inodes = {i1, i2, i3, i4}
  NoFile = noFile
  Last = 4
  MaxCrashes = 3
SYMMETRY InodesAlike
INVARIANTS Readable OneWriterGetsThrough RestartTellsTruth
CHECK_DEADLOCK FALSE
