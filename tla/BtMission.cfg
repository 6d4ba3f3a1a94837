\* Two missions on either backend, and a manager that dies once.
SPECIFICATION BtSpec
CONSTANTS
  Goals = {g1, g2}
  NoGoal = noGoal
  MaxCrashes = 1
INVARIANTS  IdleAcceptsGoals EndsAsDriven DrivenIsTicked
PROPERTIES  CancelEndsMission
CHECK_DEADLOCK FALSE
