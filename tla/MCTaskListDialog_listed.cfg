SPECIFICATION DialogFairSpec
CONSTANTS
  NoTask = NoTask
  Executors = {e1, e2, e3}
  Tasks = {t1, t2, t3}
  Detections = {t1, t2}
  MayStop = TRUE
INVARIANTS
  ListFollowsQueue
  TasksSettled
  WorkConserving
PROPERTIES
  TasksEnd
CHECK_DEADLOCK FALSE
