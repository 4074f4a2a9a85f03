\* Two scenarios: endless submissions, endless handlers.
SPECIFICATION Spec
CONSTANTS
  j1 = j1
  j2 = j2
  w1 = w1
  w2 = w2
  export = export
  NoJob = NoJob
  NoWorker = NoWorker
PROPERTIES
  QueuedGetsItsTurn
  CancelTakesEffect
CHECK_DEADLOCK FALSE
