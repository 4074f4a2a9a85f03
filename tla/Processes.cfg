\* Starts, pools, tasks, breakers and requests that end, each alone.
SPECIFICATION AllSpec
CONSTANTS
  Parts = {"boot", "pool", "full pool", "tasks", "dying tasks", "faulty tasks", "breaker", "lone breaker", "retries", "activations", "edits", "regenerations", "dashboards"}
  Actor = {x1, x2, x3}
  Couple = {x1, x2}
  x1 = x1
  x3 = x3
  Deaths = 1
  Connections = 9
  Jobs = {1, 2, 3}
  RunKinds = {"rigorous", "study", "economic", "sync", "sweep"}
  RunFaults = {"engine", "sql", "store", "broker", "limit", "child"}
  p1 = p1
  p2 = p2
  n1 = n1
  n2 = n2
  n3 = n3
  b1 = b1
  b2 = b2
  b3 = b3
  NoBasis = NoBasis

  
PROPERTIES
  
  EverythingEnds
CHECK_DEADLOCK FALSE
