\* The error text of reap_zombies, when no heartbeat is lost.
SPECIFICATION Spec
CONSTANTS
  Job = {j1}
  Worker = {w1, w2}
  NoJob = NoJob
  NoWorker = NoWorker
  Kind = {export}
  ArtifactKind = {export}
  Registered = {export}
  Malformed = {}
  Percent = {}
  DbFaults = FALSE
  Purging = FALSE
  Immortal = {}
INVARIANTS
  ReapedWorkerDied
CHECK_DEADLOCK FALSE
