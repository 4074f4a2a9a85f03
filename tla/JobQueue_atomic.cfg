\* The comment on atomicity in worker/loop.py, on two workers.
SPECIFICATION Spec
CONSTANTS
  Job = {j1}
  Worker = {w1, w2}
  NoJob = NoJob
  NoWorker = NoWorker
  Kind = {export}
  ArtifactKind = {export}
  Registered = {export}
  Malformed = {}
  Percent = {}
  DbFaults = FALSE
  Purging = FALSE
  Immortal = {}
INVARIANTS
  HandlerWritesAreAtomic
CHECK_DEADLOCK FALSE
