\* A simulation, a handler with an invalid result, a kind without handler.
SPECIFICATION Spec
CONSTANTS
  Job = {j1}
  Worker = {w1, w2}
  NoJob = NoJob
  NoWorker = NoWorker
  Kind = {simulation, broken, unknown}
  ArtifactKind = {}
  Registered = {simulation, broken}
  Malformed = {broken}
  Percent = {50}
  DbFaults = TRUE
  Purging = TRUE
  Immortal = {}
INVARIANTS
  IInv
CHECK_DEADLOCK FALSE
