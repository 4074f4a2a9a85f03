\* Everything may happen: crashes, signals, lost heartbeats, purges.
SPECIFICATION Spec
CONSTANTS
  Job = {j1, j2}
  Worker = {w1, w2}
  NoJob = NoJob
  NoWorker = NoWorker
  Kind = {export}
  ArtifactKind = {export}
  Registered = {export}
  Malformed = {}
  Percent = {50}
  DbFaults = TRUE
  Purging = TRUE
  Immortal = {}
SYMMETRY Symmetry
INVARIANTS
  TypeOK
  SingleExecution
  RunningIsHeld
  SuccessHasOutput
  CancelledLeavesNothing
  ArtifactHasJob
PROPERTIES
  TerminalIsFinal
  ImplementsLifecycle
CHECK_DEADLOCK FALSE
