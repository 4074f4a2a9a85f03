\* One worker survives, submissions are bounded, handlers end, no heartbeat is
\* lost.
SPECIFICATION FairSpec
CONSTANTS
  Job = {j1, j2}
  Worker = {w1, w2}
  NoJob = NoJob
  NoWorker = NoWorker
  Kind = {export}
  ArtifactKind = {export}
  Registered = {export}
  Malformed = {}
  Percent = {}
  DbFaults = FALSE
  Purging = FALSE
  Immortal = {w1}
INVARIANT
  ReapedWhileStopping
PROPERTIES
  EveryJobEnds
  ShutdownCompletes
