\* The reaper schedule of the run() docstring, under endless submissions.
SPECIFICATION FairSpec
CONSTANTS
  Job = {j1}
  Worker = {w1}
  NoJob = NoJob
  NoWorker = NoWorker
  Kind = {export}
  ArtifactKind = {export}
  Registered = {export}
  Malformed = {}
  Percent = {}
  DbFaults = FALSE
  Purging = TRUE
  Immortal = {w1}
PROPERTIES
  ReaperKeepsItsInterval
