\* Bases, gates, trails, sync, pipeline and callbacks, each alone.
SPECIFICATION AllSpec
CONSTANTS
  Parts = {"bases", "designs", "rules", "gates", "trail", "shared_trail", "pushes", "resolves", "announced", "failing", "callbacks"}
  Basis = {b1, b2, b3}
  Author = {a1, a2}
  Manager = {m1, m2, m3}
  Design = {}
  NoBasis = NoBasis
  Faults = TRUE
  None = None
  Bases = {b1, b2}
  Authors = {a1}
  Managers = {m1, m2}
  Dams = {d1, d2}
  People = {0, 1, 10, 11, 101, 1001}
  Damage = {0, 1, 10, 100, 1000}
  Factor = {145, 150}
  Pga = {10}
  Stages = {1, 2}
  Items = {}
  Risks = {r1}
  Listers = {q1, q2}
  Approvers = {x1}
  Writers = {w1, w2, w3}
  w1 = w1
  PullLimit = 2
  TrailTime = 14
  SharedTime = 5
  Mutations = {m1, m2}
  Fields = {"tonnage", "grade"}
  Pushers = {p1}
  PushTime = 4
  PushRetries = 1
  Resolved = {m1}
  r1 = r1
  ResolveTime = 5
  p1 = p1
  Runs = {p1, p2}
  RunModules = {"design_criteria", "mass_balance"}
  Transactions = {t1, t2, t3}
  Callbacks = {1, 2, 3, 4}
INVARIANTS
  OneActive
  RecordsAddUp
  CallbacksFollowCommits
  PipelineTells
PROPERTIES
  ImplementsRegister
  DecisionsStand
  PipelineOrder
CHECK_DEADLOCK FALSE
