\* The registers of a project, each alone.
SPECIFICATION AllSpec
CONSTANTS
  Parts = {"risks", "items", "item_edits", "balance", "balance_edits", "cost", "cost_race", "plans", "locks", "circuit", "topologies", "values", "value_edits", "diagram"}
  Requests = {r1, r2}
  Periods = {1}
  MaxPlans = 3
  MaxRuns = 2
  Kinds = {"lock", "adopt", "month", "delete"}
  r1 = r1
  r2 = r2
  Categories = {"Technical", "HSE"}
  Found = 2
  Ids = {1, 2, 3, 4}
  MaxNumber = 3
  Clerks = {r1, r2}
  ItemGens = 2
  ItemVersions = 3
  Processes = {p1}
  BalanceUsers = {r1, r2, r3}
  MaxGen = 3
  MaxVersion = 3
  Keys = {"mill", "cip"}
  CostCircuits = {{"mill"}, {"mill", "cip"}}
  OneItem = {"mill"}
  CostRows = {"a", "b", "c"}
  MaxTph = 2
  CostUsers = {r1, r2}
  Lockers = {r1, r2, r3}
  Users = {u1}
  Derived = {"power", "area"}
  Entered = {2, 3}
  MaxWrites = 4
  Editors = {u1, u2}
  EditDerived = {"power"}
  EditEntered = {2}
  EditWrites = 3
  Ops = {o1, o2}
  MaxRows = 3
  MaxChange = 3
INVARIANTS
  PlansHold
  PlanStaysInForce
  RegistersWhole
  CriteriaFollowOperations
  DiagramWhole
PROPERTIES
  UserCostsKept
  ManualValuesKept
CHECK_DEADLOCK FALSE
