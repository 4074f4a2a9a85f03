\* Flowsheets, compilations and cascades, each alone.
SPECIFICATION AllSpec
CONSTANTS
  Parts = {"sort", "tree", "shared_tree", "values", "branches", "compile", "compile_race", "templates", "snapshots", "freezes", "steps", "marks", "cascade", "topology"}
  N = 3
  MaxConn = 3
  Ops = {"mill"}
  r1 = r1
  r2 = r2
  n1 = n1
  n2 = n2
  n3 = n3
  n4 = n4
  t1 = t1
  t2 = t2
  t3 = t3
  l1 = l1
  l2 = l2
  Calculated <- ThreeNodes
  Entered = {"tph"}
  ChangedAtOnce = 1
  Redraws = 3
INVARIANTS
  OrderRespects
  TreeHolds
  CompiledWhole
  
  CascadeSettles
  DrawingLeadsOn
PROPERTIES
  VersionsStand
CHECK_DEADLOCK FALSE
