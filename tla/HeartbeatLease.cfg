\* The tightest setting that settings.py accepts for one fault per refresh.
SPECIFICATION Spec
CONSTANTS
  Interval = 4
  Timeout = 13
  MaxFaults = 1
  Horizon = 15
INVARIANTS
  DrainWindow
  IInv
CHECK_DEADLOCK FALSE
