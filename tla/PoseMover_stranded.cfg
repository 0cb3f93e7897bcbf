CONSTANTS
  Swings = {1, 6, 7}
  Grain = 5
  Requests = {"plan", "go", "home"}
  Faults = {"unconfirmed"}
SPECIFICATION Spec
INVARIANTS NeverStranded
CHECK_DEADLOCK FALSE
