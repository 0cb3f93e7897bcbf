CONSTANTS
  Swings = {1, 6, 7}
  Grain = 5
  Requests = {"plan", "go", "home"}
  Faults = {"raise", "unconfirmed", "lateAccept", "uncancelled", "unmeasured"}
SPECIFICATION Spec
INVARIANTS RunInv ReplyIsTrue SeededWhereTheyAre OverByHardStop
CHECK_DEADLOCK FALSE
