CONSTANTS
  Handlers = {h1, h2}
  Ops = {"teleop", "collect-data"}
  None = None
  Deaf = TRUE
SPECIFICATION Spec
INVARIANTS TypeOK AnswerIsTrue MotionWasClear
