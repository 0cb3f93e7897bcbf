CONSTANTS
  Handlers = {h1, h2}
  Datasets = {d1}
  None = None
  MaxTakes = 2
  MaxRestarts = 2
SPECIFICATION FairSpec
INVARIANTS TypeOK AnswerIsTrue PinWasIdle StopFoundItsTake
PROPERTIES BufferHeldOff OptedOutKept
