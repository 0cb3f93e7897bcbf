CONSTANTS
  None = None
  Handlers = {h1}
  Main = main
  Stacks = {s1, s2}
SPECIFICATION FairSpec
INVARIANTS StackInv OneStack SaidIsTrue
PROPERTIES CallAnswered
