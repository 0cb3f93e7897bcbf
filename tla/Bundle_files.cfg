CONSTANTS
  Writers = {w1, w2}
  Values = {v1}
  None = None
  Torn = Torn
SPECIFICATION Spec
INVARIANTS BundleInv AnsweredIsStored NeverHalfStaged
PROPERTIES PreviousIsKept
SYMMETRY Alike
