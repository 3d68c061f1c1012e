CONSTANTS
  a = a
  b = b
  c = c
  d = d
  e = e
  Value = {a, b, c, d, e}
  NoValue = NoValue
  MaxOperands = 2
  Functions <- AllFunctions
SPECIFICATION Spec
INVARIANTS SlotsAreDisjoint WellFormedNeverFails LiveValuesDoNotOverlap FrameHoldsEverySlot
PROPERTY LayoutEnds
