CONSTANTS
  Proc = {p1, p2, p3}
  Image = {text}
  Demand = {stack, heap}
  Spill = {}
  StackTop = stack
  Buffers = {text, stack}
  Frame = {f1, f2, f3, f4}
  Value = {zero, one}
  Zero = zero
  NONE = NONE
SPECIFICATION Spec
SYMMETRY Symmetry
INVARIANT NrefCounts
INVARIANT SharedIsReadOnly
PROPERTY ImplementsPrivateMemory
