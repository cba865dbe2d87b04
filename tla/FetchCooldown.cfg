\* Three years, room for two; the delay is capped below its second doubling.
CONSTANTS
  Years = {y1, y2, y3}
  Base = 1
  MaxDelay = 3
  MaxTracked = 2
  Horizon = 8
SPECIFICATION Spec
SYMMETRY MCSymmetry
INVARIANT TableBounded
PROPERTIES ActiveKept
