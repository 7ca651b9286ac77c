CONSTANTS
  a = a
  b = b
  Names <- MCNames
  Lens = {0, 2, 5}
  UnitSize = 2
SPECIFICATION Spec
SYMMETRY MCSymmetry
INVARIANTS TailIsZero EqualityIsOfBits
PROPERTY ImplementsStrings
CHECK_DEADLOCK FALSE
