CONSTANTS
  MaxIntSize = 5
  DefaultSize = 3
  CIntSize = 4
  Literals <- SmallLiterals
  VarTypes <- SmallVarTypes
  FieldTypes <- SmallFields
  FieldOrder <- SmallOrder
  Constants <- SmallConstants
  InitVals <- SmallInitVals
  CastTypes <- SmallCasts
  Binaries = {"Sum", "Prod", "Quot", "Equal", "ShiftLeft", "BwAnd"}
  Unaries = {"Minus", "Negate", "BwNot"}
  MaxOperands = 2
  MaxSteps = 4
SPECIFICATION Spec
INVARIANTS FoldingSound CheckedTypeHolds ArithmeticSaturates
PROPERTY StoresFaithful
CHECK_DEADLOCK FALSE
