\* A walk whose function updates the current entry.
CONSTANTS
  Keys = {k1, k2}
  Values = {v1}
  NoKey = NoKey
  ObjNull = ObjNull
  NoValue = NoValue
  Failed = Failed
  Yes = Yes
  HashFunctions <- TwoCodes
  Tables <- SmallTable
  MaxSize = 9
SYMMETRY Renamings
SPECIFICATION Spec
PROPERTY WalkMayUpdate
