\* A table made with :size 0.
CONSTANTS
  Keys = {k1, k2, k3}
  Values = {v1}
  NoKey = NoKey
  ObjNull = ObjNull
  NoValue = NoValue
  Failed = Failed
  Yes = Yes
  HashFunctions <- TwoCodes
  Tables <- EmptyTable
  MaxSize = 9
SYMMETRY Renamings
SPECIFICATION Spec
INVARIANT NeverFull
