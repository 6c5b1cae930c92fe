\* Three keys, every hash function onto two codes, three kinds of table.
CONSTANTS
  Keys = {k1, k2, k3}
  Values = {v1, v2}
  NoKey = NoKey
  ObjNull = ObjNull
  NoValue = NoValue
  Failed = Failed
  Yes = Yes
  HashFunctions <- TwoCodes
  Tables <- EdgeTables
  MaxSize = 9
SYMMETRY Renamings
SPECIFICATION Spec
INVARIANTS TypeOK ConditionThree CountExact SetHasRoom
PROPERTIES ActsAsMap WalkVisitsAll
