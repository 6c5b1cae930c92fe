SPECIFICATION Spec
CONSTANTS
  Tags = {a, b}
  Symbols = {x}
  Values = {v, w}
  Nothing = Nothing
  MaxCode = 5
  MaxBinds = 2
  Windows <- NoWindows
SYMMETRY Renamings
INVARIANTS
  TypeOK
  FramesMatch
  TargetStands
  
PROPERTIES
  CleanupsRun
  BindingsUndone
  HandlersBalanced
