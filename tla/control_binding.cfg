SPECIFICATION Spec
CONSTANTS
  Tags = {a}
  Symbols = {x, y}
  Values = {v, w}
  Nothing = Nothing
  MaxCode = 4
  MaxBinds = 1
  Windows <- Binding
PROPERTY
  BindingsUndone
