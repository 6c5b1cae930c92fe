SPECIFICATION Spec
CONSTANTS
  PerPage = 1
  MaxPages = 3
  MaxRun = 3
  MaxDepth = 2
  Windows <- NoWindows
INVARIANTS
  TypeOK
  
  SavedKept
  PopUndisturbed
  
  
