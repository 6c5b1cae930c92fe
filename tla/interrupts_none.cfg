\* An allocation inside a region.
CONSTANTS
  INT = INT
  ALRM = ALRM
  USR1 = USR1
  UserSignals <- NoUserSignals
  Collisions <- NamesNew
  MaxSends = 2
  MaxDepth = 6
  MaxScopes = 2
SPECIFICATION Spec
INVARIANT NoHandlerAtNone
