\* GENTEMP meets a name that is interned.
CONSTANTS
  INT = INT
  ALRM = ALRM
  USR1 = USR1
  UserSignals <- NoUserSignals
  Collisions <- NamesMayCollide
  MaxSends = 2
  MaxDepth = 6
  MaxScopes = 2
SPECIFICATION Spec
INVARIANT LevelAtBase
