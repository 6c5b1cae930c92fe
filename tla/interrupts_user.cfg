\* SIGINT, SIGALRM and one signal with a user's handler, to a depth of nine.
CONSTANTS
  INT = INT
  ALRM = ALRM
  USR1 = USR1
  UserSignals <- OneUserSignal
  Collisions <- NamesMayCollide
  MaxSends = 2
  MaxDepth = 9
  MaxScopes = 2
SPECIFICATION Spec
INVARIANTS TypeOK HandlerFlag
PROPERTY LostOnlyByThrow
