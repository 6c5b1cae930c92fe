\* SIGINT and the alarm that retries it, with the delivery code's fairness.
CONSTANTS
  INT = INT
  ALRM = ALRM
  USR1 = USR1
  UserSignals <- NoUserSignals
  Collisions <- NamesNew
  MaxSends = 2
  MaxDepth = 14
  MaxScopes = 2
SPECIFICATION FairSpec
INVARIANTS LevelAtBase InterruptNotLost RetryArmed
PROPERTIES InterruptServed SignalsTransparent
