SPECIFICATION FairSpec
CONSTANTS
  Me = Me
  Rival = Rival
  NoUser = NoUser
  MaxLines = 2
  MaxRetries = 2
  MaxConns = 3
  MaxRestarts = 1
INVARIANT AllMeansAll
CHECK_DEADLOCK FALSE
