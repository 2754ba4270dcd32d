SPECIFICATION FairSpec
CONSTANTS
  Me = Me
  Rival = Rival
  NoUser = NoUser
  MaxLines = 2
  MaxRetries = 2
  MaxConns = 4
  MaxRestarts = 1
INVARIANTS TypeOK LockedWhileWriting CommitIsSinceLock
PROPERTIES EveryLineAnswered
CHECK_DEADLOCK FALSE
