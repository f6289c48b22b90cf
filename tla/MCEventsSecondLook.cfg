SPECIFICATION Spec
CONSTANTS
  Content <- MCContent
  Profile = {"p"}
  NoProfile = NoProfile
  Id = {"a", "b"}
  Null = Null
  Files <- MCFiles
  Log <- MCLog
  Budget = 2
CHECK_DEADLOCK FALSE
INVARIANTS PendingIsBeyondLog
