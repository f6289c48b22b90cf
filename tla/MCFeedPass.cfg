SPECIFICATION Spec
CONSTANTS
  Content <- MCContent
  Profile <- MCProfile
  NoProfile = NoProfile
  Id <- MCId
  Null = Null
  Pages <- MCPages
  Files <- MCFiles
  Log <- MCLog
  Overlap = 1
  Grace = 1
  MaxSkew = 0
  MaxPages = 2
  MaxNow = 3
INVARIANTS DoneIsCommitted OneRecord CleanAccountsForAll NoSilentWithdrawal GraceIsEnforced
PROPERTIES DeadlineStands FindingKeepsRecord
