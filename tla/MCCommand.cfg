SPECIFICATION FairSpec
CONSTANTS
  Configured = 3
  DefaultAttempts = 5
  Base = 2
  Cap = 2
  ShiftBound = 1
  Second = 2
  RetryAfterCap = 1
  MaxDuration = 3
  Status <- MCStatus
  Hint <- MCHint
  Request <- MCRequest
  MaxAsks = 2
INVARIANTS FirstAnswerStands WaitsAreBounded FindingIsReported UsageIsBeforeVerified RecordFollowsVerdict
PROPERTIES RevokedKeyStops
