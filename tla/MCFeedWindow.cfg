SPECIFICATION FairSpec
CONSTANTS
  Cursor = {"a", "b", "c", "d"}
  NoCursor = NoCursor
  Copy = {1, 2, 3, 4, 5}
  PageLimits = {0, 4}
  MaxFeedPages = 4
  Feed <- MCFeed
  Limit = 1
  Overlap = 2
  Delay = 1
  Drift = 0
  MaxSkew = 1
  Doubtful = {1}
  MaxClock = 5
INVARIANTS NothingIsSkipped OpenStaysListed HonestFeedIsFollowed
PROPERTIES EverythingIsRead
