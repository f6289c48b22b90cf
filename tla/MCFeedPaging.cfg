SPECIFICATION Spec
CONSTANTS
  Cursor = {"x", "y", "z"}
  NoCursor = NoCursor
  Copy = {1, 2, 3, 4, 5}
  PageLimits = {0, 3}
  MaxFeedPages = 2
CHECK_DEADLOCK FALSE
INVARIANTS PagesAreBounded
