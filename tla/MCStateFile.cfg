SPECIFICATION Spec
CONSTANTS
  p1 = p1
  p2 = p2
  p3 = p3
  Proc <- MCProc
  Origin = {"log", "other"}
  OriginOf <- MCOriginOf
  MaxSize = 2
  Missing = Missing
  Torn = Torn
INVARIANTS NeverTorn
PROPERTIES UnracedSaveKeeps
