CONSTANTS
  z1 = z1
  z2 = z2
  Zrams <- MCZrams
  ZramIdr <- MCZramIdr
  ClassCnt = 2
  GroupCnt = 2
  MaxFullness = 4
SPECIFICATION MCSpec
CHECK_DEADLOCK FALSE
INVARIANTS AllZramsShown
