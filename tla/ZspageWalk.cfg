CONSTANTS
  PageSize = 16
  Sizes = {1, 2, 3, 4, 5, 6, 7, 8, 9, 10, 11, 12, 13, 14, 15, 16}
  MaxPages = 4
SPECIFICATION Spec
INVARIANTS ListedWhereRead ObjectsExact
CHECK_DEADLOCK FALSE
