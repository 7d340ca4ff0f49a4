CONSTANTS
  PageSize = 4
  WordSize = 2
  NPages = 2
  NSwap = 2
  Sources = {"none", "same"}
  MaxLen = 6
SPECIFICATION Spec
INVARIANTS PageDataShown
