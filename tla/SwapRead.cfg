CONSTANTS
  PageSize = 3
  WordSize = 1
  NPages = 2
  NSwap = 2
  Sources = {"none", "memory", "swapcache", "object", "zero", "broken"}
  MaxLen = 5
SPECIFICATION Spec
INVARIANTS ReadExact InterruptsHarmless
PROPERTY KeepsPromise
