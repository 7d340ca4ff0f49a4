\* Words of 3 bytes, regions up to 9 bytes at every alignment.
\* Up to two objects of 4 bytes at 64, free pointers to each of them, two different
\* ones to the first, one below the slab, and one so far away that the index wraps
\* (8 indices of 4 bytes).  In a slab of one object the pointer to the second one is
\* behind the slab.
\* Every set of flags, two caches of two objects in all combinations of states.
\* Sessions of three commands on two caches of up to two objects.
CONSTANTS
  Word = 3
  Short = 4
  Addresses = {3, 4, 5, 6}
  MaxBytes = 9
  AddrMod = 256
  IndexMod = 8
  size = 4
  red_left_pad = 1
  slab_vaddr = 64
  Pointers = {0, 60, 65, 67, 69, 97}
  KernelStart = 32
  MaxObj = 2
  PtrSize = 2
  TrackSize = 1
  UintSize = 1
  MaxObjectSize = 2
  NCache = 2
  NObj = 2
  NDefect = 1
  slab_caches <- MCCaches
  Stack = {"s1"}
  None = "none"
  MaxObjs = 2
  MaxCmds = 3
SPECIFICATION MCSpec
INVARIANTS FirstDifferentByte AlignedInside FreedExactly PoisonExact  TracesExact
PROPERTY WalkEnds
CHECK_DEADLOCK FALSE
