---------------------------- MODULE SlubObjects -----------------------------
(***************************************************************************)
(* The objects of a slab (memory/slub.cpp): how a region of bytes is       *)
(* searched (memchr_inv), which objects are free (Freelist), and whether   *)
(* their bytes are intact (Poison).  The three are state machines of their *)
(* own; the last two share their variables.                                *)
(***************************************************************************)
EXTENDS Integers, Sequences, FiniteSets

-----------------------------------------------------------------------------
(***************************************************************************)
(* Slub::memchr_inv (memory/slub.cpp): find the first byte of a region of  *)
(* the dump that is not c, with a byte-wise prefix up to a word boundary,  *)
(* whole words, and a byte-wise rest.                                      *)
(*                                                                         *)
(* The dump is the set of addresses whose byte is not c.  value64 is c in  *)
(* every byte on each of the three ways the code computes it, so a word    *)
(* differs from it exactly when one of its bytes differs from c.           *)
(***************************************************************************)

CONSTANTS
  Word,       \* bytes of a word (8)
  Short,      \* regions up to this length are checked byte by byte (16)
  Addresses,  \* the addresses regions may start at
  MaxBytes    \* bound on the length of a region

ASSUME WordAssumption ==
  /\ Word \in Nat \ {0}
  /\ Short \in Nat /\ Short >= Word
  /\ Addresses \subseteq Nat \ {0}
  /\ MaxBytes \in Nat

VARIABLES
  bad,             \* the dump: the addresses whose byte is not c
  region,          \* the arguments: <<start_addr, bytes>>
  start_addr, bytes, words,
  pc,
  ret

args == <<bad, region>>
memchr == <<args, start_addr, bytes, words, pc, ret>>

Span(a, n) == a..(a + n - 1)

\* check_bytes8: the first differing byte, 0 when there is none.
CheckBytes8(a, n) ==
  IF bad \cap Span(a, n) = {} THEN 0
  ELSE CHOOSE x \in bad \cap Span(a, n) : \A y \in bad \cap Span(a, n) : x <= y

InitMemchr ==
  /\ region \in Addresses \X (0..MaxBytes)
  /\ bad \in SUBSET Span(region[1] - 1, region[2] + 2)
  /\ start_addr = region[1]
  /\ bytes = region[2]
  /\ words = 0
  /\ pc = "start"
  /\ ret = 0

Return(r) ==
  /\ ret' = r
  /\ pc' = "returned"

\* bytes <= 16
Small ==
  /\ pc = "start"
  /\ bytes <= Short
  /\ Return(CheckBytes8(start_addr, bytes))
  /\ UNCHANGED <<args, start_addr, bytes, words>>

\* A mutant: the length is not shortened by the prefix.
PrefixKeepsBytes ==
  LET mod == start_addr % Word
      prefix == IF mod = 0 THEN 0 ELSE Word - mod
      r == CheckBytes8(start_addr, prefix)
  IN
  /\ pc = "start"
  /\ bytes > Short
  /\ IF r # 0
     THEN Return(r) /\ UNCHANGED <<start_addr, bytes, words>>
     ELSE /\ start_addr' = start_addr + prefix
          /\ words' = bytes \div Word
          /\ pc' = "words"
          /\ UNCHANGED <<bytes, ret>>
  /\ UNCHANGED args

\* The bytes before the first word boundary, then the number of whole words.
Prefix ==
  LET mod == start_addr % Word
      prefix == IF mod = 0 THEN 0 ELSE Word - mod
      r == CheckBytes8(start_addr, prefix)
  IN
  /\ pc = "start"
  /\ bytes > Short
  /\ IF r # 0
     THEN Return(r) /\ UNCHANGED <<start_addr, bytes, words>>
     ELSE /\ start_addr' = start_addr + prefix
          /\ bytes' = bytes - prefix
          /\ words' = (bytes - prefix) \div Word
          /\ pc' = "words"
          /\ UNCHANGED ret
  /\ UNCHANGED args

\* One turn of while (words).
Words ==
  /\ pc = "words"
  /\ words > 0
  /\ IF bad \cap Span(start_addr, Word) # {}
     THEN Return(CheckBytes8(start_addr, Word)) /\ UNCHANGED <<start_addr, words>>
     ELSE /\ start_addr' = start_addr + Word
          /\ words' = words - 1
          /\ UNCHANGED <<pc, ret>>
  /\ UNCHANGED <<args, bytes>>

\* A mutant: the bytes behind the last word are forgotten.
RestForgotten ==
  /\ pc = "words"
  /\ words = 0
  /\ Return(0)
  /\ UNCHANGED <<args, start_addr, bytes, words>>

\* The bytes behind the last whole word.
Rest ==
  /\ pc = "words"
  /\ words = 0
  /\ Return(CheckBytes8(start_addr, bytes % Word))
  /\ UNCHANGED <<args, start_addr, bytes, words>>

NextMemchr == Small \/ Prefix \/ Words \/ Rest

SpecMemchr == InitMemchr /\ [][NextMemchr]_memchr /\ WF_memchr(NextMemchr)

-----------------------------------------------------------------------------

\* The comment of memchr_inv: it returns the address of the first byte that is
\* not equal to c, and 0 if all bytes are equal to c.
FirstDifferentByte ==
  pc = "returned" =>
    IF bad \cap Span(region[1], region[2]) = {}
    THEN ret = 0
    ELSE /\ ret \in bad \cap Span(region[1], region[2])
         /\ \A x \in bad \cap Span(region[1], region[2]) : ret <= x

\* Word reads are aligned and stay inside the region.
AlignedInside ==
  pc = "words" /\ words > 0 =>
    /\ start_addr % Word = 0
    /\ start_addr >= region[1]
    /\ start_addr + Word <= region[1] + region[2]

-----------------------------------------------------------------------------

CONSTANTS   \* Freelist
  AddrMod,       \* 2^64: the values of an unsigned long
  IndexMod,      \* 2^32: the values of an unsigned int
  size,          \* kmem_cache.size, the distance of two objects
  red_left_pad,  \* the distance of the pointed-to byte from the object's start
  slab_vaddr,    \* the first byte of the slab
  Pointers,      \* the values a free pointer has in the dump; 0 is the null pointer
  KernelStart,   \* addresses from here on are kernel addresses
  MaxObj         \* bound on the objects of a slab

CONSTANTS   \* Poison
  PtrSize, TrackSize, UintSize,   \* sizeof(void *), struct track, unsigned int
  MaxObjectSize,                  \* bound on object_size
  NCache, NObj,                   \* the caches, and the objects of each
  NDefect                         \* bound on the defects of a dump

VARIABLES dump, pos, out
slub == <<dump, pc, pos, out>>

-----------------------------------------------------------------------------
(***************************************************************************)
(* Slub::parser_slab (memory/slub.cpp): which objects of a slab are free.  *)
(*                                                                         *)
(* The walk follows the free pointers of a dump that may be corrupt: the   *)
(* list may leave the slab, point into the middle of an object, or be      *)
(* circular.  obj_index is an unsigned int, so the index of a pointer far  *)
(* from the slab is taken modulo IndexMod, and the distance of a pointer   *)
(* below the slab modulo AddrMod.                                          *)
(***************************************************************************)

\* dump: totalobj, freelist and the free pointers
\* pos: the walk: fobj and obj_free, the marked indices
\* out: obj_list, the objects listed, <<index, is_free>>

totalobj == dump.totalobj
fobj == pos.fobj
obj_free == pos.obj_free

IsKvaddr(a) == a >= KernelStart

Index(a) == (((a - slab_vaddr) % AddrMod) \div size) % IndexMod

InitFreelist ==
  /\ dump \in [totalobj: 0..MaxObj, freelist: Pointers,
               freeptr: [{a \in Pointers : IsKvaddr(a)} -> Pointers]]
  /\ pc = "walk"
  /\ pos = [fobj |-> dump.freelist, obj_free |-> {}]
  /\ out = <<>>

\* A mutant: circular lists are not looked for.
MarkFreeNoCycle ==
  /\ pc = "walk"
  /\ IsKvaddr(fobj)
  /\ Index(fobj) < totalobj
  /\ pos' = [fobj |-> dump.freeptr[fobj], obj_free |-> obj_free \cup {Index(fobj)}]
  /\ UNCHANGED <<dump, pc, out>>

\* A mutant: the index is off by the left red zone.
MarkFreeNextObject ==
  LET obj_index == Index(fobj + red_left_pad * size) IN
  /\ pc = "walk"
  /\ IsKvaddr(fobj)
  /\ obj_index < totalobj
  /\ obj_index \notin obj_free
  /\ pos' = [fobj |-> dump.freeptr[fobj], obj_free |-> obj_free \cup {obj_index}]
  /\ UNCHANGED <<dump, pc, out>>

\* One turn of while (is_kvaddr(fobj)) that marks an object.
MarkFree ==
  /\ pc = "walk"
  /\ IsKvaddr(fobj)
  /\ Index(fobj) < totalobj
  /\ Index(fobj) \notin obj_free
  /\ pos' = [fobj |-> dump.freeptr[fobj], obj_free |-> obj_free \cup {Index(fobj)}]
  /\ UNCHANGED <<dump, pc, out>>

\* "Invalid obj_index": outside the slab, or marked before.
InvalidIndex ==
  /\ pc = "walk"
  /\ IsKvaddr(fobj)
  /\ Index(fobj) >= totalobj \/ Index(fobj) \in obj_free
  /\ pc' = "list"
  /\ UNCHANGED <<dump, pos, out>>

EndOfList ==
  /\ pc = "walk"
  /\ ~IsKvaddr(fobj)
  /\ pc' = "list"
  /\ UNCHANGED <<dump, pos, out>>

\* The objects in address order; their index starts at 1.
ListObjects ==
  /\ pc = "list"
  /\ out' = [i \in 1..totalobj |-> <<i, (i - 1) \in obj_free>>]
  /\ pc' = "listed"
  /\ UNCHANGED <<dump, pos>>

NextFreelist == MarkFree \/ InvalidIndex \/ EndOfList \/ ListObjects

SpecFreelist == InitFreelist /\ [][NextFreelist]_slub /\ WF_slub(NextFreelist)

-----------------------------------------------------------------------------

\* A slab is at kernel addresses, ends below the last one, and has fewer objects
\* than an unsigned int has values.
SlabAssumption ==
  /\ {AddrMod, IndexMod, size} \subseteq Nat \ {0}
  /\ {slab_vaddr, KernelStart, MaxObj} \subseteq Nat
  /\ Pointers \subseteq Nat
  /\ KernelStart <= slab_vaddr
  /\ slab_vaddr + MaxObj * size <= AddrMod
  /\ MaxObj <= IndexMod

\* The object a pointer into the slab belongs to.
InSlab(a) == a \in slab_vaddr..(slab_vaddr + totalobj * size - 1)
ObjectAt(a) == CHOOSE i \in 0..(totalobj - 1) :
                 a \in (slab_vaddr + i * size)..(slab_vaddr + (i + 1) * size - 1)

\* p holds the first n pointers of the free list, which are to n different objects
\* of the slab, and the pointer behind them.
Proper(n, p) ==
  /\ p[0] = dump.freelist
  /\ \A k \in 0..(n - 1) : InSlab(p[k]) /\ p[k + 1] = dump.freeptr[p[k]]
  /\ \A j, k \in 0..(n - 1) : j # k => ObjectAt(p[j]) # ObjectAt(p[k])

\* The pointer behind them is to no further object.
Ends(n, p) == InSlab(p[n]) => \E k \in 0..(n - 1) : ObjectAt(p[k]) = ObjectAt(p[n])

\* Pointers so far away that their index wraps into the slab.
Aliases(a) == IsKvaddr(a) /\ ~InSlab(a) /\ Index(a) < totalobj

\* When the walk is over and met no wrapping pointer, parser_slab lists every
\* object of the slab once, and as freed exactly those of the longest proper
\* initial part of the free list, however the rest of the list is corrupt.
FreedExactly ==
  pc = "listed" =>
    \E n \in 0..totalobj : \E p \in [0..n -> Pointers] :
      /\ Proper(n, p) /\ Ends(n, p)
      /\ ~Aliases(p[n]) =>
           /\ Len(out) = totalobj
           /\ \A i \in 1..totalobj : out[i] = <<i, i - 1 \in {ObjectAt(p[k]) : k \in 0..(n - 1)}>>

\* The walk marks a new object in every turn, so it ends on every dump, circular
\* lists and wrapping pointers included.
WalkEnds == <>(pc \notin {"walk", "list"})

-----------------------------------------------------------------------------
(***************************************************************************)
(* slub -p and slub -P (memory/slub.cpp): check_object looks at the red    *)
(* zones, the poison, the padding and the free pointer of every object,    *)
(* print_slub_poison gives a verdict per cache.                            *)
(*                                                                         *)
(* A slot of a slab is the bytes 0..size-1.  The dump says which bytes do  *)
(* not have the value that is looked for there (memchr_inv finds the first *)
(* of them, see FirstDifferentByte) and which free pointers are not to an  *)
(* object of the slab.  The layout of the slot is the kernel's.            *)
(***************************************************************************)

\* dump: the caches' layout; per object its state, its defects and its kmalloc size
\* pos: print_slub_poison and check_object_poison: cache c, object o and ret
\* out: the verdicts, <<cache, ret>>

cache == dump.cache          \* the fields of the caches' struct kmem_cache
orig_size == dump.orig_size  \* the size asked of kmalloc
cachep == pos.c
object == pos.o

RED_ZONE == "SLAB_RED_ZONE"
POISON == "SLAB_POISON"
OBJECT_POISON == "OBJECT_POISON"
STORE_USER == "SLAB_STORE_USER"
KMALLOC == "SLAB_KMALLOC"
Flag == {RED_ZONE, POISON, OBJECT_POISON, STORE_USER, KMALLOC}

Align(n) == ((n + PtrSize - 1) \div PtrSize) * PtrSize
If(b, n) == IF b THEN n ELSE 0

\* The layout the kernel chooses for a cache with these flags.
KernelLayout(flags, object_size) ==
  LET red == RED_ZONE \in flags
      inuse == Align(object_size) + If(red /\ Align(object_size) = object_size, PtrSize)
      outside == POISON \in flags \/ red
      user == STORE_USER \in flags
      tail == inuse + If(outside, PtrSize) + If(user, 2 * TrackSize)
                    + If(user /\ KMALLOC \in flags, UintSize) + If(red, PtrSize)
  IN [flags |-> flags, object_size |-> object_size, inuse |-> inuse,
      offset |-> IF outside THEN inuse ELSE 0,
      red_left_pad |-> If(red, PtrSize),
      size |-> Align(tail + If(red, PtrSize))]

\* OBJECT_POISON is only set together with SLAB_POISON.
Layouts == {KernelLayout(f, n) : f \in {g \in SUBSET Flag : OBJECT_POISON \in g => POISON \in g},
                                 n \in 1..MaxObjectSize}

Objects == (1..NCache) \X (1..NObj)
Bytes(l) == 0..(l.size - 1)

\* A defect is a byte <<cache, obj, byte>> or the free pointer of <<cache, obj>>; <<>>
\* is none.
Defect(l) == {<<>>} \cup Objects \cup {<<x[1], x[2], b>> : x \in Objects, b \in Bytes(l)}
Bad(x, b) == <<x[1], x[2], b>> \in dump.defects
BadFreeptr(x) == x \in dump.defects
Free(x) == x \in dump.freed

InitPoison ==
  /\ \E l \in Layouts :
       dump \in [cache: {l}, freed: SUBSET Objects,
                orig_size: IF {STORE_USER, KMALLOC} \subseteq l.flags THEN 0..l.object_size ELSE {0},
                defects: {{f[i] : i \in 1..NDefect} : f \in [1..NDefect -> Defect(l)]},
                kmem_cache_addr: 0..NCache]
  /\ pc = "print_slub_poison"
  /\ pos = [c |-> 1, o |-> 1, ret |-> TRUE]
  /\ out = <<>>

Has(flag) == flag \in cache.flags
SlubDebugOrigSize == Has(STORE_USER) /\ Has(KMALLOC)
FreeptrOutsideObject == cache.offset >= cache.inuse
GetInfoEnd == cache.inuse + If(FreeptrOutsideObject, PtrSize)

\* The object's bytes are counted from the real object, behind the left red zone.
FixupRedLeft == If(Has(RED_ZONE), cache.red_left_pad)

SizeFromObject == cache.size - If(Has(RED_ZONE), cache.red_left_pad)

\* check_pad_bytes: where the padding starts.
PadStart ==
  GetInfoEnd + If(Has(STORE_USER), 2 * TrackSize + If(Has(KMALLOC), UintSize))

\* A region check_bytes_and_report looks at, relative to the real object.
Region(from, n) == {FixupRedLeft + from + i : i \in 0..(n - 1)}

\* The regions whose result counts for an allocated or a freed object.
Checked(free) ==
  (IF Has(RED_ZONE)
   THEN Region(-cache.red_left_pad, cache.red_left_pad)
        \cup Region(cache.object_size, cache.inuse - cache.object_size)
        \cup (IF SlubDebugOrigSize /\ ~free /\ cache.object_size > orig_size
              THEN Region(orig_size, cache.object_size - orig_size) ELSE {})
   ELSE {})
  \cup (IF Has(POISON) /\ free /\ Has(OBJECT_POISON)
        THEN Region(0, cache.object_size - 1) \cup Region(cache.object_size - 1, 1) ELSE {})
  \cup (IF Has(POISON) THEN Region(PadStart, SizeFromObject - PadStart) ELSE {})

\* The alignment padding is reported, but its result is dropped.
OnlyReported ==
  IF ~Has(RED_ZONE) /\ Has(POISON) /\ cache.object_size < cache.inuse
  THEN Region(cache.object_size, cache.inuse - cache.object_size) ELSE {}

\* A mutant: the free pointer is checked only when it is outside the object.
CheckObjectNoFreeptr(x) ==
  LET free == Free(x) IN
  /\ \A b \in Checked(free) : ~Bad(x, b)
  /\ FreeptrOutsideObject => ~BadFreeptr(x)

\* check_object.
CheckObject(x) ==
  LET free == Free(x) IN
  /\ \A b \in Checked(free) : ~Bad(x, b)
  /\ FreeptrOutsideObject \/ free => ~BadFreeptr(x)

\* print_slub_poison: one object of one of the caches asked for; behind the last
\* one the verdict of the cache.
NextObject ==
  LET asked == dump.kmem_cache_addr \in {0, cachep}
      r == pos.ret /\ CheckObject(<<cachep, object>>)
  IN
  /\ pc = "print_slub_poison"
  /\ cachep <= NCache
  /\ pos' = IF asked /\ object < NObj THEN [c |-> cachep, o |-> object + 1, ret |-> r]
            ELSE [c |-> cachep + 1, o |-> 1, ret |-> TRUE]
  /\ out' = IF asked /\ object = NObj THEN Append(out, <<cachep, r>>) ELSE out
  /\ UNCHANGED <<dump, pc>>

NextPoison == NextObject

SpecPoison == InitPoison /\ [][NextPoison]_slub /\ WF_slub(NextPoison)

-----------------------------------------------------------------------------

\* Pointers have a size, and a cache has objects.
PoisonAssumption ==
  /\ {PtrSize, NObj} \subseteq Nat \ {0}
  /\ {TrackSize, UintSize, MaxObjectSize, NCache, NDefect} \subseteq Nat

\* What the kernel keeps in byte b of a slot.
Holds(b) ==
  LET p == b - cache.red_left_pad
      tracks == cache.inuse + If(FreeptrOutsideObject, PtrSize)
      origsz == tracks + If(Has(STORE_USER), 2 * TrackSize)
      pad == origsz + If(Has(STORE_USER) /\ Has(KMALLOC), UintSize)
  IN CASE p < 0 -> "left red zone"
       [] p \in 0..(cache.object_size - 1) -> "object"
       [] p \in cache.object_size..(cache.inuse - 1) -> "right red zone"
       [] p \in cache.inuse..(tracks - 1) -> "free pointer"
       [] p \in tracks..(origsz - 1) -> "tracks"
       [] p \in origsz..(pad - 1) -> "orig_size"
       [] OTHER -> "padding"

\* The bytes whose value the kernel guarantees for an object of this state.
Guaranteed(b, free) ==
  \/ Has(RED_ZONE) /\ Holds(b) \in {"left red zone", "right red zone"}
  \/ Has(POISON) /\ Holds(b) = "padding"
  \/ Holds(b) = "object" /\ free /\ Has(POISON) /\ Has(OBJECT_POISON)
  \/ /\ Holds(b) = "object" /\ ~free /\ Has(RED_ZONE) /\ Has(STORE_USER) /\ Has(KMALLOC)
     /\ b - cache.red_left_pad >= orig_size

\* A check looks only at bytes of the slot itself, never at those of the next
\* object, and never at a free pointer, a track or a stored size.
ChecksInSlot ==
  \A free \in BOOLEAN :
    \A b \in Checked(free) \cup OnlyReported :
      b \in Bytes(cache) /\ Holds(b) \notin {"free pointer", "tracks", "orig_size"}

\* slub -p prints FAIL for exactly the caches that have an object with a wrong byte
\* where the kernel guarantees one, or a wrong free pointer that is in use; slub -P
\* prints it for the cache asked for, and one cache's damage is no other cache's.
VerdictExact ==
  \A i \in DOMAIN out :
    LET k == out[i][1] IN
    out[i][2] <=>
      \A n \in 1..NObj :
        LET free == Free(<<k, n>>) IN
        /\ \A b \in Bytes(cache) : Guaranteed(b, free) => ~Bad(<<k, n>>, b)
        /\ BadFreeptr(<<k, n>>) => ~free /\ ~FreeptrOutsideObject

\* When print_slub_poison is behind the last cache, every cache asked for has got
\* one verdict, and no other cache has.
AllJudged ==
  cachep > NCache =>
    \A k \in 1..NCache :
      Cardinality({i \in DOMAIN out : out[i][1] = k}) = If(dump.kmem_cache_addr \in {0, k}, 1)

\* The checks stay inside the slot and off the metadata, and every cache asked for gets
\* the verdict it deserves.
PoisonExact == pc = "print_slub_poison" => ChecksInSlot /\ VerdictExact /\ AllJudged

=============================================================================
