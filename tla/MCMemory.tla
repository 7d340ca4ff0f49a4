----------------------------- MODULE MCMemory -------------------------------
(***************************************************************************)
(* The commands about memory, for TLC: those that parse once and then add  *)
(* up (vmalloc, dmabuf with the scatterlist of one buffer and a session,   *)
(* buddy, cma, page_owner, meminfo, procrank, and the maps of memory that  *)
(* memblock, reserved and iomem show), and the two decoders of the pages   *)
(* in zram (lz4 and lzo).                                                  *)
(***************************************************************************)
EXTENDS PageOwner, Sequences, TLC

VARIABLES which

K(size, nr, type, caller, early, readable) ==
  [size |-> size, nr_pages |-> nr, lost |-> IF nr = 2 THEN {1} ELSE {}, type |-> type, caller |-> caller,
   early |-> early, readable |-> readable]

\* Areas with a guard page and without (VM_NO_GUARD), mapped I/O that has no
\* pages, early ones that are linked, and one that does not read; two pages of which one is
\* lost; arguments that are a caller and a part of two types.
V == INSTANCE Vmalloc WITH
  PageSize <- 4, MaxAreas <- 3, MaxVmCmds <- 2,
  Within <- {<<"f", "f">>, <<"vm", "vmalloc">>, <<"vm", "vmap">>},
  VmKinds <- {K(8, 1, "vmalloc", "f", FALSE, TRUE), K(12, 2, "vmap", "f", FALSE, TRUE),
              K(8, 0, "ioremap", "g", FALSE, TRUE), K(8, 0, "vmap", "g", TRUE, TRUE),
              K(4, 0, "vmap", "g", TRUE, TRUE),
              K(8, 1, "vmalloc", "g", FALSE, FALSE), K(4, 1, "vmap", "g", FALSE, TRUE)}

\* Tables of up to four chunks of three entries.
\* A size that is no int; a buffer open twice, behind another file.
\* Pools whose amounts do not fit an int or are negative.
D == INSTANCE Dmabuf WITH
  ChunkSize <- 3, MaxEntries <- 8,
  MaxBufs <- 2, HeapNames <- {"system", "secure"}, BufSizes <- {1, 5}, IntMax <- 4, SizeMod <- 64,
  Tables <- {<<0, 1>>, <<2, 0, 2, 1>>}, MaxDmaCmds <- 2,
  PoolCnt <- 3, SecureCnt <- 2, SystemHeaps <- {<<TRUE>>, <<FALSE, TRUE>>, <<TRUE, TRUE>>}, PageBytes <- 1,
  Pools <- {[kv |-> v, read |-> r, order |-> o, high |-> h, low |-> 1, count |-> h] :
              <<v, r>> \in {<<TRUE, TRUE>>, <<TRUE, FALSE>>, <<FALSE, FALSE>>}, o \in {0, 1, 3}, h \in {-1, 1, 4}}

\* Bytes of two bits; bitmaps that end in the middle of one; an amount of 8 is
\* no int.
B == INSTANCE FreeMemory WITH
  Orders <- 2, Types <- 2, MaxFree <- 2, MaxBuddyCmds <- 2,
  ByteBits <- 2, MaxBits <- 4, CmaOrders <- {0, 1}, IntMax <- 8, LongMod <- 64, MaxCmaCmds <- 2

\* Three blocks of up to four pages, split, freed and handed out again.
MCCallers == {<<1, 1>>, <<1, 0>>, <<0, 1>>}

MemNames == <<"FILE_PAGES", "ACTIVE_FILE", "INACTIVE_FILE", "SWAPCACHE", "SLAB", "MISC">>
Indices(n) == [name \in {MemNames[i] : i \in 1..n} |-> (CHOOSE i \in 1..n : MemNames[i] = name) - 1]
Amount(free, reserve, low, block, huge) ==
  [free |-> free, reserve |-> reserve, zones |-> <<[low |-> low, boost |-> 0], [low |-> 0, boost |-> 1]>>,
   inodes |-> <<1, block>>, total |-> 60, ratio |-> 50, huge |-> huge, swap |-> 4, used |-> 10,
   swapfiles |-> <<[used |-> TRUE, writeok |-> TRUE, inuse |-> 2], [used |-> TRUE, writeok |-> FALSE, inuse |-> 1]>>]

\* Kernels with and without the last counter, counters below 0, reserves and watermarks
\* above and below what is free, amounts of one byte.
I == INSTANCE Meminfo WITH
  NodeItems <- {MemNames[i] : i \in 1..6}, EnumOf <- {Indices(6), Indices(5)},
  NodeStats <- {<<12, 4, 3, 2, 5, -1>>, <<3, 1, 0, 2, 1, 1>>}, EventStats <- {<<2, 3>>, <<-1, 4>>},
  Amounts <- {Amount(f, r, w, 3, h) : f \in {5, 20}, r \in {2, 25}, w \in {0, 8}, h \in {0, 3}},
  Reserved <- {<<[size |-> 4, name |-> "a"], [size |-> 2, name |-> "b"]>>}, NoMapNodes <- ("a" :> 1),
  Word <- 256, MaxMemCmds <- 2

Pte(map, count) == [map |-> map, count |-> count]
Shared(count) == <<Pte("present", count), Pte("swap", 0)>>
Own == <<Pte("none", 0), Pte("present", 1), Pte("present", 2)>>

\* Three processes with pages mapped by 0 to 3, in swap and by none.
P == INSTANCE Procrank WITH
  ProcSets <- {<<[tc |-> t, args |-> a, vmas |-> <<Shared(c)>>], [tc |-> "b", args |-> "b", vmas |-> <<Own, Shared(3)>>],
                 [tc |-> "c", args |-> "", vmas |-> v]>> : t \in {"", "a"}, a \in {"", "x"}, c \in 0..3, v \in {<<>>, <<Own>>}},
  PageSize <- 4, MaxRankCmds <- 3

Region(read, base, flags) == [read |-> read, base |-> base, flags |-> flags]
Type(read, cnt, regions) == [read |-> read, cnt |-> cnt, regions |-> regions]
Rmem(base, size, name) == [read |-> TRUE, base |-> base, size |-> size, name |-> name]
Resource(read, sibling, child) == [read |-> read, sibling |-> sibling, child |-> child]

\* Two types of two regions; five reserved regions, one without an address and one
\* without a size; five resources on two levels.
A == INSTANCE MemoryMap WITH
  MaxMapCmds <- 2,
  Memblocks <- {[found |-> TRUE, types |-> <<Type(TRUE, 2, <<Region(TRUE, 1, 0), Region(TRUE, 3, 4)>>),
                                             Type(r, 2, <<Region(TRUE, 1, 0), Region(q, 5, g)>>)>>] : r \in BOOLEAN, q \in BOOLEAN, g \in {2, 8}}
               \cup {[found |-> FALSE, types |-> <<Type(FALSE, 0, <<>>), Type(FALSE, 0, <<>>)>>]},
  ReservedMems <- {<<Rmem(9, 2, "a"), Rmem(4, 3, "b"), Rmem(b, 1, "c"), Rmem(6, s, "d"), Rmem(7, 5, "none")>> : b \in {0, 1}, s \in {0, 4}},
  NodesNamed <- ("a" :> <<{"no-map"}>>) @@ ("b" :> <<{"no-map"}, {"reusable", "no-map"}>>) @@ ("c" :> <<{}>>)
                @@ ("d" :> <<{"reusable"}>>) @@ ("none" :> <<>>),
  Resources <- {<<Resource(TRUE, 0, 2), Resource(TRUE, 3, 4), Resource(r, 5, 0), Resource(q, 0, 0), Resource(TRUE, 0, 0)>> :
                  r \in BOOLEAN, q \in BOOLEAN}

Lits(n) == [i \in 1..n |-> i % 256]
Sequence(n, off, mlen) == [lits |-> Lits(n), off |-> off, mlen |-> mlen]

\* Blocks an encoder writes: matches that overlap themselves, lengths of one and of
\* several bytes, with buffers that are large enough and that are not.
L == INSTANCE Lz4Block WITH
  BadBytes <- {}, Capacities <- {0, 64, 330},
  Blocks <- {<<Sequence(n, o, m), Sequence(0, p, 5), Sequence(8, 0, 0)>> : n \in {9, 16}, o \in 1..9, m \in {4, 9, 30}, p \in {8, 10}}
            \cup {<<Sequence(9, 9, 30), Sequence(5, 0, 0)>>, <<Sequence(0, 0, 0)>>, <<Sequence(20, 0, 0)>>,
                  <<Sequence(1, 1, 300), Sequence(12, 0, 0)>>}
\* Blocks that are cut, or with a byte replaced.
LDamaged == INSTANCE Lz4Block WITH
  Blocks <- {<<Sequence(n, 7, m), Sequence(5, 0, 0)>> : n \in {9, 16}, m \in {4, 30}},
  BadBytes <- {0, 9, 15, 160, 255}, Capacities <- {20, 40, 64}

Lzo(op, dist, len, n) == [op |-> op, dist |-> dist, len |-> len, lits |-> Lits(n)]
Encodable(z) ==
  /\ z.op = "three" => z.len = 3 /\ z.dist > 8
  /\ z.op = "short" => z.len <= 8
  /\ z.op = "far" => z.dist \in 5..11
  /\ z.op = "zeroes" => z.len > 3

\* Programs with every instruction; distances and lengths on both sides of each limit.
Z == INSTANCE LzoBlock WITH
  Damage <- {}, Sizes <- {20, 400}, M2_MAX_OFFSET <- 8, Far <- 4, MAX_255_COUNT <- 2,
  Programs <- {<<Lzo("lits", 0, 0, n), z>> : n \in {12, 19, 280},
                 z \in {y \in {Lzo(o, d, l, m) : o \in {"short", "mid", "far", "zeroes", "three"}, d \in {12, 9, 1}, l \in {3, 8, 40}, m \in {0, 2}} : Encodable(y)}}
              \cup {<<Lzo("first", 0, 0, n), Lzo("two", d, 2, 2), Lzo("short", 1, 4, 0), Lzo("lits", 0, 0, 5)>> : n \in {2, 3}, d \in {1, 2}}
              \cup {<<Lzo("first", 0, 0, 6), Lzo("short", 6, 3, 0)>>}
ZDamaged == INSTANCE LzoBlock WITH
  Damage <- {0, 17, 24, 32, 255}, Sizes <- {20, 40}, M2_MAX_OFFSET <- 8, Far <- 4, MAX_255_COUNT <- 2,
  Programs <- {<<Lzo("lits", 0, 0, 12), Lzo(o, 9, IF o = "zeroes" THEN 4 ELSE 3, 1), Lzo("two", 1, 2, 0)>> :
                 o \in {"short", "mid", "far", "zeroes", "three"}}

\* The blocks are written with bytes.
ASSUME BlockConstants ==
  /\ L!Lz4Assumption /\ LDamaged!Lz4Assumption
  /\ Z!LzoAssumption /\ ZDamaged!LzoAssumption

MCInit ==
  \/ which = "vmalloc" /\ V!Init
  \/ which = "sg" /\ D!InitSg
  \/ which = "dmabuf" /\ D!InitDma
  \/ which = "pools" /\ D!InitPool
  \/ which = "buddy" /\ B!InitBuddy
  \/ which = "cma" /\ B!InitCma
  \/ which = "page_owner" /\ InitOwner
  \/ which = "meminfo" /\ I!Init
  \/ which = "procrank" /\ P!Init
  \/ which = "maps" /\ A!Init
  \/ which = "lz4" /\ (L!Init \/ LDamaged!Init)
  \/ which = "lzo" /\ (Z!Init \/ ZDamaged!Init)

MCNext ==
  /\ \/ which = "vmalloc" /\ V!Next
     \/ which = "sg" /\ D!NextSg
     \/ which = "dmabuf" /\ D!NextDma
     \/ which = "pools" /\ D!NextPool
     \/ which = "buddy" /\ B!NextBuddy
     \/ which = "cma" /\ B!NextCma
     \/ which = "page_owner" /\ NextOwner
     \/ which = "meminfo" /\ I!Next
     \/ which = "procrank" /\ P!Next
     \/ which = "maps" /\ A!Next
     \/ which = "lz4" /\ L!Next
     \/ which = "lzo" /\ Z!Next
  /\ UNCHANGED which

vars == <<which, dump, pc, pos, out>>

MCSpec == MCInit /\ [][MCNext]_vars /\ WF_vars(MCNext)

-----------------------------------------------------------------------------

\* vmalloc counts an area once, and a vm_struct unless early pages lead to it, and
\* its totals agree with each other and with meminfo; the pages it shows are those of the
\* vm_structs it shows.
VmallocExact == which = "vmalloc" => V!VmOnce /\ V!VmTotalsAgree /\ V!VmPagesOwn

\* The data of a dma-buf is listed in order, a chained scatterlist loses as many
\* entries as it has links, and over a session a dma-buf is counted once, in its own
\* heap and under its own descriptor, with the kernel's totals by list, heap and process.
\* dmabuf -s shows every pool of a plain array once, no pool outside the secure table,
\* and the kernel's amounts while they fit.
DmaExact ==
  /\ which = "sg" => D!SgInOrder /\ D!SgMissesLinks
  /\ which = "dmabuf" => D!DmaCountedOnce /\ D!DmaFdIsBuffers /\ D!DmaTotals
  /\ which = "pools" => D!PoolsInOrder /\ D!SecureInside /\ D!PoolAmountsRight

\* The table of buddy adds up to the free memory of the zone, and buddy -z shows the
\* blocks under their order; cma lists the pages in use and the free ones, and its
\* amounts are the kernel's.
FreeMemoryExact ==
  /\ which = "buddy" => B!BuddyTable /\ B!BuddyOrders
  /\ which = "cma" => B!CmaPages /\ B!CmaAmounts

\* The amounts of meminfo are those of the kernel's counters of the same name and add
\* up; procrank's are nested, and its totals those of the command; memblock, reserved
\* and iomem show each region under its own type and size.
AmountsExact ==
  /\ which = "meminfo" => I!CountersExact /\ I!AvailableRight /\ I!BreakdownAddsUp /\ I!UndefinedOnlyWhen /\ I!EventsExact
  /\ which = "procrank" => P!RankRowsExact /\ P!AmountsNested /\ P!TotalsOfThisCommand
  /\ which = "maps" => A!MemblockExact /\ A!ReservedExact /\ A!IoMemExact

\* The lz4 and lzo decoders return the page that was encoded.
PagesDecoded ==
  /\ which = "lz4" => L!Lz4Exact
  /\ which = "lzo" => Z!LzoExact

\* On an intact and on a damaged block alike the decoders write nothing outside the page
\* and read nothing outside the block, with every byte their wide copies move.
DecodedInside ==
  /\ which = "lz4" => L!DecodedInside
  /\ which = "lzo" => Z!DecodedInside

\* Every command ends: vmalloc if the vm_structs can be read, the others always; so do
\* the decoders, on every block.
CommandsEnd ==
  <>[](\/ pc \in {"prompt", "page_owner", "kernel", "done", "undefined"}
       \/ which = "vmalloc" /\ ~V!AllReadable
       \/ which = "page_owner" /\ pc = "crash" /\ dump.bad # {})

=============================================================================
