------------------------------- MODULE Dmabuf -------------------------------
(***************************************************************************)
(* dmabuf (memory/dmabuf): the scatterlist of a buffer (Sg), the lists of  *)
(* buffers, heaps and file descriptors over a session (Dma), and the page  *)
(* pools of the system heaps (Pool).  The three are state machines of      *)
(* their own over the same variables.                                      *)
(***************************************************************************)
EXTENDS Integers, Sequences, FiniteSets, SequencesExt, FiniteSetsExt

CONSTANTS   \* Sg
  ChunkSize,   \* SG_MAX_SINGLE_ALLOC, the entries of a chunk
  MaxEntries   \* bound on the buffer entries

CONSTANTS   \* Dma
  MaxBufs,     \* bound on the buffers of db_list
  HeapNames,   \* the heaps
  BufSizes,    \* dma_buf.size
  IntMax,      \* 2^31: the size is read as an int
  SizeMod,     \* 2^64: and widened to a size_t
  Tables,      \* descriptor tables: sequences of buffers, 0 for another file
  MaxDmaCmds   \* bound on the commands of a session

CONSTANTS   \* Pool
  PoolCnt, SecureCnt,  \* the pools of an array, and the rows of the secure ones
  SystemHeaps,         \* lists of heaps: is it a system heap?
  Pools,               \* the pool in the place that differs: [kv, read, order, high, low, count]
  PageBytes            \* page_size

VARIABLES dump, pc, pos, out
vars == <<dump, pc, pos, out>>

-----------------------------------------------------------------------------
(***************************************************************************)
(* The scatterlist of a dma-buf (memory/dmabuf/dmabuf.cpp, parser_sg_table *)
(* and save_dma_buf).  The kernel keeps it in chunks; the last entry of a  *)
(* chunk that is not the last one is no buffer entry but a link to the     *)
(* next chunk.                                                             *)
(***************************************************************************)

\* An entry lies at <<chunk, place>>.
NoAddr == <<0, 0>>
DataPerChunk == ChunkSize - 1    \* of a chunk with a link
\* sg_alloc_table: the last chunk has no link, and may be full.
Chunks(n) == IF n <= ChunkSize THEN 1 ELSE 1 + ((n - ChunkSize + DataPerChunk - 1) \div DataPerChunk)
\* The buffer entry kept at an address, 0 for a link or nothing.
DataAt(n, a) ==
  LET k == (a[1] - 1) * DataPerChunk + a[2]
  IN  IF a[1] <= Chunks(n) /\ k <= n /\ (a[2] <= DataPerChunk \/ a[1] = Chunks(n)) /\ a[2] <= ChunkSize
      THEN k ELSE 0
IsLink(n, a) == a[1] < Chunks(n) /\ a[2] = ChunkSize

Addresses == (1..MaxEntries) \X (1..(ChunkSize + 1))

\* n entries, of which nents are mapped; one entry may be unreadable, one may not
\* be set (page_link 0; that of the last one never is, it has the end mark).
InitSg ==
  /\ \E n \in 1..MaxEntries :
       dump \in [n : {n}, nents : 0..n, bad : {NoAddr} \cup Addresses, unset : 0..(n - 1)]
  /\ pc = "walk"
  /\ pos = [sgl |-> <<1, 1>>, cnt |-> dump.nents]
  /\ out = <<>>

-----------------------------------------------------------------------------

Readable(a) == a # dump.bad /\ (IsLink(dump.n, a) \/ DataAt(dump.n, a) # 0)

\* Mutant: a link is taken for an entry like any other.
SgNextPlain(a) == IF DataAt(dump.n, a) = dump.n THEN NoAddr ELSE <<a[1], a[2] + 1>>

\* sg_next
SgNext(a) ==
  IF DataAt(dump.n, a) = dump.n THEN NoAddr
  ELSE IF IsLink(dump.n, a) THEN <<a[1] + 1, 1>>
  ELSE <<a[1], a[2] + 1>>

\* One turn of the loop of parser_sg_table.  An entry that cannot be read is read
\* again until the count is used up.
ParserSgTable ==
  /\ pc = "walk"
  /\ IF pos.sgl = NoAddr \/ pos.cnt = 0
     THEN pc' = "done" /\ UNCHANGED <<pos, out>>
     ELSE IF ~Readable(pos.sgl)
     THEN pos' = [pos EXCEPT !.cnt = @ - 1] /\ UNCHANGED <<pc, out>>
     ELSE IF DataAt(dump.n, pos.sgl) = dump.unset /\ dump.unset # 0
     THEN pc' = "done" /\ UNCHANGED <<pos, out>>
     ELSE /\ out' = Append(out, pos.sgl)
          /\ pos' = [sgl |-> SgNext(pos.sgl), cnt |-> pos.cnt - 1]
          /\ UNCHANGED pc
  /\ UNCHANGED dump

NextSg == ParserSgTable

SpecSg == InitSg /\ [][NextSg]_vars /\ WF_vars(NextSg)

-----------------------------------------------------------------------------

\* What print_sg_table shows and save_dma_buf writes, a link being an entry of
\* length 0.
Data == SelectSeq([i \in DOMAIN out |-> DataAt(dump.n, out[i])], LAMBDA k : k # 0)
\* Every ChunkSize-th place is a link, up to the last chunk.
LinksPassed == Min({dump.nents \div ChunkSize, Chunks(dump.n) - 1})

\* The data of the buffer is never out of order, repeated or with a gap, whatever
\* entry is broken and however many chunks there are.
SgInOrder == Data = [k \in 1..Len(Data) |-> k] /\ Len(out) <= dump.nents

\* If every entry is good, the walk lists nents entries; it misses as many at the
\* end as there are links on the way, none in a table of one chunk.
SgMissesLinks ==
  pc = "done" /\ dump.bad = NoAddr /\ dump.unset = 0 => Len(Data) = dump.nents - LinksPassed

-----------------------------------------------------------------------------
(***************************************************************************)
(* The command dmabuf (memory/dmabuf): the first command collects the file *)
(* descriptors of every process, then the buffers, then the heaps, and     *)
(* keeps all three for the session.  dmabuf_ptr is set before its lists    *)
(* are filled and never filled again; so is heap_ptr of a DmaHeap, while   *)
(* an IonHeap fills its list in the constructor.                           *)
(***************************************************************************)

NoHeap == "none"
Procs == <<"p1", "p2">>

\* fds: the descriptor tables; buf_broken: the buffer whose attachment list makes
\* for_each_list give up (0: none); heaps: "dma", "ion" or neither.
InitDma ==
  /\ \E n \in 1..MaxBufs :
       dump \in [bufs : [1..n -> [size : BufSizes, heap : HeapNames \cup {NoHeap}]],
                 unread : SUBSET HeapNames,
                 fds : [1..Len(Procs) -> Tables],
                 buf_broken : 0..n, heaps : {"dma", "ion"}, interrupts : BOOLEAN]
  /\ pc = "prompt"
  /\ pos = [dmabuf_ptr |-> FALSE, proc_list |-> <<>>, buf_list |-> <<>>,
            heap_ptr |-> FALSE, heap_list |-> <<>>, proc |-> 1, buf |-> 1, heap |-> 1, cmds |-> 0]
  /\ out = [op |-> "none"]

HeapSeq == SetToSeq(HeapNames)
Bufs == 1..Len(dump.bufs)

-----------------------------------------------------------------------------

AfterBufs == IF pos.heap_ptr THEN "print" ELSE "heaps"

CmdMain ==
  /\ pc = "prompt"
  /\ pos.cmds < MaxDmaCmds
  /\ pc' = IF pos.dmabuf_ptr THEN AfterBufs ELSE "procs"
  /\ pos' = [pos EXCEPT !.cmds = @ + 1, !.dmabuf_ptr = TRUE, !.heap = 1,
                        !.heap_ptr = @ \/ (pos.dmabuf_ptr /\ dump.heaps = "dma")]
  /\ out' = [op |-> "none"]
  /\ UNCHANGED dump

\* fd_map of a process; the last descriptor of a buffer wins.
FdMap(fds) == [b \in ToSet(fds) \ {0} |-> Max({i \in DOMAIN fds : fds[i] = b}) - 1]

\* One process of get_dmabuf_from_proc.
GetProc ==
  /\ pc = "procs"
  /\ IF pos.proc > Len(Procs)
     THEN pc' = "bufs" /\ UNCHANGED pos
     ELSE /\ pos' = [pos EXCEPT !.proc = @ + 1,
                       !.proc_list = IF DOMAIN FdMap(dump.fds[pos.proc]) = {} THEN @
                                     ELSE Append(@, [proc |-> pos.proc, fd_map |-> FdMap(dump.fds[pos.proc])])]
          /\ UNCHANGED pc
  /\ UNCHANGED <<dump, out>>

\* INT(dmabuf + size)
ReadSize(b) ==
  LET s == dump.bufs[b].size % (2 * IntMax) IN IF s < IntMax THEN s ELSE SizeMod - 2 * IntMax + s

\* get_proc_info: the processes that have the buffer open.
HoldersOf(b) == SelectSeq(pos.proc_list, LAMBDA p : b \in DOMAIN p.fd_map)

\* One buffer of parser_dma_bufs.
ParseBuf ==
  /\ pc = "bufs"
  /\ \/ /\ pos.buf \in Bufs \ {dump.buf_broken}
        /\ pos' = [pos EXCEPT !.buf = @ + 1,
                     !.buf_list = Append(@, [buf |-> pos.buf, size |-> ReadSize(pos.buf),
                                             procs |-> HoldersOf(pos.buf)])]
        /\ UNCHANGED pc
     \/ /\ pos.buf \in Bufs \cap {dump.buf_broken}     \* error(FATAL)
        /\ pc' = "prompt"
        /\ UNCHANGED pos
     \/ /\ pos.buf \notin Bufs
        /\ pc' = AfterBufs
        /\ pos' = [pos EXCEPT !.heap_ptr = @ \/ dump.heaps = "dma"]
  /\ UNCHANGED <<dump, out>>

BufsOf(h) == SelectSeq(pos.buf_list, LAMBDA b : dump.bufs[b.buf].heap = h)

\* One heap of parser_heaps; a heap that cannot be read is left out by DmaHeap and
\* ends the list of IonHeap.
ParseHeap ==
  /\ pc = "heaps"
  /\ \/ /\ pos.heap \in DOMAIN HeapSeq
        /\ LET h == HeapSeq[pos.heap]
           IN  \/ /\ h \in HeapNames \ dump.unread
                  /\ pos' = [pos EXCEPT !.heap = @ + 1,
                                        !.heap_list = Append(@, [heap |-> h, bufs |-> BufsOf(h)])]
                  /\ UNCHANGED pc
               \/ /\ h \in dump.unread
                  /\ pos' = [pos EXCEPT !.heap = @ + 1, !.heap_ptr = TRUE]
                  /\ pc' = IF dump.heaps = "ion" THEN "print" ELSE "heaps"
     \/ /\ pos.heap \notin DOMAIN HeapSeq
        /\ pos' = [pos EXCEPT !.heap_ptr = TRUE]
        /\ pc' = "print"
  /\ UNCHANGED <<dump, out>>

SizeSum(bs) == FoldLeft(LAMBDA n, b : (n + b.size) % SizeMod, 0, bs)

\* print_dma_buf_list: the sort stays in buf_list.
PrintBufs ==
  /\ pc = "print"
  /\ LET sorted == SortSeq(pos.buf_list, LAMBDA a, b : a.size > b.size)
     IN  /\ out' = [op |-> "b", bufs |-> sorted, total |-> SizeSum(sorted)]
         /\ pos' = [pos EXCEPT !.buf_list = sorted]
  /\ pc' = "prompt"
  /\ UNCHANGED dump

\* DmaHeap::print_heaps and, of both, print_heap
PrintHeaps ==
  /\ pc = "print"
  /\ out' = [op |-> "h", rows |-> [i \in DOMAIN pos.heap_list |->
               [heap |-> pos.heap_list[i].heap, bufs |-> pos.heap_list[i].bufs,
                total |-> SizeSum(pos.heap_list[i].bufs)]]]
  /\ pc' = "prompt"
  /\ UNCHANGED <<dump, pos>>

\* Mutant: a buffer counts for every descriptor of it.
PrintProcsPerFd ==
  /\ pc = "print"
  /\ out' = [op |-> "p", rows |-> [i \in DOMAIN pos.proc_list |->
               LET fds == dump.fds[pos.proc_list[i].proc]
               IN  [proc |-> pos.proc_list[i].proc, cnt |-> Cardinality(DOMAIN pos.proc_list[i].fd_map),
                    total |-> SizeSum(SelectSeq(
                                [k \in DOMAIN fds |-> [buf |-> fds[k], size |-> IF fds[k] \in Bufs THEN ReadSize(fds[k]) ELSE 0]],
                                LAMBDA b : b.buf \in {c.buf : c \in ToSet(pos.buf_list)}))]]]
  /\ pc' = "prompt"
  /\ UNCHANGED <<dump, pos>>

\* print_procs
PrintProcs ==
  /\ pc = "print"
  /\ out' = [op |-> "p", rows |-> [i \in DOMAIN pos.proc_list |->
               [proc |-> pos.proc_list[i].proc, cnt |-> Cardinality(DOMAIN pos.proc_list[i].fd_map),
                total |-> SizeSum(SelectSeq(pos.buf_list,
                             LAMBDA b : b.buf \in DOMAIN pos.proc_list[i].fd_map))]]]
  /\ pc' = "prompt"
  /\ UNCHANGED <<dump, pos>>

\* Interrupted: an IonHeap under construction is gone.
Restart ==
  /\ dump.interrupts
  /\ pc # "prompt"
  /\ pc' = "prompt"
  /\ pos' = [pos EXCEPT !.heap_list = IF pos.heap_ptr THEN @ ELSE <<>>]
  /\ UNCHANGED <<dump, out>>

NextDma ==
  CmdMain \/ GetProc \/ ParseBuf \/ ParseHeap \/ PrintBufs \/ PrintHeaps \/ PrintProcs \/ Restart

SpecDma == InitDma /\ [][NextDma]_vars /\ WF_vars(NextDma)

-----------------------------------------------------------------------------

Abandoned == dump.interrupts \/ dump.buf_broken # 0
\* TRUE if the size of every buffer is an int.
Fit == \A b \in Bufs : dump.bufs[b].size < IntMax
KernelSize(bs) == MapThenSumSet(LAMBDA b : dump.bufs[b].size, bs)

\* Whatever was abandoned, and wherever, a buffer is counted once: once in the
\* list, in the list of its own heap and of no other, and with no more than its
\* size; and a heap is listed once.
DmaCountedOnce ==
  /\ IsInjective([i \in DOMAIN pos.buf_list |-> pos.buf_list[i].buf])
  /\ IsInjective([i \in DOMAIN pos.heap_list |-> pos.heap_list[i].heap])
  /\ \A i \in DOMAIN pos.heap_list : \A b \in ToSet(pos.heap_list[i].bufs) :
       b \in ToSet(pos.buf_list) /\ dump.bufs[b.buf].heap = pos.heap_list[i].heap
  /\ out.op = "b" /\ Fit => out.total <= KernelSize(Bufs)

\* The descriptor shown for a buffer is one the process has for this buffer.
DmaFdIsBuffers ==
  \A i \in DOMAIN pos.buf_list : \A j \in DOMAIN pos.buf_list[i].procs :
    LET p == pos.buf_list[i].procs[j]
    IN  dump.fds[p.proc][p.fd_map[pos.buf_list[i].buf] + 1] = pos.buf_list[i].buf

\* If nothing is abandoned and the sizes are ints, -b, -h and -p add up to the
\* buffers of the kernel, of the heap and of the process.
DmaTotals ==
  ~Abandoned /\ Fit =>
    /\ out.op = "b" => out.total = KernelSize(Bufs)
    /\ out.op = "h" => \A i \in DOMAIN out.rows :
         out.rows[i].total = KernelSize({b \in Bufs : dump.bufs[b].heap = out.rows[i].heap})
    /\ out.op = "p" => \A i \in DOMAIN out.rows :
         out.rows[i].total = KernelSize({b \in Bufs : b \in ToSet(dump.fds[out.rows[i].proc])})

-----------------------------------------------------------------------------
(***************************************************************************)
(* dmabuf -s: the page pools of each system heap, of the ion of the        *)
(* kernel ("ion"), that of the vendor ("msm", with three arrays of which   *)
(* the last has two dimensions) or of the dma heaps ("dma").               *)
(***************************************************************************)

\* Mutant: rows and columns count from 1.
SecureIndexFrom1(i, j) == (i + 1) * (j + 1)
\* The element of secure_pools read for row i and column j.
SecureIndex(i, j) == i * j

ArrayOf(name, n) == [k \in 1..n |-> <<name, k - 1>>]
SecureRow(i) == [k \in 1..PoolCnt |-> <<"secure", SecureIndex(i, k - 1)>>]
\* The places of the pools of a heap, in the order they are read.
PlacesOf(kind) ==
  CASE kind = "ion" -> ArrayOf("pools", PoolCnt)
    [] kind = "dma" -> ArrayOf("pools", 3)
    [] kind = "msm" -> ArrayOf("uncached", PoolCnt) \o ArrayOf("cached", PoolCnt)
                       \o FlattenSeq([i \in 1..SecureCnt |-> SecureRow(i - 1)])

\* at: the place of the pool that differs; priv: can the heap's own structure be found?
InitPool ==
  /\ \E kind \in {"ion", "msm", "dma"} :
       dump \in [kind : {kind}, at : ToSet(PlacesOf(kind)), pool : Pools, heaps : SystemHeaps, priv : BOOLEAN]
  /\ pc = "pools"
  /\ pos = [heap |-> 1, k |-> 1]
  /\ out = <<>>

Usual == [kv |-> TRUE, read |-> TRUE, order |-> 0, high |-> 1, low |-> 1, count |-> 2]
PoolAt(p) == IF p = dump.at THEN dump.pool ELSE Usual

\* A value kept in an int; csize takes a size_t.
AsInt(x) == ((x + IntMax) % (2 * IntMax)) - IntMax
AsSize(x) == x % SizeMod

\* Mutant: a negative number of pages is not taken for none.
IntBytesNegative(n, order) == AsSize(AsInt(n * AsInt(2^order * PageBytes)))
\* parser_ion_msm_page_pool and parser_dynamic_page_pool count in ints.
IntBytes(n, order) == AsSize(AsInt((IF n < 0 THEN 0 ELSE n) * AsInt(2^order * PageBytes)))
\* parser_ion_page_pool in size_t, of which none is negative.
SizeBytes(n, order) == AsSize(AsSize(n) * AsSize(2^order * PageBytes))

PoolRow(p) ==
  LET pool == PoolAt(p)
      bytes(n) == IF dump.kind = "ion" THEN SizeBytes(n, pool.order) ELSE IntBytes(n, pool.order)
  IN  [heap |-> pos.heap, place |-> p, high |-> bytes(pool.high), low |-> bytes(pool.low),
       total |-> IF dump.kind = "ion" THEN AsSize(bytes(pool.high) + bytes(pool.low)) ELSE bytes(pool.count)]

\* The system heaps, and one turn of the loops over the pools of one.
PrintPools ==
  /\ pc = "pools"
  /\ \/ /\ pos.heap > Len(dump.heaps)
        /\ pc' = "done"
        /\ UNCHANGED <<pos, out>>
     \/ /\ pos.heap <= Len(dump.heaps)
        /\ IF ~dump.heaps[pos.heap] \/ (dump.kind = "dma" /\ ~dump.priv) \/ pos.k > Len(PlacesOf(dump.kind))
           THEN pos' = [heap |-> pos.heap + 1, k |-> 1] /\ UNCHANGED out
           ELSE LET p == PlacesOf(dump.kind)[pos.k]
                IN  /\ pos' = [pos EXCEPT !.k = @ + 1]
                    /\ out' = IF PoolAt(p).kv /\ PoolAt(p).read THEN Append(out, PoolRow(p)) ELSE out
        /\ UNCHANGED pc
  /\ UNCHANGED dump

NextPool == PrintPools

SpecPool == InitPool /\ [][NextPool]_vars /\ WF_vars(NextPool)

-----------------------------------------------------------------------------

\* The pools of an array of one dimension are each shown once, in order and under each
\* system heap, without those that cannot be read.
PoolsInOrder ==
  LET plain == SelectSeq(out, LAMBDA r : r.place[1] # "secure")
      heaps == {h \in DOMAIN dump.heaps : dump.heaps[h] /\ (dump.kind = "dma" => dump.priv)}
      arrays == IF dump.kind = "msm" THEN <<"uncached", "cached">> ELSE <<"pools">>
      n == IF dump.kind = "dma" THEN 3 ELSE PoolCnt
      \* every place of the heap's arrays, the one left out taken away
      good == SelectSeq([k \in 1..(n * Len(arrays)) |-> <<arrays[1 + ((k - 1) \div n)], (k - 1) % n>>],
                        LAMBDA p : PoolAt(p).kv /\ PoolAt(p).read)
  IN  pc = "done" => \A h \in DOMAIN dump.heaps :
        LET rows == SelectSeq(plain, LAMBDA r : r.heap = h)
        IN  [k \in DOMAIN rows |-> rows[k].place] = IF h \in heaps THEN good ELSE <<>>

\* The index of a secure pool is not that of its row and column (the first row is shown
\* as its first pool over and over), but whatever is shown lies in the table.
SecureInside ==
  \A k \in DOMAIN out : out[k].place[1] = "secure" => out[k].place[2] \in 0..(SecureCnt * PoolCnt - 1)

\* The amounts are those of the kernel while they fit an int; those of the kernel's own
\* ion even when they do not.  A number of pages below 0 counts as none for the vendor's
\* ion and the dma heaps.
PoolAmountsRight ==
  \A k \in DOMAIN out :
    LET pool == PoolAt(out[k].place)
        bytes(n) == (IF n < 0 THEN 0 ELSE n) * 2^pool.order * PageBytes
        fits(n) == IF dump.kind = "ion" THEN n >= 0 /\ bytes(n) < SizeMod
                   ELSE bytes(1) < IntMax /\ bytes(n) < IntMax
    IN  /\ fits(pool.high) => out[k].high = bytes(pool.high)
        /\ fits(pool.low) => out[k].low = bytes(pool.low)
        /\ dump.kind # "ion" /\ fits(pool.count) => out[k].total = bytes(pool.count)

=============================================================================
