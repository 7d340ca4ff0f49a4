----------------------------- MODULE Framework ------------------------------
(***************************************************************************)
(* What the plugins are built on (plugin.cpp): the readers of memory       *)
(* (Readers) and the walks over kernel objects (Walkers).  The two are     *)
(* state machines of their own over the same variables.                    *)
(***************************************************************************)
EXTENDS Integers, Sequences, FiniteSets, SequencesExt

CONSTANTS   \* Readers
  Memories,    \* [bytes, pages]: the bytes, and the pages that can be read
  PageSize,    \* MIN_PAGE_SIZE
  ByteMod,     \* the values of a byte
  Ulong,       \* sizeof(ulong)
  MaxString,   \* the limit of read_long_string, 1 << 20
  Fields,      \* the entries of typetable: [offset, size], -1 for an unknown one
  Lens,        \* the lengths asked of read_cstring
  EnumTexts,   \* what gdb prints of an enum: Seq of [key, val], val -1 where none is printed
  Dumps,       \* the arguments of hexdump: [addr, bytes, little]
  NodeTables   \* the memory nodes: Seq of [start, size]

CONSTANTS   \* Walkers
  TaskLists,   \* the list from init_task on: [whole, tasks], a task [addr, mm, known, comm]
  Comms,       \* the names asked of find_proc
  VmaChains,   \* vma -> vm_next, with the first one of the mm: [first, next]
  MapleTrees,  \* the entries of a maple tree: Seq of addresses
  FdTables,    \* [files, fdt, fds, fd]: the pointers, and the fd array
  PageTables,  \* the pages from the lowest frame on: Seq of [kv, type, mapcount, count, mapping]
  Mappings,    \* address_space -> [host, ops]
  InodeMapping,\* inode -> i_mapping
  InitTask,
  MaxWalk      \* bound on the length of a walk over damaged memory

VARIABLES dump, pc, pos, out
vars == <<dump, pc, pos, out>>

-----------------------------------------------------------------------------
(***************************************************************************)
(* The readers of the framework (plugin.cpp) that every plugin is built    *)
(* on: scalars, structure fields, strings, tables of enumerators and the   *)
(* hex dump.  Memory is a sequence of bytes, some of whose pages cannot be *)
(* read; an address is an index, and a byte a number below ByteMod.        *)
(***************************************************************************)

InitReaders ==
  /\ dump \in [op : {"scalar", "cstring"}, mem : Memories, addr : 1..(2 * PageSize), len : Lens]
             \cup [op : {"byte", "long", "args"}, mem : Memories, addr : 1..(2 * PageSize)]
             \cup [op : {"field"}, mem : Memories, addr : {2}, field : Fields] \cup [op : {"enum"}, text : EnumTexts]
             \cup [op : {"hexdump"}, arg : Dumps] \cup [op : {"nid"}, nodes : NodeTables, paddr : 0..6]
  /\ pc = dump.op
  /\ pos = [kp |-> 0, result |-> <<>>]
  /\ out = [val |-> 0, text |-> <<>>]

\* readmem of n bytes at a: all of their pages can be read (external).
Page(a) == (a - 1) \div PageSize
readmem(m, a, n) == n >= 1 /\ a >= 1 /\ a + n - 1 <= Len(m.bytes) /\ \A k \in a..(a + n - 1) : Page(k) \in m.pages
Bytes(m, a, n) == SubSeq(m.bytes, a, a + n - 1)
\* A little-endian number.
Value(bs) == FoldRight(LAMBDA b, v : b + (ByteMod * v), bs, 0)
\* strnlen
Nul(bs) == {i \in DOMAIN bs : bs[i] = 0}
strnlen(bs) == IF Nul(bs) = {} THEN Len(bs) ELSE (CHOOSE i \in Nul(bs) : \A j \in Nul(bs) : i <= j) - 1

-----------------------------------------------------------------------------

\* read_bool ... read_pointer: 0 where the memory cannot be read.
read_scalar(m, a, n) == IF readmem(m, a, n) THEN Value(Bytes(m, a, n)) ELSE 0
\* read_byte: -1, as an unsigned char.
read_byte(m, a) == IF readmem(m, a, 1) THEN m.bytes[a] ELSE ByteMod - 1
ReadScalar ==
  /\ pc \in {"scalar", "byte"}
  /\ pc' = "done"
  /\ out' = [out EXCEPT !.val = IF pc = "byte" THEN read_byte(dump.mem, dump.addr) ELSE read_scalar(dump.mem, dump.addr, dump.len)]
  /\ UNCHANGED <<dump, pos>>

\* read_structure_field: a size that is none of the integers' reads an ulong from a
\* buffer of that size.  A field typetable does not have is of size -1 at offset -1,
\* which readmem refuses.
ReadField ==
  /\ pc = "field"
  /\ LET f == dump.field
         a == dump.addr + f.offset
     IN  IF ~readmem(dump.mem, a, f.size) THEN pc' = "done" /\ UNCHANGED out
         ELSE IF f.size \in {1, 2, 4, 8} \/ f.size >= Ulong
              THEN pc' = "done" /\ out' = [out EXCEPT !.val = Value(Bytes(dump.mem, a, IF f.size \in {1, 2, 4, 8} THEN f.size ELSE Ulong))]
              ELSE pc' = "undefined" /\ UNCHANGED out
  /\ UNCHANGED <<dump, pos>>

\* read_cstring: the buffer of len bytes is taken for a string, wherever it ends.
ReadCstring ==
  /\ pc = "cstring"
  /\ LET bs == Bytes(dump.mem, dump.addr, dump.len)
     IN  IF ~readmem(dump.mem, dump.addr, dump.len) THEN pc' = "done" /\ UNCHANGED out
         ELSE IF Nul(bs) = {} THEN pc' = "undefined" /\ UNCHANGED out
              ELSE pc' = "done" /\ out' = [out EXCEPT !.text = SubSeq(bs, 1, strnlen(bs))]
  /\ UNCHANGED <<dump, pos>>

\* Mutant: the rest of the page counts from the page, not from the address.
MaxReadWhole(kp) == PageSize
\* max_read: what is left of the page.
MaxRead(kp) == PageSize - ((kp - 1) % PageSize)

\* read_long_string, and one turn of its loop.
ReadLong ==
  /\ pc = "long"
  /\ pc' = "loop"
  /\ pos' = [kp |-> dump.addr, result |-> <<>>]
  /\ UNCHANGED <<dump, out>>
ReadPiece ==
  /\ pc = "loop"
  /\ LET n == MaxRead(pos.kp)
         got == strnlen(Bytes(dump.mem, pos.kp, n))
         result == pos.result \o Bytes(dump.mem, pos.kp, got)
         ok == readmem(dump.mem, pos.kp, n)
     IN  IF ok /\ got = n /\ Len(result) <= MaxString
         THEN pos' = [kp |-> pos.kp + got, result |-> result] /\ UNCHANGED <<pc, out>>
         ELSE pc' = "done" /\ out' = [out EXCEPT !.text = IF ok THEN result ELSE <<>>] /\ UNCHANGED pos
  /\ UNCHANGED dump

\* One turn of extract_string: strings one behind the other, an empty one ends them.
\* Each comes out with a space (here 1) in front, but the first.
EmptyAt(bs) == {i \in Nul(bs) : i = 1 \/ i - 1 \in Nul(bs)}
ExtractString ==
  /\ pc = "args"
  /\ LET ptr == dump.addr + pos.kp
         bs == SubSeq(dump.mem.bytes, ptr, Len(dump.mem.bytes))
         n == strnlen(bs)
     IN  IF Nul(bs) = {} THEN pc' = "undefined" /\ UNCHANGED <<pos, out>>
         ELSE IF n = 0 THEN pc' = "done" /\ out' = [out EXCEPT !.text = pos.result] /\ UNCHANGED pos
         ELSE /\ pos' = [kp |-> pos.kp + n + 1, result |-> (IF pos.result = <<>> THEN <<>> ELSE Append(pos.result, 1)) \o SubSeq(bs, 1, n)]
              /\ UNCHANGED <<pc, out>>
  /\ UNCHANGED dump

\* read_enum_list: an enumerator without a value has the number of those before it
\* that have none; the first of two with a name is kept.
EnumValue(t, i) == IF t[i].val >= 0 THEN t[i].val ELSE Cardinality({j \in 1..(i - 1) : t[j].val < 0})
ReadEnumList ==
  /\ pc = "enum"
  /\ pc' = "done"
  /\ LET t == dump.text
         First(k) == CHOOSE i \in DOMAIN t : t[i].key = k /\ \A j \in 1..(i - 1) : t[j].key # k
     IN  out' = [out EXCEPT !.text = [k \in {e.key : e \in Range(t)} |-> EnumValue(t, First(k))]]
  /\ UNCHANGED <<dump, pos>>

\* hexdump: the bytes, or the whole words turned round, in lines of 16.
Ordered(d) == IF d.little THEN d.bytes
              ELSE [i \in 1..(4 * (Len(d.bytes) \div 4)) |-> d.bytes[4 * ((i - 1) \div 4) + 4 - ((i - 1) % 4)]]
HexDump ==
  /\ pc = "hexdump"
  /\ pc' = "done"
  /\ LET bs == Ordered(dump.arg)
         Line(k) == [addr |-> dump.arg.addr + 16 * (k - 1), bytes |-> SubSeq(bs, 16 * (k - 1) + 1, IF 16 * k < Len(bs) THEN 16 * k ELSE Len(bs))]
     IN  out' = [out EXCEPT !.text = [k \in 1..((Len(bs) + 15) \div 16) |-> Line(k)]]
  /\ UNCHANGED <<dump, pos>>

\* page_to_nid: the first node that holds the page, -1 if none does; the page of
\* physical address 0 is taken for an address that is no page.
Holding(nodes, p) == {i \in DOMAIN nodes : nodes[i].start <= p /\ p < nodes[i].start + nodes[i].size}
PageToNid ==
  /\ pc = "nid"
  /\ pc' = "done"
  /\ LET in == Holding(dump.nodes, dump.paddr)
     IN  out' = [out EXCEPT !.val = IF dump.paddr = 0 \/ in = {} THEN -1 ELSE (CHOOSE i \in in : \A j \in in : i <= j) - 1]
  /\ UNCHANGED <<dump, pos>>

NextReaders == ReadScalar \/ ReadField \/ ReadCstring \/ ReadLong \/ ReadPiece \/ ExtractString \/ ReadEnumList \/ HexDump \/ PageToNid

SpecReaders == InitReaders /\ [][NextReaders]_vars /\ WF_vars(NextReaders)

-----------------------------------------------------------------------------

\* The string at a, up to its NUL or to the end of memory.
StringAt(m, a) == LET bs == SubSeq(m.bytes, a, Len(m.bytes)) IN SubSeq(bs, 1, strnlen(bs))
ReadableTo(m, a, b) == \A k \in a..b : k <= Len(m.bytes) /\ Page(k) \in m.pages

\* read_long_string gives the string whole, across pages, when it and its NUL can be
\* read; nothing when a page of it cannot; and a part longer than the limit, which
\* ends with a page, when it is longer than the limit.
LongStringExact ==
  pc = "done" /\ dump.op = "long" =>
    LET s == StringAt(dump.mem, dump.addr)
    IN  /\ Len(s) <= MaxString /\ ReadableTo(dump.mem, dump.addr, dump.addr + Len(s)) => out.text = s
        /\ \/ out.text = <<>>
           \/ out.text = s
           \/ /\ Len(out.text) > MaxString
              /\ out.text = SubSeq(s, 1, Len(out.text))
              /\ (dump.addr + Len(out.text) - 1) % PageSize = 0

\* read_cstring gives the string, or nothing when its buffer cannot be read; it reads
\* past the buffer exactly when the string fills it.  read_structure_field reads past
\* its buffer only for a size that no integer has.
ReadsInside ==
  /\ pc = "done" /\ dump.op = "cstring" =>
       \/ out.text = <<>> /\ (~readmem(dump.mem, dump.addr, dump.len) \/ dump.mem.bytes[dump.addr] = 0)
       \/ out.text = StringAt(dump.mem, dump.addr) /\ Len(out.text) < dump.len
  /\ pc = "undefined" =>
       \/ dump.op = "cstring" /\ Len(StringAt(dump.mem, dump.addr)) >= dump.len
       \/ dump.op = "field" /\ dump.field.size \in {3, 5, 6, 7}
       \/ dump.op = "args" /\ \A i \in dump.addr..(Len(dump.mem.bytes) - 1) : dump.mem.bytes[i] # 0 \/ dump.mem.bytes[i + 1] # 0

\* extract_string loses no character and adds one space between two strings.
ArgsExact ==
  pc = "done" /\ dump.op = "args" =>
    LET bs == SubSeq(dump.mem.bytes, dump.addr, Len(dump.mem.bytes))
        n == (CHOOSE i \in EmptyAt(bs) : \A j \in EmptyAt(bs) : i <= j) - 1
        shown == IF n <= 0 THEN <<>> ELSE SubSeq(bs, 1, n - 1)
    IN  out.text = [i \in DOMAIN shown |-> IF shown[i] = 0 THEN 1 ELSE shown[i]]

\* The values C gives to the enumerators, as gdb leaves out those that follow on.
RECURSIVE CValue(_, _)
CValue(t, i) == IF t[i].val >= 0 THEN t[i].val ELSE IF i = 1 THEN 0 ELSE CValue(t, i - 1) + 1
\* read_enum_list gives every enumerator with a printed value that value, and every
\* other one its value as long as the printed values before it repeat the one in front
\* (as in the enums of vmstat); behind a value that skips some it gives too small ones.
EnumsExact ==
  pc = "done" /\ dump.op = "enum" =>
    LET t == dump.text
        Repeats(j) == j > 1 /\ t[j].val = CValue(t, j - 1)
    IN  \A i \in DOMAIN t :
          /\ \A j \in 1..(i - 1) : t[j].key # t[i].key
          /\ t[i].val >= 0 \/ \A j \in 1..(i - 1) : t[j].val < 0 \/ Repeats(j)
          => out.text[t[i].key] = CValue(t, i)

\* hexdump shows each byte once, on the line and at the place of its address (with
\* words turned round: in the line of its word, and none of a last part of a word).
HexdumpExact ==
  pc = "done" /\ dump.op = "hexdump" =>
    LET bs == dump.arg.bytes
        n == IF dump.arg.little THEN Len(bs) ELSE Len(bs) - (Len(bs) % 4)
        At(k) == IF dump.arg.little THEN k ELSE k - (k % 4) + 3 - (k % 4)
    IN  /\ \A k \in 0..(n - 1) :
             LET l == out.text[(k \div 16) + 1]
             IN  l.addr = dump.arg.addr + k - (k % 16) /\ l.bytes[(k % 16) + 1] = bs[At(k) + 1]
        /\ Len(out.text) = (n + 15) \div 16

\* A page is in the node page_to_nid names; of a page that some node holds it names
\* none only at physical address 0.
NodeRight ==
  pc = "done" /\ dump.op = "nid" =>
    IF out.val = -1 THEN dump.paddr = 0 \/ Holding(dump.nodes, dump.paddr) = {} ELSE (out.val + 1) \in Holding(dump.nodes, dump.paddr)

-----------------------------------------------------------------------------
(***************************************************************************)
(* The walks over kernel objects that the framework (plugin.cpp) offers to *)
(* the plugins: processes, their mappings and open files, and the pages    *)
(* and inodes of the page cache.  0 is no kernel address; a read that      *)
(* fails gives 0.                                                          *)
(***************************************************************************)

InitWalkers ==
  /\ dump \in [op : {"process", "find"}, list : TaskLists, comm : Comms]
             \cup [op : {"vma"}, old : {TRUE}, chain : VmaChains] \cup [op : {"vma"}, old : {FALSE}, tree : MapleTrees]
             \cup [op : {"files"}, table : FdTables]
             \cup [op : {"file", "anon", "inode"}, pages : PageTables, old : BOOLEAN, limits : BOOLEAN]
  /\ pc = dump.op
  /\ pos = [i |-> 1, next |-> 0, res |-> <<>>]
  /\ out = [list |-> <<>>, found |-> 0]

Kv(a) == a # 0

\* for_each_list: do_list (external) ends the command at an entry it cannot follow.
for_each_list(list) == list.tasks
\* for_each_radix, for_each_mptree and for_each_xarray keep the kernel addresses that
\* the walk of crash (external) gathers.
Gathered(entries) == SelectSeq(entries, Kv)

-----------------------------------------------------------------------------

\* Mutant: a task that is on the list again is kept again.
KeptAgain(t, res) == t.addr # InitTask /\ t.mm # 0 /\ t.known
\* The tests of the loop of for_each_process.
KeptTask(t, res) == t.addr # InitTask /\ t.mm # 0 /\ t.known /\ t.addr \notin Range(res)

\* One turn of for_each_process, for itself and for find_proc.
ForEachProcess ==
  /\ pc \in {"process", "find"}
  /\ LET l == for_each_list(dump.list)
     IN  IF pos.i <= Len(l)
         THEN /\ pos' = [pos EXCEPT !.i = @ + 1, !.res = IF KeptTask(l[pos.i], @) THEN Append(@, l[pos.i].addr) ELSE @]
              /\ UNCHANGED <<pc, out>>
         ELSE /\ pc' = IF dump.list.whole THEN IF pc = "process" THEN "done" ELSE "search" ELSE "fatal"
              /\ out' = IF pc' = "done" THEN [out EXCEPT !.list = pos.res] ELSE out
              /\ pos' = [pos EXCEPT !.i = 1]
  /\ UNCHANGED dump

\* One turn of find_proc: a task without a context is passed over.
CommOf(a) == (CHOOSE t \in Range(dump.list.tasks) : t.addr = a).comm
FindProc ==
  /\ pc = "search"
  /\ IF pos.i > Len(pos.res) THEN pc' = "done" /\ UNCHANGED <<pos, out>>
     ELSE IF CommOf(pos.res[pos.i]) = dump.comm
          THEN pc' = "done" /\ out' = [out EXCEPT !.found = pos.res[pos.i]] /\ UNCHANGED pos
          ELSE pos' = [pos EXCEPT !.i = @ + 1] /\ UNCHANGED <<pc, out>>
  /\ UNCHANGED dump

\* for_each_vma: the maple tree of a newer kernel, or the chain of vm_next.
ForEachVma ==
  /\ pc = "vma"
  /\ IF dump.old THEN pc' = "chain" /\ pos' = [pos EXCEPT !.next = dump.chain.first] /\ UNCHANGED out
     ELSE pc' = "done" /\ out' = [out EXCEPT !.list = Gathered(dump.tree)] /\ UNCHANGED pos
  /\ UNCHANGED dump
NextVma ==
  /\ pc = "chain"
  /\ Len(pos.res) < MaxWalk
  /\ IF Kv(pos.next) THEN pos' = [pos EXCEPT !.res = Append(@, pos.next), !.next = dump.chain.next[pos.next]] /\ UNCHANGED <<pc, out>>
     ELSE pc' = "done" /\ out' = [out EXCEPT !.list = pos.res] /\ UNCHANGED pos
  /\ UNCHANGED dump

\* for_each_task_files: an element for each descriptor, 0 for one that is not open.
for_each_task_files(t) == IF Kv(t.files) /\ Kv(t.fdt) /\ Kv(t.fds) THEN t.fd ELSE <<>>
ForEachFile ==
  /\ pc = "files"
  /\ pc' = "done"
  /\ out' = [out EXCEPT !.list = for_each_task_files(dump.table)]
  /\ UNCHANGED <<dump, pos>>

-----------------------------------------------------------------------------

\* page_buddy: PAGE_TYPE_BASE is set and the bit of PG_buddy clear, or the _mapcount of
\* an older kernel is -128.
page_buddy(p) == IF dump.old THEN p.mapcount = -128 ELSE p.type.base /\ ~p.type.buddy
page_count(p) == p.count
\* The tests of for_each_file_page and for_each_anon_page: bit 0 of mapping tells them
\* apart.
InUse(p) == p.kv /\ ~page_buddy(p) /\ page_count(p) # 0 /\ Kv(p.mapping.addr)
OfFile(p) == InUse(p) /\ ~p.mapping.anon
OfAnon(p) == InUse(p) /\ p.mapping.anon

\* for_each_pfn: min_low_pfn and max_pfn are not set where the symbols are missing.
ForEachPfn ==
  /\ pc \in {"file", "anon", "inode"}
  /\ \E first \in 1..(Len(dump.pages) + 1), last \in 0..Len(dump.pages) :
       /\ dump.limits => first = 1 /\ last = Len(dump.pages)
       /\ pos' = [pos EXCEPT !.i = first, !.next = last]
  /\ pc' = "pages"
  /\ UNCHANGED <<dump, out>>

\* The test of for_each_inode: an inode is left out for its i_mapping only when that is
\* no address.
InodeOf(p) ==
  LET m == Mappings[p.mapping.addr]
  IN  IF Kv(m.host) /\ Kv(m.ops) /\ (Kv(InodeMapping[m.host]) \/ InodeMapping[m.host] = p.mapping.addr) THEN {m.host} ELSE {}

\* One turn of the loop over the frames; the inodes come out of a std::set.
NextPage ==
  /\ pc = "pages"
  /\ LET p == dump.pages[pos.i]
         kept == IF dump.op = "anon" THEN OfAnon(p) ELSE OfFile(p)
     IN  IF pos.i <= pos.next
         THEN pos' = [pos EXCEPT !.i = @ + 1, !.res = IF kept THEN Append(@, pos.i) ELSE @] /\ UNCHANGED <<pc, out>>
         ELSE /\ pc' = "done"
              /\ out' = [out EXCEPT !.list = IF dump.op = "inode" THEN SetToSortSeq(UNION {InodeOf(dump.pages[k]) : k \in Range(pos.res)}, <)
                                             ELSE pos.res]
              /\ UNCHANGED pos
  /\ UNCHANGED dump

NextWalkers == ForEachProcess \/ FindProc \/ ForEachVma \/ NextVma \/ ForEachFile \/ ForEachPfn \/ NextPage

SpecWalkers == InitWalkers /\ [][NextWalkers]_vars /\ WF_vars(NextWalkers)

-----------------------------------------------------------------------------

Once(s) == \A i, j \in DOMAIN s : s[i] = s[j] => i = j
User(t) == t.addr # InitTask /\ t.mm # 0 /\ t.known

\* for_each_process gives every process with memory of its own once, even when the
\* list in the dump comes back to one; find_proc gives the first of a name, and none
\* only when no process has it.
ProcessesExact ==
  pc = "done" /\ dump.op \in {"process", "find"} =>
    LET all == {t.addr : t \in {u \in Range(dump.list.tasks) : User(u)}}
    IN  /\ dump.op = "process" => Once(out.list) /\ Range(out.list) = all
        /\ dump.op = "find" =>
             IF out.found = 0 THEN \A a \in all : CommOf(a) # dump.comm ELSE out.found \in all /\ CommOf(out.found) = dump.comm

\* for_each_vma gives the vmas in their order up to a pointer that is no address, and
\* each one once.  The table of for_each_task_files has the file of descriptor i at i.
MemoryWalksExact ==
  pc = "done" =>
    /\ dump.op = "vma" /\ dump.old =>
         /\ Once(out.list)
         /\ out.list # <<>> => out.list[1] = dump.chain.first
         /\ \A i \in DOMAIN out.list : dump.chain.next[out.list[i]] = IF i < Len(out.list) THEN out.list[i + 1] ELSE 0
    /\ dump.op = "files" /\ out.list # <<>> => \A i \in DOMAIN dump.table.fd : out.list[i] = dump.table.fd[i]

\* No page is both of a file and anonymous, and every page in use that has a mapping is
\* one of them; each inode with a page of its own in the page cache is listed once.
\* This needs the frame limits: without their symbols any part may be missing.
PageWalksExact ==
  pc = "done" /\ dump.op \in {"file", "anon", "inode"} =>
    LET used == {i \in DOMAIN dump.pages : InUse(dump.pages[i])}
        files == {i \in used : ~dump.pages[i].mapping.anon}
    IN  /\ Once(out.list)
        /\ dump.op = "file" => Range(out.list) \subseteq files /\ (dump.limits => Range(out.list) = files)
        /\ dump.op = "anon" => Range(out.list) \cap files = {} /\ (dump.limits => Range(out.list) = used \ files)
        /\ dump.op = "inode" /\ dump.limits =>
             \A i \in files : LET m == dump.pages[i].mapping.addr IN
               Kv(Mappings[m].host) /\ Kv(Mappings[m].ops) /\ InodeMapping[Mappings[m].host] = m => Mappings[m].host \in Range(out.list)

\* vm_next leads back to a vma of the chain.
Endless == dump.op = "vma" /\ dump.old /\ \E s \in SUBSET DOMAIN dump.chain.next : dump.chain.first \in s /\ \A v \in s : dump.chain.next[v] \in s
\* Every walk ends, except over vmas whose vm_next leads back.
WalksFinish == <>(pc \in {"done", "fatal"} \/ Endless)

=============================================================================
