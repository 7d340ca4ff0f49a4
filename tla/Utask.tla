------------------------------- MODULE Utask --------------------------------
(***************************************************************************)
(* The memory of a user process (utils/utask.cpp, utask.h): its mappings   *)
(* and variables (Task), the C++ containers in it (Std), and the search    *)
(* for data without symbols (Search).  The three are state machines of     *)
(* their own over the same variables.                                      *)
(***************************************************************************)
EXTENDS Integers, Sequences, FiniteSets, SequencesExt

CONSTANTS   \* Task
  VmaSets,      \* the address spaces: sequences of vmas in address order
  Libs,         \* symbol files by name; their paths are in LibPath
  Auxvs,        \* the contents of saved_auxv: Seq(<<type, value>>), type 0 behind the last
  PartOf,       \* pairs <<n, s>>: s is part of the name n
  ElfSymbols,   \* the symbols of a file: Seq([name, value])
  BssAddr,      \* the address of .bss in a file
  MaxAddr, MaxLen,
  MaxReads      \* bound on the requests

CONSTANTS   \* Std
  MaxNodes   \* bound on the elements of a container

CONSTANTS   \* Search
  MaxWord,       \* the words of the vma that is searched
  Places,        \* where a list head and its nodes may lie: Seq(address)
  Sizes,         \* values of the size word and of a node's data
  VtbCnt,        \* virtual functions of the class
  DataWords,     \* words of the data vma of the library, at MaxWord + 1 ...
  Tables,        \* its contents: TRUE, the word points into the text
  HasText        \* BOOLEAN values: the library's text vma is known

VARIABLES dump, pc, pos, out
vars == <<dump, pc, pos, out>>

-----------------------------------------------------------------------------
(***************************************************************************)
(* A process of the dump as UTask (utils/utask.cpp) sees it: its vmas      *)
(* sorted into files and anonymous ones (init_vma), its memory read        *)
(* through a copy of a whole vma (read_data), and a variable of a library  *)
(* found through the library's symbol file (get_var_addr_by_bss).  A vma   *)
(* is [start, end, file, dentry, rx, anon, ok]; one unit of address is one *)
(* page.                                                                   *)
(***************************************************************************)

NoVma == 0
NoFile == [text |-> NoVma, data |-> <<>>, bss |-> NoVma]
Files(vmas) == {vmas[i].file : i \in DOMAIN vmas} \ {""}

InitTask ==
  /\ dump \in UNION {[vmas : {v}, missing : SUBSET {2}, bss : BOOLEAN, auxv : Auxvs] : v \in VmaSets}   \* missing: pages that cannot be read
  /\ pc = "auxv"
  /\ pos = [auxv |-> <<>>, i |-> 1, vma_list |-> <<>>, anon_list |-> <<>>, file_list |-> <<>>, name |-> [k \in DOMAIN dump.vmas |-> ""],
            file_map |-> [f \in Files(dump.vmas) |-> NoFile], seen |-> {}, last |-> "", copied |-> {}, reads |-> 0]
  /\ out = [op |-> "none", at |-> 0, data |-> <<>>]

-----------------------------------------------------------------------------

\* init_auxv: a null entry is not stepped over, so that nothing behind it is looked at.
InitAuxv ==
  /\ pc = "auxv"
  /\ LET Read(r, k) == IF dump.auxv[r.at][1] = 0 THEN r
                       ELSE [at |-> r.at + 1, list |-> (dump.auxv[r.at][1] :> dump.auxv[r.at][2]) @@ r.list]
     IN  pos' = [pos EXCEPT !.auxv = FoldLeft(Read, [at |-> 1, list |-> <<>>], dump.auxv).list]
  /\ pc' = "vma"
  /\ UNCHANGED <<dump, out>>

\* The name of an anonymous vma.  A name in user memory (kernel 5.4) is read with
\* uread_cstring of Swapinfo, which returns the empty string.
AnonName(v) ==
  CASE v.anon.where = "kernel" -> v.anon.name
    [] v.anon.where = "user" -> "[anon:]"
    [] v.anon.where = "none" -> v.anon.name         \* [heap], [stack] or none

\* Mutant: the anonymous vma belongs to the first file.
BssOfAny(m, f, i) == IF m[f].bss = NoVma THEN [g \in DOMAIN m |-> [m[g] EXCEPT !.bss = i]] ELSE m

\* An anonymous vma with "bss" in its name belongs to the file listed before it.
BssOf(m, f, i) == [m EXCEPT ![f].bss = i]

\* One turn of the loop of init_vma.
InitVma ==
  /\ pc = "vma"
  /\ IF pos.i > Len(dump.vmas)
     THEN pc' = "ready" /\ UNCHANGED pos
     ELSE LET v == dump.vmas[pos.i]
              next == [pos EXCEPT !.i = @ + 1]
              listed == [next EXCEPT !.vma_list = Append(@, pos.i)]
          IN  /\ UNCHANGED pc
              /\ pos' = CASE ~v.ok -> next
                          [] v.ok /\ v.file # "" /\ ~v.dentry -> listed
                          [] v.ok /\ v.file # "" /\ v.dentry ->
                               [listed EXCEPT !.file_list = Append(@, pos.i), !.last = v.file, !.name[pos.i] = v.file,
                                              !.seen = @ \cup {v.file},
                                              !.file_map[v.file] = IF v.rx THEN [@ EXCEPT !.text = pos.i]
                                                                           ELSE [@ EXCEPT !.data = Append(@, pos.i)]]
                          [] v.ok /\ v.file = "" ->
                               [listed EXCEPT !.anon_list = Append(@, pos.i), !.name[pos.i] = AnonName(v),
                                              !.file_map = IF pos.last # "" /\ <<AnonName(v), "bss">> \in PartOf
                                                           THEN BssOf(@, pos.last, pos.i) ELSE @]
  /\ UNCHANGED <<dump, out>>

Vma(i) == dump.vmas[i]
is_contains(i, addr) == Vma(i).start <= addr /\ addr < Vma(i).end
\* get_vma: the first vma of the list that holds the address.
get_vma(addr) ==
  LET at == {k \in DOMAIN pos.vma_list : is_contains(pos.vma_list[k], addr)}
  IN  IF at = {} THEN NoVma ELSE pos.vma_list[CHOOSE k \in at : \A j \in at : k <= j]
\* What a page holds; uread_memory of Swapinfo leaves zeros where it cannot read.
Page(addr) == IF addr \in dump.missing THEN 0 ELSE addr + 100
uread_memory(addr, len) == [k \in 1..len |-> Page(addr + k - 1)]

Ready == pc = "ready" /\ pos.reads < MaxReads
\* read_data: outside the known vmas straight from memory, else from the copy of
\* the vma, which is made on the first read, and never past the end of the vma.
ReadData ==
  /\ Ready
  /\ \E addr \in 0..MaxAddr, len \in 0..MaxLen :
       LET i == get_vma(addr)
           n == IF i # NoVma /\ Vma(i).end - addr < len THEN Vma(i).end - addr ELSE len
       IN  /\ out' = [op |-> "read", at |-> addr, data |->
                        IF i = NoVma THEN uread_memory(addr, len)
                        ELSE SubSeq(uread_memory(Vma(i).start, Vma(i).end - Vma(i).start),
                                    addr - Vma(i).start + 1, addr - Vma(i).start + n)]
           /\ pos' = [pos EXCEPT !.reads = @ + 1, !.copied = IF i = NoVma THEN @ ELSE @ \cup {i}]
  /\ UNCHANGED <<dump, pc>>

NotFound == -1
\* read_symbol: the first mangled symbol whose name contains the variable's.
read_symbol(var, lib) ==
  LET s == ElfSymbols[lib]
      hit == {k \in DOMAIN s : <<s[k].name, var>> \in PartOf}
  IN  IF hit = {} THEN NotFound ELSE s[CHOOSE k \in hit : \A j \in hit : k <= j].value

\* The mapped file whose name contains that of the symbol file, the first in
\* address order; the name itself when there is none.
MappedName(lib) ==
  LET hit == {k \in DOMAIN pos.file_list : <<pos.name[pos.file_list[k]], lib>> \in PartOf}
  IN  IF hit = {} THEN lib ELSE pos.name[pos.file_list[CHOOSE k \in hit : \A j \in hit : k <= j]]
\* get_min_vma_start sorts the data vmas and the text vma of a file: without a text
\* vma it compares through a null pointer.
MapOf(f) == Range(pos.file_map[f].data) \cup {pos.file_map[f].text}
get_min_vma_start(f) ==
  IF f \notin pos.seen THEN 0
  ELSE LET starts == {Vma(i).start : i \in MapOf(f)} IN CHOOSE a \in starts : \A b \in starts : a <= b

\* read_sections: the address of .bss, and no alignment for a file without it.
read_sections == IF dump.bss THEN BssAddr ELSE 0

\* get_var_addr_by_bss: the variable at the distance from the start of the mapping
\* that it has in the symbol file (the alignment of .bss changes nothing).  Rounding
\* to the alignment divides by 0 where there is no .bss.
GetVarAddrByBss ==
  /\ Ready
  /\ \E lib \in Libs, var \in {"logBuf"} :
       LET f == MappedName(lib)
           v == read_symbol(var, lib)
       IN  IF (f \in pos.seen /\ pos.file_map[f].text = NoVma) \/ ~dump.bss
           THEN pc' = "undefined" /\ UNCHANGED out
           ELSE /\ out' = [op |-> lib, at |-> IF v = NotFound THEN 0 ELSE get_min_vma_start(f) + read_sections + (v - read_sections),
                           data |-> <<>>]
                /\ UNCHANGED pc
  /\ pos' = [pos EXCEPT !.reads = @ + 1]
  /\ UNCHANGED dump

NextTask == InitAuxv \/ InitVma \/ ReadData \/ GetVarAddrByBss

SpecTask == InitTask /\ [][NextTask]_vars /\ WF_vars(InitAuxv \/ InitVma)

-----------------------------------------------------------------------------

\* Every vma whose structure could be read is listed once, in address order, as a
\* file's or as anonymous, except a file's without a valid dentry.
VmasListed ==
  pc \notin {"auxv", "vma"} =>
    /\ pos.vma_list = SelectSeq([k \in DOMAIN dump.vmas |-> k], LAMBDA k : Vma(k).ok)
    /\ \A k \in Range(pos.vma_list) :
         ~(Vma(k).file # "" /\ ~Vma(k).dentry) => (k \in Range(pos.anon_list)) # (k \in Range(pos.file_list))

\* The auxiliary vector has the value of every entry in front of its null entry, the
\* last one of a type, and nothing of what lies behind.
AuxvExact ==
  pc # "auxv" =>
    LET nul == CHOOSE k \in DOMAIN dump.auxv : dump.auxv[k][1] = 0 /\ \A j \in 1..(k - 1) : dump.auxv[j][1] # 0
    IN  /\ DOMAIN pos.auxv = {dump.auxv[j][1] : j \in 1..(nul - 1)}
        /\ \A t \in DOMAIN pos.auxv : \E j \in 1..(nul - 1) :
             dump.auxv[j] = <<t, pos.auxv[t]>> /\ \A m \in (j + 1)..(nul - 1) : dump.auxv[m][1] # t

\* The bss vma of a file lies behind a vma of that file, with no vma of another
\* (readable) file between the two.
BssBehindItsFile ==
  \A f \in DOMAIN pos.file_map : pos.file_map[f].bss # NoVma =>
    LET b == pos.file_map[f].bss
        before == {k \in Range(pos.file_list) : k < b}
    IN  \E k \in before : Vma(k).file = f /\ \A j \in before : j <= k

\* Data read from a process is its memory from the address on, with zeros for the
\* pages that are missing, and ends with the vma: the copy kept of a vma and the
\* reads straight from memory agree.
DataExact ==
  out.op = "read" =>
    \A k \in DOMAIN out.data : out.data[k] = Page(out.at + k - 1) /\ (get_vma(out.at) # NoVma => get_vma(out.at + k - 1) = get_vma(out.at))

\* A variable found through a symbol file lies in a mapping of that file, unless the
\* name of a file mapped below it contains the same name.
VarInItsLib ==
  out.op \in Libs /\ out.at # 0 =>
    LET own == {k \in Range(pos.file_list) : <<Vma(k).file, out.op>> \in PartOf}
    IN  Cardinality({Vma(k).file : k \in own}) = 1 =>
          \E k \in own : Vma(k).start = out.at - read_symbol("logBuf", out.op) /\ \A j \in own : Vma(k).start <= Vma(j).start

-----------------------------------------------------------------------------
(***************************************************************************)
(* The C++ containers of a user process as they lie in its memory, walked  *)
(* by UTask (utils/utask.cpp): for_each_stdlist, for_each_stdmap and       *)
(* for_each_stdunmap.  A node is a number, the container itself is Head;   *)
(* memory that could not be read reads as 0.  One pointer of the container *)
(* may have been overwritten, by 0, a bad address or any other node.       *)
(***************************************************************************)

Null == 0
Head0 == MaxNodes + 1      \* the container
BadAddr == -1              \* not a user address
is_uvaddr(a) == a >= 0     \* 0 is an address below the top of user space

\* Each node has two pointers: a is prev, next (unused) or left, b is next, next
\* or right.
Chain(n, ends) == [i \in 1..n |-> [a |-> IF i = 1 THEN ends ELSE i - 1, b |-> IF i = n THEN ends ELSE i + 1]]
Trees ==    \* the shapes of small trees, root 1
  {<<>>, <<[a |-> 0, b |-> 0]>>, <<[a |-> 2, b |-> 0], [a |-> 0, b |-> 0]>>, <<[a |-> 0, b |-> 2], [a |-> 0, b |-> 0]>>}
  \cup {t \in [1..3 -> [a : {0, 2, 3}, b : {0, 2, 3}]] :
          t \in {<<[a |-> 2, b |-> 3], [a |-> 0, b |-> 0], [a |-> 0, b |-> 0]>>,
                 <<[a |-> 2, b |-> 0], [a |-> 0, b |-> 3], [a |-> 0, b |-> 0]>>,
                 <<[a |-> 0, b |-> 2], [a |-> 3, b |-> 0], [a |-> 0, b |-> 0]>>}}

Intact ==
  UNION {{[kind |-> "list", mem |-> Chain(n, Head0), first |-> IF n = 0 THEN Head0 ELSE 1,
           last |-> IF n = 0 THEN Head0 ELSE n, size |-> n],
          [kind |-> "unmap", mem |-> Chain(n, Null), first |-> IF n = 0 THEN Null ELSE 1, last |-> Null, size |-> n]} :
            n \in 0..MaxNodes}
  \cup {[kind |-> "map", mem |-> t, first |-> IF t = <<>> THEN Null ELSE 1, last |-> Null, size |-> Len(t)] : t \in Trees}

Addresses == {BadAddr} \cup (0..Head0)
\* A pointer of a map leads down the tree: for_each_stdmap has no bound and would
\* follow a cycle for ever.
Corrupted(d) ==
  {e \in {[d EXCEPT !.mem[i].a = x] : i \in DOMAIN d.mem, x \in Addresses}
         \cup {[d EXCEPT !.mem[i].b = x] : i \in DOMAIN d.mem, x \in Addresses}
         \cup {[d EXCEPT !.size = x] : x \in 0..(MaxNodes + 2)} :
     e.kind = "map" => \A i \in DOMAIN e.mem : e.mem[i].a \notin 1..i /\ e.mem[i].b \notin 1..i}

InitStd ==
  /\ \E d \in Intact : dump \in [good : {d}, now : {d} \cup Corrupted(d)]
  /\ pc = dump.now.kind
  /\ pos = [cur |-> IF dump.now.kind = "map" THEN <<dump.now.first>> ELSE dump.now.first, i |-> 0]
  /\ out = <<>>

D == dump.now
\* uread_pointer of a node; the container looks like a node of the list.
Node(a) ==
  CASE a \in DOMAIN D.mem -> D.mem[a]
    [] a = Head0 /\ D.kind = "list" -> [a |-> D.last, b |-> D.first]
    [] OTHER -> [a |-> Null, b |-> Null]

-----------------------------------------------------------------------------

Done == pc' = "done" /\ UNCHANGED <<dump, pos, out>>

\* Mutant: one turn too many.
StdListLate ==
  /\ pc = "list"
  /\ LET cur == pos.cur
     IN  IF pos.i > D.size \/ ~is_uvaddr(cur) \/ Node(cur).b = Null \/ Node(cur).a = D.last
         THEN Done
         ELSE /\ out' = Append(out, cur)
              /\ pos' = [cur |-> Node(cur).b, i |-> pos.i + 1]
              /\ UNCHANGED <<dump, pc>>

\* One turn of the loop of for_each_stdlist: at most size of them.
StdList ==
  /\ pc = "list"
  /\ LET cur == pos.cur
     IN  IF pos.i + 1 > D.size \/ ~is_uvaddr(cur) \/ Node(cur).b = Null \/ Node(cur).a = D.last
         THEN Done
         ELSE /\ out' = Append(out, cur)
              /\ pos' = [cur |-> Node(cur).b, i |-> pos.i + 1]
              /\ UNCHANGED <<dump, pc>>

\* Mutant: the size does not bound the walk.
StdUnmapUnbounded ==
  /\ pc = "unmap"
  /\ IF ~is_uvaddr(pos.cur) \/ pos.cur = Null
     THEN Done
     ELSE /\ out' = IF pos.cur \in Range(out) THEN out ELSE Append(out, pos.cur)
          /\ pos' = [cur |-> Node(pos.cur).b, i |-> pos.i]
          /\ UNCHANGED <<dump, pc>>

\* One turn of the loop of for_each_stdunmap: i <= size, one turn more than there
\* are elements; a node is emplaced once.
StdUnmap ==
  /\ pc = "unmap"
  /\ IF pos.i > D.size \/ ~is_uvaddr(pos.cur) \/ pos.cur = Null
     THEN Done
     ELSE /\ out' = IF pos.cur \in Range(out) THEN out ELSE Append(out, pos.cur)
          /\ pos' = [cur |-> Node(pos.cur).b, i |-> pos.i + 1]
          /\ UNCHANGED <<dump, pc>>

\* One turn of the loop of for_each_stdmap, cur the node_stack: the top is taken
\* off, its right and then its left child pushed.
StdMap ==
  /\ pc = "map"
  /\ IF D.size = 0 \/ D.first = Null \/ pos.cur = <<>>
     THEN Done
     ELSE LET node == Last(pos.cur)
              Push(c) == IF c # Null /\ is_uvaddr(c) THEN <<c>> ELSE <<>>
          IN  /\ out' = IF node \in Range(out) THEN out ELSE Append(out, node)
              /\ pos' = [pos EXCEPT !.cur = Front(@) \o Push(Node(node).b) \o Push(Node(node).a)]
              /\ UNCHANGED <<dump, pc>>

NextStd == StdList \/ StdUnmap \/ StdMap

SpecStd == InitStd /\ [][NextStd]_vars /\ WF_vars(NextStd)

-----------------------------------------------------------------------------

\* An intact container is returned whole, each element once, a list and an
\* unordered_map in their own order.
ContainersExact ==
  pc = "done" /\ dump.now = dump.good =>
    /\ Range(out) = DOMAIN D.mem /\ Len(out) = Cardinality(DOMAIN D.mem)
    /\ D.kind # "map" => out = [i \in 1..Len(D.mem) |-> i]

\* A container with an overwritten pointer or size never gives more elements than
\* its size (one more for an unordered_map); up to the damage the elements of a
\* list and of an unordered_map are right.
DamageContained ==
  D.kind # "map" =>
    /\ Len(out) <= D.size + (IF D.kind = "unmap" THEN 1 ELSE 0)
    /\ \A i \in 1..Len(out) :
         (\A k \in 1..(i - 1) : k \in DOMAIN D.mem => D.mem[k] = dump.good.mem[k]) =>
            out[i] = i \/ D.size # dump.good.size

-----------------------------------------------------------------------------
(***************************************************************************)
(* How UTask (utils/utask.h, utask.cpp) finds data in the memory of a      *)
(* process without symbols: search_stdlist looks for a std::list, word by  *)
(* word, with check_stdlist; search_obj looks for an object whose virtual  *)
(* table lies in a library.  Memory is an array of words at 1..MaxWord.    *)
(***************************************************************************)

NodeWords == 3
DataVma == (MaxWord + 1)..(MaxWord + DataWords)
Free == [a \in 1..MaxWord |-> 0]

\* A list of the nodes p[2] ... p[Len(p)], its head at p[1]; the head's third word
\* is the size, a node's its data.
Laid(p, data) ==
  LET n == Len(p)
      Prev(k) == p[IF k = 1 THEN n ELSE k - 1]
      Succ(k) == p[IF k = n THEN 1 ELSE k + 1]
  IN  [a \in 1..MaxWord |->
         IF \E k \in 1..n : a \in p[k]..(p[k] + 2)
         THEN LET k == CHOOSE j \in 1..n : a \in p[j]..(p[j] + 2)
              IN  CASE a = p[k] -> Prev(k) [] a = p[k] + 1 -> Succ(k) [] OTHER -> IF k = 1 THEN n - 1 ELSE data[k - 1]
         ELSE 0]

\* One word of it may be overwritten.
ListDumps ==
  UNION {{[kind |-> "list", list |-> p, mem |-> m, accepts |-> Range(Tail(p)), table |-> <<>>, text |-> FALSE, whole |-> m = Laid(p, d)] :
            m \in {Laid(p, d)} \cup {[Laid(p, d) EXCEPT ![a] = x] : a \in 1..MaxWord, x \in Range(p)}} :
         p \in Places, d \in [1..2 -> Sizes]}
\* An object: its first word points to the virtual table, vaddr words into the data.
ObjDumps ==
  {[kind |-> "obj", list |-> <<>>, mem |-> [Free EXCEPT ![a] = v, ![a + 2] = w], accepts |-> acc, table |-> t, text |-> x, whole |-> TRUE] :
     a \in {2}, v \in DataVma, w \in {0} \cup DataVma, acc \in {{2}, {4}, {2, 4}}, t \in Tables, x \in HasText}

InitSearch ==
  /\ dump \in ListDumps \cup ObjDumps
  /\ pc = dump.kind
  /\ pos = [addr |-> 1, cur |-> 0, prev |-> 0, index |-> 0]
  /\ out = 0

Word(a) == IF a \in 1..MaxWord THEN dump.mem[a] ELSE 0
InRange(a) == a \in 1..MaxWord          \* between the lowest and the highest anonymous vma
PrevOf(a) == Word(a)
NextOf(a) == Word(a + 1)
DataOf(a) == Word(a + 2)

-----------------------------------------------------------------------------

NextAddr == pos' = [addr |-> pos.addr + 1, cur |-> 0, prev |-> 0, index |-> 0] /\ pc' = "list" /\ UNCHANGED out
\* check_stdlist returned the address; search_stdlist takes it if the size it was
\* given is not 0.
Return(list_size) == IF list_size # 0 THEN out' = pos.addr /\ pc' = "done" /\ UNCHANGED pos ELSE NextAddr

\* One turn of search_stdlist: the head of check_stdlist.  Two equal pointers are a
\* list of at most one node, which the callback is not asked about.
CheckHead ==
  /\ pc = "list"
  /\ LET a == pos.addr
     IN  IF a > MaxWord THEN pc' = "done" /\ UNCHANGED <<pos, out>>
         ELSE IF ~InRange(PrevOf(a)) \/ ~InRange(NextOf(a)) THEN NextAddr
         ELSE IF PrevOf(a) = NextOf(a) THEN Return(DataOf(a))
         ELSE /\ pc' = "walk"
              /\ pos' = [pos EXCEPT !.cur = NextOf(a), !.prev = a, !.index = 0]
              /\ UNCHANGED out
  /\ UNCHANGED dump

\* Mutant: the pointer back is not compared.
BackLinkAny(a, prev) == PrevOf(a) # 0

\* A node points back to the one the walk came from.
BackLink(a, prev) == PrevOf(a) = prev

\* One turn of the loop of check_stdlist over the nodes; the size reported is the
\* data word of the last node.
CheckNode ==
  /\ pc = "walk"
  /\ LET c == pos.cur
     IN  IF pos.index < DataOf(pos.addr) /\ InRange(PrevOf(c)) /\ InRange(NextOf(c)) /\ c \in dump.accepts
            /\ BackLink(c, pos.prev)
         THEN IF NextOf(c) = pos.addr
              THEN Return(DataOf(c))
              ELSE /\ pos' = [pos EXCEPT !.cur = NextOf(c), !.prev = c, !.index = @ + 1]
                   /\ UNCHANGED <<pc, out>>
         ELSE NextAddr
  /\ UNCHANGED dump

\* One turn of check_object: the virtual table must lie in a data vma of the library
\* and each function in its text (a null one is passed over); the object itself must please
\* the callback.  The table is read on
\* where it ends outside the vma.
CheckObject ==
  /\ pc = "obj"
  /\ LET a == pos.addr
         v == Word(a)
         inside == v \in DataVma /\ v + 1 \in DataVma
         Fun(i) == dump.table[v - MaxWord + i]
         known == {i \in 0..(VtbCnt - 1) : v + i \in DataVma}
         match == ~dump.text \/ \A i \in known : Fun(i)
     IN  IF a + NodeWords >= MaxWord + 1 THEN pc' = "done" /\ UNCHANGED <<pos, out>>
         ELSE IF inside /\ dump.text /\ match /\ v + VtbCnt - 1 \notin DataVma THEN pc' = "undefined" /\ UNCHANGED <<pos, out>>
         ELSE IF inside /\ match /\ a \in dump.accepts THEN pc' = "done" /\ out' = a /\ UNCHANGED pos
         ELSE pos' = [pos EXCEPT !.addr = @ + 1] /\ UNCHANGED <<pc, out>>
  /\ UNCHANGED dump

NextSearch == CheckHead \/ CheckNode \/ CheckObject

SpecSearch == InitSearch /\ [][NextSearch]_vars /\ WF_vars(NextSearch)

-----------------------------------------------------------------------------

RECURSIVE ChainFrom(_, _)
ChainFrom(a, n) == IF n = 0 THEN <<a>> ELSE <<a>> \o ChainFrom(NextOf(a), n - 1)

\* An address that is taken for a list is the head of a ring: its size says how many
\* steps at most lead back to it, every step back undoes one forward, and every node
\* of two or more pleases the callback.
FoundIsRing ==
  pc = "done" /\ dump.kind = "list" /\ out # 0 =>
    \/ PrevOf(out) = NextOf(out) /\ DataOf(out) # 0
    \/ \E n \in 1..DataOf(out) :
         LET c == ChainFrom(out, n)
         IN  /\ NextOf(c[n + 1]) = out
             /\ \A k \in 2..(n + 1) : PrevOf(c[k]) = c[k - 1] /\ c[k] \in dump.accepts

\* An intact list is found: nothing is returned only if it is empty, or the data word
\* of its last node is 0 (the size check_stdlist reports is read from there).
WholeListFound ==
  pc = "done" /\ dump.kind = "list" /\ dump.whole /\ out = 0 =>
    Len(dump.list) = 1 \/ DataOf(dump.list[Len(dump.list)]) = 0

\* An object that is found has its table in the library, and the functions of the
\* table, where the text is known, in its text.
FoundObject ==
  pc = "done" /\ dump.kind = "obj" /\ out # 0 => 
    /\ Word(out) \in DataVma /\ out \in dump.accepts
    /\ dump.text => \A i \in 0..(VtbCnt - 1) : dump.table[Word(out) - MaxWord + i]

=============================================================================
