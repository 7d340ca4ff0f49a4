------------------------------ MODULE Vmalloc -------------------------------
(***************************************************************************)
(* vmalloc (memory/vmalloc.cpp): the vmap_areas, each with the chain of    *)
(* vm_structs its vm and next pointers make, are parsed by the first       *)
(* command and kept; the options add the same vm_structs up by area, by    *)
(* caller and by type.  meminfo -b (memory/meminfo.cpp) walks the same     *)
(* chains once more for its line Vmalloc.                                  *)
(***************************************************************************)
EXTENDS Integers, Sequences, FiniteSets, SequencesExt, FiniteSetsExt

CONSTANTS
  PageSize,    \* page_size
  VmKinds,     \* the vm_structs, records [size, nr_pages, lost, type, caller, early, readable]:
               \* lost are the numbers of the pages whose pointers are not valid
  Within,      \* pairs <<part, name>>: the argument is a part of the name
  MaxAreas,    \* bound on the vmap_areas
  MaxVmCmds    \* bound on the commands of a session

VARIABLES dump, pc, pos, out
vars == <<dump, pc, pos, out>>

\* Area i has vm_struct i; an early one is linked by next to the early one
\* behind it, as vmalloc_init found them.  Some areas cannot be read, or are in a pool
\* of vmap_nodes whose len is 0.
Dumps ==
  UNION {[vms : [1..n -> VmKinds], areas : SUBSET (1..n), interrupts : BOOLEAN] : n \in 1..MaxAreas}
Areas == 1..Len(dump.vms)
Vm(v) == dump.vms[v]
Later(v) == {w \in Areas : w > v /\ Vm(w).early}
NextVm(v) == IF Vm(v).early /\ Later(v) # {} THEN Min(Later(v)) ELSE 0

NoOut == [op |-> "none"]

\* area_list: a sequence of [area, vms].
Init ==
  /\ dump \in Dumps
  /\ pc = "prompt"
  /\ pos = [area_list |-> <<>>, area |-> 1, vm |-> 0, cmds |-> 0]
  /\ out = NoOut

-----------------------------------------------------------------------------

CmdMain ==
  /\ pc = "prompt"
  /\ pos.cmds < MaxVmCmds
  /\ pc' = IF pos.area_list = <<>> THEN "area" ELSE "print"
  /\ pos' = [pos EXCEPT !.cmds = @ + 1, !.area = 1]
  /\ out' = NoOut
  /\ UNCHANGED dump

\* The next area of the list, and the head of parser_vmap_area.
ParseArea ==
  /\ pc = "area"
  /\ \/ /\ pos.area \in dump.areas
        /\ pos' = [pos EXCEPT !.area_list = Append(@, [area |-> pos.area, vms |-> <<>>]),
                              !.vm = pos.area, !.area = @ + 1]
        /\ pc' = "vm"
     \/ /\ pos.area \in Areas \ dump.areas
        /\ pos' = [pos EXCEPT !.area = @ + 1]
        /\ pc' = "area"
     \/ /\ pos.area \notin Areas
        /\ pc' = "print"
        /\ UNCHANGED pos
  /\ UNCHANGED <<dump, out>>

\* Mutant: the guard page is forgotten.
FitsNoGuard(v) == Vm(v).size % PageSize = 0 /\ Vm(v).size \div PageSize = Vm(v).nr_pages

\* The size has room for the pages and the guard page.
Fits(v) == Vm(v).size % PageSize = 0 /\ Vm(v).size \div PageSize = Vm(v).nr_pages + 1
Taken == {v \in Areas : Vm(v).readable /\ Fits(v)}
Unreadable == {v \in Areas : ~Vm(v).readable}

\* One turn of the loop over the chain.  A vm_struct that cannot be read is tried
\* again and again: no step changes anything.
ParseVm ==
  /\ pc = "vm"
  /\ \/ /\ pos.vm \in Taken
        /\ pos' = [pos EXCEPT !.area_list[Len(pos.area_list)].vms = Append(@, pos.vm),
                              !.vm = NextVm(pos.vm)]
        /\ pc' = "vm"
     \/ /\ pos.vm \notin Taken \cup Unreadable
        /\ UNCHANGED pos
        /\ pc' = "area"
  /\ UNCHANGED <<dump, out>>

\* All the vm_structs of area_list, with repetitions.
Listed == FlattenSeq([i \in 1..Len(pos.area_list) |-> pos.area_list[i].vms])
Sizes(vs) == FoldLeft(LAMBDA n, v : n + Vm(v).size, 0, vs)
Pages(vs) == FoldLeft(LAMBDA n, v : n + Vm(v).nr_pages, 0, vs)

\* print_vm_struct, -v
PrintVmStruct ==
  /\ pc = "print"
  /\ out' = [op |-> "v", vms |-> Listed, size |-> Sizes(Listed), pages |-> Pages(Listed)]
  /\ pc' = "prompt"
  /\ UNCHANGED <<dump, pos>>

\* print_vmap_area_list, -a: the pages of each area.
PageList(v) == SetToSortSeq({<<v, n>> : n \in (1..Vm(v).nr_pages) \ Vm(v).lost}, LAMBDA a, b : a[2] < b[2])
PageLists(vs) == FlattenSeq([i \in DOMAIN vs |-> PageList(vs[i])])

PrintVmapAreaList ==
  /\ pc = "print"
  /\ out' = [op |-> "a", areas |-> [i \in DOMAIN pos.area_list |->
                                      [area |-> pos.area_list[i].area, pages |-> PageLists(pos.area_list[i].vms)]]]
  /\ pc' = "prompt"
  /\ UNCHANGED <<dump, pos>>

\* print_vmap_area, -r: the range of an area is that of the vm_struct it was made for.
PrintVmapArea ==
  /\ pc = "print"
  /\ LET areas == [i \in DOMAIN pos.area_list |-> pos.area_list[i].area]
     IN  out' = [op |-> "r", areas |-> areas, size |-> Sizes(areas)]
  /\ pc' = "prompt"
  /\ UNCHANGED <<dump, pos>>

\* print_vm_info_caller, -f, and print_vm_info_type, -t: the pages of each caller or type
\* that the argument is a part of, numbered for each anew, in any order of the keys.
PrintVmInfo(key, arg) ==
  /\ pc = "print"
  /\ LET names == {n \in {Vm(v)[key] : v \in Range(Listed)} : <<arg, n>> \in Within}
         Of(n) == PageLists(SelectSeq(Listed, LAMBDA v : Vm(v)[key] = n))
     IN  out' = [op |-> "info", key |-> key, arg |-> arg, pages |-> [n \in names |-> Of(n)]]
  /\ pc' = "prompt"
  /\ UNCHANGED <<dump, pos>>

\* print_summary_caller and print_summary_type, -s: a row for each key, by size.
Rows(key) ==
  LET Of(k) == SelectSeq(Listed, LAMBDA v : Vm(v)[key] = k)
      keys == {Vm(v)[key] : v \in Range(Listed)}
      rows == {[key |-> k, size |-> Sizes(Of(k)), pages |-> Pages(Of(k))] : k \in keys}
  IN  {s \in SetToSeqs(rows) : \A i, j \in DOMAIN s : i < j => s[i].size >= s[j].size}

PrintSummary ==
  /\ pc = "print"
  /\ \E callers \in Rows("caller"), types \in Rows("type") :
       out' = [op |-> "s", callers |-> callers, types |-> types]
  /\ pc' = "prompt"
  /\ UNCHANGED <<dump, pos>>

Restart ==
  /\ dump.interrupts
  /\ pc # "prompt"
  /\ pc' = "prompt"
  /\ UNCHANGED <<dump, pos, out>>

Next ==
  \/ CmdMain \/ ParseArea \/ ParseVm \/ PrintVmStruct \/ PrintSummary
  \/ PrintVmapAreaList \/ PrintVmapArea \/ Restart
  \/ \E key \in {"caller", "type"} : \E w \in Within : PrintVmInfo(key, w[1])

Spec == Init /\ [][Next]_vars /\ WF_vars(Next)

-----------------------------------------------------------------------------

\* meminfo: what does not read counts as 0, and 0 does not fit.
MeminfoPages[v \in 0..MaxAreas] ==
  IF v \in Taken THEN Vm(v).nr_pages + MeminfoPages[NextVm(v)] ELSE 0

\* Meminfo::get_vmalloc_size
MeminfoVmalloc ==
  FoldLeft(LAMBDA n, a : n + MeminfoPages[a], 0, [a \in Areas |-> a])

AllReadable == dump.areas = Areas /\ \A v \in Areas : Vm(v).readable

\* An early vm_struct of one page has room for the guard page it does not have.
EarlyPage(v) == Vm(v).early /\ Fits(v)

\* Whatever was abandoned before, no area is counted twice, and no vm_struct
\* except one that an early vm_struct of one page is linked to; none is shown
\* that the kernel's page count contradicts.
VmOnce ==
  /\ IsInjective([i \in DOMAIN pos.area_list |-> pos.area_list[i].area])
  /\ \A i, j \in DOMAIN Listed :
       i < j /\ Listed[i] = Listed[j] => \E v \in Areas : EarlyPage(v) /\ NextVm(v) = Listed[i]
  /\ \A v \in Range(Listed) : Fits(v)

\* If all of it can be read and nothing is abandoned, the totals by area, by
\* caller and by type are the same, they hold every vm_struct that fits, and
\* meminfo -b counts the same pages, those counted twice included.
VmTotalsAgree ==
  AllReadable /\ ~dump.interrupts =>
    /\ out.op = "v" =>
         /\ Range(out.vms) = {v \in Areas : Fits(v)}
         /\ out.pages = MeminfoVmalloc
         /\ out.size = out.pages * PageSize + PageSize * Len(out.vms)
    /\ out.op = "s" =>
         LET Size(rows) == FoldLeft(LAMBDA n, r : n + r.size, 0, rows)
             Page(rows) == FoldLeft(LAMBDA n, r : n + r.pages, 0, rows)
         IN  /\ Size(out.callers) = Size(out.types)
             /\ Page(out.callers) = MeminfoVmalloc /\ Page(out.types) = MeminfoVmalloc

\* vmalloc -a, -f and -t never show a page that is not in a vm_struct they show, nor one
\* without a valid pointer; without an interrupt -r counts every area that can be read once,
\* whether its vm_struct fits or not, and -f and -t show every page of the callers and types
\* the argument is a part of.
VmPagesOwn ==
  LET Whole(name) == {v \in Range(Listed) : Vm(v)[out.key] = name}
      PagesOf(vs) == {<<v, n>> : v \in vs, n \in 1..Max({0} \cup {Vm(v).nr_pages : v \in vs})}
      Real(vs) == {p \in PagesOf(vs) : p[2] \in (1..Vm(p[1]).nr_pages) \ Vm(p[1]).lost}
  IN  /\ out.op = "a" =>
           /\ \A i \in DOMAIN out.areas : Range(out.areas[i].pages) \subseteq Real(Areas)
           /\ UNION {Range(out.areas[i].pages) : i \in DOMAIN out.areas} = Real(Range(Listed))
      /\ out.op = "info" =>
           \A n \in {Vm(v)[out.key] : v \in Range(Listed)} :
             IF <<out.arg, n>> \in Within THEN Range(out.pages[n]) = Real(Whole(n)) ELSE n \notin DOMAIN out.pages
      /\ out.op = "r" /\ ~dump.interrupts => out.size = MapThenSumSet(LAMBDA a : Vm(a).size, dump.areas)

=============================================================================
