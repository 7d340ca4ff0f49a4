------------------------------- MODULE Meminfo ------------------------------
(***************************************************************************)
(* The meminfo command of a session (memory/meminfo.cpp): the kernel's     *)
(* counters are read once (parse_meminfo), then shown by name and combined *)
(* (-a, -b, -v).  A counter is found by the value its enumerator has in    *)
(* this kernel; enums[] gives 0 for a name the kernel does not have.       *)
(* Amounts are pages, in unsigned words of Word values.                    *)
(***************************************************************************)
EXTENDS Integers, Sequences, FiniteSets, FiniteSetsExt, SequencesExt

CONSTANTS NodeItems,   \* names of the node counters the command asks for
          EnumOf,      \* the kernels: functions from some of these names to 0 ...
          NodeStats,   \* values of the node counters: sequences, as the kernel has them
          EventStats,  \* one event counter of each cpu
          Amounts,     \* the other quantities: [free, reserve, zones, inodes, total, ratio, huge,
                       \*   swapfiles, swap, used]
          Reserved,    \* reserved regions: Seq([size, name])
          NoMapNodes,  \* device tree nodes with no-map: a bag, [name -> how many]
          Word,        \* 2^64 in the code
          MaxMemCmds   \* bound on the commands of a session

VARIABLES dump, pc, pos, out
vars == <<dump, pc, pos, out>>

NrCpus == Len(dump.events)

Init ==
  /\ dump \in [enum : EnumOf, node : NodeStats, events : EventStats, amount : Amounts, reserved : Reserved, smp : BOOLEAN,
               interrupts : BOOLEAN]
  /\ pc = "prompt"
  /\ pos = [cmds |-> 0, opt |-> "a", node_page_state |-> <<>>, zone_page_state |-> <<>>, vm_event_page_state |-> <<>>,
            cpu |-> 1, stopped |-> FALSE]
  /\ out = [op |-> "none"]

-----------------------------------------------------------------------------

\* cmd_main: parse_meminfo as long as one of the two lists is empty.
CmdMain ==
  /\ pc = "prompt"
  /\ pos.cmds < MaxMemCmds
  /\ \E opt \in {"a", "b", "v"} :
       /\ pos' = [pos EXCEPT !.cmds = @ + 1, !.opt = opt, !.cpu = 1]
       /\ pc' = IF pos.node_page_state = <<>> \/ pos.zone_page_state = <<>> THEN "node" ELSE "print"
  /\ out' = [op |-> "none"]
  /\ UNCHANGED dump

Clipped(s) == [k \in DOMAIN s |-> IF s[k] < 0 THEN 0 ELSE s[k]]
IfSmp(s) == IF dump.smp THEN Clipped(s) ELSE <<>>

\* parse_meminfo: the node counters, then those of the zones (here the free pages),
\* then the events of one cpu after the other; every list is appended to.
ParseNode ==
  /\ pc = "node"
  /\ pos' = [pos EXCEPT !.node_page_state = @ \o IfSmp(dump.node)]
  /\ pc' = "zone"
  /\ UNCHANGED <<dump, out>>
ParseZone ==
  /\ pc = "zone"
  /\ pos' = [pos EXCEPT !.zone_page_state = @ \o IfSmp(<<dump.amount.free>>)]
  /\ pc' = "event"
  /\ UNCHANGED <<dump, out>>
ParseEvents ==
  /\ pc = "event"
  /\ IF pos.cpu > NrCpus
     THEN pc' = "print" /\ UNCHANGED pos
     ELSE /\ pos' = [pos EXCEPT !.cpu = @ + 1, !.vm_event_page_state = Append(@, IfSmp(<<dump.events[pos.cpu]>>))]
          /\ UNCHANGED pc
  /\ UNCHANGED <<dump, out>>

\* An enumerator's value, 0 for one that is not there.
Enum(n) == IF n \in DOMAIN dump.enum THEN dump.enum[n] ELSE 0
Node(n) == pos.node_page_state[Enum(n) + 1]
Free == pos.zone_page_state[1]
U(x) == x % Word
Signed(x) == IF U(x) >= Word \div 2 THEN U(x) - Word ELSE U(x)
Least(a, b) == IF a < b THEN a ELSE b

\* The sums over the zones, the inodes of the block devices and the swap areas that
\* are being switched off.
Total(s, F(_)) == FoldLeft(LAMBDA n, x : n + F(x), 0, s)
get_wmark_low == Total(dump.amount.zones, LAMBDA z : z.low + z.boost)
get_blockdev_nr_pages == Total(dump.amount.inodes, LAMBDA n : n)
get_to_be_unused_nr_pages == Total(dump.amount.swapfiles, LAMBDA f : IF f.used /\ ~f.writeok THEN f.inuse ELSE 0)

\* Mutant: the watermark is taken off whole.
AvailableLow(free) ==
  LET cache == U(Node("ACTIVE_FILE") + Node("INACTIVE_FILE"))
      available == Signed(U(free - dump.amount.reserve) + U(cache - get_wmark_low))
  IN  IF available < 0 THEN 0 ELSE available

\* get_available, its parts unsigned and the sum signed.
get_available(free) ==
  LET cache == U(Node("ACTIVE_FILE") + Node("INACTIVE_FILE"))
      reclaimable == U(Node("MISC") + Node("SLAB"))
      Usable(n) == U(n - Least(n \div 2, get_wmark_low))
      available == Signed(U(free - dump.amount.reserve) + Usable(cache) + Usable(reclaimable))
  IN  IF available < 0 THEN 0 ELSE available

\* get_vm_commit_pages without sysctl_overcommit_kbytes: of each huge page pool
\* nr_huge_pages + pages per huge page are taken off.
get_vm_commit_pages ==
  LET a == dump.amount IN U(((a.total - IF a.huge = 0 THEN 0 ELSE a.huge + 2) * a.ratio) \div 100 + a.swap)

\* The pages of the block devices and of the swap cache are taken off the page cache.
Cached == U(Node("FILE_PAGES") - Node("SWAPCACHE") - get_blockdev_nr_pages)

\* print_meminfo; without CONFIG_SMP the lists are empty and are read out of bounds.
PrintMeminfo ==
  /\ pc = "print"
  /\ pos.opt = "a"
  /\ IF pos.node_page_state = <<>>
     THEN pc' = "undefined" /\ UNCHANGED out
     ELSE /\ pc' = "prompt"
          /\ out' = [op |-> "a", available |-> get_available(Free), cached |-> Cached, commit |-> get_vm_commit_pages,
                     swapfree |-> get_to_be_unused_nr_pages + dump.amount.swap,
                     counters |-> [n \in NodeItems |-> Node(n)]]
  /\ UNCHANGED <<dump, pos>>

\* get_nomap_size: a region counts once for every node of its name with no-map.
get_nomap_size ==
  Total(dump.reserved, LAMBDA r : r.size * (IF r.name \in DOMAIN NoMapNodes THEN NoMapNodes[r.name] ELSE 0))

\* print_mem_breakdown: what is left of the memory when the rest is taken off.
PrintBreakdown ==
  /\ pc = "print"
  /\ pos.opt = "b"
  /\ IF pos.node_page_state = <<>>
     THEN pc' = "undefined" /\ UNCHANGED out
     ELSE /\ pc' = "prompt"
          /\ out' = [op |-> "b", nomap |-> get_nomap_size, cached |-> Cached,
                     other |-> U(dump.amount.total - (Free + get_blockdev_nr_pages + Cached) - dump.amount.used)]
  /\ UNCHANGED <<dump, pos>>

\* print_vmstat: each counter under its own name, each event summed over the cpus.
PrintVmstat ==
  /\ pc = "print"
  /\ pos.opt = "v"
  /\ IF Len(pos.vm_event_page_state) < NrCpus \/ ~dump.smp
     THEN pc' = "undefined" /\ UNCHANGED out
     ELSE /\ pc' = "prompt"
          /\ out' = [op |-> "v", counters |-> [n \in DOMAIN dump.enum |-> Node(n)],
                     events |-> Total(SubSeq(pos.vm_event_page_state, 1, NrCpus), LAMBDA c : c[1])]
  /\ UNCHANGED <<dump, pos>>

\* An error or ^C while the memory of the dump is read (external).
Restart ==
  /\ dump.interrupts
  /\ pc \in {"node", "zone", "event"}
  /\ pc' = "prompt"
  /\ pos' = [pos EXCEPT !.stopped = TRUE]
  /\ UNCHANGED <<dump, out>>

Next == CmdMain \/ ParseNode \/ ParseZone \/ ParseEvents \/ PrintMeminfo \/ PrintBreakdown \/ PrintVmstat \/ Restart

Spec == Init /\ [][Next]_vars /\ WF_vars(Next)

-----------------------------------------------------------------------------

\* A counter is shown with the value the kernel has under that name, 0 for a
\* negative one, also when an earlier reading was interrupted and the lists hold a
\* part twice; a name this kernel does not have shows the first counter.
CountersExact ==
  out.op \in {"a", "v"} => \A n \in DOMAIN out.counters :
    out.counters[n] = Clipped(dump.node)[IF n \in DOMAIN dump.enum THEN dump.enum[n] + 1 ELSE 1]

\* MemAvailable is what the kernel computes with signed numbers, however the mixed
\* arithmetic wraps, and never more than all that is free or can be reclaimed.
AvailableRight ==
  out.op = "a" =>
    LET Stat(n) == Clipped(dump.node)[Enum(n) + 1]
        cache == Stat("ACTIVE_FILE") + Stat("INACTIVE_FILE")
        slab == Stat("MISC") + Stat("SLAB")
        a == dump.amount
        Half(n) == n - Least(n \div 2, get_wmark_low)
        exact == a.free - a.reserve + Half(cache) + Half(slab)
    IN  out.available = (IF exact < 0 THEN 0 ELSE exact) /\ out.available <= a.free + cache + slab

\* The parts -b shows add up to the whole, as long as the counters of the page cache
\* agree with each other; else Cached wraps around and Other takes up the difference.
BreakdownAddsUp ==
  out.op = "b" =>
    /\ U(out.other + out.cached + dump.amount.free + get_blockdev_nr_pages + dump.amount.used) = U(dump.amount.total)
    /\ LET Stat(n) == Clipped(dump.node)[Enum(n) + 1]
       IN  Stat("FILE_PAGES") >= Stat("SWAPCACHE") + get_blockdev_nr_pages => out.cached <= Stat("FILE_PAGES")

\* Lists are read past their ends only in a kernel without CONFIG_SMP, or for -v after
\* a reading that stopped between two cpus.
UndefinedOnlyWhen == pc = "undefined" => ~dump.smp \/ (pos.opt = "v" /\ pos.stopped)

\* Each event is counted once per cpu.
EventsExact == out.op = "v" /\ ~pos.stopped => out.events = Total(Clipped(dump.events), LAMBDA e : e)

=============================================================================
