----------------------------- MODULE PageOwner ------------------------------
(***************************************************************************)
(* page_owner (pageowner/pageowner.cpp).  While the kernel runs it writes  *)
(* the same record to every page of a block it hands out; the plugin finds *)
(* the blocks again from the records of the single pages, once, and every  *)
(* option adds up what it found.                                           *)
(***************************************************************************)
EXTENDS Integers, FiniteSets, Functions

CONSTANTS
  MaxPfn,        \* max_pfn; min_low_pfn is 0
  MaxOrder,      \* the largest order of a block
  Callers,       \* who allocates: <<handle, pid>>, 0 a full stack depot and swapper
  MaxKernelOps,  \* bound on what the kernel does before the dump
  MaxOwnerCmds   \* bound on the commands of a session

VARIABLES dump, pc, pos, out
owners == <<dump, pc, pos, out>>

\* Where page_owner is; no other command has these places.
Places == {"kernel", "page_owner", "pfn", "owner", "handles", "crash"}

\* The constants are bounds, and handles and pids are numbers.
ASSUME OwnerAssumption ==
  /\ MaxPfn \in Nat /\ MaxOrder \in Nat
  /\ Callers \subseteq Nat \X Nat

Pfns == 0..(MaxPfn - 1)
Block(p, o) == p..(p + 2^o - 1)

\* owner: the page_owner of each page and the ALLOCATED flag of its page_ext;
\* live: the blocks the kernel has given out; bad: pages whose record is not in
\* the dump.
InitOwner ==
  /\ dump = [owner |-> [p \in Pfns |-> [alloc |-> FALSE, order |-> 0, handle |-> 0, pid |-> 0, free_handle |-> 0]],
             live |-> {}, bad |-> {}, interrupts |-> FALSE, ops |-> 0]
  /\ pc = "kernel"
  /\ pos = [owner_map |-> {}, pfn |-> 0, handle_map |-> {}, todo |-> {}, records |-> {}, cmds |-> 0]
  /\ out = [op |-> "none"]

-----------------------------------------------------------------------------
(* The kernel: mm/page_owner.c. *)

KernelOp(live, owner) ==
  /\ pc = "kernel"
  /\ dump.ops < MaxKernelOps
  /\ dump' = [dump EXCEPT !.live = live, !.owner = owner, !.ops = @ + 1]
  /\ UNCHANGED <<pc, pos, out>>

Written(pfns, f) == [p \in Pfns |-> IF p \in pfns THEN f[p] ELSE dump.owner[p]]

\* The stack that frees pages.
FreeStack == 9

\* __set_page_owner
Alloc(p, o, h, pid) ==
  /\ p % 2^o = 0
  /\ Block(p, o) \subseteq {q \in Pfns : ~dump.owner[q].alloc}
  /\ KernelOp(dump.live \cup {[pfn |-> p, order |-> o, handle |-> h, pid |-> pid]},
              Written(Block(p, o), [q \in Block(p, o) |->
                [dump.owner[q] EXCEPT !.alloc = TRUE, !.order = o, !.handle = h, !.pid = pid]]))

\* __reset_page_owner: the order stays in the record, and the stack that freed the page
\* from then on.
Free(b) ==
  KernelOp(dump.live \ {b},
           Written(Block(b.pfn, b.order), [q \in Pfns |-> [dump.owner[q] EXCEPT !.alloc = FALSE, !.free_handle = FreeStack]]))

\* __split_page_owner
Split(b) ==
  /\ b.order > 0
  /\ KernelOp((dump.live \ {b}) \cup {[b EXCEPT !.pfn = q, !.order = 0] : q \in Block(b.pfn, b.order)},
              Written(Block(b.pfn, b.order), [q \in Pfns |-> [dump.owner[q] EXCEPT !.order = 0]]))

\* A dump with an unreadable record, or a user who interrupts: one fault at a time.
Panic ==
  /\ pc = "kernel"
  /\ \E bad \in {{}} \cup {{p} : p \in Pfns}, i \in BOOLEAN :
       /\ bad = {} \/ ~i
       /\ dump' = [dump EXCEPT !.bad = bad, !.interrupts = i]
  /\ pc' = "page_owner"
  /\ UNCHANGED <<pos, out>>

-----------------------------------------------------------------------------
(* The plugin. *)

Owner(p) == dump.owner[p]

CmdMain ==
  /\ pc = "page_owner"
  /\ pos.cmds < MaxOwnerCmds
  /\ pc' = IF pos.owner_map = {} THEN "pfn" ELSE "owner"
  /\ pos' = [pos EXCEPT !.cmds = @ + 1, !.pfn = 0]
  /\ out' = [op |-> "none"]
  /\ UNCHANGED dump

\* Mutant: a block is listed at every one of its pages.
IsHeadAny(p) == TRUE

\* IS_ALIGNED(pfn, 1 << order)
IsHead(p) == p % 2^(Owner(p).order) = 0

\* Mutant: a page without an owner is not stepped over.
ParsePfnStays ==
  /\ pc = "pfn"
  /\ IF pos.pfn = MaxPfn
     THEN pc' = "owner" /\ UNCHANGED pos
     ELSE /\ pos' = IF Owner(pos.pfn).alloc /\ pos.pfn \notin dump.bad /\ IsHead(pos.pfn)
                    THEN [pos EXCEPT !.pfn = @ + 1, !.owner_map = @ \cup {pos.pfn}] ELSE pos
          /\ UNCHANGED pc
  /\ UNCHANGED <<dump, out>>

\* One turn of the loop of parser_all_pageowners.
ParsePfn ==
  /\ pc = "pfn"
  /\ IF pos.pfn = MaxPfn
     THEN pc' = "owner" /\ UNCHANGED pos
     ELSE /\ pos' = [pos EXCEPT !.pfn = @ + 1,
                       !.owner_map = IF Owner(pos.pfn).alloc /\ pos.pfn \notin dump.bad /\ IsHead(pos.pfn)
                                     THEN @ \cup {pos.pfn} ELSE @]
          /\ UNCHANGED pc
  /\ UNCHANGED <<dump, out>>

SizeOf(pfns) == SumFunctionOnSet([p \in Pfns |-> 2^(Owner(p).order)], pfns)
\* A row for each value of a field: how many blocks, and their pages.
RowsBy(field, pfns) ==
  {LET of == {p \in pfns : Owner(p)[field] = v}
   IN  [key |-> v, cnt |-> Cardinality(of), size |-> SizeOf(of)] : v \in {Owner(p)[field] : p \in pfns}}
WithHandle == {p \in pos.owner_map : Owner(p).handle > 0}

\* print_total_size_by_handle: handle_map is filled by its first use; the
\* unordered_map gives the entries in any order.
FillHandles ==
  /\ pc = "owner"
  /\ pos' = [pos EXCEPT !.todo = IF pos.handle_map = {} THEN WithHandle ELSE {}]
  /\ pc' = "handles"
  /\ UNCHANGED <<dump, out>>

CountHandle ==
  /\ pc = "handles"
  /\ \E p \in pos.todo :
       pos' = [pos EXCEPT !.todo = @ \ {p}, !.handle_map = @ \cup {p}]
  /\ UNCHANGED <<dump, pc, out>>

PrintHandles ==
  /\ pc = "handles"
  /\ pos.todo = {}
  /\ out' = [op |-> "t",
             rows |-> {[row |-> r, pids |-> RowsBy("pid", {p \in pos.handle_map :
                                                   Owner(p).handle = r.key /\ Owner(p).pid > 0})] :
                         r \in RowsBy("handle", pos.handle_map)}]
  /\ pos' = [pos EXCEPT !.records = @ \cup {Owner(p).handle : p \in pos.handle_map}]
  /\ pc' = "page_owner"
  /\ UNCHANGED dump

\* print_memory_info
PrintMemory ==
  /\ pc = "owner"
  /\ out' = [op |-> "m", rows |-> RowsBy("pid", {p \in WithHandle : Owner(p).pid > 0}),
             records |-> Cardinality(pos.records)]
  /\ pc' = "page_owner"
  /\ UNCHANGED <<dump, pos>>

\* The range print_page_owner shows, from the page and the order in its record.
RangeOf(p) == <<p, p + 2^(Owner(p).order)>>

\* print_all_page_owner(true)
PrintAll ==
  /\ pc = "owner"
  /\ out' = [op |-> "a", ranges |-> {RangeOf(p) : p \in WithHandle}]
  /\ pos' = [pos EXCEPT !.records = @ \cup {Owner(p).handle : p \in WithHandle}]
  /\ pc' = "page_owner"
  /\ UNCHANGED dump

\* print_all_page_owner(false), -f: the stack that freed a page before it was allocated.
PrintFree ==
  /\ pc = "owner"
  /\ LET freed == {p \in pos.owner_map : Owner(p).free_handle > 0}
     IN  /\ out' = [op |-> "f", ranges |-> {RangeOf(p) : p \in freed}]
         /\ pos' = [pos EXCEPT !.records = @ \cup {Owner(p).free_handle : p \in freed}]
  /\ pc' = "page_owner"
  /\ UNCHANGED dump

\* Mutant: the ALLOCATED flag is not looked at.
IsShownAny(flag, p) == flag = "n" => p > 0

\* The early returns of print_page_owner: an argument 0, a page that is not given out.
IsShown(flag, p) == (flag = "n" => p > 0) /\ Owner(p).alloc

\* print_page_owner of one page, given by its number ("n") or by an address in it or its
\* struct page ("P", for -p and -P).  The record is used even if it could not be read.
PrintPage(flag, p) ==
  /\ pc = "owner"
  /\ \/ /\ ~IsShown(flag, p)
        /\ out' = [op |-> flag, pfn |-> p, rows |-> {}]
        /\ pc' = "page_owner"
        /\ UNCHANGED pos
     \/ /\ IsShown(flag, p) /\ p \in dump.bad
        /\ pc' = "crash"
        /\ UNCHANGED <<pos, out>>
     \/ /\ IsShown(flag, p) /\ p \notin dump.bad
        /\ LET stacks == {Owner(p).handle, Owner(p).free_handle} \ {0}
           IN  /\ out' = [op |-> flag, pfn |-> p,
                          rows |-> {[stack |-> h, pid |-> Owner(p).pid, range |-> RangeOf(p)] : h \in stacks}]
               /\ pos' = [pos EXCEPT !.records = @ \cup stacks]
        /\ pc' = "page_owner"
  /\ UNCHANGED dump

Restart ==
  /\ dump.interrupts
  /\ pc \in {"pfn", "owner", "handles"}
  /\ pc' = "page_owner"
  /\ UNCHANGED <<dump, pos, out>>

NextOwner ==
  \/ \E p \in Pfns, o \in 0..MaxOrder, c \in Callers : Alloc(p, o, c[1], c[2])
  \/ \E b \in dump.live : Free(b) \/ Split(b)
  \/ Panic \/ CmdMain \/ ParsePfn \/ FillHandles \/ CountHandle
  \/ PrintHandles \/ PrintMemory \/ PrintAll \/ PrintFree \/ Restart
  \/ \E flag \in {"n", "P"}, p \in Pfns : PrintPage(flag, p)

SpecOwner == InitOwner /\ [][NextOwner]_owners

-----------------------------------------------------------------------------

Whole == dump.bad = {} /\ ~dump.interrupts
Named(f(_)) == {b \in dump.live : b.handle > 0 /\ f(b)}
AmountOf(bs) == SumFunctionOnSet([b \in dump.live |-> 2^b.order], bs)

\* Blocks that were split, freed and handed out again in other sizes are told
\* apart: what is listed is a block the kernel has given out, so that no page is
\* shown in two ranges, and if all can be read every block is listed.
OwnerBlocks ==
  /\ \A p \in pos.owner_map : \E b \in dump.live : b.pfn = p /\ b.order = Owner(p).order
  /\ out.op = "a" /\ Whole =>
       out.ranges = {<<b.pfn, b.pfn + 2^b.order>> : b \in Named(LAMBDA b : TRUE)}

\* The totals of -m by process and of -t by stack, and those by process under a
\* stack, are those of the kernel's blocks; if something was lost or abandoned
\* they are never larger.
OwnerTotals ==
  LET Agree(r, bs) == /\ r.cnt <= Cardinality(bs) /\ r.size <= AmountOf(bs)
                      /\ Whole => r.cnt = Cardinality(bs) /\ r.size = AmountOf(bs)
  IN  /\ out.op = "m" /\ Whole => {r.key : r \in out.rows} = {b.pid : b \in Named(LAMBDA b : b.pid > 0)}
      /\ out.op = "m" => \A r \in out.rows : Agree(r, Named(LAMBDA b : b.pid = r.key))
      /\ out.op = "t" /\ Whole => {t.row.key : t \in out.rows} = {b.handle : b \in Named(LAMBDA b : TRUE)}
      /\ out.op = "t" => \A t \in out.rows :
           /\ Agree(t.row, Named(LAMBDA b : b.handle = t.row.key))
           /\ \A r \in t.pids : Agree(r, Named(LAMBDA b : b.handle = t.row.key /\ b.pid = r.key))

\* A page that is given out is shown with the stack and the process its block was given to,
\* be it the first page of the block or not; the range shown is the block's only for the
\* first page.  Nothing is shown of a page that is free, neither here nor by -f, which is
\* about blocks that are in use again.
OwnerOfPage ==
  /\ out.op \in {"n", "P"} =>
       LET blocks == {b \in dump.live : out.pfn \in Block(b.pfn, b.order)}
       IN  /\ \A r \in out.rows : \E b \in blocks :
                /\ r.stack \in {b.handle, FreeStack} /\ r.pid = b.pid
                /\ r.range = <<b.pfn, b.pfn + 2^b.order>> <=> out.pfn = b.pfn
           /\ out.pfn > 0 => \A b \in blocks : b.handle > 0 => \E r \in out.rows : r.stack = b.handle
  /\ out.op = "f" =>
       \A r \in out.ranges : \E b \in dump.live : r = <<b.pfn, b.pfn + 2^b.order>>

\* page_owner finds the blocks the kernel has given out, and its totals are those
\* of the blocks; a page looked up by itself is shown with the owner of its block.
OwnerExact == pc \in Places => OwnerBlocks /\ OwnerTotals /\ OwnerOfPage

=============================================================================
