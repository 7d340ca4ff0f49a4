------------------------------ MODULE Procrank ------------------------------
(***************************************************************************)
(* The procrank command of a session (procrank/procrank.cpp): the memory   *)
(* of every process added up page by page into procrank_list, which is     *)
(* filled once, and printed with totals (-a); the command lines (-c).      *)
(* A page of a vma is [map, count]: "present" with its _mapcount word,     *)
(* "swap", or "none".                                                      *)
(***************************************************************************)
EXTENDS Integers, Sequences, FiniteSets, SequencesExt

CONSTANTS ProcSets,     \* the processes: Seq of [tc, args, vmas], a vma Seq(page)
          PageSize,
          MaxRankCmds   \* bound on the commands of a session

VARIABLES dump, pc, pos, out
vars == <<dump, pc, pos, out>>

None == [vss |-> 0, rss |-> 0, pss |-> 0, uss |-> 0, swap |-> 0]
Add(a, b) == [f \in DOMAIN a |-> a[f] + b[f]]

Init ==
  /\ dump \in [procs : ProcSets, zram : BOOLEAN, interrupts : BOOLEAN]
  /\ pc = "prompt"
  /\ pos = [cmds |-> 0, i |-> 1, list |-> <<>>, total |-> None, built |-> FALSE, stopped |-> FALSE]
  /\ out = [op |-> "none", rows |-> <<>>, total |-> None]

-----------------------------------------------------------------------------

\* Mutant: a page is shared by one process more.
OfPageShared(p) ==
  CASE p.map = "none" -> None
    [] p.map = "swap" -> [None EXCEPT !.swap = PageSize]
    [] p.map = "present" -> [None EXCEPT !.rss = PageSize, !.pss = PageSize \div (p.count + 1),
                                         !.uss = IF p.count <= 1 THEN PageSize ELSE 0]

\* What one page adds in the loop of parser_vma.  A present page whose _mapcount is
\* 0 is taken for one that was unmapped.
OfPage(p) ==
  CASE p.map = "none" -> None
    [] p.map = "swap" -> [None EXCEPT !.swap = PageSize]
    [] p.map = "present" -> IF p.count = 0 THEN None
                            ELSE [None EXCEPT !.rss = PageSize, !.pss = PageSize \div p.count,
                                              !.uss = IF p.count = 1 THEN PageSize ELSE 0]
parser_vma(pages) ==
  FoldLeft(LAMBDA m, p : Add(m, OfPage(p)), [None EXCEPT !.vss = Len(pages) * PageSize], pages)
OfProcess(p) == FoldLeft(LAMBDA m, v : Add(m, parser_vma(v)), None, p.vmas)

\* cmd_main: -a needs zram, and fills the list when it is empty; the totals are the
\* command's own.
CmdMain ==
  /\ pc = "prompt"
  /\ pos.cmds < MaxRankCmds
  /\ \E opt \in {"a", "c"} :
       /\ pc' = IF opt = "c" THEN "name" ELSE IF ~dump.zram THEN "prompt" ELSE IF pos.list = <<>> THEN "parse" ELSE "print"
       /\ out' = [op |-> opt, rows |-> <<>>, total |-> None]
  /\ pos' = [pos EXCEPT !.cmds = @ + 1, !.i = 1, !.total = None, !.built = FALSE]
  /\ UNCHANGED dump

\* read_start_args: the name of the task where the arguments cannot be read.
Cmdline(p) == IF p.args = "" THEN p.tc ELSE p.args

ByRss(list) == \A i \in 1..(Len(list) - 1) : list[i].mem.rss >= list[i + 1].mem.rss
\* std::sort by rss, the largest first.
Sorted(list) ==
  LET perms == {p \in [DOMAIN list -> DOMAIN list] : \A i, j \in DOMAIN list : i # j => p[i] # p[j]}
      good == {p \in perms : ByRss([i \in DOMAIN list |-> list[p[i]]])}
      p == CHOOSE q \in good : TRUE
  IN  [i \in DOMAIN list |-> list[p[i]]]

\* One turn of the loop of parser_process_memory, and the sort behind it.
ParseProcess ==
  /\ pc = "parse"
  /\ IF pos.i > Len(dump.procs)
     THEN pc' = "print" /\ pos' = [pos EXCEPT !.list = Sorted(@), !.built = TRUE]
     ELSE LET p == dump.procs[pos.i]
          IN  /\ pos' = IF p.tc = "" THEN [pos EXCEPT !.i = @ + 1]
                        ELSE [pos EXCEPT !.i = @ + 1, !.total = Add(@, OfProcess(p)),
                                         !.list = Append(@, [pid |-> pos.i, mem |-> OfProcess(p), cmdline |-> Cmdline(p)])]
              /\ UNCHANGED pc
  /\ UNCHANGED <<dump, out>>

PrintMemory ==
  /\ pc = "print"
  /\ pc' = "prompt"
  /\ out' = [out EXCEPT !.rows = pos.list, !.total = pos.total]
  /\ UNCHANGED <<dump, pos>>

\* parser_process_name: a row for each process with a task context.
PrintNames ==
  /\ pc = "name"
  /\ pc' = "prompt"
  /\ out' = [out EXCEPT !.rows =
       LET Row(i) == IF dump.procs[i].tc = "" THEN <<>>
                     ELSE <<[pid |-> i, mem |-> None, cmdline |-> IF dump.zram THEN Cmdline(dump.procs[i]) ELSE dump.procs[i].tc]>>
       IN  FlattenSeq([i \in DOMAIN dump.procs |-> Row(i)])]
  /\ UNCHANGED <<dump, pos>>

\* An error or ^C while the processes are read (external).
Restart ==
  /\ dump.interrupts
  /\ pc = "parse"
  /\ pc' = "prompt"
  /\ pos' = [pos EXCEPT !.stopped = @ \/ pos.list # <<>>]
  /\ UNCHANGED <<dump, out>>

Next == CmdMain \/ ParseProcess \/ PrintMemory \/ PrintNames \/ Restart

Spec == Init /\ [][Next]_vars /\ WF_vars(Next)

-----------------------------------------------------------------------------

Tasks == {i \in DOMAIN dump.procs : dump.procs[i].tc # ""}

\* Every process has one row with its own amounts, however many commands ran; rows
\* are missing, and not in order, only after a first listing that was interrupted.
RankRowsExact ==
  /\ \A i, j \in DOMAIN pos.list : pos.list[i].pid = pos.list[j].pid => i = j
  /\ \A i \in DOMAIN pos.list : pos.list[i].mem = OfProcess(dump.procs[pos.list[i].pid])
  /\ pc = "print" /\ ~pos.stopped => {pos.list[i].pid : i \in DOMAIN pos.list} = Tasks /\ ByRss(pos.list)

\* The amounts of a process are nested: what it has alone, its share, what is
\* resident, what is mapped; and what is swapped is not resident.
AmountsNested ==
  \A i \in DOMAIN pos.list :
    LET m == pos.list[i].mem IN m.uss <= m.pss /\ m.pss <= m.rss /\ m.rss + m.swap <= m.vss

\* The totals are those of the rows in the command that filled the list; a later
\* command prints the rows it kept with totals of 0.
TotalsOfThisCommand ==
  pc = "prompt" /\ out.op = "a" /\ dump.zram /\ out.rows # <<>> /\ ~pos.stopped =>
    out.total = IF pos.built THEN FoldLeft(LAMBDA m, r : Add(m, r.mem), None, out.rows) ELSE None

=============================================================================
