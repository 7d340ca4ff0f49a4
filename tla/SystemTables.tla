---------------------------- MODULE SystemTables ----------------------------
(***************************************************************************)
(* Three commands with a table each over a session, and one without: df    *)
(* (partition/filesystem.cpp), cpu (cpu/cpuinfo.cpp), cache -f             *)
(* (pagecache/pageinfo.cpp) and sched (task/task_sched.cpp).  They are     *)
(* state machines of their own over the same variables.  ^C or a fatal     *)
(* error returns to the prompt and leaves what was read so far.            *)
(***************************************************************************)
EXTENDS Integers, Sequences, FiniteSets, SequencesExt, FiniteSetsExt

CONSTANTS   \* df
  MountTrees,    \* sequences of [kids, sb, ok]: mount 1 is the root, kids are mounts
  SuperBlocks,   \* functions from super blocks to their counters
  UintBits,      \* the width of uint32_t
  UlongBits      \* the width of ulong

CONSTANTS   \* cpu
  Policies,      \* sequences with NoPolicy or a frequency table for each cpu
  NoPolicy,      \* the cpu has none
  Invalid,       \* an entry with CPUFREQ_ENTRY_INVALID (0xffff)
  MaxFreqs       \* entries that fit into the memory of the program

CONSTANTS   \* cache, sched
  InodeSets,     \* sequences of [dentries, nrpages], the inodes with pages
  ThreadLists    \* sequences of [cpu, arrival, enqueued, sleep], the threads

CONSTANT MaxSysCmds  \* bound on the commands of a session

VARIABLES dump, pc, pos, out
vars == <<dump, pc, pos, out>>

\* Back to the prompt in the middle of a first reading.
Abandon(reading) ==
  /\ dump.interrupts
  /\ pc = reading
  /\ pc' = "prompt"
  /\ UNCHANGED <<dump, pos, out>>

-----------------------------------------------------------------------------
(***************************************************************************)
(* df: the mounts of the first namespace, in the order of a walk over the  *)
(* tree with the level of each, and the super blocks with the first mount  *)
(* of each.                                                                *)
(***************************************************************************)

InitDf ==
  /\ dump \in [mounts : MountTrees, supers : SuperBlocks, interrupts : BOOLEAN]
  /\ pc = "prompt"
  /\ pos = [mount_list |-> <<>>, sb_list |-> <<>>, calls |-> <<>>, op |-> "t", cmds |-> 0]
  /\ out = <<>>

CmdMainDf(o) ==
  /\ pc = "prompt"
  /\ pos.cmds < MaxSysCmds
  /\ pos' = [pos EXCEPT !.cmds = @ + 1, !.op = o, !.calls = <<[mount |-> 1, level |-> 0]>>]
  /\ pc' = IF pos.mount_list = <<>> THEN "parser_mount_tree" ELSE "option"
  /\ out' = <<>>
  /\ UNCHANGED dump

\* Mutant: the last mount of a super block is kept.
SbListLast(sb, m) == (sb :> m) @@ pos.sb_list

\* The first mount of a super block is kept.
SbList(sb, m) == pos.sb_list @@ (sb :> m)

\* One call of parser_mount_tree: a mount that parser_mount gives up on is left out with
\* all that is mounted below it.
ParserMountTree ==
  /\ pc = "parser_mount_tree"
  /\ IF pos.calls = <<>>
     THEN pc' = "option" /\ UNCHANGED pos
     ELSE LET call == Head(pos.calls)
              m == dump.mounts[call.mount]
              kids == [i \in DOMAIN m.kids |-> [mount |-> m.kids[i], level |-> call.level + 1]]
          IN  /\ pos' = IF m.ok
                        THEN [pos EXCEPT !.mount_list = Append(@, call), !.sb_list = SbList(m.sb, call.mount),
                                         !.calls = kids \o Tail(@)]
                        ELSE [pos EXCEPT !.calls = Tail(@)]
              /\ UNCHANGED pc
  /\ UNCHANGED <<dump, out>>

\* df -t.
PrintMountTree ==
  /\ pc = "option" /\ pos.op = "t"
  /\ out' = pos.mount_list
  /\ pc' = "prompt"
  /\ UNCHANGED <<dump, pos>>

Uint(n) == n % (2 ^ UintBits)
Ulong(n) == n % (2 ^ UlongBits)

\* percpu_counter_sum: the counter and what each cpu has not yet added to it.
percpu_counter_sum(c) == c.count + FoldLeft(LAMBDA a, b : a + b, 0, c.counters)

\* f_blocks and f_bfree of F2fs::statfs and Ext4::statfs.  f2fs counts in uint32_t; the
\* clusters of ext4 are shifted to blocks.
Blocks(s) ==
  IF s.fs = "f2fs" THEN Ulong(s.total - s.start) ELSE Ulong(s.count - (s.overhead * (2 ^ s.cluster_bits)))
Bfree(s) ==
  IF s.fs = "f2fs" THEN Uint(s.user - s.valid - s.reserved)
  ELSE Ulong((percpu_counter_sum(s.free) - percpu_counter_sum(s.dirty)) * (2 ^ s.cluster_bits))

\* Mount::statfs.
Statfs(m, s) ==
  LET size == Ulong(s.bsize * Blocks(s))
      used == Ulong(s.bsize * (Blocks(s) - Bfree(s)))
  IN  [mount |-> m, size |-> size, used |-> used, avail |-> Ulong(size - used)]

\* df -s, in the order of an unordered_map; a super block whose own data cannot be read
\* is left out.
PrintPartitionSize ==
  /\ pc = "option" /\ pos.op = "s"
  /\ out' = {Statfs(pos.sb_list[sb], dump.supers[sb]) :
               sb \in {b \in DOMAIN pos.sb_list : dump.supers[b].fs \in {"f2fs", "ext4"} /\ dump.supers[b].ok}}
  /\ pc' = "prompt"
  /\ UNCHANGED <<dump, pos>>

NextDf ==
  \/ \E o \in {"t", "s"} : CmdMainDf(o)
  \/ ParserMountTree \/ PrintMountTree \/ PrintPartitionSize
  \/ Abandon("parser_mount_tree")

\* The mounts that can be reached through mounts that are intact.
Below(m) ==
  LET closed(S) == m \in S /\ \A k \in S : dump.mounts[k].ok => Range(dump.mounts[k].kids) \subseteq S
  IN  {k \in DOMAIN dump.mounts : \A S \in SUBSET (DOMAIN dump.mounts) : closed(S) => k \in S}
Mounted == {m \in Below(1) : dump.mounts[m].ok}
Shown(o) == pc = "prompt" /\ pos.op = o /\ pos.cmds > 0 /\ ~dump.interrupts

\* df -t shows every mount that is reached once, below the mount it is on, with all that is
\* mounted below it directly behind it; after an interrupt it shows the beginning of that.
MountsExact ==
  /\ Shown("t") => {out[i].mount : i \in DOMAIN out} = Mounted
  /\ pos.op = "t" =>
       /\ \A i, j \in DOMAIN out : out[i].mount = out[j].mount => i = j
       /\ \A i \in DOMAIN out \ {1} : out[i].level > 0
       /\ \A i, j \in DOMAIN out :
            out[j].mount \in Range(dump.mounts[out[i].mount].kids) =>
              /\ i < j /\ out[j].level = out[i].level + 1
              /\ \A k \in i..j : out[k].mount \in Below(out[i].mount)

\* df -s shows a super block once however often it is mounted, at the mount df -t shows
\* first.
SuperBlocksOnce ==
  Shown("s") =>
    {r.mount : r \in out} =
      {m \in Mounted :
         /\ dump.supers[dump.mounts[m].sb].fs \in {"f2fs", "ext4"} /\ dump.supers[dump.mounts[m].sb].ok
         /\ \A i \in DOMAIN pos.mount_list :
              dump.mounts[pos.mount_list[i].mount].sb = dump.mounts[m].sb =>
                \E j \in 1..i : pos.mount_list[j].mount = m}

\* What df -s shows as used and as available adds up to the size, and is what the counters
\* say whenever they are consistent; for f2fs this needs user blocks beyond the valid and the
\* reserved ones.
SizesExact ==
  Shown("s") =>
    \A r \in out :
      LET s == dump.supers[dump.mounts[r.mount].sb]
          free == IF s.fs = "f2fs" THEN s.user - s.valid - s.reserved
                  ELSE (percpu_counter_sum(s.free) - percpu_counter_sum(s.dirty)) * (2 ^ s.cluster_bits)
      IN  /\ Ulong(r.used + r.avail) = r.size
          /\ free \in 0..Blocks(s) /\ s.bsize * Blocks(s) < 2 ^ UlongBits =>
               r.avail = s.bsize * free /\ r.used = s.bsize * (Blocks(s) - free)

-----------------------------------------------------------------------------
(***************************************************************************)
(* cpu: the policy of each cpu with its table of frequencies, read up to   *)
(* the entry with CPUFREQ_TABLE_END (0xfffe).  A table is [freqs, ended]:  *)
(* without the end, or at an address that cannot be read, the entries      *)
(* behind it are read as 0.                                                *)
(***************************************************************************)

InitCpu ==
  /\ dump \in [policies : Policies, interrupts : BOOLEAN]
  /\ pc = "prompt"
  /\ pos = [cpu_infos |-> <<>>, cpu |-> 1, freq_table |-> <<>>, index |-> 1, op |-> "p", cmds |-> 0]
  /\ out = <<>>

CmdMainCpu(o) ==
  /\ pc = "prompt"
  /\ pos.cmds < MaxSysCmds
  /\ pos' = [pos EXCEPT !.cmds = @ + 1, !.op = o, !.cpu = 1, !.freq_table = <<>>, !.index = 1]
  /\ pc' = IF pos.cpu_infos = <<>> THEN "parser_cpu_policy" ELSE "option"
  /\ out' = <<>>
  /\ UNCHANGED dump

Frequency(table, index) == IF index > Len(table.freqs) THEN 0 ELSE table.freqs[index]

\* Mutant: the last frequency is taken for the end.
AtEndEarly(table, index) == table.ended /\ index >= Len(table.freqs)

\* Is the entry the one that ends the table?
AtEnd(table, index) == table.ended /\ index > Len(table.freqs)

\* One turn of the loop over the frequencies in parser_cpu_policy, or of the loop over
\* the cpus.  An invalid entry is read again and again: index is not increased.
ParserCpuPolicy ==
  /\ pc = "parser_cpu_policy"
  /\ IF pos.cpu > Len(dump.policies)
     THEN pc' = "option" /\ UNCHANGED pos
     ELSE LET table == dump.policies[pos.cpu]
              next == [pos EXCEPT !.cpu = @ + 1, !.freq_table = <<>>, !.index = 1]
          IN  IF table = NoPolicy THEN pos' = next /\ UNCHANGED pc
              ELSE IF AtEnd(table, pos.index)
              THEN /\ pos' = [next EXCEPT !.cpu_infos = Append(@, [cpu |-> pos.cpu, freq_table |-> pos.freq_table])]
                   /\ UNCHANGED pc
              ELSE IF Frequency(table, pos.index) = Invalid THEN UNCHANGED <<pos, pc>>
              ELSE /\ pos' = [pos EXCEPT !.freq_table = Append(@, Frequency(table, pos.index)), !.index = @ + 1]
                   /\ pc' = IF pos.index = MaxFreqs THEN "exhausted" ELSE pc
  /\ UNCHANGED <<dump, out>>

\* cpu -p: the cpu of a row is its place in the list.
PrintCpuPolicy ==
  /\ pc = "option" /\ pos.op = "p"
  /\ out' = [i \in DOMAIN pos.cpu_infos |-> [label |-> i, of |-> pos.cpu_infos[i].cpu]]
  /\ pc' = "prompt"
  /\ UNCHANGED <<dump, pos>>

\* cpu -f: a row for each place in the longest table, with "N/A" (-1) where a table has
\* ended.
PrintFreqTable ==
  /\ pc = "option" /\ pos.op = "f"
  /\ LET count == Max({0} \cup {Len(pos.cpu_infos[i].freq_table) : i \in DOMAIN pos.cpu_infos})
     IN  out' = [k \in 1..count |->
                   [i \in DOMAIN pos.cpu_infos |->
                      IF k <= Len(pos.cpu_infos[i].freq_table) THEN pos.cpu_infos[i].freq_table[k] ELSE -1]]
  /\ pc' = "prompt"
  /\ UNCHANGED <<dump, pos>>

NextCpu ==
  \/ \E o \in {"p", "f"} : CmdMainCpu(o)
  \/ ParserCpuPolicy \/ PrintCpuPolicy \/ PrintFreqTable
  \/ Abandon("parser_cpu_policy")

WithPolicy == {c \in DOMAIN dump.policies : dump.policies[c] # NoPolicy}

\* A policy is kept only whole, each once and in the order of the cpus, and cpu -f shows
\* in each column the frequencies of one table, whatever was interrupted; a listing that was
\* not interrupted has every policy.
PoliciesWhole ==
  /\ \A i \in DOMAIN pos.cpu_infos :
       /\ pos.cpu_infos[i].freq_table = dump.policies[pos.cpu_infos[i].cpu].freqs
       /\ \A j \in 1..(i - 1) : pos.cpu_infos[j].cpu < pos.cpu_infos[i].cpu
  /\ pc = "option" /\ ~dump.interrupts => {pos.cpu_infos[i].cpu : i \in DOMAIN pos.cpu_infos} = WithPolicy
  /\ pc = "prompt" /\ pos.op = "f" =>
       \A k \in DOMAIN out, i \in DOMAIN pos.cpu_infos :
         LET freqs == dump.policies[pos.cpu_infos[i].cpu].freqs
         IN  out[k][i] = IF k <= Len(freqs) THEN freqs[k] ELSE -1

\* cpu -p gives a policy the number of its own cpu when every cpu before it has one; behind
\* a cpu without a policy the numbers are too small.
CpuNumbers ==
  pc = "prompt" /\ pos.op = "p" =>
    \A i \in DOMAIN out :
      /\ out[i].label <= out[i].of
      /\ out[i].label = out[i].of <=> 1..out[i].of \subseteq WithPolicy

\* The command goes on reading for ever only at an invalid entry, and runs out of memory
\* only in a table without an end.
ReadsOn ==
  /\ pc = "exhausted" => ~dump.policies[pos.cpu].ended
  /\ pc = "option" => \A i \in DOMAIN pos.cpu_infos : Invalid \notin Range(dump.policies[pos.cpu_infos[i].cpu].freqs)

-----------------------------------------------------------------------------
(***************************************************************************)
(* cache -f: the inodes that have pages, sorted in place by their number   *)
(* of pages.  std::sort leaves equal ones in any order.                    *)
(***************************************************************************)

InitCache ==
  /\ dump \in [inodes : InodeSets, interrupts : BOOLEAN]
  /\ pc = "prompt"
  /\ pos = [cache_list |-> <<>>, inode |-> 1, cmds |-> 0]
  /\ out = <<>>

CmdMainCache ==
  /\ pc = "prompt"
  /\ pos.cmds < MaxSysCmds
  /\ pos' = [pos EXCEPT !.cmds = @ + 1, !.inode = 1]
  /\ pc' = IF pos.cache_list = <<>> THEN "parser_file_pages" ELSE "option"
  /\ out' = <<>>
  /\ UNCHANGED dump

\* The path of an inode: that of its first dentry that has one.
NameOf(dentries) ==
  LET named == SelectSeq(dentries, LAMBDA n : n # "") IN IF named = <<>> THEN "" ELSE named[1]

\* One inode of parser_file_pages.
ParserFilePages ==
  /\ pc = "parser_file_pages"
  /\ IF pos.inode > Len(dump.inodes)
     THEN pc' = "option" /\ UNCHANGED pos
     ELSE /\ pos' = [pos EXCEPT !.inode = @ + 1,
                                !.cache_list = Append(@, [inode |-> pos.inode, name |-> NameOf(dump.inodes[pos.inode].dentries),
                                                          nrpages |-> dump.inodes[pos.inode].nrpages])]
          /\ UNCHANGED pc
  /\ UNCHANGED <<dump, out>>

\* The orders std::sort may leave a list in, by the keys of its elements.
Sorted(list, key) ==
  {[i \in DOMAIN list |-> list[p[i]]] : p \in {q \in Permutations(DOMAIN list) :
     \A i, j \in DOMAIN list : i < j => key[q[i]] <= key[q[j]]}}

PrintFilePages ==
  /\ pc = "option"
  /\ \E list \in Sorted(pos.cache_list, [i \in DOMAIN pos.cache_list |-> -pos.cache_list[i].nrpages]) :
       /\ pos' = [pos EXCEPT !.cache_list = list]
       /\ out' = [total |-> FoldLeft(LAMBDA n, f : n + f.nrpages, 0, pos.cache_list), rows |-> list]
  /\ pc' = "prompt"
  /\ UNCHANGED dump

NextCache == CmdMainCache \/ ParserFilePages \/ PrintFilePages \/ Abandon("parser_file_pages")

\* cache -f shows every inode once, largest first, under a path of its own and none only if
\* it has none, and the total is that of the rows, whatever order the list was left in.
FilePagesExact ==
  pc = "prompt" /\ out # <<>> =>
    /\ ~dump.interrupts => {out.rows[i].inode : i \in DOMAIN out.rows} = DOMAIN dump.inodes
    /\ \A i, j \in DOMAIN out.rows :
         i < j => out.rows[i].inode # out.rows[j].inode /\ out.rows[i].nrpages >= out.rows[j].nrpages
    /\ \A i \in DOMAIN out.rows :
         LET names == Range(dump.inodes[out.rows[i].inode].dentries) \ {""}
         IN  IF names = {} THEN out.rows[i].name = "" ELSE out.rows[i].name \in names
    /\ out.total = MapThenSumSet(LAMBDA i : out.rows[i].nrpages, DOMAIN out.rows)

-----------------------------------------------------------------------------
(***************************************************************************)
(* sched -c: the threads of a cpu by the time they last arrived on it.     *)
(***************************************************************************)

InitSched ==
  /\ dump \in [threads : ThreadLists, cpu : 0..1]
  /\ pc = "start"
  /\ pos = <<>>
  /\ out = <<>>

\* for_each_threads returns the first thread twice.
Threads == <<1>> \o [i \in DOMAIN dump.threads |-> i]

\* Times are uint64_t: a thread that was queued after it last slept has no run time.
Runtime(t) == IF t.enqueued < t.sleep THEN t.sleep - t.enqueued ELSE 0

\* Nothing is printed, not even the heading, when the cpu has no thread.
PrintTaskTimestamps ==
  /\ pc = "start"
  /\ LET mine == SelectSeq(Threads, LAMBDA t : dump.threads[t].cpu = dump.cpu)
         rows == [i \in DOMAIN mine |-> [thread |-> mine[i], arrival |-> dump.threads[mine[i]].arrival,
                                         runtime |-> Runtime(dump.threads[mine[i]])]]
     IN  out' \in Sorted(rows, [i \in DOMAIN rows |-> rows[i].arrival])
  /\ pc' = "done"
  /\ UNCHANGED <<dump, pos>>

NextSched == PrintTaskTimestamps

\* sched -c shows every thread of the cpu and no other, the one that arrived last at the
\* end, and only the first thread of the system twice.
SchedExact ==
  pc = "done" =>
    /\ {out[i].thread : i \in DOMAIN out} = {t \in DOMAIN dump.threads : dump.threads[t].cpu = dump.cpu}
    /\ \A i, j \in DOMAIN out : i < j => out[i].arrival <= out[j].arrival
    /\ \A i, j \in DOMAIN out : i # j /\ out[i].thread = out[j].thread => out[i].thread = 1
    /\ \A i \in DOMAIN out : out[i].runtime <= dump.threads[out[i].thread].sleep

=============================================================================
