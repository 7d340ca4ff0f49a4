------------------------------ MODULE Journal ------------------------------
(***************************************************************************)
(* The systemd command of a session (systemd/journal.cpp): the journal     *)
(* files that the mappings of systemd-journal (-v) or the page cache (-c)  *)
(* hold are collected once, by name, and listed (-l), written to files     *)
(* (-d) or shown (-s).  A path is [base, journal]: its last component, and *)
(* whether it holds ".journal".                                            *)
(***************************************************************************)
EXTENDS Integers, Sequences, FiniteSets, SequencesExt

CONSTANTS VmaSets,       \* the file mappings: Seq of [path, data]
          InodeSets,     \* the inodes of the page cache: Seq of [paths, mapping, pages]
          Base,          \* the number of a file's first page; a page is [at, read]
          MaxJournalCmds \* bound on the commands of a session

VARIABLES dump, pc, pos, out
vars == <<dump, pc, pos, out>>

Init ==
  /\ dump \in [vmas : VmaSets, inodes : InodeSets, proc : BOOLEAN, full : BOOLEAN, interrupts : BOOLEAN]
  /\ pc = "prompt"
  /\ pos = [cmds |-> 0, op |-> "", from |-> "", name |-> "", i |-> 1, todo |-> {}, half |-> {},
            log_vma_list |-> <<>>, log_inode_list |-> <<>>]
  /\ out = [rows |-> {}, files |-> <<>>, failed |-> FALSE]

Listed(from) == IF from = "v" THEN pos.log_vma_list ELSE pos.log_inode_list
Names(from) == DOMAIN Listed(from)
\* A map of C++ with the value v under k.
Put(m, k, v) == [x \in DOMAIN m \cup {k} |-> IF x = k THEN v ELSE m[x]]

-----------------------------------------------------------------------------

\* Mutant: a map is filled again by every command.
FilledNever(from) == FALSE
\* The test that a command makes before it collects the files.
Filled(from) == Listed(from) # <<>>

\* cmd_main, and the first lines of the six operations.
CmdMain ==
  /\ pc = "prompt"
  /\ pos.cmds < MaxJournalCmds
  /\ \E op \in {"d", "l", "s"}, from \in {"v", "c"}, name \in {v.path.base : v \in Range(dump.vmas)} :
       /\ pc' = IF from = "v" /\ ~dump.proc THEN "prompt"
                ELSE IF Filled(from) THEN "print" ELSE IF from = "v" THEN "vmas" ELSE "inodes"
       /\ pos' = [pos EXCEPT !.cmds = @ + 1, !.op = op, !.from = from, !.name = name, !.i = 1, !.todo = Names(from)]
       /\ out' = [rows |-> {}, files |-> <<>>, failed |-> from = "v" /\ ~dump.proc]
  /\ UNCHANGED dump

\* One turn of get_journal_vma_list: a name collects all the mappings of that name.
VmaListed(m, i) ==
  LET p == dump.vmas[i].path
  IN  IF p.journal THEN Put(m, p.base, Append(IF p.base \in DOMAIN m THEN m[p.base] ELSE <<>>, i)) ELSE m
GetVma ==
  /\ pc = "vmas"
  /\ IF pos.i > Len(dump.vmas)
     THEN pc' = "print" /\ pos' = [pos EXCEPT !.todo = Names("v")]
     ELSE UNCHANGED pc /\ pos' = [pos EXCEPT !.i = @ + 1, !.log_vma_list = VmaListed(@, pos.i)]
  /\ UNCHANGED <<dump, out>>

\* One turn of get_journal_inode_list: the first dentry with a path names the inode,
\* and of two inodes with a name the later one is kept.
PathsOf(n) == SelectSeq(n.paths, LAMBDA p : p.base # "")
InodeListed(m, i) ==
  LET n == dump.inodes[i]
      p == Head(PathsOf(n))
  IN  IF PathsOf(n) # <<>> /\ p.journal /\ n.mapping /\ n.pages # <<>> THEN Put(m, p.base, i) ELSE m
GetInode ==
  /\ pc = "inodes"
  /\ IF pos.i > Len(dump.inodes)
     THEN pc' = "print" /\ pos' = [pos EXCEPT !.todo = Names("c")]
     ELSE UNCHANGED pc /\ pos' = [pos EXCEPT !.i = @ + 1, !.log_inode_list = InodeListed(@, pos.i)]
  /\ UNCHANGED <<dump, out>>

\* write_vma_to_file: the mappings one behind the other.
write_vma_to_file(vs) == FlattenSeq([k \in DOMAIN vs |-> dump.vmas[vs[k]].data])
\* write_pagecache_to_file: the cached pages one behind the other, a page that cannot
\* be read as zeroes; where a page belongs in the file is not looked at.
write_pagecache_to_file(i) ==
  LET ps == dump.inodes[i].pages IN [k \in DOMAIN ps |-> IF ps[k].read THEN ps[k].at ELSE 0]
Content(from, name) ==
  IF from = "v" THEN write_vma_to_file(pos.log_vma_list[name]) ELSE write_pagecache_to_file(pos.log_inode_list[name])

\* One turn of the loop of dump_*, print_* or show_*, over a hash map: any name that
\* is left.  A file that cannot be opened ends the command.
PrintFile ==
  /\ pc = "print"
  /\ IF pos.todo = {} THEN pc' = "prompt" /\ UNCHANGED <<pos, out>>
     ELSE \E name \in pos.todo :
            \/ /\ pos.op = "l" \/ (pos.op = "s" /\ name # pos.name)
               /\ out' = IF pos.op = "l" THEN [out EXCEPT !.rows = @ \cup {name}] ELSE out
               /\ pos' = [pos EXCEPT !.todo = @ \ {name}]
               /\ UNCHANGED pc
            \/ /\ pos.op = "d" \/ (pos.op = "s" /\ name = pos.name)
               /\ \/ /\ out' = [out EXCEPT !.files = Put(@, name, Content(pos.from, name))]
                     /\ pos' = [pos EXCEPT !.todo = @ \ {name}]
                     /\ UNCHANGED pc
                  \/ dump.full /\ pc' = "prompt" /\ out' = [out EXCEPT !.failed = TRUE] /\ UNCHANGED pos
  /\ UNCHANGED dump

\* An error or ^C while the files are collected (external).
Restart ==
  /\ dump.interrupts
  /\ pc \in {"vmas", "inodes"}
  /\ pc' = "prompt"
  /\ pos' = [pos EXCEPT !.half = IF Filled(pos.from) THEN @ \cup {pos.from} ELSE @]
  /\ out' = [out EXCEPT !.failed = TRUE]
  /\ UNCHANGED dump

Next == CmdMain \/ GetVma \/ GetInode \/ PrintFile \/ Restart

Spec == Init /\ [][Next]_vars /\ WF_vars(Next)

-----------------------------------------------------------------------------

Mapped == {v.path.base : v \in {w \in Range(dump.vmas) : w.path.journal}}
Cached(n) == n.mapping /\ n.pages # <<>> /\ \E k \in DOMAIN n.paths : n.paths[k].base # "" /\ n.paths[k].journal
                     /\ \A j \in 1..(k - 1) : n.paths[j].base = ""
Ended == pc = "prompt" /\ ~out.failed

\* systemd -l shows every journal file of the mappings, or of the page cache, once,
\* however many commands ran before; names are missing only when an interrupt cut the
\* first collection, which no later command makes good.
JournalsListed ==
  Ended /\ pos.op = "l" =>
    LET all == IF pos.from = "v" THEN Mapped ELSE {Head(PathsOf(n)).base : n \in {m \in Range(dump.inodes) : Cached(m)}}
    IN  out.rows \subseteq all /\ (pos.from \notin pos.half => out.rows = all)

\* systemd -d and -s of the mappings write each mapping of the file once and in order,
\* whatever number of commands collected them.
MappingsOnce ==
  \A name \in DOMAIN out.files :
    pos.from = "v" /\ pos.from \notin pos.half =>
      LET its == SelectSeq([i \in DOMAIN dump.vmas |-> i], LAMBDA i : dump.vmas[i].path.journal /\ dump.vmas[i].path.base = name)
      IN  out.files[name] = FlattenSeq([k \in DOMAIN its |-> dump.vmas[its[k]].data])

\* A file written from the page cache is the file where it is cached whole from its
\* first page on: each readable page is then at its own place.
CachedPrefixExact ==
  \A name \in DOMAIN out.files :
    pos.from = "c" =>
      LET ps == dump.inodes[pos.log_inode_list[name]].pages
      IN  /\ Len(out.files[name]) = Len(ps)
          /\ (\A k \in DOMAIN ps : ps[k].at = Base + k - 1) =>
               \A k \in DOMAIN ps : ps[k].read => out.files[name][k] = Base + k - 1

=============================================================================
