----------------------------- MODULE MemoryMap -----------------------------
(***************************************************************************)
(* The commands that show how physical memory is laid out: memblock        *)
(* (memory/memblock.cpp), reserved (memory/reserved.cpp) and iomem         *)
(* (memory/iomem.cpp).  Each reads its kernel table once, keeps it for the *)
(* session and prints it.                                                  *)
(***************************************************************************)
EXTENDS Integers, Sequences, FiniteSets, SequencesExt

CONSTANTS Memblocks,   \* [found, types]: a type is [read, cnt, regions], a region [read, base, flags]
          ReservedMems,\* the array reserved_mem: Seq of [read, base, size, name]
          NodesNamed,  \* the device nodes of a name: a Seq of the properties of each
          Resources,   \* the resource tree: addr -> [read, sibling, child], 0 is no address
          MaxMapCmds   \* bound on the commands of a session

VARIABLES dump, pc, pos, out
vars == <<dump, pc, pos, out>>

NoType == [cnt |-> 0, regions |-> <<>>]
Init ==
  /\ dump \in [block : Memblocks, mem : ReservedMems, res : Resources, interrupts : BOOLEAN]
  /\ pc = "prompt"
  /\ pos = [cmds |-> 0, cmd |-> "", i |-> 1, k |-> 1, regions |-> <<>>, stack |-> <<>>, half |-> {},
            block |-> <<>>, mem_list |-> <<>>, iomem |-> [a \in {0} |-> <<>>]]
  /\ out = [rows |-> <<>>, total |-> <<>>]

\* The test of each cmd_main whether its table was read before.
Kept(cmd) == CASE cmd = "memblock" -> pos.block # <<>> [] cmd = "reserved" -> pos.mem_list # <<>> [] cmd = "iomem" -> pos.iomem[0] # <<>>

CmdMain ==
  /\ pc = "prompt"
  /\ pos.cmds < MaxMapCmds
  /\ \E cmd \in {"memblock", "reserved", "iomem"} :
       /\ pc' = IF Kept(cmd) THEN "print" ELSE cmd
       /\ pos' = [pos EXCEPT !.cmds = @ + 1, !.cmd = cmd, !.i = 1, !.k = 1, !.regions = <<>>,
                             !.stack = IF cmd = "iomem" THEN <<[addr |-> 1, list |-> 0]>> ELSE <<>>]
  /\ out' = [rows |-> <<>>, total |-> <<>>]
  /\ UNCHANGED dump

-----------------------------------------------------------------------------
\* memblock

\* parser_memblock: block is set before its two types are read.
ParseMemblock ==
  /\ pc = "memblock"
  /\ IF dump.block.found
     THEN pc' = "type" /\ pos' = [pos EXCEPT !.block = <<NoType, NoType>>]
     ELSE pc' = "print" /\ UNCHANGED pos
  /\ UNCHANGED <<dump, out>>

\* parser_memblock_type up to the call of parser_memblock_region: cnt is set before
\* the regions are.
ParseType ==
  /\ pc = "type"
  /\ IF pos.k > 2 THEN pc' = "print" /\ UNCHANGED pos
     ELSE LET t == dump.block.types[pos.k]
          IN  IF t.read THEN pc' = "region" /\ pos' = [pos EXCEPT !.block[pos.k].cnt = t.cnt, !.i = 1, !.regions = <<>>]
              ELSE UNCHANGED pc /\ pos' = [pos EXCEPT !.k = @ + 1]
  /\ UNCHANGED <<dump, out>>

\* One turn of parser_memblock_region, and what its caller does with the result.
ParseRegion ==
  /\ pc = "region"
  /\ LET t == dump.block.types[pos.k]
     IN  IF pos.i > t.cnt \/ ~t.regions[pos.i].read
         THEN pc' = "type" /\ pos' = [pos EXCEPT !.block[pos.k].regions = pos.regions, !.k = @ + 1]
         ELSE UNCHANGED pc /\ pos' = [pos EXCEPT !.regions = Append(@, t.regions[pos.i]), !.i = @ + 1]
  /\ UNCHANGED <<dump, out>>

\* flags_str has the flags up to MEMBLOCK_NOMAP.
MEMBLOCK_NOMAP == 4
\* What print_memblock_type reads: its loop runs to cnt, not to the end of regions.
Readable(t) == \A i \in 1..t.cnt : i <= Len(t.regions) /\ t.regions[i].flags <= MEMBLOCK_NOMAP

-----------------------------------------------------------------------------
\* reserved

\* The type of a region: a node of its name that is reusable or no-map, the last node
\* decides.
TypeOf(name) ==
  LET p == NodesNamed[name][Len(NodesNamed[name])]
  IN  IF "reusable" \in p THEN "reusable" ELSE IF "no-map" \in p THEN "no-map" ELSE "unknow"

\* Mutant: an unused element of the array is a region.
UsedAlways(m) == m.read /\ NodesNamed[m.name] # <<>>
\* An element of the array that becomes a region.
Used(m) == m.read /\ m.base # 0 /\ m.size # 0 /\ NodesNamed[m.name] # <<>>

\* One turn of parser_reserved_mem.
ParseReserved ==
  /\ pc = "reserved"
  /\ IF pos.i > Len(dump.mem) THEN pc' = "print" /\ UNCHANGED pos
     ELSE LET m == dump.mem[pos.i]
          IN  /\ pos' = [pos EXCEPT !.i = @ + 1,
                           !.mem_list = IF Used(m) THEN Append(@, [at |-> pos.i, base |-> m.base, size |-> m.size, type |-> TypeOf(m.name)]) ELSE @]
              /\ UNCHANGED pc
  /\ UNCHANGED <<dump, out>>

SizeOf(list, types) == FoldLeft(LAMBDA s, m : s + (IF m.type \in types THEN m.size ELSE 0), 0, list)
ByBase(list) == SortSeq(list, LAMBDA a, b : a.base < b.base)

-----------------------------------------------------------------------------
\* iomem

\* parser_resource: the resource goes to the end of its list, its sibling to the same
\* list, and then its child to the list of its own.
ParseResource ==
  /\ pc = "iomem"
  /\ IF pos.stack = <<>> THEN pc' = "print" /\ UNCHANGED pos
     ELSE LET t == Head(pos.stack)
              r == dump.res[t.addr]
              Call(a, l) == IF a = 0 THEN <<>> ELSE <<[addr |-> a, list |-> l]>>
          IN  /\ pos' = IF ~r.read THEN [pos EXCEPT !.stack = Tail(@)]
                        ELSE [pos EXCEPT !.stack = Call(r.sibling, t.list) \o Call(r.child, t.addr) \o Tail(@),
                                         !.iomem = [a \in DOMAIN @ \cup {t.addr} |->
                                            IF a = t.list THEN Append(@[a], t.addr) ELSE IF a = t.addr THEN <<>> ELSE @[a]]]
              /\ UNCHANGED pc
  /\ UNCHANGED <<dump, out>>

\* print_iomem: the text that was gathered is printed with every resource, and again
\* before its children and at the end of the list; only before children it is emptied.
RECURSIVE print_iomem(_, _, _)
print_iomem(lists, list, level) ==
  LET Turn(acc, a) ==
        LET oss == Append(acc.oss, [addr |-> a, level |-> level])
        IN  IF lists[a] = <<>> THEN [oss |-> oss, text |-> acc.text \o oss]
            ELSE [oss |-> <<>>, text |-> acc.text \o oss \o oss \o print_iomem(lists, a, level + 1)]
      end == FoldLeft(Turn, [oss |-> <<>>, text |-> <<>>], lists[list])
  IN  end.text \o end.oss

-----------------------------------------------------------------------------

\* print_memblock, print_reserved_mem or print_iomem.
PrintTable ==
  /\ pc = "print"
  /\ CASE pos.cmd = "memblock" ->
            /\ pc' = IF \A t \in Range(pos.block) : Readable(t) THEN "prompt" ELSE "undefined"
            /\ out' = IF pc' = "prompt" THEN [out EXCEPT !.rows = [k \in DOMAIN pos.block |-> SubSeq(pos.block[k].regions, 1, pos.block[k].cnt)]] ELSE out
            /\ UNCHANGED pos
       [] pos.cmd = "reserved" ->
            /\ pc' = "prompt"
            /\ pos' = [pos EXCEPT !.mem_list = ByBase(@)]
            /\ out' = [rows |-> ByBase(pos.mem_list),
                       total |-> [total |-> SizeOf(pos.mem_list, {"no-map", "reusable", "unknow"}), nomap |-> SizeOf(pos.mem_list, {"no-map"}),
                                  reuse |-> SizeOf(pos.mem_list, {"reusable"}), unknow |-> SizeOf(pos.mem_list, {"unknow"})]]
       [] pos.cmd = "iomem" -> pc' = "prompt" /\ out' = [out EXCEPT !.rows = print_iomem(pos.iomem, 0, 0)] /\ UNCHANGED pos
  /\ UNCHANGED dump

\* An error or ^C while a table is read (external).
Restart ==
  /\ dump.interrupts
  /\ pc \in {"type", "region", "reserved", "iomem"}
  /\ pc' = "prompt"
  /\ pos' = [pos EXCEPT !.half = IF Kept(pos.cmd) THEN @ \cup {pos.cmd} ELSE @, !.cmd = ""]
  /\ UNCHANGED <<dump, out>>

Next == CmdMain \/ ParseMemblock \/ ParseType \/ ParseRegion \/ ParseReserved \/ ParseResource \/ PrintTable \/ Restart

Spec == Init /\ [][Next]_vars /\ WF_vars(Next)

-----------------------------------------------------------------------------

Printed(cmd) == pc = "prompt" /\ pos.cmd = cmd /\ cmd \notin pos.half
Damaged(t) == t.read /\ \E i \in 1..t.cnt : ~t.regions[i].read \/ t.regions[i].flags > MEMBLOCK_NOMAP

\* memblock -a shows every region of both types, and reads outside regions or the flag
\* names only for a damaged table or after a reading that was interrupted.
MemblockExact ==
  /\ Printed("memblock") /\ dump.block.found =>
       \A k \in 1..2 : dump.block.types[k].read => out.rows[k] = SubSeq(dump.block.types[k].regions, 1, dump.block.types[k].cnt)
  /\ pc = "undefined" => "memblock" \in pos.half \/ \E k \in 1..2 : Damaged(dump.block.types[k])

\* reserved -a shows each region in use once, in the order of the addresses, and the
\* three sums add up to the total; regions are missing only after an interrupt.
ReservedExact ==
  Printed("reserved") =>
    /\ {r.at : r \in Range(out.rows)} = {i \in DOMAIN dump.mem : dump.mem[i].read /\ dump.mem[i].base # 0 /\ dump.mem[i].size # 0
                                                                /\ NodesNamed[dump.mem[i].name] # <<>>}
    /\ \A i, j \in DOMAIN out.rows : i < j => out.rows[i].at # out.rows[j].at /\ out.rows[i].base <= out.rows[j].base
    /\ out.total.total = out.total.nomap + out.total.reuse + out.total.unknow
    /\ \A r \in Range(out.rows) : r.base = dump.mem[r.at].base /\ r.size = dump.mem[r.at].size

\* The resources that can be read, with the depth of each in the tree.
RECURSIVE Tree(_, _)
Tree(a, level) ==
  IF a = 0 \/ ~dump.res[a].read THEN {}
  ELSE {[addr |-> a, level |-> level]} \cup Tree(dump.res[a].sibling, level) \cup Tree(dump.res[a].child, level + 1)

\* iomem -a shows every resource that can be reached, at its depth, the first time
\* after the resource that holds it; one that cannot be read hides what is behind it.
IoMemExact ==
  Printed("iomem") =>
    /\ Range(out.rows) = Tree(1, 0)
    /\ \A a \in DOMAIN dump.res :
         dump.res[a].child # 0 =>
           \A j \in DOMAIN out.rows : out.rows[j].addr = dump.res[a].child => \E i \in 1..(j - 1) : out.rows[i].addr = a

=============================================================================
