----------------------------- MODULE FreeMemory -----------------------------
(***************************************************************************)
(* The free memory of the kernel: the free lists of the page allocator     *)
(* (Buddy) and the areas set aside for contiguous memory (Cma).  The two   *)
(* are state machines of their own over the same variables.                *)
(***************************************************************************)
EXTENDS Integers, Sequences, FiniteSets, SequencesExt, FiniteSetsExt

CONSTANTS   \* Buddy
  Orders,        \* nr_free_areas: orders 0..Orders-1
  Types,         \* migratetype_names, as many as a free_area has lists
  MaxFree,       \* bound on the blocks of a zone
  MaxBuddyCmds   \* bound on the commands of a session

CONSTANTS   \* Cma
  ByteBits,    \* 8
  MaxBits,     \* bound on the bits of a bitmap
  CmaOrders,   \* order_per_bit
  IntMax,      \* 2^31, get_cma_used_size returns an int
  LongMod,     \* 2^64, allocated_size is a ulong
  MaxCmaCmds   \* bound on the commands of a session

VARIABLES dump, pc, pos, out
vars == <<dump, pc, pos, out>>

-----------------------------------------------------------------------------
(***************************************************************************)
(* buddy (memory/buddy.cpp): the free lists of every zone of every node,   *)
(* parsed by the first command, and the tables made of them.               *)
(***************************************************************************)

Nodes == 1..2    \* each with one zone
Cells == (0..(Orders - 1)) \X (1..Types)

\* free: the blocks of each list.  The nodes, 0 for none: empty has no managed
\* pages; unread does not read; broken has a list that makes for_each_list give
\* up.  lost: the order whose free_area does not read, -1 for none.
InitBuddy ==
  /\ dump \in [free : [Nodes -> {f \in [Cells -> 0..1] : SumFunction(f) <= MaxFree}],
               empty : {0} \cup Nodes, unread : {0} \cup Nodes, broken : {0} \cup Nodes,
               lost : -1..(Orders - 1), interrupts : BOOLEAN]
  /\ pc = "prompt"
  /\ pos = [node_list |-> <<>>, names |-> 0, node |-> 1, name |-> 1, cmds |-> 0]
  /\ out = [op |-> "none"]

-----------------------------------------------------------------------------

CmdMain ==
  /\ pc = "prompt"
  /\ pos.cmds < MaxBuddyCmds
  /\ pc' = IF pos.node_list = <<>> THEN "nodes" ELSE "print"
  /\ pos' = [pos EXCEPT !.cmds = @ + 1, !.node = 1]
  /\ out' = [op |-> "none"]
  /\ UNCHANGED dump

\* parser_free_area: the orders whose free_area can be read, one behind the other.
FreeAreas == SelectSeq([o \in 1..Orders |-> o - 1], LAMBDA o : o # dump.lost)

\* One node of parser_buddy_info, with parser_node_info and parser_zone_info.
ParseNode ==
  /\ pc = "nodes"
  /\ \/ /\ pos.node \notin Nodes
        /\ pc' = "names"
        /\ pos' = [pos EXCEPT !.name = 1]
     \/ /\ pos.node \in Nodes \cap {dump.unread}
        /\ pos' = [pos EXCEPT !.node = @ + 1]
        /\ UNCHANGED pc
     \/ /\ pos.node \in Nodes \ {dump.unread, dump.broken}
        /\ pos' = [pos EXCEPT !.node = @ + 1,
                              !.node_list = Append(@, [node |-> pos.node, free_areas |-> FreeAreas])]
        /\ UNCHANGED pc
     \/ /\ pos.node \in (Nodes \cap {dump.broken}) \ {dump.unread}
        /\ pc' = "prompt"       \* error(FATAL)
        /\ UNCHANGED pos
  /\ UNCHANGED <<dump, out>>

\* One name of get_migratetype_names.  If no node was parsed the next command
\* adds the names again.
ParseName ==
  /\ pc = "names"
  /\ IF pos.name > Types
     THEN pc' = "print" /\ UNCHANGED pos
     ELSE pos' = [pos EXCEPT !.names = @ + 1, !.name = @ + 1] /\ UNCHANGED pc
  /\ UNCHANGED <<dump, out>>

Rows == Min({Types, pos.names})
Shown == SelectSeq(pos.node_list, LAMBDA z : z.node # dump.empty)

\* Mutant: the column totals are those of the zones so far.
ColumnOfAll(z, o) ==
  LET upto == {n \in Nodes : n <= z.node /\ n # dump.empty /\ n \in {y.node : y \in ToSet(pos.node_list)}}
  IN  2^o * MapThenSumSet(LAMBDA c : dump.free[c[1]][<<c[2], c[3]>>], upto \X {z.free_areas[o + 1]} \X (1..Rows))

\* total_by_order
Column(z, o) == 2^o * MapThenSumSet(LAMBDA m : dump.free[z.node][<<z.free_areas[o + 1], m>>], 1..Rows)

\* total_per_type
Row(z, m) == MapThenSumSet(LAMBDA o : 2^o * dump.free[z.node][<<z.free_areas[o + 1], m>>], 0..(Orders - 1))

\* print_buddy_info; the free_areas are indexed by order up to nr_free_areas,
\* which is past their end when one is missing.
PrintBuddy ==
  /\ pc = "print"
  /\ out' = IF dump.lost # -1 /\ Shown # <<>> THEN [op |-> "undefined"]
            ELSE [op |-> "a", zones |-> [i \in DOMAIN Shown |->
                   [node |-> Shown[i].node,
                    rows |-> [m \in 1..Rows |-> Row(Shown[i], m)],
                    columns |-> [o \in 0..(Orders - 1) |-> Column(Shown[i], o)],
                    total |-> MapThenSumSet(LAMBDA m : Row(Shown[i], m), 1..Rows)]]]
  /\ pc' = "prompt"
  /\ UNCHANGED <<dump, pos>>

\* The lists shown under Order[o] by print_memory_zone.
BlocksOf(z, o) == {<<z.free_areas[o + 1], m>> : m \in 1..Rows}

PrintZone ==
  /\ pc = "print"
  /\ \E i \in DOMAIN pos.node_list :
       LET z == pos.node_list[i]
       IN  out' = [op |-> "z", node |-> z.node,
                   orders |-> [o \in 0..(Len(z.free_areas) - 1) |-> BlocksOf(z, o)]]
  /\ pc' = "prompt"
  /\ UNCHANGED <<dump, pos>>

\* print_memory_node, and -z with the address of no zone
PrintNodes ==
  /\ pc = "print"
  /\ out' = [op |-> "n", nodes |-> [i \in DOMAIN Shown |-> Shown[i].node]]
  /\ pc' = "prompt"
  /\ UNCHANGED <<dump, pos>>

Restart ==
  /\ dump.interrupts
  /\ pc # "prompt"
  /\ pc' = "prompt"
  /\ UNCHANGED <<dump, pos, out>>

NextBuddy == CmdMain \/ ParseNode \/ ParseName \/ PrintBuddy \/ PrintZone \/ PrintNodes \/ Restart

SpecBuddy == InitBuddy /\ [][NextBuddy]_vars /\ WF_vars(NextBuddy)

-----------------------------------------------------------------------------

Undisturbed == ~dump.interrupts /\ dump.broken = 0
Free(n) == MapThenSumSet(LAMBDA c : 2^c[1] * dump.free[n][c], Cells)

\* The rows, the columns and the total of a zone's table agree even if the parse
\* was given up halfway; the total is never more than the free memory of the
\* zone, and exactly this if the parse was not disturbed.  However often the parse
\* is begun, a node is listed once.
BuddyTable ==
  /\ IsInjective([i \in DOMAIN pos.node_list |-> pos.node_list[i].node])
  /\ out.op = "a" => \A i \in DOMAIN out.zones :
       LET z == out.zones[i]
       IN  /\ z.total = SumFunction(z.rows) /\ z.total = SumFunction(z.columns)
           /\ z.total <= Free(z.node)
           /\ Undisturbed => z.total = Free(z.node)

\* The orders -z gives the blocks are right unless a free_area is missing, and an
\* undisturbed parse shows all lists.
BuddyOrders ==
  out.op = "z" =>
    /\ dump.lost = -1 => \A o \in DOMAIN out.orders : \A c \in out.orders[o] : c[1] = o
    /\ Undisturbed => UNION {out.orders[o] : o \in DOMAIN out.orders} = {c \in Cells : c[1] # dump.lost}

-----------------------------------------------------------------------------
(***************************************************************************)
(* cma (memory/cma.cpp): the areas and how much of each is in use, found   *)
(* by the first command, and the pages in use or free listed by -u and -f. *)
(* A bit of an area's bitmap stands for 2^order_per_bit pages; the plugin  *)
(* reads the bitmap in bytes.  The page size is 1.                         *)
(***************************************************************************)

\* used: the bits that are set; hole: a pfn without a page (-1: none).  Pfns are
\* counted from base_pfn.
Area == UNION {[bits : {n}, order : CmaOrders, used : SUBSET (0..(n - 1)), read : BOOLEAN] : n \in 1..MaxBits}
Count(a) == a.bits * 2^a.order
Small == [bits |-> ByteBits, order |-> 0, used |-> {0}, read |-> TRUE]

InitCma ==
  /\ dump \in [areas : Area \X {Small}, hole : {-1, 0}, interrupts : BOOLEAN]
  /\ pc = "prompt"
  /\ pos = [mem_list |-> <<>>, area |-> 1, cmds |-> 0]
  /\ out = [op |-> "none"]

-----------------------------------------------------------------------------

CmdMainCma ==
  /\ pc = "prompt"
  /\ pos.cmds < MaxCmaCmds
  /\ pc' = IF pos.mem_list = <<>> THEN "areas" ELSE "print"
  /\ pos' = [pos EXCEPT !.cmds = @ + 1, !.area = 1]
  /\ out' = [op |-> "none"]
  /\ UNCHANGED dump

\* The bits of the bytes that are read: those of a last byte that is not full
\* are not.
BitsRead(a) == 0..(((Count(a) \div 2^a.order) \div ByteBits) * ByteBits - 1)

\* get_cma_used_size, whose int becomes a ulong
used_size(a) ==
  LET s == (Cardinality(a.used \cap BitsRead(a)) * 2^a.order) % (2 * IntMax)
  IN  IF s < IntMax THEN s ELSE LongMod - 2 * IntMax + s

\* One area of parser_cma_areas.
ParseArea ==
  /\ pc = "areas"
  /\ IF pos.area > Len(dump.areas)
     THEN pc' = "print" /\ UNCHANGED pos
     ELSE LET a == dump.areas[pos.area]
          IN  /\ pos' = [pos EXCEPT !.area = @ + 1,
                           !.mem_list = IF ~a.read THEN @
                             ELSE Append(@, [area |-> pos.area, allocated_size |-> used_size(a)])]
              /\ UNCHANGED pc
  /\ UNCHANGED <<dump, out>>

\* print_cma_areas
PrintAreas ==
  /\ pc = "print"
  /\ out' = [op |-> "a", rows |-> pos.mem_list,
             total |-> FoldLeft(LAMBDA n, m : n + Count(dump.areas[m.area]), 0, pos.mem_list),
             allocated |-> FoldLeft(LAMBDA n, m : (n + m.allocated_size) % LongMod, 0, pos.mem_list)]
  /\ pc' = "prompt"
  /\ UNCHANGED <<dump, pos>>

\* Mutant: the pages of a bit follow those of the bit before, whatever its order.
PagesOfBitTight(a, b) == {b + k : k \in 0..(2^a.order - 1)}

\* The pfns of a bit, from base_pfn.
PagesOfBit(a, b) == {b * 2^a.order + k : k \in 0..(2^a.order - 1)}

\* print_cma_page_status, -u and -f, of the areas the name is found in
PrintStatus ==
  /\ pc = "print"
  /\ \E alloc \in BOOLEAN, chosen \in SUBSET (1..2) :
       out' = [op |-> "pages", alloc |-> alloc,
               pages |-> [i \in {m.area : m \in ToSet(pos.mem_list)} \cap chosen |->
                 LET a == dump.areas[i]
                 IN  UNION {PagesOfBit(a, b) : b \in {c \in BitsRead(a) : (c \in a.used) = alloc}} \ {dump.hole}]]
  /\ pc' = "prompt"
  /\ UNCHANGED <<dump, pos>>

RestartCma ==
  /\ dump.interrupts
  /\ pc # "prompt"
  /\ pc' = "prompt"
  /\ UNCHANGED <<dump, pos, out>>

NextCma == CmdMainCma \/ ParseArea \/ PrintAreas \/ PrintStatus \/ RestartCma

SpecCma == InitCma /\ [][NextCma]_vars /\ WF_vars(NextCma)

-----------------------------------------------------------------------------

\* The kernel's view: page p of an area is in use if its bit is set.
InUse(a) == {p \in 0..(Count(a) - 1) : p \div 2^a.order \in a.used}
FullBytes(a) == a.bits % ByteBits = 0

\* -u and -f list pages of the area, those in use and those that are free, and
\* between them every page that exists if the bitmap is made of full bytes.
CmaPages ==
  out.op = "pages" => \A i \in DOMAIN out.pages :
    LET a == dump.areas[i]
        pages == IF out.alloc THEN InUse(a) ELSE (0..(Count(a) - 1)) \ InUse(a)
    IN  /\ out.pages[i] \subseteq pages
        /\ FullBytes(a) => out.pages[i] = pages \ {dump.hole}

\* If the parse is not disturbed the amounts of -a are those of the kernel, as
\* long as what an area has in use is an int and its bitmap has full bytes.
\* However often the parse is begun, an area is listed once.
CmaAmounts ==
  /\ IsInjective([i \in DOMAIN pos.mem_list |-> pos.mem_list[i].area])
  /\ out.op = "a" /\ ~dump.interrupts /\ (\A i \in 1..2 : FullBytes(dump.areas[i])) =>
    LET shown == {i \in 1..2 : dump.areas[i].read}
        Used(i) == Cardinality(InUse(dump.areas[i]))
    IN  /\ {m.area : m \in ToSet(out.rows)} = shown
        /\ \A m \in ToSet(out.rows) : Used(m.area) < IntMax => m.allocated_size = Used(m.area)
        /\ (\A i \in shown : Used(i) < IntMax) => out.allocated = MapThenSumSet(Used, shown)

=============================================================================
