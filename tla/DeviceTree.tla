----------------------------- MODULE DeviceTree -----------------------------
(***************************************************************************)
(* The device tree (devicetree/devicetree.cpp) and the dts command         *)
(* (devicetree/dts.cpp): the tree of device_node read once by recursion    *)
(* over child and sibling into two maps, then printed, searched by name    *)
(* and asked for the memory ranges.  The recursion is a stack of frames;   *)
(* a path is the sequence of the names on it.                              *)
(***************************************************************************)
EXTENDS Integers, Sequences, FiniteSets, SequencesExt, Functions, TLC

CONSTANTS Trees,        \* address -> [full, name, props, child, sibling]; others cannot be read
          RootAddr,     \* what the pointer at of_root may hold
          Dtbs,         \* the blob: [symbol, magic, small, open]
          StrNames,     \* property names that contain one of str_props
          IntNames,     \* property names that contain one of int_props
          SymbolNodes,  \* node names that contain "symbols" or "aliases"
          NodeNames,    \* names given to dts -n
          NodeAddrs,    \* addresses given to dts -n
          MaxDtsCmds    \* bound on the commands of a session

VARIABLES dump, pc, pos, out
vars == <<dump, pc, pos, out>>

Empty == [x \in {} |-> x]
Nothing == [op |-> "none", name |-> "", addr |-> 0, rows |-> <<>>, ranges |-> <<>>, saved |-> FALSE]

Init ==
  /\ dump \in [node : Trees, root : RootAddr, dtb : Dtbs, interrupts : BOOLEAN]
  /\ pc = "prompt"
  /\ pos = [cmds |-> 0, opt |-> "none", name |-> "", addr |-> 0, read |-> FALSE, byAddr |-> Empty, byPath |-> Empty, stack |-> <<>>]
  /\ out = Nothing

Readable(a) == a \in DOMAIN dump.node
Node(a) == dump.node[a]
Enter(a, path) == IF a = 0 THEN <<>> ELSE <<[do |-> "read", addr |-> a, path |-> path]>>

Ready == [pos EXCEPT !.cmds = @ + 1, !.stack = IF pos.read THEN <<>> ELSE Enter(dump.root, <<>>)]

\* cmd_main: the tree is read by the first command, and by later ones as long as there
\* is no root_node.
CmdMain ==
  /\ pc = "prompt"
  /\ pos.cmds < MaxDtsCmds
  /\ \/ \E opt \in {"a", "m", "b"} : pos' = [Ready EXCEPT !.opt = opt, !.name = "", !.addr = 0]
     \/ \E n \in NodeNames : pos' = [Ready EXCEPT !.opt = "name", !.name = n, !.addr = 0]
     \/ \E a \in NodeAddrs : pos' = [Ready EXCEPT !.opt = "addr", !.name = "", !.addr = a]
  /\ out' = Nothing
  /\ pc' = IF pos.read THEN "run" ELSE "read"
  /\ UNCHANGED dump

\* The path of the node at a whose parent has the given one.
NodePath(a, path) == IF a = dump.root THEN <<>> ELSE Append(path, Node(a).full)

\* Mutant: the siblings are read under the node and not beside it.
SiblingBelow(a, path) == NodePath(a, path)

SiblingPath(a, path) == path

\* read_node: the children, then the siblings, and last the node itself into the maps.
\* A node that cannot be read is a null pointer.
ReadNode ==
  /\ pc = "read"
  /\ LET top == Head(pos.stack)
         path == NodePath(top.addr, top.path)
     IN IF pos.stack = <<>>
        THEN /\ pos' = [pos EXCEPT !.read = Readable(dump.root)]
             /\ pc' = "run"
        ELSE /\ pos' = IF top.do = "keep"
                       THEN [pos EXCEPT !.stack = Tail(@), !.byAddr = (top.addr :> top.path) @@ @,
                                        !.byPath = (top.path :> top.addr) @@ @]
                       ELSE IF ~Readable(top.addr) THEN [pos EXCEPT !.stack = Tail(@)]
                       ELSE [pos EXCEPT !.stack = Enter(Node(top.addr).child, path)
                                                  \o Enter(Node(top.addr).sibling, SiblingPath(top.addr, top.path))
                                                  \o <<[do |-> "keep", addr |-> top.addr, path |-> path]>> \o Tail(@)]
             /\ UNCHANGED pc
  /\ UNCHANGED <<dump, out>>

-----------------------------------------------------------------------------

\* print_properties: how a value is shown.
ShownAs(p, symbol) ==
  CASE p.len = 0 -> "name"
    [] p.len > 0 /\ (symbol \/ p.name \in StrNames) -> "string"
    [] p.len > 0 /\ ~symbol /\ p.name \notin StrNames /\ (p.name \in IntNames \/ p.len % 4 = 0) -> "cells"
    [] OTHER -> "string"
print_properties(a) == [i \in DOMAIN Node(a).props |-> ShownAs(Node(a).props[i], Node(a).full \in SymbolNodes)]

Row(a, level) == [addr |-> a, level |-> level, props |-> print_properties(a)]
Frame(a, level, only) == IF Readable(a) THEN <<[addr |-> a, level |-> level, only |-> only]>> ELSE <<>>

\* find_node_by_name: over the map of paths, in the order of its hash.
Named(name) == {p \in DOMAIN pos.byPath : LET n == Node(pos.byPath[p]) IN n.full = name \/ n.name = name}
HashOrders(name) == {[i \in DOMAIN s |-> pos.byPath[s[i]]] : s \in SetToSeqs(Named(name))}

\* getprop: the first property of that name.
PropsOf(a, name) == SelectSeq(Node(a).props, LAMBDA p : p.name = name)

\* get_ddr_size over the nodes found, in order: each memory node's ranges replace those
\* of the one before.  "bad" where the code follows a null pointer.
get_ddr_size(nodes) ==
  LET isMemory(a) == PropsOf(a, "device_type") # <<>> /\ PropsOf(a, "device_type")[1].val = <<"memory">>
      hollow(a) == PropsOf(a, "device_type") # <<>> /\ PropsOf(a, "device_type")[1].len = 0
      noReg(a) == isMemory(a) /\ PropsOf(a, "reg") = <<>>
      memory == SelectSeq(nodes, isMemory)
  IN [bad |-> \E i \in DOMAIN nodes : hollow(nodes[i]) \/ noReg(nodes[i]),
      ranges |-> IF memory = <<>> \/ PropsOf(Last(memory), "reg") = <<>> THEN <<>>
                 ELSE LET reg == PropsOf(Last(memory), "reg")[1] IN SubSeq(reg.val, 1, reg.len \div 16)]

\* -a prints from the root, -n from each node found; without a node the code follows a
\* null pointer.
Run ==
  /\ pc = "run"
  /\ UNCHANGED dump
  /\ \/ /\ pos.opt = "a"
        /\ out' = [out EXCEPT !.op = "a"]
        /\ pos' = [pos EXCEPT !.stack = Frame(dump.root, 0, FALSE)]
        /\ pc' = IF pos.read THEN "print" ELSE "undefined"
     \/ /\ pos.opt = "addr"
        /\ out' = [out EXCEPT !.op = "addr", !.addr = pos.addr]
        /\ pos' = [pos EXCEPT !.stack = Frame(pos.addr, 0, TRUE)]
        /\ pc' = IF pos.addr \in DOMAIN pos.byAddr THEN "print" ELSE "undefined"
     \/ /\ pos.opt = "name"
        /\ out' = [out EXCEPT !.op = "name", !.name = pos.name]
        /\ \E nodes \in HashOrders(pos.name) :
             pos' = [pos EXCEPT !.stack = FlattenSeq([i \in DOMAIN nodes |-> Frame(nodes[i], 0, TRUE)])]
        /\ pc' = "print"

\* print_node: the node, its children one level deeper, then its siblings.
PrintNode ==
  /\ pc = "print"
  /\ UNCHANGED dump
  /\ IF pos.stack = <<>> THEN pc' = "prompt" /\ UNCHANGED <<pos, out>>
     ELSE LET top == Head(pos.stack)
              n == Node(top.addr)
          IN /\ out' = [out EXCEPT !.rows = Append(@, Row(top.addr, top.level))]
             /\ pos' = [pos EXCEPT !.stack = Frame(n.child, top.level + 1, FALSE)
                                             \o (IF top.only THEN <<>> ELSE Frame(n.sibling, top.level, FALSE)) \o Tail(@)]
             /\ UNCHANGED pc

\* -m: the ranges of the memory node.
PrintDdrInfo ==
  /\ pc = "run"
  /\ pos.opt = "m"
  /\ \E nodes \in HashOrders("memory") :
       LET ddr == get_ddr_size(nodes)
       IN IF ddr.bad THEN pc' = "undefined" /\ UNCHANGED out
          ELSE /\ out' = [out EXCEPT !.op = "m", !.ranges = ddr.ranges]
               /\ pc' = "prompt"
  /\ UNCHANGED <<dump, pos>>

\* -b: the blob is saved when its header is right and the file opens.
ReadDtb ==
  /\ pc = "run"
  /\ pos.opt = "b"
  /\ out' = [out EXCEPT !.op = "b", !.saved = dump.dtb.symbol /\ dump.dtb.magic /\ dump.dtb.small /\ dump.dtb.open]
  /\ pc' = "prompt"
  /\ UNCHANGED <<dump, pos>>

\* error(FATAL) or ^C: back to the prompt with what is in the maps.
Restart ==
  /\ dump.interrupts
  /\ pc \in {"read", "print"}
  /\ pc' = "prompt"
  /\ pos' = [pos EXCEPT !.stack = <<>>]
  /\ out' = Nothing
  /\ UNCHANGED dump

Next == CmdMain \/ ReadNode \/ Run \/ PrintNode \/ PrintDdrInfo \/ ReadDtb \/ Restart
Spec == Init /\ [][Next]_vars /\ WF_vars(Next)

-----------------------------------------------------------------------------

\* The tree as the kernel has it: the addresses reached through readable nodes.
RECURSIVE Family(_)
Family(a) == IF a = 0 \/ ~Readable(a) THEN {} ELSE {a} \cup Family(Node(a).child) \cup Family(Node(a).sibling)
RECURSIVE Brothers(_)
Brothers(a) == IF a = 0 \/ ~Readable(a) THEN {} ELSE {a} \cup Brothers(Node(a).sibling)
Children(a) == Brothers(Node(a).child)
RECURSIVE PathTo(_)
PathTo(a) == IF a = dump.root THEN <<>>
             ELSE LET up == CHOOSE x \in Family(dump.root) : a \in Children(x) IN Append(PathTo(up), Node(a).full)

\* Once root_node is set the maps hold every node under its own path, however often the
\* reading was interrupted; of nodes that share a path the map of paths has one.
MapsComplete ==
  pos.read => /\ DOMAIN pos.byAddr = Family(dump.root)
              /\ \A a \in Family(dump.root) : /\ pos.byAddr[a] = PathTo(a)
                                              /\ PathTo(pos.byPath[PathTo(a)]) = PathTo(a)

Shown == {out.rows[i].addr : i \in DOMAIN out.rows}
Finished(op) == pc = "prompt" /\ out.op = op

\* dts -a shows every node once, as deep as it lies, below its parent.
TreePrinted ==
  Finished("a") =>
    /\ Shown = Family(dump.root)
    /\ Len(out.rows) = Cardinality(Shown)
    /\ \A i \in DOMAIN out.rows :
         LET r == out.rows[i]
         IN /\ r.level = Len(PathTo(r.addr))
            /\ i > 1 => \E j \in 1..i - 1 : /\ r.addr \in Children(out.rows[j].addr)
                                            /\ \A k \in j + 1..i - 1 : out.rows[k].level >= r.level

\* dts -n name shows every node of that name whose path is its own, and at level 0 no
\* other.
NamedExact ==
  Finished("name") =>
    LET wanted == {a \in Family(dump.root) : Node(a).full = out.name \/ Node(a).name = out.name}
        top == {out.rows[i].addr : i \in {k \in DOMAIN out.rows : out.rows[k].level = 0}}
    IN /\ top \subseteq wanted
       /\ \A a \in wanted : (\A b \in Family(dump.root) \ {a} : PathTo(b) # PathTo(a)) => a \in top

\* dts -m shows the ranges of a memory node, whole groups of start and size only.
DdrOfMemory ==
  Finished("m") /\ out.ranges # <<>> =>
    \E a \in Family(dump.root) :
      /\ Node(a).full = "memory" \/ Node(a).name = "memory"
      /\ PropsOf(a, "reg") # <<>> /\ out.ranges = SubSeq(PropsOf(a, "reg")[1].val, 1, PropsOf(a, "reg")[1].len \div 16)
=============================================================================
