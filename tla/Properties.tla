----------------------------- MODULE Properties -----------------------------
(***************************************************************************)
(* The getprop command of a session (property/propinfo.cpp, prop.cpp).     *)
(* The property areas of init are read in two ways into prop_map: through  *)
(* the contexts of libc, with its symbols (parser_propertys), and from the *)
(* mapped files (parser_prop_by_init); -a and -p take them in a different  *)
(* order.  An area is a ternary tree of nodes [prop, left, right,          *)
(* children], each an offset or 0, and its properties [name, value].       *)
(***************************************************************************)
EXTENDS Integers, Sequences, FiniteSets, SequencesExt, TLC

CONSTANTS AreaSets,    \* Seq of [len, read, magic, bt, info], bt and info by offset
          FileVmas,    \* the file vmas of init that are areas: Seq(area)
          Contexts,    \* the areas of the contexts: Seq(area or 0)
          Cleaned,     \* the values with blanks around them: [value -> value]
          PaDataSize,
          MaxPropCmds  \* bound on the commands of a session

VARIABLES dump, pc, pos, out
vars == <<dump, pc, pos, out>>

Init ==
  /\ dump \in [areas : AreaSets, vmas : FileVmas, contexts : Contexts, init : BOOLEAN, interrupts : BOOLEAN]
  /\ pc = "prompt"
  /\ pos = [cmds |-> 0, opt |-> "a", symbols |-> FALSE, todo |-> <<>>, i |-> 1, area |-> 0, stack |-> <<>>, prop_map |-> <<>>,
            stopped |-> FALSE]
  /\ out = [op |-> "none", props |-> <<>>]

-----------------------------------------------------------------------------

\* cleanString; a string of blanks becomes empty.
cleanString(s) == IF s \in DOMAIN Cleaned THEN Cleaned[s] ELSE s

\* cmd_main -s
LoadSymbols ==
  /\ pc = "prompt"
  /\ pos.cmds < MaxPropCmds
  /\ pos' = [pos EXCEPT !.cmds = @ + 1, !.symbols = TRUE]
  /\ out' = [out EXCEPT !.op = "s"]
  /\ UNCHANGED <<dump, pc>>

\* Mutant: the areas are read by every command.
NothingKept == TRUE

\* The areas are read while prop_map is empty.
NotParsed == pos.prop_map = <<>>

\* The two ways, in the order of -a and of get_prop; the first needs symbols, both
\* need init.
Ways(opt) == IF ~dump.init THEN <<>> ELSE IF ~pos.symbols THEN <<"init">> ELSE IF opt = "a" THEN <<"ctx", "init">> ELSE <<"init", "ctx">>

CmdMain ==
  /\ pc = "prompt"
  /\ pos.cmds < MaxPropCmds
  /\ \E opt \in {"a", "p"} :
       /\ pos' = [pos EXCEPT !.cmds = @ + 1, !.opt = opt, !.i = 1, !.todo = IF NotParsed THEN Ways(opt) ELSE <<>>]
       /\ out' = [out EXCEPT !.op = opt]
  /\ pc' = "area"
  /\ UNCHANGED dump

AreaList == IF Head(pos.todo) = "init" THEN dump.vmas ELSE dump.contexts
Done == pos.todo = <<>>
Area(i) == dump.areas[i]
\* A file that was read already is passed over; a context needs a valid area.
Reads(way, i) ==
  IF way = "init" THEN ~(\E j \in 1..(i - 1) : dump.vmas[j] = dump.vmas[i]) /\ Area(dump.vmas[i]).read
  ELSE dump.contexts[i] # 0 /\ Area(dump.contexts[i]).magic
\* Where the walk starts: at the children of the root, or at the root.
Start(way, a) == IF way = "init" THEN (IF a.bt[0].children # 0 THEN <<[op |-> "bt", at |-> a.bt[0].children]>> ELSE <<>>)
                 ELSE <<[op |-> "bt", at |-> 0]>>

\* The next area of parser_prop_by_init or parser_propertys, or the next way.
NextArea ==
  /\ pc = "area"
  /\ IF Done THEN pc' = "print" /\ UNCHANGED pos
     ELSE IF pos.i > Len(AreaList) THEN pos' = [pos EXCEPT !.todo = Tail(@), !.i = 1] /\ UNCHANGED pc
     ELSE IF ~Reads(Head(pos.todo), pos.i) THEN pos' = [pos EXCEPT !.i = @ + 1] /\ UNCHANGED pc
     ELSE /\ pos' = [pos EXCEPT !.i = @ + 1, !.area = AreaList[pos.i], !.stack = Start(Head(pos.todo), Area(AreaList[pos.i]))]
          /\ pc' = Head(pos.todo)
  /\ UNCHANGED <<dump, out>>

\* for_each_prop returns FALSE through all its callers: the rest of the area is lost.
Abort == <<>>

Put(m, name, value) == (name :> value) @@ m

\* One call of for_each_prop, from the copy of the vma: left, the property, the
\* children, right.  A property is taken when its value fits; for its name the 100
\* bytes behind it are read, past the end of the copy for the last one of an area.
VisitInit ==
  /\ pc = "init"
  /\ IF pos.stack = <<>> THEN pc' = "area" /\ UNCHANGED pos
     ELSE LET a == Area(pos.area)
              top == Head(pos.stack)
              rest == Tail(pos.stack)
              Sub(off) == IF off = 0 THEN <<>> ELSE <<[op |-> "bt", at |-> off]>>
          IN  IF top.op = "bt"
              THEN /\ UNCHANGED pc
                   /\ pos' = [pos EXCEPT !.stack =
                        IF top.at + 1 > a.len THEN Abort
                        ELSE LET n == a.bt[top.at]
                             IN  Sub(n.left) \o (IF n.prop = 0 THEN <<>> ELSE <<[op |-> "prop", at |-> n.prop]>>)
                                   \o Sub(n.children) \o Sub(n.right) \o rest]
              ELSE IF top.at + 1 = a.len THEN pc' = "undefined" /\ UNCHANGED pos
              ELSE /\ UNCHANGED pc
                   /\ pos' = LET next == [pos EXCEPT !.stack = rest]
                             IN  IF top.at + 1 > a.len THEN next
                                 ELSE LET p == a.info[top.at]
                                      IN  IF cleanString(p.value) = "" \/ cleanString(p.name) = "" THEN next
                                          ELSE [next EXCEPT !.prop_map = Put(@, cleanString(p.name), cleanString(p.value))]
  /\ UNCHANGED <<dump, out>>

\* One call of parser_prop_bt, from the memory of init: the property, left, right,
\* children, each only below pa_data_size_; the value as it is.
VisitCtx ==
  /\ pc = "ctx"
  /\ IF pos.stack = <<>> THEN pc' = "area" /\ UNCHANGED pos
     ELSE LET a == Area(pos.area)
              top == Head(pos.stack)
              rest == Tail(pos.stack)
              Below(off, op) == IF off > 0 /\ off < PaDataSize THEN <<[op |-> op, at |-> off]>> ELSE <<>>
              n == a.bt[top.at]
              p == a.info[top.at]
          IN  /\ UNCHANGED pc
              /\ pos' = IF top.op = "bt"
                        THEN [pos EXCEPT !.stack = Below(n.prop, "prop") \o Below(n.left, "bt") \o Below(n.right, "bt")
                                                     \o Below(n.children, "bt") \o rest]
                        ELSE [pos EXCEPT !.stack = rest, !.prop_map = IF p.name = "" THEN @ ELSE Put(@, p.name, p.value)]
  /\ UNCHANGED <<dump, out>>

\* print_propertys, or the one property asked for.
PrintProps ==
  /\ pc = "print"
  /\ pc' = "prompt"
  /\ out' = [out EXCEPT !.props = pos.prop_map]
  /\ UNCHANGED <<dump, pos>>

\* An error or ^C while the areas are read (external).
Restart ==
  /\ dump.interrupts
  /\ pc \in {"area", "init", "ctx"}
  /\ pc' = "prompt"
  /\ pos' = [pos EXCEPT !.stopped = @ \/ pos.prop_map # <<>>, !.stack = <<>>]
  /\ UNCHANGED <<dump, out>>

Next == LoadSymbols \/ CmdMain \/ NextArea \/ VisitInit \/ VisitCtx \/ PrintProps \/ Restart

Spec == Init /\ [][Next]_vars /\ WF_vars(Next)

-----------------------------------------------------------------------------

\* The properties of an area by name (a name belongs to one area).
Infos == UNION {{Area(k).info[o] : o \in DOMAIN Area(k).info} : k \in DOMAIN dump.areas}

\* Whatever order the two ways were taken in and whatever was damaged, a name in
\* prop_map is a name of the dump and has that property's own value (up to the
\* blanks around it, which only one of the ways removes).
PropValuesRight ==
  \A n \in DOMAIN pos.prop_map : \E p \in Infos :
    cleanString(p.name) = cleanString(n) /\ cleanString(p.value) = cleanString(pos.prop_map[n])

Intact(a) == \A o \in DOMAIN a.bt : LET n == a.bt[o] IN {n.left, n.right, n.children} \subseteq DOMAIN a.bt /\ n.prop < a.len

\* A damaged node costs properties of its own area at most: of every mapped area
\* that is intact, each property with a value is listed by a command that was not
\* preceded by an interrupted one.
IntactAreasComplete ==
  pc = "print" /\ dump.init /\ ~pos.stopped =>
    \A k \in Range(dump.vmas) : Intact(Area(k)) /\ Area(k).read =>
      \A o \in DOMAIN Area(k).info :
        LET p == Area(k).info[o]
        IN  p.name # "" /\ cleanString(p.value) # "" => cleanString(p.name) \in DOMAIN pos.prop_map

\* What a session once showed it shows again with the same value, whichever of the
\* two orders a later command would read the areas in.
ShownStays == \A n \in DOMAIN out.props : n \in DOMAIN pos.prop_map /\ pos.prop_map[n] = out.props[n]

=============================================================================
