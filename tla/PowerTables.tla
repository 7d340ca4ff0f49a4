----------------------------- MODULE PowerTables -----------------------------
(***************************************************************************)
(* Commands with a table of owners and what they own: icc (icc/icc.cpp)   *)
(* with providers, nodes and requests (Icc), reg (regulator/regulator.cpp) *)
(* with regulators and consumers (Reg), tm (thermal/thermal.cpp) with      *)
(* zones, trips and cooling devices (Tm), and ccf (clock/clock.cpp) with   *)
(* providers and clocks (Ccf).  They are state machines of their own over  *)
(* the same variables.                                                     *)
(***************************************************************************)
EXTENDS Integers, Sequences, FiniteSets, SequencesExt

CONSTANTS   \* Icc
          ProviderLists, \* Seq of [name, nodes]: a node is [read, name, reqs], a request [read, id]
          IccNames,      \* the names asked for
          MaxIccCmds     \* bound on the commands of a session

CONSTANTS   \* Reg
          RegulatorLists, \* Seq of [constraint, cname, desc, dname, uV, consumers]
          RegNames,       \* the names asked for
          MaxRegCmds      \* bound on the commands of a session

CONSTANTS   \* Tm
          ZoneLists,   \* Seq of [read, name, tz, trips, instances]; tz is where the trips are:
                       \* "zone", "devdata" or "unread"; an instance is [trip, kv, id]
          CoolingSets, \* Seq of [id, kv, name]
          ZoneNames,   \* the names asked for
          SizeT,       \* 2^64, the range of size_t
          MaxTmCmds    \* bound on the commands of a session

CONSTANTS   \* Ccf
          ClkProviderLists, \* Seq of [read, get, get_hw, clks]; clks is a Seq of [kv, core], core 0 is no address
          Clocks,           \* the state of each clock: [read, enable, prepare, users], users a Seq of [dev, con]
          IntMod,           \* 2^32, the range of an unsigned int
          MaxCcfCmds        \* bound on the commands of a session

VARIABLES dump, pc, pos, out
vars == <<dump, pc, pos, out>>

-----------------------------------------------------------------------------
(***************************************************************************)
(* The icc command of a session (icc/icc.cpp): the providers, their nodes  *)
(* and the requests of each are read once and printed whole (-a), as       *)
(* providers (-p), as the nodes of a provider (-n) or as the requests of   *)
(* a node (-r).                                                            *)
(***************************************************************************)

InitIcc ==
  /\ dump \in [symbol : BOOLEAN, providers : ProviderLists, interrupts : BOOLEAN]
  /\ pc = "prompt"
  /\ pos = [cmds |-> 0, op |-> "", name |-> "", i |-> 1, provider_list |-> <<>>, half |-> FALSE]
  /\ out = <<>>

\* cmd_main: an empty list is read again.
CmdMainIcc ==
  /\ pc = "prompt"
  /\ pos.cmds < MaxIccCmds
  /\ \E op \in {"a", "p", "n", "r"}, name \in IccNames :
       /\ op \in {"a", "p"} => name = CHOOSE n \in IccNames : TRUE
       /\ pos' = [pos EXCEPT !.cmds = @ + 1, !.op = op, !.name = name, !.i = 1]
  /\ pc' = IF pos.provider_list = <<>> /\ dump.symbol THEN "parse" ELSE "print"
  /\ out' = <<>>
  /\ UNCHANGED dump

\* parser_icc_req and parser_icc_node: what cannot be read is left out.
parser_icc_req(node) == SelectSeq(node.reqs, LAMBDA r : r.read)
parser_icc_node(p) ==
  LET nodes == SelectSeq(p.nodes, LAMBDA n : n.read)
  IN  [i \in DOMAIN nodes |-> [name |-> nodes[i].name, req_list |-> parser_icc_req(nodes[i])]]

\* One turn of parser_icc_provider: a provider joins the list with all of its nodes.
ParseProvider ==
  /\ pc = "parse"
  /\ IF pos.i > Len(dump.providers) THEN pc' = "print" /\ UNCHANGED pos
     ELSE /\ pos' = [pos EXCEPT !.i = @ + 1, !.provider_list =
                       Append(@, [name |-> dump.providers[pos.i].name, node_list |-> parser_icc_node(dump.providers[pos.i])])]
          /\ UNCHANGED pc
  /\ UNCHANGED <<dump, out>>

\* Mutant: only the first one of a name is looked at.
NamedFirst(list, name) == LET all == SelectSeq(list, LAMBDA x : x.name = name) IN SubSeq(all, 1, IF all = <<>> THEN 0 ELSE 1)
Named(list, name) == SelectSeq(list, LAMBDA x : x.name = name)
AllNodes == FlattenSeq([i \in DOMAIN pos.provider_list |-> pos.provider_list[i].node_list])

\* print_icc_nodes: nothing is printed when one of the providers has no node.
print_icc_nodes(name) ==
  LET ps == Named(pos.provider_list, name)
  IN  IF \E i \in DOMAIN ps : ps[i].node_list = <<>> THEN <<>> ELSE FlattenSeq([i \in DOMAIN ps |-> ps[i].node_list])
\* print_icc_request: nothing is printed when one of the nodes has no request.
print_icc_request(name) ==
  LET ns == Named(AllNodes, name)
  IN  IF \E i \in DOMAIN ns : ns[i].req_list = <<>> THEN <<>> ELSE FlattenSeq([i \in DOMAIN ns |-> ns[i].req_list])

PrintIcc ==
  /\ pc = "print"
  /\ pc' = "prompt"
  /\ out' = CASE pos.op = "a" -> pos.provider_list
              [] pos.op = "p" -> [i \in DOMAIN pos.provider_list |-> pos.provider_list[i].name]
              [] pos.op = "n" -> print_icc_nodes(pos.name)
              [] pos.op = "r" -> print_icc_request(pos.name)
  /\ UNCHANGED <<dump, pos>>

\* An error or ^C while the providers are read (external).
RestartIcc ==
  /\ dump.interrupts
  /\ pc = "parse"
  /\ pc' = "prompt"
  /\ pos' = [pos EXCEPT !.op = "", !.half = @ \/ pos.provider_list # <<>>]
  /\ UNCHANGED <<dump, out>>

NextIcc == CmdMainIcc \/ ParseProvider \/ PrintIcc \/ RestartIcc

SpecIcc == InitIcc /\ [][NextIcc]_vars /\ WF_vars(NextIcc)

-----------------------------------------------------------------------------

Read(s) == {i \in DOMAIN s : s[i].read}

\* icc -a shows every provider with each of its nodes and requests that can be read
\* under it; providers are missing only after a first reading that was interrupted,
\* and then from the end.
IccTreeExact ==
  pc = "prompt" /\ pos.op = "a" /\ dump.symbol =>
    /\ Len(out) <= Len(dump.providers) /\ (~pos.half => Len(out) = Len(dump.providers))
    /\ \A i \in DOMAIN out :
         LET p == dump.providers[i]
         IN  /\ out[i].name = p.name
             /\ Len(out[i].node_list) = Cardinality(Read(p.nodes))
             /\ \A k \in Read(p.nodes) :
                  LET n == out[i].node_list[Cardinality({j \in Read(p.nodes) : j <= k})]
                  IN  n.name = p.nodes[k].name /\ Range(n.req_list) = {p.nodes[k].reqs[j] : j \in Read(p.nodes[k].reqs)}

\* icc -r shows the requests of every node of the name, of whatever provider, unless
\* one of them has no request: then it shows none of them.  So does icc -n.
RequestsOfName ==
  pc = "prompt" /\ pos.op = "r" /\ ~pos.half /\ dump.symbol =>
    LET nodes == UNION {{p.nodes[k] : k \in Read(p.nodes)} : p \in Range(dump.providers)}
        mine == {n \in nodes : n.name = pos.name}
    IN  Range(out) = IF \E n \in mine : Read(n.reqs) = {} THEN {} ELSE UNION {{n.reqs[k] : k \in Read(n.reqs)} : n \in mine}
NodesOfName ==
  pc = "prompt" /\ pos.op = "n" /\ ~pos.half /\ dump.symbol =>
    LET mine == {i \in DOMAIN dump.providers : dump.providers[i].name = pos.name}
        Of(i) == {dump.providers[i].nodes[k].name : k \in Read(dump.providers[i].nodes)}
    IN  {n.name : n \in Range(out)} = IF \E i \in mine : Of(i) = {} THEN {} ELSE UNION {Of(i) : i \in mine}

-----------------------------------------------------------------------------
(***************************************************************************)
(* The reg command of a session (regulator/regulator.cpp): the regulators  *)
(* and the consumers of each are read once and printed with their          *)
(* consumers (-a), as a table (-r) or as the consumers of a regulator      *)
(* given by its name (-c).                                                 *)
(***************************************************************************)

\* out is a sequence of lines; a line is a sequence of texts.
InitReg ==
  /\ dump \in [regs : RegulatorLists, interrupts : BOOLEAN]
  /\ pc = "prompt"
  /\ pos = [cmds |-> 0, op |-> "", name |-> "", i |-> 1, regulator_list |-> <<>>, half |-> FALSE]
  /\ out = <<>>

CmdMainReg ==
  /\ pc = "prompt"
  /\ pos.cmds < MaxRegCmds
  /\ \E op \in {"a", "r", "c"}, name \in RegNames :
       /\ op # "c" => name = CHOOSE n \in RegNames : TRUE
       /\ pos' = [pos EXCEPT !.cmds = @ + 1, !.op = op, !.name = name, !.i = 1]
  /\ pc' = IF pos.regulator_list = <<>> THEN "parse" ELSE "print"
  /\ out' = <<>>
  /\ UNCHANGED dump

\* Mutant: the name of the description is not asked for.
NameConstraint(r) == IF r.constraint /\ r.cname # "" THEN r.cname ELSE "UnKnow"
\* The name of the constraints, else of the description, else "UnKnow".
NameOf(r) == IF r.constraint /\ r.cname # "" THEN r.cname ELSE IF r.desc /\ r.dname # "" THEN r.dname ELSE "UnKnow"

\* A consumer keeps the voltages of which one limit is not 0.
Voltages(c) == SelectSeq(c.voltage, LAMBDA v : v.min # 0 \/ v.max # 0)
Consumers(r) == [k \in DOMAIN r.consumers |-> [id |-> r.consumers[k].id, voltages |-> Voltages(r.consumers[k])]]

\* One turn of parser_regulator_dev.
ParseRegulator ==
  /\ pc = "parse"
  /\ IF pos.i > Len(dump.regs) THEN pc' = "print" /\ UNCHANGED pos
     ELSE LET r == dump.regs[pos.i]
          IN  /\ pos' = [pos EXCEPT !.i = @ + 1, !.regulator_list =
                           Append(@, [name |-> NameOf(r), uV |-> IF r.constraint THEN r.uV ELSE 0, consumers |-> Consumers(r)])]
              /\ UNCHANGED pc
  /\ UNCHANGED <<dump, out>>

Heading == [id |-> 0, voltages |-> <<>>]
\* print_regulator_consumer: oss is emptied before each consumer, but not before the
\* heading of the next regulator of the name.
print_regulator_consumer(list, name) ==
  LET Turn(acc, d) ==
        IF d.name # name THEN acc
        ELSE [oss |-> IF d.consumers = <<>> THEN Append(acc.oss, Heading) ELSE <<d.consumers[Len(d.consumers)]>>,
              lines |-> Append(acc.lines, Append(acc.oss, Heading)) \o [k \in DOMAIN d.consumers |-> <<d.consumers[k]>>]]
  IN  FoldLeft(Turn, [oss |-> <<>>, lines |-> <<>>], list).lines
\* print_regulator_info and print_regulator_dev.
print_regulator_info(list) == FlattenSeq([i \in DOMAIN list |-> <<<<list[i].name>>>> \o [k \in DOMAIN list[i].consumers |-> <<list[i].consumers[k]>>]])
print_regulator_dev(list) == [i \in DOMAIN list |-> <<list[i].name, list[i].uV>>]

PrintRegulators ==
  /\ pc = "print"
  /\ pc' = "prompt"
  /\ out' = CASE pos.op = "a" -> print_regulator_info(pos.regulator_list)
              [] pos.op = "r" -> print_regulator_dev(pos.regulator_list)
              [] pos.op = "c" -> print_regulator_consumer(pos.regulator_list, pos.name)
  /\ UNCHANGED <<dump, pos>>

\* An error or ^C while the regulators are read (external).
RestartReg ==
  /\ dump.interrupts
  /\ pc = "parse"
  /\ pc' = "prompt"
  /\ pos' = [pos EXCEPT !.op = "", !.half = @ \/ pos.regulator_list # <<>>]
  /\ UNCHANGED <<dump, out>>

NextReg == CmdMainReg \/ ParseRegulator \/ PrintRegulators \/ RestartReg

SpecReg == InitReg /\ [][NextReg]_vars /\ WF_vars(NextReg)

-----------------------------------------------------------------------------

Whole == pc = "prompt" /\ ~pos.half

\* reg -r has a row for each regulator, with the name its constraints give before the
\* one of its description, and its limit; rows are missing only after a first reading
\* that was interrupted.
RegulatorsExact ==
  /\ Whole /\ pos.op = "r" => Len(out) = Len(dump.regs)
  /\ pc = "prompt" /\ pos.op = "r" =>
       \A i \in DOMAIN out :
         LET r == dump.regs[i]
             known == (IF r.constraint THEN {r.cname} ELSE {}) \cup (IF r.desc THEN {r.dname} ELSE {})
         IN  /\ out[i][1] \in (known \ {""}) \cup {"UnKnow"}
             /\ known \ {""} # {} => out[i][1] # "UnKnow"
             /\ r.constraint /\ r.cname # "" => out[i][1] = r.cname
             /\ r.constraint => out[i][2] = r.uV

\* reg -c has a line of its own for each consumer of each regulator of the name, once
\* and in order; a consumer is repeated only in front of a heading.
ConsumersExact ==
  Whole /\ pos.op = "c" =>
    LET own == SelectSeq(out, LAMBDA l : Heading \notin Range(l))
        regs == SelectSeq(dump.regs, LAMBDA r : NameOf(r) = pos.name)
        ids == FlattenSeq([i \in DOMAIN regs |-> [k \in DOMAIN regs[i].consumers |-> regs[i].consumers[k].id]])
    IN  /\ Len(own) = Len(ids)
        /\ \A k \in DOMAIN own : own[k][1].id = ids[k]
        /\ Len(out) = Len(own) + Len(regs)

-----------------------------------------------------------------------------
(***************************************************************************)
(* The tm command of a session (thermal/thermal.cpp): the zones, their     *)
(* trips and the cooling devices bound to each trip are read once and      *)
(* printed as a table (-z) or for a zone given by its name (-Z); the       *)
(* cooling devices (-c) are read for every command.                        *)
(***************************************************************************)

InitTm ==
  /\ dump \in [zones : ZoneLists, cdevs : CoolingSets, symbols : BOOLEAN, interrupts : BOOLEAN]
  /\ pc = "prompt"
  /\ pos = [cmds |-> 0, op |-> "", name |-> "", i |-> 1, zone_list |-> <<>>, half |-> FALSE]
  /\ out = <<>>

CmdMainTm ==
  /\ pc = "prompt"
  /\ pos.cmds < MaxTmCmds
  /\ \E op \in {"z", "c", "Z"}, name \in ZoneNames :
       /\ op # "Z" => name = CHOOSE n \in ZoneNames : TRUE
       /\ pos' = [pos EXCEPT !.cmds = @ + 1, !.op = op, !.name = name, !.i = 1]
  /\ pc' = IF pos.zone_list = <<>> /\ dump.symbols THEN "parse" ELSE "print"
  /\ out' = <<>>
  /\ UNCHANGED dump

\* Mutant: the first trip is passed over as well.
PassedOverZero(ins, trips) == (ins.trip % SizeT) > Len(trips) \/ ins.trip = 0 \/ ~ins.kv
\* An instance is passed over when its trip, as a size_t, is past the end of the list
\* by more than one, or its cooling device is no address.
PassedOver(ins, trips) == (ins.trip % SizeT) > Len(trips) \/ ~ins.kv
\* trip_list[trip] is looked up without a check: one past the end is undefined.
PastTheEnd(ins, trips) == ~PassedOver(ins, trips) /\ (ins.trip % SizeT) = Len(trips)

CoolList(z, t) == SelectSeq(z.instances, LAMBDA ins : ~PassedOver(ins, z.trips) /\ ins.trip = t)
Zone(z) ==
  [name |-> z.name,
   trip_list |-> [t \in DOMAIN z.trips |-> [temp |-> z.trips[t],
                                             cool_list |-> [k \in DOMAIN CoolList(z, t - 1) |-> CoolList(z, t - 1)[k].id]]]]

\* One turn of parser_thrermal_zone.  A zone or a __thermal_zone that cannot be read is
\* used all the same.
ParseZone ==
  /\ pc = "parse"
  /\ IF pos.i > Len(dump.zones) THEN pc' = "print" /\ UNCHANGED pos
     ELSE LET z == dump.zones[pos.i]
          IN  IF ~z.read \/ z.tz = "unread" \/ (z.trips # <<>> /\ \E k \in DOMAIN z.instances : PastTheEnd(z.instances[k], z.trips))
              THEN pc' = "undefined" /\ UNCHANGED pos
              ELSE /\ pos' = [pos EXCEPT !.i = @ + 1, !.zone_list = Append(@, Zone(z))]
                   /\ UNCHANGED pc
  /\ UNCHANGED <<dump, out>>

\* print_zone_device, with and without a name, and print_cooling_device.
PrintZones ==
  /\ pc = "print"
  /\ pos.op = "z"
  /\ out' = [i \in DOMAIN pos.zone_list |-> pos.zone_list[i].name]
  /\ pc' = "prompt"
  /\ UNCHANGED <<dump, pos>>

PrintZone ==
  /\ pc = "print"
  /\ pos.op = "Z"
  /\ out' = SelectSeq(pos.zone_list, LAMBDA z : z.name = pos.name)
  /\ pc' = "prompt"
  /\ UNCHANGED <<dump, pos>>

PrintCooling ==
  /\ pc = "print"
  /\ pos.op = "c"
  /\ out' = IF ~dump.symbols THEN <<>>
            ELSE [i \in DOMAIN dump.cdevs |-> [id |-> dump.cdevs[i].id, name |-> IF dump.cdevs[i].kv THEN dump.cdevs[i].name ELSE ""]]
  /\ pc' = "prompt"
  /\ UNCHANGED <<dump, pos>>

\* An error or ^C while the zones are read (external).
RestartTm ==
  /\ dump.interrupts
  /\ pc = "parse"
  /\ pc' = "prompt"
  /\ pos' = [pos EXCEPT !.op = "", !.half = @ \/ pos.zone_list # <<>>]
  /\ UNCHANGED <<dump, out>>

NextTm == CmdMainTm \/ ParseZone \/ PrintZones \/ PrintZone \/ PrintCooling \/ RestartTm

SpecTm == InitTm /\ [][NextTm]_vars /\ WF_vars(NextTm)

-----------------------------------------------------------------------------

\* tm -Z shows, for every zone of the name, each trip in order with exactly the cooling
\* devices whose instance names that trip; zones are missing only after a first reading
\* that was interrupted.
TripsExact ==
  pc = "prompt" /\ pos.op = "Z" /\ dump.symbols =>
    LET mine == SelectSeq(dump.zones, LAMBDA z : z.name = pos.name)
    IN  /\ Len(out) <= Len(mine) /\ (~pos.half => Len(out) = Len(mine))
        /\ \A i \in DOMAIN out :
             /\ Len(out[i].trip_list) = Len(mine[i].trips)
             /\ \A t \in DOMAIN mine[i].trips :
                  /\ out[i].trip_list[t].temp = mine[i].trips[t]
                  /\ Range(out[i].trip_list[t].cool_list) = {ins.id : ins \in {x \in Range(mine[i].instances) : x.kv /\ x.trip = t - 1}}

\* Undefined behaviour needs a zone that cannot be read, or an instance whose trip is
\* exactly the number of trips: the test in front of trip_list[trip] lets that one by.
TripUndefinedOnly ==
  pc = "undefined" =>
    \E z \in Range(dump.zones) :
      ~z.read \/ z.tz = "unread" \/ \E ins \in Range(z.instances) : ins.kv /\ ins.trip = Len(z.trips)

-----------------------------------------------------------------------------
(***************************************************************************)
(* The ccf command of a session (clock/clock.cpp): the clock providers are *)
(* read once with the addresses of their clocks; the state of the clocks   *)
(* is read from the dump by every command that prints them (-c, -t, -e,    *)
(* -d, -p).  How a provider names its clocks depends on its get function;  *)
(* three kinds need the types of a kernel module, which the user may load  *)
(* between two commands.                                                   *)
(***************************************************************************)

NeedsModule == {"qcom_cc", "smd_rpm", "rpmh"}

InitCcf ==
  /\ dump \in [symbol : BOOLEAN, providers : ClkProviderLists, interrupts : BOOLEAN]
  /\ pc = "prompt"
  /\ pos = [cmds |-> 0, op |-> "", i |-> 1, k |-> 1, provider_list |-> <<>>,
            loaded |-> {}, known |-> {}, half |-> FALSE]
  /\ out = <<>>

\* mod -s of crash: the types of a module can be looked up from now on (external).
LoadModule ==
  /\ pc = "prompt"
  /\ \E m \in NeedsModule \ pos.loaded : pos' = [pos EXCEPT !.loaded = @ \cup {m}]
  /\ out' = <<>>
  /\ UNCHANGED <<dump, pc>>

\* cmd_main: init_offset looks the types up, together with the first reading only.
CmdMainCcf ==
  /\ pc = "prompt"
  /\ pos.cmds < MaxCcfCmds
  /\ \E op \in {"c", "t", "e", "d", "p"} :
       pos' = [pos EXCEPT !.cmds = @ + 1, !.op = op, !.i = 1, !.known = IF pos.provider_list = <<>> THEN pos.loaded ELSE @]
  /\ pc' = IF pos.provider_list = <<>> /\ dump.symbol THEN "provider" ELSE "print"
  /\ out' = <<>>
  /\ UNCHANGED dump

\* Mutant: a provider with both functions is read by the second.
KindHwFirst(p) == IF p.get_hw # "none" THEN p.get_hw ELSE p.get
\* get_hw is looked at only when get is no address.
Kind(p) == IF p.get # "none" THEN p.get ELSE p.get_hw

\* parser_clk_providers: a provider joins the list before its clocks are read.
NextProvider ==
  /\ pc = "provider"
  /\ IF pos.i > Len(dump.providers) THEN pc' = "print" /\ UNCHANGED pos
     ELSE IF ~dump.providers[pos.i].read THEN pos' = [pos EXCEPT !.i = @ + 1] /\ UNCHANGED pc
     ELSE /\ pos' = [pos EXCEPT !.k = 1, !.provider_list = Append(@, [i |-> pos.i, core_list |-> <<>>])]
          /\ pc' = "clocks"
  /\ UNCHANGED <<dump, out>>

Push(core) == [pos.provider_list EXCEPT ![Len(pos.provider_list)].core_list = Append(@, core)]

\* An entry of a table counts when it and the clock behind it are addresses.
WithEntry(e) == IF ~e.kv \/ e.core = 0 THEN pos.provider_list ELSE Push(e.core)

\* parser_clk_simple and parser_clk_hw_simple: one clock, the data of the provider.
ParseSimple ==
  /\ pc = "clocks"
  /\ Kind(dump.providers[pos.i]) \in {"simple", "hw_simple"}
  /\ LET core == dump.providers[pos.i].clks[1].core
     IN  pos' = [pos EXCEPT !.i = @ + 1, !.provider_list = IF core = 0 THEN @ ELSE Push(core)]
  /\ pc' = "provider"
  /\ UNCHANGED <<dump, out>>

\* One turn of parser_clk_onecell.
ParseOnecell ==
  /\ pc = "clocks"
  /\ Kind(dump.providers[pos.i]) = "onecell"
  /\ LET clks == dump.providers[pos.i].clks
     IN  IF pos.k > Len(clks) THEN pc' = "provider" /\ pos' = [pos EXCEPT !.i = @ + 1]
         ELSE /\ pos' = [pos EXCEPT !.k = @ + 1, !.provider_list = WithEntry(clks[pos.k])]
              /\ UNCHANGED pc
  /\ UNCHANGED <<dump, out>>

\* One turn of parser_clk_qcom_cc, parser_rpm_smd_clk or parser_clk_rpmh, which return
\* at once when the type is not known.
ParseTable ==
  /\ pc = "clocks"
  /\ Kind(dump.providers[pos.i]) \in NeedsModule
  /\ LET clks == dump.providers[pos.i].clks
     IN  IF Kind(dump.providers[pos.i]) \notin pos.known \/ pos.k > Len(clks)
         THEN pc' = "provider" /\ pos' = [pos EXCEPT !.i = @ + 1]
         ELSE /\ pos' = [pos EXCEPT !.k = @ + 1, !.provider_list = WithEntry(clks[pos.k])]
              /\ UNCHANGED pc
  /\ UNCHANGED <<dump, out>>

\* Providers whose clocks are not read: msm, spmi_pmic, virtio and unknown functions.
ParseNone ==
  /\ pc = "clocks"
  /\ Kind(dump.providers[pos.i]) \in {"todo", "none"}
  /\ pos' = [pos EXCEPT !.i = @ + 1]
  /\ pc' = "provider"
  /\ UNCHANGED <<dump, out>>

\* A count is read as an unsigned int and kept as an int.
AsInt(n) == IF n < IntMod \div 2 THEN n ELSE n - IntMod
AllCores == FlattenSeq([i \in DOMAIN pos.provider_list |-> pos.provider_list[i].core_list])

print_enable_clock == SelectSeq(AllCores, LAMBDA c : AsInt(Clocks[c].enable) > 0)
print_disable_clock == SelectSeq(AllCores, LAMBDA c : Clocks[c].prepare = 0 /\ Clocks[c].enable = 0)
print_prepare_clock == SelectSeq(AllCores, LAMBDA c : AsInt(Clocks[c].prepare) > 0)
\* print_clk_tree: a user with neither a device nor a connection is left out.
print_clk_tree == [k \in DOMAIN AllCores |-> <<AllCores[k], SelectSeq(Clocks[AllCores[k]].users, LAMBDA u : u.dev # "" \/ u.con # "")>>]
\* print_clk_providers and parser_clk_core: a clock that cannot be read has no row.
print_clk_providers == SelectSeq(AllCores, LAMBDA c : Clocks[c].read)

PrintClocks ==
  /\ pc = "print"
  /\ pc' = "prompt"
  /\ out' = CASE pos.op = "c" -> print_clk_providers
              [] pos.op = "t" -> print_clk_tree
              [] pos.op = "e" -> print_enable_clock
              [] pos.op = "d" -> print_disable_clock
              [] pos.op = "p" -> print_prepare_clock
  /\ UNCHANGED <<dump, pos>>

\* An error or ^C while the providers are read (external).
RestartCcf ==
  /\ dump.interrupts
  /\ pc \in {"provider", "clocks"}
  /\ pc' = "prompt"
  /\ pos' = [pos EXCEPT !.op = "", !.half = @ \/ pos.provider_list # <<>>]
  /\ UNCHANGED <<dump, out>>

NextCcf == LoadModule \/ CmdMainCcf \/ NextProvider \/ ParseSimple \/ ParseOnecell \/ ParseTable \/ ParseNone \/ PrintClocks \/ RestartCcf

SpecCcf == InitCcf /\ [][NextCcf]_vars /\ WF_vars(NextCcf)

-----------------------------------------------------------------------------

Done(op) == pc = "prompt" /\ pos.op = op /\ pos.cmds > 0 /\ out # <<>>

\* A clock is listed for its provider once per entry that names it, in the order of the
\* entries; a reading that was interrupted keeps a beginning of the list.
CoresExact ==
  \A i \in DOMAIN pos.provider_list :
    LET p == pos.provider_list[i]
        d == dump.providers[p.i]
        cores == [k \in DOMAIN d.clks |-> IF d.clks[k].kv THEN d.clks[k].core ELSE 0]
        all == SelectSeq(cores, LAMBDA c : c # 0)
    IN  /\ i > 1 => pos.provider_list[i - 1].i < p.i
        /\ IsPrefix(p.core_list, all)
        /\ (p.core_list # <<>> => d.read /\ (d.get \in {"simple", "onecell"} \/ (d.get = "none" /\ d.get_hw \in {"hw_simple"} \cup pos.known)))
        /\ (~pos.half /\ pc \in {"print", "prompt"} /\ (d.get = "onecell" \/ (d.get = "none" /\ d.get_hw \in pos.known)) => p.core_list = all)

\* The clocks of a provider that needs a module are shown only if the module was loaded
\* before the first command: one loaded later is never looked at again.
LoadedTooLate ==
  pc = "prompt" /\ pos.provider_list # <<>> =>
    \A i \in DOMAIN pos.provider_list :
      LET p == dump.providers[pos.provider_list[i].i]
      IN  p.get = "none" /\ p.get_hw \in pos.loaded \ pos.known => pos.provider_list[i].core_list = <<>>

\* Of the clocks read, -e, -d and -p show every one that has two counts an int can hold,
\* and -e and -d never the same one.
CountsPartition ==
  \A c \in Range(AllCores) :
    /\ ~(c \in Range(print_enable_clock) /\ c \in Range(print_disable_clock))
    /\ Clocks[c].enable < IntMod \div 2 /\ Clocks[c].prepare < IntMod \div 2 =>
         c \in Range(print_enable_clock) \cup Range(print_disable_clock) \cup Range(print_prepare_clock)

\* ccf -t shows each clock of each provider with those of its users that have a name.
ClockTreeExact ==
  Done("t") =>
    /\ [k \in DOMAIN out |-> out[k][1]] = AllCores
    /\ \A k \in DOMAIN out : Range(out[k][2]) = {u \in Range(Clocks[out[k][1]].users) : u.dev # "" \/ u.con # ""}

=============================================================================
