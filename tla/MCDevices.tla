----------------------------- MODULE MCDevices ------------------------------
(***************************************************************************)
(* The commands that list what the kernel keeps per device, for TLC: dd    *)
(* (buses, classes and their devices; block devices and partitions), dts,  *)
(* icc, reg, tm and ccf; dbi, the registers its firmware saves of a cpu;   *)
(* and df, cpu, cache and sched.  A behaviour is a session of one of them. *)
(***************************************************************************)
EXTENDS Integers, Sequences, FiniteSets, TLC

CONSTANT NoPolicy   \* a cpu without a frequency policy

VARIABLES which, dump, pc, pos, out

Set(name, kv, devices, drivers) == [name |-> name, kv |-> kv, devices |-> devices, drivers |-> drivers]

Bdev(meta, super, name, read) == [meta |-> meta, super |-> super, name |-> name, read |-> read]

\* Two buses with one device and one driver each, the drivers of one name; names that
\* are cut, empty or end in a newline; two classes that share a device; two commands.
\* Up to three partitions, with and without a superblock and a name; sectors of 6 bits.
D == INSTANCE DeviceDriver WITH
  Devices <- {"x", "y"}, Drivers <- {1, 2}, DriverName <- <<"d", "d">>, LongNames <- {"long"},
  Newlined <- ("n\n" :> "n"), NoDriver <- 0, MaxDdCmds <- 2,
  BusSets <- {<<Set("a", TRUE, <<"x">>, <<1>>), Set(n, kv, <<"y">>, <<2>>)>> : n \in {"b", "long", ""}, kv \in BOOLEAN},
  ClassSets <- {<<Set("n\n", TRUE, <<"y">>, <<>>), Set("c", TRUE, <<"y", "x">>, <<>>)>>, <<>>},
  MaxParts <- 3, MaxSect <- 4, SectMod <- 64,
  BdevKinds <- {Bdev(TRUE, TRUE, TRUE, TRUE), Bdev(FALSE, FALSE, TRUE, TRUE),
                Bdev(TRUE, FALSE, FALSE, TRUE), Bdev(TRUE, TRUE, TRUE, FALSE)},
  Buckets <- <<<<[next |-> FALSE], [next |-> TRUE]>>, <<[next |-> TRUE], [next |-> TRUE]>>>>,
  PartTbls <- {<<TRUE, FALSE>>, <<FALSE, TRUE>>}

Node(full, name, props, child, sibling) ==
  [full |-> full, name |-> name, props |-> props, child |-> child, sibling |-> sibling]
Prop(name, len, val) == [name |-> name, len |-> len, val |-> val]
Memory(full, sibling, len, type) ==
     (1 :> Node("/", "", <<>>, 2, 0))
  @@ (2 :> Node("memory", "memory", <<Prop("device_type", 7, <<"memory">>), Prop("reg", len, <<"r1", "r2">>)>>, 0, 3))
  @@ (3 :> Node(full, "memory", <<Prop("device_type", type, IF type = 0 THEN <<>> ELSE <<"memory">>), Prop("reg", 16, <<"r3">>)>>, 4, sibling))
  @@ (4 :> Node("__symbols__", "x", <<Prop("a", 3, <<>>), Prop("b", 0, <<>>)>>, 0, 0))
  @@ (5 :> Node("soc", "soc", <<Prop("size", 6, <<>>), Prop("q", 8, <<>>), Prop("z", 5, <<>>)>>, 0, 0))

\* Trees of five nodes, two of them memory, of one name or of two; a sibling that is
\* no node; a root that is none; properties of every way to be shown.
E == INSTANCE DeviceTree WITH
  Trees <- {Memory(f, s, l, t) : f \in {"memory", "memory@8"}, s \in {5, 9, 0}, l \in {32, 24}, t \in {7, 0}},
  RootAddr <- {1, 9}, Dtbs <- {[symbol |-> TRUE, magic |-> m, small |-> TRUE, open |-> TRUE] : m \in BOOLEAN},
  StrNames <- {"device_type"}, IntNames <- {"reg", "size"}, SymbolNodes <- {"__symbols__"},
  NodeNames <- {"memory", "soc"}, NodeAddrs <- {3, 9}, MaxDtsCmds <- 2

IccNode(read, name, reqs) == [read |-> read, name |-> name, reqs |-> reqs]
Req(read, id) == [read |-> read, id |-> id]

Reg(constraint, cname, desc, dname, consumers) ==
  [constraint |-> constraint, cname |-> cname, desc |-> desc, dname |-> dname, uV |-> 7, consumers |-> consumers]
Consumer(id, min, max) == [id |-> id, voltage |-> <<[min |-> 0, max |-> 0], [min |-> min, max |-> max]>>]

ThermalZone(read, name, tz, trips, instances) ==
  [read |-> read, name |-> name, tz |-> tz, trips |-> trips, instances |-> instances]
Instance(trip, kv, id) == [trip |-> trip, kv |-> kv, id |-> id]

Provider(read, get, get_hw, clks) == [read |-> read, get |-> get, get_hw |-> get_hw, clks |-> clks]
Clk(kv, core) == [kv |-> kv, core |-> core]

\* Three providers; nodes of one name in several of them, with requests and without.
\* Three regulators, two of one name; names from either place, from none.
\* Three zones, two of one name; an instance with every trip from -1 to past the end.
\* Two providers of every kind; a count of 9 is no int of 4 bits.
P == INSTANCE PowerTables WITH
  IccNames <- {"x", "y"}, MaxIccCmds <- 3,
  ProviderLists <-
    {<<[name |-> "x", nodes |-> <<IccNode(TRUE, "x", <<Req(TRUE, 1), Req(r, 2)>>), IccNode(q, "y", <<Req(TRUE, 3)>>)>>],
       [name |-> m, nodes |-> s], [name |-> "x", nodes |-> <<IccNode(TRUE, "x", t)>>]>> :
       r \in BOOLEAN, q \in BOOLEAN, m \in {"", "x"}, s \in {<<>>, <<IccNode(TRUE, "y", <<Req(TRUE, 4)>>)>>}, t \in {<<>>, <<Req(TRUE, 5)>>}}
    \cup {<<>>},
  RegNames <- {"x", "y"}, MaxRegCmds <- 3,
  RegulatorLists <-
    {<<Reg(c, n, d, "y", <<Consumer(1, 0, 2), Consumer(2, 0, 0)>>), Reg(TRUE, "x", d, m, s),
       Reg(TRUE, "x", TRUE, "", <<Consumer(4, 3, 3)>>)>> :
       c \in BOOLEAN, n \in {"", "x"}, d \in BOOLEAN, m \in {"", "y"}, s \in {<<>>, <<Consumer(3, 0, 0)>>}}
    \cup {<<>>},
  ZoneNames <- {"x", "y"}, MaxTmCmds <- 3, SizeT <- 65536,
  CoolingSets <- {<<[id |-> 1, kv |-> TRUE, name |-> "a"], [id |-> 2, kv |-> FALSE, name |-> "b"]>>},
  ZoneLists <-
    {<<ThermalZone(TRUE, "x", "zone", <<80, 95>>, <<Instance(1, TRUE, 1), Instance(t, k, 2), Instance(0, TRUE, 3)>>),
       ThermalZone(r, "y", "devdata", <<>>, <<Instance(0, TRUE, 1)>>),
       ThermalZone(TRUE, "x", tz, <<70>>, <<Instance(0, TRUE, 4)>>)>> :
       t \in -1..3, k \in BOOLEAN, r \in BOOLEAN, tz \in {"devdata", "unread"}}
    \cup {<<>>},
  IntMod <- 16, MaxCcfCmds <- 2,
  Clocks <- <<[read |-> TRUE, enable |-> 1, prepare |-> 1, users |-> <<[dev |-> "d", con |-> ""], [dev |-> "", con |-> ""]>>],
              [read |-> FALSE, enable |-> 0, prepare |-> 2, users |-> <<>>],
              [read |-> TRUE, enable |-> 0, prepare |-> 0, users |-> <<>>],
              [read |-> TRUE, enable |-> 9, prepare |-> 0, users |-> <<[dev |-> "", con |-> "c"]>>]>>,
  ClkProviderLists <-
    {<<Provider(TRUE, "none", h, <<Clk(TRUE, 1), Clk(FALSE, 2), Clk(TRUE, 3)>>),
       Provider(TRUE, g, "qcom_cc", <<Clk(TRUE, 4), Clk(TRUE, 0), Clk(TRUE, 2)>>)>> :
       h \in {"smd_rpm", "rpmh", "hw_simple"}, g \in {"none", "simple", "onecell"}}
    \cup {<<>>, <<Provider(FALSE, "none", "rpmh", <<>>), Provider(TRUE, "todo", "none", <<>>)>>}

Image(id, cpu, version, affinity, fp, readable) ==
  [type |-> "data", magic |-> TRUE, id |-> id, cpu |-> cpu, version |-> version, affinity |-> affinity, fp |-> fp,
   readable |-> readable, vcpu |-> id = 2,
   sets |-> <<[id |-> 0, ok |-> TRUE], [id |-> 16, ok |-> cpu = 0], [id |-> 17, ok |-> TRUE], [id |-> 20, ok |-> TRUE]>>]
Table(num, entries) == [num |-> num, entries |-> entries]
Inside(t) == [type |-> "table", table |-> t]
NoImage == [type |-> "data", magic |-> FALSE, id |-> 9]

\* Images of two cpus, of every version and of one without a parser, in tables inside
\* tables, one of which leads back or is not followed, and one of which is empty; cpu 2
\* is idle.
\* A stack of five records with every content.
G == INSTANCE DebugImage WITH
  DumpTables <- {<<Table(4, <<a, Inside(2), NoImage, Inside(5)>>), Table(2, <<Inside(3), b>>),
                   Table(l[1], <<[NoImage EXCEPT !.type = "other"], Inside(l[2])>>),
                   Table(1, <<Image(64, 0, <<1, 4>>, <<0, 0, 0, 0>>, <<"irq", 0>>, TRUE)>>), Table(0, <<>>)>> :
                   a \in {Image(0, 0, v[1], <<0, 0, 0, 0>>, <<"task", 0>>, v[2]) :
                            v \in {<<<<1, 4>>, TRUE>>, <<<<1, 4>>, FALSE>>, <<<<1, 5>>, TRUE>>, <<<<2, 0>>, TRUE>>, <<<<2, 0>>, FALSE>>}},
                   b \in {Image(2, 2, v, <<k[1], 2, 0, 0>>, <<k[2], 2>>, TRUE) :
                            v \in {<<1, 3>>, <<1, 5>>, <<2, 0>>}, k \in {<<0, "irq">>, <<1, "task">>}},
                   l \in {<<2, 1>>, <<2, 4>>, <<101, 1>>}},
  Unwritable <- {{}, {<<"core", 2>>, <<"secure", 0>>}}, IdleCpus <- {2}, MaxDepth <- 4, MaxDbiCmds <- 2,
  Words <- 5, Cpus <- 2, CpuArgs <- {-1, 1, 2, 3}

Mnt(kids, sb, ok) == [kids |-> kids, sb |-> sb, ok |-> ok]
F2fs(user, valid, ok) ==
  [fs |-> "f2fs", ok |-> ok, bsize |-> 2, total |-> 9, start |-> 2, user |-> user, valid |-> valid, reserved |-> 1]
Ext4(free, dirty, bits) ==
  [fs |-> "ext4", ok |-> TRUE, bsize |-> 2, count |-> 9, overhead |-> 1, cluster_bits |-> bits,
   free |-> [count |-> free, counters |-> <<1, -1, 1>>], dirty |-> [count |-> dirty, counters |-> <<0, 1>>]]
Freqs(f, ended) == [freqs |-> f, ended |-> ended]

\* Five mounts, one of them damaged or none, with a file system that is mounted twice;
\* counters that are consistent and that are not, in words of 3 and 6 bits.
\* Three cpus with tables of different lengths, with invalid entries or without an end.
\* Three inodes, some of one size and some without a path; three threads.
S == INSTANCE SystemTables WITH
  MountTrees <- {<<Mnt(<<2, 3>>, "r", d # 1), Mnt(<<4>>, "a", d # 2), Mnt(<<>>, "b", d # 3), Mnt(<<5>>, "b", d # 4), Mnt(<<>>, "a", TRUE)>> : d \in 0..4},
  SuperBlocks <- {("r" :> [fs |-> "tmpfs", ok |-> TRUE]) @@ ("a" :> a) @@ ("b" :> b) :
                    a \in {F2fs(u, v, k) : u \in {5, 7}, v \in {2, 6}, k \in BOOLEAN},
                    b \in {Ext4(f, d, c) : f \in {1, 3}, d \in {0, 4}, c \in {0, 1}}},
  UintBits <- 3, UlongBits <- 6,
  Policies <- [1..3 -> {NoPolicy, Freqs(<<3, 6>>, TRUE), Freqs(<<5>>, TRUE), Freqs(<<4, -7, 8>>, TRUE), Freqs(<<2>>, FALSE), Freqs(<<>>, TRUE)}],
  Invalid <- -7, MaxFreqs <- 4,
  InodeSets <- {<<[dentries |-> a, nrpages |-> m], [dentries |-> <<"", "/y">>, nrpages |-> 2], [dentries |-> <<>>, nrpages |-> n]>> :
                  a \in {<<"/x", "/z">>, <<"">>}, m \in {1, 2}, n \in {0, 2, 5}} \cup {<<>>},
  ThreadLists <- [1..3 -> {[cpu |-> c, arrival |-> a, enqueued |-> e, sleep |-> 2] : c \in 0..1, a \in {0, 3}, e \in {1, 4}}],
  MaxSysCmds <- 3

MCInit ==
  \/ which = "dd" /\ D!InitTables
  \/ which = "dd -p" /\ D!InitBlock
  \/ which = "dts" /\ E!Init
  \/ which = "icc" /\ P!InitIcc
  \/ which = "reg" /\ P!InitReg
  \/ which = "tm" /\ P!InitTm
  \/ which = "ccf" /\ P!InitCcf
  \/ which = "dbi" /\ G!InitImages
  \/ which = "dbi -p" /\ G!InitFrames
  \/ which = "df" /\ S!InitDf
  \/ which = "cpu" /\ S!InitCpu
  \/ which = "cache" /\ S!InitCache
  \/ which = "sched" /\ S!InitSched

MCNext ==
  /\ \/ which = "dd" /\ D!NextTables
     \/ which = "dd -p" /\ D!NextBlock
     \/ which = "dts" /\ E!Next
     \/ which = "icc" /\ P!NextIcc
     \/ which = "reg" /\ P!NextReg
     \/ which = "tm" /\ P!NextTm
     \/ which = "ccf" /\ P!NextCcf
     \/ which = "dbi" /\ G!NextImages
     \/ which = "dbi -p" /\ G!NextFrames
     \/ which = "df" /\ S!NextDf
     \/ which = "cpu" /\ S!NextCpu
     \/ which = "cache" /\ S!NextCache
     \/ which = "sched" /\ S!NextSched
  /\ UNCHANGED which

vars == <<which, dump, pc, pos, out>>

MCSpec == MCInit /\ [][MCNext]_vars /\ WF_vars(MCNext)

-----------------------------------------------------------------------------

\* dd keeps each bus, class, device and driver once and under its own name, shows what
\* it keeps, and gives each partition its own superblock, bounds and row.  df shows each
\* mount below the one it is on and each file system once with its own amounts, and
\* cache -f each cached file once.
DevicesExact ==
  /\ which = "dd" => D!DdListsSound /\ D!DdShown
  /\ which = "dd -p" => D!BlockRowsOwn /\ D!PartitionsExact /\ D!PartitionListBounds
  /\ which = "df" => S!MountsExact /\ S!SuperBlocksOnce /\ S!SizesExact
  /\ which = "cache" => S!FilePagesExact

\* dts finds every node by its path, its name and its address, prints the tree with
\* each node below its parent, and adds up the memory of the node it takes for memory.
TreeExact ==
  which = "dts" => E!MapsComplete /\ E!TreePrinted /\ E!NamedExact /\ E!DdrOfMemory

\* icc, reg, tm and ccf show each object below its owner and under its own name; they
\* miss some only after an interrupted first reading, a node without requests (icc),
\* or a module loaded too late (ccf); and only a trip one past the end is undefined.
\* cpu keeps whole policies, in the order of the cpus, and reads on for ever only at an
\* invalid entry; sched shows the threads of its cpu.
PowerExact ==
  /\ which = "icc" => P!IccTreeExact /\ P!RequestsOfName /\ P!NodesOfName
  /\ which = "reg" => P!RegulatorsExact /\ P!ConsumersExact
  /\ which = "tm" => P!TripsExact /\ P!TripUndefinedOnly
  /\ which = "ccf" => P!CoresExact /\ P!LoadedTooLate /\ P!CountsPartition /\ P!ClockTreeExact
  /\ which = "cpu" => S!PoliciesWhole /\ S!CpuNumbers /\ S!ReadsOn
  /\ which = "sched" => S!SchedExact

\* dbi keeps every register image of the firmware's tables once, shows and saves it with
\* the parser of its version and with its own cpu, and offers the innermost frames of a
\* stack, all of them, for a backtrace.
ImagesExact ==
  /\ which = "dbi" => G!ImagesExact /\ G!ParsersRight /\ G!SavedWhole /\ G!StacksOfOwnCpu
  /\ which = "dbi -p" => G!FramesExact

=============================================================================
