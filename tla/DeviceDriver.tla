---------------------------- MODULE DeviceDriver ----------------------------
(***************************************************************************)
(* dd (device_driver/dd.cpp): the buses and classes kept over a session    *)
(* (Tables), and the character devices, disks and partitions printed by    *)
(* one command (Block).  The two are state machines of their own over the  *)
(* same variables.                                                         *)
(***************************************************************************)
EXTENDS Integers, Sequences, SequencesExt, FiniteSetsExt, FiniteSets

CONSTANTS   \* Tables
  BusSets, ClassSets,  \* what the ksets hold: sequences of [name, kv, devices, drivers]
  Devices, Drivers,
  DriverName,          \* [Drivers -> names], unique on one bus only
  LongNames,           \* names of 16 characters or more; names differ in their first 15
  Newlined,            \* [names that end in a newline -> the name without it]
  NoDriver,
  MaxDdCmds            \* bound on the commands of a session

CONSTANTS   \* Block
  MaxParts,    \* bound on the block devices of a disk, the whole disk (part 0) the first
  BdevKinds,   \* what a block device has: records [meta, super, name, read]
  MaxSect,     \* sectors of the disk
  SectMod,     \* 2^64
  PartTbls,    \* for each of two disks, whether part_tbl is a kernel address
  Buckets      \* the chains of chrdevs: sequences of [next : BOOLEAN], FALSE where one breaks off

VARIABLES dump, pc, pos, out
vars == <<dump, pc, pos, out>>

-----------------------------------------------------------------------------
(***************************************************************************)
(* dd (device_driver/dd.cpp), the part kept over a session: the buses and  *)
(* the classes with their devices and drivers, found by the first command  *)
(* through the walks of plugin.cpp.  A bus or class is found again by its  *)
(* name for each of its lists.                                             *)
(***************************************************************************)

\* driver: the driver each device is bound to, one of its bus.
InitTables ==
  /\ dump \in [bus : BusSets, class : ClassSets, driver : [Devices -> Drivers \cup {NoDriver}],
               interrupts : BOOLEAN]
  /\ \A i \in DOMAIN dump.bus : \A x \in ToSet(dump.bus[i].devices) :
       dump.driver[x] \in ToSet(dump.bus[i].drivers) \cup {NoDriver}
  /\ pc = "prompt"
  /\ pos = [bus_list |-> <<>>, class_list |-> <<>>, i |-> 1, cmds |-> 0]
  /\ out = [op |-> "none"]

-----------------------------------------------------------------------------

\* for_each_class, for_each_bus: the entries whose pointers are kernel addresses
SubsysOf(kset) == SelectSeq([i \in DOMAIN kset |-> i], LAMBDA i : kset[i].kv)

\* Mutant: an entry with a name is taken for the one of that name.
SameNameAny(kset, i, name, past) == kset[i].name # ""

\* get_bus_subsys_private reads 16 bytes, get_class_subsys_private 64; what a name
\* without its NUL goes on with is on the stack (past: as the name does).
SameName(kset, i, name, past) == kset[i].name = name /\ (kset = dump.class \/ name \notin LongNames \/ past)

\* get_class_subsys_private, get_bus_subsys_private: 0 if there is none
SubsysPrivate(kset, name, past) ==
  LET found == SelectSeq(SubsysOf(kset), LAMBDA i : name # "" /\ SameName(kset, i, name, past))
  IN  IF found = <<>> THEN 0 ELSE found[1]

\* for_each_device_for_class, for_each_device_for_bus
DevicesOf(kset, name, past) ==
  LET p == SubsysPrivate(kset, name, past) IN IF p = 0 THEN <<>> ELSE kset[p].devices

\* for_each_device_for_driver, from the list the kernel keeps
BoundTo(d) == {x \in Devices : dump.driver[x] = d}

\* for_each_driver
DriversOf(name, past) ==
  LET p == SubsysPrivate(dump.bus, name, past) IN IF p = 0 THEN <<>> ELSE dump.bus[p].drivers

\* parser_device with parser_driver
ParserDevice(x) == [addr |-> x, driv |-> dump.driver[x]]

\* parser_driver_list
ParserDriverList(name, past) ==
  LET ds == DriversOf(name, past)
  IN  [k \in DOMAIN ds |-> [addr |-> ds[k], device_list |-> {ParserDevice(x) : x \in BoundTo(ds[k])}]]

-----------------------------------------------------------------------------

Lists == IF pos.bus_list = <<>> THEN "buses" ELSE IF pos.class_list = <<>> THEN "classes" ELSE "print"

CmdMain ==
  /\ pc = "prompt"
  /\ pos.cmds < MaxDdCmds
  /\ pc' = Lists
  /\ pos' = [pos EXCEPT !.cmds = @ + 1, !.i = 1]
  /\ out' = [op |-> "none"]
  /\ UNCHANGED dump

\* One turn of parser_bus_info; after the last one, of the loop of cmd_main.
ParseBus ==
  /\ pc = "buses"
  /\ LET all == SubsysOf(dump.bus)
     IN  IF pos.i > Len(all)
         THEN pc' = "bus devices" /\ pos' = [pos EXCEPT !.i = 1]
         ELSE /\ \E past \in BOOLEAN :
                   LET name == dump.bus[all[pos.i]].name
                   IN  pos' = [pos EXCEPT !.i = @ + 1, !.bus_list = IF name = "" THEN @
                                ELSE Append(@, [addr |-> all[pos.i], name |-> name,
                                       subsys |-> SubsysPrivate(dump.bus, name, past),
                                       device_list |-> <<>>, driver_list |-> <<>>])]
              /\ UNCHANGED pc
  /\ UNCHANGED <<dump, out>>

\* The two lists of a bus are filled one after the other.
ParseBusDevices ==
  /\ pc = "bus devices"
  /\ IF pos.i > Len(pos.bus_list)
     THEN /\ pc' = IF pos.class_list = <<>> THEN "classes" ELSE "print"
          /\ pos' = [pos EXCEPT !.i = 1]
     ELSE /\ \E past \in BOOLEAN :
               pos' = [pos EXCEPT !.bus_list[pos.i].device_list =
                         LET ds == DevicesOf(dump.bus, pos.bus_list[pos.i].name, past)
                         IN  [k \in DOMAIN ds |-> ParserDevice(ds[k])]]
          /\ pc' = "bus drivers"
  /\ UNCHANGED <<dump, out>>

ParseBusDrivers ==
  /\ pc = "bus drivers"
  /\ \E past \in BOOLEAN :
       pos' = [pos EXCEPT !.i = @ + 1,
                 !.bus_list[pos.i].driver_list = ParserDriverList(pos.bus_list[pos.i].name, past)]
  /\ pc' = "bus devices"
  /\ UNCHANGED <<dump, out>>

Chomp(name) == IF name \in DOMAIN Newlined THEN Newlined[name] ELSE name

\* One turn of parser_class_info.
ParseClass ==
  /\ pc = "classes"
  /\ LET all == SubsysOf(dump.class)
     IN  IF pos.i > Len(all)
         THEN pc' = "class devices" /\ pos' = [pos EXCEPT !.i = 1]
         ELSE LET name == dump.class[all[pos.i]].name
              IN  /\ pos' = [pos EXCEPT !.i = @ + 1, !.class_list = IF name = "" THEN @
                             ELSE Append(@, [addr |-> all[pos.i], name |-> Chomp(name),
                                    subsys |-> SubsysPrivate(dump.class, Chomp(name), FALSE),
                                    device_list |-> <<>>])]
                  /\ UNCHANGED pc
  /\ UNCHANGED <<dump, out>>

ParseClassDevices ==
  /\ pc = "class devices"
  /\ IF pos.i > Len(pos.class_list)
     THEN pc' = "print" /\ UNCHANGED pos
     ELSE /\ pos' = [pos EXCEPT !.i = @ + 1, !.class_list[pos.i].device_list =
                       LET ds == DevicesOf(dump.class, pos.class_list[pos.i].name, FALSE)
                       IN  [k \in DOMAIN ds |-> ParserDevice(ds[k])]]
          /\ UNCHANGED pc
  /\ UNCHANGED <<dump, out>>

-----------------------------------------------------------------------------

\* The first bus or class of a name.
Named(list, name) == LET same == SelectSeq(list, LAMBDA b : b.name = name)
                     IN  IF same = <<>> THEN <<>> ELSE <<same[1]>>

\* print_bus_info, print_class_info
PrintSubsys(list) == [i \in DOMAIN list |-> <<list[i].addr, list[i].subsys>>]

\* print_device_list
PrintDeviceList == FlattenSeq([i \in DOMAIN pos.bus_list |->
  [k \in DOMAIN pos.bus_list[i].device_list |-> <<pos.bus_list[i].addr, pos.bus_list[i].device_list[k]>>]])

\* print_driver_list
PrintDriverList == FlattenSeq([i \in DOMAIN pos.bus_list |->
  [k \in DOMAIN pos.bus_list[i].driver_list |-> <<pos.bus_list[i].addr, pos.bus_list[i].driver_list[k].addr>>]])

\* print_device_driver_for_bus
PrintForBus(name) == FlattenSeq([i \in DOMAIN Named(pos.bus_list, name) |->
  LET b == Named(pos.bus_list, name)[i] IN b.device_list \o b.driver_list])

\* print_device_driver_for_class
PrintForClass(name) == FlattenSeq([i \in DOMAIN Named(pos.class_list, name) |->
  Named(pos.class_list, name)[i].device_list])

\* print_device_list_for_driver: the first driver of that name
PrintForDriver(name) ==
  LET all == FlattenSeq([i \in DOMAIN pos.bus_list |-> pos.bus_list[i].driver_list])
      same == SelectSeq(all, LAMBDA d : DriverName[d.addr] = name)
  IN  IF same = <<>> THEN {} ELSE {<<same[1].addr, x>> : x \in same[1].device_list}

Names(list) == {b.name : b \in ToSet(list)}

\* The options.
PrintOption ==
  /\ pc = "print"
  /\ \/ out' = [op |-> "b", rows |-> PrintSubsys(pos.bus_list)]
     \/ out' = [op |-> "c", rows |-> PrintSubsys(pos.class_list)]
     \/ out' = [op |-> "l", rows |-> PrintDeviceList]
     \/ out' = [op |-> "L", rows |-> PrintDriverList]
     \/ \E name \in Names(pos.bus_list) : out' = [op |-> "B", name |-> name, rows |-> PrintForBus(name)]
     \/ \E name \in Names(pos.class_list) : out' = [op |-> "C", name |-> name, rows |-> PrintForClass(name)]
     \/ \E name \in {DriverName[d] : d \in Drivers} :
          out' = [op |-> "s", name |-> name, rows |-> PrintForDriver(name)]
  /\ pc' = "prompt"
  /\ UNCHANGED <<dump, pos>>

Restart ==
  /\ dump.interrupts
  /\ pc # "prompt"
  /\ pc' = "prompt"
  /\ UNCHANGED <<dump, pos, out>>

NextTables ==
  \/ CmdMain \/ ParseBus \/ ParseBusDevices \/ ParseBusDrivers \/ ParseClass \/ ParseClassDevices
  \/ PrintOption \/ Restart

SpecTables == InitTables /\ [][NextTables]_vars /\ WF_vars(NextTables)

-----------------------------------------------------------------------------

\* However the commands of a session are abandoned, a bus or class is cached once,
\* and its lists are empty or those of the kernel: none has the devices of another.
DdListsSound ==
  /\ IsInjective([i \in DOMAIN pos.bus_list |-> pos.bus_list[i].addr])
  /\ IsInjective([i \in DOMAIN pos.class_list |-> pos.class_list[i].addr])
  /\ \A b \in ToSet(pos.bus_list) :
       /\ b.subsys \in {0, b.addr}
       /\ b.device_list = <<>> \/ [k \in DOMAIN b.device_list |-> b.device_list[k].addr] = dump.bus[b.addr].devices
       /\ b.driver_list = <<>> \/ [k \in DOMAIN b.driver_list |-> b.driver_list[k].addr] = dump.bus[b.addr].drivers
  /\ \A c \in ToSet(pos.class_list) :
       /\ c.subsys \in {0, c.addr}
       /\ c.device_list = <<>> \/ [k \in DOMAIN c.device_list |-> c.device_list[k].addr] = dump.class[c.addr].devices

\* If no command was abandoned, -l shows every device of a bus with a short name
\* once, with its driver; -C the devices of a class unless its name ends in a
\* newline; and -s the devices bound to a driver of that name.
DdShown ==
  /\ out.op = "l" /\ ~dump.interrupts => \A i \in ToSet(SubsysOf(dump.bus)) :
       dump.bus[i].name \notin LongNames \cup {""} =>
         SelectSeq(out.rows, LAMBDA r : r[1] = i) =
           [k \in DOMAIN dump.bus[i].devices |-> <<i, ParserDevice(dump.bus[i].devices[k])>>]
  /\ out.op = "C" /\ ~dump.interrupts => \A i \in ToSet(SubsysOf(dump.class)) :
       out.name = dump.class[i].name =>
         [k \in DOMAIN out.rows |-> out.rows[k].addr] = dump.class[i].devices
  /\ out.op = "s" => \A r \in out.rows :
       /\ r[2].driv = r[1] /\ DriverName[r[1]] = out.name
       /\ {s[2].addr : s \in out.rows} = BoundTo(r[1])

-----------------------------------------------------------------------------
(***************************************************************************)
(* dd -a, -D, -d and -p (device_driver/dd.cpp): character devices, block   *)
(* devices, disks and the partitions of a disk, under the                  *)
(* layouts that kernels have given them.  Nothing is kept over a command,  *)
(* but the rows of one command are printed from variables that live as     *)
(* long as its loop.                                                       *)
(***************************************************************************)

\* hd: partitions are hd_structs, which a block_device points to, disks are found in
\* bdev_map, and part_tbl is a pointer; nr: bd_nr_sectors exists; sup: bd_super does.
Layouts == {[hd |-> TRUE,  nr |-> FALSE, sup |-> TRUE], [hd |-> FALSE, nr |-> FALSE, sup |-> TRUE],
            [hd |-> FALSE, nr |-> TRUE,  sup |-> TRUE], [hd |-> FALSE, nr |-> TRUE,  sup |-> FALSE]}

\* Partitions do not overlap; their numbers need not follow their places.
Places(n) == {s \in [1..n -> [start : 0..MaxSect, nr : 1..MaxSect]] :
  /\ s[1] = [start |-> 0, nr |-> MaxSect]
  /\ \A i, j \in 2..n : i # j => s[i].start >= s[j].start + s[j].nr \/ s[j].start >= s[i].start + s[i].nr
  /\ \A i \in 2..n : s[i].start > 0 /\ s[i].start + s[i].nr <= MaxSect}

\* Two disks; the block devices are those of the first.
InitBlock ==
  /\ dump \in UNION {[layout : Layouts, bdevs : [1..n -> BdevKinds], place : Places(n),
                      tbl : PartTbls, chrdevs : {Buckets}] : n \in 1..MaxParts}
  /\ pc = "prompt"
  /\ pos = [i |-> 1, carry |-> [meta |-> 0, super |-> 0, fs |-> 0, name |-> 0], list |-> <<>>]
  /\ out = [op |-> "none", rows |-> <<>>]

N == Len(dump.bdevs)

\* What a read of a field gives: 0, or the device it is of.
Own(i, f) == IF dump.bdevs[i][f] THEN i ELSE 0

-----------------------------------------------------------------------------

\* for_each_block_device: all_bdevs, or the devices of the class block
ForEachBlockDevice == [i \in 1..N |-> i]

\* for_each_disk: bdev_map, or the disk of each block device
ForEachDisk == IF dump.layout.hd THEN <<1, 2>> ELSE [i \in 1..N |-> 1] \o <<2>>

CmdMainBlock ==
  /\ pc = "prompt"
  /\ out.op = "none"
  /\ \E op \in {"a", "D", "d", "p"} : pc' = op /\ out' = [op |-> op, rows |-> <<>>]
  /\ UNCHANGED <<dump, pos>>

\* for_each_char_device: a chain is followed to its end or to where it breaks off
ForEachCharDevice == FlattenSeq([b \in DOMAIN dump.chrdevs |->
  LET cut == SelectInSeq(dump.chrdevs[b], LAMBDA e : ~e.next)
  IN  [k \in 1..(IF cut = 0 THEN Len(dump.chrdevs[b]) ELSE cut) |-> <<b, k>>]])

PrintCharDevice ==
  /\ pc = "a"
  /\ out' = [out EXCEPT !.rows = ForEachCharDevice]
  /\ pc' = "prompt"
  /\ UNCHANGED <<dump, pos>>

\* Mutant: the block size and type of another device are taken.
SuperOfAny(i) == IF \E k \in 1..N : dump.bdevs[k].super THEN Max({k \in 1..N : dump.bdevs[k].super}) ELSE 0

\* The super_block: bd_super, or the one of super_blocks whose s_bdev is the device.
SuperOf(i) == Own(i, "super")

Either(x, old) == IF x = 0 THEN old ELSE x

\* One row of print_block_device, from the variables as the rows before left them.
\* With hd_structs the meta data and the name are those of bd_part.
BlockRow(c, i) ==
  LET s == SuperOf(i)
  IN  [meta |-> Either(Own(i, "meta"), c.meta), name |-> Either(Own(i, "name"), c.name),
       super |-> IF dump.layout.sup THEN s ELSE Either(s, c.super), fs |-> Either(s, c.fs)]

PrintBlockDevice ==
  /\ pc = "D"
  /\ IF pos.i > N
     THEN pc' = "prompt" /\ UNCHANGED <<pos, out>>
     ELSE LET row == BlockRow(pos.carry, pos.i)
          IN  /\ IF dump.bdevs[pos.i].read
                 THEN /\ pos' = [pos EXCEPT !.i = @ + 1, !.carry = row]
                      /\ out' = [out EXCEPT !.rows = Append(@, [addr |-> pos.i, row |-> row])]
                 ELSE pos' = [pos EXCEPT !.i = @ + 1] /\ UNCHANGED out
              /\ UNCHANGED pc
  /\ UNCHANGED dump

Parts(d) == IF d = 1 THEN N ELSE 1

\* print_gendisk: the disks of a set; the count of a table that cannot be read is
\* the one of the disk before
PrintGendisk ==
  /\ pc = "d"
  /\ LET Count(c, d) == IF dump.layout.hd /\ ~dump.tbl[d] THEN c ELSE Parts(d)
     IN  out' = [out EXCEPT !.rows = <<Count(0, 1), Count(Count(0, 1), 2)>>]
  /\ pc' = "prompt"
  /\ UNCHANGED <<dump, pos>>

-----------------------------------------------------------------------------

\* parser_hd_struct; its super_block is the one of the block device it is bd_part of
ParserHdStruct(i) == <<[addr |-> i, partno |-> i - 1, start |-> dump.place[i].start, nr |-> dump.place[i].nr,
                        fs |-> SuperOf(i)]>>

\* parser_block_device
ParserBlockDevice(i) ==
  IF dump.bdevs[i].read
  THEN <<[addr |-> i, partno |-> i - 1, start |-> dump.place[i].start,
          nr |-> IF dump.layout.nr THEN dump.place[i].nr ELSE 0, fs |-> SuperOf(i)]>>
  ELSE <<>>

\* The tables of print_partition: those of a disk that comes up again are appended
\* with hd_structs, and replace the ones before with an xarray.
PartTable == IF dump.layout.hd /\ ~dump.tbl[1] THEN <<>> ELSE [i \in 1..N |-> i]

\* One turn of the loop of print_partition; the list is sorted by partno, as it is.
ParsePartition ==
  /\ pc = "p"
  /\ IF pos.i > Len(PartTable)
     THEN pc' = (IF PartTable = <<>> THEN "prompt" ELSE "sectors") /\ UNCHANGED pos
     ELSE /\ pos' = [pos EXCEPT !.i = @ + 1, !.list = @ \o
                       (IF dump.layout.hd THEN ParserHdStruct(pos.i) ELSE ParserBlockDevice(pos.i))]
          /\ UNCHANGED pc
  /\ UNCHANGED <<dump, out>>

\* Mutant: the last partition that is filled in has no next one.
FillSectorsPast(l) == [i \in DOMAIN l |->
  IF i = 1 THEN l[i] ELSE [l[i] EXCEPT !.nr = ((IF i = Len(l) THEN l[1].start ELSE l[i + 1].start) - l[i].start) % SectMod]]

\* Without bd_nr_sectors a partition reaches to the next one; 0 and the last keep 0.
FillSectors(l) == [i \in DOMAIN l |->
  IF i \in {1, Len(l)} THEN l[i] ELSE [l[i] EXCEPT !.nr = (l[i + 1].start - l[i].start) % SectMod]]

\* The end of print_partition.  If no block device could be read, part_list.size() - 1
\* is the largest size_t, and part_list[1] is read outside the list.
PrintPartition ==
  /\ pc = "sectors"
  /\ IF dump.layout.hd \/ dump.layout.nr
     THEN pc' = "prompt" /\ out' = [out EXCEPT !.rows = pos.list]
     ELSE IF pos.list = <<>> THEN pc' = "undefined" /\ UNCHANGED out
          ELSE pc' = "prompt" /\ out' = [out EXCEPT !.rows = FillSectors(pos.list)]
  /\ UNCHANGED <<dump, pos>>

NextBlock == CmdMainBlock \/ PrintCharDevice \/ PrintBlockDevice \/ PrintGendisk \/ ParsePartition \/ PrintPartition

SpecBlock == InitBlock /\ [][NextBlock]_vars /\ WF_vars(NextBlock)

-----------------------------------------------------------------------------

\* -D shows what a block device has; for what it has not, the value of the nearest
\* device before it that has it, and never that of a later one.
BlockRowsOwn ==
  out.op = "D" => \A r \in ToSet(out.rows) :
    LET Nearest(f) == Max({0} \cup {k \in 1..r.addr : dump.bdevs[k].read /\ dump.bdevs[k][f]})
    IN  /\ r.row.meta = Nearest("meta") /\ r.row.name = Nearest("name") /\ r.row.fs = Nearest("super")
        /\ r.row.super \in {0, r.row.fs}

\* -p shows every partition that can be read once, in order, with its own type.
\* Sectors are exact where the kernel records them; where not, a partition that is
\* followed on the disk by the one of the next number is not shown shorter than it
\* is, and the last has none.
PartitionsExact ==
  out.op = "p" /\ out.rows # <<>> =>
    /\ \A a, b \in DOMAIN out.rows : a < b => out.rows[a].partno < out.rows[b].partno
    /\ {r.addr : r \in ToSet(out.rows)} = {i \in 1..N : dump.layout.hd \/ dump.bdevs[i].read}
    /\ \A k \in DOMAIN out.rows :
         LET r == out.rows[k]
         IN  /\ r.fs = Own(r.addr, "super")
             /\ dump.layout.hd \/ dump.layout.nr => r.nr = dump.place[r.addr].nr
             /\ ~dump.layout.hd /\ ~dump.layout.nr =>
                  IF k \in {1, Len(out.rows)} THEN r.nr = 0
                  ELSE out.rows[k + 1].start > r.start => r.nr \in dump.place[r.addr].nr..MaxSect

\* The list of partitions is left only if no block device of the disk could be read.
PartitionListBounds == pc = "undefined" => \A i \in 1..N : ~dump.bdevs[i].read

=============================================================================
