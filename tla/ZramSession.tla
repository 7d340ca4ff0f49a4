----------------------------- MODULE ZramSession -----------------------------
(***************************************************************************)
(* The zram device cache that the zram command (memory/zram.cpp) and the   *)
(* swap reader (memory/swapinfo.cpp) share for a whole crash session.      *)
(*                                                                         *)
(* plugins.cpp hands Zram::instance to Swap, so a user page read through   *)
(* swap and a zram command fill the same vector zram_list, lazily and one  *)
(* element at a time.  A command does not always run to its end: a corrupt *)
(* list makes crash's do_list() fail and the user may press ^C, and both   *)
(* end in RESTART(), a longjmp that leaves whatever the command had cached.*)
(*                                                                         *)
(* Data are abstracted to what the caches tell apart: a zram is its        *)
(* address, a size class its position in class_list, and the list of       *)
(* zspages of a fullness group is the number of the group.                 *)
(***************************************************************************)
EXTENDS Integers, Sequences

CONSTANTS
  Zrams,           \* addresses of struct zram
  ZramIdr,         \* zram_index_idr: the zrams of the dump, in index order
  ClassCnt,        \* valid size classes of a pool
  GroupCnt,        \* group_cnt, the length of size_class.fullness_list
  MaxFullness      \* bound on the retries that grow a fullness_list

ASSUME ZramAssumption ==
  /\ ZramIdr \in Seq(Zrams)
  /\ \A i, j \in 1..Len(ZramIdr) : ZramIdr[i] = ZramIdr[j] => i = j
ASSUME CountAssumption ==
  /\ ClassCnt \in Nat \ {0}
  /\ GroupCnt \in Nat \ {0}
  /\ MaxFullness \in Nat

VARIABLES
  kind,           \* the dump: what parser_zram finds at a zram address
  corrupt,        \* the dump: the <<class, group>> lists do_list() rejects
  interrupts,     \* does the user of this session interrupt commands?
  zram_list,      \* Zraminfo::zram_list
  fullness_list,  \* size_class::fullness_list of every class, as groups
  zspage_parser,  \* the classes whose size_class::zspage_parser is set
  pc,             \* where the running command is
  op,             \* its option letter and argument
  todo,           \* the zrams its outer loop still has to visit
  cls,            \* the class of Head(todo) its inner loop visits next
  grp,            \* the group parser_zpage reads next
  out,            \* what it has collected to print
  shown           \* the result of the last command

dump == <<kind, corrupt, interrupts>>
cache == <<zram_list, fullness_list, zspage_parser>>
pos == <<todo, cls, grp>>
vars == <<dump, cache, pc, op, pos, out, shown>>

Class == Zrams \X (1..ClassCnt)
Group == 1..GroupCnt
Zspage == Class \X Group

\* No address is that of a size class and of a zspage at once.
ASSUME AddressAssumption == Class \cap Zspage = {}

\* -o takes the address of a size class, or of a zspage or page in a group.
Op == [letter: {"a"}, arg: {<<>>}]
        \cup [letter: {"m", "z"}, arg: Zrams]
        \cup [letter: {"o"}, arg: Class \cup Zspage]

\* "unreadable": struct zram, its pool pointer or its statistics; "nopool":
\* struct zs_pool; "nullclass": the last struct size_class of the pool.
Kind == {"ok", "unreadable", "nopool", "nullclass"}

Result(status, res) == [status |-> status, op |-> op, out |-> res]

Init ==
  /\ kind \in [Zrams -> Kind]
  /\ corrupt \in SUBSET Zspage
  /\ interrupts \in BOOLEAN
  /\ zram_list = <<>>
  /\ fullness_list = [k \in Class |-> <<>>]
  /\ zspage_parser = {}
  /\ pc = "idle"
  /\ op = [letter |-> "a", arg |-> <<>>]
  /\ todo = <<>> /\ cls = 1 /\ grp = 1
  /\ out = <<>>
  /\ shown = Result("none", <<>>)

InList(z) == \E i \in 1..Len(zram_list) : zram_list[i] = z

\* Mutant: the output buffer outlives an aborted command.
FinishKeepsOut(status, res) ==
  /\ pc' = "idle"
  /\ shown' = Result(status, res)
  /\ todo' = <<>> /\ cls' = 1 /\ grp' = 1
  /\ out' = IF status = "aborted" THEN out ELSE <<>>
  /\ UNCHANGED op

\* The command returns to crash's main loop; the caches stay as they are.
Finish(status, res) ==
  /\ pc' = "idle"
  /\ shown' = Result(status, res)
  /\ todo' = <<>> /\ cls' = 1 /\ grp' = 1
  /\ out' = <<>>
  /\ UNCHANGED op

\* A null mem_pool or class_ptr is dereferenced: the process is gone.
Die ==
  /\ pc' = "dead"
  /\ UNCHANGED <<op, pos, out, shown>>

\* Mutant: an unreadable zram is cached as a null pointer.
ParserZramNull(z) ==
  zram_list' = Append(zram_list, IF kind[z] = "unreadable" THEN "null" ELSE z)

\* parser_zram: a zram whose struct or statistics cannot be read is dropped;
\* one whose pool cannot be read is kept, with a null mem_pool.
ParserZram(z) ==
  zram_list' = IF kind[z] = "unreadable" THEN zram_list ELSE Append(zram_list, z)

\* Zram::cmd_main up to the option switch.
CmdMain(o) ==
  /\ pc = "idle"
  /\ \A k \in Class \ zspage_parser : Len(fullness_list[k]) + GroupCnt <= MaxFullness
  /\ op' = o
  /\ IF zram_list = <<>>
     THEN pc' = "parser_zrams" /\ todo' = ZramIdr
     ELSE pc' = "switch" /\ todo' = <<>>
  /\ shown' = [status |-> "none", op |-> o, out |-> <<>>]
  /\ UNCHANGED <<dump, cache, cls, grp, out>>

\* One turn of the loop of parser_zrams over the idr.
ParserZrams ==
  /\ pc = "parser_zrams"
  /\ IF todo = <<>>
     THEN pc' = "switch" /\ UNCHANGED <<todo, zram_list>>
     ELSE todo' = Tail(todo) /\ ParserZram(Head(todo)) /\ UNCHANGED pc
  /\ UNCHANGED <<dump, fullness_list, zspage_parser, op, cls, grp, out, shown>>

\* zram -a
PrintZrams ==
  /\ pc = "switch"
  /\ op.letter = "a"
  /\ IF \E i \in 1..Len(zram_list) : kind[zram_list[i]] = "nopool"
     THEN Die
     ELSE Finish("printed", zram_list)
  /\ UNCHANGED <<dump, cache>>

\* zram -m <zram addr>
PrintMemPool ==
  /\ pc = "switch"
  /\ op.letter = "m"
  /\ IF ~InList(op.arg) THEN Finish("invalid", <<>>)
     ELSE IF kind[op.arg] \in {"nopool", "nullclass"} THEN Die
     ELSE Finish("printed", [c \in 1..ClassCnt |-> <<op.arg, c>>])
  /\ UNCHANGED <<dump, cache>>

Visit(zrams) ==
  /\ pc' = "classes"
  /\ todo' = zrams
  /\ UNCHANGED <<op, cls, grp, out, shown>>

\* zram -z, -p and -f <zram addr>: the classes of one cached zram.
PrintZspages ==
  /\ pc = "switch"
  /\ op.letter = "z"
  /\ IF InList(op.arg) THEN Visit(<<op.arg>>) ELSE Finish("invalid", <<>>)
  /\ UNCHANGED <<dump, cache>>

\* zram -o <addr>: the classes of all cached zrams, until one matches.
PrintObjs ==
  /\ pc = "switch"
  /\ op.letter = "o"
  /\ Visit(zram_list)
  /\ UNCHANGED <<dump, cache>>

\* The lists a command prints for a class: it always indexes the first
\* group_cnt elements of fullness_list.
GroupsOf(k) == [i \in Group |-> <<k, fullness_list[k][i]>>]

\* What -o prints when it meets class k, <<>> when it has to look further.
MatchIn(k) ==
  IF op.arg = k THEN GroupsOf(k)
  ELSE IF \E i \in Group : op.arg = GroupsOf(k)[i] THEN <<op.arg>>
  ELSE <<>>

\* Mutant: the search never leaves the first zram.
NextClassNoPop ==
  /\ IF cls = ClassCnt
     THEN todo' = (IF op.letter = "o" THEN todo ELSE Tail(todo)) /\ cls' = 1
     ELSE cls' = cls + 1 /\ UNCHANGED todo
  /\ UNCHANGED <<pc, op, grp, shown>>

NextClass ==
  /\ IF cls = ClassCnt
     THEN todo' = Tail(todo) /\ cls' = 1
     ELSE cls' = cls + 1 /\ UNCHANGED todo
  /\ UNCHANGED <<pc, op, grp, shown>>

IsNull(z, c) == kind[z] = "nopool" \/ (kind[z] = "nullclass" /\ c = ClassCnt)

\* One turn of the class loop of print_zspages, print_pages,
\* print_zram_full_info and print_objs.
VisitClass ==
  /\ pc = "classes"
  /\ IF todo = <<>> THEN Finish("printed", out)
     ELSE IF IsNull(Head(todo), cls) THEN Die
     ELSE LET k == <<Head(todo), cls>> IN
          IF k \notin zspage_parser
          THEN pc' = "parser_zpage" /\ grp' = 1 /\ UNCHANGED <<op, todo, cls, out, shown>>
          ELSE IF op.letter = "o"
          THEN IF MatchIn(k) # <<>>
               THEN Finish("printed", MatchIn(k))
               ELSE NextClass /\ UNCHANGED out
          ELSE NextClass /\ out' = out \o GroupsOf(k)
  /\ UNCHANGED <<dump, cache>>

\* Mutant: the class is marked before its groups are read.
ParserZpageFlagFirst ==
  LET k == <<Head(todo), cls>> IN
  /\ pc = "parser_zpage"
  /\ zspage_parser' = zspage_parser \cup {k}
  /\ IF <<k, grp>> \in corrupt
     THEN Finish("aborted", <<>>) /\ UNCHANGED fullness_list
     ELSE /\ fullness_list' = [fullness_list EXCEPT ![k] = Append(@, grp)]
          /\ IF grp = GroupCnt
             THEN pc' = "classes" /\ grp' = 1
             ELSE grp' = grp + 1 /\ UNCHANGED pc
          /\ UNCHANGED <<op, todo, cls, out, shown>>
  /\ UNCHANGED <<dump, zram_list>>

\* One turn of the group loop of parser_zpage(class_ptr): for_each_list on a
\* corrupt list does not return.
ParserZpage ==
  LET k == <<Head(todo), cls>> IN
  /\ pc = "parser_zpage"
  /\ IF <<k, grp>> \in corrupt
     THEN Finish("aborted", <<>>) /\ UNCHANGED <<fullness_list, zspage_parser>>
     ELSE /\ fullness_list' = [fullness_list EXCEPT ![k] = Append(@, grp)]
          /\ IF grp = GroupCnt
             THEN /\ zspage_parser' = zspage_parser \cup {k}
                  /\ pc' = "classes" /\ grp' = 1
             ELSE grp' = grp + 1 /\ UNCHANGED <<pc, zspage_parser>>
          /\ UNCHANGED <<op, todo, cls, out, shown>>
  /\ UNCHANGED <<dump, zram_list>>

\* Mutant: the swap reader parses without looking the zram up.
ReadZramPageNoLookup(z) ==
  /\ pc = "idle"
  /\ ParserZram(z)
  /\ Len(zram_list) < 4
  /\ shown' = Result("none", <<>>)
  /\ UNCHANGED <<dump, fullness_list, zspage_parser, pc, op, pos, out>>

\* Zraminfo::read_zram_page, reached from Swapinfo::do_swap_page by a command
\* of any plugin that reads user memory: the zram is looked up in the shared
\* list and parsed on its own when it is not there.
ReadZramPage(z) ==
  /\ pc = "idle"
  /\ IF InList(z) THEN UNCHANGED zram_list ELSE ParserZram(z)
  /\ shown' = Result("none", <<>>)
  /\ UNCHANGED <<dump, fullness_list, zspage_parser, pc, op, pos, out>>

\* ^C: crash's signal handler longjmps to its main loop.
Interrupt ==
  /\ interrupts
  /\ pc \notin {"idle", "dead"}
  /\ Finish("aborted", <<>>)
  /\ UNCHANGED <<dump, cache>>

Step ==
  \/ ParserZrams
  \/ PrintZrams
  \/ PrintMemPool
  \/ PrintZspages
  \/ PrintObjs
  \/ VisitClass
  \/ ParserZpage

Next ==
  \/ \E o \in Op : CmdMain(o)
  \/ \E z \in Zrams : ReadZramPage(z)
  \/ Interrupt
  \/ Step

\* A command that has started keeps running: crash is single-threaded.
Spec == Init /\ [][Next]_vars /\ WF_vars(Step)

-----------------------------------------------------------------------------

TypeOK ==
  /\ kind \in [Zrams -> Kind]
  /\ corrupt \in SUBSET Zspage
  /\ interrupts \in BOOLEAN
  /\ zram_list \in Seq(Zrams)
  /\ fullness_list \in [Class -> Seq(Group)]
  /\ zspage_parser \in SUBSET Class
  /\ pc \in {"idle", "parser_zrams", "switch", "classes", "parser_zpage", "dead"}
  /\ op \in Op
  /\ todo \in Seq(Zrams)
  /\ cls \in 1..ClassCnt
  /\ grp \in Group

\* The two ways into zram_list, the loop over the idr and the lookup of a swap
\* read, never cache one zram twice, in whatever order commands, swap reads
\* and interrupts come.
NoDuplicateZram ==
  \A i, j \in 1..Len(zram_list) : zram_list[i] = zram_list[j] => i = j

\* A class is marked parsed only when every fullness group is in its
\* fullness_list, so the printers, which index group_cnt elements of a marked
\* class, stay inside the vector even after aborted parses.
FlagMeansAllGroups ==
  \A k \in zspage_parser :
    /\ Len(fullness_list[k]) >= GroupCnt
    /\ \A g \in Group : \E i \in 1..Len(fullness_list[k]) : fullness_list[k][i] = g

\* Every zspage of the classes of z, class by class and group by group.
AllZspages(z) ==
  [n \in 1..(ClassCnt * GroupCnt) |->
     <<<<z, ((n - 1) \div GroupCnt) + 1>>, ((n - 1) % GroupCnt) + 1>>]

\* Without ^C a zram -z (-p, -f) that prints a listing prints every zspage of the zram
\* exactly once, group by group: neither commands aborted by a corrupt list
\* before it nor classes cached earlier change its output.
ListingExact ==
  ~interrupts /\ shown.status = "printed" /\ shown.op.letter = "z" =>
    shown.out = AllZspages(shown.op.arg)

\* Without ^C zram -o finds whatever size class, zspage or page of a cached zram it is
\* asked for, wherever in the search order it lies.
SearchFinds ==
  ~interrupts /\ shown.status = "printed" /\ shown.op.letter = "o" =>
    LET a == shown.op.arg
        z == IF a \in Class THEN a[1] ELSE a[1][1]
    IN  InList(z) =>
          shown.out = IF a \in Class THEN [g \in Group |-> <<a, g>>] ELSE <<a>>

\* What zram prints without ^C is what it was asked for, whatever was cached or
\* aborted before.
OutputExact == ListingExact /\ SearchFinds

\* Every command ends, in the prompt or in a crash of the process.
CommandEnds == pc # "idle" ~> pc \in {"idle", "dead"}

\* USAGE.md and the help of the command: zram -a displays all zram info, when no
\* command was interrupted before.
AllZramsShown ==
  ~interrupts /\ shown.status = "printed" /\ shown.op.letter = "a" =>
    \A i \in 1..Len(ZramIdr) :
      kind[ZramIdr[i]] # "unreadable" =>
        \E j \in 1..Len(shown.out) : shown.out[j] = ZramIdr[i]

=============================================================================
