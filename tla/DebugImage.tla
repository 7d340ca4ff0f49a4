----------------------------- MODULE DebugImage -----------------------------
(***************************************************************************)
(* dbi (debugimage/): the register images the firmware saves when the      *)
(* system stops, found through tables that hold images and further tables, *)
(* over a session (Images), and the search for frame records in the words  *)
(* of a stack (Frames).  The two are state machines of their own over the  *)
(* same variables.                                                         *)
(***************************************************************************)
EXTENDS Integers, Sequences, FiniteSets, SequencesExt, FiniteSetsExt, Functions, Bitwise

CONSTANTS   \* Images
  DumpTables,    \* sets of dump tables, each a sequence of Table; the first is table_phys
  Unwritable,    \* sets of files that cannot be opened
  IdleCpus,      \* the cpus that run the idle task (swapper)
  MaxDepth,      \* tables inside tables before the stack of the program is used up
  MaxDbiCmds     \* bound on the commands of a session

CONSTANTS   \* Frames
  Words,         \* the places of frame records in a stack, 16 bytes apart: 1..Words
  Cpus,          \* kt->cpus
  CpuArgs        \* arguments of dbi -C

VARIABLES dump, pc, pos, out
vars == <<dump, pc, pos, out>>

-----------------------------------------------------------------------------
(***************************************************************************)
(* Images.  An entry of a table is an image or a table.  An image has an   *)
(* id, below DATA_L1_INST_TLB for the registers of a cpu, a version of     *)
(* <<major, minor>>, the four bytes of its affinity, and registers: sets   *)
(* of them in version 2.0, each an id with whether it can be read, and     *)
(* a stack its frame pointer is in, <<kind, cpu>>.                         *)
(***************************************************************************)

DATA_L1_INST_TLB == 32
DATA_MAX == 356
MaxEntries == 100        \* a table with more is not followed

Versions == {<<1, 3>>, <<1, 4>>, <<2, 0>>}

InitImages ==
  /\ dump \in [tables : DumpTables, loaded : BOOLEAN, bits64 : BOOLEAN, locked : Unwritable, interrupts : BOOLEAN]
  /\ pc = "prompt"
  /\ pos = [list |-> <<>>, parser |-> "none", stack |-> <<>>, op |-> "a", next |-> 1, cmds |-> 0]
  /\ out = [rows |-> <<>>, files |-> <<>>]

\* The frame of a call of parser_dump_table, when it does not return at once.
Called(t) ==
  IF dump.tables[t].num \in 1..MaxEntries THEN <<[table |-> t, next |-> 1]>> ELSE <<>>

\* cmd_main with one option.  parser_memdump returns while the module with the
\* types of the tables is not loaded.
CmdMainImages(o) ==
  /\ pc = "prompt"
  /\ pos.cmds < MaxDbiCmds
  /\ IF pos.list = <<>> /\ dump.loaded
     THEN pc' = "parser_dump_table" /\ pos' = [pos EXCEPT !.cmds = @ + 1, !.op = o, !.stack = Called(1)]
     ELSE pc' = "option" /\ pos' = [pos EXCEPT !.cmds = @ + 1, !.op = o]
  /\ out' = [out EXCEPT !.rows = <<>>]
  /\ UNCHANGED dump

\* The user loads the symbols of the module between two commands (external).
LoadModule ==
  /\ pc = "prompt"
  /\ ~dump.loaded
  /\ dump' = [dump EXCEPT !.loaded = TRUE]
  /\ UNCHANGED <<pc, pos, out>>

\* parser_dump_data keeps an entry of a known magic number and id.
Kept(e) == e.type = "data" /\ e.magic /\ e.id <= DATA_MAX

\* Mutant: a table inside a table takes the place of the one that is read.
DumpTableForgets ==
  /\ pc = "parser_dump_table"
  /\ IF pos.stack = <<>>
     THEN pc' = "option" /\ UNCHANGED pos
     ELSE LET top == Last(pos.stack)
              rest == Front(pos.stack)
              table == dump.tables[top.table]
          IN  IF top.next > table.num
              THEN pos' = [pos EXCEPT !.stack = rest] /\ UNCHANGED pc
              ELSE LET e == table.entries[top.next]
                       after == Append(rest, [top EXCEPT !.next = @ + 1])
                   IN  /\ pos' = [pos EXCEPT !.list = IF Kept(e) THEN Append(@, e) ELSE @,
                                             !.stack = IF e.type = "table" THEN rest \o Called(e.table) ELSE after]
                       /\ pc' = IF Len(pos'.stack) > MaxDepth THEN "crash" ELSE pc
  /\ UNCHANGED <<dump, out>>

\* One turn of the loop of the innermost parser_dump_table, or its return.  A table
\* that leads back to itself uses up the stack of the program.
DumpTable ==
  /\ pc = "parser_dump_table"
  /\ IF pos.stack = <<>>
     THEN pc' = "option" /\ UNCHANGED pos
     ELSE LET top == Last(pos.stack)
              rest == Front(pos.stack)
              table == dump.tables[top.table]
          IN  IF top.next > table.num
              THEN pos' = [pos EXCEPT !.stack = rest] /\ UNCHANGED pc
              ELSE LET e == table.entries[top.next]
                       after == Append(rest, [top EXCEPT !.next = @ + 1])
                   IN  /\ pos' = [pos EXCEPT !.list = IF Kept(e) THEN Append(@, e) ELSE @,
                                             !.stack = IF e.type = "table" THEN after \o Called(e.table) ELSE after]
                       /\ pc' = IF Len(pos'.stack) > MaxDepth THEN "crash" ELSE pc
  /\ UNCHANGED <<dump, out>>

\* dbi -a: a row for each entry.
PrintMemdump ==
  /\ pc = "option" /\ pos.op = "a"
  /\ out' = [out EXCEPT !.rows = [i \in DOMAIN pos.list |-> pos.list[i].id]]
  /\ pc' = "prompt"
  /\ UNCHANGED <<dump, pos>>

\* dbi -c and dbi -s go through the list.
StartImages ==
  /\ pc = "option" /\ pos.op \in {"c", "s"}
  /\ pc' = "images"
  /\ pos' = [pos EXCEPT !.next = 1]
  /\ UNCHANGED <<dump, out>>

-----------------------------------------------------------------------------

Context(e) == e.id < DATA_L1_INST_TLB

\* Mutant: version 1.4 is taken for version 1.3.
ParserPtr1x(e) ==
  CASE e.version = <<2, 0>> -> "v20"
    [] e.version # <<2, 0>> /\ ~dump.bits64 -> "cpu32"
    [] dump.bits64 /\ e.version \in {<<1, 3>>, <<1, 4>>} -> "v13"
    [] OTHER -> pos.parser

\* The parser for an entry; on 64 bits an unknown version leaves parser_ptr as it is.
ParserPtr(e) ==
  CASE e.version = <<2, 0>> -> "v20"
    [] e.version # <<2, 0>> /\ ~dump.bits64 -> "cpu32"
    [] dump.bits64 /\ e.version = <<1, 3>> -> "v13"
    [] dump.bits64 /\ e.version = <<1, 4>> -> "v14"
    [] OTHER -> pos.parser

\* get_vcpu_index of version 2.0: the bytes of the affinity, all shifted by 0.  A
\* context that cannot be read has affinity 0 and no register sets.
get_vcpu_index(e) ==
  IF e.readable THEN ((e.affinity[1] | e.affinity[2]) | e.affinity[3]) | e.affinity[4] ELSE 0
Core(p, e) == IF p = "v20" THEN get_vcpu_index(e) ELSE e.id
RegSets(e) == IF e.readable THEN e.sets ELSE <<>>

\* The register sets generate_cmm of version 2.0 writes; it reads 17 and 27 too.
WrittenSets == {16, 19, 20, 22, 25, 26}

\* get_cmm_path: the file of a core.
CmmFile(e, core) == <<IF e.vcpu THEN "corevcpu" ELSE "core", core>>
SecureFile(core) == <<"secure", core>>

Content(p, e, of) == <<[entry |-> e.id, parser |-> p, of |-> of]>>

\* What generate_cmm of version 2.0 leaves in the file: the sets that are written and can
\* be read, in their order.
generate_cmm_v20(e) ==
  LET file == CmmFile(e, get_vcpu_index(e))
      sets == SelectSeq(RegSets(e), LAMBDA s : s.id \in WrittenSets /\ s.ok)
  IN  IF file \in dump.locked THEN <<>>
      ELSE file :> FlattenSeq([i \in DOMAIN sets |-> Content("v20", e, sets[i].id)])

\* A script for each of the two worlds, the second only if the first could be opened.
BothWorlds(p, e) ==
  LET file == <<"core", e.id>>
      secure == SecureFile(e.id)
  IN  IF file \in dump.locked THEN <<>>
      ELSE (file :> Content(p, e, "regs")) @@ (IF secure \in dump.locked THEN <<>> ELSE secure :> Content(p, e, "secure"))

\* compute_pc of version 1.4 works on a copy: the pc is written as it was saved.
generate_cmm_v14(e) == BothWorlds("v14", e)
generate_cmm_v13(e) == BothWorlds("v13", e)
generate_cmm_cpu32(e) == BothWorlds("cpu32", e)

generate_cmm(p, e) ==
  CASE p = "v20" -> generate_cmm_v20(e)
    [] p = "v14" -> generate_cmm_v14(e)
    [] p = "v13" -> generate_cmm_v13(e)
    [] p = "cpu32" -> generate_cmm_cpu32(e)

\* Where print_stack unwinds from: the stack of the core's task, but for the idle task,
\* or the core's irq stack, when the frame pointer is inside it.
Unwinds(core, e) == e.fp[2] = core /\ (e.fp[1] = "irq" \/ core \notin IdleCpus)

\* What print_stack shows of a core; on 32 bits no backtrace.
Row(p, e) ==
  LET core == Core(p, e)
  IN  [entry |-> e.id, parser |-> p, core |-> core, trace |-> dump.bits64 /\ Unwinds(core, e)]

\* Version 2.0 shows it for each set of general registers.
print_stack(p, e) ==
  LET gprs == SelectSeq(RegSets(e), LAMBDA s : s.id = 16 /\ s.ok)
  IN  IF p = "v20" THEN [i \in DOMAIN gprs |-> Row(p, e)] ELSE <<Row(p, e)>>

\* One entry of dbi -c or dbi -s (parse_cpu_ctx, parse_cpu_stack).  No parser yet, or
\* registers of version 1 that cannot be read, is a null pointer.
Image ==
  /\ pc = "images"
  /\ IF pos.next > Len(pos.list)
     THEN pc' = "prompt" /\ UNCHANGED <<pos, out>>
     ELSE LET e == pos.list[pos.next]
              p == ParserPtr(e)
          IN  IF ~Context(e)
              THEN pos' = [pos EXCEPT !.next = @ + 1] /\ UNCHANGED <<pc, out>>
              ELSE IF p = "none" \/ (p # "v20" /\ ~e.readable)
              THEN pc' = "crash" /\ UNCHANGED <<pos, out>>
              ELSE /\ pos' = [pos EXCEPT !.next = @ + 1, !.parser = p]
                   /\ out' = IF pos.op = "c" THEN [out EXCEPT !.files = generate_cmm(p, e) @@ @]
                             ELSE [out EXCEPT !.rows = @ \o print_stack(p, e)]
                   /\ UNCHANGED pc
  /\ UNCHANGED dump

\* ^C: back to the prompt, with the entries kept so far and, in dbi -c, with the files of
\* one entry opened but not written to their ends.
InterruptDbi ==
  /\ dump.interrupts
  /\ pc \in {"parser_dump_table", "images"}
  /\ pc' = "prompt"
  /\ pos' = [pos EXCEPT !.stack = <<>>]
  /\ \/ UNCHANGED out
     \/ /\ pc = "images" /\ pos.op = "c" /\ pos.next <= Len(pos.list)
        /\ LET e == pos.list[pos.next]
               p == ParserPtr(e)
               files == generate_cmm(p, e)
           IN  /\ Context(e) /\ p # "none" /\ (p = "v20" \/ e.readable)
               /\ \E f \in DOMAIN files : \E n \in 0..(Len(files[f]) - 1) :
                    out' = [out EXCEPT !.files = (f :> SubSeq(files[f], 1, n)) @@ @]
  /\ UNCHANGED dump

NextImages ==
  \/ \E o \in {"a", "c", "s"} : CmdMainImages(o)
  \/ LoadModule \/ DumpTable \/ PrintMemdump \/ StartImages \/ Image \/ InterruptDbi

-----------------------------------------------------------------------------

EntriesOf(t) == IF dump.tables[t].num \in 1..MaxEntries THEN Range(dump.tables[t].entries) ELSE {}

\* The tables that are reached from the first one: the least set that has it and, with
\* a table that is followed, the tables of its entries.
Reached ==
  LET closed(S) == /\ 1 \in S
                   /\ \A t \in S : \A e \in EntriesOf(t) : e.type = "table" => e.table \in S
  IN  {t \in DOMAIN dump.tables : \A S \in SUBSET (DOMAIN dump.tables) : closed(S) => t \in S}

Images == {e \in UNION {EntriesOf(t) : t \in Reached} : Kept(e)}
Contexts == {e \in Images : Context(e)}
Entry(id) == CHOOSE e \in Images : e.id = id

\* No table is reached on two ways; on a cycle of tables the program ends.
Tree ==
  \A t \in Reached :
    Cardinality({r \in Reached : [type |-> "table", table |-> t] \in EntriesOf(r)}) = (IF t = 1 THEN 0 ELSE 1)

\* The list has every image of a tree of tables once when a command uses it, however deep
\* the tables lie and however often the command was given before the module was loaded;
\* after an interrupt it may lack images but has none twice.
ImagesExact ==
  /\ Tree => IsInjective(pos.list)
  /\ Range(pos.list) \subseteq Images
  /\ pc \in {"option", "images"} /\ dump.loaded /\ ~dump.interrupts => Range(pos.list) = Images

\* The parser of an image, NoParser for a version on 64 bits that has none.
NoParser == "no parser"
Right(e) ==
  IF e.version = <<2, 0>> THEN "v20"
  ELSE IF ~dump.bits64 THEN "cpu32"
  ELSE IF e.version \in Versions THEN (<<1, 3>> :> "v13" @@ <<1, 4>> :> "v14")[e.version] ELSE NoParser

\* An image of a version that has a parser is never shown or saved by the parser that an
\* image before it needed; and no file has parts of two images.
ParsersRight ==
  LET made == Range(out.rows) \cup UNION {Range(out.files[f]) : f \in DOMAIN out.files}
  IN  /\ pos.op # "a" => \A m \in made : Right(Entry(m.entry)) \in {m.parser, NoParser}
      /\ \A f \in DOMAIN out.files : \A a, b \in Range(out.files[f]) : a.entry = b.entry

\* The files an image may be saved in, with whatever parser.
FilesOf(e) ==
  CASE Right(e) = "v20" -> {CmmFile(e, get_vcpu_index(e))}
    [] Right(e) = NoParser -> {CmmFile(e, get_vcpu_index(e)), <<"core", e.id>>, SecureFile(e.id)}
    [] OTHER -> {<<"core", e.id>>, SecureFile(e.id)}

\* After a dbi -c that was not interrupted an image has its own script, whole, whatever was
\* saved before, unless the file cannot be opened or another image has the same core number
\* (a context of version 2.0 that cannot be read counts as core 0).
SavedWhole ==
  pc = "images" /\ pos.op = "c" /\ pos.next > Len(pos.list) =>
    \A e \in Contexts \cap Range(pos.list) :
      Right(e) # NoParser /\ (\A d \in Contexts \ {e} : FilesOf(d) \cap FilesOf(e) = {}) =>
        IF Right(e) = "v20"
        THEN LET f == CmmFile(e, get_vcpu_index(e))
             IN  f \notin dump.locked =>
                   Range(out.files[f]) = {[entry |-> e.id, parser |-> "v20", of |-> s.id] :
                                            s \in {t \in Range(RegSets(e)) : t.ok /\ t.id \in WrittenSets}}
        ELSE <<"core", e.id>> \notin dump.locked =>
               \A f \in FilesOf(e) \ dump.locked : Len(out.files[f]) = 1 /\ out.files[f][1].entry = e.id

\* dbi -s shows an image with the number of its own cpu, and the backtrace of what that cpu
\* was running; a version 2.0 image only if no more than one byte of its affinity is set.
StacksOfOwnCpu ==
  pos.op = "s" =>
    \A i \in DOMAIN out.rows :
      LET row == out.rows[i]
          e == Entry(row.entry)
      IN  row.parser = Right(e) /\ (row.parser = "v20" => Cardinality({k \in 1..4 : e.affinity[k] # 0}) <= 1) =>
            /\ row.core = e.cpu
            /\ row.trace = (dump.bits64 /\ e.fp[2] = e.cpu /\ ~(e.fp[1] = "task" /\ e.cpu \in IdleCpus))

-----------------------------------------------------------------------------
(***************************************************************************)
(* Frames: dbi -p and dbi -C look for the frame records in a stack without *)
(* any register: a word that holds the place of another word may be a      *)
(* saved x29.  A place stands for its address; 0 is no place of the stack, *)
(* and what is read where the dump has no memory.                          *)
(***************************************************************************)

Places == 1..Words

\* The command, its argument (for -p: is there such a task, with a context that can be
\* read?) and the words of the stack.
InitFrames ==
  /\ dump \in [arg : {[op |-> "p", known |-> k] : k \in BOOLEAN} \cup {[op |-> "C", cpu |-> c] : c \in CpuArgs},
               mem : [Places -> 0..Words]]
  /\ pc = "start"
  /\ pos = [current |-> {}, iteration |-> 0]
  /\ out = {}

\* print_task_stack and print_irq_stack up to find_x29.  The check of cpu lets the number
\* of cpus itself and negative numbers through, beyond the ends of irq_stacks.
StartFrames ==
  /\ pc = "start"
  /\ pc' = IF dump.arg.op = "p" THEN (IF dump.arg.known THEN "find_x29" ELSE "done")
           ELSE IF dump.arg.cpu > Cpus THEN "done"
           ELSE IF dump.arg.cpu \in 0..(Cpus - 1) THEN "find_x29" ELSE "undefined"
  /\ UNCHANGED <<dump, pos, out>>

\* The words that hold the place a.
Holding(a) == {b \in Places : dump.mem[b] = a}

\* Mutant: the search starts from the lowest place that is held.
OutermostLowest == LET held == {a \in Places : Holding(a) # {}} IN IF held = {} THEN 0 ELSE Min(held)

\* Step 2 of find_x29: the highest place that some word holds, 0 for none.
Outermost == LET held == {a \in Places : Holding(a) # {}} IN IF held = {} THEN 0 ELSE Max(held)

\* Steps 1 to 3.
FindStart ==
  /\ pc = "find_x29"
  /\ pos' = [pos EXCEPT !.current = IF Outermost = 0 THEN {} ELSE Holding(Outermost)]
  /\ pc' = "descend"
  /\ UNCHANGED <<dump, out>>

\* Mutant: records may lie above the one they lead to.
InnerAnywhere(a) == Holding(a)

\* The records called from the one at a: those below it that hold its place.
Inner(a) == {b \in Holding(a) : b < a}

\* One turn of the loop of step 4.
Descend ==
  /\ pc = "descend"
  /\ IF pos.current = {}
     THEN pc' = "done" /\ UNCHANGED <<pos, out>>
     ELSE /\ out' = out \cup {a \in pos.current : Inner(a) = {}}
          /\ pos' = [current |-> UNION {Inner(a) : a \in pos.current}, iteration |-> pos.iteration + 1]
          /\ UNCHANGED pc
  /\ UNCHANGED dump

NextFrames == StartFrames \/ FindStart \/ Descend

Highest == Max({0} \cup Range(dump.mem))

\* From the record at a the saved places lead upwards, record by record, to one that holds
\* the highest place of all.
LeadsOut ==
  LET f[a \in Places] ==
        \/ dump.mem[a] = Highest
        \/ dump.mem[a] > a /\ f[dump.mem[a]]
  IN  f

\* The frames offered for a backtrace are exactly the innermost records of the chains that
\* lead to the highest place, each once and each inside the stack: the unwinder is
\* started from no record that another one calls, and no chain is left out.  Words that
\* hold each other's places do not keep the search from ending: it has no more turns than
\* there are records.
FramesExact ==
  /\ pos.iteration <= Words
  /\ pc = "done" /\ (dump.arg.op = "p" => dump.arg.known) /\ (dump.arg.op = "C" => dump.arg.cpu < Cpus) =>
       out = IF Highest = 0 THEN {}
             ELSE {a \in Places : LeadsOut[a] /\ ~\E b \in Places : b < a /\ dump.mem[b] = a}

=============================================================================
