------------------------------ MODULE Coredump ------------------------------
(***************************************************************************)
(* coredump: the file it writes for a process (File), and what one         *)
(* command leaves behind for the next (Session).  The two are state        *)
(* machines of their own over the same variables.                          *)
(***************************************************************************)
EXTENDS Integers, Sequences, FiniteSets, SequencesExt, FiniteSetsExt

CONSTANTS   \* File
  PageSize,    \* page_size
  VmaKinds,    \* the VMAs a process is made of, members of Vmas
  MaxVmas,     \* bound on the VMAs of a process
  NoteSizes    \* the sizes of the notes of the process, in the order written

CONSTANTS   \* Session
  Tasks,       \* pids
  Paths,       \* arguments of -s
  MaxCoreCmds  \* bound on the commands of a session

VARIABLES dump, pc, pos, out
vars == <<dump, pc, pos, out>>

-----------------------------------------------------------------------------
(***************************************************************************)
(* coredump -p (coredump/core.cpp): the ELF core file of a process.  The   *)
(* headers, the notes and the memory are written at places computed from   *)
(* sizes; with -r and -f the data of some VMAs is taken from the files     *)
(* under the symbols path, and with -f a fake link map is added.  The file *)
(* is the sequence of writes made to it.                                   *)
(***************************************************************************)

EhdrSize == 64
PhdrSize == 56
NhdrSize == 12
LinkmapSize == 40
FAKE_AUXV_PHDR == 1048576
PN_XNUM == 65535
SizeMax == 2 ^ 30    \* size_t arithmetic is modulo this

\* A VMA: its pages, the file mapped ("" for none) or the kind of anonymous
\* memory, its access, whether AT_PHDR points into it and whether it can be read.
Files == {"exe", "lib"}
Vmas == [pages : 1..2, name : Files \cup {"", "shadow"}, prot : SUBSET {"r", "w", "x"},
         phdr : BOOLEAN, present : BOOLEAN]

\* A process, the files found under the symbols path, those of them that are
\* shared objects, and the options.  AT_PHDR is in one VMA at most.
Dumps ==
  {d \in [vmas : SeqOf(VmaKinds, MaxVmas) \ {<<>>}, found : SUBSET Files, dyn : SUBSET Files,
          flags : SUBSET {"replace", "fake"}] :
     /\ d.dyn \subseteq d.found
     /\ Cardinality({i \in DOMAIN d.vmas : d.vmas[i].phdr}) <= 1}

InitFile ==
  /\ dump \in Dumps
  /\ pc = "header"
  /\ pos = [phdr |-> 0, data |-> 0, next |-> 1]
  /\ out = <<>>

-----------------------------------------------------------------------------

RoundUp(n, align) == ((n + align - 1) \div align) * align
Write(at, len, what) == [at |-> at, len |-> len, what |-> what]
Phdr(type, offset, vma, filesz, memsz) ==
  [type |-> type, offset |-> offset, vma |-> vma, filesz |-> filesz, memsz |-> memsz]

VmSize(i) == dump.vmas[i].pages * PageSize
\* The index of a VMA stands for its address: the VMAs are in ascending order.
FileVmas(name) == {i \in DOMAIN dump.vmas : dump.vmas[i].name = name /\ name \in Files}

\* get_phdr_vma: the first VMA of the file that is not its text, 0 for none.
get_phdr_vma(name) ==
  LET data == {i \in FileVmas(name) : ~({"r", "x"} \subseteq dump.vmas[i].prot)}
  IN  IF data = {} THEN 0 ELSE Min(data)

\* parser_nt_file: the mapped files that are found under the symbols path, which
\* is given when one of the options is.
lib_list == IF dump.flags = {} THEN {} ELSE {f \in dump.found : FileVmas(f) # {}}
Fake == "fake" \in dump.flags /\ lib_list # {}

vma_dump_size(i) == dump.vmas[i].name = "shadow" \/ dump.vmas[i].prot = {}

segs == Len(dump.vmas) + 1 + (IF Fake THEN 1 ELSE 0)
e_phnum == IF segs > PN_XNUM THEN PN_XNUM ELSE segs
NoteStart == EhdrSize + (e_phnum * PhdrSize)

NameLen == 5   \* "CORE" and its zero

notesize(datasz) == NhdrSize + RoundUp(NameLen, 4) + RoundUp(datasz, 4)
PtNoteSize == FoldLeft(LAMBDA n, s : n + notesize(s), 0, NoteSizes)

\* Where writenote leaves the file when it starts at: the header and the name,
\* dump_align, the data, dump_align.
NoteEnd(at, datasz) == RoundUp(RoundUp(at + NhdrSize + NameLen, 4) + datasz, 4)
NoteAt(i) == FoldLeft(NoteEnd, NoteStart, SubSeq(NoteSizes, 1, i - 1))

\* The ELF header, the header of the notes and the notes (write_core_file up to
\* write_pt_note).
WriteHeader ==
  /\ pc = "header"
  /\ out' = <<Write(0, EhdrSize, [type |-> "ehdr"]),
              Write(EhdrSize, PhdrSize, Phdr("note", NoteStart, 0, PtNoteSize, 0))>>
            \o [i \in 1..Len(NoteSizes) |->
                  Write(NoteAt(i), NoteAt(i + 1) - NoteAt(i), [type |-> "note data", note |-> i])]
  /\ pos' = [pos EXCEPT !.phdr = EhdrSize, !.data = RoundUp(NoteStart + PtNoteSize, PageSize)]
  /\ pc' = IF Fake THEN "fake" ELSE "load"
  /\ UNCHANGED dump

-----------------------------------------------------------------------------

\* The entries of the link map after [FAKECORE]: the files with an ELF image and
\* a VMA that holds its headers, in the order of lib_list.
Linked == SelectSeq(SetToSeq(lib_list), LAMBDA f : f \in dump.dyn /\ get_phdr_vma(f) # 0)

StrLen(i) == IF i = 1 THEN 11 ELSE 4     \* "[FAKECORE]", then the paths, with their zeros
MapAddr == FAKE_AUXV_PHDR + (2 * PageSize)
linkmap_size == LinkmapSize * (Cardinality(lib_list) + 1)
StrBefore(i) == FoldLeft(LAMBDA n, k : n + StrLen(k), 0, [k \in 1..(i - 1) |-> k])
StrtabSize == StrBefore(Len(Linked) + 2)

\* Entry i: prev is the address of the entry before it, next the one after it,
\* zero in the last entry.
Linkmap(i) ==
  [name |-> MapAddr + linkmap_size + StrBefore(i),
   prev |-> IF i = 1 THEN 0 ELSE MapAddr + (LinkmapSize * (i - 2)),
   next |-> IF i = Len(Linked) + 1 THEN 0 ELSE MapAddr + (LinkmapSize * i)]

\* write_fake_data: a page with headers, a page with the dynamic entry and
\* r_debug, the link map, the strings, padding; then the header of the segment.
\* The place of the data that follows is not rounded up.
WriteFakeData ==
  /\ pc = "fake"
  /\ LET at == pos.data
         end == at + (2 * PageSize) + linkmap_size + StrtabSize
     IN  /\ out' = out \o
              <<Write(at, PageSize, [type |-> "fake ehdr"]),
                Write(at + PageSize, PageSize, [type |-> "r_debug", map |-> MapAddr]),
                Write(at + (2 * PageSize), linkmap_size,
                      [type |-> "linkmap", entries |-> [i \in 1..(Len(Linked) + 1) |-> Linkmap(i)]]),
                Write(at + (2 * PageSize) + linkmap_size, StrtabSize, [type |-> "strtab"]),
                Write(end, RoundUp(end, PageSize) - end, [type |-> "padding"]),
                Write(pos.phdr + PhdrSize, PhdrSize, Phdr("fake load", at, 0, end - at, end - at))>>
         /\ pos' = [pos EXCEPT !.phdr = @ + PhdrSize, !.data = end]
  /\ pc' = "load"
  /\ UNCHANGED dump

\* -r: the VMA of the executable that holds its program headers.  With a fake
\* link map AT_PHDR was moved to the fake segment, and no VMA holds it.
Replaced(i) == "replace" \in dump.flags /\ ~Fake /\ dump.vmas[i].name = "exe" /\ dump.vmas[i].phdr

\* replace_phdr_load: the size written, or -1 as a size_t when the file is not
\* found; the caller takes every value above 0 for a success.
replace_phdr_load(i) == IF "exe" \in dump.found THEN VmSize(i) ELSE SizeMax - 1

\* -f: the files whose headers this VMA holds.
Overwritten(i) == {f \in lib_list : "fake" \in dump.flags /\ get_phdr_vma(f) = i}

\* write_pt_load without data: the VMA is filtered out.
SkipVma(i) ==
  /\ vma_dump_size(i)
  /\ out' = Append(out, Write(pos.phdr + PhdrSize, PhdrSize, Phdr("load", pos.data, i, 0, VmSize(i))))
  /\ pos' = [pos EXCEPT !.phdr = @ + PhdrSize, !.next = @ + 1]

Data(at, i, from) == Write(at, VmSize(i), [type |-> "data", vma |-> i, from |-> from])

\* Mutant: the data of a VMA that cannot be read takes no room.
LoadVmaNoHole(i) ==
  /\ ~vma_dump_size(i)
  /\ out' = out \o <<Write(pos.phdr + PhdrSize, PhdrSize, Phdr("load", pos.data, i, VmSize(i), VmSize(i)))>>
            \o (IF dump.vmas[i].present THEN <<Data(pos.data, i, "memory")>> ELSE <<>>)
  /\ pos' = [phdr |-> pos.phdr + PhdrSize, next |-> pos.next + 1,
             data |-> pos.data + (IF dump.vmas[i].present THEN VmSize(i) ELSE 0)]

\* write_pt_load: the header, then the data of the file or of the memory; memory
\* that cannot be read is left out.  The next data goes behind what was written,
\* or where the result of replace_phdr_load leads.
LoadVma(i) ==
  /\ ~vma_dump_size(i)
  /\ LET header == Write(pos.phdr + PhdrSize, PhdrSize, Phdr("load", pos.data, i, VmSize(i), VmSize(i)))
         from == IF Overwritten(i) # {} \/ (Replaced(i) /\ "exe" \in dump.found) THEN {"file"}
                 ELSE IF ~Replaced(i) /\ dump.vmas[i].present THEN {"memory"} ELSE {}
     IN  /\ out' = out \o <<header>> \o SetToSeq({Data(pos.data, i, f) : f \in from})
         /\ pos' = [phdr |-> pos.phdr + PhdrSize, next |-> pos.next + 1,
                    data |-> (pos.data + IF Replaced(i) THEN replace_phdr_load(i) ELSE VmSize(i)) % SizeMax]

WriteLoad ==
  /\ pc = "load"
  /\ pos.next <= Len(dump.vmas)
  /\ SkipVma(pos.next) \/ LoadVma(pos.next)
  /\ UNCHANGED <<dump, pc>>

Finish ==
  /\ pc = "load"
  /\ pos.next > Len(dump.vmas)
  /\ pc' = "done"
  /\ UNCHANGED <<dump, pos, out>>

NextFile == WriteHeader \/ WriteFakeData \/ WriteLoad \/ Finish

SpecFile == InitFile /\ [][NextFile]_vars

-----------------------------------------------------------------------------

Meet(at, len, w) == at < w.at + w.len /\ w.at < at + len
\* Nothing written later falls on write j.
Intact(j) == \A k \in (j + 1)..Len(out) : ~Meet(out[j].at, out[j].len, out[k])
Of(type) == {j \in 1..Len(out) : out[j].what.type = type}

\* -r was given and the executable is not under the symbols path.
ReplaceFails == "exe" \notin dump.found /\ \E i \in DOMAIN dump.vmas : Replaced(i) /\ ~vma_dump_size(i)

\* The header of VMA i is in its place, and what its file range holds when the
\* whole file is written is the data of that VMA, or nothing but zeros when the
\* memory could not be read.
SegmentExact(i) ==
  \E j \in Of("load") :
    LET h == out[j].what
    IN  /\ out[j].at = EhdrSize + (PhdrSize * (IF Fake THEN i + 1 ELSE i))
        /\ Intact(j) /\ h.vma = i /\ h.memsz = VmSize(i)
        /\ h.filesz = IF vma_dump_size(i) THEN 0 ELSE VmSize(i)
        /\ h.filesz > 0 =>
             \/ \E k \in Of("data") : out[k].at = h.offset /\ out[k].what.vma = i /\ Intact(k)
             \/ /\ ~dump.vmas[i].present
                /\ \A k \in 1..Len(out) : Meet(h.offset, h.filesz, out[k]) => out[k].what.type = "padding"

\* Unless the file for -r is missing, the core file can be read back: every VMA
\* has its header and its data, whatever the options and the VMAs that are
\* filtered out or unreadable; no write falls on another one's.
CoreExact ==
  pc = "done" /\ ~ReplaceFails => \A i \in DOMAIN dump.vmas : SegmentExact(i)

\* The range in the header of the notes is exactly the notes, one after the
\* other and not overwritten: the size is computed before the notes are written
\* and padded by where the file stands.
NotesExact ==
  pc = "done" =>
    \E h \in Of("note") :
      /\ Intact(h)
      /\ out[h].what.offset = Min({out[j].at : j \in Of("note data")})
      /\ out[h].what.offset + out[h].what.filesz = Max({out[j].at + out[j].len : j \in Of("note data")})
      /\ \A j \in Of("note data") : Intact(j)

\* With -f the debugger finds the libraries: from r_debug.map, next leads
\* through the entries of the linked files and ends, prev leads back, the names
\* lie in the string table, all inside the segment, which nothing overwrites.
LinkmapExact ==
  pc = "done" /\ Fake /\ ~ReplaceFails =>
    \E h \in Of("fake load"), r \in Of("r_debug"), m \in Of("linkmap"), s \in Of("strtab") :
      LET Addr(j) == FAKE_AUXV_PHDR + (out[j].at - out[h].what.offset)
          es == out[m].what.entries
      IN  /\ Intact(h) /\ Intact(r) /\ Intact(m) /\ Intact(s)
          /\ out[r].what.map = Addr(m)
          /\ Len(es) = Len(Linked) + 1
          /\ \A i \in 1..Len(es) :
               /\ es[i].next = IF i = Len(es) THEN 0 ELSE Addr(m) + (LinkmapSize * i)
               /\ i > 1 => Addr(m) + (LinkmapSize * (i - 2)) = es[i].prev
               /\ es[i].name >= Addr(s) /\ es[i].name + StrLen(i) <= Addr(s) + out[s].len
          /\ Addr(s) + out[s].len = FAKE_AUXV_PHDR + out[h].what.filesz

-----------------------------------------------------------------------------
(***************************************************************************)
(* The coredump command over a session (coredump/coredump.cpp): what one   *)
(* command leaves behind for the next.  is_compat of the plugin and the    *)
(* static Core::symbols_path outlive a command; an error inside crash or   *)
(* ^C abandons a command and keeps both as they are.                       *)
(***************************************************************************)

\* dump: Tasks -> "native", "compat" (32 bit), "kernel" or "no mm"
\* pc: always "prompt": a command is one step
\* pos: Coredump::is_compat, Core::symbols_path ("" when empty), commands so far
\* out: one record for each time a core parser was made and run

NoPid == "none"

InitSession ==
  /\ dump \in [Tasks -> {"native", "compat", "kernel", "no mm"}]
  /\ pc = "prompt"
  /\ pos = [is_compat |-> FALSE, symbols_path |-> "", cmds |-> 0]
  /\ out = {}

-----------------------------------------------------------------------------

\* get_core_parser stops early for the others.
Dumpable(pid) == pid \in Tasks /\ dump[pid] \in {"native", "compat"}

\* Mutant: the flag of the thread is not looked at.
CompatAfterIgnored(pid) == pos.is_compat

\* get_core_parser: is_compat is set for a 32 bit task, and never reset.
CompatAfter(pid) == pos.is_compat \/ (Dumpable(pid) /\ dump[pid] = "compat")

\* The parser made: Compat or Arm64.
ParserOf(pid) == IF CompatAfter(pid) THEN "compat" ELSE "native"

\* -f, -r and -l are refused without a path.
NeedsSymbols(op, files) == files \/ op = "linkmap"

\* cmd_main; files: -f or -r is given.  A command that gives no path uses the one
\* left behind; only a core file that is opened and written to its end clears it.
Coredump(op, pid, path, files) ==
  LET used == IF path # "" THEN path ELSE pos.symbols_path
      refused == (NeedsSymbols(op, files) /\ used = "") \/ ~Dumpable(pid)
      run == [op |-> op, pid |-> pid, parser |-> ParserOf(pid), path |-> used, files |-> files,
              earlier |-> {c.pid : c \in out}]
  IN  /\ pos.cmds < MaxCoreCmds
      /\ \E completes \in BOOLEAN :
           pos' = [is_compat |-> IF refused THEN pos.is_compat ELSE CompatAfter(pid),
                   symbols_path |-> IF ~refused /\ op = "core" /\ completes THEN "" ELSE used,
                   cmds |-> pos.cmds + 1]
      /\ out' = IF refused THEN out ELSE out \cup {run}
      /\ UNCHANGED <<dump, pc>>

NextSession ==
  \E op \in {"core", "maps", "linkmap"}, pid \in Tasks \cup {NoPid}, path \in Paths \cup {""}, files \in BOOLEAN :
     Coredump(op, pid, path, files)

SpecSession == InitSession /\ [][NextSession]_vars

-----------------------------------------------------------------------------

\* The 32 bit parser is used for a 32 bit process, and for any process after one
\* of those was parsed in the same session, whatever was refused, interrupted or
\* failed in between.
CompatFromFirst ==
  \A c \in out :
    c.parser = "compat" <=> \E pid \in c.earlier \cup {c.pid} : dump[pid] = "compat"

\* Whatever path an earlier command left behind or cleared, data is never taken
\* from files (-r, -f, -l) without a path.
SymbolsGiven ==
  \A c \in out : c.files \/ c.op = "linkmap" => c.path # ""

=============================================================================
