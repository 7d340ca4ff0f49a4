--------------------------- MODULE SurfaceFlinger ---------------------------
(***************************************************************************)
(* sfg (surfaceflinger/sf.cpp): the graphic buffers of the process         *)
(* surfaceflinger, as its allocator counts them and as gralloc4 (-a) or    *)
(* gralloc5 (-b) has imported them.  task_ptr, the view of the process, is *)
(* made by a command that finds none and dropped at the end of each        *)
(* option; an interrupted option keeps it for the next command.            *)
(*                                                                         *)
(* A handle is [id, kind, fd]: "whole", "short" when its vma ends inside   *)
(* it, "unmapped" when it lies in no vma and reads as zeros, or "none"     *)
(* when its vma cannot be read.                                            *)
(***************************************************************************)
EXTENDS Integers, Sequences, FiniteSets, Functions

CONSTANTS AllocLists,   \* contents of sAllocList: Seq of [handle, size, rec]
          HandleMaps,   \* the imported handles: sets
          FileTables,   \* the dma-buf of each open file, 0 for none: Seq
          Fds,          \* values of the fd field
          UintMod,      \* the size is read as an unsigned int below UintMod
          Distance, Top, WordMod,  \* sInstance lies Distance before sAllocList; user addresses are below Top
          MaxSfCmds     \* bound on the commands of a session

VARIABLES dump, pc, pos, out
vars == <<dump, pc, pos, out>>

NotFound == 0
NoOut == [op |-> "", alloc |-> <<>>, total |-> 0, imported |-> <<>>]
Init ==
  /\ dump \in [proc : BOOLEAN, list : {NotFound, Distance + 1, Top}, allocs : AllocLists,
               imported : HandleMaps, lib : {"text", "data", "none"}, files : FileTables, interrupts : BOOLEAN]
  /\ pc = "prompt"
  /\ pos = [cmds |-> 0, args |-> <<>>, op |-> "", done |-> 0, task_ptr |-> FALSE,
            i |-> 1, todo |-> {}, oss |-> <<>>, total |-> 0]
  /\ out = NoOut

\* sAllocList holds a sequence.
SfAssumption == \A list \in AllocLists : list \in Seq(Range(list))

\* is_uvaddr
IsUser(addr) == addr < Top

CmdMain ==
  /\ pc = "prompt"
  /\ pos.cmds < MaxSfCmds
  /\ \E args \in {<<"a">>, <<"b">>, <<"a", "b">>, <<"x", "b">>} :
       pos' = [pos EXCEPT !.cmds = @ + 1, !.args = args, !.op = "", !.done = 0]
  /\ pc' = "init_env"
  /\ out' = NoOut
  /\ UNCHANGED dump

\* Mutant: the process is looked at by the first command only.
InitEnvOnce ==
  /\ pc = "init_env"
  /\ pc' = IF dump.proc THEN "option" ELSE "prompt"
  /\ pos' = [pos EXCEPT !.task_ptr = @ \/ (dump.proc /\ pos.cmds = 1)]
  /\ UNCHANGED <<dump, out>>

\* init_env: a command uses the UTask an interrupted one has left.
InitEnv ==
  /\ pc = "init_env"
  /\ pc' = IF dump.proc THEN "option" ELSE "prompt"
  /\ pos' = [pos EXCEPT !.task_ptr = @ \/ dump.proc]
  /\ UNCHANGED <<dump, out>>

\* The end of an option: task_ptr.reset().
Reset(p) == [p EXCEPT !.args = Tail(@), !.task_ptr = FALSE, !.done = @ + 1, !.oss = <<>>]

\* The loop of cmd_main, up to the buffers: get_sAllocList_from_vma asks the UTask
\* that the option before has dropped.  The list is not looked at when it lies
\* outside user memory, but it is when it was not found.
Option ==
  /\ pc = "option"
  /\ \/ /\ pos.args = <<>>
        /\ pc' = "prompt"
        /\ UNCHANGED pos
     \/ /\ pos.args # <<>> /\ Head(pos.args) = "x"
        /\ pos' = [pos EXCEPT !.args = Tail(@)]
        /\ UNCHANGED pc
     \/ /\ pos.args # <<>> /\ Head(pos.args) # "x"
        /\ ~pos.task_ptr
        /\ pc' = "undefined"
        /\ pos' = [pos EXCEPT !.op = "null"]
     \/ /\ pos.args # <<>> /\ Head(pos.args) # "x"
        /\ pos.task_ptr
        /\ IF dump.list # NotFound /\ ~IsUser(dump.list) THEN pos' = Reset(pos) /\ UNCHANGED pc
           ELSE pc' = "alloc" /\ pos' = [pos EXCEPT !.op = Head(pos.args), !.i = 1, !.total = 0, !.oss = <<>>]
  /\ UNCHANGED <<dump, out>>

\* The fields of a handle behind the end of its vma are whatever follows the buffer.
FdOf(h) == CASE h.kind = "short" -> Fds [] h.kind = "unmapped" -> {0} [] OTHER -> {h.fd}
InTable(fd) == fd + 1 \in DOMAIN dump.files
\* Mutant: descriptors are counted from 1.
BufOfFrom1(fd) == IF fd \in DOMAIN dump.files THEN dump.files[fd] ELSE 0
\* filetabe[fd], and the dma-buf of the file.
BufOf(fd) == dump.files[fd + 1]

\* What the allocator has: memory that is not mapped reads as an empty vector.
Allocs == IF dump.list = NotFound THEN <<>> ELSE dump.allocs
\* Mutant: a size counts before its record is known to be readable.
CountedAlways(x) == x.size % UintMod
\* uread_uint, added only with the row.
Counted(x) == IF x.rec THEN x.size % UintMod ELSE 0
Row(h, fd) == [id |-> h.id, kind |-> h.kind, buf |-> BufOf(fd)]

\* One turn of the loop of dump_GraphicBufferAllocator; an item whose handle or record
\* cannot be read is left out.
DumpAlloc ==
  /\ pc = "alloc"
  /\ pos.i <= Len(Allocs)
  /\ LET x == Allocs[pos.i]
     IN  \/ /\ x.handle.kind = "none"
            /\ pos' = [pos EXCEPT !.i = @ + 1]
            /\ UNCHANGED pc
         \/ /\ x.handle.kind # "none"
            /\ \E fd \in FdOf(x.handle) :
                 IF ~InTable(fd) THEN pc' = "undefined" /\ pos' = [pos EXCEPT !.op = "fd"]
                 ELSE /\ pos' = [pos EXCEPT !.i = @ + 1, !.total = @ + Counted(x),
                                            !.oss = IF x.rec THEN Append(@, Row(x.handle, fd)) ELSE @]
                      /\ UNCHANGED pc
  /\ UNCHANGED <<dump, out>>

sInstance == (dump.list - Distance + WordMod) % WordMod

\* The end of dump_GraphicBufferAllocator, and the way from there to the imported
\* handles: parser_gralloc4 needs the address of the allocator, parser_gralloc5 the
\* mappings of a library, whose text get_min_vma_start takes for granted.
PrintAlloc ==
  /\ pc = "alloc"
  /\ pos.i > Len(Allocs)
  /\ out' = [out EXCEPT !.op = pos.op, !.alloc = pos.oss, !.total = pos.total, !.imported = <<>>]
  /\ LET stop == IF pos.op = "a" THEN ~IsUser(sInstance) ELSE dump.lib = "none"
     IN  IF stop THEN pc' = "option" /\ pos' = Reset(pos)
         ELSE IF pos.op = "b" /\ dump.lib = "data" THEN pc' = "undefined" /\ pos' = [pos EXCEPT !.op = "text"]
         ELSE pc' = "imported" /\ pos' = [pos EXCEPT !.todo = dump.imported, !.oss = <<>>]
  /\ UNCHANGED dump

\* dumpDebugInfo with bufferDumpHelper, and the loop of parser_gralloc5: the handles of
\* an unordered_map, in any order.
DumpImported ==
  /\ pc = "imported"
  /\ \/ /\ pos.todo = {}
        /\ out' = [out EXCEPT !.imported = pos.oss]
        /\ pc' = "option"
        /\ pos' = Reset(pos)
     \/ \E h \in pos.todo : \E fd \in FdOf(h) :
          /\ IF h.kind # "none" /\ ~InTable(fd) THEN pc' = "undefined" /\ pos' = [pos EXCEPT !.op = "fd"]
             ELSE /\ pos' = [pos EXCEPT !.todo = @ \ {h}, !.oss = IF h.kind = "none" THEN @ ELSE Append(@, Row(h, fd))]
                  /\ UNCHANGED pc
          /\ UNCHANGED out
  /\ UNCHANGED dump

\* An error or ^C (external): task_ptr stays.
Restart ==
  /\ dump.interrupts
  /\ pc \notin {"prompt", "undefined"}
  /\ pc' = "prompt"
  /\ pos' = [pos EXCEPT !.args = <<>>, !.op = "^C"]
  /\ UNCHANGED <<dump, out>>

Next == CmdMain \/ InitEnv \/ Option \/ DumpAlloc \/ PrintAlloc \/ DumpImported \/ Restart

Spec == Init /\ [][Next]_vars /\ WF_vars(Next)

-----------------------------------------------------------------------------

\* The first -a or -b of a command has a process to look at, whatever the commands
\* before it did or left undone; a second one in the same command never has.
TaskForFirstOption ==
  /\ pc = "undefined" /\ pos.op = "null" => pos.done > 0
  /\ pc \in {"alloc", "imported"} => pos.done = 0

\* Otherwise sfg goes wrong only at a descriptor outside the table of files or in a
\* library that is mapped without its text.
UndefinedOnlyAt ==
  /\ pc = "undefined" /\ pos.op = "fd" =>
       \E h \in dump.imported \cup {x.handle : x \in Range(dump.allocs)} :
         h.kind # "none" /\ \E fd \in FdOf(h) : ~InTable(fd)
  /\ pc = "undefined" /\ pos.op = "text" => dump.lib = "data"

\* A whole handle is shown with the dma-buf that is open under its own descriptor.
OwnBuffer(rows, handles) ==
  \A k \in DOMAIN rows : rows[k].kind = "whole" =>
    \E h \in handles : h.id = rows[k].id /\ rows[k].buf = dump.files[h.fd + 1]

\* In every command of a session the buffers of the allocator are listed in order and
\* those that were imported once each, with their own dma-bufs; the total is that of
\* the sizes of the buffers listed.
GraphicBuffersExact ==
  LET good == SelectSeq(Allocs, LAMBDA x : x.handle.kind # "none" /\ x.rec)
  IN  /\ out.op # "" =>
           /\ [k \in DOMAIN out.alloc |-> out.alloc[k].id] = [k \in DOMAIN good |-> good[k].handle.id]
           /\ out.total = SumFunction([k \in DOMAIN good |-> good[k].size % UintMod])
           /\ OwnBuffer(out.alloc, {x.handle : x \in Range(dump.allocs)})
      /\ out.imported # <<>> =>
           /\ Range([k \in DOMAIN out.imported |-> out.imported[k].id]) = {h.id : h \in {g \in dump.imported : g.kind # "none"}}
           /\ Len(out.imported) = Cardinality({g \in dump.imported : g.kind # "none"})
           /\ OwnBuffer(out.imported, dump.imported)

=============================================================================
