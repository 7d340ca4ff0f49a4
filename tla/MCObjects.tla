----------------------------- MODULE MCObjects ------------------------------
(***************************************************************************)
(* The commands that follow a graph of objects, of the kernel or of a user *)
(* process, for TLC: wq, binder, coredump (the file of one command, and a  *)
(* session of them), the walks over C++ containers, the memory of a user   *)
(* process and the search for an object in it, getprop, sfg, and the       *)
(* readers and walks of the plugin framework that all of them use.         *)
(***************************************************************************)
EXTENDS Workqueue, TLC

VARIABLE which

\* Two pools with 2 and 1 workers; workqueues that share a pool, that use one
\* twice, and in both orders; three commands.
MCWorkersOf == [p1 |-> {"w1", "w2"}, p2 |-> {"w3"}]
MCWorkqueues == {<<<<"p1">>, <<"p1", "p2">>>>, <<<<"p1">>, <<"p1">>>>, <<<<"p2", "p1">>, <<"p1">>>>}

\* What the proofs about wq assume of its constants.
ASSUME WqConstants == WqAssumption

\* Three threads of three processes: a call, a nested call and a call back to the
\* first; a log of 3 entries wraps with the replies.
B == INSTANCE Binder WITH
  BThreads <- 1..3, ProcOf <- <<11, 12, 13>>, LogSize <- 3, MaxTransactions <- 3, MaxNodeWorks <- 1

K(pages, name, prot, phdr, present) ==
  [pages |-> pages, name |-> name, prot |-> prot, phdr |-> phdr, present |-> present]

\* Headers and text of an executable and of a library, anonymous memory readable
\* in the dump and not, memory that is filtered out; notes of sizes that need
\* padding and that do not.
\* Two processes, one path, three commands.
C == INSTANCE Coredump WITH
  PageSize <- 4096, MaxVmas <- 3, NoteSizes <- <<3, 8, 5>>,
  VmaKinds <- {K(1, "exe", {"r"}, TRUE, TRUE), K(2, "exe", {"r", "x"}, FALSE, TRUE),
               K(1, "lib", {"r"}, FALSE, TRUE), K(1, "lib", {"r", "x"}, FALSE, TRUE),
               K(2, "", {"r", "w"}, FALSE, TRUE), K(1, "", {"r", "w"}, FALSE, FALSE),
               K(1, "shadow", {"r"}, FALSE, TRUE), K(1, "", {}, FALSE, TRUE)},
  Tasks <- {"t1", "t2"}, Paths <- {"/sym"}, MaxCoreCmds <- 3

Vma(start, end, file, dentry, rx, where, name, ok) ==
  [start |-> start, end |-> end, file |-> file, dentry |-> dentry, rx |-> rx,
   anon |-> [where |-> where, name |-> name], ok |-> ok]
FileVma(start, file, rx, ok) == Vma(start, start + 1, file, TRUE, rx, "none", "", ok)

\* Containers of up to 3 elements.
\* Four or five vmas: a library of the name and one whose name contains it, the .bss
\* behind its file and behind another, anonymous memory named by the kernel or by the
\* process; auxiliary vectors with a key twice, and with entries behind their end.
\* Lists of up to three nodes placed in ten words in every order.
U == INSTANCE Utask WITH
  MaxNodes <- 3,
  VmaSets <- {<<Vma(1, 3, l, d, FALSE, "none", "", TRUE), FileVma(3, "logd", TRUE, ok),
                Vma(4, 5, "", TRUE, FALSE, w, "[anon:bss]", TRUE), Vma(6, 8, "", TRUE, FALSE, "none", "[heap]", ok)>> :
                l \in {"logd", "liblogd"}, d \in BOOLEAN, ok \in BOOLEAN, w \in {"kernel", "user"}}
             \cup {<<FileVma(1, "other", TRUE, TRUE), Vma(2, 3, "", TRUE, FALSE, "kernel", "[anon:bss]", TRUE),
                     FileVma(3, "logd", FALSE, TRUE), FileVma(4, "logd", TRUE, TRUE),
                     Vma(5, 6, "", TRUE, FALSE, "kernel", "[anon:bss]", TRUE)>>},
  Libs <- {"logd"},
  PartOf <- {<<"logd", "logd">>, <<"liblogd", "logd">>, <<"[anon:bss]", "bss">>, <<"_ZlogBuf", "logBuf">>, <<"_ZlogBuf2", "logBuf">>},
  ElfSymbols <- ("logd" :> <<[name |-> "_Zx", value |-> 1], [name |-> "_ZlogBuf", value |-> 3]>>),
  BssAddr <- 2, MaxAddr <- 8, MaxLen <- 2, MaxReads <- 2,
  Auxvs <- {<<<<3, 5>>, <<6, 7>>, <<3, 8>>, <<0, 0>>, <<9, 9>>>>, <<<<0, 0>>, <<3, 1>>>>},
  MaxWord <- 10, Places <- {<<1>>, <<2, 7>>, <<4, 1>>, <<1, 4, 8>>, <<4, 8, 1>>, <<8, 4, 1>>}, Sizes <- {0, 2},
  VtbCnt <- 3, DataWords <- 4, Tables <- [1..4 -> BOOLEAN], HasText <- BOOLEAN

PropBt(prop, left, right, children) == [prop |-> prop, left |-> left, right |-> right, children |-> children]
PropInfo(name, value) == [name |-> name, value |-> value]
Area(left, last, value) ==
  [len |-> 12, read |-> TRUE, magic |-> TRUE,
   bt |-> (0 :> PropBt(0, 0, 0, 1)) @@ (1 :> PropBt(6, left, 3, 4)) @@ (2 :> PropBt(8, 0, 0, 0))
          @@ (3 :> PropBt(last, 0, 0, 0)) @@ (4 :> PropBt(0, 0, 0, 0)),
   info |-> (6 :> PropInfo("a.x", value)) @@ (8 :> PropInfo("a.y", "1")) @@ (last :> PropInfo("a.z", "2"))]
SmallArea(read, magic) ==
  [len |-> 12, read |-> read, magic |-> magic,
   bt |-> (0 :> PropBt(0, 0, 0, 1)) @@ (1 :> PropBt(5, 0, 0, 0)), info |-> (5 :> PropInfo("b.x", "3"))]

\* An area of five nodes, with offsets that leave it, and a second one that may be
\* damaged; the areas are also found through the contexts of the process.
R == INSTANCE Properties WITH
  AreaSets <- {<<Area(l, n, v), SmallArea(r, m)>> : l \in {2, 20}, n \in {10, 11, 20}, v \in {" 5", ""}, r \in BOOLEAN, m \in BOOLEAN},
  FileVmas <- {<<1, 1, 2>>}, Contexts <- {<<2, 0, 1>>, <<2>>}, Cleaned <- (" 5" :> "5") @@ (" " :> ""),
  PaDataSize <- 12, MaxPropCmds <- 3

Task(addr, mm, known, comm) == [addr |-> addr, mm |-> mm, known |-> known, comm |-> comm]
Page(kv, base, buddy, mapcount, count, mapping, anon) ==
  [kv |-> kv, type |-> [base |-> base, buddy |-> buddy], mapcount |-> mapcount, count |-> count,
   mapping |-> [addr |-> mapping, anon |-> anon]]

\* A memory of three pages of four bytes, with one missing.
\* Five tasks, kernel threads and unknown ones among them; every chain of three vmas;
\* pages of two files and of none.
F == INSTANCE Framework WITH
  Memories <- {[bytes |-> b \o <<2, 3, x, 3>> \o <<2, 2, z, 0>>, pages |-> p] :
                 b \in [1..4 -> {0, 2}], x \in {0, 3}, z \in {0, 2}, p \in {{0, 1, 2}, {0, 2}, {0, 1}}},
  PageSize <- 4, ByteMod <- 4, Ulong <- 8, MaxString <- 6, Lens <- {1, 2, 4},
  Fields <- {[offset |-> o, size |-> s] : o \in 0..3, s \in {1, 2, 3, 4, 8, 10}} \cup {[offset |-> -1, size |-> -1]},
  EnumTexts <- {<<[key |-> "a", val |-> x], [key |-> "b", val |-> -1], [key |-> c, val |-> y], [key |-> "d", val |-> -1]>> :
                  x \in {-1, 3}, y \in {-1, 1, 2, 7}, c \in {"b", "c"}},
  Dumps <- {[addr |-> a, bytes |-> [i \in 1..n |-> i], little |-> l] : a \in {0, 5}, n \in 0..35, l \in BOOLEAN},
  NodeTables <- {<<[start |-> 0, size |-> a], [start |-> a, size |-> b]>> : a \in 1..3, b \in 0..3},
  InitTask <- 1, MaxWalk <- 5, Comms <- {"x", "z"},
  TaskLists <- {[whole |-> w, tasks |-> <<Task(2, m, TRUE, "y"), Task(3, 7, k, "x"), Task(1, 0, TRUE, "s"), Task(4, 7, TRUE, "x"), Task(4, 7, TRUE, "x")>>] :
                  w \in BOOLEAN, m \in {0, 7}, k \in BOOLEAN}
               \cup {[whole |-> TRUE, tasks |-> <<>>]},
  VmaChains <- {[first |-> f, next |-> n] : f \in 0..3, n \in [1..3 -> 0..3]}, MapleTrees <- {<<>>, <<2, 0, 3>>},
  FdTables <- {[files |-> a, fdt |-> b, fds |-> c, fd |-> <<5, 0, 6>>] : a \in {0, 1}, b \in {0, 1}, c \in {0, 1}},
  PageTables <- {<<Page(TRUE, b, y, 0, 1, 1, FALSE), Page(TRUE, FALSE, FALSE, m, 2, a, n),
                   Page(TRUE, FALSE, FALSE, 0, 0, 2, FALSE), Page(FALSE, FALSE, TRUE, 0, 1, 1, FALSE)>> :
                   b \in BOOLEAN, y \in BOOLEAN, m \in {0, -128}, a \in {0, 1, 3}, n \in BOOLEAN},
  Mappings <- <<[host |-> 8, ops |-> 1], [host |-> 9, ops |-> 1], [host |-> 9, ops |-> 0]>>,
  InodeMapping <- (8 :> 1) @@ (9 :> 3)

Handle(id, kind, fd) == [id |-> id, kind |-> kind, fd |-> fd]
Alloc(handle, size, rec) == [handle |-> handle, size |-> size, rec |-> rec]

\* Three buffers of the allocator, any of them damaged, and three imported ones; a table
\* of three files that may miss the last; two commands, the interrupted ones included.
G == INSTANCE SurfaceFlinger WITH
  AllocLists <- {<<Alloc(Handle(1, k, 2), 9, TRUE), Alloc(Handle(2, "whole", 1), 3, r), Alloc(Handle(3, "whole", 2), 4, TRUE)>> :
                   <<k, r>> \in {<<"whole", TRUE>>, <<"whole", FALSE>>, <<"short", TRUE>>, <<"unmapped", TRUE>>, <<"none", TRUE>>}},
  HandleMaps <- {{Handle(1, "whole", 2), Handle(2, k, 1), Handle(4, "none", 0)} : k \in {"whole", "short"}},
  FileTables <- {<<7, 8, 9>>, <<7, 0, 9>>, <<7, 8>>}, Fds <- 0..3, UintMod <- 8,
  Distance <- 2, Top <- 8, WordMod <- 16, MaxSfCmds <- 2

\* What the proofs about sfg assume of its constants.
ASSUME SfConstants == G!SfAssumption

MCInit ==
  \/ which = "wq" /\ InitWq
  \/ which = "binder" /\ B!Init
  \/ which = "core file" /\ C!InitFile
  \/ which = "core session" /\ C!InitSession
  \/ which = "std" /\ U!InitStd
  \/ which = "task" /\ U!InitTask
  \/ which = "search" /\ U!InitSearch
  \/ which = "getprop" /\ R!Init
  \/ which = "read" /\ F!InitReaders
  \/ which = "walk" /\ F!InitWalkers
  \/ which = "sfg" /\ G!Init

MCNext ==
  /\ \/ which = "wq" /\ NextWq
     \/ which = "binder" /\ B!Next
     \/ which = "core file" /\ C!NextFile
     \/ which = "core session" /\ C!NextSession
     \/ which = "std" /\ U!NextStd
     \/ which = "task" /\ U!NextTask
     \/ which = "search" /\ U!NextSearch
     \/ which = "getprop" /\ R!Next
     \/ which = "read" /\ F!NextReaders
     \/ which = "walk" /\ F!NextWalkers
     \/ which = "sfg" /\ G!Next
  /\ UNCHANGED which

all == <<which, dump, pc, pos, out>>

MCSpec == MCInit /\ [][MCNext]_all /\ WF_all(MCNext)

-----------------------------------------------------------------------------

\* binder prints what each thread is in the middle of and never a pending
\* transaction, and binder -l prints the transactions of the log.
BinderExact == which = "binder" => B!StacksExact /\ B!PendingHidden /\ B!LogExact

\* The core file of coredump can be read back: its segments, its notes and, with
\* coredump -f, its link map; over a session the 32 bit parser is used from the first
\* 32 bit process on, and files are looked up only where a path was given.
CoreExact ==
  /\ which = "core file" => C!CoreExact /\ C!NotesExact /\ C!LinkmapExact
  /\ which = "core session" => C!CompatFromFirst /\ C!SymbolsGiven

\* The containers of a user process are returned whole, and a damaged one gives no more
\* elements than its size.  The vmas, the auxiliary vector and the variables of a process
\* are its own, its .bss is taken from behind its own file, and a search finds only rings
\* of the size asked for, and every one whose list is intact.  sfg has a process to look
\* at for the first option of every command, goes wrong only at a second one, a descriptor
\* outside the table or a library without text, and shows each buffer with its own dma-buf.
ProcessExact ==
  /\ which = "std" => U!ContainersExact /\ U!DamageContained
  /\ which = "task" => U!VmasListed /\ U!AuxvExact /\ U!BssBehindItsFile /\ U!DataExact /\ U!VarInItsLib
  /\ which = "search" => U!FoundIsRing /\ U!WholeListFound /\ U!FoundObject
  /\ which = "sfg" => G!TaskForFirstOption /\ G!UndefinedOnlyAt /\ G!GraphicBuffersExact

\* getprop shows a property with its own value, every property of an area that is
\* intact, and over a session never something else than before.
PropertiesExact == which = "getprop" => R!PropValuesRight /\ R!IntactAreasComplete /\ R!ShownStays

\* The readers of the framework return what is in the dump and read nothing outside
\* what they were asked for; its walks visit each object once and leave out only what
\* they are meant to.
FrameworkExact ==
  /\ which = "read" => F!LongStringExact /\ F!ReadsInside /\ F!ArgsExact /\ F!EnumsExact /\ F!HexdumpExact /\ F!NodeRight
  /\ which = "walk" => F!ProcessesExact /\ F!MemoryWalksExact /\ F!PageWalksExact

\* The walks over containers and the walks and readers of the framework end, but for a
\* chain of vmas that leads back to itself.  for_each_stdmap does not bound its descent,
\* so InitStd has no map whose child pointers form a cycle.
WalksEnd ==
  <>[](CASE which = "std" -> pc = "done"
         [] which \in {"read", "search"} -> pc \in {"done", "undefined"}
         [] which \in {"getprop", "sfg"} -> pc \in {"prompt", "undefined"}
         [] which = "walk" -> pc \in {"done", "fatal"} \/ F!Endless
         [] OTHER -> TRUE)

=============================================================================
