------------------------------ MODULE SwapRead ------------------------------
(***************************************************************************)
(* Reading user memory of a task from the dump (memory/swapinfo.cpp):      *)
(* uread_memory copies a range page by page, and do_swap_page finds each   *)
(* page in memory, in the swap cache or in zram.  The list of swap areas   *)
(* is parsed on the first read and kept for the session.                   *)
(*                                                                         *)
(* A byte of memory is named by its page and its offset in the page, and a *)
(* user address by the same pair: uvaddr & page_mask is its page, uvaddr & *)
(* ~page_mask its offset.                                                  *)
(***************************************************************************)
EXTENDS Integers, Sequences

CONSTANTS
  PageSize,        \* page_size
  WordSize,        \* sizeof(unsigned long)
  NPages,          \* the user pages 0..NPages-1; beyond them nothing is mapped
  NSwap,           \* nr_swapfiles
  Sources,         \* where the pages of the dumps of this instance are
  MaxLen           \* bound on the length of a read

ASSUME SizeAssumption ==
  /\ PageSize \in Nat \ {0}
  /\ WordSize \in Nat \ {0}
  /\ NPages \in Nat
  /\ NSwap \in Nat
  /\ MaxLen \in Nat
  /\ Sources \subseteq {"none", "memory", "lost", "swapcache", "object", "zero", "same", "broken"}

VARIABLES
  src,        \* the dump: where the page of each pte is
  area,       \* the dump: the swap area of each pte
  badarea,    \* the dump: the swap_info_structs that cannot be read
  interrupts, \* does the user of this session interrupt commands?
  swap_list,  \* Swapinfo::swap_list
  pc,         \* where the running read is
  req,        \* the range asked for: first page, offset in it and length
  page, off,  \* uvaddr
  remain,     \* the bytes still to read
  next,       \* the next index of parser_swap_info
  result      \* the bytes returned, by position

dump == <<src, area, badarea, interrupts>>
loop == <<page, off, remain>>
vars == <<dump, swap_list, pc, req, loop, next, result>>

Offset == 0..(PageSize - 1)
Min(a, b) == IF a < b THEN a ELSE b

\* A byte is <<page, offset>>; a byte nothing was copied to is zero.
Zero == <<>>
NoBuf == <<>>

SourceOf(p) == IF p < NPages THEN src[p] ELSE "none"

\* The byte the program had at offset o of page p.  A page of one repeated
\* word is kept in zram as that word.
MemoryByte(p, o) ==
  CASE SourceOf(p) = "zero" -> Zero
    [] SourceOf(p) = "same" -> <<p, o % WordSize>>
    [] OTHER -> <<p, o>>

Whole(p) == [o \in Offset |-> MemoryByte(p, o)]

\* Zraminfo::read_zram_page of an entry that decompresses, of one whose
\* handle, zspage or object is not valid, and of a ZRAM_SAME entry, where
\* memset writes the low byte of the word page_size / sizeof(long) times.
ReadZramPage(p) ==
  CASE src[p] \in {"object", "zero"} -> Whole(p)
    [] src[p] = "same" ->
         [o \in Offset |-> IF o < PageSize \div WordSize THEN MemoryByte(p, 0) ELSE Zero]
    [] OTHER -> NoBuf

\* get_swap_info: the area must be in swap_list.
GetSwapInfo(p) == \E i \in 1..Len(swap_list) : swap_list[i] = area[p]

\* do_swap_page once swap_list is there.
DoSwapPage(p) ==
  CASE SourceOf(p) \in {"memory", "swapcache"} -> Whole(p)
    [] SourceOf(p) \in {"none", "lost"} -> NoBuf
    [] OTHER -> IF GetSwapInfo(p) THEN ReadZramPage(p) ELSE NoBuf

Init ==
  /\ src \in [0..(NPages - 1) -> Sources]
  /\ area \in [0..(NPages - 1) -> 1..NSwap]
  /\ badarea \in SUBSET (1..NSwap)
  /\ interrupts \in BOOLEAN
  /\ swap_list = <<>>
  /\ pc = "idle"
  /\ req = <<0, 0, 0>>
  /\ page = 0 /\ off = 0 /\ remain = 0
  /\ next = 1
  /\ result = [i \in {} |-> Zero]

\* uread_memory(task_addr, uvaddr, len)
UreadMemory(p, o, len) ==
  /\ pc \in {"idle", "done"}
  /\ pc' = "loop"
  /\ req' = <<p, o, len>>
  /\ page' = p /\ off' = o /\ remain' = len
  /\ result' = [i \in 0..(len - 1) |-> Zero]
  /\ UNCHANGED <<dump, swap_list, next>>

\* Mutant: the areas are parsed for every page.
NextPageReparses ==
  /\ pc = "loop"
  /\ pc' = IF remain = 0 THEN "done"
           ELSE IF Len(swap_list) < 2 * NSwap THEN "parser_swap_info"
           ELSE "copy"
  /\ next' = 1
  /\ UNCHANGED <<dump, swap_list, req, loop, result>>

\* The head of the loop of uread_memory and of do_swap_page.
NextPage ==
  /\ pc = "loop"
  /\ pc' = IF remain = 0 THEN "done"
           ELSE IF swap_list = <<>> /\ NSwap > 0 THEN "parser_swap_info"
           ELSE "copy"
  /\ next' = 1
  /\ UNCHANGED <<dump, swap_list, req, loop, result>>

\* One turn of the loop of parser_swap_info.
ParserSwapInfo ==
  /\ pc = "parser_swap_info"
  /\ IF next > NSwap
     THEN pc' = "copy" /\ UNCHANGED <<swap_list, next>>
     ELSE /\ swap_list' = IF next \in badarea THEN swap_list ELSE Append(swap_list, next)
          /\ next' = next + 1
          /\ UNCHANGED pc
  /\ UNCHANGED <<dump, req, loop, result>>

\* Mutant: the copy of a later page does not restart at its first byte.
CopyPageKeepsOffset ==
  LET buf_page == DoSwapPage(page)
      read_len == Min(remain, PageSize - off)
      done == req[3] - remain
  IN
  /\ pc = "copy"
  /\ result' = IF buf_page = NoBuf THEN result
               ELSE [i \in DOMAIN result |->
                       IF done <= i /\ i < done + read_len
                       THEN buf_page[(req[2] + (i - done)) % PageSize] ELSE result[i]]
  /\ remain' = remain - read_len
  /\ IF off + read_len = PageSize
     THEN page' = page + 1 /\ off' = 0
     ELSE off' = off + read_len /\ UNCHANGED page
  /\ pc' = "loop"
  /\ UNCHANGED <<dump, swap_list, req, next>>

\* Mutant: an unreadable page does not advance the loop.
CopyPageRetries ==
  LET buf_page == DoSwapPage(page)
      read_len == IF buf_page = NoBuf THEN 0 ELSE Min(remain, PageSize - off)
      done == req[3] - remain
  IN
  /\ pc = "copy"
  /\ result' = [i \in DOMAIN result |->
                  IF done <= i /\ i < done + read_len
                  THEN buf_page[off + (i - done)] ELSE result[i]]
  /\ remain' = remain - read_len
  /\ IF off + read_len = PageSize
     THEN page' = page + 1 /\ off' = 0
     ELSE off' = off + read_len /\ UNCHANGED page
  /\ pc' = "loop"
  /\ UNCHANGED <<dump, swap_list, req, next>>

\* The rest of the loop body of uread_memory: a page that cannot be found
\* leaves its part of the result zero.
CopyPage ==
  LET buf_page == DoSwapPage(page)
      read_len == Min(remain, PageSize - off)
      done == req[3] - remain
  IN
  /\ pc = "copy"
  /\ result' = IF buf_page = NoBuf THEN result
               ELSE [i \in DOMAIN result |->
                       IF done <= i /\ i < done + read_len
                       THEN buf_page[off + (i - done)] ELSE result[i]]
  /\ remain' = remain - read_len
  /\ IF off + read_len = PageSize
     THEN page' = page + 1 /\ off' = 0
     ELSE off' = off + read_len /\ UNCHANGED page
  /\ pc' = "loop"
  /\ UNCHANGED <<dump, swap_list, req, next>>

\* ^C: the read and its variables are abandoned, swap_list stays as it is.
Interrupt ==
  /\ interrupts
  /\ pc \notin {"idle", "done"}
  /\ pc' = "idle"
  /\ req' = <<0, 0, 0>>
  /\ page' = 0 /\ off' = 0 /\ remain' = 0
  /\ next' = 1
  /\ result' = [i \in {} |-> Zero]
  /\ UNCHANGED <<dump, swap_list>>

Step == NextPage \/ ParserSwapInfo \/ CopyPage

Next ==
  \/ \E p \in 0..NPages, o \in Offset, len \in 0..MaxLen : UreadMemory(p, o, len)
  \/ Step
  \/ Interrupt

Spec == Init /\ [][Next]_vars /\ WF_vars(Step)

-----------------------------------------------------------------------------

TypeOK ==
  /\ src \in [0..(NPages - 1) -> Sources]
  /\ area \in [0..(NPages - 1) -> 1..NSwap]
  /\ badarea \subseteq 1..NSwap
  /\ interrupts \in BOOLEAN
  /\ swap_list \in Seq(1..NSwap)
  /\ pc \in {"idle", "loop", "parser_swap_info", "copy", "done"}
  /\ req \in Nat \X Offset \X Nat
  /\ page \in Nat /\ off \in Offset /\ remain \in Nat
  /\ next \in 1..(NSwap + 1)

\* The page and the offset of position i of the range asked for.
PageAt(i) == req[1] + ((req[2] + i) \div PageSize)
OffsetAt(i) == (req[2] + i) % PageSize

\* The dump has the data of page p.
Readable(p) ==
  \/ SourceOf(p) \in {"memory", "swapcache"}
  \/ SourceOf(p) \in {"object", "zero", "same"} /\ area[p] \notin badarea

\* In a session without interrupts a read returns, at every position of a range that
\* starts and ends anywhere and crosses pages from different sources, the byte
\* the program had there, and zero where the dump does not have the page.
ReadExact ==
  ~interrupts /\ pc = "done" =>
    \A i \in DOMAIN result :
      result[i] = IF Readable(PageAt(i)) THEN MemoryByte(PageAt(i), OffsetAt(i)) ELSE Zero

\* Even when earlier commands were interrupted while they parsed the swap
\* areas, a finished read holds no byte of another address, and it has either
\* all of what it asked of a page or nothing.
NeverWrongByte ==
  pc = "done" =>
    \A i \in DOMAIN result :
      /\ result[i] \in {Zero, MemoryByte(PageAt(i), OffsetAt(i))}
      /\ \A j \in DOMAIN result :
           PageAt(i) = PageAt(j) /\ SourceOf(PageAt(i)) # "zero" =>
             (result[i] = Zero <=> result[j] = Zero)

\* A swap area is in swap_list at most once, and the areas are in the order of
\* swap_info, however often parsing was interrupted or found nothing.
SwapListOrdered ==
  \A i, j \in 1..Len(swap_list) : i < j => swap_list[i] < swap_list[j]

\* Interrupted commands leave later reads without a wrong byte and the list of
\* swap areas in order.
InterruptsHarmless == NeverWrongByte /\ SwapListOrdered

\* The pages do_swap_page finds with the areas of swap_list.
Found == {p \in 0..(NPages - 1) :
            \/ src[p] \in {"memory", "swapcache"}
            \/ src[p] \in {"object", "zero", "same"} /\ GetSwapInfo(p)}

\* swap_list will not change any more: it is filled, in part if the parse was
\* interrupted, or there is no area to put in it.
Decided == 1..NSwap \subseteq badarea \/ (swap_list # <<>> /\ pc # "parser_swap_info")

PlaceOf(p) ==
  CASE src[p] \in {"memory", "swapcache"} -> "memory"
    [] src[p] \in {"object", "zero", "same"} /\ area[p] \notin badarea -> "zram"
    [] OTHER -> "nowhere"

Service == INSTANCE MemoryService WITH
  Byte <- {Zero} \cup (Nat \X Nat),
  memory <- [p \in 0..(NPages - 1) |-> [at |-> PlaceOf(p), bytes |-> Whole(p)]],
  known <- IF Decided THEN {Found} ELSE {},
  status <- CASE pc = "idle" -> "idle" [] pc = "done" -> "answered" [] OTHER -> "busy",
  answer <- IF pc = "done" THEN result ELSE [i \in {} |-> Zero]

\* uread_memory keeps its promise to the commands: a read, although it goes page by
\* page, parses the swap areas on its way and may be interrupted anywhere, looks like
\* one step that returns the bytes the task had, with the same pages missing in every
\* read of a session; and every read ends.
KeepsPromise == Service!Spec

\* The help of swapinfo -p: it displays the data of the page at the address.
PageDataShown ==
  ~interrupts /\ pc = "done" =>
    \A i \in DOMAIN result :
      Readable(PageAt(i)) => result[i] = MemoryByte(PageAt(i), OffsetAt(i))

=============================================================================
