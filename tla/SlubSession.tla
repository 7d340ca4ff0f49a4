----------------------------- MODULE SlubSession -----------------------------
(***************************************************************************)
(* The slub command (memory/slub.cpp) over a session: the list of caches   *)
(* is parsed by the first command and kept, the maps from call stacks to   *)
(* tracks are filled by the first command that shows traces.  An error     *)
(* that is fatal to the command, or ^C, returns to the prompt from         *)
(* anywhere in between and leaves what was filled so far.                  *)
(*                                                                         *)
(* The dump gives each cache its number of objects of each kind            *)
(* <<status, stack>>, with the stack of the last allocation or free, None  *)
(* when none is recorded.                                                  *)
(***************************************************************************)
EXTENDS SlubObjects, Functions

CONSTANTS
  slab_caches,     \* the kernel's list of caches, a sequence without repetitions
  Stack,           \* call stacks
  None,            \* no call stack
  MaxObjs,         \* bound on the objects of a cache
  MaxCmds          \* bound on the commands of a session

Cache == Range(slab_caches)

CachesAssumption == slab_caches \in Seq(Cache) /\ IsInjective(slab_caches)

VARIABLES
  objs, store_user, depot,         \* the dump
  interrupts,                      \* does the user of this session interrupt commands?
  cache_list, total_size,          \* what Slub keeps: the caches and their sizes
  alloc_trace_map, free_trace_map, \* tracks per call stack
  op, next,                        \* the running command
  cmds

kernel == <<objs, store_user, depot, interrupts>>
maps == <<alloc_trace_map, free_trace_map>>
session == <<kernel, cache_list, total_size, maps, pc, op, next, cmds, out>>

Object == {"alloc", "free"} \X (Stack \cup {None})
NumObjects(c) == SumFunction(objs[c])
Option == {"s", "a", "tA", "tF", "l"}
NoOut == <<>>
Empty(map) == \A t \in Stack : map[t] = 0
NoTracks == [t \in Stack |-> 0]

InitSession ==
  /\ objs \in [Cache -> {n \in [Object -> 0..MaxObjs] : SumFunction(n) <= MaxObjs}]
  /\ store_user \in SUBSET Cache
  /\ depot \in BOOLEAN
  /\ interrupts \in BOOLEAN
  /\ cache_list = <<>>
  /\ total_size = [c \in Cache |-> 0]
  /\ alloc_trace_map = NoTracks
  /\ free_trace_map = NoTracks
  /\ pc = "idle"
  /\ op = "a"
  /\ next = 1
  /\ cmds = 0
  /\ out = NoOut

\* A mutant: every command parses the caches.
CmdMainReparses(o) ==
  /\ pc = "idle"
  /\ cmds < MaxCmds
  /\ cmds' = cmds + 1
  /\ op' = o
  /\ next' = 1
  /\ out' = NoOut
  /\ pc' = "parser_slab_caches"
  /\ UNCHANGED <<kernel, cache_list, total_size, maps>>

\* cmd_main with one option.  parser_slab_caches gives up when the stack depot
\* is not found.
CmdMain(o) ==
  /\ pc = "idle"
  /\ cmds < MaxCmds
  /\ cmds' = cmds + 1
  /\ op' = o
  /\ next' = 1
  /\ out' = NoOut
  /\ pc' = IF cache_list = <<>> /\ depot THEN "parser_slab_caches" ELSE "option"
  /\ UNCHANGED <<kernel, cache_list, total_size, maps>>

\* One turn of the first loop of parser_slab_caches.
ParserCache ==
  /\ pc = "parser_slab_caches"
  /\ IF next <= Len(slab_caches)
     THEN /\ cache_list' = Append(cache_list, slab_caches[next])
          /\ next' = next + 1
          /\ UNCHANGED pc
     ELSE /\ next' = 1
          /\ pc' = "totals"
          /\ UNCHANGED cache_list
  /\ UNCHANGED <<kernel, total_size, maps, op, cmds, out>>

\* A mutant: the last cache is not added up.
CountTotalsShort ==
  /\ pc = "totals"
  /\ IF next < Len(cache_list)
     THEN /\ total_size' = [total_size EXCEPT ![cache_list[next]] = NumObjects(cache_list[next])]
          /\ next' = next + 1
          /\ UNCHANGED pc
     ELSE /\ next' = 1
          /\ pc' = "option"
          /\ UNCHANGED total_size
  /\ UNCHANGED <<kernel, cache_list, maps, op, cmds, out>>

\* One turn of the second loop: the size of one cache, in objects.
CountTotals ==
  /\ pc = "totals"
  /\ IF next <= Len(cache_list)
     THEN /\ total_size' = [total_size EXCEPT ![cache_list[next]] = NumObjects(cache_list[next])]
          /\ next' = next + 1
          /\ UNCHANGED pc
     ELSE /\ next' = 1
          /\ pc' = "option"
          /\ UNCHANGED total_size
  /\ UNCHANGED <<kernel, cache_list, maps, op, cmds, out>>

Listing(list) == [i \in DOMAIN list |-> <<list[i], total_size[list[i]]>>]

\* -a, -c, -p, -P: the caches in the order of the list.
PrintSlabCaches ==
  /\ pc = "option" /\ op = "a"
  /\ out' = <<Listing(cache_list)>>
  /\ pc' = "idle"
  /\ UNCHANGED <<kernel, cache_list, total_size, maps, op, next, cmds>>

\* Is the list in an order std::sort by decreasing size may leave it in?
BySize(list) == \A i, j \in DOMAIN list : i < j => total_size[list[i]] >= total_size[list[j]]

\* -s sorts the list itself; caches of the same size may change places.
PrintSummary ==
  /\ pc = "option" /\ op = "s"
  /\ \E p \in Bijection(DOMAIN cache_list, DOMAIN cache_list) :
       cache_list' = [i \in DOMAIN cache_list |-> cache_list[p[i]]]
  /\ BySize(cache_list')
  /\ out' = <<Listing(cache_list')>>
  /\ pc' = "idle"
  /\ UNCHANGED <<kernel, total_size, maps, op, next, cmds>>

\* The maps a trace command prints.
Printed(o) ==
  CASE o = "tA" -> <<alloc_trace_map>>
    [] o = "tF" -> <<free_trace_map>>
    [] o = "l"  -> <<alloc_trace_map, free_trace_map>>

TraceOption == pc = "option" /\ op \in {"tA", "tF", "l"}

\* A mutant: the tracks are parsed by every command that shows them.
PrintTracesReparses ==
  /\ TraceOption
  /\ pc' = "parser_slub_trace"
  /\ UNCHANGED <<kernel, cache_list, total_size, maps, op, next, cmds, out>>

\* -t A, -t F, -l: parser_slub_trace returns at once when both maps have tracks.
PrintTraces ==
  /\ TraceOption
  /\ IF ~Empty(alloc_trace_map) /\ ~Empty(free_trace_map)
     THEN out' = <<Printed(op)>> /\ pc' = "idle"
     ELSE pc' = "parser_slub_trace" /\ UNCHANGED out
  /\ UNCHANGED <<kernel, cache_list, total_size, maps, op, next, cmds>>

\* How many objects of status s a cache has for each call stack.
Tracks(c, s) ==
  [t \in Stack |-> IF c \in store_user THEN objs[c][<<s, t>>] ELSE 0]
Plus(f, g) == [t \in Stack |-> f[t] + g[t]]

\* One turn of the loop of parser_slub_trace: the tracks of all objects of a cache.
ParserSlubTrace ==
  /\ pc = "parser_slub_trace"
  /\ IF next <= Len(cache_list)
     THEN /\ alloc_trace_map' = Plus(alloc_trace_map, Tracks(cache_list[next], "alloc"))
          /\ free_trace_map' = Plus(free_trace_map, Tracks(cache_list[next], "free"))
          /\ next' = next + 1
          /\ UNCHANGED <<pc, out>>
     ELSE /\ out' = <<Printed(op)>>
          /\ pc' = "idle"
          /\ UNCHANGED <<maps, next>>
  /\ UNCHANGED <<kernel, cache_list, total_size, op, cmds>>

\* ^C or a fatal error: back to the prompt.
Interrupt ==
  /\ interrupts
  /\ pc # "idle"
  /\ pc' = "idle"
  /\ out' = NoOut
  /\ UNCHANGED <<kernel, cache_list, total_size, maps, op, next, cmds>>

NextSession ==
  \/ \E o \in Option : CmdMain(o)
  \/ ParserCache \/ CountTotals
  \/ PrintSlabCaches \/ PrintSummary \/ PrintTraces \/ ParserSlubTrace
  \/ Interrupt

SpecSession == InitSession /\ [][NextSession]_session

-----------------------------------------------------------------------------

\* The tracks the dump has for each call stack.
AllTracks(s) == [t \in Stack |-> SumFunctionOnSet([c \in Cache |-> objs[c][<<s, t>>]], store_user)]

Idle(options) == ~interrupts /\ pc = "idle" /\ out # NoOut /\ op \in options

\* Whatever is interrupted, no cache is kept twice and no size is other than right
\* or not yet counted: a second parse never adds to the first.
CachesSound ==
  /\ IsInjective(cache_list)
  /\ \A c \in Cache : total_size[c] # 0 => total_size[c] = NumObjects(c)

\* Without interrupts slub -a and slub -s show every cache once with its size, in
\* whatever order earlier commands have left the list.
ListingComplete ==
  Idle({"a", "s"}) /\ depot =>
    Range(out[1]) = {<<c, NumObjects(c)>> : c \in Cache} /\ Len(out[1]) = Len(slab_caches)

\* slub -s shows the largest cache first.
SummarySorted ==
  Idle({"s"}) => \A i, j \in DOMAIN out[1] : i < j => out[1][i][2] >= out[1][j][2]

\* What is kept of the caches is right whatever is interrupted, and without
\* interrupts the listings are complete and the one by size is sorted.
CachesExact == CachesSound /\ ListingComplete /\ SummarySorted

\* What the trace commands print for a dump with the tracks of both kinds.
RealTracks(o) ==
  CASE o = "tA" -> <<AllTracks("alloc")>>
    [] o = "tF" -> <<AllTracks("free")>>
    [] o = "l"  -> <<AllTracks("alloc"), AllTracks("free")>>

\* Without interrupts, and with allocated and freed objects that have a call
\* stack, every trace command of the session shows each call stack with its number
\* of objects.
TracesExact ==
  Idle({"tA", "tF", "l"}) /\ depot
    /\ ~Empty(AllTracks("alloc")) /\ ~Empty(AllTracks("free")) =>
    out[1] = RealTracks(op)

\* slub -l and slub -t print "Allocated:<n> times" for each call stack: n is the
\* number of objects last allocated there, whatever was asked before.
TimesRight ==
  Idle({"tA", "tF", "l"}) /\ depot => out[1] = RealTracks(op)

=============================================================================
