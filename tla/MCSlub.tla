------------------------------- MODULE MCSlub -------------------------------
(***************************************************************************)
(* memory/slub.cpp for TLC: the algorithms on the objects of a slab (the   *)
(* free list walk of parser_slab, the checks of slub -p, and the search    *)
(* memchr_inv they use), and the sessions.  A behaviour is one call of one *)
(* of the algorithms, or one session; no two of them have a place (pc) in  *)
(* common.                                                                 *)
(***************************************************************************)
EXTENDS SlubSession

MCCaches == <<"c1", "c2">>

ASSUME SlubConstants == SlabAssumption /\ PoisonAssumption /\ CachesAssumption

objects == <<dump, pos>>
search == <<args, start_addr, bytes, words, ret>>
caches == <<kernel, cache_list, total_size, maps, op, next, cmds>>

NoObjects == dump = <<>> /\ pos = <<>>
NoSearch == bad = {} /\ region = <<1, 0>> /\ start_addr = 1 /\ bytes = 0 /\ words = 0 /\ ret = 0
NoCaches ==
  /\ objs = [c \in Cache |-> [k \in Object |-> 0]]
  /\ store_user = {} /\ depot = FALSE /\ interrupts = FALSE
  /\ cache_list = <<>> /\ total_size = [c \in Cache |-> 0]
  /\ alloc_trace_map = NoTracks /\ free_trace_map = NoTracks
  /\ op = "a" /\ next = 1 /\ cmds = 0

MCInit ==
  \/ InitMemchr /\ NoObjects /\ NoCaches /\ out = <<>>
  \/ InitFreelist /\ NoSearch /\ NoCaches
  \/ InitPoison /\ NoSearch /\ NoCaches
  \/ InitSession /\ NoSearch /\ NoObjects

MCNext ==
  \/ NextMemchr /\ UNCHANGED <<objects, caches, out>>
  \/ NextFreelist /\ UNCHANGED <<search, caches>>
  \/ NextPoison /\ UNCHANGED <<search, caches>>
  \/ /\ pc \in {"idle", "parser_slab_caches", "totals", "option", "parser_slub_trace"}
     /\ NextSession
     /\ UNCHANGED <<search, objects>>

all == <<pc, out, objects, search, caches>>

MCSpec == MCInit /\ [][MCNext]_all /\ WF_all(MCNext)

=============================================================================
