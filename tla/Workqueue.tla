----------------------------- MODULE Workqueue ------------------------------
(***************************************************************************)
(* wq (workqueue/workqueue.cpp): the graph of workqueues, pool_workqueues, *)
(* worker pools and workers is parsed by the first command and kept.       *)
(* Pools and workers are reached along several paths and are shared        *)
(* through maps from their address.  A list that crash rejects, or ^C,     *)
(* abandons the command and leaves the maps as they are.                   *)
(***************************************************************************)
EXTENDS Integers, Sequences, FiniteSets, Functions

CONSTANTS
  WorkersOf,    \* pool -> its workers, disjoint sets
  Workqueues,   \* the lists of workqueues to consider: sequences of workqueues,
                \* each the sequence of the pools of its pool_workqueues
  MaxWqCmds     \* bound on the commands of a session

VARIABLES dump, pc, pos, out
wq == <<dump, pc, pos, out>>

Pools == DOMAIN WorkersOf
Workers == UNION {WorkersOf[p] : p \in Pools}

\* A worker is attached to one pool, and a pool_workqueue leads to a pool.
WqAssumption ==
  /\ \A p \in Pools : IsFiniteSet(WorkersOf[p])
  /\ \A p, q \in Pools : p # q => WorkersOf[p] \cap WorkersOf[q] = {}
  /\ Workqueues \subseteq Seq(Seq(Pools))

\* A pool_workqueue is known by its workqueue and its place in the list.
Pwqs(wqs) == UNION {{w} \X DOMAIN wqs[w] : w \in DOMAIN wqs}

\* The idle workers, and the pool_workqueues with an inactive (delayed) work.
Dumps ==
  UNION {[wqs : {wqs}, idle : SUBSET Workers, delayed : SUBSET Pwqs(wqs), interrupts : BOOLEAN] :
           wqs \in Workqueues}

\* Where wq is: at the prompt, in one of the loops of the parser, before an option.
Places == {"wq", "pwq", "idle", "delayed", "show"}

NoOut == [op |-> "none"]

\* The caches: workqueue_list (its length), worker_list_map, worker_pool_map with
\* the pool_workqueue kept in pwq_list and its delayed works, idle_worker_list.
InitWq ==
  /\ dump \in Dumps
  /\ pc = "wq"
  /\ pos = [list |-> 0, workers |-> {}, pools |-> <<>>, idle |-> <<>>, wq |-> 1, pwq |-> 1, cmds |-> 0]
  /\ out = NoOut

-----------------------------------------------------------------------------

Wq == dump.wqs[pos.wq]
PoolOf == Wq[pos.pwq]
Delayed(p) == {p} \cap dump.delayed

\* cmd_main: the list of workqueues is parsed if it is empty.
Start ==
  /\ pc = "wq"
  /\ pos.cmds < MaxWqCmds
  /\ pos' = [pos EXCEPT !.cmds = @ + 1, !.wq = 1, !.pwq = 1]
  /\ pc' = IF pos.list = 0 THEN "pwq" ELSE "show"
  /\ out' = NoOut
  /\ UNCHANGED dump

\* Mutant: a pool is parsed again for every pool_workqueue.
ParsePoolAlways ==
  /\ pc = "pwq"
  /\ pos.wq <= Len(dump.wqs) /\ pos.pwq <= Len(Wq)
  /\ pos' = [pos EXCEPT !.workers = @ \cup WorkersOf[PoolOf]]
  /\ pc' = "idle"
  /\ UNCHANGED <<dump, out>>

\* parser_pool_workqueue and parser_worker_pool, up to the list of the workers:
\* a pool that is in the map is not parsed again.
ParsePool ==
  /\ pc = "pwq"
  /\ pos.wq <= Len(dump.wqs) /\ pos.pwq <= Len(Wq)
  /\ IF PoolOf \in DOMAIN pos.pools
     THEN UNCHANGED pos /\ pc' = "delayed"
     ELSE pos' = [pos EXCEPT !.workers = @ \cup WorkersOf[PoolOf]] /\ pc' = "idle"
  /\ UNCHANGED <<dump, out>>

\* The idle workers of a pool, in an order of idle_list.
IdleLists(p) == LET idle == dump.idle \cap WorkersOf[p] IN Bijection(1..Cardinality(idle), idle)

\* The rest of parser_worker_pool: the idle workers, and the pool is in the map.
\* Its pwq_list holds the pool_workqueue that led here, which has no delayed
\* works yet.
ParseIdle ==
  /\ pc = "idle"
  /\ \E list \in IdleLists(PoolOf) :
       pos' = [pos EXCEPT !.idle = @ \o list,
                          !.pools = [p \in DOMAIN @ \cup {PoolOf} |->
                              IF p \in DOMAIN @ THEN @[p] ELSE [pwq |-> <<pos.wq, pos.pwq, pos.cmds>>, delayed |-> {}]]]
  /\ pc' = "delayed"
  /\ UNCHANGED <<dump, out>>

\* The delayed works of the pool_workqueue; the pool has them if it holds this
\* very object (not the one of an earlier, abandoned command).
ParseDelayed ==
  /\ pc = "delayed"
  /\ pos' = [pos EXCEPT !.pwq = @ + 1,
                        !.pools[PoolOf].delayed =
                          IF pos.pools[PoolOf].pwq = <<pos.wq, pos.pwq, pos.cmds>>
                          THEN Delayed(<<pos.wq, pos.pwq>>) ELSE @]
  /\ pc' = "pwq"
  /\ UNCHANGED <<dump, out>>

\* A workqueue is in the list when all of it is parsed.
EndWorkqueue ==
  /\ pc = "pwq"
  /\ pos.wq <= Len(dump.wqs) /\ pos.pwq > Len(Wq)
  /\ pos' = [pos EXCEPT !.list = @ + 1, !.wq = @ + 1, !.pwq = 1]
  /\ UNCHANGED <<dump, pc, out>>

EndParse ==
  /\ pc = "pwq"
  /\ pos.wq > Len(dump.wqs)
  /\ pc' = "show"
  /\ UNCHANGED <<dump, pos, out>>

Idle(w) == w \in Range(pos.idle)

\* -w, -p and -P
PrintWorkers ==
  /\ pc = "show"
  /\ out' = [op |-> "w", workers |-> {<<w, Idle(w)>> : w \in pos.workers}]
  /\ pc' = "wq"
  /\ UNCHANGED <<dump, pos>>

PrintPools ==
  /\ pc = "show"
  /\ out' = [op |-> "p", pools |-> DOMAIN pos.pools]
  /\ pc' = "wq"
  /\ UNCHANGED <<dump, pos>>

PrintPool(p) ==
  /\ pc = "show"
  /\ out' = IF p \in DOMAIN pos.pools
            THEN [op |-> "P", pool |-> p, workers |-> {<<w, Idle(w)>> : w \in WorkersOf[p]},
                  delayed |-> pos.pools[p].delayed]
            ELSE [op |-> "no pool", pool |-> p]
  /\ pc' = "wq"
  /\ UNCHANGED <<dump, pos>>

\* The workers parser_worker_list may have put in the map when it is abandoned.
HalfParsed ==
  SUBSET IF pc = "pwq" /\ pos.wq <= Len(dump.wqs) /\ pos.pwq <= Len(Wq) /\ PoolOf \notin DOMAIN pos.pools
         THEN WorkersOf[PoolOf] ELSE {}

\* A rejected list, or ^C
Restart ==
  /\ dump.interrupts
  /\ pc # "wq"
  /\ \E part \in HalfParsed : pos' = [pos EXCEPT !.workers = @ \cup part]
  /\ pc' = "wq"
  /\ UNCHANGED <<dump, out>>

NextWq ==
  \/ Start \/ ParsePool \/ ParseIdle \/ ParseDelayed \/ EndWorkqueue \/ EndParse
  \/ PrintWorkers \/ PrintPools \/ (\E p \in Pools : PrintPool(p)) \/ Restart

SpecWq == InitWq /\ [][NextWq]_wq

-----------------------------------------------------------------------------

UsedPools == {dump.wqs[x[1]][x[2]] : x \in Pwqs(dump.wqs)}

\* Whatever was abandoned before: a worker called idle is idle, a pool that is
\* listed has all its workers and only delayed works of its own, and no worker is
\* in idle_worker_list twice.
WqSound ==
  /\ \A i, j \in DOMAIN pos.idle : pos.idle[i] = pos.idle[j] => i = j
  /\ out.op \in {"w", "P"} => \A x \in out.workers : x[2] => x[1] \in dump.idle
  /\ \A p \in DOMAIN pos.pools : WorkersOf[p] \subseteq pos.workers
  /\ out.op = "P" =>
       /\ \A x \in out.workers : x[2] = (x[1] \in dump.idle)
       /\ out.delayed \subseteq {x \in dump.delayed : dump.wqs[x[1]][x[2]] = out.pool}

\* If no command is abandoned, wq -w lists every worker of every pool some
\* workqueue uses, and who is idle; -p lists, and -P finds, the pools in use.
WqComplete ==
  ~dump.interrupts =>
    /\ out.op = "w" =>
         out.workers = {<<w, w \in dump.idle>> : w \in UNION {WorkersOf[p] : p \in UsedPools}}
    /\ out.op = "p" => out.pools = UsedPools
    /\ out.op = "P" => out.pool \in UsedPools
    /\ out.op = "no pool" => out.pool \notin UsedPools

\* Wherever wq is, what it lists is right, and complete when no command was abandoned.
WqExact == pc \in Places => WqSound /\ WqComplete

=============================================================================
