-------------------------- MODULE Workqueue_proofs --------------------------
(***************************************************************************)
(* Whatever wq was doing when earlier commands were abandoned, what it     *)
(* keeps of pools and workers is right, for any workqueues and pools.      *)
(***************************************************************************)
EXTENDS Workqueue, FiniteSetTheorems, TLAPS

\* A list of the idle workers of a pool has each of them in one place.
LEMMA IdleListFacts ==
  ASSUME NEW S, IsFiniteSet(S), NEW list \in Bijection(1..Cardinality(S), S)
  PROVE  list \in Seq(S) /\ IsInjective(list) /\ Range(list) = S
<1>1. Cardinality(S) \in Nat
  BY FS_CardinalityType
<1>2. list \in [1..Cardinality(S) -> S] /\ IsInjective(list) /\ \A t \in S : \E i \in 1..Cardinality(S) : list[i] = t
  BY DEF Bijection, Injection, Surjection
<1> QED BY <1>1, <1>2 DEF Range

\* A list without repetitions stays one when elements are appended that it does not have.
LEMMA ConcatFacts ==
  ASSUME NEW T, NEW s \in Seq(T), NEW t \in Seq(T), IsInjective(s), IsInjective(t),
         Range(s) \cap Range(t) = {}
  PROVE  /\ s \o t \in Seq(T)
         /\ IsInjective(s \o t)
         /\ Range(s \o t) = Range(s) \cup Range(t)
<1>1. /\ s \o t \in Seq(T)
      /\ DOMAIN (s \o t) = 1..(Len(s) + Len(t))
      /\ \A i \in 1..(Len(s) + Len(t)) : (s \o t)[i] = IF i <= Len(s) THEN s[i] ELSE t[i - Len(s)]
      /\ Len(s) \in Nat /\ Len(t) \in Nat /\ DOMAIN s = 1..Len(s) /\ DOMAIN t = 1..Len(t)
  OBVIOUS
<1>2. \A i \in DOMAIN s, j \in DOMAIN t : s[i] # t[j]
  BY DEF Range
<1>3. IsInjective(s \o t)
  <2> SUFFICES ASSUME NEW i \in DOMAIN (s \o t), NEW j \in DOMAIN (s \o t), (s \o t)[i] = (s \o t)[j]
               PROVE  i = j
    BY DEF IsInjective
  <2>1. CASE i <= Len(s) /\ j <= Len(s)
    BY <1>1, <2>1 DEF IsInjective
  <2>2. CASE i > Len(s) /\ j > Len(s)
    <3>1. i - Len(s) \in DOMAIN t /\ j - Len(s) \in DOMAIN t /\ t[i - Len(s)] = t[j - Len(s)]
      BY <1>1, <2>2
    <3>2. i - Len(s) = j - Len(s)
      BY <3>1 DEF IsInjective
    <3> QED BY <1>1, <3>2
  <2>3. CASE i <= Len(s) /\ j > Len(s)
    <3>1. i \in DOMAIN s /\ j - Len(s) \in DOMAIN t /\ s[i] = t[j - Len(s)]
      BY <1>1, <2>3
    <3> QED BY <1>2, <3>1
  <2>4. CASE i > Len(s) /\ j <= Len(s)
    <3>1. j \in DOMAIN s /\ i - Len(s) \in DOMAIN t /\ s[j] = t[i - Len(s)]
      BY <1>1, <2>4
    <3> QED BY <1>2, <3>1
  <2> QED BY <1>1, <2>1, <2>2, <2>3, <2>4
<1>4. Range(s \o t) = Range(s) \cup Range(t)
  <2>1. ASSUME NEW i \in DOMAIN (s \o t) PROVE (s \o t)[i] \in Range(s) \cup Range(t)
    <3>1. CASE i <= Len(s)
      BY <1>1, <3>1 DEF Range
    <3>2. CASE i > Len(s)
      <4>1. i - Len(s) \in DOMAIN t /\ (s \o t)[i] = t[i - Len(s)]
        BY <1>1, <3>2
      <4> QED BY <4>1 DEF Range
    <3> QED BY <1>1, <3>1, <3>2
  <2>2. ASSUME NEW i \in DOMAIN s PROVE s[i] \in Range(s \o t)
    <3>1. i \in DOMAIN (s \o t) /\ (s \o t)[i] = s[i]
      BY <1>1
    <3> QED BY <3>1 DEF Range
  <2>3. ASSUME NEW i \in DOMAIN t PROVE t[i] \in Range(s \o t)
    <3>1. i + Len(s) \in DOMAIN (s \o t) /\ (s \o t)[i + Len(s)] = t[i]
      BY <1>1
    <3> QED BY <3>1 DEF Range
  <2> QED BY <2>1, <2>2, <2>3, Zenon DEF Range
<1> QED BY <1>1, <1>3, <1>4

-----------------------------------------------------------------------------

Parsed == [pwq : Nat \X Nat \X Nat, delayed : SUBSET Pwqs(dump.wqs)]
PoolMaps == UNION {[P -> Parsed] : P \in SUBSET Pools}

Positions ==
  [list : Nat, workers : SUBSET Workers, pools : PoolMaps, idle : Seq(Workers),
   wq : Nat \ {0}, pwq : Nat \ {0}, cmds : Nat]

TypeInv ==
  /\ dump \in Dumps
  /\ pc \in {"wq", "pwq", "idle", "delayed", "show"}
  /\ pos \in Positions

\* What is kept: the idle workers of exactly the pools in the map, each once; all workers
\* of these pools; and of the delayed works those of a pool_workqueue of the pool.
CacheInv ==
  /\ IsInjective(pos.idle)
  /\ Range(pos.idle) = {w \in dump.idle : \E p \in DOMAIN pos.pools : w \in WorkersOf[p]}
  /\ \A p \in DOMAIN pos.pools :
       /\ WorkersOf[p] \subseteq pos.workers
       /\ \A x \in pos.pools[p].delayed : x \in dump.delayed /\ dump.wqs[x[1]][x[2]] = p

\* Where the parse is: at a pool_workqueue whose pool is about to get into the map with
\* its workers known, or is in it.
ParseInv ==
  /\ pc \in {"idle", "delayed"} => pos.wq \in DOMAIN dump.wqs /\ pos.pwq \in DOMAIN Wq
  /\ pc = "idle" => PoolOf \notin DOMAIN pos.pools /\ WorkersOf[PoolOf] \subseteq pos.workers
  /\ pc = "delayed" => PoolOf \in DOMAIN pos.pools

OutInv ==
  /\ out.op \in {"w", "P"} => \A x \in out.workers : x[2] => x[1] \in dump.idle
  /\ out.op = "P" =>
       /\ \A x \in out.workers : x[2] = (x[1] \in dump.idle)
       /\ out.delayed \subseteq {x \in dump.delayed : dump.wqs[x[1]][x[2]] = out.pool}

\* The inductive invariant.
IInv == TypeInv /\ CacheInv /\ ParseInv /\ OutInv

\* The plugin starts with empty maps.
LEMMA InitInv == InitWq => IInv
<1> SUFFICES ASSUME InitWq PROVE IInv
  OBVIOUS
<1>1. pos = [list |-> 0, workers |-> {}, pools |-> <<>>, idle |-> <<>>, wq |-> 1, pwq |-> 1, cmds |-> 0]
  BY DEF InitWq
<1>2. DOMAIN pos.pools = {} /\ pos.pools \in [{} -> Parsed] /\ pos.pools \in PoolMaps
  <2>1. DOMAIN pos.pools = {} /\ pos.pools \in [{} -> Parsed]
    BY <1>1
  <2>2. [{} -> Parsed] \in {[P -> Parsed] : P \in SUBSET Pools}
    OBVIOUS
  <2> QED BY <2>1, <2>2 DEF PoolMaps
<1>3. pos.idle = <<>> /\ DOMAIN pos.idle = {}
  BY <1>1
<1>4. TypeInv
  BY <1>1, <1>2 DEF InitWq, TypeInv, Positions
<1>5. CacheInv
  BY <1>2, <1>3 DEF CacheInv, IsInjective, Range
<1>6. ParseInv /\ OutInv
  BY DEF InitWq, ParseInv, OutInv, NoOut
<1> QED BY <1>4, <1>5, <1>6 DEF IInv

\* The pool of the pool_workqueue the parse is at.
LEMMA PoolIsPool ==
  ASSUME WqAssumption, TypeInv, pos.wq \in DOMAIN dump.wqs, pos.pwq \in DOMAIN Wq
  PROVE  PoolOf \in Pools /\ <<pos.wq, pos.pwq>> \in Pwqs(dump.wqs)
<1>1. dump.wqs \in Seq(Seq(Pools))
  BY DEF TypeInv, Positions, Dumps, WqAssumption
<1>2. Wq \in Seq(Pools)
  BY <1>1 DEF Wq
<1>3. PoolOf \in Pools
  BY <1>2 DEF PoolOf
<1>4. <<pos.wq, pos.pwq>> \in {pos.wq} \X DOMAIN dump.wqs[pos.wq]
  BY DEF Wq
<1> QED BY <1>3, <1>4 DEF Pwqs

\* What is read of a map of pools.
LEMMA PoolMapFacts ==
  ASSUME NEW m
  PROVE  m \in PoolMaps <=> /\ DOMAIN m \subseteq Pools
                            /\ m \in [DOMAIN m -> Parsed]
  BY DEF PoolMaps

\* No step changes the dump.
LEMMA DumpKept == ASSUME [NextWq]_wq PROVE UNCHANGED dump
  BY Zenon DEF NextWq, wq, Start, ParsePool, ParseIdle, ParseDelayed, EndWorkqueue, EndParse,
         PrintWorkers, PrintPools, PrintPool, Restart

\* What is shown comes from what is kept.
LEMMA NextOut == ASSUME IInv, [NextWq]_wq PROVE OutInv'
<1> USE DEF IInv
<1>1. UNCHANGED dump
  BY DumpKept
<1>2. CASE UNCHANGED out
  BY <1>1, <1>2 DEF OutInv
<1>3. CASE out' = NoOut
  BY <1>3 DEF OutInv, NoOut
<1>4. CASE PrintWorkers
  <2>1. out' = [op |-> "w", workers |-> {<<w, Idle(w)>> : w \in pos.workers}]
    BY <1>4 DEF PrintWorkers
  <2>2. \A w : Idle(w) => w \in dump.idle
    BY DEF CacheInv, Idle
  <2> QED BY <2>1, <2>2, <1>1 DEF OutInv
<1>5. CASE PrintPools
  BY <1>5 DEF PrintPools, OutInv
<1>6. ASSUME NEW p \in Pools, PrintPool(p) PROVE OutInv'
  <2>1. CASE p \notin DOMAIN pos.pools
    BY <1>6, <2>1, Zenon DEF PrintPool, OutInv
  <2>2. CASE p \in DOMAIN pos.pools
    <3>1. out' = [op |-> "P", pool |-> p, workers |-> {<<w, Idle(w)>> : w \in WorkersOf[p]},
                  delayed |-> pos.pools[p].delayed]
      BY <1>6, <2>2 DEF PrintPool
    <3>2. \A w \in WorkersOf[p] : Idle(w) = (w \in dump.idle)
      BY <2>2 DEF CacheInv, Idle
    <3>3. pos.pools[p].delayed \subseteq {x \in dump.delayed : dump.wqs[x[1]][x[2]] = p}
      BY <2>2 DEF CacheInv
    <3>4. \A x \in out'.workers : x[2] = (x[1] \in dump.idle)
      BY <3>1, <3>2
    <3> QED BY <3>1, <3>3, <3>4, <1>1, Zenon DEF OutInv
  <2> QED BY <2>1, <2>2
<1> QED
  BY <1>2, <1>3, <1>4, <1>5, <1>6, Zenon
  DEF NextWq, wq, Start, ParsePool, ParseIdle, ParseDelayed, EndWorkqueue, EndParse, Restart


\* Steps that leave the maps alone keep what is said of them.
LEMMA CacheKept ==
  ASSUME CacheInv, UNCHANGED dump,
         pos'.idle = pos.idle, pos'.pools = pos.pools, pos.workers \subseteq pos'.workers
  PROVE  CacheInv'
<1>1. IsInjective(pos'.idle)
  BY DEF CacheInv
<1>2. Range(pos'.idle) = {w \in dump'.idle : \E p \in DOMAIN pos'.pools : w \in WorkersOf[p]}
  BY DEF CacheInv
<1>3. \A p \in DOMAIN pos'.pools :
       /\ WorkersOf[p] \subseteq pos'.workers
       /\ \A x \in pos'.pools[p].delayed : x \in dump'.delayed /\ dump'.wqs[x[1]][x[2]] = p
  BY DEF CacheInv
<1> QED BY <1>1, <1>2, <1>3 DEF CacheInv

\* The type of a map of pools depends on the dump only.
LEMMA MapsKept == ASSUME UNCHANGED dump PROVE PoolMaps' = PoolMaps /\ Parsed' = Parsed
  BY DEF PoolMaps, Parsed, Pwqs

\* A pool gets into the map with its idle workers, and none of them was there.
LEMMA IdleStep ==
  ASSUME WqAssumption, IInv, ParseIdle PROVE TypeInv' /\ CacheInv' /\ ParseInv'
<1> USE DEF IInv
<1> DEFINE new == [pwq |-> <<pos.wq, pos.pwq, pos.cmds>>, delayed |-> {}]
           idle == dump.idle \cap WorkersOf[PoolOf]
<1>1. UNCHANGED <<dump, out>> /\ pc = "idle" /\ pc' = "delayed"
  BY DEF ParseIdle
<1>2. /\ pos.wq \in DOMAIN dump.wqs /\ pos.pwq \in DOMAIN Wq
      /\ PoolOf \in Pools /\ PoolOf \notin DOMAIN pos.pools /\ WorkersOf[PoolOf] \subseteq pos.workers
  BY <1>1, PoolIsPool DEF ParseInv
<1>a. PICK list \in Bijection(1..Cardinality(idle), idle) :
        pos' = [pos EXCEPT !.idle = @ \o list,
                           !.pools = [p \in DOMAIN @ \cup {PoolOf} |-> IF p \in DOMAIN @ THEN @[p] ELSE new]]
  BY Zenon DEF ParseIdle, IdleLists
<1>3. /\ pos'.idle = pos.idle \o list
      /\ pos'.pools = [p \in DOMAIN pos.pools \cup {PoolOf} |-> IF p \in DOMAIN pos.pools THEN pos.pools[p] ELSE new]
      /\ pos'.workers = pos.workers /\ pos'.wq = pos.wq /\ pos'.pwq = pos.pwq
      /\ pos'.list = pos.list /\ pos'.cmds = pos.cmds
      /\ pos' = [list |-> pos'.list, workers |-> pos'.workers, pools |-> pos'.pools, idle |-> pos'.idle,
                 wq |-> pos'.wq, pwq |-> pos'.pwq, cmds |-> pos'.cmds]
  BY <1>a, Zenon DEF TypeInv, Positions
<1>4. IsFiniteSet(idle)
  BY <1>2, FS_Subset DEF WqAssumption
<1>5. /\ list \in Seq(idle) /\ IsInjective(list) /\ Range(list) = idle
  BY <1>4, IdleListFacts
<1>6. idle \subseteq Workers
  BY <1>2 DEF Workers
<1>7. list \in Seq(Workers)
  BY <1>5, <1>6
<1>8. DOMAIN pos.pools \subseteq Pools /\ pos.pools \in [DOMAIN pos.pools -> Parsed]
  BY PoolMapFacts DEF TypeInv, Positions
<1>9. Range(pos.idle) \cap Range(list) = {}
  <2>1. ASSUME NEW w \in Range(pos.idle) PROVE w \notin WorkersOf[PoolOf]
    <3>1. PICK p \in DOMAIN pos.pools : w \in WorkersOf[p]
      BY <2>1 DEF CacheInv
    <3>2. p \in Pools /\ p # PoolOf
      BY <1>2, <1>8
    <3> QED BY <3>1, <3>2, <1>2 DEF WqAssumption
  <2> QED BY <2>1, <1>5, Zenon
<1>10. /\ pos'.idle \in Seq(Workers) /\ IsInjective(pos'.idle)
       /\ Range(pos'.idle) = Range(pos.idle) \cup idle
  <2>1. pos.idle \in Seq(Workers) /\ IsInjective(pos.idle)
    BY DEF TypeInv, Positions, CacheInv
  <2> HIDE DEF idle
  <2> QED BY <2>1, <1>3, <1>5, <1>7, <1>9, ConcatFacts
<1>11. DOMAIN pos'.pools = DOMAIN pos.pools \cup {PoolOf}
  BY <1>3, Zenon
<1>12. Wq' = Wq /\ PoolOf' = PoolOf
  BY <1>1, <1>3, Zenon DEF Wq, PoolOf
<1>13. CacheInv'
  <2>1. Range(pos'.idle) = {w \in dump.idle : \E p \in DOMAIN pos'.pools : w \in WorkersOf[p]}
    BY <1>10, <1>11 DEF CacheInv
  <2>2. \A p \in DOMAIN pos'.pools :
         /\ WorkersOf[p] \subseteq pos'.workers
         /\ \A x \in pos'.pools[p].delayed : x \in dump.delayed /\ dump.wqs[x[1]][x[2]] = p
    <3> SUFFICES ASSUME NEW p \in DOMAIN pos'.pools
                 PROVE  /\ WorkersOf[p] \subseteq pos'.workers
                        /\ \A x \in pos'.pools[p].delayed : x \in dump.delayed /\ dump.wqs[x[1]][x[2]] = p
      OBVIOUS
    <3>1. CASE p \in DOMAIN pos.pools
      BY <3>1, <1>3, <1>11 DEF CacheInv
    <3>2. CASE p = PoolOf
      <4>1. pos'.pools[p] = new
        BY <3>2, <1>2, <1>3, <1>11, SMTT(20)
      <4> QED BY <3>2, <4>1, <1>2, <1>3, SMTT(20)
    <3> QED BY <3>1, <3>2, <1>11
  <2> QED BY <2>1, <2>2, <1>10, <1>1 DEF CacheInv
<1>14. ParseInv'
  BY <1>1, <1>2, <1>3, <1>11, <1>12 DEF ParseInv
<1>15. pos'.pools \in PoolMaps
  <2>1. new \in Parsed
    BY DEF TypeInv, Positions, Parsed
  <2>2. pos'.pools \in [DOMAIN pos'.pools -> Parsed]
    <3> HIDE DEF new
    <3> QED BY <2>1, <1>3, <1>8
  <2> QED BY <2>2, <1>2, <1>8, <1>11, PoolMapFacts
<1>16. TypeInv'
  <2>1. PoolMaps' = PoolMaps
    BY <1>1, MapsKept
  <2>2. /\ pos'.list \in Nat /\ pos'.workers \in SUBSET Workers /\ pos'.wq \in Nat \ {0}
        /\ pos'.pwq \in Nat \ {0} /\ pos'.cmds \in Nat
    BY <1>3 DEF TypeInv, Positions
  <2>3. dump' \in Dumps /\ pc' \in {"wq", "pwq", "idle", "delayed", "show"}
    BY <1>1 DEF TypeInv, Positions
  <2> QED BY <2>1, <2>2, <2>3, <1>3, <1>10, <1>15, Zenon DEF TypeInv, Positions
<1> QED BY <1>13, <1>14, <1>16


\* The delayed works a pool gets are those of a pool_workqueue that leads to it.
LEMMA DelayedStep ==
  ASSUME WqAssumption, IInv, ParseDelayed PROVE TypeInv' /\ CacheInv' /\ ParseInv'
<1> USE DEF IInv
<1> DEFINE own == IF pos.pools[PoolOf].pwq = <<pos.wq, pos.pwq, pos.cmds>>
                  THEN Delayed(<<pos.wq, pos.pwq>>) ELSE pos.pools[PoolOf].delayed
<1>1. UNCHANGED <<dump, out>> /\ pc = "delayed" /\ pc' = "pwq"
  BY DEF ParseDelayed
<1>2. /\ pos.wq \in DOMAIN dump.wqs /\ pos.pwq \in DOMAIN Wq
      /\ PoolOf \in Pools /\ PoolOf \in DOMAIN pos.pools /\ <<pos.wq, pos.pwq>> \in Pwqs(dump.wqs)
  BY <1>1, PoolIsPool DEF ParseInv
<1>3. /\ pos'.idle = pos.idle
      /\ pos'.pools = [pos.pools EXCEPT ![PoolOf] = [pos.pools[PoolOf] EXCEPT !.delayed = own]]
      /\ pos'.workers = pos.workers /\ pos'.wq = pos.wq /\ pos'.pwq = pos.pwq + 1
      /\ pos'.list = pos.list /\ pos'.cmds = pos.cmds
      /\ pos' = [list |-> pos'.list, workers |-> pos'.workers, pools |-> pos'.pools, idle |-> pos'.idle,
                 wq |-> pos'.wq, pwq |-> pos'.pwq, cmds |-> pos'.cmds]
  BY Zenon DEF ParseDelayed, TypeInv, Positions
<1>4. DOMAIN pos.pools \subseteq Pools /\ pos.pools \in [DOMAIN pos.pools -> Parsed]
  BY PoolMapFacts DEF TypeInv, Positions
<1>5. own \in SUBSET Pwqs(dump.wqs) /\ \A x \in own : x \in dump.delayed /\ dump.wqs[x[1]][x[2]] = PoolOf
  <2>1. CASE own = Delayed(<<pos.wq, pos.pwq>>)
    <3>1. \A x \in own : x = <<pos.wq, pos.pwq>> /\ x \in dump.delayed
      BY <2>1 DEF Delayed
    <3>2. \A x : x = <<pos.wq, pos.pwq>> => dump.wqs[x[1]][x[2]] = PoolOf
      BY DEF PoolOf, Wq
    <3> HIDE DEF own
    <3> QED BY <3>1, <3>2, <1>2
  <2>2. CASE own = pos.pools[PoolOf].delayed
    BY <2>2, <1>2, <1>4 DEF CacheInv, Parsed
  <2> QED BY <2>1, <2>2
<1> HIDE DEF own
<1>6. /\ DOMAIN pos'.pools = DOMAIN pos.pools
      /\ pos'.pools[PoolOf].delayed = own /\ pos'.pools[PoolOf] \in Parsed
      /\ \A p \in DOMAIN pos.pools : p # PoolOf => pos'.pools[p] = pos.pools[p]
  <2>1. pos.pools[PoolOf] \in Parsed
    BY <1>2, <1>4
  <2>2. [pos.pools[PoolOf] EXCEPT !.delayed = own] \in Parsed
    BY <2>1, <1>5 DEF Parsed
  <2>3. [pos.pools[PoolOf] EXCEPT !.delayed = own].delayed = own
    BY <2>1 DEF Parsed
  <2> QED BY <1>2, <1>3, <2>2, <2>3
<1>7. CacheInv'
  <2>1. \A p \in DOMAIN pos'.pools :
         /\ WorkersOf[p] \subseteq pos'.workers
         /\ \A x \in pos'.pools[p].delayed : x \in dump.delayed /\ dump.wqs[x[1]][x[2]] = p
    BY <1>3, <1>5, <1>6 DEF CacheInv
  <2> QED BY <2>1, <1>1, <1>3, <1>6, SMTT(20) DEF CacheInv
<1>8. ParseInv'
  BY <1>1 DEF ParseInv
<1>9. pos'.pools \in PoolMaps
  <2>1. pos'.pools \in [DOMAIN pos'.pools -> Parsed]
    BY <1>3, <1>4, <1>6, Zenon
  <2> QED BY <2>1, <1>4, <1>6, PoolMapFacts
<1>10. TypeInv'
  <2>1. PoolMaps' = PoolMaps
    BY <1>1, MapsKept
  <2>2. /\ pos'.list \in Nat /\ pos'.workers \in SUBSET Workers /\ pos'.wq \in Nat \ {0}
        /\ pos'.pwq \in Nat \ {0} /\ pos'.cmds \in Nat /\ pos'.idle \in Seq(Workers)
    BY <1>3 DEF TypeInv, Positions
  <2>3. dump' \in Dumps /\ pc' \in {"wq", "pwq", "idle", "delayed", "show"}
    BY <1>1 DEF TypeInv, Positions
  <2> QED BY <2>1, <2>2, <2>3, <1>3, <1>9 DEF TypeInv, Positions
<1> QED BY <1>7, <1>8, <1>10

\* A step that leaves pools and idle workers alone, moves the position or adds workers.
LEMMA MoveStep ==
  ASSUME IInv, UNCHANGED dump, pc' \in {"wq", "pwq", "show"}, pos' \in Positions,
         pos'.idle = pos.idle, pos'.pools = pos.pools, pos.workers \subseteq pos'.workers
  PROVE  TypeInv' /\ CacheInv' /\ ParseInv'
<1>1. TypeInv'
  BY MapsKept DEF IInv, TypeInv, Positions
<1>2. CacheInv'
  BY CacheKept DEF IInv
<1>3. ParseInv'
  BY DEF ParseInv
<1> QED BY <1>1, <1>2, <1>3

\* Every step keeps the invariant.
LEMMA NextInv == ASSUME WqAssumption, IInv, [NextWq]_wq PROVE IInv'
<1> USE DEF IInv
<1>1. UNCHANGED dump /\ OutInv'
  BY DumpKept, NextOut
<1>2. pos.wq \in Nat \ {0} /\ pos.pwq \in Nat \ {0} /\ pos.workers \subseteq Workers
  BY DEF TypeInv, Positions
<1>3. CASE Start
  <2>1. pos' = [pos EXCEPT !.cmds = pos.cmds + 1, !.wq = 1, !.pwq = 1] /\ pc' \in {"wq", "pwq", "show"}
    BY <1>3 DEF Start
  <2>2. /\ pos'.idle = pos.idle /\ pos'.pools = pos.pools /\ pos'.workers = pos.workers
        /\ pos'.list = pos.list /\ pos'.cmds = pos.cmds + 1 /\ pos'.wq = 1 /\ pos'.pwq = 1
        /\ pos' = [list |-> pos'.list, workers |-> pos'.workers, pools |-> pos'.pools, idle |-> pos'.idle,
                   wq |-> pos'.wq, pwq |-> pos'.pwq, cmds |-> pos'.cmds]
    BY <2>1, Zenon DEF TypeInv, Positions
  <2>3. pos' \in Positions
    <3>1. pos'.list \in Nat /\ pos'.cmds \in Nat /\ pos'.wq \in Nat \ {0} /\ pos'.pwq \in Nat \ {0}
      BY <2>2 DEF TypeInv, Positions
    <3>2. pos'.idle \in Seq(Workers) /\ pos'.pools \in PoolMaps /\ pos'.workers \in SUBSET Workers
      BY <2>2 DEF TypeInv, Positions
    <3> QED BY <2>2, <3>1, <3>2 DEF Positions
  <2> QED BY <2>1, <2>2, <2>3, <1>1, MoveStep
<1>4. CASE ParsePool
  <2>1. pos.wq \in DOMAIN dump.wqs /\ pos.pwq \in DOMAIN Wq
    <3>1. dump.wqs \in Seq(Seq(Pools))
      BY DEF TypeInv, Positions, Dumps, WqAssumption
    <3>2. pos.wq \in DOMAIN dump.wqs
      BY <1>2, <1>4, <3>1 DEF ParsePool
    <3>3. Wq \in Seq(Pools)
      BY <3>1, <3>2 DEF Wq
    <3> QED BY <1>2, <1>4, <3>2, <3>3 DEF ParsePool
  <2>2. PoolOf \in Pools
    BY <2>1, PoolIsPool
  <2>3. CASE PoolOf \in DOMAIN pos.pools
    <3>1. pos' = pos /\ pc' = "delayed"
      BY <1>4, <2>3 DEF ParsePool
    <3>2. TypeInv'
      BY <3>1, <1>1, MapsKept DEF TypeInv, Positions
    <3>3. CacheInv'
      BY <3>1, <1>1, CacheKept
    <3>4. ParseInv'
      BY <3>1, <1>1, <2>1, <2>3, SMTT(20) DEF ParseInv, Wq, PoolOf
    <3> QED BY <3>2, <3>3, <3>4, <1>1
  <2>4. CASE PoolOf \notin DOMAIN pos.pools
    <3>1. pos' = [pos EXCEPT !.workers = pos.workers \cup WorkersOf[PoolOf]] /\ pc' = "idle"
      BY <1>4, <2>4 DEF ParsePool
    <3>2. WorkersOf[PoolOf] \subseteq Workers
      BY <2>2 DEF Workers
    <3>3. /\ pos' \in Positions
          /\ pos'.idle = pos.idle /\ pos'.pools = pos.pools /\ pos'.wq = pos.wq /\ pos'.pwq = pos.pwq
          /\ pos'.workers = pos.workers \cup WorkersOf[PoolOf]
      BY <3>1, <3>2, <1>2 DEF TypeInv, Positions
    <3>4. TypeInv'
      BY <3>1, <3>3, <1>1, MapsKept DEF TypeInv, Positions
    <3>5. CacheInv'
      BY <3>3, <1>1, CacheKept
    <3>6. Wq' = Wq /\ PoolOf' = PoolOf
      BY <3>3, <1>1 DEF Wq, PoolOf
    <3>7. ParseInv'
      BY <3>1, <3>3, <3>6, <1>1, <2>1, <2>4, SMTT(20) DEF ParseInv
    <3> QED BY <3>4, <3>5, <3>7, <1>1
  <2> QED BY <2>3, <2>4
<1>5. CASE ParseIdle
  BY <1>1, <1>5, IdleStep
<1>6. CASE ParseDelayed
  BY <1>1, <1>6, DelayedStep
<1>7. CASE EndWorkqueue
  <2>1. pos' = [pos EXCEPT !.list = pos.list + 1, !.wq = pos.wq + 1, !.pwq = 1] /\ pc' = "pwq"
    BY <1>7 DEF EndWorkqueue
  <2>2. /\ pos'.idle = pos.idle /\ pos'.pools = pos.pools /\ pos'.workers = pos.workers
        /\ pos'.list = pos.list + 1 /\ pos'.cmds = pos.cmds /\ pos'.wq = pos.wq + 1 /\ pos'.pwq = 1
        /\ pos' = [list |-> pos'.list, workers |-> pos'.workers, pools |-> pos'.pools, idle |-> pos'.idle,
                   wq |-> pos'.wq, pwq |-> pos'.pwq, cmds |-> pos'.cmds]
    BY <2>1, Zenon DEF TypeInv, Positions
  <2>3. pos' \in Positions
    <3>1. pos'.list \in Nat /\ pos'.cmds \in Nat /\ pos'.wq \in Nat \ {0} /\ pos'.pwq \in Nat \ {0}
      BY <2>2 DEF TypeInv, Positions
    <3>2. pos'.idle \in Seq(Workers) /\ pos'.pools \in PoolMaps /\ pos'.workers \in SUBSET Workers
      BY <2>2 DEF TypeInv, Positions
    <3> QED BY <2>2, <3>1, <3>2 DEF Positions
  <2> QED BY <2>1, <2>2, <2>3, <1>1, MoveStep, SMTT(20)
<1>8. CASE EndParse \/ PrintWorkers \/ PrintPools \/ \E p \in Pools : PrintPool(p)
  <2>1. pos' = pos /\ pc' \in {"wq", "pwq", "show"}
    BY <1>8, Zenon DEF EndParse, PrintWorkers, PrintPools, PrintPool
  <2>2. pos' \in Positions
    BY <2>1 DEF TypeInv, Positions
  <2> QED BY <2>1, <2>2, <1>1, MoveStep
<1>9. CASE Restart
  <2>1. PICK part \in HalfParsed : pos' = [pos EXCEPT !.workers = pos.workers \cup part]
    BY <1>9, Zenon DEF Restart
  <2>2. pc' = "wq"
    BY <1>9 DEF Restart
  <2>3. part \subseteq Workers
    <3>1. CASE part = {}
      BY <3>1
    <3>2. CASE part # {}
      <4>1. /\ pos.wq <= Len(dump.wqs) /\ pos.pwq <= Len(Wq) /\ part \subseteq WorkersOf[PoolOf]
        BY <2>1, <3>2 DEF HalfParsed
      <4>2. dump.wqs \in Seq(Seq(Pools))
        BY DEF TypeInv, Positions, Dumps, WqAssumption
      <4>3. pos.wq \in DOMAIN dump.wqs
        BY <1>2, <4>1, <4>2
      <4>4. Wq \in Seq(Pools)
        BY <4>2, <4>3 DEF Wq
      <4>5. pos.pwq \in DOMAIN Wq
        BY <1>2, <4>1, <4>4
      <4>6. PoolOf \in Pools
        BY <4>3, <4>5, PoolIsPool
      <4> QED BY <4>1, <4>6 DEF Workers
    <3> QED BY <3>1, <3>2
  <2>4. pos.workers \cup part \in SUBSET Workers
    BY <2>3, <1>2
  <2>5. /\ pos' \in Positions
        /\ pos'.idle = pos.idle /\ pos'.pools = pos.pools /\ pos.workers \subseteq pos'.workers
    BY <2>1, <2>4 DEF TypeInv, Positions
  <2> QED BY <2>2, <2>5, <1>1, MoveStep
<1>10. CASE UNCHANGED wq
  <2>1. pos' = pos /\ pc' = pc /\ dump' = dump
    BY <1>10 DEF wq
  <2>2. TypeInv'
    BY <2>1, MapsKept DEF TypeInv, Positions
  <2>3. CacheInv'
    BY <2>1, CacheKept
  <2>4. ParseInv'
    BY <2>1 DEF ParseInv, Wq, PoolOf
  <2> QED BY <2>2, <2>3, <2>4, <1>1
<1> QED BY <1>3, <1>4, <1>5, <1>6, <1>7, <1>8, <1>9, <1>10, SMTT(20) DEF NextWq

\* Whatever was abandoned before, a worker wq calls idle is idle, a pool it lists has all
\* its workers and only delayed works of its own, and idle_worker_list has no worker twice
\* (parser_worker_pool and parser_pool_workqueue, with the maps shared between commands).
THEOREM WqIsSound == ASSUME WqAssumption PROVE SpecWq => []WqSound
<1>1. InitWq => IInv
  BY InitInv
<1>2. IInv /\ [NextWq]_wq => IInv'
  BY NextInv
<1>3. IInv => WqSound
  BY DEF IInv, CacheInv, OutInv, WqSound, IsInjective
<1> QED BY <1>1, <1>2, <1>3, PTL DEF SpecWq

-----------------------------------------------------------------------------
(* What wq lists when no command was abandoned.                              *)

\* The pool_workqueues the parse has passed, their pools, and the workers of pools.
Passed == {x \in Pwqs(dump.wqs) : x[1] < pos.wq \/ (x[1] = pos.wq /\ x[2] < pos.pwq)}
PoolsAt(X) == {dump.wqs[x[1]][x[2]] : x \in X}
WorkersIn(P) == UNION {WorkersOf[p] : p \in P}

\* The maps hold the pools of the pool_workqueues passed, and their workers; at the prompt
\* they hold everything, or nothing when no workqueue is in the list.
FullInv ==
  /\ pc \in {"pwq", "idle", "delayed"} => pos.list = pos.wq - 1
  /\ pc \in {"pwq", "idle"} => DOMAIN pos.pools = PoolsAt(Passed)
  /\ pc = "delayed" => DOMAIN pos.pools = PoolsAt(Passed) \cup {PoolOf}
  /\ pc # "idle" => pos.workers = WorkersIn(DOMAIN pos.pools)
  /\ pc = "idle" => pos.workers = WorkersIn(DOMAIN pos.pools \cup {PoolOf})
  /\ pc \in {"wq", "show"} /\ pos.list = 0 => DOMAIN pos.pools = {}
  /\ pc = "show" \/ (pc = "wq" /\ pos.list # 0) => DOMAIN pos.pools = UsedPools

\* A pool_workqueue is a workqueue and a place in it.
LEMMA PwqFacts ==
  ASSUME WqAssumption, TypeInv
  PROVE  /\ dump.wqs \in Seq(Seq(Pools))
         /\ \A x \in Pwqs(dump.wqs) :
              /\ x = <<x[1], x[2]>>
              /\ x[1] \in 1..Len(dump.wqs) /\ x[2] \in 1..Len(dump.wqs[x[1]])
         /\ pos.wq \in Nat \ {0} /\ pos.pwq \in Nat \ {0} /\ pos.list \in Nat
<1>1. dump.wqs \in Seq(Seq(Pools))
  BY DEF TypeInv, Dumps, WqAssumption
<1>2. ASSUME NEW x \in Pwqs(dump.wqs)
      PROVE  /\ x = <<x[1], x[2]>>
             /\ x[1] \in 1..Len(dump.wqs) /\ x[2] \in 1..Len(dump.wqs[x[1]])
  <2>1. PICK w \in DOMAIN dump.wqs : x \in {w} \X DOMAIN dump.wqs[w]
    BY DEF Pwqs
  <2>2. x = <<x[1], x[2]>> /\ x[1] = w /\ x[2] \in DOMAIN dump.wqs[w]
    BY <2>1
  <2>3. dump.wqs[w] \in Seq(Pools) /\ w \in 1..Len(dump.wqs)
    BY <1>1
  <2> QED BY <2>2, <2>3
<1>3. pos.wq \in Nat \ {0} /\ pos.pwq \in Nat \ {0} /\ pos.list \in Nat
  BY DEF TypeInv, Positions
<1> QED BY <1>1, <1>2, <1>3

\* The commands that move in the lists leave the pools to look for as they are.
LEMMA SameDump ==
  ASSUME UNCHANGED dump
  PROVE  /\ UsedPools' = UsedPools
         /\ \A X : PoolsAt(X)' = PoolsAt(X)
  BY DEF UsedPools, PoolsAt, Pwqs

\* The parse ends with all pool_workqueues passed.
LEMMA PassedFacts ==
  ASSUME WqAssumption, TypeInv
  PROVE  /\ pos.wq > Len(dump.wqs) => PoolsAt(Passed) = UsedPools
         /\ Len(dump.wqs) = 0 => UsedPools = {}
<1>1. /\ dump.wqs \in Seq(Seq(Pools))
      /\ \A x \in Pwqs(dump.wqs) : x[1] \in 1..Len(dump.wqs) /\ x[2] \in 1..Len(dump.wqs[x[1]])
      /\ pos.wq \in Nat /\ pos.pwq \in Nat
  BY PwqFacts
<1>2. ASSUME NEW x \in Pwqs(dump.wqs)
      PROVE  x[1] \in Nat \ {0} /\ x[2] \in Nat \ {0} /\ x[1] <= Len(dump.wqs) /\ Len(dump.wqs) \in Nat
  <2>1. dump.wqs[x[1]] \in Seq(Pools) /\ Len(dump.wqs) \in Nat
    BY <1>1
  <2>2. Len(dump.wqs[x[1]]) \in Nat
    BY <2>1
  <2> QED BY <1>1, <2>1, <2>2
<1>4. ASSUME pos.wq > Len(dump.wqs) PROVE PoolsAt(Passed) = UsedPools
  <2>1. Passed = Pwqs(dump.wqs)
    BY <1>1, <1>2, <1>4 DEF Passed
  <2> QED BY <2>1 DEF PoolsAt, UsedPools
<1>5. ASSUME Len(dump.wqs) = 0 PROVE UsedPools = {}
  <2>1. Pwqs(dump.wqs) = {}
    BY <1>2, <1>5
  <2> QED BY <2>1 DEF UsedPools
<1> QED BY <1>4, <1>5

\* Passing a pool_workqueue adds it; passing the end of a workqueue adds nothing.
LEMMA PassedMoves ==
  ASSUME WqAssumption, TypeInv, UNCHANGED dump
  PROVE  /\ pos'.wq = pos.wq /\ pos'.pwq = pos.pwq => Passed' = Passed
         /\ /\ pos.wq \in DOMAIN dump.wqs /\ pos.pwq \in DOMAIN Wq
            /\ pos'.wq = pos.wq /\ pos'.pwq = pos.pwq + 1
            => Passed' = Passed \cup {<<pos.wq, pos.pwq>>}
         /\ pos.pwq > Len(Wq) /\ pos'.wq = pos.wq + 1 /\ pos'.pwq = 1 => Passed' = Passed
<1>1. /\ \A x \in Pwqs(dump.wqs) :
           x = <<x[1], x[2]>> /\ x[1] \in Nat \ {0} /\ x[2] \in Nat \ {0} /\ x[2] <= Len(dump.wqs[x[1]])
                              /\ Len(dump.wqs[x[1]]) \in Nat
      /\ pos.wq \in Nat /\ pos.pwq \in Nat
  <2>1. ASSUME NEW x \in Pwqs(dump.wqs)
        PROVE  x = <<x[1], x[2]>> /\ x[1] \in Nat \ {0} /\ x[2] \in Nat \ {0} /\ x[2] <= Len(dump.wqs[x[1]])
                                  /\ Len(dump.wqs[x[1]]) \in Nat
    <3>1. /\ dump.wqs \in Seq(Seq(Pools)) /\ x = <<x[1], x[2]>>
          /\ x[1] \in 1..Len(dump.wqs) /\ x[2] \in 1..Len(dump.wqs[x[1]])
      BY PwqFacts
    <3>2. dump.wqs[x[1]] \in Seq(Pools) /\ Len(dump.wqs) \in Nat
      BY <3>1
    <3>3. Len(dump.wqs[x[1]]) \in Nat
      BY <3>2
    <3> QED BY <3>1, <3>2, <3>3
  <2> QED BY <2>1, PwqFacts
<1>2. Pwqs(dump.wqs)' = Pwqs(dump.wqs)
  BY DEF Pwqs
<1>3. ASSUME pos'.wq = pos.wq, pos'.pwq = pos.pwq PROVE Passed' = Passed
  BY <1>2, <1>3 DEF Passed
<1>4. ASSUME pos.wq \in DOMAIN dump.wqs, pos.pwq \in DOMAIN Wq,
             pos'.wq = pos.wq, pos'.pwq = pos.pwq + 1
      PROVE  Passed' = Passed \cup {<<pos.wq, pos.pwq>>}
  <2>1. <<pos.wq, pos.pwq>> \in Pwqs(dump.wqs)
    BY <1>4, PoolIsPool
  <2>2. ASSUME NEW x \in Pwqs(dump.wqs)
        PROVE  x \in Passed' <=> x \in Passed \/ x = <<pos.wq, pos.pwq>>
    <3>1. x = <<x[1], x[2]>> /\ x[1] \in Nat /\ x[2] \in Nat
      BY <1>1
    <3>2. x \in Passed' <=> x[1] < pos.wq \/ (x[1] = pos.wq /\ x[2] < pos.pwq + 1)
      BY <1>2, <1>4 DEF Passed
    <3>3. x \in Passed <=> x[1] < pos.wq \/ (x[1] = pos.wq /\ x[2] < pos.pwq)
      BY DEF Passed
    <3>4. x = <<pos.wq, pos.pwq>> <=> x[1] = pos.wq /\ x[2] = pos.pwq
      BY <3>1
    <3> QED BY <1>1, <3>1, <3>2, <3>3, <3>4
  <2>3. Passed \subseteq Pwqs(dump.wqs) /\ Passed' \subseteq Pwqs(dump.wqs)
    BY <1>2 DEF Passed
  <2> QED BY <2>1, <2>2, <2>3
<1>5. ASSUME pos.pwq > Len(Wq), pos'.wq = pos.wq + 1, pos'.pwq = 1 PROVE Passed' = Passed
  <2>1. ASSUME NEW x \in Pwqs(dump.wqs) PROVE x \in Passed' <=> x \in Passed
    <3>1. x[1] \in Nat \ {0} /\ x[2] \in Nat \ {0} /\ x[2] <= Len(dump.wqs[x[1]])
          /\ Len(dump.wqs[x[1]]) \in Nat
      BY <1>1
    <3>2. x \in Passed' <=> x[1] < pos.wq + 1 \/ (x[1] = pos.wq + 1 /\ x[2] < 1)
      BY <1>2, <1>5 DEF Passed
    <3>3. x \in Passed <=> x[1] < pos.wq \/ (x[1] = pos.wq /\ x[2] < pos.pwq)
      BY DEF Passed
    <3>4. x[1] = pos.wq => Len(dump.wqs[x[1]]) = Len(Wq)
      BY DEF Wq
    <3> QED BY <1>1, <1>5, <3>1, <3>2, <3>3, <3>4
  <2>2. Passed \subseteq Pwqs(dump.wqs) /\ Passed' \subseteq Pwqs(dump.wqs)
    BY <1>2 DEF Passed
  <2> QED BY <2>1, <2>2
<1> QED BY <1>3, <1>4, <1>5

\* The pool_workqueue at hand leads to the pool at hand.
LEMMA PoolsMore == ASSUME NEW X PROVE PoolsAt(X \cup {<<pos.wq, pos.pwq>>}) = PoolsAt(X) \cup {PoolOf}
<1>1. ASSUME NEW x, x = <<pos.wq, pos.pwq>> PROVE dump.wqs[x[1]][x[2]] = PoolOf
  BY <1>1 DEF PoolOf, Wq
<1>2. ASSUME NEW x PROVE x \in X \cup {<<pos.wq, pos.pwq>>} <=> x \in X \/ x = <<pos.wq, pos.pwq>>
  OBVIOUS
<1>3. PoolsAt(X \cup {<<pos.wq, pos.pwq>>}) \subseteq PoolsAt(X) \cup {PoolOf}
  BY <1>1, <1>2 DEF PoolsAt
<1>4. PoolsAt(X) \cup {PoolOf} \subseteq PoolsAt(X \cup {<<pos.wq, pos.pwq>>})
  <2>1. PoolOf \in PoolsAt(X \cup {<<pos.wq, pos.pwq>>})
    <3>1. PICK x : x = <<pos.wq, pos.pwq>>
      BY Zenon
    <3>2. x \in X \cup {<<pos.wq, pos.pwq>>} /\ dump.wqs[x[1]][x[2]] = PoolOf
      BY <1>1, <1>2, <3>1
    <3> QED BY <3>2 DEF PoolsAt
  <2>2. PoolsAt(X) \subseteq PoolsAt(X \cup {<<pos.wq, pos.pwq>>})
    BY <1>2, Zenon DEF PoolsAt
  <2> QED BY <2>1, <2>2
<1> QED BY <1>3, <1>4, Zenon

\* One pool more is its workers more.
LEMMA WorkersMore == ASSUME NEW P, NEW p PROVE WorkersIn(P \cup {p}) = WorkersIn(P) \cup WorkersOf[p]
  BY DEF WorkersIn

\* The plugin starts with empty maps.
LEMMA InitFull == InitWq => FullInv
<1> SUFFICES ASSUME InitWq PROVE FullInv
  OBVIOUS
<1>1. pc = "wq" /\ pos.list = 0 /\ pos.workers = {} /\ pos.pools = <<>>
  BY DEF InitWq
<1>2. DOMAIN pos.pools = {}
  BY <1>1
<1> QED BY <1>1, <1>2 DEF FullInv, WorkersIn

\* Every step of a session that is not interrupted keeps the maps full.
LEMMA NextFull == ASSUME WqAssumption, IInv, ~dump.interrupts, FullInv, [NextWq]_wq PROVE FullInv'
<1>0. TypeInv /\ ParseInv /\ UNCHANGED dump
  BY DumpKept DEF IInv
<1>1. /\ UsedPools' = UsedPools
      /\ \A X : PoolsAt(X)' = PoolsAt(X)
  BY <1>0, SameDump
<1>2. pos.wq \in Nat \ {0} /\ pos.pwq \in Nat \ {0} /\ pos.list \in Nat /\ Len(dump.wqs) \in Nat
  BY <1>0, PwqFacts
<1>3. CASE Start
  <2>1. /\ pos'.pools = pos.pools /\ pos'.workers = pos.workers /\ pos'.list = pos.list
        /\ pos'.wq = 1 /\ pos'.pwq = 1
    BY <1>0, <1>3, Zenon DEF Start, TypeInv, Positions
  <2>3. PoolsAt(Passed)' = {}
    <3>1. ASSUME NEW x \in Pwqs(dump.wqs) PROVE ~(x[1] < 1 \/ (x[1] = 1 /\ x[2] < 1))
      <4>1. x[1] \in 1..Len(dump.wqs) /\ x[2] \in 1..Len(dump.wqs[x[1]])
        BY <1>0, PwqFacts
      <4> QED BY <4>1
    <3>2. Passed' = {}
      BY <1>0, <2>1, <3>1 DEF Passed, Pwqs
    <3> QED BY <3>2 DEF PoolsAt
  <2>4. pc = "wq" /\ pc' = IF pos.list = 0 THEN "pwq" ELSE "show"
    BY <1>3 DEF Start
  <2> QED BY <1>1, <2>1, <2>3, <2>4 DEF FullInv
<1>4. CASE ParsePool
  <2>1. pc = "pwq" /\ pos.wq <= Len(dump.wqs) /\ pos.pwq <= Len(Wq)
    BY <1>4 DEF ParsePool
  <2>2. CASE PoolOf \in DOMAIN pos.pools
    <3>1. UNCHANGED pos /\ pc' = "delayed"
      BY <1>4, <2>2 DEF ParsePool
    <3>2. PoolOf' = PoolOf /\ Passed' = Passed
      BY <1>0, <3>1 DEF PoolOf, Wq, Passed
    <3> QED BY <1>1, <2>1, <2>2, <3>1, <3>2 DEF FullInv
  <2>3. CASE PoolOf \notin DOMAIN pos.pools
    <3>1. pos' = [pos EXCEPT !.workers = pos.workers \cup WorkersOf[PoolOf]] /\ pc' = "idle"
      BY <1>4, <2>3 DEF ParsePool
    <3>2. /\ pos'.pools = pos.pools /\ pos'.list = pos.list /\ pos'.wq = pos.wq /\ pos'.pwq = pos.pwq
          /\ pos'.workers = pos.workers \cup WorkersOf[PoolOf]
      BY <1>0, <3>1, Zenon DEF TypeInv, Positions
    <3>3. PoolOf' = PoolOf /\ Passed' = Passed
      BY <1>0, <3>2 DEF PoolOf, Wq, Passed
    <3>4. pos'.workers = WorkersIn(DOMAIN pos.pools \cup {PoolOf})
      BY <2>1, <3>2, WorkersMore, Zenon DEF FullInv
    <3> QED BY <1>1, <2>1, <3>1, <3>2, <3>3, <3>4, Zenon DEF FullInv
  <2> QED BY <2>2, <2>3
<1>5. CASE ParseIdle
  <2>1. /\ pc = "idle" /\ pc' = "delayed"
        /\ pos'.workers = pos.workers /\ pos'.list = pos.list /\ pos'.wq = pos.wq /\ pos'.pwq = pos.pwq
        /\ DOMAIN pos'.pools = DOMAIN pos.pools \cup {PoolOf}
    BY <1>0, <1>5, Zenon DEF ParseIdle, TypeInv, Positions
  <2>2. PoolOf' = PoolOf /\ Passed' = Passed
    BY <1>0, <2>1 DEF PoolOf, Wq, Passed
  <2> QED BY <1>1, <2>1, <2>2 DEF FullInv
<1>6. CASE ParseDelayed
  <2>1. pc = "delayed" /\ pc' = "pwq" /\ pos.wq \in DOMAIN dump.wqs /\ pos.pwq \in DOMAIN Wq
    BY <1>0, <1>6 DEF ParseDelayed, ParseInv
  <2>2. /\ pos'.workers = pos.workers /\ pos'.list = pos.list /\ pos'.wq = pos.wq /\ pos'.pwq = pos.pwq + 1
        /\ DOMAIN pos'.pools = DOMAIN pos.pools
    BY <1>0, <1>6, Zenon DEF ParseDelayed, TypeInv, Positions
  <2>3. Passed' = Passed \cup {<<pos.wq, pos.pwq>>}
    BY <1>0, <2>1, <2>2, PassedMoves
  <2>4. PoolsAt(Passed)' = PoolsAt(Passed) \cup {PoolOf}
    <3>1. PoolsAt(Passed)' = PoolsAt(Passed \cup {<<pos.wq, pos.pwq>>})
      BY <1>0, <2>3 DEF PoolsAt
    <3> QED BY <3>1, PoolsMore
  <2> QED BY <1>1, <2>1, <2>2, <2>4 DEF FullInv
<1>7. CASE EndWorkqueue
  <2>1. pc = "pwq" /\ pc' = "pwq" /\ pos.pwq > Len(Wq)
    BY <1>7 DEF EndWorkqueue
  <2>2. /\ pos'.pools = pos.pools /\ pos'.workers = pos.workers /\ pos'.list = pos.list + 1
        /\ pos'.wq = pos.wq + 1 /\ pos'.pwq = 1
    BY <1>0, <1>7, Zenon DEF EndWorkqueue, TypeInv, Positions
  <2>3. PoolsAt(Passed)' = PoolsAt(Passed)
    <3>1. Passed' = Passed
      BY <1>0, <2>1, <2>2, PassedMoves
    <3> QED BY <1>0, <3>1 DEF PoolsAt
  <2>4. pos'.list = pos'.wq - 1
    BY <1>2, <2>1, <2>2 DEF FullInv
  <2> QED BY <1>1, <2>1, <2>2, <2>3, <2>4 DEF FullInv
<1>8. CASE EndParse
  <2>1. pc = "pwq" /\ pc' = "show" /\ UNCHANGED pos /\ pos.wq > Len(dump.wqs)
    BY <1>8 DEF EndParse
  <2>2. DOMAIN pos.pools = UsedPools /\ pos.list = pos.wq - 1
    BY <1>0, <2>1, PassedFacts DEF FullInv
  <2>3. pos.list = 0 => UsedPools = {}
    <3>1. pos.list = 0 => Len(dump.wqs) = 0
      BY <1>2, <2>1, <2>2
    <3> QED BY <1>0, <3>1, PassedFacts
  <2> QED BY <1>1, <2>1, <2>2, <2>3 DEF FullInv
<1>9. CASE pc = "show" /\ pc' = "wq" /\ UNCHANGED pos
  BY <1>1, <1>9 DEF FullInv
<1>10. CASE UNCHANGED wq
  <2>1. dump' = dump /\ pc' = pc /\ pos' = pos
    BY <1>10 DEF wq
  <2>2. PoolsAt(Passed)' = PoolsAt(Passed) /\ PoolOf' = PoolOf /\ UsedPools' = UsedPools
    BY <2>1 DEF PoolsAt, Passed, PoolOf, Wq, UsedPools
  <2> QED BY <2>1, <2>2 DEF FullInv
<1>11. ASSUME PrintWorkers \/ PrintPools \/ \E p \in Pools : PrintPool(p)
       PROVE  pc = "show" /\ pc' = "wq" /\ UNCHANGED pos
  BY <1>11, Zenon DEF PrintWorkers, PrintPools, PrintPool
<1>12. ~Restart
  BY DEF Restart
<1> QED BY <1>3, <1>4, <1>5, <1>6, <1>7, <1>8, <1>9, <1>10, <1>11, <1>12 DEF NextWq

\* What is printed from full maps is complete.
LEMMA NextComplete ==
  ASSUME WqAssumption, IInv, ~dump.interrupts => FullInv, WqComplete, [NextWq]_wq PROVE WqComplete'
<1>0. UNCHANGED dump
  BY DumpKept
<1>1. UsedPools' = UsedPools
  BY <1>0, SameDump
<1> SUFFICES ASSUME ~dump.interrupts PROVE WqComplete'
  BY <1>0, Zenon DEF WqComplete
<1>2. CASE UNCHANGED out
  BY <1>0, <1>1, <1>2, Zenon DEF WqComplete
<1>3. CASE out' = NoOut
  BY <1>3, Zenon DEF WqComplete, NoOut
<1>4. CASE PrintWorkers
  <2>1. /\ pc = "show"
        /\ out' = [op |-> "w", workers |-> {<<w, Idle(w)>> : w \in pos.workers}]
    BY <1>4 DEF PrintWorkers
  <2>2. DOMAIN pos.pools = UsedPools /\ pos.workers = WorkersIn(UsedPools)
    BY <2>1 DEF FullInv
  <2>3. ASSUME NEW w \in pos.workers PROVE Idle(w) = (w \in dump.idle)
    BY <2>2 DEF IInv, CacheInv, Idle, WorkersIn
  <2>4. {<<w, Idle(w)>> : w \in pos.workers} = {<<w, w \in dump.idle>> : w \in WorkersIn(UsedPools)}
    BY <2>2, <2>3, Zenon
  <2> QED BY <1>0, <1>1, <2>1, <2>4, Zenon DEF WqComplete, WorkersIn
<1>5. CASE PrintPools
  <2>1. pc = "show" /\ out' = [op |-> "p", pools |-> DOMAIN pos.pools]
    BY <1>5 DEF PrintPools
  <2> QED BY <1>1, <2>1, Zenon DEF WqComplete, FullInv
<1>6. ASSUME NEW p \in Pools, PrintPool(p) PROVE WqComplete'
  <2>1. pc = "show" /\ DOMAIN pos.pools = UsedPools
    BY <1>6, Zenon DEF PrintPool, FullInv
  <2>2. \/ p \in UsedPools /\ out'.op = "P" /\ out'.pool = p
        \/ p \notin UsedPools /\ out'.op = "no pool" /\ out'.pool = p
    BY <1>6, <2>1, Zenon DEF PrintPool
  <2> QED BY <1>1, <2>2, Zenon DEF WqComplete
<1>7. UNCHANGED out \/ out' = NoOut \/ PrintWorkers \/ PrintPools \/ \E p \in Pools : PrintPool(p)
  BY Zenon DEF NextWq, wq, Start, ParsePool, ParseIdle, ParseDelayed, EndWorkqueue, EndParse, Restart
<1> QED BY <1>2, <1>3, <1>4, <1>5, <1>6, <1>7

\* What wq says of workers, pools and delayed works is right after any abandoned command,
\* and complete when none was, for any lists of workqueues and any pools.
THEOREM WqIsExact == ASSUME WqAssumption PROVE SpecWq => []WqExact
<1> DEFINE Full == IInv /\ (~dump.interrupts => FullInv) /\ WqComplete
<1>1. InitWq => Full
  <2>1. InitWq => WqComplete
    BY DEF InitWq, NoOut, WqComplete
  <2> QED BY <2>1, InitInv, InitFull
<1>2. Full /\ [NextWq]_wq => Full'
  <2> SUFFICES ASSUME Full, [NextWq]_wq PROVE Full'
    OBVIOUS
  <2>1. IInv'
    BY NextInv
  <2>2. WqComplete'
    BY NextComplete
  <2>3. (~dump.interrupts => FullInv)'
    BY NextFull, DumpKept
  <2> QED BY <2>1, <2>2, <2>3
<1>3. Full => WqComplete
  OBVIOUS
<1>4. SpecWq => []WqSound
  BY WqIsSound
<1> HIDE DEF Full
<1> QED BY <1>1, <1>2, <1>3, <1>4, PTL DEF SpecWq, WqExact

-----------------------------------------------------------------------------
(***************************************************************************)
(* sfg (module SurfaceFlinger): that a command has its process, and what   *)
(* else can go wrong, for every dump and number of commands.  The model is *)
(* taken in by INSTANCE, with its own constants and these variables.       *)
(***************************************************************************)

CONSTANTS AllocLists, HandleMaps, FileTables, Fds, UintMod, Distance, Top, WordMod, MaxSfCmds
G == INSTANCE SurfaceFlinger

\* The fields the proof is about; done counts the options of the running command that
\* have ended.
Shape(p) == {"op", "done", "task_ptr"} \subseteq DOMAIN p

\* Between the options of a command task_ptr is there exactly until the first one ends.
TaskInv ==
  /\ Shape(pos) /\ pos.done \in Nat
  /\ pc = "init_env" => pos.done = 0
  /\ pc = "option" => (pos.task_ptr = TRUE /\ pos.done = 0) \/ (pos.task_ptr = FALSE /\ pos.done > 0)
  /\ pc \in {"alloc", "imported"} => pos.task_ptr = TRUE /\ pos.done = 0
  /\ pc = "undefined" /\ pos.op = "null" => pos.done > 0

\* The end of an option drops the process and counts the option.
LEMMA ResetEnds ==
  ASSUME Shape(pos), pos.done \in Nat
  PROVE  /\ Shape(G!Reset(pos))
         /\ G!Reset(pos).task_ptr = FALSE
         /\ G!Reset(pos).done \in Nat
         /\ G!Reset(pos).done > 0
<1>1. Shape(G!Reset(pos)) /\ G!Reset(pos).task_ptr = FALSE /\ G!Reset(pos).done = pos.done + 1
  BY Zenon DEF Shape, G!Reset
<1>2. pos.done + 1 \in Nat /\ pos.done + 1 > 0
  BY SMT
<1>3. QED
  BY <1>1, <1>2, Zenon

\* init_env and the resets at the ends of parser_gralloc4 and parser_gralloc5: whatever
\* the dump and the commands, the first option of a command has the UTask it goes
\* through, and only a later one has none.
THEOREM TaskIsThere == G!Spec => []G!TaskForFirstOption
<1>1. G!Init => TaskInv
  <2>1. 0 \in Nat
    BY SMT
  <2>2. ASSUME G!Init
        PROVE  pc = "prompt" /\ Shape(pos) /\ pos.done = 0
    <3>1. /\ pc = "prompt"
          /\ pos = [cmds |-> 0, args |-> <<>>, op |-> "", done |-> 0, task_ptr |-> FALSE,
                    i |-> 1, todo |-> {}, oss |-> <<>>, total |-> 0]
      BY <2>2, Zenon DEF G!Init
    <3>2. pos.done = 0
      BY <3>1, Zenon
    <3>3. Shape(pos)
      BY <3>1, Zenon DEF Shape
    <3>4. QED
      BY <3>1, <3>2, <3>3, Zenon
  <2>3. QED
    BY <2>1, <2>2, Zenon DEF TaskInv
<1>2. TaskInv /\ [G!Next]_(G!vars) => TaskInv'
  <2> SUFFICES ASSUME TaskInv, [G!Next]_(G!vars)
               PROVE  TaskInv'
    OBVIOUS
  <2>1. Shape(pos) /\ pos.done \in Nat
    BY Zenon DEF TaskInv
  <2>2. ASSUME pos' = G!Reset(pos), pc' = "option"
        PROVE  TaskInv'
    BY <2>1, <2>2, ResetEnds, Zenon DEF TaskInv
  <2>3. ASSUME Shape(pos'), pos'.done = pos.done, pc' = "undefined", pos'.op # "null"
        PROVE  TaskInv'
    BY <2>1, <2>3, Zenon DEF TaskInv
  <2>4. ASSUME Shape(pos'), pos'.done = pos.done, pos'.task_ptr = pos.task_ptr, pc' = pc, pc # "undefined"
        PROVE  TaskInv'
    BY <2>4, Zenon DEF TaskInv
  <2>5. CASE G!CmdMain
    <3>1. Shape(pos') /\ pos'.done = 0 /\ pc' = "init_env"
      BY <2>1, <2>5, Zenon DEF G!CmdMain, Shape
    <3>2. 0 \in Nat
      BY SMT
    <3>3. QED
      BY <3>1, <3>2, Zenon DEF TaskInv
  <2>6. CASE G!InitEnv
    <3>1. Shape(pos') /\ pos'.done = pos.done /\ pos'.task_ptr = (pos.task_ptr \/ dump.proc)
      BY <2>1, <2>6, Zenon DEF G!InitEnv, Shape
    <3>2. pos.done = 0 /\ pc' = IF dump.proc THEN "option" ELSE "prompt"
      BY <2>6, Zenon DEF G!InitEnv, TaskInv
    <3>3. QED
      BY <2>1, <3>1, <3>2, Zenon DEF TaskInv
  <2>7. CASE G!Option
    <3>1. CASE pos' = pos /\ pc' = "prompt"
      BY <2>1, <3>1, Zenon DEF TaskInv
    <3>2. CASE pos' = [pos EXCEPT !.args = Tail(@)] /\ pc' = pc
      <4>1. Shape(pos') /\ pos'.done = pos.done /\ pos'.task_ptr = pos.task_ptr
        BY <2>1, <3>2, Zenon DEF Shape
      <4>2. QED
        BY <2>4, <2>7, <3>2, <4>1, Zenon DEF G!Option
    <3>3. CASE ~pos.task_ptr /\ pos' = [pos EXCEPT !.op = "null"] /\ pc' = "undefined"
      <4>1. Shape(pos') /\ pos'.done = pos.done
        BY <2>1, <3>3, Zenon DEF Shape
      <4>2. pos.done > 0
        BY <2>7, <3>3, Zenon DEF TaskInv, G!Option
      <4>3. QED
        BY <2>1, <3>3, <4>1, <4>2, Zenon DEF TaskInv
    <3>4. CASE pos' = G!Reset(pos) /\ pc' = pc
      BY <2>2, <2>7, <3>4, Zenon DEF G!Option
    <3>5. CASE /\ pos.task_ptr /\ pc' = "alloc"
               /\ pos' = [pos EXCEPT !.op = Head(pos.args), !.i = 1, !.total = 0, !.oss = <<>>]
      <4>1. Shape(pos') /\ pos'.done = pos.done /\ pos'.task_ptr = pos.task_ptr
        BY <2>1, <3>5, Zenon DEF Shape
      <4>2. pos.task_ptr = TRUE /\ pos.done = 0
        BY <2>7, <3>5, Zenon DEF TaskInv, G!Option
      <4>3. QED
        BY <2>1, <3>5, <4>1, <4>2, Zenon DEF TaskInv
    <3>6. QED
      BY <2>7, <3>1, <3>2, <3>3, <3>4, <3>5, Zenon DEF G!Option
  <2>8. CASE G!DumpAlloc
    <3>1. \/ pc' = "undefined" /\ pos' = [pos EXCEPT !.op = "fd"]
          \/ pc' = pc /\ pos' = [pos EXCEPT !.i = @ + 1]
          \/ pc' = pc /\ \E total, oss : pos' = [pos EXCEPT !.i = @ + 1, !.total = total, !.oss = oss]
      BY <2>8, Zenon DEF G!DumpAlloc
    <3>2. CASE pc' = "undefined" /\ pos' = [pos EXCEPT !.op = "fd"]
      <4>1. Shape(pos') /\ pos'.done = pos.done /\ pos'.op # "null"
        BY <2>1, <3>2, Zenon DEF Shape
      <4>2. QED
        BY <2>3, <3>2, <4>1, Zenon
    <3>3. CASE pc' = pc /\ pos' = [pos EXCEPT !.i = @ + 1]
      <4>1. Shape(pos') /\ pos'.done = pos.done /\ pos'.task_ptr = pos.task_ptr
        BY <2>1, <3>3, Zenon DEF Shape
      <4>2. QED
        BY <2>4, <2>8, <3>3, <4>1, Zenon DEF G!DumpAlloc
    <3>4. ASSUME NEW total, NEW oss, pc' = pc, pos' = [pos EXCEPT !.i = @ + 1, !.total = total, !.oss = oss]
          PROVE  TaskInv'
      <4>1. Shape(pos') /\ pos'.done = pos.done /\ pos'.task_ptr = pos.task_ptr
        BY <2>1, <3>4, Zenon DEF Shape
      <4>2. QED
        BY <2>4, <2>8, <3>4, <4>1, Zenon DEF G!DumpAlloc
    <3>5. QED
      BY <3>1, <3>2, <3>3, <3>4, Zenon
  <2>9. CASE G!PrintAlloc
    <3>1. \/ pc' = "option" /\ pos' = G!Reset(pos)
          \/ pc' = "undefined" /\ pos' = [pos EXCEPT !.op = "text"]
          \/ pc' = "imported" /\ pos' = [pos EXCEPT !.todo = dump.imported, !.oss = <<>>]
      BY <2>9, Zenon DEF G!PrintAlloc
    <3>2. CASE pc' = "undefined" /\ pos' = [pos EXCEPT !.op = "text"]
      <4>1. Shape(pos') /\ pos'.done = pos.done /\ pos'.op # "null"
        BY <2>1, <3>2, Zenon DEF Shape
      <4>2. QED
        BY <2>3, <3>2, <4>1, Zenon
    <3>3. CASE pc' = "imported" /\ pos' = [pos EXCEPT !.todo = dump.imported, !.oss = <<>>]
      <4>1. Shape(pos') /\ pos'.done = pos.done /\ pos'.task_ptr = pos.task_ptr
        BY <2>1, <3>3, Zenon DEF Shape
      <4>2. pos.task_ptr = TRUE /\ pos.done = 0
        BY <2>9, Zenon DEF TaskInv, G!PrintAlloc
      <4>3. QED
        BY <2>1, <3>3, <4>1, <4>2, Zenon DEF TaskInv
    <3>4. QED
      BY <2>2, <3>1, <3>2, <3>3, Zenon
  <2>10. CASE G!DumpImported
    <3>1. \/ pc' = "option" /\ pos' = G!Reset(pos)
          \/ pc' = "undefined" /\ pos' = [pos EXCEPT !.op = "fd"]
          \/ pc' = pc /\ \E todo, oss : pos' = [pos EXCEPT !.todo = todo, !.oss = oss]
      BY <2>10, Zenon DEF G!DumpImported
    <3>2. CASE pc' = "undefined" /\ pos' = [pos EXCEPT !.op = "fd"]
      <4>1. Shape(pos') /\ pos'.done = pos.done /\ pos'.op # "null"
        BY <2>1, <3>2, Zenon DEF Shape
      <4>2. QED
        BY <2>3, <3>2, <4>1, Zenon
    <3>3. ASSUME NEW todo, NEW oss, pc' = pc, pos' = [pos EXCEPT !.todo = todo, !.oss = oss]
          PROVE  TaskInv'
      <4>1. Shape(pos') /\ pos'.done = pos.done /\ pos'.task_ptr = pos.task_ptr
        BY <2>1, <3>3, Zenon DEF Shape
      <4>2. QED
        BY <2>4, <2>10, <3>3, <4>1, Zenon DEF G!DumpImported
    <3>4. QED
      BY <2>2, <3>1, <3>2, <3>3, Zenon
  <2>11. CASE G!Restart
    <3>1. Shape(pos') /\ pos'.done = pos.done /\ pc' = "prompt"
      BY <2>1, <2>11, Zenon DEF G!Restart, Shape
    <3>2. QED
      BY <2>1, <3>1, Zenon DEF TaskInv
  <2>12. CASE UNCHANGED G!vars
    BY <2>12, Zenon DEF G!vars, TaskInv, Shape
  <2>13. QED
    BY <2>5, <2>6, <2>7, <2>8, <2>9, <2>10, <2>11, <2>12, Zenon DEF G!Next
<1>3. TaskInv => G!TaskForFirstOption
  BY Zenon DEF TaskInv, G!TaskForFirstOption
<1>4. QED
  BY <1>1, <1>2, <1>3, PTL DEF G!Spec

\* Where the loops over the buffers are: inside the vector and the map of the dump.
PlaceInv ==
  /\ {"op", "i", "todo"} \subseteq DOMAIN pos
  /\ dump.allocs \in AllocLists
  /\ pc = "alloc" => pos.i \in Nat \ {0}
  /\ pc = "imported" => pos.todo \subseteq dump.imported
  /\ G!UndefinedOnlyAt

\* A step to a place other than "undefined" keeps the invariant if the loops stay inside.
LEMMA PlaceKept ==
  ASSUME PlaceInv, UNCHANGED dump, {"op", "i", "todo"} \subseteq DOMAIN pos', pc' # "undefined",
         pc' = "alloc" => pos'.i \in Nat \ {0},
         pc' = "imported" => pos'.todo \subseteq dump.imported
  PROVE  PlaceInv'
<1>1. G!UndefinedOnlyAt'
  BY Zenon DEF G!UndefinedOnlyAt
<1> QED BY <1>1, Zenon DEF PlaceInv

\* A step to "undefined" keeps it if the reason is one of those named.
LEMMA PlaceLost ==
  ASSUME PlaceInv, UNCHANGED dump, {"op", "i", "todo"} \subseteq DOMAIN pos', pc' = "undefined",
         \/ pos'.op = "null"
         \/ pos'.op = "text" /\ dump.lib = "data"
         \/ /\ pos'.op = "fd"
            /\ \E h \in dump.imported \cup {x.handle : x \in G!Range(dump.allocs)} :
                 h.kind # "none" /\ \E fd \in G!FdOf(h) : ~G!InTable(fd)
  PROVE  PlaceInv'
<1>1. G!UndefinedOnlyAt'
  BY Zenon DEF G!UndefinedOnlyAt, G!InTable
<1> QED BY <1>1, Zenon DEF PlaceInv

\* The item a turn of the loop over the allocator looks at is one of the allocator's.
LEMMA ItemOf ==
  ASSUME G!SfAssumption, PlaceInv, pc = "alloc", pos.i <= Len(G!Allocs)
  PROVE  G!Allocs[pos.i] \in G!Range(dump.allocs)
<1>1. dump.allocs \in Seq(G!Range(dump.allocs)) /\ pos.i \in Nat \ {0}
  BY Zenon DEF PlaceInv, G!SfAssumption
<1>2. G!Allocs = dump.allocs
  BY <1>1 DEF G!Allocs
<1>3. pos.i \in DOMAIN dump.allocs
  BY <1>1, <1>2
<1> QED BY <1>2, <1>3 DEF G!Range

\* sfg goes through a descriptor or a library it has not looked up only when the dump has
\* a handle with a descriptor outside the table of files, or a library without its text:
\* bufferDumpHelper and get_min_vma_start, for every dump and number of commands.
THEOREM UndefinedIsKnown == ASSUME G!SfAssumption PROVE G!Spec => []G!UndefinedOnlyAt
<1> DEFINE Fields == {"op", "i", "todo"}
<1>1. G!Init => PlaceInv
  <2> SUFFICES ASSUME G!Init PROVE PlaceInv
    OBVIOUS
  <2>1. pc = "prompt" /\ dump.allocs \in AllocLists
    BY Zenon DEF G!Init
  <2>2. Fields \subseteq DOMAIN pos
    BY Zenon DEF G!Init
  <2> QED BY <2>1, <2>2, Zenon DEF PlaceInv, G!UndefinedOnlyAt
<1>2. PlaceInv /\ [G!Next]_(G!vars) => PlaceInv'
  <2> SUFFICES ASSUME PlaceInv, [G!Next]_(G!vars) PROVE PlaceInv'
    OBVIOUS
  <2>0. Fields \subseteq DOMAIN pos
    BY Zenon DEF PlaceInv
  <2>1. CASE G!CmdMain
    <3>1. UNCHANGED dump /\ Fields \subseteq DOMAIN pos' /\ pc' = "init_env"
      BY <2>0, <2>1, Zenon DEF G!CmdMain
    <3> QED BY <3>1, PlaceKept, Zenon
  <2>2. CASE G!InitEnv
    <3>1. UNCHANGED dump /\ Fields \subseteq DOMAIN pos' /\ pc' \in {"option", "prompt"}
      BY <2>0, <2>2, Zenon DEF G!InitEnv
    <3> QED BY <3>1, PlaceKept, Zenon
  <2>3. ASSUME UNCHANGED dump, pos' = G!Reset(pos), pc' = "option" PROVE PlaceInv'
    <3>1. Fields \subseteq DOMAIN pos'
      BY <2>0, <2>3, Zenon DEF G!Reset
    <3> QED BY <2>3, <3>1, PlaceKept, Zenon
  <2>4. CASE G!Option
    <3>1. UNCHANGED dump /\ pc = "option"
      BY <2>4, Zenon DEF G!Option
    <3>2. CASE pos' = pos /\ pc' = "prompt"
      BY <2>0, <3>1, <3>2, PlaceKept, Zenon
    <3>3. CASE pos' = [pos EXCEPT !.args = Tail(@)] /\ pc' = pc
      <4>1. Fields \subseteq DOMAIN pos'
        BY <2>0, <3>3, Zenon
      <4> QED BY <3>1, <3>3, <4>1, PlaceKept, Zenon
    <3>4. CASE pos' = [pos EXCEPT !.op = "null"] /\ pc' = "undefined"
      <4>1. Fields \subseteq DOMAIN pos' /\ pos'.op = "null"
        BY <2>0, <3>4, Zenon
      <4> QED BY <3>1, <3>4, <4>1, PlaceLost, Zenon
    <3>5. CASE pos' = G!Reset(pos) /\ pc' = pc
      BY <2>3, <3>1, <3>5, Zenon
    <3>6. CASE pc' = "alloc" /\ pos' = [pos EXCEPT !.op = Head(pos.args), !.i = 1, !.total = 0, !.oss = <<>>]
      <4>1. Fields \subseteq DOMAIN pos' /\ pos'.i = 1
        BY <2>0, <3>6, Zenon
      <4>2. 1 \in Nat \ {0}
        OBVIOUS
      <4> QED BY <3>1, <3>6, <4>1, <4>2, PlaceKept, Zenon
    <3> QED BY <2>4, <3>2, <3>3, <3>4, <3>5, <3>6, Zenon DEF G!Option
  <2>5. CASE G!DumpAlloc
    <3>1. UNCHANGED dump /\ pc = "alloc" /\ pos.i <= Len(G!Allocs)
      BY <2>5, Zenon DEF G!DumpAlloc
    <3>2. G!Allocs[pos.i] \in G!Range(dump.allocs)
      BY <3>1, ItemOf
    <3>3. \/ /\ pc' = "undefined" /\ pos' = [pos EXCEPT !.op = "fd"]
             /\ G!Allocs[pos.i].handle.kind # "none"
             /\ \E fd \in G!FdOf(G!Allocs[pos.i].handle) : ~G!InTable(fd)
          \/ pc' = pc /\ pos' = [pos EXCEPT !.i = @ + 1]
          \/ pc' = pc /\ \E total, oss : pos' = [pos EXCEPT !.i = @ + 1, !.total = total, !.oss = oss]
      BY <2>5, Zenon DEF G!DumpAlloc
    <3>4. pos.i + 1 \in Nat \ {0}
      <4>1. pos.i \in Nat
        BY <3>1, Zenon DEF PlaceInv
      <4> QED BY <4>1
    <3>5. CASE /\ pc' = "undefined" /\ pos' = [pos EXCEPT !.op = "fd"]
               /\ G!Allocs[pos.i].handle.kind # "none"
               /\ \E fd \in G!FdOf(G!Allocs[pos.i].handle) : ~G!InTable(fd)
      <4>1. Fields \subseteq DOMAIN pos' /\ pos'.op = "fd"
        BY <2>0, <3>5, Zenon
      <4> QED BY <3>1, <3>2, <3>5, <4>1, PlaceLost, Zenon
    <3>6. CASE pc' = pc /\ pos' = [pos EXCEPT !.i = @ + 1]
      <4>1. Fields \subseteq DOMAIN pos' /\ pos'.i = pos.i + 1
        BY <2>0, <3>6, Zenon
      <4> QED BY <3>1, <3>4, <3>6, <4>1, PlaceKept, Zenon
    <3>7. ASSUME NEW total, NEW oss, pc' = pc, pos' = [pos EXCEPT !.i = @ + 1, !.total = total, !.oss = oss]
          PROVE  PlaceInv'
      <4>1. Fields \subseteq DOMAIN pos' /\ pos'.i = pos.i + 1
        BY <2>0, <3>7, Zenon
      <4> QED BY <3>1, <3>4, <3>7, <4>1, PlaceKept, Zenon
    <3> QED BY <3>3, <3>5, <3>6, <3>7, Zenon
  <2>6. CASE G!PrintAlloc
    <3>1. /\ UNCHANGED dump
          /\ \/ pc' = "option" /\ pos' = G!Reset(pos)
             \/ pc' = "undefined" /\ dump.lib = "data" /\ pos' = [pos EXCEPT !.op = "text"]
             \/ pc' = "imported" /\ pos' = [pos EXCEPT !.todo = dump.imported, !.oss = <<>>]
      BY <2>6, Zenon DEF G!PrintAlloc
    <3>2. CASE pc' = "undefined" /\ dump.lib = "data" /\ pos' = [pos EXCEPT !.op = "text"]
      <4>1. Fields \subseteq DOMAIN pos' /\ pos'.op = "text"
        BY <2>0, <3>2, Zenon
      <4> QED BY <3>1, <3>2, <4>1, PlaceLost, Zenon
    <3>3. CASE pc' = "imported" /\ pos' = [pos EXCEPT !.todo = dump.imported, !.oss = <<>>]
      <4>1. Fields \subseteq DOMAIN pos' /\ pos'.todo = dump.imported
        BY <2>0, <3>3, Zenon
      <4> QED BY <3>1, <3>3, <4>1, PlaceKept, Zenon
    <3> QED BY <2>3, <3>1, <3>2, <3>3, Zenon
  <2>7. CASE G!DumpImported
    <3>1. UNCHANGED dump /\ pc = "imported" /\ pos.todo \subseteq dump.imported
      BY <2>7, Zenon DEF G!DumpImported, PlaceInv
    <3>2. CASE pc' = "option" /\ pos' = G!Reset(pos)
      BY <2>3, <3>1, <3>2, Zenon
    <3>3. ASSUME NEW h \in pos.todo, NEW fd \in G!FdOf(h), h.kind # "none", ~G!InTable(fd),
                 pc' = "undefined", pos' = [pos EXCEPT !.op = "fd"]
          PROVE  PlaceInv'
      <4>1. Fields \subseteq DOMAIN pos' /\ pos'.op = "fd"
        BY <2>0, <3>3, Zenon
      <4>2. h \in dump.imported
        BY <3>1, Zenon
      <4> QED BY <3>1, <3>3, <4>1, <4>2, PlaceLost, Zenon
    <3>4. ASSUME NEW h, NEW oss, pc' = pc, pos' = [pos EXCEPT !.todo = @ \ {h}, !.oss = oss]
          PROVE  PlaceInv'
      <4>1. Fields \subseteq DOMAIN pos' /\ pos'.todo = pos.todo \ {h}
        BY <2>0, <3>4, Zenon
      <4> QED BY <3>1, <3>4, <4>1, PlaceKept, Zenon
    <3> QED BY <2>7, <3>2, <3>3, <3>4, Zenon DEF G!DumpImported
  <2>8. CASE G!Restart
    <3>1. UNCHANGED dump /\ Fields \subseteq DOMAIN pos' /\ pc' = "prompt"
      BY <2>0, <2>8, Zenon DEF G!Restart
    <3> QED BY <3>1, PlaceKept, Zenon
  <2>9. CASE UNCHANGED G!vars
    BY <2>9, Zenon DEF G!vars, PlaceInv, G!UndefinedOnlyAt, G!InTable
  <2> QED BY <2>1, <2>2, <2>4, <2>5, <2>6, <2>7, <2>8, <2>9, Zenon DEF G!Next
<1>3. PlaceInv => G!UndefinedOnlyAt
  BY Zenon DEF PlaceInv
<1> QED BY <1>1, <1>2, <1>3, PTL DEF G!Spec

=============================================================================
