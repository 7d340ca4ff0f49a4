------------------------- MODULE SlubSession_proofs -------------------------
(***************************************************************************)
(* slub over a session: the list of caches and their sizes are right       *)
(* whatever is interrupted, and the listings complete, for any number of   *)
(* caches, objects and commands; and the search memchr_inv.                *)
(***************************************************************************)
EXTENDS SlubSession, Sums

\* All caches are in the list, in some order, and all of them are counted.
Full ==
  /\ Len(cache_list) = Len(slab_caches)
  /\ Range(cache_list) = Cache
  /\ \A k \in Cache : total_size[k] = NumObjects(k)

\* The list is made of different caches, a size is right or not yet counted, and the
\* first loop has copied the beginning of the kernel's list.
KeptInv ==
  /\ cache_list \in Seq(Cache)
  /\ IsInjective(cache_list)
  /\ total_size \in [Cache -> {NumObjects(k) : k \in Cache} \cup {0}]
  /\ \A k \in Cache : total_size[k] \in {0, NumObjects(k)}
  /\ pc \in {"parser_slab_caches", "totals"} => next \in Nat \ {0}
  /\ pc = "parser_slab_caches" =>
       /\ Len(cache_list) = next - 1 /\ next - 1 <= Len(slab_caches)
       /\ \A i \in DOMAIN cache_list : cache_list[i] = slab_caches[i]

\* In a session without interrupts the second loop has all caches before it, an option
\* finds everything parsed, and what is on the screen shows it.
ShownInv ==
  ~interrupts /\ depot =>
    /\ pc = "totals" =>
         /\ Len(cache_list) = Len(slab_caches) /\ Range(cache_list) = Cache
         /\ \A i \in DOMAIN cache_list : i < next => total_size[cache_list[i]] = NumObjects(cache_list[i])
    /\ pc \in {"option", "parser_slub_trace"} => Full
    /\ pc = "idle" => cache_list = <<>> \/ Full

SessionInv ==
  /\ KeptInv /\ ShownInv
  /\ pc # "idle" => out = <<>>
  /\ pc = "parser_slub_trace" => op \in {"tA", "tF", "l"}
  /\ ListingComplete /\ SummarySorted

\* A list without repetitions in another order.
LEMMA Permuted ==
  ASSUME NEW T, NEW s \in Seq(T), IsInjective(s), NEW p \in Bijection(DOMAIN s, DOMAIN s), NEW q,
         q = [i \in DOMAIN s |-> s[p[i]]]
  PROVE  /\ q \in Seq(T) /\ Len(q) = Len(s) /\ DOMAIN q = DOMAIN s
         /\ IsInjective(q)
         /\ Range(q) = Range(s)
<1>1. /\ p \in [DOMAIN s -> DOMAIN s]
      /\ \A i, j \in DOMAIN s : p[i] = p[j] => i = j
      /\ \A j \in DOMAIN s : \E i \in DOMAIN s : p[i] = j
  BY DEF Bijection, Injection, Surjection, IsInjective
<1>2. DOMAIN s = 1..Len(s) /\ Len(s) \in Nat /\ \A i \in DOMAIN s : s[i] \in T
  OBVIOUS
<1>3. q \in Seq(T) /\ Len(q) = Len(s) /\ DOMAIN q = DOMAIN s
  BY <1>1, <1>2
<1>4. IsInjective(q)
  BY <1>1, <1>3 DEF IsInjective
<1>5. Range(q) = Range(s)
  BY <1>1, <1>3 DEF Range
<1> QED BY <1>3, <1>4, <1>5

\* A session does not change the kernel.
LEMMA SameDump ==
  ASSUME [NextSession]_session
  PROVE  /\ interrupts' = interrupts /\ depot' = depot
         /\ \A k : NumObjects(k)' = NumObjects(k)
<1>1. objs' = objs /\ interrupts' = interrupts /\ depot' = depot
  BY DEF NextSession, session, kernel, CmdMain, ParserCache, CountTotals, PrintSlabCaches,
         PrintSummary, PrintTraces, ParserSlubTrace, Interrupt
<1> QED BY <1>1 DEF NumObjects

\* The steps that leave the list and the sizes alone and start no loop.
Elsewhere ==
  /\ UNCHANGED <<cache_list, total_size>>
  /\ pc' \notin {"parser_slab_caches", "totals"} \/ (pc' = pc /\ next' = next)

\* The listings in the order of the list, the traces and ^C are such steps.
LEMMA OtherSteps ==
  ASSUME PrintSlabCaches \/ PrintTraces \/ ParserSlubTrace \/ Interrupt \/ UNCHANGED session
  PROVE  Elsewhere
  BY DEF Elsewhere, PrintSlabCaches, PrintTraces, ParserSlubTrace, Interrupt, session, TraceOption

\* Every step keeps different caches with sizes that are right or not yet counted.
LEMMA NextKept ==
  ASSUME CachesAssumption, KeptInv, [NextSession]_session PROVE KeptInv'
<1>1. \A k : NumObjects(k)' = NumObjects(k)
  BY SameDump
<1>2. CASE Elsewhere
  BY <1>1, <1>2 DEF Elsewhere, KeptInv
<1>3. ASSUME NEW k \in Option, CmdMain(k) PROVE KeptInv'
  <2>1. UNCHANGED <<cache_list, total_size>> /\ next' = 1
    BY <1>3 DEF CmdMain
  <2>2. pc' = "parser_slab_caches" => cache_list = <<>>
    BY <1>3 DEF CmdMain
  <2>3. Len(slab_caches) \in Nat
    BY DEF CachesAssumption
  <2> QED BY <1>1, <2>1, <2>2, <2>3 DEF KeptInv
<1>4. CASE ParserCache
  <2>1. CASE next <= Len(slab_caches)
    <3>1. /\ cache_list' = Append(cache_list, slab_caches[next]) /\ next' = next + 1
          /\ pc = "parser_slab_caches" /\ pc' = pc /\ total_size' = total_size
      BY <1>4, <2>1 DEF ParserCache
    <3>2. /\ cache_list \in Seq(Cache) /\ next \in Nat \ {0} /\ Len(cache_list) = next - 1
          /\ \A i \in DOMAIN cache_list : cache_list[i] = slab_caches[i]
          /\ slab_caches \in Seq(Cache) /\ IsInjective(slab_caches)
      BY <3>1 DEF KeptInv, CachesAssumption
    <3>3. /\ cache_list' \in Seq(Cache) /\ Len(cache_list') = next
          /\ DOMAIN cache_list' = 1..next
          /\ \A i \in DOMAIN cache_list' : cache_list'[i] = slab_caches[i]
      <4>1. slab_caches[next] \in Cache
        BY <2>1, <3>2
      <4> QED BY <3>1, <3>2, <4>1
    <3>4. IsInjective(cache_list')
      <4>1. 1..next \subseteq DOMAIN slab_caches
        BY <2>1, <3>2
      <4> QED BY <3>2, <3>3, <4>1 DEF IsInjective
    <3> QED BY <1>1, <2>1, <3>1, <3>2, <3>3, <3>4 DEF KeptInv
  <2>2. CASE ~(next <= Len(slab_caches))
    <3>1. UNCHANGED <<cache_list, total_size>> /\ next' = 1 /\ pc' = "totals"
      BY <1>4, <2>2 DEF ParserCache
    <3> QED BY <1>1, <3>1 DEF KeptInv
  <2> QED BY <2>1, <2>2
<1>5. CASE CountTotals
  <2>1. CASE next <= Len(cache_list)
    <3>1. /\ total_size' = [total_size EXCEPT ![cache_list[next]] = NumObjects(cache_list[next])]
          /\ cache_list' = cache_list /\ next' = next + 1 /\ pc = "totals" /\ pc' = pc
      BY <1>5, <2>1 DEF CountTotals
    <3>2. next \in Nat \ {0} /\ cache_list[next] \in Cache
      BY <2>1, <3>1 DEF KeptInv
    <3>3. /\ total_size' \in [Cache -> {NumObjects(k) : k \in Cache} \cup {0}]
          /\ \A k \in Cache : total_size'[k] \in {0, NumObjects(k)}
      BY <3>1, <3>2 DEF KeptInv
    <3> QED BY <1>1, <3>1, <3>2, <3>3 DEF KeptInv
  <2>2. CASE ~(next <= Len(cache_list))
    <3>1. UNCHANGED <<cache_list, total_size>> /\ pc' = "option"
      BY <1>5, <2>2 DEF CountTotals
    <3> QED BY <1>1, <3>1 DEF KeptInv
  <2> QED BY <2>1, <2>2
<1>6. CASE PrintSummary
  <2>1. total_size' = total_size /\ pc' = "idle"
    BY <1>6 DEF PrintSummary
  <2>2. PICK p \in Bijection(DOMAIN cache_list, DOMAIN cache_list) :
          cache_list' = [i \in DOMAIN cache_list |-> cache_list[p[i]]]
    BY <1>6 DEF PrintSummary
  <2>3. cache_list' \in Seq(Cache) /\ IsInjective(cache_list')
    BY <2>2, Permuted DEF KeptInv
  <2> QED BY <1>1, <2>1, <2>3 DEF KeptInv
<1> QED BY <1>2, <1>3, <1>4, <1>5, <1>6, OtherSteps DEF NextSession

\* Every step of a session without interrupts keeps what an option relies on.
LEMMA NextShown ==
  ASSUME CachesAssumption, KeptInv, ShownInv, [NextSession]_session PROVE ShownInv'
<1>1. interrupts' = interrupts /\ depot' = depot /\ \A k : NumObjects(k)' = NumObjects(k)
  BY SameDump
<1> SUFFICES ASSUME ~interrupts, depot PROVE ShownInv'
  BY <1>1 DEF ShownInv
<1>2. ASSUME UNCHANGED <<cache_list, total_size>> PROVE Full' = Full
  BY <1>1, <1>2 DEF Full
<1>3. ASSUME Full', pc' \in {"option", "parser_slub_trace", "idle"} PROVE ShownInv'
  BY <1>3 DEF ShownInv
<1>4. ASSUME NEW k \in Option, CmdMain(k) PROVE ShownInv'
  <2>1. UNCHANGED <<cache_list, total_size>> /\ pc = "idle"
    BY <1>4 DEF CmdMain
  <2>2. CASE cache_list = <<>>
    <3>1. pc' = "parser_slab_caches"
      BY <1>4, <2>2 DEF CmdMain
    <3> QED BY <3>1 DEF ShownInv
  <2>3. CASE cache_list # <<>>
    <3>1. pc' = "option"
      BY <1>4, <2>3 DEF CmdMain
    <3> QED BY <1>2, <1>3, <2>1, <2>3, <3>1 DEF ShownInv
  <2> QED BY <2>2, <2>3
<1>5. CASE ParserCache
  <2>1. CASE next <= Len(slab_caches)
    <3>1. pc' = "parser_slab_caches"
      BY <1>5, <2>1 DEF ParserCache
    <3> QED BY <3>1 DEF ShownInv
  <2>2. CASE ~(next <= Len(slab_caches))
    <3>1. UNCHANGED <<cache_list, total_size>> /\ next' = 1 /\ pc = "parser_slab_caches" /\ pc' = "totals"
      BY <1>5, <2>2 DEF ParserCache
    <3>2. /\ cache_list \in Seq(Cache) /\ slab_caches \in Seq(Cache) /\ next \in Nat \ {0}
          /\ Len(cache_list) = next - 1 /\ next - 1 <= Len(slab_caches)
          /\ \A i \in DOMAIN cache_list : cache_list[i] = slab_caches[i]
      BY <3>1 DEF KeptInv, CachesAssumption
    <3>3. Len(cache_list) = Len(slab_caches)
      BY <2>2, <3>2
    <3>4. DOMAIN cache_list = DOMAIN slab_caches
      BY <3>2, <3>3
    <3>5. Range(cache_list) = Cache
      BY <3>2, <3>4 DEF Range, Cache
    <3>6. \A i \in DOMAIN cache_list : ~(i < 1)
      BY <3>2
    <3> QED BY <3>1, <3>3, <3>5, <3>6 DEF ShownInv
  <2> QED BY <2>1, <2>2
<1>6. CASE CountTotals
  <2>0. /\ cache_list \in Seq(Cache) /\ next \in Nat \ {0} /\ IsInjective(cache_list)
        /\ Len(cache_list) = Len(slab_caches) /\ Range(cache_list) = Cache
        /\ \A i \in DOMAIN cache_list : i < next => total_size[cache_list[i]] = NumObjects(cache_list[i])
    BY <1>6 DEF CountTotals, KeptInv, ShownInv
  <2>1. CASE next <= Len(cache_list)
    <3>1. /\ total_size' = [total_size EXCEPT ![cache_list[next]] = NumObjects(cache_list[next])]
          /\ cache_list' = cache_list /\ next' = next + 1 /\ pc' = "totals"
      BY <1>6, <2>1 DEF CountTotals
    <3>2. ASSUME NEW i \in DOMAIN cache_list, i < next + 1
          PROVE  total_size'[cache_list[i]] = NumObjects(cache_list[i])
      <4>1. cache_list[i] \in Cache /\ total_size \in [Cache -> {NumObjects(k) : k \in Cache} \cup {0}]
        BY <2>0 DEF KeptInv
      <4>2. CASE i = next
        BY <3>1, <4>1, <4>2
      <4>3. CASE i # next
        <5>1. i < next /\ next \in DOMAIN cache_list
          BY <2>0, <2>1, <3>2, <4>3
        <5>2. cache_list[i] # cache_list[next]
          BY <2>0, <4>3, <5>1 DEF IsInjective
        <5> QED BY <2>0, <3>1, <4>1, <5>1, <5>2
      <4> QED BY <4>2, <4>3
    <3> QED BY <1>1, <2>0, <3>1, <3>2 DEF ShownInv
  <2>2. CASE ~(next <= Len(cache_list))
    <3>1. UNCHANGED <<cache_list, total_size>> /\ pc' = "option"
      BY <1>6, <2>2 DEF CountTotals
    <3>2. \A i \in DOMAIN cache_list : i < next
      BY <2>0, <2>2
    <3>3. \A k \in Cache : \E i \in DOMAIN cache_list : cache_list[i] = k
      BY <2>0 DEF Range
    <3>4. Full
      BY <2>0, <3>2, <3>3 DEF Full
    <3> QED BY <1>2, <1>3, <3>1, <3>4
  <2> QED BY <2>1, <2>2
<1>7. CASE PrintSummary
  <2>1. total_size' = total_size /\ pc = "option" /\ pc' = "idle"
    BY <1>7 DEF PrintSummary
  <2>2. PICK p \in Bijection(DOMAIN cache_list, DOMAIN cache_list) :
          cache_list' = [i \in DOMAIN cache_list |-> cache_list[p[i]]]
    BY <1>7 DEF PrintSummary
  <2>3. Len(cache_list') = Len(cache_list) /\ Range(cache_list') = Range(cache_list)
    BY <2>2, Permuted DEF KeptInv
  <2>4. Full
    BY <2>1 DEF ShownInv
  <2>5. Full'
    BY <1>1, <2>1, <2>3, <2>4 DEF Full
  <2> QED BY <1>3, <2>1, <2>5
<1>8. CASE PrintSlabCaches \/ PrintTraces \/ ParserSlubTrace
  <2>1. /\ UNCHANGED <<cache_list, total_size>> /\ pc \in {"option", "parser_slub_trace"}
        /\ pc' \in {"option", "parser_slub_trace", "idle"}
    BY <1>8 DEF PrintSlabCaches, PrintTraces, ParserSlubTrace, TraceOption
  <2> QED BY <1>2, <1>3, <2>1 DEF ShownInv
<1>9. CASE Interrupt
  BY <1>9 DEF Interrupt
<1>10. CASE UNCHANGED session
  <2>1. UNCHANGED <<cache_list, total_size, pc, next>>
    BY <1>10 DEF session
  <2> QED BY <1>1, <1>2, <2>1 DEF ShownInv
<1> QED BY <1>4, <1>5, <1>6, <1>7, <1>8, <1>9, <1>10 DEF NextSession

\* What a listing of the complete list shows.
LEMMA ListingShows ==
  ASSUME NEW l \in Seq(Cache), NEW f, Listing(l) = f
  PROVE  /\ DOMAIN f = DOMAIN l /\ Len(f) = Len(l)
         /\ \A i \in DOMAIN f : f[i] = <<l[i], total_size[l[i]]>>
         /\ Range(f) = {<<k, total_size[k]>> : k \in Range(l)}
<1>1. f = [i \in DOMAIN l |-> <<l[i], total_size[l[i]]>>] /\ DOMAIN l = 1..Len(l) /\ Len(l) \in Nat
  BY DEF Listing
<1>2. DOMAIN f = DOMAIN l /\ Len(f) = Len(l) /\ \A i \in DOMAIN f : f[i] = <<l[i], total_size[l[i]]>>
  BY <1>1
<1>3. Range(f) = {<<k, total_size[k]>> : k \in Range(l)}
  <2> DEFINE pair(k) == <<k, total_size[k]>>
  <2>1. \A i \in DOMAIN f : f[i] = pair(l[i])
    BY <1>2
  <2> HIDE DEF pair
  <2>2. {f[i] : i \in DOMAIN f} = {pair(k) : k \in {l[i] : i \in DOMAIN l}}
    BY <1>2, <2>1
  <2> QED BY <2>2 DEF Range, pair
<1> QED BY <1>2, <1>3

\* Every step leaves a right listing on the screen, or none.
LEMMA NextListed ==
  ASSUME CachesAssumption, SessionInv, [NextSession]_session PROVE SessionInv'
<1>1. interrupts' = interrupts /\ depot' = depot /\ \A k : NumObjects(k)' = NumObjects(k)
  BY SameDump
<1>2. KeptInv' /\ ShownInv'
  BY NextKept, NextShown DEF SessionInv
<1>3. ASSUME out' = <<>>, pc' = "parser_slub_trace" => op' \in {"tA", "tF", "l"} PROVE SessionInv'
  BY <1>2, <1>3 DEF SessionInv, ListingComplete, SummarySorted, Idle, NoOut
<1>4. ASSUME pc' = "idle", op' \in {"tA", "tF", "l"} PROVE SessionInv'
  BY <1>2, <1>4 DEF SessionInv, ListingComplete, SummarySorted, Idle
<1>5. ASSUME NEW k \in Option, CmdMain(k) PROVE SessionInv'
  BY <1>3, <1>5 DEF CmdMain, NoOut
<1>6. CASE ParserCache \/ CountTotals
  BY <1>3, <1>6 DEF ParserCache, CountTotals, SessionInv
<1>7. CASE Interrupt
  BY <1>3, <1>7 DEF Interrupt, NoOut
<1>8. CASE PrintTraces \/ ParserSlubTrace
  <2>1. op' \in {"tA", "tF", "l"}
    BY <1>8 DEF PrintTraces, ParserSlubTrace, TraceOption, SessionInv
  <2>2. pc' = "idle" \/ out' = <<>>
    BY <1>8 DEF PrintTraces, ParserSlubTrace, TraceOption, SessionInv
  <2> QED BY <1>3, <1>4, <2>1, <2>2
<1>9. ASSUME NEW l \in Seq(Cache), Listing(l) = out'[1], pc' = "idle",
             ~interrupts /\ depot => Len(l) = Len(slab_caches) /\ Range(l) = Cache
                                     /\ \A k \in Cache : total_size[k] = NumObjects(k),
             op' = "s" => BySize(l)
      PROVE  SessionInv'
  <2>1. /\ DOMAIN out'[1] = DOMAIN l /\ Len(out'[1]) = Len(l)
        /\ \A i \in DOMAIN out'[1] : out'[1][i] = <<l[i], total_size[l[i]]>>
        /\ Range(out'[1]) = {<<k, total_size[k]>> : k \in Range(l)}
    BY <1>9, ListingShows
  <2>2. ~interrupts /\ depot =>
          Range(out'[1]) = {<<k, NumObjects(k)>> : k \in Cache} /\ Len(out'[1]) = Len(slab_caches)
    BY <1>9, <2>1
  <2>3. ListingComplete'
    BY <1>1, <2>2 DEF ListingComplete, Idle
  <2>4. \A i \in DOMAIN out'[1] : out'[1][i][2] = total_size[l[i]]
    BY <2>1
  <2>5. SummarySorted'
    BY <1>9, <2>1, <2>4 DEF SummarySorted, Idle, BySize
  <2> QED BY <1>2, <1>9, <2>3, <2>5 DEF SessionInv
<1>10. ASSUME pc = "option", ~interrupts, depot PROVE Full
  BY <1>10 DEF SessionInv, ShownInv
<1>11. CASE PrintSlabCaches
  <2>1. pc = "option" /\ pc' = "idle" /\ op' = "a" /\ out' = <<Listing(cache_list)>>
    BY <1>11 DEF PrintSlabCaches
  <2>2. cache_list \in Seq(Cache) /\ out'[1] = Listing(cache_list)
    BY <2>1 DEF SessionInv, KeptInv
  <2> QED BY <1>9, <1>10, <2>1, <2>2 DEF Full
<1>12. CASE PrintSummary
  <2>1. /\ pc = "option" /\ pc' = "idle" /\ op' = "s" /\ out' = <<Listing(cache_list')>>
        /\ BySize(cache_list')
    BY <1>12 DEF PrintSummary
  <2>2. PICK p \in Bijection(DOMAIN cache_list, DOMAIN cache_list) :
          cache_list' = [i \in DOMAIN cache_list |-> cache_list[p[i]]]
    BY <1>12 DEF PrintSummary
  <2>3. /\ cache_list' \in Seq(Cache) /\ out'[1] = Listing(cache_list')
        /\ Len(cache_list') = Len(cache_list) /\ Range(cache_list') = Range(cache_list)
    BY <2>1, <2>2, Permuted DEF SessionInv, KeptInv
  <2> QED BY <1>9, <1>10, <2>1, <2>3 DEF Full
<1>13. CASE UNCHANGED session
  <2>1. UNCHANGED <<pc, op, out>>
    BY <1>13 DEF session
  <2> QED BY <1>1, <1>2, <2>1 DEF SessionInv, ListingComplete, SummarySorted, Idle
<1> QED BY <1>5, <1>6, <1>7, <1>8, <1>11, <1>12, <1>13 DEF NextSession

\* A session begins with nothing parsed and nothing shown.
LEMMA InitListed == ASSUME InitSession PROVE SessionInv
<1>1. /\ cache_list = <<>> /\ pc = "idle" /\ out = <<>>
      /\ total_size = [k \in Cache |-> 0]
  BY DEF InitSession, NoOut
<1>2. KeptInv
  BY <1>1 DEF KeptInv, IsInjective
<1>3. ShownInv
  BY <1>1 DEF ShownInv
<1> QED BY <1>1, <1>2, <1>3 DEF SessionInv, ListingComplete, SummarySorted, Idle, NoOut

\* Whatever is interrupted, slub keeps no cache twice and no size that is other than right or
\* not yet counted; without interrupts slub -a and -s show every cache once with its size, and
\* slub -s the largest first: for any number of caches, objects and commands.
THEOREM CachesAreExact == ASSUME CachesAssumption PROVE SpecSession => []CachesExact
<1>1. InitSession => SessionInv
  BY InitListed
<1>2. SessionInv /\ [NextSession]_session => SessionInv'
  BY NextListed
<1>3. SessionInv => CachesExact
  BY DEF SessionInv, KeptInv, CachesExact, CachesSound
<1> QED BY <1>1, <1>2, <1>3, PTL DEF SpecSession

-----------------------------------------------------------------------------
(* The tracks.                                                               *)

\* The objects of status s of every cache that were last used by stack t.
ObjectsBy(s, t) == [c \in Cache |-> objs[c][<<s, t>>]]

\* The caches with tracks that a trace has been through before it comes to place n.
Seen(n) == {cache_list[i] : i \in {j \in DOMAIN cache_list : j < n}} \cap store_user

\* The tracks of those caches.
Partial(s, n) == [t \in Stack |-> SumFunctionOnSet(ObjectsBy(s, t), Seen(n))]

Both == ~Empty(AllTracks("alloc")) /\ ~Empty(AllTracks("free"))

\* The maps are empty or complete except during a trace, which has added up the caches in
\* front of the one it is at.
TraceInv ==
  /\ objs \in [Cache -> [Object -> Nat]] /\ store_user \subseteq Cache
  /\ pc = "option" => next = 1
  /\ pc = "parser_slub_trace" => next \in 1..(Len(cache_list) + 1)
  /\ ~interrupts /\ depot /\ Both =>
       /\ pc = "parser_slub_trace" => alloc_trace_map = Partial("alloc", next) /\ free_trace_map = Partial("free", next)
       /\ pc # "parser_slub_trace" =>
            \/ alloc_trace_map = NoTracks /\ free_trace_map = NoTracks
            \/ alloc_trace_map = AllTracks("alloc") /\ free_trace_map = AllTracks("free")
       /\ pc = "idle" /\ out # NoOut /\ op \in {"tA", "tF", "l"} => out[1] = RealTracks(op)

\* There are finitely many caches.
LEMMA CachesFinite == ASSUME CachesAssumption PROVE IsFiniteSet(Cache)
<1>1. slab_caches \in Seq(Cache)
  BY DEF CachesAssumption
<1>2. DOMAIN slab_caches = 1..Len(slab_caches) /\ Len(slab_caches) \in Nat
  BY <1>1
<1>3. IsFiniteSet(DOMAIN slab_caches)
  BY <1>2, FS_Interval
<1>4. slab_caches \in Surjection(DOMAIN slab_caches, Cache)
  BY <1>1 DEF Cache, Range, Surjection
<1> QED BY <1>3, <1>4, FS_Surjection

\* A trace that begins has added up nothing, and one that has seen all caches everything.
LEMMA TraceEnds ==
  ASSUME cache_list \in Seq(Cache), store_user \subseteq Cache, NEW s
  PROVE  /\ Partial(s, 1) = NoTracks
         /\ Range(cache_list) = Cache => Partial(s, Len(cache_list) + 1) = AllTracks(s)
<1>1. Seen(1) = {}
  BY DEF Seen
<1>2. Partial(s, 1) = NoTracks
  BY <1>1, SumEmpty, Zenon DEF Partial, NoTracks
<1>3. ASSUME Range(cache_list) = Cache PROVE Partial(s, Len(cache_list) + 1) = AllTracks(s)
  <2>1. {j \in DOMAIN cache_list : j < Len(cache_list) + 1} = DOMAIN cache_list
    <3>1. DOMAIN cache_list = 1..Len(cache_list) /\ Len(cache_list) \in Nat
      OBVIOUS
    <3> QED BY <3>1
  <2>2. Seen(Len(cache_list) + 1) = store_user
    BY <1>3, <2>1 DEF Seen, Range
  <2> QED BY <2>2 DEF Partial, AllTracks, ObjectsBy
<1> QED BY <1>2, <1>3

\* One cache more.
LEMMA TraceAdds ==
  ASSUME CachesAssumption, cache_list \in Seq(Cache), IsInjective(cache_list),
         objs \in [Cache -> [Object -> Nat]], store_user \subseteq Cache,
         NEW s \in {"alloc", "free"}, NEW n \in 1..Len(cache_list)
  PROVE  Plus(Partial(s, n), Tracks(cache_list[n], s)) = Partial(s, n + 1)
<1> DEFINE c == cache_list[n]
           D == {j \in DOMAIN cache_list : j < n}
<1>1. c \in Cache /\ n \in DOMAIN cache_list
  OBVIOUS
<1>2. {j \in DOMAIN cache_list : j < n + 1} = D \cup {n}
  <2>1. DOMAIN cache_list = 1..Len(cache_list) /\ Len(cache_list) \in Nat
    OBVIOUS
  <2> QED BY <2>1
<1>3. c \notin {cache_list[i] : i \in D}
  BY <1>1 DEF IsInjective
<1>4. Seen(n + 1) = IF c \in store_user THEN Seen(n) \cup {c} ELSE Seen(n)
  BY <1>2 DEF Seen
<1>5. c \notin Seen(n) /\ Seen(n) \in SUBSET Cache
  BY <1>3 DEF Seen
<1>6. IsFiniteSet(Seen(n))
  BY <1>5, CachesFinite, FS_Subset
<1> HIDE DEF c, D
<1>7. ASSUME NEW t \in Stack
      PROVE  SumFunctionOnSet(ObjectsBy(s, t), Seen(n)) + (IF c \in store_user THEN objs[c][<<s, t>>] ELSE 0)
             = SumFunctionOnSet(ObjectsBy(s, t), Seen(n + 1))
  <2>1. <<s, t>> \in Object
    BY DEF Object
  <2>2. \A k \in Cache : ObjectsBy(s, t)[k] = objs[k][<<s, t>>] /\ ObjectsBy(s, t)[k] \in Int
    BY <2>1 DEF ObjectsBy
  <2>3. SumFunctionOnSet(ObjectsBy(s, t), Seen(n)) \in Int
    BY <1>5, <1>6, <2>2, SumType
  <2>4. CASE c \in store_user
    <3>1. SumFunctionOnSet(ObjectsBy(s, t), Seen(n) \cup {c}) = ObjectsBy(s, t)[c] + SumFunctionOnSet(ObjectsBy(s, t), Seen(n))
      BY <1>1, <1>5, <1>6, <2>2, SumAdd, Zenon
    <3>2. ObjectsBy(s, t)[c] = objs[c][<<s, t>>] /\ ObjectsBy(s, t)[c] \in Int
      BY <1>1, <2>2, Zenon
    <3>3. Seen(n + 1) = Seen(n) \cup {c}
      BY <1>4, <2>4
    <3>4. \A a, b \in Int : a + b = b + a
      OBVIOUS
    <3>5. SumFunctionOnSet(ObjectsBy(s, t), Seen(n)) + ObjectsBy(s, t)[c] = SumFunctionOnSet(ObjectsBy(s, t), Seen(n + 1))
      BY <2>3, <3>1, <3>2, <3>3, <3>4, Zenon
    <3> QED BY <2>4, <3>2, <3>5, Zenon
  <2>5. CASE c \notin store_user
    BY <1>4, <2>3, <2>5
  <2> QED BY <2>4, <2>5
<1>8. \A t \in Stack : Partial(s, n)[t] = SumFunctionOnSet(ObjectsBy(s, t), Seen(n))
  BY DEF Partial
<1>9. \A t \in Stack : Tracks(c, s)[t] = IF c \in store_user THEN objs[c][<<s, t>>] ELSE 0
  BY DEF Tracks
<1> QED BY <1>7, <1>8, <1>9, Zenon DEF Plus, Partial, c

\* The dump and what is in it stay as they are.
LEMMA SameTracks ==
  ASSUME [NextSession]_session
  PROVE  /\ objs' = objs /\ store_user' = store_user
         /\ \A s : AllTracks(s)' = AllTracks(s)
         /\ Both' = Both
         /\ cache_list' = cache_list => \A s, n : Partial(s, n)' = Partial(s, n)
<1>1. objs' = objs /\ store_user' = store_user
  BY DEF NextSession, session, kernel, CmdMain, ParserCache, CountTotals, PrintSlabCaches,
         PrintSummary, PrintTraces, ParserSlubTrace, Interrupt
<1>2. \A s : AllTracks(s)' = AllTracks(s)
  BY <1>1 DEF AllTracks
<1>3. Both' = Both
  BY <1>2 DEF Both, Empty
<1>4. cache_list' = cache_list => \A s, n : Partial(s, n)' = Partial(s, n)
  BY <1>1 DEF Partial, Seen, ObjectsBy
<1> QED BY <1>1, <1>2, <1>3, <1>4

\* What the trace commands print of complete maps is what the dump has.
LEMMA CompleteIsReal ==
  ASSUME alloc_trace_map = AllTracks("alloc"), free_trace_map = AllTracks("free"), op \in {"tA", "tF", "l"}
  PROVE  Printed(op) = RealTracks(op)
BY DEF Printed, RealTracks

\* Every step keeps the maps empty, complete or as far as the trace has come.
LEMMA NextTrace ==
  ASSUME CachesAssumption, SessionInv, TraceInv, [NextSession]_session PROVE TraceInv'
<1>1. /\ interrupts' = interrupts /\ depot' = depot /\ objs' = objs /\ store_user' = store_user
      /\ \A s : AllTracks(s)' = AllTracks(s)
      /\ Both' = Both
      /\ cache_list' = cache_list => \A s, n : Partial(s, n)' = Partial(s, n)
  BY SameDump, SameTracks
<1>2. objs \in [Cache -> [Object -> Nat]] /\ store_user \subseteq Cache /\ cache_list \in Seq(Cache) /\ IsInjective(cache_list)
  BY DEF TraceInv, SessionInv, KeptInv
<1>3. ASSUME UNCHANGED maps, pc # "parser_slub_trace", pc' # "parser_slub_trace", pc' = "option" => next' = 1,
             out' = NoOut \/ op' \notin {"tA", "tF", "l"} \/ pc' # "idle"
      PROVE  TraceInv'
  BY <1>1, <1>3 DEF TraceInv, maps
<1>4. ASSUME NEW k \in Option, CmdMain(k) PROVE TraceInv'
  <2>1. UNCHANGED maps /\ pc = "idle" /\ pc' \in {"parser_slab_caches", "option"} /\ next' = 1 /\ out' = NoOut
    BY <1>4 DEF CmdMain
  <2> QED BY <1>3, <2>1
<1>5. CASE ParserCache \/ CountTotals
  <2>1. /\ UNCHANGED maps /\ pc # "parser_slub_trace" /\ pc' \in {"parser_slab_caches", "totals", "option"}
        /\ pc' = "option" => next' = 1
    BY <1>5 DEF ParserCache, CountTotals
  <2> QED BY <1>3, <2>1
<1>6. CASE PrintSlabCaches \/ PrintSummary
  <2>1. UNCHANGED maps /\ pc = "option" /\ pc' = "idle" /\ op' \notin {"tA", "tF", "l"}
    BY <1>6 DEF PrintSlabCaches, PrintSummary
  <2> QED BY <1>3, <2>1
<1>7. CASE Interrupt
  <2>1. interrupts /\ pc' = "idle"
    BY <1>7 DEF Interrupt
  <2> QED BY <1>1, <2>1 DEF TraceInv
<1>8. CASE PrintTraces
  <2>1. /\ pc = "option" /\ op' = op /\ op \in {"tA", "tF", "l"} /\ UNCHANGED <<cache_list, maps, next>>
        /\ IF ~Empty(alloc_trace_map) /\ ~Empty(free_trace_map)
           THEN out' = <<Printed(op)>> /\ pc' = "idle"
           ELSE pc' = "parser_slub_trace" /\ UNCHANGED out
    BY <1>8 DEF PrintTraces, TraceOption
  <2>2. next = 1
    BY <2>1 DEF TraceInv
  <2>3. CASE ~Empty(alloc_trace_map) /\ ~Empty(free_trace_map)
    <3>1. out'[1] = Printed(op) /\ pc' = "idle"
      BY <2>1, <2>3
    <3>2. ~(alloc_trace_map = NoTracks)
      BY <2>3 DEF Empty, NoTracks
    <3>3. RealTracks(op') = RealTracks(op) /\ RealTracks(op)' = RealTracks(op)
      BY <1>1, <2>1 DEF RealTracks
    <3>4. ASSUME ~interrupts, depot, Both
          PROVE  /\ alloc_trace_map = AllTracks("alloc") /\ free_trace_map = AllTracks("free")
                 /\ out'[1] = RealTracks(op)
      <4>1. alloc_trace_map = AllTracks("alloc") /\ free_trace_map = AllTracks("free")
        BY <2>1, <3>2, <3>4 DEF TraceInv
      <4> QED BY <2>1, <3>1, <4>1, CompleteIsReal
    <3> QED BY <1>1, <1>2, <2>1, <3>1, <3>3, <3>4 DEF TraceInv, maps
  <2>4. CASE ~(~Empty(alloc_trace_map) /\ ~Empty(free_trace_map))
    <3>1. pc' = "parser_slub_trace" /\ next' = 1 /\ UNCHANGED <<alloc_trace_map, free_trace_map, cache_list>>
      BY <2>1, <2>2, <2>4 DEF maps
    <3>2. ASSUME ~interrupts, depot, Both PROVE alloc_trace_map = NoTracks /\ free_trace_map = NoTracks
      BY <2>1, <2>4, <3>2 DEF TraceInv, Both
    <3>3. Partial("alloc", 1) = NoTracks /\ Partial("free", 1) = NoTracks
      BY <1>2, TraceEnds
    <3>4. 1 \in 1..(Len(cache_list) + 1)
      BY <1>2
    <3>5. NoTracks' = NoTracks
      BY DEF NoTracks
    <3> QED BY <1>1, <1>2, <3>1, <3>2, <3>3, <3>4, <3>5 DEF TraceInv
  <2> QED BY <2>3, <2>4
<1>9. CASE ParserSlubTrace
  <2>1. pc = "parser_slub_trace" /\ op' = op /\ UNCHANGED cache_list
    BY <1>9 DEF ParserSlubTrace
  <2>2. next \in 1..(Len(cache_list) + 1) /\ Len(cache_list) \in Nat /\ op \in {"tA", "tF", "l"}
    BY <1>2, <2>1 DEF TraceInv, SessionInv
  <2>3. ASSUME ~interrupts, depot, Both
        PROVE  alloc_trace_map = Partial("alloc", next) /\ free_trace_map = Partial("free", next)
    BY <2>1, <2>3 DEF TraceInv
  <2>4. CASE next <= Len(cache_list)
    <3>1. /\ alloc_trace_map' = Plus(alloc_trace_map, Tracks(cache_list[next], "alloc"))
          /\ free_trace_map' = Plus(free_trace_map, Tracks(cache_list[next], "free"))
          /\ next' = next + 1 /\ pc' = pc
      BY <1>9, <2>4 DEF ParserSlubTrace
    <3>2. ASSUME ~interrupts, depot, Both
          PROVE  alloc_trace_map' = Partial("alloc", next + 1) /\ free_trace_map' = Partial("free", next + 1)
      BY <1>2, <2>2, <2>3, <2>4, <3>1, <3>2, TraceAdds
    <3>3. next' \in 1..(Len(cache_list) + 1)
      BY <2>2, <2>4, <3>1
    <3> QED BY <1>1, <1>2, <2>1, <3>1, <3>2, <3>3 DEF TraceInv
  <2>5. CASE ~(next <= Len(cache_list))
    <3>1. out'[1] = Printed(op) /\ pc' = "idle" /\ UNCHANGED <<alloc_trace_map, free_trace_map>>
      BY <1>9, <2>5 DEF ParserSlubTrace, maps
    <3>2. next = Len(cache_list) + 1
      BY <2>2, <2>5
    <3>3. RealTracks(op)' = RealTracks(op)
      BY <1>1, <2>1, Zenon DEF RealTracks
    <3>4. ASSUME ~interrupts, depot, Both
          PROVE  /\ alloc_trace_map = AllTracks("alloc") /\ free_trace_map = AllTracks("free")
                 /\ out'[1] = RealTracks(op)
      <4>1. Range(cache_list) = Cache
        BY <2>1, <3>4 DEF SessionInv, ShownInv, Full
      <4>2. alloc_trace_map = AllTracks("alloc") /\ free_trace_map = AllTracks("free")
        BY <1>2, <2>3, <3>2, <3>4, <4>1, TraceEnds
      <4> QED BY <2>2, <3>1, <4>2, CompleteIsReal
    <3> QED BY <1>1, <1>2, <2>1, <3>1, <3>3, <3>4 DEF TraceInv
  <2> QED BY <2>4, <2>5
<1>10. CASE UNCHANGED session
  <2>1. UNCHANGED <<cache_list, alloc_trace_map, free_trace_map, pc, op, next, out>>
    BY <1>10 DEF session, maps
  <2>2. RealTracks(op)' = RealTracks(op)
    BY <1>1, <2>1, Zenon DEF RealTracks
  <2> QED BY <1>1, <1>2, <2>1, <2>2 DEF TraceInv
<1> QED BY <1>4, <1>5, <1>6, <1>7, <1>8, <1>9, <1>10 DEF NextSession

\* Without interrupts, and with allocated and freed objects that have a call stack, every
\* trace command of the session shows each call stack with its number of objects: for any
\* number of caches, objects, call stacks and commands.
THEOREM TracesAreExact == ASSUME CachesAssumption PROVE SpecSession => []TracesExact
<1>1. InitSession => SessionInv
  BY InitListed
<1>2. InitSession => TraceInv
  <2> SUFFICES ASSUME InitSession PROVE TraceInv
    OBVIOUS
  <2>1. /\ objs \in [Cache -> [Object -> Nat]] /\ store_user \subseteq Cache
    BY DEF InitSession
  <2>2. pc = "idle" /\ alloc_trace_map = NoTracks /\ free_trace_map = NoTracks /\ out = NoOut
    BY DEF InitSession
  <2> QED BY <2>1, <2>2 DEF TraceInv
<1>3. SessionInv /\ TraceInv /\ [NextSession]_session => SessionInv' /\ TraceInv'
  BY NextListed, NextTrace
<1>4. TraceInv => TracesExact
  BY DEF TraceInv, TracesExact, Idle, Both
<1> QED BY <1>1, <1>2, <1>3, <1>4, PTL DEF SpecSession

-----------------------------------------------------------------------------
(* The search memchr_inv, which slub -p uses.                                *)

\* What holds at every step: the bytes before start_addr are all c, and the
\* whole words and the rest still to be checked end where the region ends.
SearchInv ==
  /\ region \in Nat \X Nat
  /\ region[1] > 0
  /\ bad \subseteq Nat
  /\ start_addr \in Nat /\ bytes \in Nat /\ words \in Nat /\ ret \in Nat
  /\ pc \in {"start", "words", "returned"}
  /\ pc = "start" => start_addr = region[1] /\ bytes = region[2]
  /\ pc = "words" =>
       /\ start_addr % Word = 0
       /\ start_addr >= region[1]
       /\ start_addr + (words * Word) + (bytes % Word) = region[1] + region[2]
       /\ bad \cap (region[1]..(start_addr - 1)) = {}
  /\ FirstDifferentByte

\* A nonempty set of addresses has a smallest member.
LEMMA SmallestAddress ==
  ASSUME NEW S, S \subseteq Nat, S # {}
  PROVE  \E x \in S : \A y \in S : x <= y
<1>1. PICK x \in S : \A y \in S : ~(<<y, x>> \in OpToRel(<, Nat))
  BY NatLessThanWellFounded, WFMin, Zenon
<1>2. \A y \in S : ~(y < x)
  BY <1>1, Zenon DEF OpToRel
<1> QED BY <1>2

\* check_bytes8 returns the smallest differing address of its range.
LEMMA FirstOfRange ==
  ASSUME bad \subseteq Nat, NEW a \in Nat, NEW n \in Nat, a > 0
  PROVE  /\ CheckBytes8(a, n) \in Nat
         /\ CheckBytes8(a, n) = 0 <=> bad \cap Span(a, n) = {}
         /\ CheckBytes8(a, n) # 0 =>
              /\ CheckBytes8(a, n) \in bad \cap Span(a, n)
              /\ \A x \in bad \cap Span(a, n) : CheckBytes8(a, n) <= x
<1> DEFINE B == bad \cap Span(a, n)
<1>1. CASE B = {}
  BY <1>1 DEF CheckBytes8
<1>2. CASE B # {}
  <2>1. \E x \in B : \A y \in B : x <= y
    <3>1. B \subseteq Nat
      BY Zenon
    <3> HIDE DEF B
    <3> QED BY <1>2, <3>1, SmallestAddress, Zenon
  <2>2. /\ CheckBytes8(a, n) \in B
        /\ \A y \in B : CheckBytes8(a, n) <= y
    <3>1. CheckBytes8(a, n) = CHOOSE x \in B : \A y \in B : x <= y
      BY <1>2 DEF CheckBytes8
    <3> HIDE DEF B
    <3> QED BY <2>1, <3>1
  <2> QED BY <2>2, <1>2 DEF Span
<1> QED BY <1>1, <1>2

\* A search that starts at a, behind bytes that are all c, and finds something
\* before the end of the region has found the first differing byte.
LEMMA FoundFirst ==
  ASSUME bad \subseteq Nat, NEW s \in Nat, NEW len \in Nat, NEW a \in Nat, NEW n \in Nat,
         a > 0, s <= a, a + n <= s + len,
         bad \cap (s..(a - 1)) = {},
         CheckBytes8(a, n) # 0
  PROVE  /\ bad \cap Span(s, len) # {}
         /\ CheckBytes8(a, n) \in bad \cap Span(s, len)
         /\ \A x \in bad \cap Span(s, len) : CheckBytes8(a, n) <= x
<1> DEFINE r == CheckBytes8(a, n)
<1>1. r \in Nat /\ r \in bad /\ r \in a..(a + n - 1)
  BY FirstOfRange DEF Span
<1>2. \A x \in bad \cap Span(a, n) : r <= x
  BY FirstOfRange
<1> HIDE DEF r
<1>3. ASSUME NEW x \in bad, x \in s..(s + len - 1)
      PROVE  r <= x
  <2>1. x \in Nat /\ x >= a
    BY <1>3
  <2>2. CASE x <= a + n - 1
    BY <2>1, <2>2, <1>2 DEF Span
  <2>3. CASE x > a + n - 1
    BY <2>1, <2>3, <1>1
  <2> QED BY <2>1, <2>2, <2>3
<1>4. r \in bad \cap (s..(s + len - 1))
  BY <1>1
<1> QED BY <1>3, <1>4 DEF Span, r

\* An address that is moved to the end of its word is a word boundary.
LEMMA WordBoundary ==
  ASSUME NEW P \in Nat \ {0}, NEW x \in Nat, NEW k \in Nat, (x % P) + k = P
  PROVE  (x + k) \div P = (x \div P) + 1 /\ (x + k) % P = 0
OBVIOUS

\* A length is its whole words and a rest shorter than a word.
LEMMA WordsAndRest ==
  ASSUME NEW P \in Nat \ {0}, NEW x \in Nat
  PROVE  /\ x = ((x \div P) * P) + (x % P)
         /\ x \div P \in Nat
         /\ x % P \in 0..(P - 1)
OBVIOUS

\* One word fewer is Word bytes fewer.
LEMMA OneWordFewer ==
  ASSUME NEW P \in Nat \ {0}, NEW w \in Nat, w > 0
  PROVE  /\ w * P = ((w - 1) * P) + P
         /\ w - 1 \in Nat
         /\ (w - 1) * P \in Nat
OBVIOUS

\* The prefix ends at a word boundary and is shorter than a word.
LEMMA PrefixAligns ==
  ASSUME NEW W \in Nat \ {0}, NEW a \in Nat, NEW p,
         p = IF a % W = 0 THEN 0 ELSE W - (a % W)
  PROVE  /\ p \in Nat /\ p < W
         /\ (a + p) % W = 0
<1>1. a % W \in 0..(W - 1)
  BY WordsAndRest
<1>2. p \in Nat /\ p < W
  BY <1>1
<1>3. CASE a % W = 0
  BY <1>2, <1>3
<1>4. CASE a % W # 0
  <2>1. (a % W) + p = W
    BY <1>4, <1>1
  <2> QED BY <2>1, <1>2, WordBoundary, Zenon
<1> QED BY <1>2, <1>3, <1>4

\* memchr_inv is called on a region that starts above address 0.
LEMMA InitSearch == InitMemchr => SearchInv
BY WordAssumption DEF InitMemchr, SearchInv, FirstDifferentByte, Span

\* A step keeps the invariant.
LEMMA NextSearch == ASSUME SearchInv, [NextMemchr]_memchr PROVE SearchInv'
<1> USE DEF SearchInv
<1> DEFINE s == region[1]
           len == region[2]
<1>0. s \in Nat /\ len \in Nat /\ s > 0 /\ Word \in Nat \ {0} /\ Short \in Nat /\ Short >= Word
  BY WordAssumption
<1>1. CASE Small
  <2>1. /\ pc = "start" /\ start_addr = s /\ bytes = len
        /\ ret' = CheckBytes8(s, len) /\ pc' = "returned"
        /\ UNCHANGED <<args, start_addr, bytes, words>>
    BY <1>1 DEF Small, Return
  <2>2. FirstDifferentByte'
    BY <2>1, <1>0, FirstOfRange, Zenon DEF FirstDifferentByte, args, Span
  <2>3. ret' \in Nat
    BY <2>1, <1>0, FirstOfRange
  <2> QED BY <2>1, <2>2, <2>3 DEF args
<1>2. CASE Prefix
  <2> DEFINE p == IF start_addr % Word = 0 THEN 0 ELSE Word - (start_addr % Word)
             r == CheckBytes8(start_addr, p)
  <2>1. /\ pc = "start" /\ start_addr = s /\ bytes = len /\ bytes > Short
        /\ UNCHANGED args
        /\ IF r # 0
           THEN ret' = r /\ pc' = "returned" /\ UNCHANGED <<start_addr, bytes, words>>
           ELSE /\ start_addr' = start_addr + p
                /\ bytes' = bytes - p
                /\ words' = (bytes - p) \div Word
                /\ pc' = "words"
                /\ ret' = ret
    BY <1>2 DEF Prefix, Return
  <2>2. p \in Nat /\ p < Word /\ (start_addr + p) % Word = 0
    BY <1>0, PrefixAligns, Zenon
  <2>3. r \in Nat /\ (r = 0 <=> bad \cap Span(start_addr, p) = {})
    BY <1>0, <2>1, <2>2, FirstOfRange, Zenon
  <2> HIDE DEF p, r
  <2>4. CASE r # 0
    <3>1. /\ bad \cap Span(s, len) # {}
          /\ r \in bad \cap Span(s, len)
          /\ \A x \in bad \cap Span(s, len) : r <= x
      <4>1. /\ s <= s /\ s + p <= s + len
            /\ bad \cap (s..(s - 1)) = {}
            /\ CheckBytes8(s, p) # 0
        <5>1. start_addr = s /\ r = CheckBytes8(s, p)
          BY <2>1 DEF r
        <5>2. p <= len
          BY <1>0, <2>1, <2>2
        <5> HIDE DEF SearchInv, s, len
        <5> QED BY <1>0, <2>2, <2>4, <5>1, <5>2
      <4>2. bad \subseteq Nat /\ r = CheckBytes8(s, p)
        BY <2>1 DEF r
      <4> HIDE DEF SearchInv, s, len
      <4> QED BY <1>0, <2>2, <4>1, <4>2, FoundFirst
    <3> QED BY <2>1, <2>3, <2>4, <3>1, Zenon DEF args, FirstDifferentByte, Span
  <2>5. CASE r = 0
    <3>1. len - p \in Nat
      BY <1>0, <2>1, <2>2
    <3>2. /\ len - p = (((len - p) \div Word) * Word) + ((len - p) % Word)
          /\ (len - p) \div Word \in Nat
      BY <1>0, <3>1, WordsAndRest, Zenon
    <3>3. start_addr' + (words' * Word) + (bytes' % Word) = s + len
      <4>1. words' = (len - p) \div Word /\ bytes' = len - p /\ start_addr' = s + p
        BY <2>1, <2>5
      <4>2. (words' * Word) + (bytes' % Word) = len - p /\ words' * Word \in Int /\ bytes' % Word \in Int
        <5>1. (len - p) % Word \in Int
          BY <3>1, <1>0, WordsAndRest
        <5>2. (len - p) \div Word \in Nat /\ Word \in Nat /\ ((len - p) \div Word) * Word \in Int
          BY <3>2, <1>0
        <5> HIDE DEF SearchInv, s, len
        <5> QED BY <4>1, <5>1, <5>2, <3>2
      <4>3. \A a, b \in Int : a + b = len - p => (s + p) + a + b = s + len
        BY <1>0, <2>2
      <4> QED BY <4>1, <4>2, <4>3
    <3>4. bad \cap (s..((s + p) - 1)) = {}
      <4>1. bad \cap Span(s, p) = {}
        BY <2>3, <2>5, <2>1
      <4>2. Span(s, p) = s..((s + p) - 1)
        BY <1>0, <2>2 DEF Span
      <4> QED BY <4>1, <4>2
    <3>5. FirstDifferentByte'
      BY <2>1, <2>5 DEF FirstDifferentByte
    <3>6. start_addr' = s + p /\ start_addr' >= s /\ start_addr' % Word = 0
      BY <2>1, <2>2, <2>5, <1>0
    <3>7. /\ UNCHANGED <<bad, region, ret>> /\ pc' = "words"
          /\ bytes' = len - p /\ words' = (len - p) \div Word
          /\ bad' \cap (region'[1]..(start_addr' - 1)) = {}
      BY <2>1, <2>5, <3>4, <3>6 DEF args
    <3>8. start_addr' \in Nat /\ bytes' \in Nat /\ words' \in Nat
      <4>1. start_addr' \in Nat
        BY <1>0, <2>2, <3>6
      <4>2. words' \in Nat
        BY <3>2, <3>7
      <4> QED BY <4>1, <4>2, <3>1, <3>7
    <3> QED BY <3>3, <3>5, <3>6, <3>7, <3>8
  <2> QED BY <2>4, <2>5
<1>3. CASE Words
  <2>1. /\ pc = "words" /\ words > 0 /\ UNCHANGED <<args, bytes>>
        /\ start_addr % Word = 0 /\ start_addr >= s /\ start_addr > 0
        /\ bad \cap (s..(start_addr - 1)) = {}
    BY <1>0, <1>3 DEF Words
  <2>2. /\ words * Word = ((words - 1) * Word) + Word
        /\ words - 1 \in Nat /\ (words - 1) * Word \in Nat
    BY <1>0, <2>1, OneWordFewer
  <2>3. bytes % Word \in Nat
    BY <1>0, WordsAndRest
  <2>4. /\ start_addr + Word <= s + len
        /\ (start_addr + Word) + ((words - 1) * Word) + (bytes % Word) = s + len
    BY <1>0, <2>1, <2>2, <2>3
  <2>5. CASE bad \cap Span(start_addr, Word) # {}
    <3>1. ret' = CheckBytes8(start_addr, Word) /\ pc' = "returned" /\ UNCHANGED <<start_addr, words>>
      BY <1>3, <2>5 DEF Words, Return
    <3>2. CheckBytes8(start_addr, Word) \in Nat /\ CheckBytes8(start_addr, Word) # 0
      BY <1>0, <2>1, <2>5, FirstOfRange
    <3>3. /\ bad \cap Span(s, len) # {}
          /\ ret' \in bad \cap Span(s, len)
          /\ \A x \in bad \cap Span(s, len) : ret' <= x
      <4>1. /\ bad \subseteq Nat /\ s \in Nat /\ len \in Nat /\ start_addr \in Nat /\ Word \in Nat
            /\ start_addr > 0 /\ s <= start_addr /\ bad \cap (s..(start_addr - 1)) = {}
        BY <1>0, <2>1
      <4>2. /\ bad \cap Span(s, len) # {}
            /\ CheckBytes8(start_addr, Word) \in bad \cap Span(s, len)
            /\ \A x \in bad \cap Span(s, len) : CheckBytes8(start_addr, Word) <= x
        BY <4>1, <2>4, <3>2, FoundFirst, Zenon
      <4> QED BY <3>1, <4>2
    <3> QED BY <2>1, <3>1, <3>2, <3>3 DEF args, FirstDifferentByte, Span
  <2>6. CASE bad \cap Span(start_addr, Word) = {}
    <3>1. start_addr' = start_addr + Word /\ words' = words - 1 /\ UNCHANGED <<pc, ret>>
      BY <1>3, <2>6 DEF Words
    <3>2. start_addr' % Word = 0
      <4>1. (start_addr % Word) + Word = Word
        BY <2>1, <1>0
      <4> QED BY <1>0, <3>1, <4>1, WordBoundary, Zenon
    <3>3. bad \cap (s..(start_addr' - 1)) = {}
      <4>1. start_addr \in Nat /\ bad \subseteq Nat
        OBVIOUS
      <4> HIDE DEF SearchInv, s, len
      <4> QED BY <1>0, <2>1, <2>6, <3>1, <4>1 DEF Span
    <3>4. FirstDifferentByte'
      BY <2>1, <3>1 DEF FirstDifferentByte
    <3>5. start_addr' + (words' * Word) + (bytes' % Word) = s + len
      BY <2>1, <2>4, <3>1
    <3>6. /\ bad' = bad /\ region' = region /\ bytes' = bytes /\ ret' = ret /\ pc' = "words"
          /\ start_addr' \in Nat /\ words' \in Nat /\ start_addr' >= s
      <4>1. start_addr \in Nat
        OBVIOUS
      <4> HIDE DEF SearchInv
      <4>2. start_addr' \in Nat /\ words' \in Nat /\ start_addr' >= s
        BY <1>0, <2>1, <2>2, <3>1, <4>1
      <4> QED BY <2>1, <3>1, <4>2 DEF args
    <3> QED BY <1>0, <3>2, <3>3, <3>4, <3>5, <3>6, Zenon
  <2> QED BY <2>5, <2>6
<1>4. CASE Rest
  <2> DEFINE n == bytes % Word
  <2>1. /\ pc = "words" /\ words = 0 /\ UNCHANGED <<args, start_addr, bytes, words>>
        /\ ret' = CheckBytes8(start_addr, n) /\ pc' = "returned"
        /\ start_addr >= s /\ start_addr > 0
        /\ bad \cap (s..(start_addr - 1)) = {}
    BY <1>0, <1>4 DEF Rest, Return
  <2>2. n \in Nat
    BY <1>0, WordsAndRest
  <2>3. start_addr + n = s + len
    <3>1. start_addr \in Nat /\ words = 0 /\ start_addr + words * Word + n = s + len
      BY <2>1
    <3> HIDE DEF SearchInv, n
    <3>2. words * Word = 0
      BY <1>0, <3>1
    <3> QED BY <1>0, <2>2, <3>1, <3>2
  <2> HIDE DEF n
  <2>4. ret' \in Nat /\ (ret' = 0 <=> bad \cap Span(start_addr, n) = {})
    BY <2>1, <2>2, FirstOfRange, Zenon
  <2>5. CASE ret' # 0
    <3>1. /\ bad \cap Span(s, len) # {}
          /\ ret' \in bad \cap Span(s, len)
          /\ \A x \in bad \cap Span(s, len) : ret' <= x
      <4>1. start_addr + n <= s + len /\ s <= start_addr /\ CheckBytes8(start_addr, n) # 0
        BY <1>0, <2>1, <2>2, <2>3, <2>5
      <4>2. start_addr \in Nat /\ bad \subseteq Nat
        OBVIOUS
      <4> HIDE DEF SearchInv
      <4> QED BY <1>0, <2>1, <2>2, <4>1, <4>2, FoundFirst, Zenon
    <3> QED BY <2>1, <2>4, <3>1, Zenon DEF args, FirstDifferentByte, Span
  <2>6. CASE ret' = 0
    <3>1. bad \cap Span(s, len) = {}
      <4>1. start_addr \in Nat /\ bad \cap Span(start_addr, n) = {}
        BY <2>4, <2>6
      <4> HIDE DEF SearchInv, s, len
      <4>2. Span(s, len) \subseteq (s..(start_addr - 1)) \cup Span(start_addr, n)
        BY <1>0, <2>1, <2>2, <2>3, <4>1 DEF Span
      <4> QED BY <2>1, <4>1, <4>2
    <3> QED BY <2>1, <2>4, <2>6, <3>1 DEF args, FirstDifferentByte, Span
  <2> QED BY <2>5, <2>6
<1>5. CASE UNCHANGED memchr
  BY <1>5 DEF memchr, args, FirstDifferentByte, Span
<1> QED BY <1>1, <1>2, <1>3, <1>4, <1>5, Zenon DEF NextMemchr

\* memchr_inv returns the address of the first byte of its region that is not c,
\* and 0 when there is none, as its comment says: for every word size, address
\* and length.
THEOREM MemchrInvCorrect == SpecMemchr => []FirstDifferentByte
<1>1. SearchInv => FirstDifferentByte
  BY DEF SearchInv
<1> QED BY InitSearch, NextSearch, <1>1, PTL DEF SpecMemchr

\* Every word that is read is aligned and inside the region.
THEOREM WordReadsInside == SpecMemchr => []AlignedInside
<1>1. ASSUME SearchInv PROVE AlignedInside
  <2> SUFFICES ASSUME pc = "words", words > 0
               PROVE  /\ start_addr % Word = 0
                      /\ start_addr >= region[1]
                      /\ start_addr + Word <= region[1] + region[2]
    BY DEF AlignedInside
  <2>1. Word \in Nat \ {0} /\ words \in Nat /\ bytes \in Nat
    BY <1>1, WordAssumption DEF SearchInv
  <2>2. /\ words * Word = ((words - 1) * Word) + Word
        /\ (words - 1) * Word \in Nat
    BY <2>1, OneWordFewer
  <2>3. bytes % Word \in Nat
    BY <2>1, WordsAndRest
  <2> QED BY <1>1, <2>1, <2>2, <2>3, SMTT(20) DEF SearchInv
<1> QED BY InitSearch, NextSearch, <1>1, PTL DEF SpecMemchr

=============================================================================
